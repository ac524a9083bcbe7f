--------------------------- MODULE MCBatchRunner ---------------------------
(***************************************************************************)
(* Instances of BatchRunner for TLC.                                       *)
(***************************************************************************)
EXTENDS BatchRunner, TLC

CONSTANTS f1, f2, f3, f4, t1, t2, p1, p2

(* Up to four files in batches of two: full and partial batches, a path    *)
(* listed twice, and a missing file at the end and before it.              *)
Listings == {<<f1, f2, f1, f3>>, <<f1, f2, f3, f4>>, <<f1, f2, f3, Missing>>,
             <<f1, Missing, f2>>}

(* Three files, all present or the last one missing.                       *)
ShortListings == {<<f1, f2, f3>>, <<f1, f2, f3, Missing>>}

Interchangeable == Permutations(Procs) \cup Permutations(Threads)
=============================================================================
