---------------------------- MODULE MCModelPipeline ----------------------------
(* An instance of ModelPipeline with two parsers.                          *)
EXTENDS ModelPipeline, TLC

CONSTANTS P, Q, I, J

(* Nothing to merge, both pickles, and a merge that starts with an         *)
(* aggregate.                                                              *)
MCInputLists == {<<>>, <<P, Q>>, <<Aggregate, Q>>}

Interchangeable == Permutations(Ids)
=============================================================================
