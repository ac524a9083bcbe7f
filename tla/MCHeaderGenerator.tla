--------------------------- MODULE MCHeaderGenerator ---------------------------
(* Three typedefs that refer to each other, to a primitive or to something *)
(* unsupported in every possible way, and three names of which two differ  *)
(* by case only.  The order in which they are selected is fixed: another   *)
(* order is another numbering of the typedefs.                             *)
EXTENDS HeaderGenerator, TLC

CONSTANTS t1, t2, t3

MCNames == {"ns.T", "ns.t", "ns.U"}
MCFold == [n \in MCNames |-> IF n = "ns.U" THEN "ns.u" ELSE "ns.t"]

Naming(a, b, c) == (t1 :> a @@ t2 :> b @@ t3 :> c)
Namings ==
    {Naming("ns.T", "ns.U", "ns.t"), Naming("ns.t", "ns.T", "ns.U"),
     Naming("ns.T", "ns.U", "ns.U"), Naming("ns.U", "ns.T", Anonymous)}
Selections == {<<t1, t2, t3>>, <<t2, t1>>, <<t1, Other>>}

MCModels ==
    [selected : Selections, name : Namings, data_type : [Typedefs -> Datatypes]]
=============================================================================
