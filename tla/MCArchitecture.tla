---------------------------- MODULE MCArchitecture ----------------------------
(* One chain with every trigger graph over up to three activities, spread  *)
(* over two applications in several ways; and up to three small chains on  *)
(* ECUs with one to three applications.                                    *)
EXTENDS Architecture, TLC

CONSTANTS a, b, c, x, y, z

MCNames == {"A", "B", "C"}
Distinct == (a :> "A" @@ b :> "B" @@ c :> "C")
Clashing == (a :> "A" @@ b :> "B" @@ c :> "A")

Triggered(activities) ==
    {[i \in DOMAIN activities |-> [activity |-> activities[i], triggered_by |-> T[i]]] :
        T \in [DOMAIN activities -> SUBSET Activities]}
Graphs ==
    {<<>>} \cup UNION {Triggered(s) : s \in {<<a>>, <<b, a>>, <<a, b, c>>, <<a, b, a>>}}

OneChain ==
    [activity_name : {Distinct, Clashing},
     application_name : {x :> "A" @@ y :> "B" @@ z :> "C"},
     activities : {x :> <<a, b>> @@ y :> <<c>> @@ z :> <<b>>,
                   x :> <<a, b>> @@ y :> <<c, b>> @@ z :> <<a, c>>},
     chains : {<<[name |-> "A", applications |-> apps, nodes |-> g]>> :
                   apps \in {<<>>, <<x>>, <<x, y>>, <<y, x>>, <<x, y, z>>}, g \in Graphs},
     deployed : {<<x, y, z>>}]

Alone(n, app, act) == [name |-> n, applications |-> <<app>>, nodes |-> <<[activity |-> act, triggered_by |-> {}]>>]
Pair(n) ==
    [name |-> n, applications |-> <<x, y>>,
     nodes |-> <<[activity |-> b, triggered_by |-> {a}], [activity |-> a, triggered_by |-> {}]>>]
SmallChains ==
    {Alone("A", x, a), Alone("B", y, b), Alone("B", z, c), Alone("C", z, a), Alone("A", x, b), Pair("C")}

SeveralChains ==
    [activity_name : {Distinct},
     application_name : {x :> "A" @@ y :> "B" @@ z :> "C", x :> "A" @@ y :> "B" @@ z :> "A"},
     activities : {x :> <<a>> @@ y :> <<b>> @@ z :> <<c>>, x :> <<a, b>> @@ y :> <<b>> @@ z :> <<a, c>>},
     chains : UNION {[1..n -> SmallChains] : n \in 0..3},
     deployed : UNION {[1..n -> Applications] : n \in 0..3}]

MCPrograms == OneChain \cup SeveralChains
=============================================================================
