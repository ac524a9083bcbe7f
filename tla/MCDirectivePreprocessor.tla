------------------------ MODULE MCDirectivePreprocessor ------------------------
(* All files of up to five lines, and longer ones that open one block and  *)
(* fill every branch of it.                                                *)
EXTENDS DirectivePreprocessor

CONSTANTS a, b

If(s) == [kind |-> "if", symbol |-> s]
Elif(s) == [kind |-> "elif", symbol |-> s]
Other(kind) == [kind |-> kind, symbol |-> a]

Text == Other("text")
Branches == {Elif(a), Elif(b), Other("else")}
MCLines == {If(a), If(b), Other("endif"), Text} \cup Branches

Short == UNION {[1..n -> MCLines] : n \in 0..5}
Long ==
    {<<If(s), Text, h1, Text, h2, Text, h3, Text, Other("endif"), last>> :
        s \in Symbols, h1 \in Branches, h2 \in Branches, h3 \in Branches,
        last \in {Text, If(b), Other("else")}}

MCInputs == [lines : Short \cup Long, defines : {{}, {a}, {b}}]
=============================================================================
