--------------------------- MODULE MCFrancaFileGraph ---------------------------
(* Instances of FrancaFileGraph.  The first family has all import graphs   *)
(* over three files and few declarations, the second all ways to write a   *)
(* name over a few graphs, the third what a single file can say wrongly.   *)
EXTENDS FrancaFileGraph, TLC

CONSTANTS A, B, C, p, q, U, S, E, T

MCFiles == {A, B, C}

On(f, x, g, y, h, z) == f :> x @@ g :> y @@ h :> z

(* Declarations: T is the name that is looked for.                         *)
Type(name, kind, places) == [name |-> name, kind |-> kind, places |-> places, values |-> <<>>]
Place1(r, reference) == <<[role |-> r, reference |-> reference]>>
Leaf == Type(T, "enum", <<>>)
ArrayOf(name, reference) == Type(name, "array", Place1("type", reference))
StructWith(name, reference) == Type(name, "struct", Place1("field", reference))
AnonymousWith(types) == IF types = <<>> THEN <<>> ELSE <<[name |-> <<>>, types |-> types]>>
Import(f, name) == [file |-> f, namespace |-> name]

-----------------------------------------------------------------------------
(* Every list of distinct files other than f.                              *)
ImportLists(f) ==
    {<<>>} \cup {<<g>> : g \in MCFiles \ {f}}
           \cup {s \in (MCFiles \ {f}) \X (MCFiles \ {f}) : s[1] # s[2]}

MCImports ==
    {On(A, [i \in DOMAIN a |-> Import(a[i], <<>>)], B, [i \in DOMAIN b |-> Import(b[i], <<>>)],
        C, [i \in DOMAIN c |-> Import(c[i], <<>>)]) :
        a \in ImportLists(A), b \in ImportLists(B), c \in ImportLists(C)}

Contents ==
    {AnonymousWith(types) : types \in
        {<<>>, <<Leaf>>, <<ArrayOf(E, <<T>>)>>, <<ArrayOf(E, <<T>>), Leaf>>,
         <<StructWith(S, <<E>>)>>}}

(* All files are given on the command line, and the last one is not.       *)
GraphPrograms ==
    [roots : {<<A>>, <<A, B>>}, allowed : {MCFiles}, package : {On(A, <<p>>, B, <<q>>, C, <<U>>)},
     imports : MCImports, collections : [MCFiles -> Contents]]
    \cup
    [roots : {<<A, B>>}, allowed : {{A, B}}, package : {On(A, <<p>>, B, <<q>>, C, <<U>>)},
     imports : MCImports, collections : [MCFiles -> {AnonymousWith(<<Leaf>>)}]]

-----------------------------------------------------------------------------
(* T is declared here and there, in a collection U or not; A refers to it. *)
Layouts == {<<>>, <<[name |-> <<>>, types |-> <<Leaf>>]>>, <<[name |-> <<U>>, types |-> <<Leaf>>]>>}
Spellings == {<<T>>, <<U, T>>, <<q, T>>, <<q, U, T>>, <<p, q, U, T>>, <<p, q, T>>}

NamedImports ==
    {On(A, <<>>, B, <<>>, C, <<>>)}
    \cup
    {On(A, a, B, b, C, <<>>) :
        a \in {<<Import(B, n), Import(C, <<>>)>> : n \in {<<>>, <<p>>, <<p, q>>}}
              \cup {<<Import(C, <<>>), Import(B, <<>>), Import(B, <<p>>)>>},
        b \in {<<>>, <<Import(A, <<>>)>>}}

NamePrograms ==
    [roots : {<<A>>, <<B, A>>}, allowed : {MCFiles},
     package : {On(A, a, B, <<p, q>>, C, c) : a \in {<<p>>, <<p, q>>}, c \in {<<q>>, <<p, q>>}},
     imports : NamedImports,
     collections : {On(A, here \o a, B, b, C, c) :
        here \in {<<[name |-> n, types |-> <<StructWith(S, r)>>]>> : n \in {<<>>, <<E>>},
                                                                   r \in Spellings},
        a \in Layouts, b \in Layouts, c \in {<<>>, AnonymousWith(<<Leaf>>)}}]

-----------------------------------------------------------------------------
(* Names and literals that are declared twice, and base types.             *)
Enum(values) == [Leaf EXCEPT !.values = values]
Extending(kind) == Type(S, kind, Place1("extends", <<T>>))

KindPrograms ==
    [roots : {<<A>>}, allowed : {MCFiles}, package : {On(A, <<p>>, B, <<q>>, C, <<q>>)},
     imports : {On(A, a, B, b, C, <<>>) : a \in {<<>>, <<Import(B, <<>>)>>},
                                          b \in {<<>>, <<Import(A, <<>>)>>}},
     collections : {On(A, <<[name |-> n, types |-> x]>> \o y, B, AnonymousWith(z), C, <<>>) :
        n \in {<<>>, <<U>>},
        x \in {<<>>} \cup {<<Extending(k)>> : k \in {"struct", "union", "enum"}},
        y \in {<<>>, <<[name |-> <<U>>, types |-> <<Leaf>>]>>, AnonymousWith(<<Leaf>>),
               AnonymousWith(<<Type(T, "struct", <<>>), Type(T, "union", <<>>)>>),
               <<[name |-> <<>>, types |-> <<Leaf>>], [name |-> <<>>, types |-> <<Leaf>>]>>},
        z \in {<<>>, <<Type(T, "struct", <<>>)>>, <<StructWith(E, <<S>>)>>, <<Extending("enum")>>}
              \cup {<<Enum(v)>> : v \in {<<Implicit, Implicit>>, <<1, Implicit, 2>>,
                                        <<-1, Implicit, 1, Implicit>>, <<Implicit, 0>>}}}]

-----------------------------------------------------------------------------
(* C and B import each other; an array of C has an element T of B.  A has a*)
(* field of this array and imports a namespace of B with another T.        *)
ElementPrograms ==
    [roots : {<<A>>, <<B, A>>, <<A, B>>}, allowed : {MCFiles},
     package : {On(A, <<p>>, B, <<q>>, C, <<U>>)},
     imports : {On(A, <<Import(C, <<>>), Import(B, n)>>, B, b, C, <<Import(B, <<>>)>>) :
        n \in {<<>>, <<q, U>>}, b \in {<<>>, <<Import(C, <<>>)>>}},
     collections : {On(A, AnonymousWith(a), B, b, C, AnonymousWith(<<ArrayOf(E, <<T>>)>>)) :
        a \in {<<StructWith(S, <<E>>)>>, <<StructWith(S, <<E>>), Leaf>>, <<StructWith(S, <<T>>)>>},
        b \in {<<[name |-> <<>>, types |-> <<Leaf>>], [name |-> <<U>>, types |-> <<Leaf>>]>>,
               AnonymousWith(<<Leaf>>)}}]

MCPrograms == GraphPrograms \cup NamePrograms \cup KindPrograms \cup ElementPrograms

-----------------------------------------------------------------------------
(* Three files of which two import each other.                             *)
CircularPrograms ==
    [roots : {<<A, B>>}, allowed : {MCFiles}, package : {On(A, <<p>>, B, <<q>>, C, <<U>>)},
     imports : {On(A, <<Import(C, <<>>)>>, B, <<Import(C, <<>>)>>, C, <<Import(B, <<>>)>>)},
     collections : [MCFiles -> Contents]]
=============================================================================
