------------------------------ MODULE MCDeployment ------------------------------
(* Five families of inputs.  Applying: two deployments of one datatype in  *)
(* two files, with specifications that extend each other or not.           *)
(* Declaring: one property with all kinds of declarations, defaults and    *)
(* values.  Using: three deployments in three files that import each other *)
(* in all ways.  Extending: the same files, with specifications of equal   *)
(* names or not.  Naming: packages, imported namespaces and references of  *)
(* several parts.                                                          *)
EXTENDS Deployment, TLC

CONSTANTS f1, f2, f3, s1, s2, s3, d1, d2, d3, a, b, t1, t2, h1, h2, p1, p2, x1, x2

Const(S, x) == [y \in S |-> x]

Single(kind, text) == [is_list |-> FALSE, items |-> <<[kind |-> kind, text |-> text]>>]
List(kind, text) == [Single(kind, text) EXCEPT !.is_list = TRUE]
v1 == Single("integer", x1)
v2 == Single("integer", x2)
bad == Single("string", x1)

Decl(p, type, array, liabilities) ==
    [name |-> p, type |-> type, is_array |-> array,
     enumerators |-> IF type = "Enum" THEN {x1} ELSE {}, liabilities |-> liabilities]
Integer(p, liabilities) == Decl(p, "Integer", FALSE, liabilities)
Block(h, parameters) == [host |-> h, parameters |-> parameters]
Set(p, v) == [name |-> p, value |-> v]
Elem(t, hosts, parameters) == [name |-> t, hosts |-> hosts, parameters |-> parameters]

(* The files import f3.fidl with the type collection a.t1 of two types.    *)
TwoTypes(namespace, name) ==
    [namespace |-> namespace, name |-> name, datatypes |-> a :> t1 @@ b :> t2]

Base ==
    [order |-> <<f1, f2>>,
     package |-> Const(Files, <<a>>),
     imports |-> f1 :> {} @@ f2 :> {[file |-> f1, namespace |-> <<>>]} @@ f3 :> {},
     collections |-> Const(Files, <<TwoTypes(<<a>>, <<b>>)>>),
     specifications |-> f1 :> <<s1>> @@ f2 :> <<s2>> @@ f3 :> <<>>,
     deployments |-> f1 :> <<d1>> @@ f2 :> <<d2>> @@ f3 :> <<>>,
     name |-> s1 :> <<a>> @@ s2 :> <<b>> @@ Const(Specifications \cup Deployments, <<>>),
     extends |-> Const(Specifications, <<>>),
     hosts |-> Const(Specifications, <<>>),
     specification |-> d1 :> <<a>> @@ d2 :> <<b>> @@ d3 :> <<a>>,
     target |-> Const(Deployments, <<a, b>>),
     uses |-> Const(Deployments, <<>>),
     elements |-> Const(Deployments, <<>>)]

(* Mandatory, optional, and two defaults.                                  *)
Liabilities == {<<>>, <<Optional>>, <<v1>>, <<v2>>}
Maybe(p, L) == {<<>>} \cup {<<Integer(p, x)>> : x \in L}
Settings == {<<>>, <<Set(p1, v1)>>, <<Set(p1, v2)>>}

ApplyingInputs ==
    {[Base EXCEPT !.extends[s2] = x, !.hosts[s1] = <<Block(h1, i), Block(h2, j)>>,
                  !.hosts[s2] = <<Block(h1, k)>>,
                  !.elements[d1] = <<Elem(a, {h1, h2}, u)>>,
                  !.elements[d2] = <<Elem(a, {h1}, v)>>] :
        x \in {<<>>, <<<<a>>>>, <<<<b>>>>}, i \in Maybe(p1, Liabilities), j \in Maybe(p1, {<<v2>>}),
        k \in Maybe(p1, Liabilities), u \in Settings, v \in Settings \cup {<<Set(p1, v1), Set(p1, bad)>>}}
    \cup
    {[Base EXCEPT !.extends[s2] = <<<<a>>>>,
                  !.hosts[s1] = <<Block(h1, <<Integer(p1, i)>>), Block(h2, <<Integer(p2, j)>>)>>,
                  !.deployments[f2] = <<d2, d3>>, !.specification[d3] = <<b>>,
                  !.elements[d1] = <<Elem(a, {h1}, u), Elem(t, {h2}, <<Set(p2, v1)>>)>>,
                  !.elements[d2] = <<Elem(a, {h1, h2}, <<Set(p1, v1), Set(p2, v2), Set(p1, v2)>>),
                                     Elem(a, {}, <<Set(p1, bad)>>)>>,
                  !.elements[d3] = <<Elem(a, {h1}, v)>>] :
        i \in Liabilities, j \in Liabilities, u \in Settings, v \in Settings, t \in {a, b}}

Values == {Single(k, x1) : k \in {"integer", "string", "boolean", "name"}} \cup
          {Single("name", x2), List("integer", x1), List("boolean", x1), List("name", x1), List("name", x2)}

(* A second block for the host, or a second declaration in it, or none.    *)
Hiding(p, x) ==
    {<<Block(h1, <<x>>)>>, <<Block(h1, <<Integer(p, <<>>), x>>)>>,
     <<Block(h1, <<Integer(p, <<>>)>>), Block(h1, <<x>>)>>}

DeclaringInputs ==
    UNION {{[Base EXCEPT !.hosts[s1] = blocks, !.elements[d1] = <<Elem(a, {h1}, set)>>] :
              blocks \in Hiding(p1, Decl(p1, type, array, liabilities)),
              set \in {<<>>} \cup {<<Set(p1, v)>> : v \in Values}} :
           type \in {"Integer", "String", "Enum", "Extension"}, array \in BOOLEAN,
           liabilities \in {<<>>, <<Optional, v1, v2>>, <<v1, v2>>} \cup {<<v>> : v \in Values} \cup
                           {<<Optional, v>> : v \in {List("name", x1), bad}}}

(* The orders that the graph transformer can produce: a file precedes one  *)
(* that it imports only if the import leads back to it.                    *)
Orders(imports) ==
    LET leadsTo(g, f) == \A C \in SUBSET Files :
            g \in C /\ (\A h \in C : imports[h] \subseteq C) => f \in C
    IN  {o \in [1..3 -> Files] :
            /\ ToSet(o) = Files
            /\ \A i, j \in 1..3 : i < j /\ o[j] \in imports[o[i]] => leadsTo(o[j], o[i])}

Graphs == {g \in [Files -> SUBSET Files] : \A f \in Files : f \notin g[f]}

ThreeFiles(g) ==
    {[Base EXCEPT !.order = o,
                  !.imports = [f \in Files |-> {[file |-> h, namespace |-> <<>>] : h \in g[f]}],
                  !.specifications = f1 :> <<s1>> @@ f2 :> <<s2>> @@ f3 :> <<s3>>] : o \in Orders(g)}

UsingInputs ==
    UNION {{[m EXCEPT !.deployments = f1 :> <<d1>> @@ f2 :> <<d2>> @@ f3 :> <<d3>>,
                      !.name = Const(Specifications, <<a>>) @@ d1 :> i @@ d2 :> <<a>> @@ d3 :> k,
                      !.specification = Const(Deployments, <<a>>),
                      !.uses = d1 :> <<<<a>>>> @@ d2 :> u @@ d3 :> <<>>] :
              m \in ThreeFiles(g), i \in {<<>>, <<b>>}, k \in {<<a>>, <<b>>},
              u \in {<<>>, <<<<b>>, <<a>>>>}} : g \in Graphs}

ExtendingInputs ==
    UNION {{[m EXCEPT !.deployments = f1 :> <<d1>> @@ f2 :> <<>> @@ f3 :> <<>>,
                      !.name = s1 :> <<a>> @@ s2 :> <<b>> @@ s3 :> k @@ Const(Deployments, <<>>),
                      !.extends = s1 :> <<<<b>>>> @@ s2 :> x @@ s3 :> y,
                      !.elements[d1] = <<Elem(a, {h1}, <<>>)>>] :
              m \in ThreeFiles(g), k \in {<<a>>, <<b>>}, x \in {<<>>, <<<<a>>>>},
              y \in {<<>>, <<<<a>>, <<b>>>>}} :
           g \in Graphs}

NamingInputs ==
    {[Base EXCEPT !.package[f1] = package,
                  !.imports[f2] = {[file |-> f1, namespace |-> n] : n \in namespaces},
                  !.deployments[f2] = <<d2, d3>>,
                  !.name[d1] = name, !.name[d2] = <<b, a>>, !.specification[d3] = <<b>>,
                  !.uses[d3] = <<use>>] :
        package \in {<<a>>, <<b>>, <<a, b>>, <<b, a>>},
        namespaces \in {{}, {<<>>}, {<<a>>}, {<<a, b>>}, {<<b>>}, {<<a>>, <<b>>}},
        name \in {<<a>>, <<b, a>>},
        use \in {<<a>>, <<b>>, <<a, a>>, <<b, a>>, <<a, b, a>>, <<b, b, a>>}}
    \cup
    {[Base EXCEPT !.package[f1] = package, !.specification[d2] = reference,
                  !.collections[f2] = collections, !.target[d2] = target,
                  !.elements[d2] = <<Elem(a, {h1}, <<Set(p1, v1)>>)>>,
                  !.hosts[s1] = <<Block(h1, <<Integer(p1, <<>>)>>)>>] :
        package \in {<<a>>, <<a, b>>},
        reference \in {<<a>>, <<b>>, <<a, a>>, <<b, a>>, <<b, b, a>>},
        collections \in {<<>>, <<TwoTypes(<<a>>, <<b>>)>>, <<TwoTypes(<<a>>, <<>>)>>,
                         <<TwoTypes(<<a>>, <<b>>), TwoTypes(<<a, b>>, <<>>)>>,
                         <<TwoTypes(<<b>>, <<b>>), [TwoTypes(<<a>>, <<a>>) EXCEPT !.datatypes = b :> t2]>>},
        target \in {<<a>>, <<a, b>>, <<a, a>>, <<a, a, b>>, <<b, b>>}}

MCPrograms ==
    ApplyingInputs \cup DeclaringInputs \cup UsingInputs \cup ExtendingInputs \cup NamingInputs
=============================================================================
