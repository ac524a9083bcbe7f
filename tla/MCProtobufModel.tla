---------------------------- MODULE MCProtobufModel ----------------------------
(* Four families of inputs, each of which varies one part of a program and *)
(* keeps the others simple: the dependencies of the files, the keys and    *)
(* names of declarations, the fields of messages, the options.             *)
EXTENDS ProtobufModel, TLC

CONSTANTS f1, f2, f3, d1, d2, d3, k1, k2, k3, k4

PlainField == [types |-> "field_data_type" :> k1, oneof |-> 0, proto3_optional |-> FALSE,
               options |-> NoOptions]
Named(k) == [PlainField EXCEPT !.types = "field_data_type" :> k]
Repeated(k) == [PlainField EXCEPT !.types = "array_element_type" :> k]
MapOf(k, v) == [PlainField EXCEPT !.types = "map_key_type" :> k @@ "map_value_type" :> v]

PlainMessage == [kind |-> "message", options |-> NoOptions, fields |-> <<>>, oneofs |-> <<>>,
                 values |-> <<>>, allow_alias |-> FALSE]
PlainEnum == [PlainMessage EXCEPT !.kind = "enum", !.values = <<0, 1>>]
Message(fields) == [PlainMessage EXCEPT !.fields = fields]
NamesIn(ks) == [d \in Definitions |-> Message([i \in DOMAIN ks[d] |-> Named(ks[d][i])])]

WithMembers(ms) == ms @@ [x \in Files \cup Definitions |-> <<>>]
NoDependency == [f \in Files |-> {}]
Chain == f1 :> {f2} @@ f2 :> {f3} @@ f3 :> {}
OwnKeys == d1 :> k1 @@ d2 :> k2 @@ d3 :> k3

-----------------------------------------------------------------------------
(* Three files depend on each other in every possible way and are listed in*)
(* various orders, some missing, some twice, some malformed or not proto3. *)
Orders ==
    {<<f1, f2, f3>>, <<f3, f2, f1>>, <<f2, f3, f1>>, <<f1, f3>>, <<f2, f1, f2>>, <<f3, f1, f1>>}

FilePrograms ==
    [order : Orders, proto3 : {Files, {f1, f3}},
     dependency : {g \in [Files -> SUBSET Files] : \A f \in Files : f \notin g[f]},
     malformed : {{}, {f2}}, map_entries : {{}}, options : {[f \in Files |-> NoOptions]},
     members : {WithMembers(f1 :> <<d1>>)}, key : {OwnKeys},
     descriptor : {NamesIn([d \in Definitions |-> <<k1>>])}]

(* Three messages nested in several ways have all keys and name all keys,  *)
(* that of descriptor.proto, k4, too, with imports and without.            *)
Nestings ==
    {WithMembers(f1 :> <<d1>> @@ f2 :> <<d3>> @@ d1 :> <<d2>>),
     WithMembers(f1 :> <<d3, d1>> @@ d1 :> <<d2>>),
     WithMembers(f2 :> <<d1>> @@ d1 :> <<d2>> @@ d2 :> <<d3>>),
     WithMembers(f1 :> <<d2, d1>> @@ f3 :> <<d3>>)}

KeyPrograms ==
    [order : {<<f1, f2>>, <<f2, f1>>, <<f1, f2, f3>>}, proto3 : {Files},
     dependency : {NoDependency, Chain, f1 :> {} @@ f2 :> {f1} @@ f3 :> {f2}},
     malformed : {{}}, map_entries : {{}, {f2}},
     options : {[f \in Files |-> NoOptions]}, members : Nestings, key : [Definitions -> Keys],
     descriptor : {NamesIn([d \in Definitions |-> <<k1>>]),
                   NamesIn([d \in Definitions |-> <<k2, k3>>]),
                   NamesIn(d1 :> <<k4, k2, k4>> @@ d2 :> <<k1>> @@ d3 :> <<k4>>),
                   NamesIn(d1 :> <<k3, k2, k3>> @@ d2 :> <<k1>> @@ d3 :> <<>>)}]

(* Up to four fields of all kinds, in two oneofs or none, in any order.    *)
InOneof(n, field) == [field EXCEPT !.oneof = n]
MaxCount(v, field) == [field EXCEPT !.options = "max_count" :> v]
FieldChoices ==
    {Named(k2), Named(Primitive), InOneof(1, Named(Primitive)), InOneof(1, Named(k3)),
     InOneof(2, Named(k2)), [InOneof(3, Named(k2)) EXCEPT !.proto3_optional = TRUE]}
OtherFields ==
    {InOneof(4, Named(k2)), Named(k4), Repeated(k2), MapOf(Primitive, k2), MapOf(Primitive, k3), MapOf(k1, k3),
     [PlainField EXCEPT !.types = "map_key_type" :> Primitive],
     MaxCount("number", Repeated(k2)), MaxCount("text", Repeated(Primitive)),
     MaxCount("flag", Repeated(k3)), MaxCount("text", Named(k2))}
FieldLists ==
    BoundedSeq(FieldChoices, 3) \cup BoundedSeq(OtherFields, 2)
        \cup {<<a, b, c, a>> : a, b, c \in FieldChoices}
EnumChoices ==
    [kind : {"enum"}, options : {NoOptions}, fields : {<<>>}, oneofs : {<<>>},
     values : {<<>>, <<0, 1>>, <<0, -1>>, <<1, 0>>, <<0, 1, 0>>}, allow_alias : BOOLEAN]

FieldPrograms ==
    [order : {<<f1>>}, proto3 : {Files}, dependency : {NoDependency}, malformed : {{}},
     map_entries : {{}},
     options : {[f \in Files |-> NoOptions]},
     members : {WithMembers(f1 :> <<d2, d1>>), WithMembers(f1 :> <<d1>> @@ d1 :> <<d2, d3>>)},
     key : {OwnKeys},
     descriptor : {d1 :> [Message(fields) EXCEPT !.oneofs = <<NoOptions, NoOptions, NoOptions>>]
                       @@ d2 :> PlainEnum @@ d3 :> Message(<<Named(k1)>>) : fields \in FieldLists}
                  \cup {d1 :> Message(<<Named(k2)>>) @@ d2 :> enum @@ d3 :> PlainMessage :
                            enum \in EnumChoices}]

(* A file's options and those of a message, an enum in it and a oneof.     *)
FileOptions ==
    {NoOptions, "other" :> "text" @@ "size" :> "ES_16", "description" :> "text" @@ "other" :> "flag",
     "description" :> "flag" @@ "max_count" :> "number"}
LocalOptions ==
    {NoOptions, "other" :> "number", "description" :> "flag", "description" :> "text" @@ "size" :> "ES_8"}
EnumOptions == LocalOptions \cup {"size" :> "ES_16" @@ "max_count" :> "text", "size" :> "text", "size" :> "flag"}

OptionPrograms ==
    [order : {<<f1, f2>>}, proto3 : {Files}, dependency : {NoDependency}, malformed : {{}},
     map_entries : {{}},
     options : {f1 :> a @@ f2 :> b @@ f3 :> NoOptions : a, b \in FileOptions},
     members : {WithMembers(f1 :> <<d1>> @@ f2 :> <<d3>> @@ d1 :> <<d2>>),
                WithMembers(f2 :> <<d2, d1>> @@ f1 :> <<d3>>)},
     key : {OwnKeys},
     descriptor : {d1 :> [PlainMessage EXCEPT !.options = o, !.oneofs = <<NoOptions, u>>,
                                              !.fields = <<InOneof(2, Named(k2))>>]
                       @@ d2 :> [PlainEnum EXCEPT !.options = e] @@ d3 :> PlainMessage :
                           o, u \in LocalOptions, e \in EnumOptions}]

MCPrograms == FilePrograms \cup KeyPrograms \cup FieldPrograms \cup OptionPrograms
=============================================================================
