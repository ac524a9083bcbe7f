----------------------------- MODULE ProtobufModel -----------------------------
(***************************************************************************)
(* Parsing of protobuf descriptor sets (parsers/protobuf_parser: api.py,   *)
(* transformer.py, resolver.py, common.py, option_decoder.py).             *)
(*                                                                         *)
(* The files of all descriptor sets are one list.  First a descriptor pool *)
(* for the options is built from it, in rounds, since a file must follow   *)
(* the files that it depends on; the library checks each file and raises   *)
(* for the first that it does not take.  Then the declarations of every    *)
(* file are registered by key, nested ones by recursion, and every field   *)
(* whose type is not a primitive is recorded.  Then all these references   *)
(* are resolved by key, and what cannot be resolved is reported at once.   *)
(***************************************************************************)
EXTENDS Integers, FiniteSets, SequencesExt

CONSTANTS
    Files,        \* logical file names
    Definitions,  \* messages and enums, other than the entries of maps
    Keys,         \* fully qualified names
    Builtin,      \* those of descriptor.proto, which is in every pool and is not transformed
    Primitive,    \* any primitive type
    Programs      \* the inputs: see Program

(* Options by the last part of their name, and the kinds of value that they*)
(* are decoded to: every value but a flag and a number is a string.        *)
OptionNames == {"description", "max_count", "size", "other"}
Texts == {"text", "ES_8", "ES_16", "ES_32"}
Options == UNION {[N -> Texts \cup {"flag", "number"}] : N \in SUBSET OptionNames}

(* ReferenceTargetKind, the key of a map before its value.                 *)
Kinds == <<"field_data_type", "array_element_type", "map_key_type", "map_value_type">>

(* types are what a field holds: its type, or the type of its elements, or *)
(* those of the entries of a map, if the entries are well-formed.  oneof   *)
(* is the number of a oneof, or 0.                                         *)
Field ==
    [types : UNION {[K -> Keys \cup {Primitive}] : K \in SUBSET ToSet(Kinds)},
     oneof : Nat, proto3_optional : BOOLEAN, options : Options]

(* An enum has values, a message fields and oneofs, these with options.    *)
Descriptor ==
    [kind : {"message", "enum"}, options : Options, fields : Seq(Field), oneofs : Seq(Options),
     values : Seq(Int), allow_alias : BOOLEAN]

(* order is the combined list of files; a file can occur twice in it.      *)
(* members[x] are the declarations directly in a file or in a message,     *)
(* enums first.  A file of map_entries has such an entry outside messages. *)
(* A malformed file is one that no pool accepts, for a reason of its own   *)
(* that CanBuild does not say.  descriptor.proto is left out everywhere.   *)
Program ==
    [order : Seq(Files), proto3 : SUBSET Files, dependency : [Files -> SUBSET Files],
     malformed : SUBSET Files, map_entries : SUBSET Files, options : [Files -> Options],
     members : [Files \cup Definitions -> Seq(Definitions)],
     key : [Definitions -> Keys], descriptor : [Definitions -> Descriptor]]

(* Every declaration is in one place.                                      *)
IsForest(members) ==
    \A x, y \in DOMAIN members : \A i \in DOMAIN members[x], j \in DOMAIN members[y] :
        members[x][i] = members[y][j] => x = y /\ i = j

ASSUME ProtobufModelAssumption ==
    /\ IsFiniteSet(Files) /\ IsFiniteSet(Definitions)
    /\ Files \cap Definitions = {} /\ Builtin \subseteq Keys
    /\ Programs \subseteq Program
    /\ \A p \in Programs : IsForest(p.members)

VARIABLES
    program,               \* the input; it never changes
    phase,                 \* "loading", "pool", "transforming", "resolving", "done", "failed"
    remaining_files,       \* the files that are still to do in this phase or round
    deferred_files,        \* files that wait for the next round
    available_files,       \* files in the pool
    added_file,            \* whether this round has added one
    stack,                 \* files and messages being transformed, with the members to do
    definitions_by_key,    \* pairs <<key, definition>>
    definitions,           \* what is known of each definition
    unresolved_references, \* slots: triples <<definition, field, kind>>
    bound,                 \* pairs <<slot, definition>>
    resolver_issues        \* slots that could not be resolved

pool == <<deferred_files, available_files, added_file>>
transformation == <<stack, definitions_by_key, definitions>>
resolution == <<bound, resolver_issues>>
vars == <<program, phase, remaining_files, pool, transformation, unresolved_references, resolution>>

Slots == Definitions \X Nat \X ToSet(Kinds)

(* The fields of a struct: each is one of the message's fields, or a union *)
(* that stands for a oneof, with the fields that are its members.          *)
DefinitionRecord ==
    [deployment_properties : Options, size : {8, 16, 32}, signed : BOOLEAN,
     fields : Seq([oneof : Nat, members : Seq(Nat)]),
     unions : SUBSET [oneof : Nat, options : Options]]
NoOptions == [n \in {} |-> "flag"]
Blank ==
    [deployment_properties |-> NoOptions, size |-> 32, signed |-> FALSE,
     fields |-> <<>>, unions |-> {}]

TypeOK ==
    /\ program \in Programs
    /\ phase \in {"loading", "pool", "transforming", "resolving", "done", "failed"}
    /\ remaining_files \in Seq(Files) /\ deferred_files \in Seq(Files)
    /\ available_files \subseteq Files /\ added_file \in BOOLEAN
    /\ stack \in Seq([owner : Files \cup Definitions, rest : Seq(Definitions)])
    /\ definitions_by_key \subseteq Keys \X Definitions
    /\ definitions \in [Definitions -> DefinitionRecord]
    /\ unresolved_references \in Seq(Slots)
    /\ bound \subseteq Slots \X Definitions
    /\ resolver_issues \in Seq(Slots)

Init ==
    /\ program \in Programs
    /\ phase = "loading" /\ remaining_files = program.order
    /\ deferred_files = <<>> /\ available_files = {} /\ added_file = FALSE
    /\ stack = <<>> /\ definitions_by_key = {} /\ definitions = [d \in Definitions |-> Blank]
    /\ unresolved_references = <<>>
    /\ bound = {} /\ resolver_issues = <<>>

Fail ==
    /\ phase' = "failed"
    /\ UNCHANGED <<program, remaining_files, pool, transformation, unresolved_references, resolution>>

-----------------------------------------------------------------------------
(* load_descriptor_sets, _validate_descriptor_set, _option_descriptor_pool.*)

IsProto3 == ToSet(program.order) \subseteq program.proto3

Validate ==
    /\ phase = "loading" /\ IsProto3
    /\ phase' = "pool"
    /\ UNCHANGED <<program, remaining_files, pool, transformation, unresolved_references, resolution>>

RejectSyntax ==
    /\ phase = "loading" /\ ~IsProto3
    /\ Fail

(* Mutant: the files are added in the order in which they are listed.      *)
AnyFileIsReady(f) == TRUE

HasDependencies(f) == program.dependency[f] \subseteq available_files

(* The declarations in a file, at whatever depth.                          *)
Within(x) ==
    {d \in Definitions :
        \A D \in SUBSET Definitions :
            (\A y \in {x} \cup D : ToSet(program.members[y]) \subseteq D) => d \in D}

(* The places of a field that hold the name of a type.                     *)
NamedKinds(field) == {k \in DOMAIN field.types : field.types[k] # Primitive}

NamedTypes(descriptor) ==
    UNION {{descriptor.fields[i].types[k] : k \in NamedKinds(descriptor.fields[i])} :
              i \in DOMAIN descriptor.fields}

KeysOf(f) == {program.key[d] : d \in Within(f)}
Known == Builtin \cup UNION {KeysOf(f) : f \in available_files}

(* What DescriptorPool.Add checks in a declaration of a proto3 file: oneofs*)
(* exist, that of an optional field is its own, an enum begins with zero.  *)
IsDescriptor(descriptor) ==
    LET fields == descriptor.fields
    IN  /\ \A i \in DOMAIN fields : fields[i].oneof \in {0} \cup DOMAIN descriptor.oneofs
        /\ \A i, j \in DOMAIN fields :
              fields[i].proto3_optional /\ fields[i].oneof \in {0, fields[j].oneof} =>
                  fields[i].oneof # 0 /\ i = j
        /\ descriptor.kind = "enum" => descriptor.values # <<>> /\ descriptor.values[1] = 0

(* DescriptorPool.Add: a file is ignored if the pool has it.  Otherwise its*)
(* keys must be new and every type that it names in it or in the pool, in  *)
(* whatever file: the library does not ask what the file imports.          *)
CanBuild(f) ==
    \/ f \in available_files
    \/ /\ f \notin program.malformed /\ KeysOf(f) \cap Known = {}
       /\ \A d, e \in Within(f) : program.key[d] = program.key[e] => d = e
       /\ \A d \in Within(f) :
              /\ IsDescriptor(program.descriptor[d])
              /\ NamedTypes(program.descriptor[d]) \subseteq Known \cup KeysOf(f)

AddToPool ==
    /\ phase = "pool" /\ remaining_files # <<>> /\ HasDependencies(Head(remaining_files))
    /\ CanBuild(Head(remaining_files))
    /\ available_files' = available_files \cup {Head(remaining_files)}
    /\ added_file' = TRUE
    /\ remaining_files' = Tail(remaining_files)
    /\ UNCHANGED <<program, phase, deferred_files, transformation, unresolved_references, resolution>>

(* The TypeError of Add, or of FindFileByName where a file is built late.  *)
RejectFile ==
    /\ phase = "pool" /\ remaining_files # <<>> /\ HasDependencies(Head(remaining_files))
    /\ ~CanBuild(Head(remaining_files))
    /\ Fail

Defer ==
    /\ phase = "pool" /\ remaining_files # <<>> /\ ~HasDependencies(Head(remaining_files))
    /\ deferred_files' = Append(deferred_files, Head(remaining_files))
    /\ remaining_files' = Tail(remaining_files)
    /\ UNCHANGED <<program, phase, available_files, added_file, transformation, unresolved_references, resolution>>

(* Mutant: a round that has added nothing is followed by another.          *)
AnyRoundIsFine == TRUE

CanGoOn == added_file

NextRound ==
    /\ phase = "pool" /\ remaining_files = <<>> /\ deferred_files # <<>> /\ CanGoOn
    /\ remaining_files' = deferred_files /\ deferred_files' = <<>>
    /\ added_file' = FALSE
    /\ UNCHANGED <<program, phase, available_files, transformation, unresolved_references, resolution>>

(* "unresolved dependencies": missing files, or files in a cycle.          *)
RejectDependencies ==
    /\ phase = "pool" /\ remaining_files = <<>> /\ deferred_files # <<>> /\ ~CanGoOn
    /\ Fail

EndPool ==
    /\ phase = "pool" /\ remaining_files = <<>> /\ deferred_files = <<>>
    /\ phase' = "transforming" /\ remaining_files' = program.order
    /\ UNCHANGED <<program, pool, transformation, unresolved_references, resolution>>

-----------------------------------------------------------------------------
(* OptionDecoder.                                                          *)

(* A description that is text and a maximal count are no properties.       *)
deployment_properties(options) ==
    [n \in {m \in DOMAIN options : /\ m # "max_count"
                                   /\ m = "description" => options[m] \notin Texts}
        |-> options[n]]

(* Mutant: what a file says counts more than what a declaration says.      *)
MergedFileFirst(f, options) ==
    LET inherited == deployment_properties(program.options[f])
        local == deployment_properties(options)
    IN  [n \in DOMAIN inherited \cup DOMAIN local |->
            IF n \in DOMAIN inherited THEN inherited[n] ELSE local[n]]

(* _merge_options: what a declaration says counts more than what its file  *)
(* says.                                                                   *)
Merged(f, options) ==
    LET inherited == deployment_properties(program.options[f])
        local == deployment_properties(options)
    IN  [n \in DOMAIN inherited \cup DOMAIN local |->
            IF n \in DOMAIN local THEN local[n] ELSE inherited[n]]

Sizes == [ES_8 |-> 8, ES_16 |-> 16, ES_32 |-> 32]

(* The size of an enum is its own option, not one of its file.             *)
HasSize(options) == "size" \in DOMAIN options => options["size"] \in DOMAIN Sizes
Size(options) == IF "size" \in DOMAIN options THEN Sizes[options["size"]] ELSE 32

-----------------------------------------------------------------------------
(* DescriptorSetTransformer.transform, its recursion as a stack.           *)

Top == stack[Len(stack)]
Below == SubSeq(stack, 1, Len(stack) - 1)
Frame(owner) == [owner |-> owner, rest |-> program.members[owner]]
File == stack[1].owner

TransformFile ==
    /\ phase = "transforming" /\ stack = <<>> /\ remaining_files # <<>>
    /\ Head(remaining_files) \notin program.map_entries
    /\ stack' = <<Frame(Head(remaining_files))>>
    /\ remaining_files' = Tail(remaining_files)
    /\ UNCHANGED <<program, phase, pool, definitions_by_key, definitions, unresolved_references,
                   resolution>>

(* "top-level map entry is unsupported".                                   *)
RejectMapEntry ==
    /\ phase = "transforming" /\ stack = <<>> /\ remaining_files # <<>>
    /\ Head(remaining_files) \in program.map_entries
    /\ Fail

Declares(d) ==
    /\ phase = "transforming" /\ stack # <<>> /\ Top.rest # <<>>
    /\ d = Head(Top.rest)

IsNewKey(d) == \A e \in Definitions : <<program.key[d], e>> \notin definitions_by_key

(* The values of an enum must differ, unless it allows aliases.            *)
IsEnum(descriptor) ==
    /\ HasSize(descriptor.options)
    /\ descriptor.allow_alias \/ IsInjective(descriptor.values)

CanDefine(d) ==
    IsNewKey(d) /\ (program.descriptor[d].kind = "enum" => IsEnum(program.descriptor[d]))

Defined(descriptor) ==
    LET properties == Merged(File, descriptor.options)
    IN  IF descriptor.kind = "message" THEN [Blank EXCEPT !.deployment_properties = properties]
        ELSE [Blank EXCEPT !.deployment_properties = properties,
                           !.size = Size(descriptor.options),
                           !.signed = \E v \in ToSet(descriptor.values) : v < 0]

(* _transform_enum, and _transform_message up to its members, which come   *)
(* before its fields.                                                      *)
AppendDefinition(d) ==
    /\ Declares(d) /\ CanDefine(d)
    /\ definitions_by_key' = definitions_by_key \cup {<<program.key[d], d>>}
    /\ definitions' = [definitions EXCEPT ![d] = Defined(program.descriptor[d])]
    /\ stack' = Below \o <<[Top EXCEPT !.rest = Tail(@)], Frame(d)>>
    /\ UNCHANGED <<program, phase, remaining_files, pool, unresolved_references, resolution>>

(* "Conflicting generated model definition", "unsupported enum size", or   *)
(* "explicit enum values must be unique".                                  *)
RejectDefinition(d) ==
    /\ Declares(d) /\ ~CanDefine(d)
    /\ Fail

(* _real_oneof_index: an optional field has a oneof of its own, which does *)
(* not count.                                                              *)
_real_oneof_index(field) == IF field.proto3_optional THEN 0 ELSE field.oneof

RealOneofs(descriptor) ==
    {_real_oneof_index(descriptor.fields[i]) : i \in DOMAIN descriptor.fields} \ {0}

(* A map has a key and a value.  The maximal count of a repeated field is  *)
(* a number.                                                               *)
IsField(field) ==
    LET kinds == DOMAIN field.types
    IN  /\ kinds \in {{"field_data_type"}, {"array_element_type"}, {"map_key_type", "map_value_type"}}
        /\ kinds = {"array_element_type"} /\ "max_count" \in DOMAIN field.options
              => field.options["max_count"] = "number"

IsMessage(descriptor) ==
    \A i \in DOMAIN descriptor.fields :
        /\ IsField(descriptor.fields[i])
        /\ _real_oneof_index(descriptor.fields[i]) \in {0} \cup DOMAIN descriptor.oneofs

(* Mutant: a union is only completed by the field that follows.            *)
PlacedInLast(fields, n, oneof) ==
    IF oneof # 0 /\ fields # <<>> /\ Last(fields).oneof = oneof
    THEN [fields EXCEPT ![Len(fields)].members = Append(@, n)]
    ELSE Append(fields, [oneof |-> oneof, members |-> <<n>>])

(* Where field n goes: into the union of its oneof, if there is one yet.   *)
Placed(fields, n, oneof) ==
    IF oneof # 0 /\ \E k \in DOMAIN fields : fields[k].oneof = oneof
    THEN [k \in DOMAIN fields |->
             IF fields[k].oneof = oneof
             THEN [fields[k] EXCEPT !.members = Append(@, n)] ELSE fields[k]]
    ELSE Append(fields, [oneof |-> oneof, members |-> <<n>>])

Layout(descriptor) ==
    LET layout[n \in 0..Len(descriptor.fields)] ==
            IF n = 0 THEN <<>>
            ELSE Placed(layout[n - 1], n, _real_oneof_index(descriptor.fields[n]))
    IN  layout[Len(descriptor.fields)]

(* Mutant: the entries of maps are not looked at.                          *)
RecordedButMaps(d, i, k) ==
    IF Kinds[k] \in NamedKinds(program.descriptor[d].fields[i]) \ {"map_key_type", "map_value_type"}
    THEN << <<d, i, Kinds[k]>> >> ELSE <<>>

(* They are recorded field by field, in each in the order of Kinds.        *)
Recorded(d, i, k) ==
    IF Kinds[k] \in NamedKinds(program.descriptor[d].fields[i]) THEN << <<d, i, Kinds[k]>> >> ELSE <<>>

References(d) ==
    LET fields == program.descriptor[d].fields
        references[n \in 0..Len(fields)] ==
            IF n = 0 THEN <<>>
            ELSE references[n - 1] \o Recorded(d, n, 1) \o Recorded(d, n, 2)
                                   \o Recorded(d, n, 3) \o Recorded(d, n, 4)
    IN  references[Len(fields)]

(* The oneofs and fields of a message.  An enum has none.                  *)
TransformFields ==
    /\ phase = "transforming" /\ stack # <<>> /\ Top.rest = <<>> /\ Top.owner \in Definitions
    /\ LET d == Top.owner
           descriptor == program.descriptor[d]
           unions == {[oneof |-> o, options |-> Merged(File, descriptor.oneofs[o])] :
                          o \in RealOneofs(descriptor)}
       IN  /\ IsMessage(descriptor)
           /\ definitions' = [definitions EXCEPT ![d].fields = Layout(descriptor), ![d].unions = unions]
           /\ unresolved_references' = unresolved_references \o References(d)
    /\ stack' = Below
    /\ UNCHANGED <<program, phase, remaining_files, pool, definitions_by_key, resolution>>

(* "malformed oneof descriptor", "malformed descriptor map entry", or      *)
(* "max_count must be an integer".                                         *)
RejectFields ==
    /\ phase = "transforming" /\ stack # <<>> /\ Top.rest = <<>> /\ Top.owner \in Definitions
    /\ ~IsMessage(program.descriptor[Top.owner])
    /\ Fail

EndFile ==
    /\ phase = "transforming" /\ stack # <<>> /\ Top.rest = <<>> /\ Top.owner \in Files
    /\ stack' = <<>>
    /\ UNCHANGED <<program, phase, remaining_files, pool, definitions_by_key, definitions,
                   unresolved_references, resolution>>

EndTransforming ==
    /\ phase = "transforming" /\ stack = <<>> /\ remaining_files = <<>>
    /\ phase' = "resolving"
    /\ UNCHANGED <<program, remaining_files, pool, transformation, unresolved_references, resolution>>

-----------------------------------------------------------------------------
(* resolve_references and ProtobufToDataTypeParser.parse.                  *)

KeyIn(slot) == program.descriptor[slot[1]].fields[slot[2]].types[slot[3]]

Resolve ==
    /\ phase = "resolving" /\ unresolved_references # <<>>
    /\ LET slot == Head(unresolved_references)
       IN  \E d \in Definitions :
              /\ <<KeyIn(slot), d>> \in definitions_by_key
              /\ bound' = bound \cup {<<slot, d>>}
    /\ unresolved_references' = Tail(unresolved_references)
    /\ UNCHANGED <<program, phase, remaining_files, pool, transformation, resolver_issues>>

(* Mutant: the first issue is the last one.                                *)
NothingAfterIssue == <<>>

RestAfterIssue == Tail(unresolved_references)

AppendIssue ==
    /\ phase = "resolving" /\ unresolved_references # <<>>
    /\ LET slot == Head(unresolved_references)
       IN  /\ \A d \in Definitions : <<KeyIn(slot), d>> \notin definitions_by_key
           /\ resolver_issues' = Append(resolver_issues, slot)
    /\ unresolved_references' = RestAfterIssue
    /\ UNCHANGED <<program, phase, remaining_files, pool, transformation, bound>>

EndResolving ==
    /\ phase = "resolving" /\ unresolved_references = <<>>
    /\ phase' = IF resolver_issues = <<>> THEN "done" ELSE "failed"
    /\ UNCHANGED <<program, remaining_files, pool, transformation, unresolved_references, resolution>>

Stopped == phase \in {"done", "failed"} /\ UNCHANGED vars

Next ==
    \/ Validate \/ RejectSyntax
    \/ AddToPool \/ RejectFile \/ Defer \/ NextRound \/ RejectDependencies \/ EndPool
    \/ TransformFile \/ RejectMapEntry \/ EndFile \/ EndTransforming
    \/ \E d \in Definitions : AppendDefinition(d) \/ RejectDefinition(d)
    \/ TransformFields \/ RejectFields
    \/ Resolve \/ AppendIssue \/ EndResolving
    \/ Stopped

Spec == Init /\ [][Next]_vars

(* The code is one sequential call.                                        *)
FairSpec == Spec /\ WF_vars(Next)

-----------------------------------------------------------------------------

Listed == ToSet(program.order)

(* The declarations in the listed files, nested ones included: those in    *)
(* every set that contains the files' members and the members of its own.  *)
Declared ==
    {d \in Definitions :
        \A D \in SUBSET Definitions :
            (\A x \in Listed \cup D : ToSet(program.members[x]) \subseteq D) => d \in D}

Meant(k) == {d \in Declared : program.key[d] = k}

(* The places that hold a name, wherever they are.                         *)
AllSlots ==
    UNION {UNION {{<<d, i, k>> : k \in {x \in DOMAIN program.descriptor[d].fields[i].types :
                                          program.descriptor[d].fields[i].types[x] # Primitive}} :
                    i \in DOMAIN program.descriptor[d].fields} : d \in Declared}

(* Reference definition of the inputs that a pool can be built from: each  *)
(* set of listed files has a member that depends on listed files outside   *)
(* of the set only.                                                        *)
HasPool ==
    \A F \in (SUBSET Listed) \ {{}} :
        \E f \in F : program.dependency[f] \subseteq Listed \ F

(* No file that declares anything is listed twice and no key is used twice.*)
HasUniqueKeys ==
    /\ \A i, j \in DOMAIN program.order :
          program.order[i] = program.order[j] =>
              i = j \/ program.members[program.order[i]] = <<>>
    /\ \A d, e \in Declared : program.key[d] = program.key[e] => d = e

WellFormed ==
    /\ Listed \subseteq program.proto3 /\ HasPool /\ HasUniqueKeys
    /\ Listed \cap (program.map_entries \cup program.malformed) = {}
    /\ \A d \in Declared : LET descriptor == program.descriptor[d]
                           IN  /\ program.key[d] \notin Builtin
                               /\ IsDescriptor(descriptor) /\ IsMessage(descriptor)
                               /\ descriptor.kind = "enum" => IsEnum(descriptor)
    /\ \A slot \in AllSlots : Meant(KeyIn(slot)) # {}

(* The files that a file depends on, directly or not.                      *)
Imports(f) ==
    {g \in Files :
        \A S \in SUBSET Files :
            (\A h \in {f} \cup S : program.dependency[h] \subseteq S) => g \in S}

(* Every type that a file names is in the file or in one that it imports.  *)
ImportsWhatItNames ==
    \A f \in Listed : \A d \in Within(f) :
        NamedTypes(program.descriptor[d]) \subseteq
            Builtin \cup UNION {KeysOf(g) : g \in {f} \cup Imports(f)}

(* Whatever the order of the files and of the declarations in them: the    *)
(* parser succeeds with well-formed inputs only, and with all of those that*)
(* import what they name.  A well-formed input with an import left out may *)
(* end either way, by the order of the files.  A key that is defined twice *)
(* never hides the first definition.                                       *)
AcceptsWellFormed ==
    /\ phase = "done" => WellFormed
    /\ phase = "failed" => ~(WellFormed /\ ImportsWhatItNames)

(* "After successful resolution, field types, array element types, and map *)
(* key/value types point to their concrete definitions": every place holds *)
(* the one definition that its key means, and no place is left out.        *)
EverySlotBound ==
    phase = "done" =>
        bound = UNION {{slot} \X Meant(KeyIn(slot)) : slot \in AllSlots}

(* "real oneofs": each field of a message is found once in its struct, as a*)
(* field or as a member of the one union of its oneof, whatever lies       *)
(* between the members; fields, unions and members keep the order of the   *)
(* text, a union that of its first member.                                 *)
FieldsInPlace ==
    phase = "done" =>
        \A d \in Declared :
            LET said == program.descriptor[d].fields
                found == definitions[d].fields
            IN  /\ \A i \in DOMAIN said :
                      \E k \in DOMAIN found :
                          /\ \A j \in DOMAIN found : i \in ToSet(found[j].members) <=> j = k
                          /\ IF said[i].oneof = 0 \/ said[i].proto3_optional
                             THEN found[k] = [oneof |-> 0, members |-> <<i>>]
                             ELSE /\ found[k].oneof = said[i].oneof
                                  /\ \A j \in DOMAIN found : found[j].oneof = found[k].oneof => j = k
                /\ {u.oneof : u \in definitions[d].unions} = {found[k].oneof : k \in DOMAIN found} \ {0}
                /\ \A k \in DOMAIN found : \A m, n \in DOMAIN found[k].members :
                      m < n => found[k].members[m] < found[k].members[n]
                /\ \A j, k \in DOMAIN found : j < k => Head(found[j].members) < Head(found[k].members)

IsMergedFrom(f, options, merged) ==
    LET keeps(n, o) == /\ n \in DOMAIN o /\ n # "max_count"
                       /\ ~(n = "description" /\ o[n] \in Texts)
    IN  \A n \in OptionNames :
            IF keeps(n, options) THEN n \in DOMAIN merged /\ merged[n] = options[n]
            ELSE IF keeps(n, program.options[f])
            THEN n \in DOMAIN merged /\ merged[n] = program.options[f][n]
            ELSE n \notin DOMAIN merged

(* "inherits file deployment options and applies local overrides": a       *)
(* declaration at any depth has the options of its file and its own, which *)
(* count more, never those of the message around it; so has a oneof.  The  *)
(* size of an enum is its own option only.                                 *)
OptionsReachDefinitions ==
    phase = "done" =>
        \A f \in Listed : \A d \in Within(f) :
            LET said == program.descriptor[d]
            IN  /\ IsMergedFrom(f, said.options, definitions[d].deployment_properties)
                /\ \A u \in definitions[d].unions :
                      IsMergedFrom(f, said.oneofs[u.oneof], u.options)
                /\ said.kind = "enum" /\ "size" \notin DOMAIN said.options => definitions[d].size = 32

(* When parse raises because of references, it names all that cannot be    *)
(* resolved, each once, and none that can.  They are the references to the *)
(* types of descriptor.proto: the pool has raised for any other name that  *)
(* nothing declares, one at a time.                                        *)
ReportsEveryIssue ==
    phase = "failed" /\ resolver_issues # <<>> =>
        /\ ToSet(resolver_issues) = {slot \in AllSlots : Meant(KeyIn(slot)) = {}}
        /\ ToSet(resolver_issues) = {slot \in AllSlots : KeyIn(slot) \in Builtin}
        /\ Len(resolver_issues) = Cardinality(ToSet(resolver_issues))

(* The rounds come to an end, whatever the dependencies.                   *)
Termination == <>(phase \in {"done", "failed"})
=============================================================================
