------------------------------- MODULE Deployment -------------------------------
(***************************************************************************)
(* Deployment files of Franca (FDEPL): transformer/fdepl_transformer.py,   *)
(* transformer/resolver/fdepl_resolver.py, deployment_property_applier.py. *)
(*                                                                         *)
(* FDEPL files are transformed one after the other, imports before         *)
(* importers (module FrancaFileGraph shows in which order).  A file        *)
(* declares specifications, which declare properties and extend other      *)
(* specifications, and deployments, which set properties of datatypes and  *)
(* use other deployments.  The properties are stored in the datatypes,     *)
(* which all deployments share, as soon as a deployment is transformed.    *)
(*                                                                         *)
(* An element is what a deployment says of one datatype or of one field,   *)
(* with the hosts at which that kind of element looks for properties: none *)
(* for maps and enumerators.                                               *)
(***************************************************************************)
EXTENDS Naturals, SequencesExt, FrancaNames

CONSTANTS
    Files, Specifications, Deployments,
    Parts,               \* of names
    TypeNames, Types,    \* datatypes and fields
    Hosts, Properties,
    Texts,               \* what is written: numbers, strings, enumerators
    Unset,               \* a property that has no value
    Optional,            \* the flag of a declared property
    Unresolved,          \* a reference that is still a name
    Programs             \* the inputs: see IsProgram

Name == Seq(Parts)

(* The values that each type of property takes.                            *)
Kinds ==
    [Integer |-> {"integer"}, String |-> {"string"}, Boolean |-> {"boolean"}, Enum |-> {"name"},
     Interface |-> {"integer", "string", "boolean", "name"},
     Extension |-> {"integer", "string", "boolean", "name"}]

Scalar == [kind : {"integer", "string", "boolean", "name"}, text : Texts]
Value == [is_list : BOOLEAN, items : Seq(Scalar)]

(* A default value, or the flag Optional, is a liability.                  *)
Declaration ==
    [name : Properties, type : DOMAIN Kinds, is_array : BOOLEAN, enumerators : SUBSET Texts,
     liabilities : Seq(Value \cup {Optional})]

Element == [name : TypeNames, hosts : SUBSET Hosts,
            parameters : Seq([name : Properties, value : Value])]

(* A type collection; without a name of its own if name is empty.          *)
Collection == [namespace : Name, name : {n \in Name : Len(n) <= 1},
               datatypes : UNION {[names -> Types] : names \in SUBSET TypeNames}]

(* Specifications and deployments are objects: each is in one place of one *)
(* file.                                                                   *)
InOnePlace(declared) ==
    \A f, g \in Files : \A i \in DOMAIN declared[f], j \in DOMAIN declared[g] :
        declared[f][i] = declared[g][j] => f = g /\ i = j

IsProgram(p) ==
    /\ p.order \in Seq(Files) /\ IsInjective(p.order)
    /\ p.package \in [Files -> Name]
    /\ p.imports \in [Files -> SUBSET [file : Files, namespace : Name]]
    /\ p.collections \in [Files -> Seq(Collection)]
    /\ p.specifications \in [Files -> Seq(Specifications)] /\ InOnePlace(p.specifications)
    /\ p.deployments \in [Files -> Seq(Deployments)] /\ InOnePlace(p.deployments)
    /\ p.name \in [Specifications \cup Deployments -> Name] \* empty for one without
    /\ p.extends \in [Specifications -> Seq(Name)]
    /\ p.hosts \in [Specifications -> Seq([host : Hosts, parameters : Seq(Declaration)])]
    /\ p.specification \in [Deployments -> Name]
    /\ p.target \in [Deployments -> Name]
    /\ p.uses \in [Deployments -> Seq(Name)]
    /\ p.elements \in [Deployments -> Seq(Element)]

ASSUME DeploymentAssumption ==
    /\ IsFiniteSet(Specifications) /\ IsFiniteSet(Hosts) /\ IsFiniteSet(Deployments)
    /\ Specifications \cap Deployments = {}
    /\ Unset \notin Value /\ Optional \notin Value
    /\ Unresolved \notin Specifications /\ Unresolved \notin Seq(Specifications)
    /\ \A p \in Programs : IsProgram(p)

VARIABLES
    program,               \* the input; it never changes
    host_order,            \* the order in which this process iterates over sets of hosts
    phase,                 \* "transforming", "resolving", "done" or "failed"
    transformed_files,     \* the transformed files, oldest first
    file,                  \* the file that is being transformed, or <<>>
    todo,                  \* its deployments, less those that are done
    elements,              \* the elements of the first of these, less those that are done
    base_specifications,   \* what each specification extends
    specification,         \* the specification of each deployment
    deployment_properties, \* the properties of each datatype
    use_definitions,       \* what is used: triples <<deployment, index, deployment>>
    pending_uses           \* uses left for later

progress == <<transformed_files, file, todo, elements>>
bases == <<base_specifications, specification>>
uses == <<use_definitions, pending_uses>>
vars == <<program, host_order, phase, progress, bases, deployment_properties, uses>>

TypeOK ==
    /\ IsProgram(program)
    /\ host_order \in [1..Cardinality(Hosts) -> Hosts]
    /\ phase \in {"transforming", "resolving", "done", "failed"}
    /\ transformed_files \in Seq(Files)
    /\ file \in Seq(Files) /\ Len(file) <= 1
    /\ todo \in Seq(Deployments) /\ elements \in Seq(Element)
    /\ base_specifications \in [Specifications -> Seq(Specifications) \cup {Unresolved}]
    /\ specification \in [Deployments -> Specifications \cup {Unresolved}]
    /\ deployment_properties \in [Types -> [Properties -> Value \cup {Unset}]]
    /\ use_definitions \subseteq Deployments \X Nat \X Deployments
    /\ pending_uses \in Seq([deployment : Deployments, index : Nat, owner : Files])

Init ==
    /\ program \in Programs
    /\ host_order \in {o \in [1..Cardinality(Hosts) -> Hosts] : ToSet(o) = Hosts}
    /\ phase = "transforming"
    /\ transformed_files = <<>> /\ file = <<>> /\ todo = <<>> /\ elements = <<>>
    /\ base_specifications = [s \in Specifications |-> Unresolved]
    /\ specification = [d \in Deployments |-> Unresolved]
    /\ deployment_properties = [t \in Types |-> [p \in Properties |-> Unset]]
    /\ use_definitions = {} /\ pending_uses = <<>>

Fail ==
    /\ phase' = "failed"
    /\ UNCHANGED <<program, host_order, progress, bases, deployment_properties, uses>>

-----------------------------------------------------------------------------
(* Specifications.                                                         *)

(* What the transformer calls a value of a declared type: an array takes a *)
(* single default as well, and Integer takes a Boolean one.                *)
IsCompatible(value, d) ==
    /\ value.is_list => d.is_array
    /\ \A x \in ToSet(value.items) :
          x.kind \in Kinds[d.type] \/ (d.type = "Integer" /\ x.kind = "boolean")

IsEnumerated(value, d) == d.type = "Enum" => \A x \in ToSet(value.items) : x.text \in d.enumerators

(* Where a declaration has its defaults; the first one counts.             *)
Defaults(d) == {i \in DOMAIN d.liabilities : d.liabilities[i] # Optional}
Default(d) == d.liabilities[Min(Defaults(d))]

(* _validate_liabilities.                                                  *)
IsLegal(d) ==
    /\ Len(d.liabilities) <= 2 /\ Cardinality(Defaults(d)) <= 1
    /\ Defaults(d) # {} => IsCompatible(Default(d), d) /\ IsEnumerated(Default(d), d)

IsLegalSpecification(s) ==
    \A i \in DOMAIN program.hosts[s] : \A d \in ToSet(program.hosts[s][i].parameters) : IsLegal(d)

(* The last block for a host replaces the others, and the last declaration *)
(* of a property in a block.                                               *)
HostBlock(s, h) ==
    LET blocks == {i \in DOMAIN program.hosts[s] : program.hosts[s][i].host = h}
    IN  IF blocks = {} THEN <<>> ELSE program.hosts[s][Max(blocks)].parameters
Places(s, h, p) == {i \in DOMAIN HostBlock(s, h) : HostBlock(s, h)[i].name = p}
Declared(s, h, p) == HostBlock(s, h)[Max(Places(s, h, p))]

(* The name by which a reference asks for a specification of another file: *)
(* it takes as many parts for the package as this file's package has.      *)
LocalName(reference, f) ==
    IF Len(reference) = 1 THEN reference ELSE WithoutFirst(reference, Len(program.package[f]))

(* resolve_base_specification: the specifications in the order in which    *)
(* they are compared, and where the name is declared; the first place      *)
(* counts.                                                                 *)
Searched(owner) ==
    program.specifications[owner] \o
    FlattenSeq([i \in DOMAIN transformed_files |-> program.specifications[transformed_files[i]]])

HasName(s, owner, reference) ==
    \/ s \in ToSet(program.specifications[owner]) /\ program.name[s] = reference
    \/ \E f \in ToSet(transformed_files) :
          s \in ToSet(program.specifications[f]) /\ program.name[s] = LocalName(reference, f)

Declarers(owner, reference) ==
    {i \in DOMAIN Searched(owner) : HasName(Searched(owner)[i], owner, reference)}
Specification(owner, reference) == Searched(owner)[Min(Declarers(owner, reference))]

Extended(owner, s) ==
    [i \in DOMAIN program.extends[s] |-> Specification(owner, program.extends[s][i])]

IsNext(f) ==
    /\ phase = "transforming" /\ file = <<>>
    /\ Len(transformed_files) < Len(program.order)
    /\ f = program.order[Len(transformed_files) + 1]

IsTransformable(f) ==
    \A s \in ToSet(program.specifications[f]) :
        IsLegalSpecification(s) /\ \A n \in ToSet(program.extends[s]) : Declarers(f, n) # {}

(* The specifications of a file come first.                                *)
StartFile(f) ==
    /\ IsNext(f) /\ IsTransformable(f)
    /\ file' = <<f>> /\ todo' = program.deployments[f]
    /\ base_specifications' =
          [s \in Specifications |-> IF s \in ToSet(program.specifications[f])
                                    THEN Extended(f, s) ELSE base_specifications[s]]
    /\ UNCHANGED <<program, host_order, phase, transformed_files, elements, specification,
                   deployment_properties, uses>>

(* ValueError: a declaration that is not legal, or an unknown name.        *)
RejectSpecification(f) ==
    /\ IsNext(f) /\ ~IsTransformable(f)
    /\ Fail

(* The specifications that s extends, directly or not.                     *)
Resolved(s) == base_specifications[s] # Unresolved
Ancestors(s) ==
    {a \in Specifications :
        \A C \in SUBSET Specifications :
            (\A b \in C \cup {s} : Resolved(b) => ToSet(base_specifications[b]) \subseteq C)
            => a \in C}

(* A specification and all its ancestors, in the order in which they are   *)
(* asked for a property.                                                   *)
Lineage(s) ==
    LET line[n \in 0..Cardinality(Specifications)] ==
            IF n = 0 THEN [b \in Specifications |-> <<b>>]
            ELSE [b \in Specifications |->
                     <<b>> \o FlattenSeq([i \in DOMAIN base_specifications[b] |->
                                              line[n - 1][base_specifications[b][i]]])]
    IN  line[Cardinality(Specifications)][s]

(* Where s itself declares a property; the last host that is asked counts. *)
DeclaringHosts(s, hosts, p) ==
    {i \in DOMAIN host_order : host_order[i] \in hosts /\ Places(s, host_order[i], p) # {}}
OwnDeclaration(s, hosts, p) == Declared(s, host_order[Max(DeclaringHosts(s, hosts, p))], p)

(* _declarations_for_hosts: the specification's own declarations, then     *)
(* those of its ancestors that it does not hide.                           *)
Declarations(s, hosts) ==
    LET line == Lineage(s)
        declarers(p) == {i \in DOMAIN line : DeclaringHosts(line[i], hosts, p) # {}}
    IN  [p \in {q \in Properties : declarers(q) # {}} |->
            OwnDeclaration(line[Min(declarers(p))], hosts, p)]

-----------------------------------------------------------------------------
(* Deployments.                                                            *)

(* resolve_type_collection: the parts of the reference between the package *)
(* and the last one are not looked at.                                     *)
IsTarget(collection, reference) ==
    /\ IsPrefix(collection.namespace, reference)
    /\ \/ collection.name = LastParts(reference, 1)
       \/ collection.name = <<>> /\ reference = collection.namespace

Targets(f, d) ==
    {i \in DOMAIN program.collections[f] : IsTarget(program.collections[f][i], program.target[d])}
Datatypes(f, d) == program.collections[f][Min(Targets(f, d))].datatypes
DeployedType(f, d, e) == Datatypes(f, d)[e.name]

(* The files that are looked at for f: itself and its imports that are     *)
(* transformed, with the namespace that is imported.                       *)
Scope(f) == {[file |-> f, namespace |-> <<>>]} \cup
            {i \in program.imports[f] : i.file \in ToSet(transformed_files)}

(* Mutant: the namespace of an import is not looked at.                    *)
MatchesByName(f, use) ==
    UNION {{d \in ToSet(program.deployments[i.file]) : program.name[d] # <<>> /\
               matches_use_definition_reference(use, program.name[d], program.package[i.file], <<>>)} :
             i \in Scope(f)}

UseMatches(f, use) ==
    UNION {{d \in ToSet(program.deployments[i.file]) : program.name[d] # <<>> /\
               matches_use_definition_reference(use, program.name[d], program.package[i.file],
                                                i.namespace)} :
             i \in Scope(f)}

UseSlots(d) == DOMAIN program.uses[d]

IsNextDeployment(d) ==
    /\ phase = "transforming" /\ todo # <<>> /\ d = Head(todo)
    /\ specification[d] = Unresolved

Owner == file[1]

CanResolve(d) ==
    /\ Declarers(Owner, program.specification[d]) # {}
    /\ Cardinality(Targets(Owner, d)) = 1
    /\ \A e \in ToSet(program.elements[d]) : e.name \in DOMAIN Datatypes(Owner, d)
    /\ \A i \in UseSlots(d) : Cardinality(UseMatches(Owner, program.uses[d][i])) <= 1

(* The uses of d that no visible deployment matches.                       *)
Missing(d) ==
    LET missing[n \in 0..Len(program.uses[d])] ==
            IF n = 0 THEN <<>>
            ELSE IF UseMatches(Owner, program.uses[d][n]) # {} THEN missing[n - 1]
            ELSE Append(missing[n - 1], [deployment |-> d, index |-> n, owner |-> Owner])
    IN  missing[Len(program.uses[d])]

Found(d) ==
    UNION {{d} \X {i} \X UseMatches(Owner, program.uses[d][i]) : i \in UseSlots(d)}

(* Everything that a deployment refers to is resolved, or its uses are     *)
(* left for later, before any of its properties is applied.                *)
ResolveDeployment(d) ==
    /\ IsNextDeployment(d) /\ CanResolve(d)
    /\ specification' =
          [specification EXCEPT ![d] = Specification(Owner, program.specification[d])]
    /\ use_definitions' = use_definitions \cup Found(d)
    /\ pending_uses' = pending_uses \o Missing(d)
    /\ elements' = program.elements[d]
    /\ UNCHANGED <<program, host_order, phase, transformed_files, file, todo,
                   base_specifications, deployment_properties>>

(* ValueError: a name that is unknown, or that is ambiguous.               *)
RejectDeployment(d) ==
    /\ IsNextDeployment(d) /\ ~CanResolve(d)
    /\ Fail

-----------------------------------------------------------------------------
(* DeploymentPropertyApplier.                                              *)

Applying(d) ==
    phase = "transforming" /\ todo # <<>> /\ d = Head(todo) /\ specification[d] # Unresolved

(* An element that has no hosts asks for no declaration.  For any other the*)
(* ancestors of s must be resolved, and none its own ancestor: then the    *)
(* recursion over the ancestors would have no end.                         *)
CanInherit(s, e) ==
    e.hosts # {} => \A b \in {s} \cup Ancestors(s) : Resolved(b) /\ b \notin Ancestors(b)

(* _validate_value.                                                        *)
IsValid(value, d) ==
    /\ value.is_list = d.is_array
    /\ \A x \in ToSet(value.items) : x.kind \in Kinds[d.type]
    /\ IsEnumerated(value, d)

(* _normalize_value: enumerators become strings.                           *)
Normalized(value, d) ==
    IF d.type # "Enum" THEN value
    ELSE [value EXCEPT !.items = [i \in DOMAIN value.items |-> [value.items[i] EXCEPT !.kind = "string"]]]

(* Parameters that are not declared are ignored; the last one counts.      *)
Assigned(declared, e, p) ==
    {i \in DOMAIN e.parameters : p \in DOMAIN declared /\ e.parameters[i].name = p}
AssignedValue(declared, e, p) ==
    Normalized(e.parameters[Max(Assigned(declared, e, p))].value, declared[p])

IsAcceptable(declared, e) ==
    \A x \in ToSet(e.parameters) : x.name \in DOMAIN declared => IsValid(x.value, declared[x.name])

(* The properties of e's datatype once its parameters are set.             *)
WithParameters(declared, e, properties) ==
    [p \in Properties |->
        IF Assigned(declared, e, p) = {} THEN properties[p] ELSE AssignedValue(declared, e, p)]

(* Mutant: a default replaces what an earlier deployment has set.          *)
DefaultsOverSet(declared, properties) ==
    {p \in DOMAIN declared : Defaults(declared[p]) # {}}

(* The properties that get their default value.                            *)
Defaulted(declared, properties) ==
    {p \in DOMAIN declared : Defaults(declared[p]) # {} /\ properties[p] = Unset}

WithDefaults(declared, properties) ==
    [p \in Properties |-> IF p \in Defaulted(declared, properties)
                          THEN Normalized(Default(declared[p]), declared[p]) ELSE properties[p]]

(* Mutant: what must be set is not looked at.                              *)
NothingRequired(declared) == {}

Required(declared) ==
    {p \in DOMAIN declared : Defaults(declared[p]) = {} /\ Optional \notin ToSet(declared[p].liabilities)}

(* All parameters have valid values, and what must be set is set.          *)
IsApplicable(declared, e, properties) ==
    /\ IsAcceptable(declared, e)
    /\ \A p \in Required(declared) : WithParameters(declared, e, properties)[p] # Unset

ApplyElement(d) ==
    /\ Applying(d) /\ elements # <<>>
    /\ CanInherit(specification[d], Head(elements))
    /\ LET e == Head(elements)
           type == DeployedType(Owner, d, e)
           declared == Declarations(specification[d], e.hosts)
       IN  /\ IsApplicable(declared, e, deployment_properties[type])
           /\ deployment_properties' = [deployment_properties EXCEPT ![type] =
                                           WithDefaults(declared, WithParameters(declared, e, @))]
    /\ elements' = Tail(elements)
    /\ UNCHANGED <<program, host_order, phase, transformed_files, file, todo, bases, uses>>

(* An invalid value, or a required property that is not set.               *)
RejectElement(d) ==
    /\ Applying(d) /\ elements # <<>>
    /\ CanInherit(specification[d], Head(elements))
    /\ LET e == Head(elements)
           declared == Declarations(specification[d], e.hosts)
       IN  ~IsApplicable(declared, e, deployment_properties[DeployedType(Owner, d, e)])
    /\ Fail

(* RecursionError.                                                         *)
RejectInheritance(d) ==
    /\ Applying(d) /\ elements # <<>>
    /\ ~CanInherit(specification[d], Head(elements))
    /\ Fail

EndDeployment(d) ==
    /\ Applying(d) /\ elements = <<>>
    /\ todo' = Tail(todo)
    /\ UNCHANGED <<program, host_order, phase, transformed_files, file, elements, bases,
                   deployment_properties, uses>>

EndFile ==
    /\ phase = "transforming" /\ file # <<>> /\ todo = <<>>
    /\ transformed_files' = transformed_files \o file
    /\ file' = <<>>
    /\ UNCHANGED <<program, host_order, phase, todo, elements, bases, deployment_properties, uses>>

EndTransforming ==
    /\ phase = "transforming" /\ file = <<>>
    /\ Len(transformed_files) = Len(program.order)
    /\ phase' = "resolving"
    /\ UNCHANGED <<program, host_order, progress, bases, deployment_properties, uses>>

-----------------------------------------------------------------------------
(* resolve_pending_use_definitions.                                        *)

PendingMatches ==
    LET pending == Head(pending_uses)
    IN  UseMatches(pending.owner, program.uses[pending.deployment][pending.index])

ResolvePendingUse ==
    /\ phase = "resolving" /\ pending_uses # <<>>
    /\ Cardinality(PendingMatches) = 1
    /\ use_definitions' = use_definitions \cup
          ({Head(pending_uses).deployment} \X {Head(pending_uses).index} \X PendingMatches)
    /\ pending_uses' = Tail(pending_uses)
    /\ UNCHANGED <<program, host_order, phase, progress, bases, deployment_properties>>

(* ValueError: not found, or ambiguous.                                    *)
RejectPendingUse ==
    /\ phase = "resolving" /\ pending_uses # <<>>
    /\ Cardinality(PendingMatches) # 1
    /\ Fail

EndResolving ==
    /\ phase = "resolving" /\ pending_uses = <<>>
    /\ phase' = "done"
    /\ UNCHANGED <<program, host_order, progress, bases, deployment_properties, uses>>

Stopped == phase \in {"done", "failed"} /\ UNCHANGED vars

Next ==
    \/ \E f \in Files : StartFile(f) \/ RejectSpecification(f)
    \/ \E d \in Deployments :
          \/ ResolveDeployment(d) \/ RejectDeployment(d)
          \/ ApplyElement(d) \/ RejectElement(d) \/ RejectInheritance(d)
          \/ EndDeployment(d)
    \/ EndFile \/ EndTransforming
    \/ ResolvePendingUse \/ RejectPendingUse \/ EndResolving
    \/ Stopped

Spec == Init /\ [][Next]_vars

-----------------------------------------------------------------------------

(* All elements of all files, in the order of the text, each with the      *)
(* datatype that it is about and the declarations that hold for it.        *)
AllDeployments ==
    FlattenSeq([i \in DOMAIN program.order |->
        LET f == program.order[i]
        IN  [k \in DOMAIN program.deployments[f] |-> <<f, program.deployments[f][k]>>]])
AllElements ==
    FlattenSeq([i \in DOMAIN AllDeployments |->
        LET f == AllDeployments[i][1]
            d == AllDeployments[i][2]
        IN  [k \in DOMAIN program.elements[d] |->
                LET e == program.elements[d][k]
                IN  [type |-> DeployedType(f, d, e), parameters |-> e.parameters,
                     declared |-> Declarations(specification[d], e.hosts)]]])

(* What a datatype's property ought to be: the last value that an element  *)
(* sets for it, else the first default.                                    *)
Expected(all, t, p) ==
    LET about == {i \in DOMAIN all : all[i].type = t /\ p \in DOMAIN all[i].declared}
        sets == {i \in about : Assigned(all[i].declared, all[i], p) # {}}
        defaults == {i \in about : Defaults(all[i].declared[p]) # {}}
    IN  IF sets # {}
        THEN AssignedValue(all[Max(sets)].declared, all[Max(sets)], p)
        ELSE IF defaults # {}
        THEN LET d == all[Min(defaults)].declared[p] IN Normalized(Default(d), d)
        ELSE Unset

(* Although deployments write to shared datatypes one after the other, and *)
(* with defaults of their own: no default ever replaces a value that some  *)
(* deployment sets, and between two values the later one counts.           *)
PropertiesAsDeployed ==
    phase = "done" =>
        LET all == AllElements
        IN  \A t \in Types, p \in Properties : deployment_properties[t][p] = Expected(all, t, p)

(* A stored value as a declaration of its property describes it, but for   *)
(* what defaults are allowed beyond set values.                            *)
Fits(value, d) ==
    /\ value.is_list => d.is_array
    /\ \A x \in ToSet(value.items) :
          \/ d.type = "Enum" /\ x.kind = "string" /\ x.text \in d.enumerators
          \/ d.type # "Enum" /\ x.kind \in Kinds[d.type]
          \/ d.type = "Integer" /\ x.kind = "boolean"

(* When the transformation succeeds every deployed datatype has a value for*)
(* each property that a specification of one of its deployments requires,  *)
(* and only values that fit a declaration of the property: set values and  *)
(* defaults go through checks of their own, and hidden, inherited and      *)
(* repeated declarations must not be mixed up on the way.                  *)
RequiredAreSet ==
    phase = "done" =>
        LET all == AllElements
            declarations(t, p) ==
                {all[i].declared[p] : i \in {k \in DOMAIN all : all[k].type = t /\ p \in DOMAIN all[k].declared}}
        IN  \A t \in Types, p \in Properties :
                LET value == deployment_properties[t][p]
                IN  IF value = Unset
                    THEN \A d \in declarations(t, p) : Optional \in ToSet(d.liabilities)
                    ELSE \E d \in declarations(t, p) : Fits(value, d)

(* "Resolve use references deferred behind circular FDEPL imports": when   *)
(* the transformation succeeds each use is bound to one deployment, whose  *)
(* full name it means, in its own file or in one that this imports with a  *)
(* namespace that leads to it, wherever cycles were cut.                   *)
UsesInScope ==
    phase = "done" =>
        \A f \in ToSet(program.order) : \A d \in ToSet(program.deployments[f]) :
            \A i \in UseSlots(d) :
                \E e \in Deployments :
                    /\ {x \in Deployments : <<d, i, x>> \in use_definitions} = {e}
                    /\ \E g \in {[file |-> f, namespace |-> <<>>]} \cup program.imports[f] :
                          /\ e \in ToSet(program.deployments[g.file])
                          /\ UseMeans(program.uses[d][i], program.name[e],
                                      program.package[g.file], g.namespace)
=============================================================================
