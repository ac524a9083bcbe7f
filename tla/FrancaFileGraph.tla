---------------------------- MODULE FrancaFileGraph ----------------------------
(***************************************************************************)
(* Parsing and transforming a graph of Franca FIDL files (parser.py,       *)
(* transformer/file_graph_transformer.py, transformer/fidl_transformer.py, *)
(* transformer/resolver/fidl_datatype_resolver.py).                        *)
(*                                                                         *)
(* The parser works through a stack of pending files until every file      *)
(* reachable through imports is parsed.  The graph transformer then visits *)
(* the files depth first, imports before importers, and cuts circular      *)
(* imports where it meets a file that is already on its path.  A reference *)
(* to a datatype is bound in one of three ways: to a declaration of an     *)
(* import that is already transformed; else to a declaration of its own    *)
(* file; else it waits until the whole graph is transformed.               *)
(*                                                                         *)
(* A program is what the files say.  A file has a package and type         *)
(* collections; a declaration has a kind and places that hold a reference, *)
(* which is what a name of one or more parts is (module FrancaNames), or a *)
(* primitive type, written as the empty name.                              *)
(***************************************************************************)
EXTENDS Integers, FiniteSets, FrancaNames

CONSTANTS
    Files,     \* resolved source paths
    Parts,     \* identifiers
    Implicit,  \* an enum literal without a value
    Programs   \* the inputs: see Program

Name == Seq(Parts)

(* The base type of an enum, struct or union is an "extends" place, the    *)
(* type of a field a "field" place.  All others are "type" places: the     *)
(* element of an array (of a field's own array, too), the key and the      *)
(* value of a map, the target of a typedef.                                *)
Declaration ==
    [name : Parts, kind : {"struct", "union", "enum", "array", "map", "typedef"},
     places : Seq([role : {"extends", "field", "type"}, reference : Name]),
     values : Seq(Int \cup {Implicit})]

(* roots and allowed are the command line's.  An import may name a         *)
(* namespace; an anonymous collection has the empty name.                  *)
Program ==
    [roots : Seq(Files), allowed : SUBSET Files, package : [Files -> Name],
     imports : [Files -> Seq([file : Files, namespace : Name])],
     collections : [Files -> Seq([name : Name, types : Seq(Declaration)])]]

ASSUME FrancaFileGraphAssumption ==
    /\ IsFiniteSet(Files)
    /\ Implicit \notin Int
    /\ Programs \subseteq Program

VARIABLES
    program,            \* the input; it never changes
    phase,              \* "parsing", "transforming", "resolving", "done" or "failed"
    pending_files,      \* the parser's work list, taken from the end
    parsed_files,       \* parsed files, in the order of the dict that holds them
    stack,              \* files being visited, each with the imports still to visit
    transformed_files,  \* transformed files, oldest first
    target,             \* the declaration each slot is bound to
    pending_references  \* what is left for later, by the file that owns it

vars == <<program, phase, pending_files, parsed_files, stack, transformed_files, target,
          pending_references>>
parsing == <<pending_files, parsed_files>>
binding == <<target, pending_references>>

Elements(s) == {s[i] : i \in DOMAIN s}
ImportList(f) == [i \in DOMAIN program.imports[f] |-> program.imports[f][i].file]
Imported(f) == Elements(ImportList(f))

(* A declaration is known by its file, collection and position, a slot by  *)
(* its declaration and its place there.                                    *)
Collection(f, c) == program.collections[f][c]
Declarations(f) ==
    UNION {{<<f, c, t>> : t \in DOMAIN Collection(f, c).types} : c \in DOMAIN program.collections[f]}
Said(d) == Collection(d[1], d[2]).types[d[3]]
Owner(slot) == <<slot[1], slot[2], slot[3]>>
Place(slot) == Said(Owner(slot)).places[slot[4]]
Reference(slot) == Place(slot).reference

(* The slots of a file that hold a name.                                   *)
References(f) ==
    UNION {{slot \in {d \o <<p>> : p \in DOMAIN Said(d).places} : Reference(slot) # <<>>} :
             d \in Declarations(f)}

Slots == UNION {References(f) : f \in Files}
Unbound == <<>>

TypeOK ==
    /\ program \in Programs
    /\ phase \in {"parsing", "transforming", "resolving", "done", "failed"}
    /\ pending_files \in Seq(Files)
    /\ parsed_files \in Seq(Files)
    /\ stack \in Seq([file : Files, rest : Seq(Files)])
    /\ transformed_files \in Seq(Files)
    /\ target \in [Slots -> (UNION {Declarations(f) : f \in Files}) \cup {Unbound}]
    /\ pending_references \in Seq([owner : Files, references : SUBSET (Slots \X Slots)])

Init ==
    /\ program \in Programs
    /\ phase = "parsing"
    /\ pending_files = program.roots /\ parsed_files = <<>>
    /\ stack = <<>> /\ transformed_files = <<>>
    /\ target = [slot \in Slots |-> Unbound]
    /\ pending_references = <<>>

-----------------------------------------------------------------------------
(* FrancaParser.parse_files.                                               *)

Top(s) == s[Len(s)]
Pop(s) == SubSeq(s, 1, Len(s) - 1)

NextFile(f) == phase = "parsing" /\ pending_files # <<>> /\ f = Top(pending_files)

(* Mutant: the work list is looked at, not popped.                         *)
SkipParsedWithoutPop ==
    /\ \E f \in Elements(parsed_files) : NextFile(f)
    /\ UNCHANGED vars

SkipParsed ==
    /\ \E f \in Elements(parsed_files) : NextFile(f)
    /\ pending_files' = Pop(pending_files)
    /\ UNCHANGED <<program, phase, parsed_files, stack, transformed_files, binding>>

IsAllowed(f) == f \in program.allowed /\ Imported(f) \subseteq program.allowed

(* Mutant: the imports of a file are not followed.                         *)
ParseFileOnly(f) ==
    /\ NextFile(f) /\ f \notin Elements(parsed_files) /\ IsAllowed(f)
    /\ parsed_files' = Append(parsed_files, f)
    /\ pending_files' = Pop(pending_files)
    /\ UNCHANGED <<program, phase, stack, transformed_files, binding>>

ParseFile(f) ==
    /\ NextFile(f) /\ f \notin Elements(parsed_files) /\ IsAllowed(f)
    /\ parsed_files' = Append(parsed_files, f)
    /\ pending_files' = Pop(pending_files) \o ImportList(f)
    /\ UNCHANGED <<program, phase, stack, transformed_files, binding>>

(* FileNotFoundError: the file, or a file that it imports, was declared    *)
(* neither as a source nor as a dependency.                                *)
RejectFile(f) ==
    /\ NextFile(f) /\ f \notin Elements(parsed_files) /\ ~IsAllowed(f)
    /\ phase' = "failed"
    /\ UNCHANGED <<program, parsing, stack, transformed_files, binding>>

EndParsing ==
    /\ phase = "parsing" /\ pending_files = <<>>
    /\ phase' = "transforming"
    /\ UNCHANGED <<program, parsing, stack, transformed_files, binding>>

-----------------------------------------------------------------------------
(* FrancaFileGraphTransformer._process_file, with its recursion as a stack *)
(* of files and of the imports that each has still to visit.               *)

_visiting_files == {stack[i].file : i \in DOMAIN stack}

(* Mutant: a file that is being visited is entered again.                  *)
EnteredIfTransformed(f) == f \in Elements(transformed_files)

Entered(f) == f \in Elements(transformed_files) \/ f \in _visiting_files

(* Mutant: a file is transformed before its imports are visited.           *)
FrameWithoutImports(f) == [file |-> f, rest |-> <<>>]

Frame(f) == [file |-> f, rest |-> ImportList(f)]

(* The loop over the parsed files skips those that are transformed.        *)
VisitParsed ==
    /\ phase = "transforming" /\ stack = <<>>
    /\ \E i \in DOMAIN parsed_files :
          /\ ~Entered(parsed_files[i])
          /\ \A j \in 1..(i - 1) : Entered(parsed_files[j])
          /\ stack' = <<Frame(parsed_files[i])>>
    /\ UNCHANGED <<program, phase, parsing, transformed_files, binding>>

VisitImport ==
    /\ phase = "transforming" /\ stack # <<>> /\ Top(stack).rest # <<>>
    /\ LET rest == Top(stack).rest
           remaining == [stack EXCEPT ![Len(stack)].rest = Tail(rest)]
       IN  stack' = IF Entered(Head(rest)) THEN remaining
                    ELSE Append(remaining, Frame(Head(rest)))
    /\ UNCHANGED <<program, phase, parsing, transformed_files, binding>>

-----------------------------------------------------------------------------
(* FIDLDataTypeResolver: what a reference that is made in a slot means.    *)

namespace(f, c) == program.package[f] \o Collection(f, c).name
Identity(d) == namespace(d[1], d[2]) \o <<Said(d).name>>

(* FIDLFileModel.lookup_datatype, for several identities.                  *)
lookup_datatype(f, identities) == {d \in Declarations(f) : Identity(d) \in identities}

(* Mutant: declarations of other collections of the file are not found.    *)
MatchesInCollection(slot, reference) ==
    lookup_datatype(slot[1], expand_fqn_candidates(namespace(slot[1], slot[2]), reference))

(* The last two parts of a reference may also be the names of another      *)
(* collection of the file and of a declaration in it.                      *)
_local_matches(slot, reference) ==
    LET sibling == IF Len(reference) <= 1 THEN {}
                   ELSE {program.package[slot[1]] \o LastParts(reference, 2)}
    IN  lookup_datatype(slot[1],
            expand_fqn_candidates(namespace(slot[1], slot[2]), reference) \cup sibling)

(* An import without a namespace stands for the package of its file.       *)
Base(import) == IF import.namespace = <<>> THEN program.package[import.file]
                ELSE import.namespace

(* Imported files that are not transformed yet are passed over.            *)
_import_matches(slot, reference) ==
    UNION {lookup_datatype(i.file, expand_fqn_candidates(Base(i), reference)) :
             i \in {j \in Elements(program.imports[slot[1]]) :
                       j.file \in Elements(transformed_files)}}

(* Mutant: of several declarations that match one is taken.                *)
AnyIsSingle(matches) == TRUE

(* _single_match: at most one declaration matches.                         *)
IsSingle(matches) == Cardinality(matches) <= 1
Single(matches) == CHOOSE d \in matches : TRUE

(* What is extended must be of the same kind.                              *)
CanBind(slot, d) == Place(slot).role = "extends" => Said(d).kind = Said(Owner(slot)).kind

-----------------------------------------------------------------------------
(* FIDLTransformer.                                                        *)

IsTransforming(f) ==
    /\ phase = "transforming" /\ stack # <<>>
    /\ Top(stack).file = f /\ Top(stack).rest = <<>>

(* A literal without a value has that of the literal before it, plus one.  *)
EnumValues(values) ==
    LET value[i \in DOMAIN values] ==
            IF values[i] # Implicit THEN values[i] ELSE IF i = 1 THEN 0 ELSE value[i - 1] + 1
    IN  value

(* No two named collections of a file, no two of its declarations and no   *)
(* two literals of an enum are the same.                                   *)
IsAccepted(f) ==
    /\ \A b, c \in DOMAIN program.collections[f] :
          Collection(f, b).name = Collection(f, c).name => b = c \/ Collection(f, b).name = <<>>
    /\ \A d, e \in Declarations(f) : Identity(d) = Identity(e) => d = e
    /\ \A d \in Declarations(f) :
          LET values == EnumValues(Said(d).values)
          IN  \A i, j \in DOMAIN values : values[i] = values[j] => i = j

(* imported: the references that an import resolves when they are read.    *)
Early(f) == {slot \in References(f) : _import_matches(slot, Reference(slot)) # {}}
Match(slot) == Single(_import_matches(slot, Reference(slot)))

(* What is left of a file: pairs of the slot where a reference is looked up*)
(* and the slot that holds it.  They differ for a field that was just bound*)
(* to an array: if the array's element is still a name, it is that name    *)
(* which is looked up, whatever file declares the array.                   *)
Recorded(f) ==
    {<<slot, slot>> : slot \in References(f) \ Early(f)}
    \cup
    {<<field, Match(field) \o <<1>>>> :
        field \in {s \in Early(f) : /\ Place(s).role = "field"
                                    /\ Said(Match(s)).kind = "array"
                                    /\ Match(s) \o <<1>> \in DOMAIN target
                                    /\ target[Match(s) \o <<1>>] = Unbound}}

LocalMatches(pair) == _local_matches(pair[1], Reference(pair[2]))
PendingMatches(pair) == _import_matches(pair[1], Reference(pair[2]))

CanTransform(f) ==
    /\ IsAccepted(f)
    /\ \A slot \in References(f) : LET matches == _import_matches(slot, Reference(slot))
                                   IN  IsSingle(matches) /\ \A d \in matches : CanBind(slot, d)
    /\ \A pair \in Recorded(f) : /\ IsSingle(LocalMatches(pair))
                                 /\ \A d \in LocalMatches(pair) : CanBind(pair[2], d)

IsLater(s, t) == \E i \in 2..4 : s[i] > t[i] /\ \A j \in 2..(i - 1) : s[j] = t[j]

(* What a slot is bound to when local pairs are bound one after the other. *)
BoundBy(local, slot) ==
    LET pairs == {pair \in local : pair[2] = slot}
    IN  Single(LocalMatches(CHOOSE p \in pairs : \A q \in pairs : q = p \/ IsLater(p[1], q[1])))

Deferred(f, references) == [owner |-> f, references |-> references]

(* transform_file: references are bound to transformed imports while the   *)
(* file is transformed, then to declarations of the file itself; the rest  *)
(* is left for later.                                                      *)
TransformFile(f) ==
    /\ IsTransforming(f) /\ CanTransform(f)
    /\ \E early \in {Early(f)}, recorded \in {Recorded(f)} :
       \E local \in {{pair \in recorded : LocalMatches(pair) # {}}} :
          /\ target' = [slot \in DOMAIN target |->
                           IF \E pair \in local : pair[2] = slot THEN BoundBy(local, slot)
                           ELSE IF slot \in early THEN Match(slot)
                           ELSE target[slot]]
          /\ pending_references' =
                IF recorded = local THEN pending_references
                ELSE Append(pending_references, Deferred(f, recorded \ local))
    /\ transformed_files' = Append(transformed_files, f)
    /\ stack' = Pop(stack)
    /\ UNCHANGED <<program, phase, parsing>>

(* ValueError: something is declared twice, a reference is ambiguous, or   *)
(* what it means cannot be extended.                                       *)
RejectTransform(f) ==
    /\ IsTransforming(f) /\ ~CanTransform(f)
    /\ phase' = "failed"
    /\ UNCHANGED <<program, parsing, stack, transformed_files, binding>>

EndTransforming ==
    /\ phase = "transforming" /\ stack = <<>>
    /\ Elements(parsed_files) \subseteq Elements(transformed_files)
    /\ phase' = "resolving"
    /\ UNCHANGED <<program, parsing, stack, transformed_files, binding>>

CanResolve(pair) ==
    Cardinality(PendingMatches(pair)) = 1 /\ CanBind(pair[2], Single(PendingMatches(pair)))

BindPending(pairs) ==
    /\ target' = [slot \in DOMAIN target |->
                     IF \E pair \in pairs : pair[2] = slot
                     THEN Single(PendingMatches(CHOOSE pair \in pairs : pair[2] = slot))
                     ELSE target[slot]]
    /\ pending_references' = Tail(pending_references)
    /\ UNCHANGED <<program, phase, parsing, stack, transformed_files>>

(* Mutant: a reference that is not found is passed over.                   *)
ResolvePendingOrSkip ==
    /\ phase = "resolving" /\ pending_references # <<>>
    /\ BindPending({pair \in Head(pending_references).references : CanResolve(pair)})

(* resolve_pending_imports, one owner at a time.  A slot that is left      *)
(* several times in one file is bound to the same declaration each time.   *)
ResolvePending ==
    /\ phase = "resolving" /\ pending_references # <<>>
    /\ \A pair \in Head(pending_references).references : CanResolve(pair)
    /\ BindPending(Head(pending_references).references)

(* ValueError: not found, ambiguous, or of the wrong kind.                 *)
RejectPending ==
    /\ phase = "resolving" /\ pending_references # <<>>
    /\ \E pair \in Head(pending_references).references : ~CanResolve(pair)
    /\ phase' = "failed"
    /\ UNCHANGED <<program, parsing, stack, transformed_files, binding>>

EndResolving ==
    /\ phase = "resolving" /\ pending_references = <<>>
    /\ phase' = "done"
    /\ UNCHANGED <<program, parsing, stack, transformed_files, binding>>

Stopped == phase \in {"done", "failed"} /\ UNCHANGED vars

-----------------------------------------------------------------------------

Next ==
    \/ SkipParsed
    \/ \E f \in Files : ParseFile(f) \/ RejectFile(f)
    \/ EndParsing
    \/ VisitParsed \/ VisitImport
    \/ \E f \in Files : TransformFile(f) \/ RejectTransform(f)
    \/ EndTransforming
    \/ ResolvePending \/ RejectPending \/ EndResolving
    \/ Stopped

Spec == Init /\ [][Next]_vars

(* The code is one sequential call.                                        *)
FairSpec == Spec /\ WF_vars(Next)

-----------------------------------------------------------------------------

(* The files that can be reached from a set of files through imports: those*)
(* that are in every superset of the set that is closed under imports.     *)
Closed(F) == \A f \in F : Imported(f) \subseteq F
Reachable(F) == {f \in Files : \A C \in SUBSET Files : F \subseteq C /\ Closed(C) => f \in C}

Needed == Reachable(Elements(program.roots))

(* "Discover and parse every root file and transitive declared import":    *)
(* nothing else is ever parsed, and in the end nothing is missing.         *)
ParsesWhatIsReachable ==
    /\ Elements(parsed_files) \cup Elements(pending_files) \subseteq Needed
    /\ phase \in {"transforming", "resolving", "done"} => Elements(parsed_files) = Needed

(* Whatever the cycles, every file is transformed once: no file is on the  *)
(* path twice or visited after it was transformed, and none is left out.   *)
TransformsEachFileOnce ==
    /\ LET files == transformed_files \o [i \in DOMAIN stack |-> stack[i].file]
       IN  \A i, j \in DOMAIN files : files[i] = files[j] => i = j
    /\ phase \in {"resolving", "done"} => Elements(transformed_files) = Elements(parsed_files)

(* "Transform every parsed Franca source file with imports processed       *)
(* first": a file is transformed before a file that it imports only if the *)
(* import leads back to it.                                                *)
ImportsFirst ==
    \A i \in DOMAIN transformed_files :
        \A g \in Imported(transformed_files[i]) :
            \/ \E j \in 1..(i - 1) : transformed_files[j] = g
            \/ transformed_files[i] \in Reachable({g})

NeededReferences == UNION {References(f) : f \in Needed}

(* The declarations that a reference can mean, in the imports and in the   *)
(* file itself (FIDLDataTypeResolver.resolve).                             *)
ImportScope(slot) ==
    UNION {{d \in Declarations(i.file) : StandsFor(Base(i), Reference(slot), Identity(d))} :
             i \in Elements(program.imports[slot[1]])}
LocalScope(slot) ==
    {d \in Declarations(slot[1]) :
        \/ StandsFor(namespace(slot[1], slot[2]), Reference(slot), Identity(d))
        \/ /\ Len(Reference(slot)) > 1
           /\ Identity(d) = program.package[slot[1]] \o LastParts(Reference(slot), 2)}
Scope(slot) == ImportScope(slot) \cup LocalScope(slot)

(* The files are there and accepted, and each reference means one          *)
(* declaration, which it can be bound to.                                  *)
WellFormed ==
    /\ Needed \subseteq program.allowed
    /\ \A f \in Needed : IsAccepted(f)
    /\ \A slot \in NeededReferences :
          Cardinality(Scope(slot)) = 1 /\ \A d \in Scope(slot) : CanBind(slot, d)

(* The elements of arrays that a field of an importing file is of and whose*)
(* own file is imported, maybe indirectly, by the one that declares what   *)
(* the element can mean: when the field's file is transformed such an      *)
(* element may still be a name.                                            *)
CircularElements ==
    {element \in Slots : \E field \in NeededReferences :
        /\ Place(field).role = "field"
        /\ \E array \in ImportScope(field) :
              /\ Said(array).kind = "array" /\ element = array \o <<1>>
              /\ \E d \in ImportScope(element) : array[1] \in Reachable({d[1]})}

HasFieldOfCircularArray == CircularElements # {}

(* When the transformation succeeds every reference is bound to a          *)
(* declaration that it can mean, in its own file or in one of its imports, *)
(* and what extends a datatype is of its kind.  The one exception are the  *)
(* elements of circular arrays, each by itself (an element extends         *)
(* nothing): they may be looked up from the file of a field, which either  *)
(* fails (ResolvesCircularImports) or finds what only that file imports.   *)
BindsInScope ==
    phase = "done" =>
        \A slot \in NeededReferences :
            \/ /\ target[slot] \in Scope(slot)
               /\ Place(slot).role = "extends" => Said(target[slot]).kind = Said(Owner(slot)).kind
            \/ slot \in CircularElements

(* "Ambiguous datatype reference" (_single_match): no reference is bound by*)
(* the order of the imports.  In a file that no import leads back to, it   *)
(* means the only match among its imports, or else the only one in the     *)
(* file.                                                                   *)
OneMeaning ==
    phase = "done" =>
        \A slot \in NeededReferences :
            slot[1] \notin Reachable(Imported(slot[1])) =>
                {target[slot]} = IF ImportScope(slot) # {} THEN ImportScope(slot)
                                 ELSE LocalScope(slot)

(* The transformation of a well-formed program succeeds, whatever the      *)
(* order of its imports, its roots and its cycles.  (Fields of circular    *)
(* arrays are apart: see ResolvesCircularImports.)                         *)
ResolvesWellFormed == phase = "failed" => ~WellFormed \/ HasFieldOfCircularArray

(* "Resolve datatype references deferred behind circular FIDL imports"     *)
(* (resolve_pending_imports): a circular import is no reason to fail.      *)
ResolvesCircularImports == phase = "failed" => ~WellFormed

(* The two work lists come to an end.                                      *)
Termination == <>(phase \in {"done", "failed"})
=============================================================================
