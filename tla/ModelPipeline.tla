----------------------------- MODULE ModelPipeline -----------------------------
(***************************************************************************)
(* The path of model elements from the parsers to the merged model         *)
(* (ecu_model/model.py, parsers/runner/load_and_merge.py,                  *)
(* parsers/runner/run_load_and_merge.py and the main functions of the two  *)
(* parsers).                                                               *)
(*                                                                         *)
(* Every process has one ModelRegistry.  A parser fills it by constructing *)
(* elements and writes it to its pickle.  load_and_merge replaces its own  *)
(* registry with one pickle after another, gathers the elements, and       *)
(* leaves the union in the registry; main writes the aggregate pickle.     *)
(* Processes run independently, may fail and may be run again; their files *)
(* stay.                                                                   *)
(*                                                                         *)
(* An element is reduced to what survives in a pickle: the elements it     *)
(* refers to, and whether its validators accepted it.                      *)
(***************************************************************************)
EXTENDS Naturals, Sequences, FiniteSets

CONSTANTS
    Parsers,      \* parser targets; each names its pickle, too
    Aggregate,    \* the pickle that main of run_load_and_merge writes
    Ids,          \* identifiers of model elements
    InputLists,   \* the --registry-pickle lists that may be given
    MaxRuns,      \* how often parsers are run, taken together
    MaxMerges     \* how often load_and_merge is called

Pickles == Parsers \cup {Aggregate}

ASSUME ModelPipelineAssumption ==
    /\ IsFiniteSet(Ids)
    /\ Aggregate \notin Parsers
    /\ InputLists \subseteq Seq(Pickles)
    /\ MaxRuns \in Nat /\ MaxMerges \in Nat

Elements == [refs : SUBSET Ids, accepted : BOOLEAN]
Registries == UNION {[D -> Elements] : D \in SUBSET Ids}
Empty == [id \in {} |-> 0]

(* What a pickle holds: the mapping that serialize() dumps, or the result  *)
(* of load_and_merge, which wraps such a mapping.                          *)
Payloads == [kind : {"registry", "result"}, elements : Registries]
NoFile == [kind |-> "no file"]

VARIABLES
    files,      \* content of every pickle
    parser,     \* "idle", "building", "written" or "failed", per parser
    elements,   \* ModelRegistry.elements of each parser process
    runs,       \* runs of parsers so far
    merger,     \* "idle", "loading", "merged" or "failed"
    error,      \* why the last merge failed
    todo,       \* input pickles still to be loaded
    registry,   \* ModelRegistry.elements of the merging process
    merged,     \* merged_elements
    merges,     \* merges so far
    loaded      \* history: the registries this merge has loaded, a clashing one included

parserVars == <<parser, elements, runs>>
mergerVars == <<merger, error, todo, registry, merged, merges, loaded>>
vars == <<files, parserVars, mergerVars>>

TypeOK ==
    /\ files \in [Pickles -> Payloads \cup {NoFile}]
    /\ parser \in [Parsers -> {"idle", "building", "written", "failed"}]
    /\ elements \in [Parsers -> Registries]
    /\ runs \in 0..MaxRuns
    /\ merger \in {"idle", "loading", "merged", "failed"}
    /\ error \in {"none", "missing", "not a registry", "duplicate"}
    /\ todo \in Seq(Pickles)
    /\ registry \in Registries
    /\ merged \in Registries
    /\ merges \in 0..MaxMerges
    /\ loaded \in Seq(Registries)

Init ==
    /\ files = [p \in Pickles |-> NoFile]
    /\ parser = [p \in Parsers |-> "idle"]
    /\ elements = [p \in Parsers |-> Empty]
    /\ runs = 0
    /\ merger = "idle" /\ error = "none"
    /\ todo = <<>> /\ registry = Empty /\ merged = Empty
    /\ merges = 0 /\ loaded = <<>>

(* A dict after update() with another one.                                 *)
Update(r, s) ==
    [id \in DOMAIN r \cup DOMAIN s |-> IF id \in DOMAIN s THEN s[id] ELSE r[id]]

-----------------------------------------------------------------------------
(* A parser process.                                                       *)

StartParser(p) ==
    /\ parser[p] # "building"
    /\ runs < MaxRuns
    /\ parser' = [parser EXCEPT ![p] = "building"]
    /\ elements' = [elements EXCEPT ![p] = Empty]
    /\ runs' = runs + 1
    /\ UNCHANGED <<files, mergerVars>>

(* Mutant: model_post_init replaces the registry instead of adding to it.  *)
TrackLastOnly(p, id, refs, accepted) ==
    /\ parser[p] = "building"
    /\ refs \subseteq DOMAIN elements[p]
    /\ LET element == [refs |-> refs, accepted |-> accepted]
       IN  elements' = [elements EXCEPT ![p] = [i \in {id} |-> element]]

(* model_post_init adds the element.  What it refers to was constructed,   *)
(* and so registered, before it.                                           *)
Track(p, id, refs, accepted) ==
    /\ parser[p] = "building"
    /\ refs \subseteq DOMAIN elements[p]
    /\ LET element == [refs |-> refs, accepted |-> accepted]
       IN  elements' = [elements EXCEPT ![p] = Update(@, [i \in {id} |-> element])]

(* Mutant: model_post_init does not look for the id.                       *)
ConstructAnyId(p, id, refs) ==
    /\ Track(p, id, refs, TRUE)
    /\ UNCHANGED <<files, parser, runs, mergerVars>>

Construct(p, id, refs) ==
    /\ id \notin DOMAIN elements[p]
    /\ Track(p, id, refs, TRUE)
    /\ UNCHANGED <<files, parser, runs, mergerVars>>

(* A resolver binds a reference to an element: circular references arise.  *)
Bind(p, id, ref) ==
    /\ parser[p] = "building"
    /\ {id, ref} \subseteq DOMAIN elements[p]
    /\ elements' = [elements EXCEPT ![p][id].refs = @ \cup {ref}]
    /\ UNCHANGED <<files, parser, runs, mergerVars>>

(* Mutant: the parser survives the rejection of an element.                *)
RejectTrackedAndGoOn(p, id, refs) ==
    /\ id \notin DOMAIN elements[p]
    /\ Track(p, id, refs, FALSE)
    /\ UNCHANGED <<files, parser, runs, mergerVars>>

(* Validators of the whole model run after model_post_init: the element    *)
(* they reject is registered already.  The error ends the parser.          *)
RejectTracked(p, id, refs) ==
    /\ id \notin DOMAIN elements[p]
    /\ Track(p, id, refs, FALSE)
    /\ parser' = [parser EXCEPT ![p] = "failed"]
    /\ UNCHANGED <<files, runs, mergerVars>>

(* The id is taken, a field is rejected, or the input is not understood:   *)
(* the parser ends and nothing was registered.                             *)
FailParser(p) ==
    /\ parser[p] = "building"
    /\ parser' = [parser EXCEPT ![p] = "failed"]
    /\ UNCHANGED <<files, elements, runs, mergerVars>>

Serialize(r) == [kind |-> "registry", elements |-> r]

(* main writes ModelRegistry.serialize() when the parser is through.       *)
WritePickle(p) ==
    /\ parser[p] = "building"
    /\ parser' = [parser EXCEPT ![p] = "written"]
    /\ files' = [files EXCEPT ![p] = Serialize(elements[p])]
    /\ UNCHANGED <<elements, runs, mergerVars>>

-----------------------------------------------------------------------------
(* load_and_merge.                                                         *)

(* A call from a new process, or once more from the same one.              *)
StartMerge(inputs) ==
    /\ merger # "loading"
    /\ merges < MaxMerges
    /\ merger' = "loading" /\ error' = "none"
    /\ todo' = inputs /\ merged' = Empty /\ loaded' = <<>>
    /\ merges' = merges + 1
    /\ registry' \in {Empty, registry}
    /\ UNCHANGED <<files, parserVars>>

Loading == merger = "loading" /\ todo # <<>>
Input == files[Head(todo)]

(* deserialize() replaces the registry by what the pickle holds.           *)
Deserialize ==
    /\ Loading
    /\ Input.kind = "registry"
    /\ registry' = Input.elements

(* Mutant: identifiers of earlier files are not looked at.                 *)
LoadWithoutCheck ==
    /\ Deserialize
    /\ merged' = Update(merged, Input.elements)
    /\ loaded' = Append(loaded, Input.elements)
    /\ todo' = Tail(todo)
    /\ UNCHANGED <<files, parserVars, merger, error, merges>>

Load ==
    /\ Deserialize
    /\ DOMAIN merged \cap DOMAIN Input.elements = {}
    /\ merged' = Update(merged, Input.elements)
    /\ loaded' = Append(loaded, Input.elements)
    /\ todo' = Tail(todo)
    /\ UNCHANGED <<files, parserVars, merger, error, merges>>

FailMerge(why) ==
    /\ merger' = "failed"
    /\ error' = why
    /\ UNCHANGED <<files, parserVars, todo, merged, merges>>

(* Mutant: the registry is left to what was merged before the clash.       *)
FailDuplicateMerged ==
    /\ Loading /\ Input.kind = "registry" /\ registry' = merged
    /\ DOMAIN merged \cap DOMAIN Input.elements # {}
    /\ loaded' = Append(loaded, Input.elements)
    /\ FailMerge("duplicate")

FailDuplicate ==
    /\ Deserialize
    /\ DOMAIN merged \cap DOMAIN Input.elements # {}
    /\ loaded' = Append(loaded, Input.elements)
    /\ FailMerge("duplicate")

FailMissing ==
    /\ Loading /\ Input = NoFile
    /\ FailMerge("missing")
    /\ UNCHANGED <<registry, loaded>>

(* TypeError of deserialize(), as a RuntimeError.                          *)
FailPayload ==
    /\ Loading /\ Input.kind = "result"
    /\ FailMerge("not a registry")
    /\ UNCHANGED <<registry, loaded>>

(* Mutant: the registry is left as the last pickle has filled it.          *)
EndMergeWithoutUpdate ==
    /\ merger = "loading" /\ todo = <<>>
    /\ merger' = "merged"
    /\ UNCHANGED <<files, parserVars, error, todo, registry, merged, merges, loaded>>

EndMerge ==
    /\ merger = "loading" /\ todo = <<>>
    /\ merger' = "merged"
    /\ registry' = merged
    /\ UNCHANGED <<files, parserVars, error, todo, merged, merges, loaded>>

(* main pickles the result, {"data_types": merged_elements}.               *)
WriteAggregate ==
    /\ merger = "merged"
    /\ files' = [files EXCEPT ![Aggregate] = [kind |-> "result", elements |-> merged]]
    /\ merger' = "idle"
    /\ UNCHANGED <<parserVars, error, todo, registry, merged, merges, loaded>>

-----------------------------------------------------------------------------

Parser(p) ==
    \/ StartParser(p)
    \/ \E id \in Ids : \E refs \in SUBSET Ids : Construct(p, id, refs) \/ RejectTracked(p, id, refs)
    \/ \E id, ref \in Ids : Bind(p, id, ref)
    \/ FailParser(p) \/ WritePickle(p)

Merger ==
    \/ \E inputs \in InputLists : StartMerge(inputs)
    \/ Load \/ FailDuplicate \/ FailMissing \/ FailPayload
    \/ EndMerge \/ WriteAggregate

Next == Merger \/ \E p \in Parsers : Parser(p)

Spec == Init /\ [][Next]_vars

-----------------------------------------------------------------------------

Written == {p \in Pickles : files[p] # NoFile}

(* No pickle holds an element that a validator rejected, although such     *)
(* elements stay in the registry: the process that has them never writes.  *)
OnlyAcceptedElements ==
    \A p \in Written : \A id \in DOMAIN files[p].elements : files[p].elements[id].accepted

IsClosed(r) == \A id \in DOMAIN r : r[id].refs \subseteq DOMAIN r

(* What an element refers to is in the same pickle, after a merge and      *)
(* after reruns of parsers, too: a reader of the model never meets an      *)
(* element it cannot look up.                                              *)
ReferencesStayInside == \A p \in Written : IsClosed(files[p].elements)

(* The pickles that were combined: all that were loaded, but for one whose *)
(* elements clash with earlier ones.                                       *)
Combined ==
    IF merger = "failed" /\ error = "duplicate" THEN 1..Len(loaded) - 1 ELSE 1..Len(loaded)

(* "Duplicate model element UUIDs are rejected" (runner/README.md): at     *)
(* every moment of a merge, a failed one included, the elements come from  *)
(* exactly one of the pickles combined so far, unchanged, and none is      *)
(* missing.                                                                *)
MergedIsDisjointUnion ==
    /\ DOMAIN merged = UNION {DOMAIN loaded[i] : i \in Combined}
    /\ \A i \in Combined : \A id \in DOMAIN loaded[i] : merged[id] = loaded[i][id]
    /\ \A i, j \in Combined : i # j => DOMAIN loaded[i] \cap DOMAIN loaded[j] = {}

(* After a merge, and after its aggregate was written, the registry holds  *)
(* what the caller was given.  Until then, and after a failed merge, it    *)
(* holds the pickle that was loaded last, whole, and never a part of the   *)
(* union; if the merge failed on duplicates this is the pickle that        *)
(* clashes.                                                                *)
RegistryFollowsMerge ==
    /\ merger \in {"idle", "merged"} => registry = merged
    /\ merger \in {"loading", "failed"} /\ loaded # <<>> => registry = loaded[Len(loaded)]
    /\ merger = "failed" /\ error = "duplicate" => DOMAIN registry \cap DOMAIN merged # {}

(* "All objects of type ModelElement are automatically tracked in the      *)
(* registry to ensure uniqueness ... for the whole lifetime of the         *)
(* process" (ModelRegistry): within a run an id keeps its element, which   *)
(* only ever gains references.                                             *)
TrackedForLife ==
    [][\A p \in Parsers : parser[p] = "building" =>
          \A id \in DOMAIN elements[p] :
              /\ id \in DOMAIN elements'[p]
              /\ elements[p][id].refs \subseteq elements'[p][id].refs
              /\ elements[p][id].accepted = elements'[p][id].accepted]_vars

(* "The aggregate pickle ... can be loaded with ModelRegistry.deserialize()*)
(* or used as an input to another merge" (runner/README.md): a merge never *)
(* rejects what a merge or a parser has written.                           *)
AggregateIsMergeInput == error # "not a registry"
=============================================================================
