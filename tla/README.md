# Verification of the ECU model tool chain

This directory holds TLA+ models of the tool chain in `src/score`: what they
model, what TLC checks on small instances, and what TLAPS proves for instances
of any size. `PROJECT.json` lists, for every definition that models code, the
lines that it models.

The tool chain turns interface definition files into one *ECU model* and
generates code from it:

    .fidl/.fdepl --> batch preprocessor --> parser --> file graph --> registry --+
                                                                                 +--> merge --> headers
    descriptor sets -------------------> protobuf parser ---------> registry ---+

Every arrow between programs is a file (a pickle of the registry or a header);
inside a program the parts call each other. Only the batch preprocessor uses
threads and processes of its own. The other hazards are of sequential
programs: recursion over cyclic graphs, references that are bound in several
passes, global state that outlives a failure, and output of which a part stays
behind.

## 1. Inventory

Paths are relative to `src/score`.

| Component | State | Operations | Interacts with | Hard behaviour | What makes it correct |
|---|---|---|---|---|---|
| Batch preprocessor, `parsers/franca_parser/preprocessor/batch_runner.py` | the finder's set of seen paths and partial batch; three queues; one shared flag; per worker its batch and results | find files, queue batches and sentinels, get with a timeout, process a file, publish, collect, join, report | called by the parser; `preprocess()` per file; operating system processes and pipes | interleavings of two threads and many processes; a flag and a sentinel that race with a timeout; feeders that lag; pipes that fill; killed children; partial failures | every file in the result once, or reported; no return with files missing; the call ends |
| Directive preprocessor, `preprocessor/preprocess.py` | `in_if`, `active`, `taken` | one pass over the lines of a file | called by the workers | three variables that every directive changes; errors far from their cause | the first true branch of each `#if` is kept; exactly malformed files are rejected |
| Parser front end, `parser.py`, `transformer/import_transformer.py` | work list, parsed files, allowed files | parse a file, queue its imports, reject undeclared ones | preprocessor; file graph | circular imports | exactly the reachable files are parsed, once each |
| File graph, `transformer/file_graph_transformer.py` | transformed files, files being visited, pending references | depth-first visit, transform, resolve what is pending | FIDL and FDEPL transformers | cycles cut at an arbitrary file | once per file, imports first |
| FIDL transformer and resolver, `transformer/fidl_transformer.py`, `transformer/resolver/` | collections, declarations, pending references with the file that owns them | bind early to imports, then locally, then at the end | registry | qualified names in many spellings; the same name in several scopes; order of binding | a reference is bound to the one declaration it means, or the run fails |
| FDEPL transformer, resolver, applier, `transformer/fdepl_transformer.py`, `deployment_property_applier.py` | specifications, what they declare and extend; pending uses; the properties of datatypes | resolve bases, targets and uses; check and set parameters, defaults | datatypes of the FIDL files, which all deployments share | results that depend on the order of files and of hosts; declarations that hide each other; two checks of values; cyclic extension | explicit values win over defaults; required properties are set, to values that fit |
| Protobuf parser, `parsers/protobuf_parser/` | option pool, definitions by key, unresolved references, issues | build the pool in rounds, register, lay out fields and oneofs, merge options, record, resolve | registry | dependencies in any order or in cycles; references ahead of definitions; nesting; inherited options | only well-formed inputs are accepted, and all that import what they name; nothing is lost or moved; all issues are reported |
| Registry, `ecu_model/model.py` | one global mapping of identities to elements | register on construction, serialize, deserialize | every model class | an element stays registered although a later validator rejects it; deserialize replaces everything | a pickle is closed and holds accepted elements only |
| Merge, `parsers/runner/load_and_merge.py`, `run_load_and_merge.py` | the merged mapping, the global registry | load, compare, merge, write the aggregate | pickles of the parsers | failure in the middle; stale pickles; repeated merges | the disjoint union of the inputs |
| Datatype classes, `ecu_model/data_types/` | the fields of one object | validate on construction and assignment | registry | post-init before the validators of the model | see Registry |
| Architecture, `ecu_model/architecture/` | applications, chains, ECU; predecessors left in the cycle check | validate activities, membership, triggers, order, deployment | registry | cycles; activities with several owners | a chain is accepted only if it can be scheduled, and rejected only for a reason; the checks end |
| Communication, `ecu_model/communication/` | the fields of one object | validate on construction | registry | none: no object is compared with another of a later step | not modelled |
| Header generator, `generators/src/` | processing state of typedefs, active path, registered names, files | lower depth first, register, write | merged pickle; a directory that outlives the run | cyclic typedefs; conflicts of names; a failure after some files | dependencies first, nothing overwritten, success is complete |
| Documentation generator, Bazel rules, grammars | none | configuration | the above | none | not modelled |

The hazards behind the column "hard behaviour" are listed in `PROJECT.json` at
the line where each bites, with the properties that would notice.

## 2. Modules

| Module | Models | Role |
|---|---|---|
| `Preprocessing` | what `batch_run` promises its caller | abstract specification |
| `BatchRunner` | finder, workers, feeders, collector, kills | implements `Preprocessing` (`Promise`) |
| `BatchRunnerProofs` | | TLAPS proofs about `BatchRunner` |
| `DirectivePreprocessor` | `preprocess()`, which the workers call for each file | checked against a definition of blocks and branches that has no state |
| `DirectivePreprocessorProofs` | | TLAPS proofs about it |
| `FrancaNames` | qualified names and the candidates for a reference | pure operators, used by the next two |
| `FrancaFileGraph` | parser front end, file graph, FIDL transformer and binding | composes the three in the order `main` calls them |
| `FrancaFileGraphProofs` | | TLAPS proofs about the files, their order, names, and what references are bound to |
| `Deployment` | FDEPL transformer, resolver, applier | starts from the orders that `FrancaFileGraph` allows |
| `DeploymentProofs` | | TLAPS proofs about `Deployment` and the names of uses |
| `ProtobufModel` | protobuf parser | |
| `ProtobufModelProofs` | | TLAPS proofs about `ProtobufModel` |
| `ModelPipeline` | registry, parsers' pickles, merge | composes the programs of the chain through their files |
| `ModelPipelineProofs` | | TLAPS proofs about `ModelPipeline` |
| `HeaderGenerator` | header generator and its output directory | |
| `HeaderGeneratorProofs` | | TLAPS proofs about `HeaderGenerator` |
| `Architecture` | application, chain and ECU validators | |
| `ArchitectureProofs` | | TLAPS proofs about `Architecture` |

`MC*` modules only give constants their values. Definitions have the names of
the code where they stand for a variable, a method or a class.

### How states and actions correspond to the code

*BatchRunner.* `input`, `seen_paths`, `batch` are the finder's locals;
`file_queue` is one FIFO, since it has one writer; results and errors are
written by several processes, keyed by path and listed, so their buffers and
pipes are sets. Each statement that another thread or process can observe is an
action: `HandlePath` and `EndDiscovery` are the body and the `finally` of
`get_file_paths`; `GetBatch`, `GetSentinel`, `GetTimesOut` the three ways a
`get` ends; `ProcessFile`, `FileFails`, `WorkerAborts` the three ways the
handling of a file ends; `FeedResult` and `FeedError` are the feeder threads of
the queues (external); `ProcessExits` needs flushed buffers, as
`Queue.join_thread` does; `Collect`, `EndCollection`, `Finish` are the loop, the
drain and the end of `batch_run`. An error record is the file that failed or,
for a worker that went down, the worker: `_record_error` then gets no file, and
the report says `File: <unknown>`. `Kill` removes a process with all it holds,
the read lock of the queue included. It does not model that a killed feeder may
hold the write lock of the shared result or error queue, or leave half of a
message in the pipe, after which the feeders or the parent may wait forever: the
runs with kills check safety only. `failed`, `aborted` and `dropped` are history;
`dropped` is also written by `Kill` and `WorkerAborts`, so that `NoFileForgotten`
says where a missing file went, not that it could have been saved.

*DirectivePreprocessor.* `in_if`, `active` and `taken` are the code's; one
action per kind of line and one for the end of the file. A line is its directive
or text, which is what the regular expressions tell apart. In `BatchRunner` a
file is processed or fails: `FileFails` stands for `RejectDirective` and a
failing `EndReading` here.

*FrancaNames.* A name is the sequence of its parts. `expand_fqn_candidates`,
`is_namespace_visible` and `matches_use_definition_reference` are the functions
of `utils_resolver.py`; `StandsFor` and `UseMeans` say the same without
candidates or prefixes, and are what the properties use.

*FrancaFileGraph.* `pending_files`, `parsed_files` are the work list and result
of `parse_files`. The recursion of `_process_file` is the `stack`, one frame per
call with the imports still to do. `TransformFile` is the whole of
`transform_file`: early binding to transformed imports, recording, local
resolution, and deferral; it is only taken if nothing is declared twice
(`IsAccepted`), no reference is ambiguous, and what is extended is of the same
kind (`CanTransform`), else `RejectTransform` is. `ResolvePending` binds what one
file left for later. A reference is a slot: a place of a declaration; what is
deferred is a pair of the slot where a name is looked up and the slot that holds
the name, since the two differ for a field of an imported array. Only the kinds
of declarations and the values of enumerators are kept of what a parse tree says.

*Deployment.* The files come in an order that the traversal may produce; within
a file the specifications are resolved first, then each deployment is resolved
and applied, element by element (`ApplyElement` is `_apply_parameters` with its
checks and its update of the shared datatype). `Targets` is
`resolve_type_collection`, `Searched` the specifications in the order in which
`resolve_base_specification` compares them and `Declarers` the places where it
finds one, of which the first counts; `UseMatches` is the search for a use. A
block for a host and a declaration are looked up as the dictionaries of the code
would (`HostBlock`, `Declared`: the last one counts), and so are the
declarations of a hierarchy (`Declarations`: those of the first specification of
the lineage that has any). All these are positions in sequences, `Min` for the
first and `Max` for the last. `IsCompatible` and `IsEnumerated` check
defaults, `IsValid` set values. `host_order` is the iteration order of sets of
strings in this process. The recursion over base specifications is a function
(`Lineage`); where it would not end the action is `RejectInheritance`
(RecursionError).

*ProtobufModel.* The loop of `_option_descriptor_pool` is `AddToPool`,
`RejectFile`, `Defer`, `NextRound`, `RejectDependencies`. `CanBuild` is what
`DescriptorPool.Add` checks, external and modelled after the library: a known
file is ignored, keys must be new, every name must be declared in the file or in
a file that the pool has (imported or not), and a declaration must be a proto3
one (`IsDescriptor`). For other checks of the library a file can be `malformed`,
in which case it is never built. `Builtin` are the types of `descriptor.proto`,
which is in the pool before all files and is not transformed; it is not a
dependency in the model either. A file is its name: two files of one name with
different content are not modelled. The recursion over nested messages is a
stack. `AppendDefinition` is an enum or the start of a message,
`TransformFields` its fields after the nested declarations: `Layout` distributes
them over the struct and the unions of its oneofs. `Merged` is `_merge_options`;
an option is its name without the qualification and the kind of its value.
`Resolve` and `AppendIssue` are the two branches of `resolve_references`, of
which only the outcome of the last step raises.

*ModelPipeline.* Each program has a registry of its own; `Construct` registers
(`model_post_init`) and `RejectTracked` is the validator that runs after that.
A parser writes its pickle last, so a failed one leaves the pickle of an earlier
run. `Load` deserializes one input, which replaces the registry, and then
merges it.

*HeaderGenerator.* `active_path` is the recursion of `process`; `WriteHeader` is
the return from it: registration, the exclusive `open`, the text and the state
`COMPLETE`. `files` outlives the run; `StartRun` is another invocation with the
same directory. `InterruptWrite` is a full disk or a kill in the middle of a
file, `Interrupt` a kill between two headers.

*Architecture.* The chains of an ECU are built one after the other: an action
for the checks before the cycle check, one per round of `_validate_acyclic`, one
for its end, one for the ECU, and one for each kind of rejection. `Executable`
and `IsCycle` are the reference definitions.

## 3. Runs

    tlc -config <run>.cfg <module>

| Configuration | Module | States | What it shows |
|---|---|---|---|
| `BatchRunner.cfg` | `MCBatchRunner` | 346,804 | Without kills: the flag is safe, no file is processed twice, a return is complete, a raise names every failed file and reports every worker that went down, the call ends, and all this implements `Preprocessing`. |
| `BatchRunner_kill.cfg` | `MCBatchRunner` | 257,484 | With kills at any moment: what is missing from the result is exactly what failed or went down with its holder, and the result is sound. |
| `BatchRunner_errorpipe.cfg` | `MCBatchRunner` | violation | `Termination` fails if the error records do not fit in the pipe. |
| `DirectivePreprocessor.cfg` | `MCDirectivePreprocessor` | 184,353 | Which lines are kept, and which files are rejected. |
| `FrancaFileGraph.cfg` | `MCFrancaFileGraph` | 721,052 | Which files are parsed and in which order they are transformed; scope and uniqueness of bindings; success of well-formed programs; termination. |
| `FrancaFileGraph_circular.cfg` | `MCFrancaFileGraph` | violation | A well-formed program with circular imports is rejected. |
| `Deployment.cfg` | `MCDeployment` | 152,006 | Precedence of values and defaults, required properties and the values they get, scope of uses. |
| `ProtobufModel.cfg` | `MCProtobufModel` | 174,720 | Acceptance of well-formed inputs only, and of all that import what they name; bindings, places of fields, options, issues, termination. |
| `ModelPipeline.cfg` | `MCModelPipeline` | 2,905,243 | Closedness and acceptance of pickles, merges, contents of the registry, over repeated and failing runs. |
| `ModelPipeline_remerge.cfg` | `MCModelPipeline` | violation | The aggregate of a merge cannot be merged again. |
| `HeaderGenerator.cfg` | `MCHeaderGenerator` | 186,168 | Dependency order, completeness, reasons of failures, termination, over two runs into one directory that may be interrupted anywhere. |
| `Architecture.cfg` | `MCArchitecture` | 460,188 | The cycle check against a reference definition; that its rounds end; what an accepted ECU triggers. |

### Bounds, and why they are enough

- *BatchRunner*: two processes of two threads, so that threads of one process
  and of two compete; up to four files in batches of two, so that there are full
  and partial batches and fewer and more batches than workers; a path listed
  twice; a missing file with files before and after it; no kill, or both
  processes killed. `ErrorPipe` is the number of records the pipe holds: four
  is never exceeded by three or four files, one is. Symmetry is used in the kill
  run only, which checks no liveness.
- *DirectivePreprocessor*: all files of up to five lines over two symbols, with
  three sets of defined ones; and blocks of four branches with text in each,
  followed by another block or a mistake. The proofs show that longer files add
  nothing.
- *FrancaFileGraph*: four families. All import graphs over three files in all
  orders of the import lists give cycles of two and three files, entered from
  every side, and diamonds, with declarations that need each other or not, and
  with a file that was not declared. A second family spells a reference in six
  ways over packages that overlap, with named and anonymous collections and
  imports with and without a namespace, the same file imported twice included.
  A third has arrays of circular imports whose elements are declared once, twice
  or elsewhere. The last has what a single file can say wrongly: collections, declarations
  and enumerator values that clash, and base types of another kind.
- *Deployment*: five families, since their product is too large. Two deployments
  of one datatype under specifications with every combination of liabilities,
  extension and hosts, in both orders of the hosts; one property with
  declarations of four types, arrays or not, with all kinds of defaults and set
  values, and hidden by other declarations; three deployments in three files over
  all import graphs, in all orders the traversal can produce; base
  specifications over the same graphs; packages, imported namespaces and
  references of one to three parts.
- *ProtobufModel*: four families: all dependency graphs over three files in six
  orders, with files missing, repeated and malformed; three declarations in four
  nestings with all assignments of four keys, one of them that of a type of
  `descriptor.proto`, so that keys clash between and within files and with the
  pool, and names of all of them with the imports that they need, with others or
  with none; up to four fields of all kinds in three oneofs in any order; options of
  files, messages, enums and oneofs that are inherited, overridden or of a wrong
  kind.
- *ModelPipeline*: two parsers, a pool of identities that can clash, `MaxRuns`
  program runs, enough for a parser to fail after it succeeded, for a merge before and
  after, and for a merge of an aggregate. Identities are interchangeable.
- *HeaderGenerator*: all reference graphs over three typedefs, a primitive and an
  unsupported target, four namings (distinct, clashing by case, equal,
  anonymous), `MaxRuns = 2`: a second run sees every directory that a first one
  can leave, when it is killed in a header or between two, too.
- *Architecture*: all trigger graphs over up to three activities, including one
  scheduled twice, in one to three applications that share activities or not; up
  to three small chains on ECUs with up to three applications.

### Fairness

The parsers, the merge and the generator are single sequential calls: once
started they take their next step, `WF(Next)` (`WF(Run)` for the generator, as
nobody has to start another run, and an interruption is not a step of it). In `BatchRunner` every thread and every feeder
of the standard library is scheduled by the operating system: weak fairness of
each of them separately, never of a kill, and none that prefers a non-empty
`get` over a timeout other than that a worker that can always go on does so.
`DirectivePreprocessor`, `Deployment` and `ModelPipeline` are checked for safety
only: their loops go over lists that do not grow.

### Deadlock

TLC checks it, with an explicit stuttering action where a program has ended.
It is off in three kinds of runs: with kills, as a killed process may take the
lock of the queue with it (the call then spins); in the error pipe run, whose
point is that nothing moves; and in the pipeline and generator runs, as nobody
has to start another program.

## 4. Disagreements between code and documentation

1. **Error pipe** (`Termination` of `BatchRunner_errorpipe.cfg`).
   `batch_run` joins its children before it reads the error queue, and a child
   ends only after its feeder has written every record. With more failing files
   than fit in the pipe (64 KiB on Linux) the call does not end, although it
   should "collect results or raise reported failures".
2. **Circular imports** (`ResolvesCircularImports`). A field that was bound to
   an imported array is taken for an inline one; the unresolved element of that
   array is then looked up from the wrong file, and a well-formed program fails.
   Where the imports of that file happen to declare the name, the run succeeds
   instead, and the element of the foreign array is bound to a declaration that
   neither the array's file nor its imports have. `BindsInScope` excepts these
   elements (`CircularElements`), and no other slot of the same program.
3. **Merging an aggregate** (`AggregateIsMergeInput`). The runner's README says
   that the aggregate can be the input of another merge; it is a different kind
   of payload and is rejected.

The models follow the code in the following, too, where no document says
clearly enough what ought to happen for a run to refute it. A maintainer of the
code may want to look at them.

- `resolve_base_specification` searches every FDEPL file transformed so far,
  imported or not ("transformed FDEPL imports", says its docstring), and cuts as
  many parts off a reference as the package of the searched file has, without
  comparing them: what is found depends on files that have nothing to do with
  the reference, and on their order.
- `resolve_type_collection` ignores the parts of a reference between the package
  and the last one, and finds a collection once per import of its file: two
  imports of one file, under two namespaces, are an ambiguity.
- A reference is looked up in the imports before its own file, so an import
  shadows a local declaration; on an import cycle only the imports that were
  transformed before count, so that an ambiguity may go unnoticed (`OneMeaning`
  is about files that are not on a cycle). `BindsInScope` accepts both
  declarations.
- A default may be a Boolean for an Integer property, and a single value for an
  array; a set value may not (`Fits`). A second block for a host replaces the
  first one.
- Which of several host declarations decides depends on the iteration order of a
  set of strings (`host_order`).
- An application of a chain of which all activities are also listed by later
  applications is rejected as contributing nothing (`HidesApplication`, the
  exception in `ChainsAreSchedulable`).
- Chains of an ECU are compared by application: an activity that two applications
  list may be triggered by two chains. `EcuRunsItsChains` says that this is the
  only case.
- `DescriptorPool.Add` raises for names that nothing in the pool declares, and
  does not compare them with the imports of the file. An input with an import
  left out is accepted or rejected by the order of its files (`AcceptsWellFormed`
  allows both), and an undefined name ends the run in the pool, with the error of
  the library, not in the report of `resolve_references`: only names of
  `descriptor.proto` get there (`ReportsEveryIssue`).

## 5. Proofs

### BatchRunnerProofs

The following is proved for every finite set of files,
processes and threads, every batch size, capacity of the error pipe and number
of kills, from the assumptions that `BatchRunner` states about its constants
(`BatchRunnerAssumption`: the sets are finite, there is at least one process
and one thread, batches hold at least one file; `RecordsAssumption`: files are
told apart from workers in error records).

| Theorem | Statement | Rests on |
|---|---|---|
| `TypeCorrect` | `Spec => []TypeOK` | lemmas about the sequence `file_queue` |
| `QueueInvariant` | `Spec => []QueueInv` | `TypeCorrect` |
| `FlagIsSafe` | `Spec => []FlagMeansNoBatchLeft` | `QueueInvariant` |
| `IdleInvariant` | `Spec => []IdleInv` | `TypeCorrect` |
| `NothingForgotten` | `Spec => []NoFileForgotten` | the three above |
| `EndInvariant` | `Spec => []EndInv` | `QueueInvariant` |
| `FailuresReported` | `Spec => []RaiseReportsEveryFailure` | `EndInvariant` |
| `ReturnsEverything` | `Spec => []ReturnIsComplete` | all of the above |
| `PlaceInvariant` | `Spec => []PlaceInv` | `TypeCorrect`, `QueueInvariant`, `IdleInvariant` |
| `NothingTwice` | `Spec => []NoFileTwice` | `PlaceInvariant` |
| `ResultsAreSound` | `Spec => []ResultIsSound` | `PlaceInvariant` |
| `KeepsPromise` | `MaxKills = 0` implies `Spec => ImplementsPreprocessing` | all of the above |

None of the properties is inductive.

- `FlagMeansNoBatchLeft` speaks of the moment after a sentinel was read. What
  makes it true is the shape of the queue before that: `QueueInv` says that no
  sentinel is queued while the finder is at work, that sentinels are only
  followed by sentinels, and that the partial batch is empty once the finder has
  stopped. The order of the two lines of the `finally` clause is exactly what
  the step `EndDiscovery` of the proof needs.
- `NoFileForgotten` is proved for one file at a time (`Accounted(f)`): of the
  places where a file can be, each action empties one and fills another. It
  needs `QueueInv`, since a sentinel is read without looking at a batch, and
  `IdleInv`: workers that wait hold no batch, workers that left hold nothing.
- `EndInv` is about the end of the call: dead processes have empty buffers and
  workers that are done (`DeadInv`), workers stop only because the flag is set
  or a failure is recorded (`StopInv`), every failure is in a buffer, in
  the pipe or in `errors` (`ErrorInv`), and what the verdict of the call says
  (`VerdictInv`). Kills are excluded where the statements say so.
- `ReturnsEverything` puts these together: a normal return means that nothing
  failed, so the workers left because of the flag, so the queue has no batch, and
  nobody holds anything; what was discovered is then in the result by
  `NoFileForgotten`.
- `PlaceInv` is the other half of `NoFileForgotten`: a file is not only
  somewhere, it is in one place. `WaitInv` says so of the partial batch and the
  queue (no two batches share a file), `HandInv` of the workers, `TransitInv` of
  the buffers and the pipe, and `ApartInv` of these three and the end of a file's
  way (result, failed or dropped). Each action takes a file out of one place as
  it puts it into another; a new path is in none of them, because everything in
  a place was seen before and the finder drops what it has seen. `NoFileTwice`
  and `ResultIsSound` follow, with kills as well as without.
- `KeepsPromise` is the refinement of `Preprocessing`, step by step: `HandlePath`
  is `Discover` or a stutter, `Collect` and `EndCollection` deliver files that
  are outstanding (by `PlaceInv` each of them for the first time), a failure is a
  failure, `Finish` is `Return` or `Raise` (by `ReturnIsComplete` and
  `ErrorInv`), and what queues, feeders and threads do in between is hidden from
  the caller. Kills are excluded: `Preprocessing` promises nothing of them.

### HeaderGeneratorProofs

The following is proved for every set of typedefs, of names and of models (with
infinitely many typedefs, too), every folding of names, and any number of runs
into one directory, from `HeaderGeneratorAssumption`: models are well-typed, and
the values that stand for a missing name, a primitive and an unsupported
datatype are not among the names and typedefs.

| Theorem | Statement | Rests on |
|---|---|---|
| `Correctness` | `Spec => [](TypeOK /\ Inv)` | one lemma per action |
| `TypeCorrect` | `Spec => []TypeOK` | `Correctness` |
| `HeadersInDependencyOrder` | `Spec => []DependenciesFirst` | `Correctness` |
| `FailuresHaveReasons` | `Spec => []FailureHasReason` | `Correctness` |
| `SuccessesAreComplete` | `Spec => []SuccessIsComplete` | `Correctness` |

Here even the type invariant is not inductive: a header includes another one by
the name of its typedef, and that this name is one needs to know that the
typedef is complete. `Inv` has four parts of its own.

- `PathInv`: the typedefs in progress are the path of the recursion, each refers
  to the next one, and no typedef is on it twice. It is why "cyclic dependency"
  is said only of cycles: the rest of the path from the typedef that was met
  again is a set in which nobody refers to the outside.
- `CoverInv`: only what the selected datatypes lead to is looked at, and what is
  no longer in `selected` is complete. At the end the complete typedefs are
  closed, so they contain the least closed set, which is `Lowered`.
- `DoneInv`: the complete typedefs could be a model of their own, without cycles
  and conflicts, and each has its header. A typedef that becomes complete adds
  no cycle, because none of the complete ones refers to it.
- `FileInv`: a header of this run is that of a complete typedef; a file that is
  neither was there before the run. It is why an existing file is a reason to
  fail: it is an older one, or the header of a typedef of the same name. It also
  says that nothing is overwritten: a header that later ones include would
  otherwise not stay that of its typedef.

### DirectivePreprocessorProofs

For files of any length, over any symbols, from `DirectivePreprocessorAssumption`
(inputs are lines and sets of symbols).

| Theorem | Statement | Rests on |
|---|---|---|
| `Correctness` | `Spec => []Inv` | one lemma per action |
| `FirstTrueBranchIsKept` | `Spec => []KeepsFirstTrueBranch` | `Correctness` |
| `MalformedIsRejected` | `Spec => []RejectsMalformed` | `Correctness` |

The properties speak of the whole file when it has been read; the code decides
line by line. `BlockInv` says what the three variables mean in between: `in_if`
that the next line is inside of a block, `taken` that a branch of this block was
true, `active` that text here would be kept. `PrefixInv` and `OutputInv` are the
two properties for the lines read so far. The lemmas at the beginning say how
the meaning of a line follows from that of the line before it, directive by
directive, and the lemma of each action compares this with what the code assigns.

### FrancaFileGraphProofs

For any finite set of files, any import graph, cycles included, and any roots,
from `FrancaFileGraphAssumption` (the inputs are programs).

| Theorem | Statement | Rests on |
|---|---|---|
| `GraphInvariant` | `Spec => []Inv` | one lemma per action |
| `NeededAreParsed` | `Spec => []ParsesWhatIsReachable` | `GraphInvariant` |
| `EachFileOnce` | `Spec => []TransformsEachFileOnce` | `GraphInvariant` |
| `ImportsAreFirst` | `Spec => []ImportsFirst` | `GraphInvariant` |

The parser and the traversal do not depend on what references are bound to, so
`Inv` says nothing of it: its `GraphType` is the part of the type invariant that
the files need.

- `ParseInv`: what is parsed or pending contains the roots and the imports of
  what is parsed. When nothing is pending the parsed files are closed under
  imports, so they contain all that can be reached.
- `VisitInv`: no file is twice on the path or in the result, or in both. A new
  file is entered only if it is in neither.
- `PathInv`: each file of the path leads to those after it.
- `OrderInv`: an import of a file of the path is transformed, still to be
  visited, or on the path. When a file is transformed nothing of it is still to
  be visited, so an import that is not transformed is on the path, and by
  `PathInv` leads back to the file: the exception that `ImportsFirst` makes.

What references are bound to is proved on top of this, from `Inv` and a second
invariant.

| Theorem | Statement | Rests on |
|---|---|---|
| `BindInvariant` | `Spec => []BindInv` | `GraphInvariant`, one lemma per action |
| `BoundInScope` | `Spec => []BindsInScope` | `BindInvariant` |
| `OneMeaningOffCycles` | `Spec => []OneMeaning` | `BindInvariant` |
| `WellFormedIsResolved` | `Spec => []ResolvesWellFormed` | `BindInvariant` |

The code binds a reference in one of four places: early among the imports,
then in its own file, at the end from where it was left pending, or, for the
element of an imported array, on behalf of a field of another file. `Waits` says
of which references the first two cannot be enough: those that mean nothing in
their own file, and in imports only what lies around a cycle.

- `SlotInv` follows a slot through this: unbound until its file is transformed;
  from then on bound, or waiting and pending. A reference that does not wait is
  bound for good, and off the cycles to its only meaning. This is where the
  order of the files is needed (`ImportsFirst`): off a cycle all imports are
  there when the file is transformed, so early binding sees what the end would.
  A reference that means nothing at all stays pending; it is why the end is never
  reached with one, since `PendingInv` leaves nothing pending at the end.
- `PendingInv` says what may be in a record of pending references: references of
  the file that owns the record, and elements of arrays that a field of it was
  bound to. The second kind is looked up from the wrong file (disagreement 2);
  `ScopeInv` therefore excepts the elements of circular arrays, one by one, and
  `FailInv` the programs with a field of such an array.

Two theorems are about operators of the module, for arguments of any length.

| Theorem | Statement |
|---|---|
| `CandidatesAreMeanings` | The candidates that `expand_fqn_candidates` tries are exactly the names that continue the namespace without a gap and end with the reference. |
| `EnumValuesAre` | `EnumValues` gives each literal its own value, or that of the last literal that has one plus the distance, or its position. |

- The properties use the right-hand side of the first (`StandsFor`), the actions
  its left-hand side. The names are compared position by position (`SomeParts`).
- `EnumValues` is recursive. Its definition chooses a function; that there is one
  and what it returns is shown with `IsValue`, which is not recursive.

### ArchitectureProofs

For any set of activities, any applications and any chains and triggers, from
`ArchitectureAssumption` (the inputs are programs).

| Theorem | Statement | Rests on |
|---|---|---|
| `CyclesAreFound` | `Spec => []ChainsAreSchedulable` | `InvAlways` |
| `AcceptedEcusAreSound` | `Spec => []EcuRunsItsChains` | `InvAlways` |
| `TypeCorrect` | `Spec => []TypeOK` | `InvAlways` |

The rounds of the cycle check forget activities, so `ChainsAreSchedulable` is
not inductive. `RoundInv` is why they forget nothing that matters: every
activity that is left waits for exactly those of its predecessors that are left,
and every cycle of the chain lies within what is left. A round keeps this
(`RoundKeepsCycles`), since an activity of a cycle waits for another one of it;
if no activity can be taken away, what is left is itself a cycle
(`LeftOverIsCycle`); and if nothing is left there was none (`NothingLeft`).
`BuiltInv` carries the result over to the chains built before, `FailedInv` and
`EcuInv` to the end.

### ModelPipelineProofs

For any parsers, any identities of elements (a finite set), any input lists of
the merge and any numbers of runs, from `ModelPipelineAssumption`.

| Theorem | Statement | Rests on |
|---|---|---|
| `TypeCorrect` | `Spec => []TypeOK` | lemmas about `Update` |
| `GoodInvariant` | `Spec => []GoodInv` | `TypeCorrect` |
| `NoRejectedElement` | `Spec => []OnlyAcceptedElements` | `GoodInvariant` |
| `PicklesAreClosed` | `Spec => []ReferencesStayInside` | `GoodInvariant` |
| `MergeIsExact` | `Spec => []MergedIsDisjointUnion` | `TypeCorrect` |
| `RegistryIsKept` | `Spec => []RegistryFollowsMerge` | `TypeCorrect` |
| `ElementsStay` | `Spec => TrackedForLife` | `TypeCorrect` |

The properties about pickles are not inductive: a pickle is written from a
registry, which does hold rejected elements, since an element is registered
before the validator that rejects it. `GoodInv` says why none gets out: while a
parser is at work its registry is closed and accepted (`BuildInv`); the step that
registers a rejected element is the step that ends the process; files are only
written from a registry at work (`FilesInv`), and a merge of such files is of
the same kind. What a merge that fails leaves behind is part of
`RegistryFollowsMerge`: the input that clashed is in the registry and not in the
merged mapping, which is that of the inputs before it (`Combined`).

### DeploymentProofs

For any deployment files, packages, import graphs (cycles included),
specifications, hosts in any order, values and references, from
`DeploymentAssumption`: specifications, deployments and hosts are finitely many,
each specification and deployment is an object of one place of one file
(`InOnePlace`; the traversal transforms a file once, which is
`TransformsEachFileOnce` of `FrancaFileGraph`), and the values that stand for
"unset", "optional" and "unresolved" are no values of properties or references.

| Theorem | Statement | Rests on |
|---|---|---|
| `TypeCorrect` | `Spec => []TypeOK` | `Core`, one lemma per action |
| `UsesAreInScope` | `Spec => []UsesInScope` | `Core` and `UseInv` |
| `AppliedAsDeployed` | `Spec => []PropertiesAsDeployed` | `Core` and `ApplyInv` |
| `SetAsRequired` | `Spec => []RequiredAreSet` | `Core` and `ApplyInv` |

- `Core` is the type invariant with what makes it inductive. `FileInv` says where
  the transformer is: which files are done, which one is in hand, and which of
  its deployments are to do. `SpecInv`: the specifications of the files so far,
  and only these, are resolved, to each other, and are legal. `DeployInv`: the
  deployments up to the one in hand, and only these, are resolved, to
  specifications that are, with targets that exist. `ElementInv` is `FileInv` for
  the elements of the deployment in hand.
- `UseInv`: each use of a resolved deployment is bound to exactly one deployment
  that it means, or is pending and bound to nothing until its turn comes. With
  `UsesAreMeanings`, and nothing pending at the end, this is `UsesInScope`.
- `UsesAreMeanings` is for names of any length: `matches_use_definition_reference`,
  which compares three parts of a use with three parts of two names, matches
  exactly if the use ends the full name of the deployment and continues the
  imported namespace without a gap (`UseMeans`).
- `ApplyInv` speaks of `Applied`, the elements applied so far in the order of the
  text, across files and deployments: each property of each datatype has the
  value that the property `PropertiesAsDeployed` gives for this list
  (`Expected`), and what `RequiredAreSet` says of the whole list holds for it
  (`Satisfied`). The heart of the proof is what one more element does to both
  (`ExpectedAppend`, `SatisfiedAppend`): the last value set is now this element's,
  if it sets one; the first default stays the first, unless there was none; and a
  default only counts if no value was there before, which is the guard of
  `Defaulted`. That the lists match is the other half: `StartFile`, `EndDeployment`
  and `EndFile` move elements from one part of `Applied` to another and must not
  lose or repeat any, and resolving a later specification must not change the
  declarations of what was applied before (`DeclarationsKept`).
- A required property is one without a default and without the flag, so when an
  element passes its checks without setting it there was a value before. A
  stored value fits its declaration because a set value was checked, and because
  the defaults of a legal specification were.

The recursive functions of the module are unfolded in lemmas of their own. An
induction over their argument is done by the least number for which the claim
fails (`LeastNumber`): that a lineage consists of resolved specifications and
does not change later (`LineageType`, `LineageKept`), what the community
modules' `FlattenSeq` returns for a list and for a longer one (`FlattenSeqIs`,
`FlattenAppend`), and which uses `Missing` collects (`CollectedItems`).

### ProtobufModelProofs

For any files in any order, missing and repeated ones included, any dependency
graph, any nesting of declarations, fields, oneofs, options and keys, from
`ProtobufModelAssumption`: files and declarations are finitely many and no file
is a declaration, the keys of `descriptor.proto` are keys, and each declaration is in one place (`IsForest`), since a
descriptor is nested in exactly one other.

| Theorem | Statement | Rests on |
|---|---|---|
| `TypeCorrect` | `Spec => []TypeOK` | one lemma per action |
| `AcceptsWellFormedAlways` | `Spec => []AcceptsWellFormed` | `Invariance` |
| `EverySlotBoundAlways` | `Spec => []EverySlotBound` | `Invariance` |
| `FieldsInPlaceAlways` | `Spec => []FieldsInPlace` | `Invariance`, `LayoutIs` |
| `OptionsReachDefinitionsAlways` | `Spec => []OptionsReachDefinitions` | `Invariance` |
| `ReportsEveryIssueAlways` | `Spec => []ReportsEveryIssue` | `Invariance` |

The properties speak of the end only. `Invariance` is `Spec => []IInv`, where
`IInv` says what is known of each phase before it.

- `PoolInv`: a pool that is complete is one that can be built in some order. Every
  set of listed files that has members in the pool has one that depends only on
  files of the pool outside of the set, the first of it that was added
  (`IsGrounded`). When a round adds nothing, each of the files that were deferred
  depends on a file that is not in the pool, so they can never be added, in
  whatever order, and the rejection is right.
- `BuiltInv`: each file in the pool was built, after its dependencies, so all that
  it names is declared by a listed file or is a type of `descriptor.proto`; at the
  end the pool holds all listed files. Conversely a file that is not built
  (`UnbuiltFile`) has a fault, or names what none of the files that it depends on
  declares: these are in the pool already, whatever the order.
- `ForestInv` is about the recursion. `OrderInv` counts the files; `StackInv`
  says of each frame that its members are registered or still to do, and that
  what is still to do is not registered yet; `TreeInv` that what is registered
  was reached from above and what is finished is registered to the last member;
  `KeyInv` that no two have one key. A declaration is new when it is reached
  since it is in one place; if it is not new its file is listed twice, and then
  its key is taken: a file that declares anything is accepted only once. At the
  end exactly the declarations of the listed files are registered.
- `DefInv`: a definition has the options of its file and its own when it is begun
  (`IsBegun`), its fields and unions when its nested declarations are done
  (`IsCompleted`). The frame at the bottom of the stack is the file from which
  options come, and a declaration is within one file only (`OneFile`), which is
  why nothing comes from the message around it.
- `RefInv`: what is recorded is what the fields of the completed messages name,
  each place once, so at the end it is all of them. `ResolvedInv` divides these
  into what is still to do and what is bound, or an issue if its key means nothing.
- `FailInv`: each way to fail refutes one conjunct of `WellFormed`, or
  `ImportsWhatItNames`, the one thing the pool may or may not notice. It is not
  inductive without the others: that an issue is a fault of the input needs
  `ForestInv`, since a key would also mean nothing if its definition were not
  registered yet.

What the recursive `Layout` returns for any number of fields (`LayoutIs`) is
independent of the rest: each field is in one entry, each oneof has one union,
entries keep the order of their first members (`IsWellPlaced`), with one lemma
for a field that joins a union and one for a new entry.

### Only model-checked

Liveness (`Termination`, `RunEnds`) is out of reach of the prover, as are the
facts that need `ENABLED`. All other properties of the passing runs are stated
by a theorem. The library's induction theorems take an operator as a parameter,
which the provers cannot instantiate; inductions are therefore done by least
counterexamples (`LeastNumber`), one for each claim. The three runs that find a
violation are about particular inputs and have no theorem.

## 6. Not modelled

- The lark grammars, the parse trees, the text of headers and the regular
  expressions of the directives: inputs and outputs.
- The decoding of protobuf options from extension fields: an option is its name
  and the kind of its value. Two extensions whose names end alike are one option.
  Descriptors that no compiler produces, other than the faults named in
  `IsDescriptor` and in the map and oneof checks, are `malformed`: the library
  refuses the file, it does not matter why. Two files of one name.
- Imports without a file name, which the transformer ignores, and logging of
  undeclared properties.
- `fd_type_overwrites` and the values of enumerators in deployments, which the
  code parses and does not store; `FIDLDataTypeResolver.resolve` and
  `matches_named_element_reference`, which only tests call.
- Field validation of single model objects (`ecu_model/data_types`,
  `ecu_model/communication`): each validator looks at the arguments of one
  constructor and keeps no state. What such a rejection leaves behind in the
  registry is in `ModelPipeline`.
- The command line wrappers, debug output and the JSON view.
- Bazel rules, `tools/docgen` (a pure rendering of the classes into Markdown),
  documentation, continuous integration.

## 7. Plan

1. *Core* (done): `BatchRunner` with its abstract specification and proofs,
   `FrancaFileGraph`, `ModelPipeline`; then `HeaderGenerator`, `ProtobufModel`,
   `Deployment`, `Architecture`; proofs about `BatchRunner` and `HeaderGenerator`.
2. *Extension* (done): `DirectivePreprocessor`; qualified names, collections,
   inheritance and ambiguities in the Franca modules; typed declarations and name
   lookups in `Deployment`; fields, oneofs, enums and options in `ProtobufModel`;
   the proofs about directives, names, chains and the traversal of the file graph.
3. *Proofs* (done): the refinement and all invariants and action properties of
   `BatchRunner`, `DirectivePreprocessor`, `FrancaFileGraph`, `Deployment`,
   `ProtobufModel`, `ModelPipeline`, `HeaderGenerator` and `Architecture`.
   Liveness stays with TLC.
