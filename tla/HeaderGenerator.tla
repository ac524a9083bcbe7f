---------------------------- MODULE HeaderGenerator ----------------------------
(***************************************************************************)
(* Generation of C++ headers (generators/src): generator_runner.py,        *)
(* datatype_generator.py, datatype_utils.py, cpp_type_registry.py,         *)
(* typedef_type.py, primitive_type.py and output_writer.py.                *)
(*                                                                         *)
(* A run lowers the datatypes of a model one after the other.  A typedef   *)
(* is lowered after the datatype that it refers to, by recursion; its      *)
(* header is then registered under the typedef's name and written at once. *)
(* The first error ends the run and leaves behind what was written, and a  *)
(* later run into the same directory, of the same model or of another,     *)
(* finds those files.                                                      *)
(*                                                                         *)
(* A name is a fully qualified one, so it is also the path of a header.    *)
(***************************************************************************)
EXTENDS Naturals, Sequences, FiniteSets

CONSTANTS
    Typedefs,   \* the typedefs of all models
    Names,      \* fully qualified names
    Fold,       \* Fold[n]: what is left of n when case is ignored in its last part
    Anonymous,  \* the name of a typedef that has none
    Primitive,  \* stands for the primitive types with a C++ counterpart
    Other,      \* stands for unresolved references and all unsupported datatypes
    Models,     \* the models that can be loaded: see Model
    MaxRuns     \* bound: runs into one directory

Datatypes == Typedefs \cup {Primitive, Other}

(* selected are the entries of the model's datatype section, in order.     *)
Model ==
    [selected : Seq(Typedefs \cup {Other}), name : [Typedefs -> Names \cup {Anonymous}],
     data_type : [Typedefs -> Datatypes]]

ASSUME HeaderGeneratorAssumption ==
    /\ Anonymous \notin Names
    /\ Primitive \notin Typedefs /\ Other \notin Typedefs /\ Primitive # Other
    /\ Models \subseteq Model
    /\ MaxRuns \in Nat \ {0}

VARIABLES
    run,         \* number of the run
    phase,       \* "running", "done" or "failed"
    model,       \* the model of the run
    selected,    \* what is left of its datatypes
    states,      \* processing state of each typedef
    active_path, \* the typedefs that are being lowered, outermost first
    named_types, \* the registered names
    files,       \* the headers in the output directory, by name
    existing,    \* the headers that were there when the run started
    interrupted  \* history: whether the run was stopped from outside

vars ==
    <<run, phase, model, selected, states, active_path, named_types, files, existing, interrupted>>

(* What a header file can hold: all of a header that refers to a name or to*)
(* a primitive, and the run that wrote it; or the run that began to write  *)
(* it and was interrupted.                                                 *)
Header == [includes : SUBSET Names, run : 1..MaxRuns]
Truncated == [interrupted : 1..MaxRuns]
Absent == [absent |-> TRUE]

TypeOK ==
    /\ run \in 1..MaxRuns
    /\ phase \in {"running", "done", "failed"}
    /\ model \in Models
    /\ selected \in Seq(Typedefs \cup {Other})
    /\ states \in [Typedefs -> {"new", "IN_PROGRESS", "COMPLETE"}]
    /\ active_path \in Seq(Typedefs)
    /\ named_types \subseteq Names
    /\ files \in [Names -> Header \cup Truncated \cup {Absent}]
    /\ existing \subseteq Names
    /\ interrupted \in BOOLEAN

Present == {n \in Names : files[n] # Absent}

(* The first run, into an empty directory.                                 *)
Init ==
    /\ run = 1 /\ phase = "running"
    /\ model \in Models /\ selected = model.selected
    /\ states = [t \in Typedefs |-> "new"]
    /\ active_path = <<>> /\ named_types = {}
    /\ files = [n \in Names |-> Absent]
    /\ existing = {} /\ interrupted = FALSE

-----------------------------------------------------------------------------

(* Another run starts from nothing but its model and the directory.        *)
StartRun(m) ==
    /\ phase # "running" /\ run < MaxRuns
    /\ run' = run + 1 /\ phase' = "running"
    /\ model' = m /\ selected' = m.selected
    /\ states' = [t \in Typedefs |-> "new"]
    /\ active_path' = <<>> /\ named_types' = {}
    /\ existing' = Present /\ interrupted' = FALSE
    /\ UNCHANGED files

Top == active_path[Len(active_path)]

(* The call process(datatype) is next.                                     *)
Processes(datatype) ==
    /\ phase = "running"
    /\ \/ active_path # <<>> /\ datatype = model.data_type[Top]
       \/ active_path = <<>> /\ selected # <<>> /\ datatype = Head(selected)

Fail ==
    /\ phase' = "failed"
    /\ active_path' = <<>>
    /\ UNCHANGED <<run, model, selected, states, named_types, existing>>

(* Unresolved references and unsupported datatypes.                        *)
RejectDatatype ==
    /\ Processes(Other)
    /\ Fail /\ UNCHANGED <<files, interrupted>>

(* Mutant: a typedef is not marked, and the recursion stops only where the *)
(* call stack ends.                                                        *)
EnterUnmarked(t) ==
    /\ Processes(t) /\ states[t] = "new" /\ Len(active_path) < Cardinality(Typedefs)
    /\ active_path' = Append(active_path, t)
    /\ UNCHANGED <<run, phase, model, selected, states, named_types, files, existing, interrupted>>

Enter(t) ==
    /\ Processes(t) /\ states[t] = "new"
    /\ states' = [states EXCEPT ![t] = "IN_PROGRESS"]
    /\ active_path' = Append(active_path, t)
    /\ UNCHANGED <<run, phase, model, selected, named_types, files, existing, interrupted>>

(* Mutant: every typedef that was met before is taken for a cycle.         *)
RejectMet(t) ==
    /\ Processes(t) /\ states[t] # "new"
    /\ Fail /\ UNCHANGED <<files, interrupted>>

(* "Cyclic datatype dependency detected".                                  *)
RejectCycle(t) ==
    /\ Processes(t) /\ states[t] = "IN_PROGRESS"
    /\ Fail /\ UNCHANGED <<files, interrupted>>

(* Mutant: a typedef that is being lowered counts as lowered.              *)
IsMet(datatype) ==
    /\ Processes(datatype)
    /\ \/ datatype = Primitive
       \/ datatype \in Typedefs /\ states[datatype] # "new"

(* process(datatype) returns without any change.                           *)
IsLowered(datatype) ==
    /\ Processes(datatype)
    /\ \/ datatype = Primitive
       \/ datatype \in Typedefs /\ states[datatype] = "COMPLETE"

SkipSelected ==
    /\ active_path = <<>>
    /\ \E t \in Typedefs : IsLowered(t)
    /\ selected' = Tail(selected)
    /\ UNCHANGED <<run, phase, model, states, active_path, named_types, files, existing, interrupted>>

(* The target of the innermost typedef t is lowered: its header is next.   *)
IsReady(t) ==
    /\ active_path # <<>> /\ t = Top
    /\ \E datatype \in Datatypes : IsLowered(datatype)

NameOf(t) == model.name[t]

(* Mutant: names are compared as they are.                                 *)
NoConflict(n) == {}

(* The registered names that differ from n by case only.                   *)
Conflicts(n) == {m \in named_types \ {n} : Fold[m] = Fold[n]}

IsValid(t) == NameOf(t) # Anonymous /\ Conflicts(NameOf(t)) = {}

(* Typedefs require a name, and one that is not a conflict.                *)
RejectName(t) ==
    /\ IsReady(t) /\ ~IsValid(t)
    /\ Fail /\ UNCHANGED <<files, interrupted>>

(* Mutant: a file is opened whether it exists or not.                      *)
CanOpenAnything(n) == TRUE

(* open(..., "x").                                                         *)
CanOpen(n) == files[n] = Absent

(* Mutant: whatever the target is, it is included.                         *)
IncludesTarget(t) ==
    {IF model.data_type[t] \in Typedefs THEN NameOf(model.data_type[t]) ELSE model.data_type[t]}

Includes(t) == {NameOf(u) : u \in {model.data_type[t]} \cap Typedefs}

(* build_alias_header and on_header_ready, after which t is complete.      *)
WriteHeader(t) ==
    /\ IsReady(t) /\ IsValid(t) /\ CanOpen(NameOf(t))
    /\ named_types' = named_types \cup {NameOf(t)}
    /\ files' = [files EXCEPT ![NameOf(t)] = [includes |-> Includes(t), run |-> run]]
    /\ states' = [states EXCEPT ![t] = "COMPLETE"]
    /\ active_path' = SubSeq(active_path, 1, Len(active_path) - 1)
    /\ UNCHANGED <<run, phase, model, selected, existing, interrupted>>

(* FileExistsError.                                                        *)
RejectExisting(t) ==
    /\ IsReady(t) /\ IsValid(t) /\ ~CanOpen(NameOf(t))
    /\ Fail /\ UNCHANGED <<files, interrupted>>

(* The disk is full, or the process is killed, while a header is written.  *)
InterruptWrite(t) ==
    /\ IsReady(t) /\ IsValid(t) /\ CanOpen(NameOf(t))
    /\ files' = [files EXCEPT ![NameOf(t)] = [interrupted |-> run]]
    /\ interrupted' = TRUE
    /\ Fail

(* The process is killed between two headers.                              *)
Interrupt ==
    /\ phase = "running"
    /\ interrupted' = TRUE
    /\ Fail /\ UNCHANGED files

EndRun ==
    /\ phase = "running" /\ active_path = <<>> /\ selected = <<>>
    /\ phase' = "done"
    /\ UNCHANGED <<run, model, selected, states, active_path, named_types, files, existing, interrupted>>

Run ==
    \/ RejectDatatype \/ SkipSelected \/ EndRun
    \/ \E t \in Typedefs :
          \/ Enter(t) \/ RejectCycle(t) \/ RejectName(t)
          \/ WriteHeader(t) \/ RejectExisting(t)

Next ==
    \/ Run
    \/ Interrupt \/ \E t \in Typedefs : InterruptWrite(t)
    \/ \E m \in Models : StartRun(m)

Spec == Init /\ [][Next]_vars

(* A run is one sequential call; nobody has to start one or to stop it.    *)
FairSpec == Spec /\ WF_vars(Run)

-----------------------------------------------------------------------------

(* The typedefs in a set that is closed under the typedefs' targets.       *)
IsClosed(T) == \A t \in T : model.data_type[t] \in T \cup {Primitive, Other}
Reachable(T) == {t \in Typedefs : \A C \in SUBSET Typedefs : T \subseteq C /\ IsClosed(C) => t \in C}

Lowered == Reachable({t \in Typedefs : \E i \in DOMAIN model.selected : model.selected[i] = t})

(* Reference definition of the models that have headers.  In a model       *)
(* without cycles every set of typedefs has a member whose target is       *)
(* outside of it.                                                          *)
Generatable ==
    /\ \A i \in DOMAIN model.selected : model.selected[i] # Other
    /\ \A t \in Lowered : model.data_type[t] # Other /\ NameOf(t) # Anonymous
    /\ \A T \in (SUBSET Lowered) \ {{}} : \E t \in T : model.data_type[t] \notin T
    /\ \A t, u \in Lowered : Fold[NameOf(t)] = Fold[NameOf(u)] => t = u

(* "Register supported datatypes in dependency order": at any moment, and  *)
(* whatever earlier runs left behind, a header that is there includes only *)
(* headers that are there, that are whole, and that the same run wrote;    *)
(* an overwritten header would be of another run than those that include   *)
(* it.                                                                     *)
DependenciesFirst ==
    \A n \in Names : files[n] \in Header =>
        \A m \in files[n].includes :
            files[m] \in Header /\ files[m].run = files[n].run

(* A run succeeds only with a model that has headers, and then the headers *)
(* of that model are all there, written by this run: none is a remainder of*)
(* an earlier run, none is missing, and no other was added.                *)
SuccessIsComplete ==
    phase = "done" =>
        /\ Generatable
        /\ \A n \in Names :
              files[n] \in Header /\ files[n].run = run
                  <=> \E t \in Lowered : n = NameOf(t) /\ files[n].includes = Includes(t)

(* A run fails only with a model that has no headers, because of a file    *)
(* that is in the way of one of them, or because it was interrupted.       *)
FailureHasReason ==
    phase = "failed" =>
        \/ ~Generatable
        \/ existing \cap {NameOf(t) : t \in Lowered} # {}
        \/ interrupted

(* The recursion comes to an end, cycles or not.                           *)
RunEnds == phase = "running" ~> phase # "running"
=============================================================================
