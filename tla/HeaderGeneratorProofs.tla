------------------------- MODULE HeaderGeneratorProofs -------------------------
(***************************************************************************)
(* Proofs about HeaderGenerator for every set of typedefs, all models and  *)
(* any number of runs into one directory.                                  *)
(***************************************************************************)
EXTENDS HeaderGenerator, SequenceTheorems, TLAPS

-----------------------------------------------------------------------------
(* Lemmas about operators.                                                 *)

(* The three kinds of contents of a file differ.                           *)
LEMMA Contents ==
    /\ Absent \notin Header /\ Absent \notin Truncated
    /\ \A r : [interrupted |-> r] \notin Header /\ [interrupted |-> r] # Absent
<1>1. \A h \in Header : DOMAIN h = {"includes", "run"}
  BY DEF Header
<1>2. DOMAIN Absent = {"absent"} /\ \A r : DOMAIN [interrupted |-> r] = {"interrupted"}
  BY DEF Absent
<1>3. \A h \in Truncated : DOMAIN h = {"interrupted"}
  BY DEF Truncated
<1>4. QED
  BY <1>1, <1>2, <1>3

(* Leaving out the last element.                                           *)
LEMMA Front ==
    ASSUME NEW S, NEW s \in Seq(S), s # <<>>
    PROVE  LET r == SubSeq(s, 1, Len(s) - 1)
           IN  /\ r \in Seq(S)
               /\ Len(s) \in Nat \ {0} /\ Len(r) = Len(s) - 1
               /\ \A i \in 1..Len(r) : r[i] = s[i]
               /\ s[Len(s)] \in S
<1> DEFINE n == Len(s) - 1
           r == SubSeq(s, 1, n)
<1>1. Len(s) \in Nat \ {0} /\ n \in Int /\ \A i \in 1..Len(s) : s[i] \in S
  OBVIOUS
<1>2. /\ r \in Seq(S)
      /\ Len(r) = IF 1 <= n THEN n - 1 + 1 ELSE 0
      /\ \A i \in 1..(n - 1 + 1) : r[i] = s[1 + i - 1]
  <2>1. \A i \in 1..n : s[i] \in S
    BY <1>1
  <2> HIDE DEF n
  <2>2. QED
    BY <1>1, <2>1, SubSeqProperties
<1>3. n \in Nat
  BY <1>1
<1> HIDE DEF r, n
<1>4. Len(r) = n
  BY <1>2, <1>3
<1>5. \A i \in 1..Len(r) : r[i] = s[i]
  BY <1>2, <1>3, <1>4
<1>6. QED
  BY <1>1, <1>2, <1>4, <1>5 DEF r, n

(* What is reachable contains the set that it starts from, is closed, and  *)
(* is the least such set.                                                  *)
LEMMA ReachableProperties ==
    ASSUME NEW S \in SUBSET Typedefs
    PROVE  /\ S \subseteq Reachable(S)
           /\ \A t \in Reachable(S) :
                 model.data_type[t] \in Typedefs => model.data_type[t] \in Reachable(S)
           /\ \A C \in SUBSET Typedefs : S \subseteq C /\ IsClosed(C) => Reachable(S) \subseteq C
<1>1. ASSUME NEW t \in Reachable(S), model.data_type[t] \in Typedefs
      PROVE  model.data_type[t] \in Reachable(S)
  <2> SUFFICES ASSUME NEW C \in SUBSET Typedefs, S \subseteq C, IsClosed(C)
               PROVE  model.data_type[t] \in C
    BY <1>1 DEF Reachable
  <2>1. t \in C
    BY DEF Reachable
  <2>2. QED
    BY <1>1, <2>1, HeaderGeneratorAssumption DEF IsClosed
<1>2. QED
  BY <1>1 DEF Reachable
-----------------------------------------------------------------------------
(* Type correctness.                                                       *)

(* What a model is made of.                                                *)
LEMMA ModelType ==
    ASSUME NEW m \in Models
    PROVE  /\ m.selected \in Seq(Typedefs \cup {Other})
           /\ m.name \in [Typedefs -> Names \cup {Anonymous}]
           /\ m.data_type \in [Typedefs -> Typedefs \cup {Primitive, Other}]
BY HeaderGeneratorAssumption DEF Model, Datatypes

(* The call that is next has one argument, which is a datatype.            *)
LEMMA ArgumentType ==
    ASSUME TypeOK, NEW d, Processes(d)
    PROVE  d \in Datatypes
<1>1. CASE active_path # <<>> /\ d = model.data_type[Top]
  <2>1. Top \in Typedefs
    BY <1>1, Front DEF TypeOK, Top
  <2>2. QED
    BY <1>1, <2>1, ModelType DEF TypeOK, Datatypes
<1>2. CASE selected # <<>> /\ d = Head(selected)
  BY <1>2 DEF TypeOK, Datatypes
<1>3. QED
  BY <1>1, <1>2 DEF Processes

-----------------------------------------------------------------------------
(* The inductive invariant.                                                *)

Complete == {t \in Typedefs : states[t] = "COMPLETE"}

(* The typedefs in progress are the path of the recursion: each refers to  *)
(* the next one.                                                           *)
PathInv ==
    /\ phase # "running" => active_path = <<>>
    /\ phase = "done" => selected = <<>>
    /\ \A i \in 1..Len(active_path) : states[active_path[i]] = "IN_PROGRESS"
    /\ \A i, j \in 1..Len(active_path) : active_path[i] = active_path[j] => i = j
    /\ \A i \in 1..(Len(active_path) - 1) : model.data_type[active_path[i]] = active_path[i + 1]
    /\ phase = "running" =>
          \A t \in Typedefs : states[t] = "IN_PROGRESS" =>
              \E i \in 1..Len(active_path) : active_path[i] = t

(* Only what the selected datatypes lead to is looked at, and none of them *)
(* is passed over.                                                         *)
CoverInv ==
    /\ \A t \in Typedefs : states[t] # "new" => t \in Lowered
    /\ \A i \in DOMAIN selected : \E j \in DOMAIN model.selected : model.selected[j] = selected[i]
    /\ \A j \in DOMAIN model.selected :
          \/ model.selected[j] \in Complete
          \/ \E i \in DOMAIN selected : selected[i] = model.selected[j]

(* The typedefs that are complete could be a model of their own: they refer*)
(* to each other or to primitives, without cycles or conflicts, and each of*)
(* them has its header.                                                    *)
DoneInv ==
    /\ \A t \in Complete : model.data_type[t] \in Complete \cup {Primitive}
    /\ \A T \in SUBSET Complete : T # {} => \E t \in T : model.data_type[t] \notin T
    /\ \A t \in Complete :
          /\ NameOf(t) \in Names
          /\ files[NameOf(t)] = [includes |-> Includes(t), run |-> run]
    /\ named_types = {NameOf(t) : t \in Complete}
    /\ \A t, u \in Complete : Fold[NameOf(t)] = Fold[NameOf(u)] => t = u

(* The headers of this run are those of complete typedefs.  No file is of a*)
(* later run, and as long as the run goes on, any other file was there     *)
(* before it.                                                              *)
FileInv ==
    /\ \A n \in Names : files[n] \in Header =>
          /\ files[n].run <= run
          /\ files[n].run = run => \E t \in Complete : n = NameOf(t)
    /\ phase = "running" =>
          \A n \in Names : files[n] # Absent => n \in existing \/ \E t \in Complete : n = NameOf(t)

Inv == PathInv /\ CoverInv /\ DoneInv /\ FileInv /\ DependenciesFirst /\ FailureHasReason

(* Lowered is what the selected typedefs lead to.                          *)
LEMMA LoweredProperties ==
    /\ Lowered \subseteq Typedefs
    /\ \A i \in DOMAIN model.selected : model.selected[i] \in Typedefs => model.selected[i] \in Lowered
    /\ \A t \in Lowered : model.data_type[t] \in Typedefs => model.data_type[t] \in Lowered
    /\ \A C \in SUBSET Typedefs :
          /\ \A i \in DOMAIN model.selected : model.selected[i] \in Typedefs => model.selected[i] \in C
          /\ IsClosed(C)
          => Lowered \subseteq C
<1> DEFINE S == {t \in Typedefs : \E i \in DOMAIN model.selected : model.selected[i] = t}
<1>1. Lowered = Reachable(S) /\ S \in SUBSET Typedefs
  BY DEF Lowered
<1>2. Lowered \subseteq Typedefs
  BY DEF Lowered, Reachable
<1>3. \A i \in DOMAIN model.selected : model.selected[i] \in Typedefs => model.selected[i] \in S
  OBVIOUS
<1>4. \A C : (\A i \in DOMAIN model.selected : model.selected[i] \in Typedefs => model.selected[i] \in C)
             => S \subseteq C
  OBVIOUS
<1> HIDE DEF S
<1>5. QED
  BY <1>1, <1>2, <1>3, <1>4, ReachableProperties

(* Nothing but the start of a run changes the model.                       *)
LEMMA SameModel ==
    ASSUME model' = model
    PROVE  /\ Lowered' = Lowered /\ Generatable' = Generatable
           /\ \A t \in Typedefs : NameOf(t)' = NameOf(t) /\ Includes(t)' = Includes(t)
<1>1. \A t \in Typedefs : NameOf(t)' = NameOf(t) /\ Includes(t)' = Includes(t)
  BY DEF NameOf, Includes
<1>2. \A T : IsClosed(T)' = IsClosed(T)
  BY DEF IsClosed
<1>3. Lowered' = Lowered
  BY <1>2 DEF Lowered, Reachable
<1>4. /\ \A t \in Lowered : t \in Typedefs
      /\ \A T \in SUBSET Lowered : \A t \in T : t \in Lowered
  BY LoweredProperties
<1>5. Generatable' = Generatable
  <2>1. (\A i \in DOMAIN model.selected : model.selected[i] # Other)'
          <=> \A i \in DOMAIN model.selected : model.selected[i] # Other
    OBVIOUS
  <2>2. (\A t \in Lowered : model.data_type[t] # Other /\ NameOf(t) # Anonymous)'
          <=> \A t \in Lowered : model.data_type[t] # Other /\ NameOf(t) # Anonymous
    BY <1>1, <1>3, <1>4
  <2>3. (\A T \in (SUBSET Lowered) \ {{}} : \E t \in T : model.data_type[t] \notin T)'
          <=> \A T \in (SUBSET Lowered) \ {{}} : \E t \in T : model.data_type[t] \notin T
    BY <1>3
  <2>4. (\A t, u \in Lowered : Fold[NameOf(t)] = Fold[NameOf(u)] => t = u)'
          <=> \A t, u \in Lowered : Fold[NameOf(t)] = Fold[NameOf(u)] => t = u
    BY <1>1, <1>3, <1>4
  <2>5. QED
    BY <2>1, <2>2, <2>3, <2>4 DEF Generatable
<1>6. QED
  BY <1>1, <1>3, <1>5

-----------------------------------------------------------------------------
(* The moment before a header is written.                                  *)

(* The typedef t is the last one of the path, and its target is lowered.    *)
LEMMA ReadyProperties ==
    ASSUME TypeOK, PathInv, NEW t \in Typedefs, IsReady(t)
    PROVE  /\ phase = "running" /\ active_path # <<>>
           /\ Len(active_path) \in Nat \ {0} /\ t = active_path[Len(active_path)]
           /\ states[t] = "IN_PROGRESS" /\ t \notin Complete
           /\ model.data_type[t] \in Complete \cup {Primitive}
<1>1. phase = "running" /\ active_path # <<>> /\ t = active_path[Len(active_path)]
  BY DEF IsReady, IsLowered, Processes, Top
<1>2. Len(active_path) \in Nat \ {0}
  BY <1>1, Front DEF TypeOK
<1>3. model.data_type[t] \in Complete \cup {Primitive}
  BY DEF IsReady, IsLowered, Processes, Top, Complete
<1>4. QED
  BY <1>1, <1>2, <1>3 DEF PathInv, Complete

(* Its header includes a complete typedef, or nothing.                      *)
LEMMA IncludesComplete ==
    ASSUME DoneInv, NEW t, model.data_type[t] \in Complete \cup {Primitive}
    PROVE  /\ \A n \in Includes(t) : \E u \in Complete : n = NameOf(u)
           /\ Includes(t) \in SUBSET Names
<1>1. \A u \in {model.data_type[t]} \cap Typedefs : u \in Complete
  BY HeaderGeneratorAssumption
<1>2. \A n \in Includes(t) : \E u \in Complete : n = NameOf(u)
  BY <1>1 DEF Includes
<1>3. QED
  BY <1>2 DEF DoneInv

(* It has a name of its own.                                                *)
LEMMA ValidName ==
    ASSUME TypeOK, NEW t \in Typedefs, IsValid(t)
    PROVE  NameOf(t) \in Names
BY ModelType DEF TypeOK, IsValid, NameOf

-----------------------------------------------------------------------------
(* Each action preserves the invariant.                                    *)

(* The type invariant is not inductive by itself: a header includes other  *)
(* headers by the names of their typedefs.                                 *)
LEMMA TypeStep ==
    ASSUME TypeOK, Inv, [Next]_vars
    PROVE  TypeOK'
<1>1. ASSUME NEW m \in Models, StartRun(m)
      PROVE  TypeOK'
  <2>1. interrupted' \in BOOLEAN
    BY <1>1 DEF StartRun
  <2>2. /\ selected' \in Seq(Typedefs \cup {Other})
        /\ states' \in [Typedefs -> {"new", "IN_PROGRESS", "COMPLETE"}]
        /\ existing' \subseteq Names /\ named_types' \subseteq Names
    BY <1>1, HeaderGeneratorAssumption, ModelType DEF StartRun, Present
  <2>3. run' \in 1..MaxRuns /\ phase' = "running" /\ model' \in Models /\ active_path' = <<>>
    BY <1>1, HeaderGeneratorAssumption DEF StartRun, TypeOK
  <2>4. files' = files
    BY <1>1 DEF StartRun
  <2>5. QED
    BY <2>1, <2>2, <2>3, <2>4 DEF TypeOK
<1>2. ASSUME Fail, UNCHANGED files, interrupted' \in BOOLEAN
      PROVE  TypeOK'
  BY <1>2 DEF Fail, TypeOK
<1>3. CASE SkipSelected
  BY <1>3 DEF SkipSelected, IsLowered, Processes, TypeOK
<1>4. CASE EndRun
  BY <1>4 DEF EndRun, TypeOK
<1>5. ASSUME NEW t \in Typedefs, Enter(t)
      PROVE  TypeOK'
  BY <1>5 DEF Enter, TypeOK
<1>6. ASSUME NEW t \in Typedefs, WriteHeader(t)
      PROVE  TypeOK'
  <2>1. NameOf(t) \in Names /\ active_path' \in Seq(Typedefs)
    BY <1>6, ValidName, Front DEF WriteHeader, IsReady, TypeOK
  <2>2. Includes(t) \in SUBSET Names
    BY <1>6, ReadyProperties, IncludesComplete DEF WriteHeader, Inv
  <2>3. [includes |-> Includes(t), run |-> run] \in Header
    BY <2>2 DEF Header, TypeOK
  <2>4. QED
    BY <1>6, <2>1, <2>3 DEF WriteHeader, TypeOK
<1>7. ASSUME NEW t \in Typedefs, InterruptWrite(t)
      PROVE  TypeOK'
  <2>1. [interrupted |-> run] \in Truncated
    BY DEF Truncated, TypeOK
  <2>2. QED
    BY <1>7, <2>1, ValidName DEF InterruptWrite, Fail, TypeOK
<1>8. CASE Interrupt
  BY <1>2, <1>8 DEF Interrupt
<1>9. CASE UNCHANGED vars
  BY <1>9 DEF vars, TypeOK
<1>10. ASSUME Fail, UNCHANGED <<files, interrupted>>
       PROVE  TypeOK'
  BY <1>2, <1>10 DEF TypeOK
<1>11. QED
  BY <1>1, <1>3, <1>4, <1>5, <1>6, <1>7, <1>8, <1>9, <1>10
     DEF Next, Run, RejectDatatype, RejectCycle, RejectName, RejectExisting

(* Reasons to fail.                                                        *)

(* What is being lowered belongs to the model.                             *)
LEMMA PathLowered ==
    ASSUME TypeOK, PathInv, CoverInv
    PROVE  /\ Len(active_path) \in Nat
           /\ \A i \in 1..Len(active_path) : active_path[i] \in Lowered
           /\ active_path # <<>> =>
                 Len(active_path) # 0 /\ Top = active_path[Len(active_path)] /\ Top \in Lowered
<1>1. Len(active_path) \in Nat /\ \A i \in 1..Len(active_path) : active_path[i] \in Typedefs
  BY DEF TypeOK
<1>2. \A i \in 1..Len(active_path) : active_path[i] \in Lowered
  BY <1>1 DEF PathInv, CoverInv
<1>3. active_path # <<>> => Len(active_path) # 0
  BY Front DEF TypeOK
<1>4. QED
  BY <1>1, <1>2, <1>3 DEF Top

(* A reference that is not resolved, or an unsupported datatype.           *)
LEMMA OtherIsReason ==
    ASSUME TypeOK, PathInv, CoverInv, Processes(Other)
    PROVE  ~Generatable
<1>1. CASE active_path # <<>> /\ Other = model.data_type[Top]
  BY <1>1, PathLowered DEF Generatable
<1>2. CASE selected # <<>> /\ Other = Head(selected)
  <2>1. 1 \in DOMAIN selected /\ selected[1] = Other
    BY <1>2 DEF TypeOK
  <2>2. QED
    BY <2>1 DEF CoverInv, Generatable
<1>3. QED
  BY <1>1, <1>2 DEF Processes

(* The part of the path from t on has no member whose target is outside.   *)
LEMMA CycleIsReason ==
    ASSUME TypeOK, PathInv, CoverInv, NEW t \in Typedefs,
           Processes(t), states[t] = "IN_PROGRESS"
    PROVE  ~Generatable
<1>1. PICK i \in 1..Len(active_path) : active_path[i] = t
  BY DEF PathInv, Processes
<1>2. active_path # <<>>
  BY <1>1
<1>3. model.data_type[active_path[Len(active_path)]] = t
  BY <1>2 DEF Processes, Top
<1> DEFINE T == {active_path[j] : j \in i..Len(active_path)}
<1>4. T \in (SUBSET Lowered) \ {{}}
  <2>1. i \in i..Len(active_path) /\ \A j \in i..Len(active_path) : j \in 1..Len(active_path)
    BY PathLowered
  <2>2. T \subseteq Lowered
    BY <2>1, PathLowered
  <2>3. active_path[i] \in T
    BY <2>1
  <2>4. QED
    BY <2>2, <2>3
<1>5. ASSUME NEW u \in T
      PROVE  model.data_type[u] \in T
  <2>1. PICK j \in i..Len(active_path) : u = active_path[j]
    OBVIOUS
  <2>2. CASE j = Len(active_path)
    BY <1>1, <1>3, <2>1, <2>2, PathLowered
  <2>3. CASE j # Len(active_path)
    <3>1. j \in 1..(Len(active_path) - 1) /\ j + 1 \in i..Len(active_path)
      BY <1>1, <2>1, <2>3, PathLowered
    <3>2. model.data_type[u] = active_path[j + 1]
      BY <2>1, <3>1 DEF PathInv
    <3>3. QED
      BY <3>1, <3>2
  <2>4. QED
    BY <2>2, <2>3
<1> HIDE DEF T
<1>6. QED
  BY <1>4, <1>5 DEF Generatable

(* A typedef without a name, or with one that conflicts.                   *)
LEMMA NameIsReason ==
    ASSUME TypeOK, PathInv, CoverInv, DoneInv, NEW t \in Typedefs, IsReady(t), ~IsValid(t)
    PROVE  ~Generatable
<1>1. t \in Lowered
  BY ReadyProperties DEF CoverInv
<1>2. CASE NameOf(t) = Anonymous
  BY <1>1, <1>2 DEF Generatable
<1>3. CASE Conflicts(NameOf(t)) # {}
  <2>1. PICK m \in named_types : m # NameOf(t) /\ Fold[m] = Fold[NameOf(t)]
    BY <1>3 DEF Conflicts
  <2>2. PICK u \in Complete : m = NameOf(u)
    BY <2>1 DEF DoneInv
  <2>3. u \in Lowered /\ u # t
    BY <2>1, <2>2 DEF Complete, CoverInv
  <2>4. QED
    BY <1>1, <2>1, <2>2, <2>3 DEF Generatable
<1>4. QED
  BY <1>2, <1>3 DEF IsValid

(* A file is in the way, of an earlier run or of a typedef of that name.   *)
LEMMA FileIsReason ==
    ASSUME TypeOK, PathInv, CoverInv, FileInv, NEW t \in Typedefs,
           IsReady(t), IsValid(t), ~CanOpen(NameOf(t))
    PROVE  ~Generatable \/ existing \cap {NameOf(u) : u \in Lowered} # {}
<1>1. t \in Lowered /\ t \notin Complete /\ phase = "running"
  BY ReadyProperties DEF CoverInv
<1>2. NameOf(t) \in Names /\ files[NameOf(t)] # Absent
  BY ValidName DEF CanOpen
<1>3. CASE NameOf(t) \in existing
  BY <1>1, <1>3
<1>4. ASSUME NEW u \in Complete, NameOf(t) = NameOf(u)
      PROVE  ~Generatable
  <2>1. u \in Lowered /\ u # t
    BY <1>1 DEF Complete, CoverInv
  <2>2. QED
    BY <1>1, <1>4, <2>1 DEF Generatable
<1>5. QED
  BY <1>1, <1>2, <1>3, <1>4 DEF FileInv

-----------------------------------------------------------------------------
(* Steps.                                                                  *)

(* Another run knows nothing of the earlier ones but their files.          *)
LEMMA StartStep ==
    ASSUME TypeOK, Inv, NEW m \in Models, StartRun(m)
    PROVE  Inv'
<1> USE DEF StartRun
<1>1. Complete' = {} /\ \A t \in Typedefs : states'[t] = "new"
  BY DEF Complete
<1>2. PathInv'
  BY <1>1 DEF PathInv
<1>3. CoverInv'
  BY <1>1 DEF CoverInv
<1>4. DoneInv'
  BY <1>1 DEF DoneInv
<1>5. FileInv'
  <2>1. ASSUME NEW n \in Names, files[n] \in Header
        PROVE  files[n].run <= run' /\ files[n].run # run'
    <3>1. files[n].run \in Nat /\ run \in Nat /\ run' = run + 1
      BY <2>1, HeaderGeneratorAssumption DEF Header, TypeOK
    <3>2. files[n].run <= run
      BY <2>1 DEF Inv, FileInv
    <3>3. QED
      BY <3>1, <3>2
  <2>2. \A n \in Names : files[n] # Absent => n \in existing'
    BY DEF Present
  <2>3. QED
    BY <2>1, <2>2 DEF FileInv
<1>6. DependenciesFirst' /\ FailureHasReason'
  BY DEF Inv, DependenciesFirst, FailureHasReason
<1>7. QED
  BY <1>2, <1>3, <1>4, <1>5, <1>6 DEF Inv

(* A failure loses the path, and nothing else.                             *)
LEMMA FailStep ==
    ASSUME TypeOK, Inv, Fail, UNCHANGED files,
           ~Generatable \/ existing \cap {NameOf(t) : t \in Lowered} # {} \/ interrupted'
    PROVE  Inv'
<1> USE DEF Fail
<1>1. /\ Lowered' = Lowered /\ Generatable' = Generatable /\ Lowered \subseteq Typedefs
      /\ \A t \in Typedefs : NameOf(t)' = NameOf(t) /\ Includes(t)' = Includes(t)
  BY SameModel, LoweredProperties
<1>2. Complete' = Complete /\ \A t \in Complete : t \in Typedefs
  BY DEF Complete
<1>3. PathInv'
  BY DEF PathInv
<1>4. CoverInv'
  BY <1>1, <1>2 DEF Inv, CoverInv
<1>5. DoneInv'
  <2>1. {NameOf(t) : t \in Complete}' = {NameOf(t) : t \in Complete}
    BY <1>1, <1>2
  <2>2. QED
    BY <1>1, <1>2, <2>1 DEF Inv, DoneInv
<1>6. FileInv'
  BY <1>1, <1>2 DEF Inv, FileInv
<1>7. DependenciesFirst'
  BY DEF Inv, DependenciesFirst
<1>8. FailureHasReason'
  <2>1. {NameOf(t) : t \in Lowered}' = {NameOf(t) : t \in Lowered}
    BY <1>1
  <2>2. QED
    BY <1>1, <2>1 DEF FailureHasReason
<1>9. QED
  BY <1>3, <1>4, <1>5, <1>6, <1>7, <1>8 DEF Inv

(* A selected typedef is passed over when it is complete.                  *)
LEMMA SkipStep ==
    ASSUME TypeOK, Inv, SkipSelected
    PROVE  Inv'
<1> USE DEF SkipSelected
<1>1. /\ Lowered' = Lowered /\ Generatable' = Generatable /\ Lowered \subseteq Typedefs
      /\ \A t \in Typedefs : NameOf(t)' = NameOf(t) /\ Includes(t)' = Includes(t)
  BY SameModel, LoweredProperties
<1>2. Complete' = Complete /\ \A t \in Complete : t \in Typedefs
  BY DEF Complete
<1>3. phase = "running" /\ selected # <<>> /\ selected[1] \in Complete
  BY HeaderGeneratorAssumption DEF IsLowered, Processes, TypeOK, Complete
<1>4. PathInv'
  BY <1>3 DEF Inv, PathInv
<1>5. CoverInv'
  <2>1. /\ Len(selected) \in Nat \ {0} /\ Len(selected') = Len(selected) - 1
        /\ \A i \in 1..Len(selected') : selected'[i] = selected[i + 1]
    BY <1>3 DEF TypeOK
  <2>2. DOMAIN selected = 1..Len(selected) /\ DOMAIN selected' = 1..Len(selected')
    BY DEF TypeOK
  <2>3. \A i \in DOMAIN selected' : i + 1 \in DOMAIN selected /\ selected'[i] = selected[i + 1]
    BY <2>1, <2>2
  <2>4. \A i \in DOMAIN selected :
            selected[i] \in Complete \/ \E k \in DOMAIN selected' : selected'[k] = selected[i]
    <3>1. ASSUME NEW i \in DOMAIN selected, i # 1
          PROVE  i - 1 \in DOMAIN selected' /\ selected'[i - 1] = selected[i]
      BY <2>1, <2>2, <3>1
    <3>2. QED
      BY <1>3, <3>1
  <2>5. \A i \in DOMAIN selected' :
            \E j \in DOMAIN model.selected : model.selected[j] = selected'[i]
    BY <2>3 DEF Inv, CoverInv
  <2>6. \A j \in DOMAIN model.selected :
            \/ model.selected[j] \in Complete
            \/ \E i \in DOMAIN selected' : selected'[i] = model.selected[j]
    BY <2>4 DEF Inv, CoverInv
  <2>7. QED
    BY <1>1, <1>2, <2>5, <2>6 DEF Inv, CoverInv
<1>6. DoneInv'
  <2>1. {NameOf(t) : t \in Complete}' = {NameOf(t) : t \in Complete}
    BY <1>1, <1>2
  <2>2. QED
    BY <1>1, <1>2, <2>1 DEF Inv, DoneInv
<1>7. FileInv'
  BY <1>1, <1>2 DEF Inv, FileInv
<1>8. DependenciesFirst' /\ FailureHasReason'
  BY <1>3 DEF Inv, DependenciesFirst, FailureHasReason
<1>9. QED
  BY <1>4, <1>5, <1>6, <1>7, <1>8 DEF Inv

(* A run ends when nothing is left to lower.                               *)
LEMMA EndStep ==
    ASSUME TypeOK, Inv, EndRun
    PROVE  Inv'
<1> USE DEF EndRun
<1>1. /\ Lowered' = Lowered /\ Lowered \subseteq Typedefs
      /\ \A t \in Typedefs : NameOf(t)' = NameOf(t) /\ Includes(t)' = Includes(t)
  BY SameModel, LoweredProperties
<1>2. Complete' = Complete /\ \A t \in Complete : t \in Typedefs
  BY DEF Complete
<1>3. PathInv'
  BY DEF Inv, PathInv
<1>4. CoverInv'
  BY <1>1, <1>2 DEF Inv, CoverInv
<1>5. DoneInv'
  <2>1. {NameOf(t) : t \in Complete}' = {NameOf(t) : t \in Complete}
    BY <1>1, <1>2
  <2>2. QED
    BY <1>1, <1>2, <2>1 DEF Inv, DoneInv
<1>6. FileInv'
  BY <1>1, <1>2 DEF Inv, FileInv
<1>7. DependenciesFirst' /\ FailureHasReason'
  BY DEF Inv, DependenciesFirst, FailureHasReason
<1>8. QED
  BY <1>3, <1>4, <1>5, <1>6, <1>7 DEF Inv

(* The path grows by a typedef that the last one refers to, or that is     *)
(* selected.                                                               *)
LEMMA EnterStep ==
    ASSUME TypeOK, Inv, NEW t \in Typedefs, Enter(t)
    PROVE  Inv'
<1> USE DEF Enter
<1>1. /\ Lowered' = Lowered /\ Lowered \subseteq Typedefs
      /\ \A u \in Typedefs : NameOf(u)' = NameOf(u) /\ Includes(u)' = Includes(u)
  BY SameModel, LoweredProperties
<1>2. /\ states'[t] = "IN_PROGRESS" /\ \A u \in Typedefs \ {t} : states'[u] = states[u]
      /\ states[t] = "new" /\ phase = "running" /\ phase' = "running"
  BY DEF TypeOK, Processes
<1>3. Complete' = Complete /\ \A u \in Complete : u \in Typedefs
  BY <1>2 DEF Complete
<1>4. /\ Len(active_path) \in Nat /\ Len(active_path') = Len(active_path) + 1
      /\ \A i \in 1..Len(active_path) :
            active_path'[i] = active_path[i] /\ active_path[i] \in Typedefs
      /\ active_path'[Len(active_path')] = t
  BY DEF TypeOK
<1>5. \A i \in 1..Len(active_path') : i = Len(active_path') \/ i \in 1..Len(active_path)
  BY <1>4
<1>6. \A i \in 1..Len(active_path) : active_path[i] # t
  BY <1>2 DEF Inv, PathInv
<1>7. PathInv'
  <2>1. \A i \in 1..Len(active_path') : states'[active_path'[i]] = "IN_PROGRESS"
    BY <1>2, <1>4, <1>5, <1>6 DEF Inv, PathInv
  <2>2. \A i, j \in 1..Len(active_path') : active_path'[i] = active_path'[j] => i = j
    BY <1>4, <1>5, <1>6 DEF Inv, PathInv
  <2>3. ASSUME NEW i \in 1..(Len(active_path') - 1)
        PROVE  model.data_type[active_path'[i]] = active_path'[i + 1]
    <3>1. CASE i = Len(active_path)
      <4>1. active_path # <<>>
        BY <1>4, <3>1
      <4>2. model.data_type[active_path[Len(active_path)]] = t
        BY <4>1 DEF Processes, Top
      <4>3. QED
        BY <1>4, <3>1, <4>2
    <3>2. CASE i # Len(active_path)
      <4>1. i \in 1..(Len(active_path) - 1) /\ i + 1 \in 1..Len(active_path)
        BY <1>4, <3>2
      <4>2. i \in 1..Len(active_path)
        BY <1>4, <4>1
      <4>3. model.data_type[active_path[i]] = active_path[i + 1]
        BY <4>1 DEF Inv, PathInv
      <4>4. QED
        BY <1>4, <4>1, <4>2, <4>3
    <3>3. QED
      BY <3>1, <3>2
  <2>4. ASSUME NEW u \in Typedefs, states'[u] = "IN_PROGRESS"
        PROVE  \E i \in 1..Len(active_path') : active_path'[i] = u
    <3>1. CASE u = t
      BY <1>4, <3>1
    <3>2. CASE u # t
      <4>1. PICK i \in 1..Len(active_path) : active_path[i] = u
        BY <1>2, <2>4, <3>2 DEF Inv, PathInv
      <4>2. i \in 1..Len(active_path') /\ active_path'[i] = u
        BY <1>4, <4>1
      <4>3. QED
        BY <4>2
    <3>3. QED
      BY <3>1, <3>2
  <2>5. model' = model
    OBVIOUS
  <2>6. QED
    BY <1>2, <2>1, <2>2, <2>3, <2>4, <2>5 DEF PathInv
<1>8. t \in Lowered
  <2>1. CASE active_path # <<>> /\ t = model.data_type[Top]
    BY <2>1, PathLowered, LoweredProperties DEF Inv
  <2>2. CASE selected # <<>> /\ t = Head(selected)
    <3>1. 1 \in DOMAIN selected /\ selected[1] = t
      BY <2>2 DEF TypeOK
    <3>2. PICK j \in DOMAIN model.selected : model.selected[j] = t
      BY <3>1 DEF Inv, CoverInv
    <3>3. QED
      BY <3>2, LoweredProperties
  <2>3. QED
    BY <2>1, <2>2 DEF Processes
<1>9. CoverInv'
  <2>1. \A u \in Typedefs : states'[u] # "new" => u \in Lowered
    BY <1>2, <1>8 DEF Inv, CoverInv
  <2>2. QED
    BY <1>1, <1>3, <2>1 DEF Inv, CoverInv
<1>10. DoneInv'
  <2>1. {NameOf(u) : u \in Complete}' = {NameOf(u) : u \in Complete}
    BY <1>1, <1>3
  <2>2. QED
    BY <1>1, <1>3, <2>1 DEF Inv, DoneInv
<1>11. FileInv'
  BY <1>1, <1>3 DEF Inv, FileInv
<1>12. DependenciesFirst' /\ FailureHasReason'
  BY <1>2 DEF Inv, DependenciesFirst, FailureHasReason
<1>13. QED
  BY <1>7, <1>9, <1>10, <1>11, <1>12 DEF Inv

(* A broken header is not that of a complete typedef, nor included by one. *)
LEMMA InterruptStep ==
    ASSUME TypeOK, Inv, NEW t \in Typedefs, InterruptWrite(t)
    PROVE  Inv'
<1> USE DEF InterruptWrite, Fail
<1>1. /\ Lowered' = Lowered /\ Lowered \subseteq Typedefs
      /\ \A u \in Typedefs : NameOf(u)' = NameOf(u) /\ Includes(u)' = Includes(u)
  BY SameModel, LoweredProperties
<1>2. Complete' = Complete /\ \A u \in Complete : u \in Typedefs
  BY DEF Complete
<1>3. /\ NameOf(t) \in Names /\ files[NameOf(t)] = Absent
      /\ files'[NameOf(t)] = [interrupted |-> run]
      /\ \A n \in Names \ {NameOf(t)} : files'[n] = files[n]
  BY ValidName DEF CanOpen, TypeOK
<1>4. Absent \notin Header /\ [interrupted |-> run] \notin Header
  BY Contents
<1>5. PathInv'
  BY DEF PathInv
<1>6. CoverInv'
  BY <1>1, <1>2 DEF Inv, CoverInv
<1>7. DoneInv'
  <2>1. {NameOf(u) : u \in Complete}' = {NameOf(u) : u \in Complete}
    BY <1>1, <1>2
  <2>2. ASSUME NEW u \in Complete
        PROVE  NameOf(u) \in Names /\ files'[NameOf(u)] = [includes |-> Includes(u), run |-> run]
    <3>1. NameOf(u) \in Names /\ files[NameOf(u)] = [includes |-> Includes(u), run |-> run]
      BY DEF Inv, DoneInv
    <3>2. files[NameOf(u)] # Absent
      BY <3>1 DEF Absent
    <3>3. QED
      BY <1>3, <3>1, <3>2
  <2>3. QED
    BY <1>1, <1>2, <2>1, <2>2 DEF Inv, DoneInv
<1>8. \A n \in Names : files'[n] \in Header => files'[n] = files[n]
  BY <1>3, <1>4
<1>9. FileInv'
  BY <1>1, <1>2, <1>8 DEF Inv, FileInv
<1>10. DependenciesFirst'
  <2>1. \A n \in Names : files[n] \in Header => files'[n] = files[n]
    BY <1>3, <1>4
  <2>2. \A n \in Names : files[n] \in Header => \A m \in files[n].includes : m \in Names
    BY DEF Header
  <2>3. QED
    BY <1>8, <2>1, <2>2 DEF Inv, DependenciesFirst
<1>11. FailureHasReason'
  BY <1>3 DEF FailureHasReason
<1>12. QED
  BY <1>5, <1>6, <1>7, <1>9, <1>10, <1>11 DEF Inv

(* The last typedef of the path becomes complete: its target is complete,  *)
(* no complete typedef refers to it, and its name is new.                  *)
LEMMA WriteStep ==
    ASSUME TypeOK, Inv, NEW t \in Typedefs, WriteHeader(t)
    PROVE  Inv'
<1> USE DEF WriteHeader
<1> DEFINE header == [includes |-> Includes(t), run |-> run]
<1>1. /\ Lowered' = Lowered /\ Lowered \subseteq Typedefs
      /\ \A u \in Typedefs : NameOf(u)' = NameOf(u) /\ Includes(u)' = Includes(u)
  BY SameModel, LoweredProperties
<1>2. /\ phase = "running" /\ active_path # <<>> /\ t = active_path[Len(active_path)]
      /\ Len(active_path) \in Nat \ {0} /\ states[t] = "IN_PROGRESS" /\ t \notin Complete
      /\ model.data_type[t] \in Complete \cup {Primitive}
  BY ReadyProperties DEF Inv
<1>3. states'[t] = "COMPLETE" /\ \A u \in Typedefs \ {t} : states'[u] = states[u]
  BY DEF TypeOK
<1>4. Complete' = Complete \cup {t} /\ \A u \in Complete : u \in Typedefs
  BY <1>3 DEF Complete
<1>5. /\ NameOf(t) \in Names /\ files[NameOf(t)] = Absent
      /\ files'[NameOf(t)] = header
      /\ \A n \in Names \ {NameOf(t)} : files'[n] = files[n]
  BY ValidName DEF CanOpen, TypeOK
<1>6. /\ \A n \in Includes(t) : \E u \in Complete : n = NameOf(u)
      /\ Includes(t) \in SUBSET Names
  BY <1>2, IncludesComplete DEF Inv
<1>7. header \in Header /\ header # Absent /\ Absent \notin Header
  BY <1>6, Contents DEF Header, TypeOK
<1>8. ASSUME NEW u \in Complete
      PROVE  /\ NameOf(u) \in Names /\ NameOf(u) # NameOf(t)
             /\ files[NameOf(u)] = [includes |-> Includes(u), run |-> run]
             /\ files[NameOf(u)] \in Header
             /\ Fold[NameOf(u)] # Fold[NameOf(t)]
  <2>1. NameOf(u) \in Names /\ files[NameOf(u)] = [includes |-> Includes(u), run |-> run]
    BY DEF Inv, DoneInv
  <2>2. model.data_type[u] \in Complete \cup {Primitive}
    BY DEF Inv, DoneInv
  <2>3. Includes(u) \in SUBSET Names
    BY <2>2, IncludesComplete DEF Inv
  <2>4. files[NameOf(u)] \in Header
    BY <2>1, <2>3 DEF Header, TypeOK
  <2>5. NameOf(u) # NameOf(t)
    BY <1>5, <1>7, <2>4
  <2>6. NameOf(u) \in named_types
    BY DEF Inv, DoneInv
  <2>7. Fold[NameOf(u)] # Fold[NameOf(t)]
    BY <2>5, <2>6 DEF IsValid, Conflicts
  <2>8. QED
    BY <2>1, <2>4, <2>5, <2>7
<1> HIDE DEF header
<1>9. PathInv'
  <2>1. /\ Len(active_path') = Len(active_path) - 1
        /\ \A i \in 1..Len(active_path') : active_path'[i] = active_path[i]
    BY <1>2, Front DEF TypeOK
  <2>2. \A i \in 1..Len(active_path') : i \in 1..Len(active_path) /\ i # Len(active_path)
    BY <1>2, <2>1
  <2>3. \A i \in 1..Len(active_path) : active_path[i] \in Typedefs
    BY DEF TypeOK
  <2>4. \A i \in 1..Len(active_path') : active_path'[i] # t
    BY <1>2, <2>1, <2>2 DEF Inv, PathInv
  <2>5. \A i \in 1..Len(active_path') : states'[active_path'[i]] = "IN_PROGRESS"
    BY <1>3, <2>1, <2>2, <2>3, <2>4 DEF Inv, PathInv
  <2>6. \A i, j \in 1..Len(active_path') : active_path'[i] = active_path'[j] => i = j
    BY <2>1, <2>2 DEF Inv, PathInv
  <2>7. ASSUME NEW i \in 1..(Len(active_path') - 1)
        PROVE  model'.data_type[active_path'[i]] = active_path'[i + 1]
    <3>1. i \in 1..(Len(active_path) - 1) /\ i \in 1..Len(active_path')
          /\ i + 1 \in 1..Len(active_path')
      BY <1>2, <2>1
    <3>2. model.data_type[active_path[i]] = active_path[i + 1]
      BY <3>1 DEF Inv, PathInv
    <3>3. QED
      BY <2>1, <3>1, <3>2
  <2>8. ASSUME NEW u \in Typedefs, states'[u] = "IN_PROGRESS"
        PROVE  \E i \in 1..Len(active_path') : active_path'[i] = u
    <3>1. u # t /\ states[u] = "IN_PROGRESS"
      BY <1>3, <2>8
    <3>2. PICK i \in 1..Len(active_path) : active_path[i] = u
      BY <1>2, <3>1 DEF Inv, PathInv
    <3>3. i \in 1..Len(active_path')
      BY <1>2, <2>1, <3>1, <3>2
    <3>4. QED
      BY <2>1, <3>2, <3>3
  <2>9. phase' = "running"
    BY <1>2
  <2>10. QED
    BY <2>5, <2>6, <2>7, <2>8, <2>9 DEF PathInv
<1>10. CoverInv'
  <2>1. \A u \in Typedefs : states'[u] # "new" => u \in Lowered
    BY <1>2, <1>3 DEF Inv, CoverInv
  <2>2. QED
    BY <1>1, <1>4, <2>1 DEF Inv, CoverInv
<1>11. DoneInv'
  <2>1. \A u \in Complete \cup {t} : model.data_type[u] \in Complete \cup {t, Primitive}
    BY <1>2 DEF Inv, DoneInv
  <2>2. ASSUME NEW T \in SUBSET (Complete \cup {t}), T # {}
        PROVE  \E u \in T : model.data_type[u] \notin T
    <3>1. CASE T = {t}
      BY <1>2, <3>1, HeaderGeneratorAssumption
    <3>2. CASE T # {t}
      <4>1. T \ {t} \in SUBSET Complete /\ T \ {t} # {}
        BY <2>2, <3>2
      <4>2. PICK u \in T \ {t} : model.data_type[u] \notin T \ {t}
        BY <4>1 DEF Inv, DoneInv
      <4>3. model.data_type[u] \in Complete \cup {Primitive}
        BY <4>1, <4>2 DEF Inv, DoneInv
      <4>4. model.data_type[u] # t
        BY <1>2, <4>3, HeaderGeneratorAssumption
      <4>5. QED
        BY <4>2, <4>4
    <3>3. QED
      BY <3>1, <3>2
  <2>3. \A u \in Complete \cup {t} :
            /\ NameOf(u) \in Names
            /\ files'[NameOf(u)] = [includes |-> Includes(u), run |-> run]
    BY <1>5, <1>8 DEF header
  <2>4. named_types' = {NameOf(u) : u \in Complete \cup {t}}
    BY DEF Inv, DoneInv
  <2>5. \A u, v \in Complete \cup {t} : Fold[NameOf(u)] = Fold[NameOf(v)] => u = v
    BY <1>8 DEF Inv, DoneInv
  <2>6. {NameOf(u) : u \in Complete}' = {NameOf(u) : u \in Complete \cup {t}}
    BY <1>1, <1>4
  <2>7. QED
    BY <1>1, <1>4, <2>1, <2>2, <2>3, <2>4, <2>5, <2>6 DEF DoneInv
<1>12. FileInv'
  <2>1. ASSUME NEW n \in Names, files'[n] \in Header
        PROVE  /\ files'[n].run <= run
               /\ files'[n].run = run => \E u \in Complete \cup {t} : n = NameOf(u)
    <3>1. CASE n = NameOf(t)
      BY <1>5, <3>1, HeaderGeneratorAssumption DEF header, TypeOK
    <3>2. CASE n # NameOf(t)
      BY <1>5, <2>1, <3>2 DEF Inv, FileInv
    <3>3. QED
      BY <3>1, <3>2
  <2>2. ASSUME NEW n \in Names, files'[n] # Absent
        PROVE  n \in existing \/ \E u \in Complete \cup {t} : n = NameOf(u)
    <3>1. CASE n = NameOf(t)
      BY <3>1
    <3>2. CASE n # NameOf(t)
      BY <1>2, <1>5, <2>2, <3>2 DEF Inv, FileInv
    <3>3. QED
      BY <3>1, <3>2
  <2>3. QED
    BY <1>1, <1>4, <2>1, <2>2 DEF FileInv
<1>13. DependenciesFirst'
  <2>1. ASSUME NEW n \in Names, files'[n] \in Header, NEW m \in files'[n].includes
        PROVE  files'[m] \in Header /\ files'[m].run = files'[n].run
    <3>1. CASE n = NameOf(t)
      <4>1. m \in Includes(t) /\ files'[n].run = run
        BY <1>5, <2>1, <3>1 DEF header
      <4>2. PICK u \in Complete : m = NameOf(u)
        BY <1>6, <4>1
      <4>3. m \in Names /\ m # NameOf(t) /\ files[m] \in Header
            /\ files[m] = [includes |-> Includes(u), run |-> run]
        BY <1>8, <4>2
      <4>4. files'[m] = files[m] /\ files[m].run = run
        BY <1>5, <4>3
      <4>5. QED
        BY <4>1, <4>3, <4>4
    <3>2. CASE n # NameOf(t)
      <4>1. files'[n] = files[n]
        BY <1>5, <3>2
      <4>2. m \in Names /\ files[m] \in Header /\ files[m].run = files[n].run
        BY <2>1, <4>1 DEF Inv, DependenciesFirst, Header
      <4>3. files'[m] = files[m]
        BY <1>5, <1>7, <4>2
      <4>4. QED
        BY <4>1, <4>2, <4>3
    <3>3. QED
      BY <3>1, <3>2
  <2>2. QED
    BY <2>1 DEF DependenciesFirst
<1>14. FailureHasReason'
  BY <1>2 DEF FailureHasReason
<1>15. QED
  BY <1>9, <1>10, <1>11, <1>12, <1>13, <1>14 DEF Inv

(* A step that changes nothing.                                            *)
LEMMA StutterStep ==
    ASSUME Inv, UNCHANGED vars
    PROVE  Inv'
<1> USE DEF vars
<1>1. /\ Lowered' = Lowered /\ Generatable' = Generatable /\ Lowered \subseteq Typedefs
      /\ \A t \in Typedefs : NameOf(t)' = NameOf(t) /\ Includes(t)' = Includes(t)
  BY SameModel, LoweredProperties
<1>2. Complete' = Complete /\ \A t \in Complete : t \in Typedefs
  BY DEF Complete
<1>3. PathInv'
  BY DEF Inv, PathInv
<1>4. CoverInv'
  BY <1>1, <1>2 DEF Inv, CoverInv
<1>5. DoneInv'
  <2>1. {NameOf(t) : t \in Complete}' = {NameOf(t) : t \in Complete}
    BY <1>1, <1>2
  <2>2. QED
    BY <1>1, <1>2, <2>1 DEF Inv, DoneInv
<1>6. FileInv'
  BY <1>1, <1>2 DEF Inv, FileInv
<1>7. DependenciesFirst'
  BY DEF Inv, DependenciesFirst
<1>8. FailureHasReason'
  <2>1. {NameOf(t) : t \in Lowered}' = {NameOf(t) : t \in Lowered}
    BY <1>1
  <2>2. QED
    BY <1>1, <2>1 DEF Inv, FailureHasReason
<1>9. QED
  BY <1>3, <1>4, <1>5, <1>6, <1>7, <1>8 DEF Inv

(* Every step preserves the invariant.                                     *)
LEMMA InvStep ==
    ASSUME TypeOK, Inv, [Next]_vars
    PROVE  Inv'
<1>1. ASSUME NEW m \in Models, StartRun(m)
      PROVE  Inv'
  BY <1>1, StartStep
<1>2. CASE RejectDatatype
  BY <1>2, OtherIsReason, FailStep DEF RejectDatatype, Inv
<1>3. CASE SkipSelected
  BY <1>3, SkipStep
<1>4. CASE EndRun
  BY <1>4, EndStep
<1>5. ASSUME NEW t \in Typedefs, Enter(t)
      PROVE  Inv'
  BY <1>5, EnterStep
<1>6. ASSUME NEW t \in Typedefs, RejectCycle(t)
      PROVE  Inv'
  BY <1>6, CycleIsReason, FailStep DEF RejectCycle, Inv
<1>7. ASSUME NEW t \in Typedefs, RejectName(t)
      PROVE  Inv'
  BY <1>7, NameIsReason, FailStep DEF RejectName, Inv
<1>8. ASSUME NEW t \in Typedefs, WriteHeader(t)
      PROVE  Inv'
  BY <1>8, WriteStep
<1>9. ASSUME NEW t \in Typedefs, RejectExisting(t)
      PROVE  Inv'
  <2>1. ~Generatable \/ existing \cap {NameOf(u) : u \in Lowered} # {}
    BY <1>9, FileIsReason DEF RejectExisting, Inv
  <2>2. QED
    BY <1>9, <2>1, FailStep DEF RejectExisting
<1>10. ASSUME NEW t \in Typedefs, InterruptWrite(t)
       PROVE  Inv'
  BY <1>10, InterruptStep
<1>11. CASE Interrupt
  BY <1>11, FailStep DEF Interrupt
<1>12. CASE UNCHANGED vars
  BY <1>12, StutterStep
<1>13. QED
  BY <1>1, <1>2, <1>3, <1>4, <1>5, <1>6, <1>7, <1>8, <1>9, <1>10, <1>11, <1>12 DEF Next, Run

(* The first run starts in an empty directory.                             *)
LEMMA InitialState ==
    ASSUME Init
    PROVE  TypeOK /\ Inv
<1> USE DEF Init
<1>1. Complete = {} /\ \A t \in Typedefs : states[t] = "new"
  BY DEF Complete
<1>2. \A n \in Names : files[n] = Absent
  OBVIOUS
<1>3. TypeOK
  <2>1. interrupted \in BOOLEAN
    OBVIOUS
  <2>2. /\ run \in 1..MaxRuns /\ phase = "running" /\ model \in Models /\ active_path = <<>>
        /\ selected \in Seq(Typedefs \cup {Other})
        /\ states \in [Typedefs -> {"new", "IN_PROGRESS", "COMPLETE"}]
        /\ files \in [Names -> Header \cup Truncated \cup {Absent}]
        /\ existing = {} /\ named_types = {}
    BY HeaderGeneratorAssumption, ModelType
  <2>3. QED
    BY <2>1, <2>2 DEF TypeOK
<1>4. PathInv /\ CoverInv /\ DoneInv
  BY <1>1 DEF PathInv, CoverInv, DoneInv
<1>5. FileInv /\ DependenciesFirst
  BY <1>2, Contents DEF FileInv, DependenciesFirst
<1>6. FailureHasReason
  BY DEF FailureHasReason
<1>7. QED
  BY <1>3, <1>4, <1>5, <1>6 DEF Inv

-----------------------------------------------------------------------------
(* The theorems.                                                           *)

(* Every reachable state is well-typed and satisfies the invariant.        *)
THEOREM Correctness == Spec => [](TypeOK /\ Inv)
<1>1. Init => TypeOK /\ Inv
  BY InitialState
<1>2. TypeOK /\ Inv /\ [Next]_vars => (TypeOK /\ Inv)'
  BY TypeStep, InvStep
<1>3. QED
  BY <1>1, <1>2, PTL DEF Spec

(* Every variable keeps its type, in particular those that a header refers *)
(* to by name only.                                                        *)
THEOREM TypeCorrect == Spec => []TypeOK
BY Correctness, PTL

(* At any moment, and whatever earlier runs left behind, a header that is  *)
(* there includes only whole headers of the same run.                      *)
THEOREM HeadersInDependencyOrder == Spec => []DependenciesFirst
BY Correctness, PTL DEF Inv

(* A run that fails has one of the three reasons to.                       *)
THEOREM FailuresHaveReasons == Spec => []FailureHasReason
BY Correctness, PTL DEF Inv

(* A run that ends well has lowered what its model selects and leads to,   *)
(* nothing else, and the headers it wrote are those.                       *)
LEMMA DoneIsComplete ==
    ASSUME TypeOK, Inv
    PROVE  SuccessIsComplete
<1> SUFFICES ASSUME phase = "done"
             PROVE  /\ Generatable
                    /\ \A n \in Names :
                          files[n] \in Header /\ files[n].run = run
                              <=> \E t \in Lowered : n = NameOf(t) /\ files[n].includes = Includes(t)
  BY DEF SuccessIsComplete
<1>1. \A j \in DOMAIN model.selected : model.selected[j] \in Complete
  <2>1. selected = <<>>
    BY DEF Inv, PathInv
  <2>2. DOMAIN selected = {}
    BY <2>1
  <2>3. QED
    BY <2>2 DEF Inv, CoverInv
<1>2. Lowered = Complete
  <2>1. Complete \in SUBSET Typedefs /\ Complete \subseteq Lowered
    BY DEF Complete, Inv, CoverInv
  <2>2. IsClosed(Complete)
    BY DEF IsClosed, Inv, DoneInv
  <2>3. QED
    BY <1>1, <2>1, <2>2, LoweredProperties
<1>3. Complete \subseteq Typedefs
  BY DEF Complete
<1>4. Generatable
  <2>1. \A i \in DOMAIN model.selected : model.selected[i] # Other
    BY <1>1, <1>3, HeaderGeneratorAssumption
  <2>2. \A t \in Lowered : model.data_type[t] # Other
    BY <1>2, <1>3, HeaderGeneratorAssumption DEF Inv, DoneInv
  <2>3. \A t \in Lowered : NameOf(t) # Anonymous
    BY <1>2, HeaderGeneratorAssumption DEF Inv, DoneInv
  <2>4. \A T \in (SUBSET Lowered) \ {{}} : \E t \in T : model.data_type[t] \notin T
    BY <1>2 DEF Inv, DoneInv
  <2>5. \A t, u \in Lowered : Fold[NameOf(t)] = Fold[NameOf(u)] => t = u
    BY <1>2 DEF Inv, DoneInv
  <2>6. QED
    BY <2>1, <2>2, <2>3, <2>4, <2>5 DEF Generatable
<1>5. ASSUME NEW n \in Names, files[n] \in Header, files[n].run = run
      PROVE  \E t \in Lowered : n = NameOf(t) /\ files[n].includes = Includes(t)
  <2>1. PICK t \in Complete : n = NameOf(t)
    BY <1>5 DEF Inv, FileInv
  <2>2. files[n] = [includes |-> Includes(t), run |-> run]
    BY <2>1 DEF Inv, DoneInv
  <2>3. QED
    BY <1>2, <2>1, <2>2
<1>6. ASSUME NEW t \in Lowered
      PROVE  files[NameOf(t)] \in Header /\ files[NameOf(t)].run = run
  <2>1. /\ files[NameOf(t)] = [includes |-> Includes(t), run |-> run]
        /\ model.data_type[t] \in Complete \cup {Primitive}
    BY <1>2 DEF Inv, DoneInv
  <2>2. Includes(t) \in SUBSET Names
    BY <2>1, IncludesComplete DEF Inv
  <2>3. QED
    BY <2>1, <2>2 DEF Header, TypeOK
<1>7. QED
  BY <1>4, <1>5, <1>6

(* A run succeeds only with a model that has headers, and writes them all. *)
THEOREM SuccessesAreComplete == Spec => []SuccessIsComplete
BY Correctness, DoneIsComplete, PTL
===============================================================================
