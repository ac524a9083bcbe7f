--------------------------- MODULE ArchitectureProofs ---------------------------
(***************************************************************************)
(* Proofs about Architecture for all sets of activities and applications   *)
(* and all programs: the rounds of the cycle check accept exactly the      *)
(* chains without a cycle, and what an ECU triggers is deployed on it.     *)
(***************************************************************************)
EXTENDS Architecture, TLAPS

-----------------------------------------------------------------------------
(* What the checks of a chain amount to.                                   *)

LEMMA ProgramType ==
    ASSUME NEW p \in Programs
    PROVE  /\ p.activities \in [Applications -> Seq(Activities)]
           /\ p.application_name \in [Applications -> Names]
           /\ p.chains \in Seq(Chain)
           /\ p.deployed \in Seq(Applications)
BY ArchitectureAssumption DEF Program

LEMMA ChainType ==
    ASSUME NEW chain \in Chain
    PROVE  /\ chain.applications \in Seq(Applications)
           /\ chain.nodes \in Seq(Node)
           /\ \A i \in DOMAIN chain.nodes : /\ chain.nodes[i].activity \in Activities
                                            /\ chain.nodes[i].triggered_by \in SUBSET Activities
           /\ Scheduled(chain) \subseteq Activities
<1>1. chain.applications \in Seq(Applications) /\ chain.nodes \in Seq(Node)
  BY DEF Chain
<1>2. ASSUME NEW i \in DOMAIN chain.nodes
      PROVE  chain.nodes[i].activity \in Activities /\ chain.nodes[i].triggered_by \in SUBSET Activities
  <2>1. chain.nodes[i] \in Node
    BY <1>1
  <2>2. QED
    BY <2>1 DEF Node
<1>3. Scheduled(chain) \subseteq Activities
  BY <1>2 DEF Scheduled, ActivityOf
<1>4. QED
  BY <1>1, <1>2, <1>3

(* A chain that passes the checks and has no cycle can be executed.        *)
LEMMA ChecksSuffice ==
    ASSUME NEW chain \in Chain, IsChain(chain), ~HasCycle(chain)
    PROVE  Executable(chain)
<1>1. chain.nodes # <<>> /\ chain.applications # <<>>
  BY ChainType DEF IsChain, HasTriggers, HasMembers
<1>2. Scheduled(chain) \subseteq
         UNION {Elements(program.activities[app]) : app \in Elements(chain.applications)}
  BY ChainType DEF IsChain, HasMembers, Owners, Elements
<1>3. \A app \in Elements(chain.applications) :
         Elements(program.activities[app]) \cap Scheduled(chain) # {}
  BY DEF IsChain, HasMembers, IsOwner, Owners
<1>4. \A i \in DOMAIN chain.nodes : chain.nodes[i].triggered_by \subseteq Scheduled(chain)
  BY DEF IsChain, HasTriggers
<1>5. QED
  BY <1>1, <1>2, <1>3, <1>4 DEF Executable, RunsIn, IsChain

(* A chain that can be executed passes the checks, unless one of its       *)
(* applications is hidden behind later ones.                               *)
LEMMA ChecksAreNeeded ==
    ASSUME NEW chain \in Chain, Executable(chain), ~HidesApplication(chain)
    PROVE  IsChain(chain)
<1>1. HasMembers(chain)
  <2>1. \A a \in Scheduled(chain) : Owners(chain, a) # {}
    BY DEF Executable, RunsIn, Owners, Elements
  <2>2. ASSUME NEW app \in Elements(chain.applications)
        PROVE  \E a \in Scheduled(chain) : IsOwner(chain, app, a)
    <3>1. PICK a \in Scheduled(chain) : \E i \in Owners(chain, a) :
             chain.applications[i] = app /\ ~\E j \in Owners(chain, a) : j > i
      BY DEF HidesApplication
    <3>2. \A j \in Owners(chain, a) : j \in Nat
      BY ChainType DEF Owners
    <3>3. QED
      BY <3>1, <3>2 DEF IsOwner
  <2>3. QED
    BY <2>1, <2>2 DEF HasMembers, Executable
<1>2. HasTriggers(chain)
  <2>1. ASSUME NEW i \in DOMAIN chain.nodes
        PROVE  ActivityOf(chain.nodes[i]) \notin chain.nodes[i].triggered_by
    <3> DEFINE a == ActivityOf(chain.nodes[i])
    <3>1. a \in Scheduled(chain) /\ chain.nodes[i].triggered_by \subseteq Predecessors(chain, a)
      BY DEF Scheduled, Predecessors
    <3>2. ~IsCycle(chain, {a})
      BY <3>1 DEF Executable, HasCycle
    <3>3. QED
      BY <3>1, <3>2 DEF IsCycle
  <2>2. \E i \in DOMAIN chain.nodes : chain.nodes[i].triggered_by = {}
    <3>1. Scheduled(chain) # {}
      <4>1. 1 \in DOMAIN chain.nodes
        BY ChainType DEF Executable
      <4>2. QED
        BY <4>1 DEF Scheduled
    <3>2. PICK a \in Scheduled(chain) : Predecessors(chain, a) \cap Scheduled(chain) = {}
      BY <3>1 DEF Executable, HasCycle, IsCycle
    <3>3. PICK i \in DOMAIN chain.nodes : a = ActivityOf(chain.nodes[i])
      BY DEF Scheduled
    <3>4. chain.nodes[i].triggered_by \subseteq Predecessors(chain, a)
      BY <3>3 DEF Predecessors
    <3>5. chain.nodes[i].triggered_by \subseteq Scheduled(chain)
      BY DEF Executable
    <3>6. QED
      BY <3>2, <3>4, <3>5
  <2>3. QED
    BY <2>1, <2>2 DEF HasTriggers, Executable
<1>3. QED
  BY <1>1, <1>2 DEF IsChain, Executable

-----------------------------------------------------------------------------
(* The inductive invariant.                                                *)

(* The chains that were built are the first ones of the program.           *)
BuiltInv ==
    /\ Len(chains) <= Len(program.chains)
    /\ \A i \in DOMAIN chains : chains[i] = program.chains[i] /\ Executable(chains[i])

(* Whatever round the cycle check has come to: an activity waits for those *)
(* of its predecessors that are left, and no set with an activity that is  *)
(* not left is a cycle.                                                    *)
RoundInv ==
    phase = "ordering" =>
        /\ Len(chains) < Len(program.chains)
        /\ IsChain(NextChain)
        /\ DOMAIN unresolved \subseteq Scheduled(NextChain)
        /\ \A a \in DOMAIN unresolved :
              unresolved[a] = Predecessors(NextChain, a) \cap DOMAIN unresolved
        /\ \A A \in SUBSET Scheduled(NextChain) :
              IsCycle(NextChain, A) => A \subseteq DOMAIN unresolved

FailedInv ==
    phase = "failed" /\ Len(chains) < Len(program.chains) =>
        \/ ~Executable(NextChain) \/ HidesApplication(NextChain)
        \/ \E app \in Applications : ~IsApplication(app)

EcuInv == phase = "done" => IsEcu /\ Len(chains) = Len(program.chains)

Inv == TypeOK /\ BuiltInv /\ RoundInv /\ FailedInv /\ EcuInv

(* The chain in hand is a chain.                                           *)
LEMMA NextChainType ==
    ASSUME TypeOK, Len(chains) < Len(program.chains)
    PROVE  NextChain \in Chain /\ Len(chains) + 1 \in DOMAIN program.chains
<1>1. Len(chains) \in Nat /\ program.chains \in Seq(Chain)
  BY ProgramType DEF TypeOK
<1>2. QED
  BY <1>1 DEF NextChain

LEMMA PredecessorsType ==
    ASSUME NEW chain \in Chain, NEW a \in Activities
    PROVE  Predecessors(chain, a) \in SUBSET Activities
BY ChainType DEF Predecessors

LEMMA UnresolvedType ==
    ASSUME TypeOK
    PROVE  /\ DOMAIN unresolved \in SUBSET Activities
           /\ unresolved \in [DOMAIN unresolved -> SUBSET Activities]
BY DEF TypeOK, Unresolved

LEMMA InvInit == Init => Inv
<1> SUFFICES ASSUME Init
             PROVE  Inv
  OBVIOUS
<1>1. TypeOK
  BY DEF Init, TypeOK, Nothing, Unresolved
<1>2. BuiltInv
  <2>1. Len(program.chains) \in Nat
    BY <1>1, ProgramType DEF TypeOK
  <2>2. QED
    BY <2>1 DEF Init, BuiltInv
<1>3. QED
  BY <1>1, <1>2 DEF Init, Inv, RoundInv, FailedInv, EcuInv

(* Each part of the invariant is about some of the variables only.         *)
LEMMA BuiltFrame ==
    ASSUME BuiltInv, UNCHANGED <<program, chains>>
    PROVE  BuiltInv'
BY DEF BuiltInv, Executable, RunsIn

LEMMA TypeNext ==
    ASSUME Inv, [Next]_vars
    PROVE  TypeOK'
<1> USE DEF Inv
<1>1. Nothing \in Unresolved
  BY DEF Nothing, Unresolved
<1>2. ASSUME StartChain
      PROVE  unresolved' \in Unresolved
  <2>1. NextChain \in Chain
    BY <1>2, NextChainType DEF StartChain, Building
  <2>2. Scheduled(NextChain) \in SUBSET Activities
    BY <2>1, ChainType
  <2>3. unresolved' \in [Scheduled(NextChain) -> SUBSET Activities]
    BY <1>2, <2>1, <2>2, PredecessorsType DEF StartChain
  <2>4. QED
    BY <2>2, <2>3 DEF Unresolved
<1>3. ASSUME Resolve
      PROVE  unresolved' \in Unresolved
  <2>1. unresolved' \in [DOMAIN unresolved \ Schedulable -> SUBSET Activities]
    BY <1>3, UnresolvedType DEF Resolve, Without
  <2>2. DOMAIN unresolved \ Schedulable \in SUBSET Activities
    BY UnresolvedType
  <2>3. QED
    BY <2>1, <2>2 DEF Unresolved
<1>4. ASSUME EndChain
      PROVE  chains' \in Seq(Chain)
  <2>1. NextChain \in Chain
    BY <1>4, NextChainType DEF EndChain, RoundInv
  <2>2. QED
    BY <1>4, <2>1 DEF EndChain, TypeOK
<1>5. CASE UNCHANGED vars
  BY <1>5 DEF vars, TypeOK
<1>6. CASE BuildApplications \/ BuildEcu \/ Stopped
  BY <1>6 DEF BuildApplications, BuildEcu, Stopped, vars, TypeOK
<1>7. CASE RejectApplication \/ RejectChain \/ RejectCycle \/ RejectEcu
  BY <1>1, <1>7 DEF RejectApplication, RejectChain, RejectCycle, RejectEcu, Fail, TypeOK
<1>8. CASE StartChain
  BY <1>2, <1>8 DEF StartChain, TypeOK
<1>9. CASE Resolve
  BY <1>3, <1>9 DEF Resolve, TypeOK
<1>10. CASE EndChain
  BY <1>4, <1>10 DEF EndChain, TypeOK
<1>11. QED
  BY <1>5, <1>6, <1>7, <1>8, <1>9, <1>10 DEF Next

LEMMA ChainFrame ==
    ASSUME UNCHANGED <<program, chains>>
    PROVE  /\ NextChain' = NextChain
           /\ IsChain(NextChain) => IsChain(NextChain)'
           /\ Executable(NextChain)' => Executable(NextChain)
           /\ HidesApplication(NextChain) => HidesApplication(NextChain)'
           /\ \A app \in Applications : IsApplication(app)' <=> IsApplication(app)
<1>1. NextChain' = NextChain
  BY DEF NextChain
<1>2. IsChain(NextChain) => IsChain(NextChain)'
  BY <1>1 DEF IsChain, HasUniqueActivities, HasTriggers, HasMembers, IsOwner, Owners
<1>3. Executable(NextChain)' => Executable(NextChain)
  BY <1>1 DEF Executable, RunsIn
<1>4. HidesApplication(NextChain) => HidesApplication(NextChain)'
  BY <1>1 DEF HidesApplication, Owners
<1>5. \A app \in Applications : IsApplication(app)' <=> IsApplication(app)
  BY DEF IsApplication
<1>6. QED
  BY <1>1, <1>2, <1>3, <1>4, <1>5

(* The check starts with what waits for what in the whole chain.           *)
LEMMA StartRounds ==
    ASSUME Inv, StartChain
    PROVE  RoundInv'
<1>1. NextChain' = NextChain /\ IsChain(NextChain)'
  BY ChainFrame DEF StartChain
<1>2. DOMAIN unresolved' = Scheduled(NextChain)
  BY DEF StartChain
<1>3. ASSUME NEW a \in Scheduled(NextChain)
      PROVE  Predecessors(NextChain, a) \subseteq Scheduled(NextChain)
  BY DEF StartChain, IsChain, HasTriggers, Predecessors
<1>4. Len(chains') < Len(program'.chains)
  BY DEF StartChain, Building
<1>5. \A a \in DOMAIN unresolved' :
         unresolved'[a] = Predecessors(NextChain, a) \cap DOMAIN unresolved'
  BY <1>2, <1>3 DEF StartChain
<1>6. QED
  BY <1>1, <1>2, <1>4, <1>5 DEF RoundInv

(* A round takes away no activity of a cycle: one without predecessors that*)
(* are left waits for none of a set of activities that are left.           *)
LEMMA RoundKeepsCycles ==
    ASSUME Inv, Resolve
    PROVE  RoundInv'
<1>1. NextChain' = NextChain /\ IsChain(NextChain)'
  BY ChainFrame DEF Resolve, Inv, RoundInv
<1>2. DOMAIN unresolved' = DOMAIN unresolved \ Schedulable
  BY DEF Resolve, Without
<1>3. Len(chains') < Len(program'.chains)
  BY DEF Resolve, Inv, RoundInv
<1>4. ASSUME NEW a \in DOMAIN unresolved'
      PROVE  unresolved'[a] = Predecessors(NextChain, a) \cap DOMAIN unresolved'
  <2>1. unresolved'[a] = unresolved[a] \ Schedulable
    BY <1>2, <1>4 DEF Resolve, Without
  <2>2. unresolved[a] = Predecessors(NextChain, a) \cap DOMAIN unresolved
    BY <1>2, <1>4 DEF Resolve, Inv, RoundInv
  <2>3. QED
    BY <1>2, <2>1, <2>2
<1>5. ASSUME NEW A \in SUBSET Scheduled(NextChain), IsCycle(NextChain, A)
      PROVE  A \subseteq DOMAIN unresolved'
  <2>1. A \subseteq DOMAIN unresolved
    BY <1>5 DEF Resolve, Inv, RoundInv
  <2>2. ASSUME NEW a \in A, a \in Schedulable
        PROVE  FALSE
    <3>1. Predecessors(NextChain, a) \cap DOMAIN unresolved = {}
      BY <2>1, <2>2 DEF Schedulable, Resolve, Inv, RoundInv
    <3>2. QED
      BY <1>5, <2>1, <3>1 DEF IsCycle
  <2>3. QED
    BY <1>2, <2>1, <2>2
<1>6. DOMAIN unresolved' \subseteq Scheduled(NextChain)
  BY <1>2 DEF Resolve, Inv, RoundInv
<1>7. QED
  BY <1>1, <1>3, <1>4, <1>5, <1>6 DEF RoundInv

(* When no activity that is left can go, they are a cycle.                 *)
LEMMA LeftOverIsCycle ==
    ASSUME Inv, RejectCycle
    PROVE  ~Executable(NextChain)
<1>1. \A a \in DOMAIN unresolved : Predecessors(NextChain, a) \cap DOMAIN unresolved # {}
  BY DEF RejectCycle, Schedulable, Inv, RoundInv
<1>2. IsCycle(NextChain, DOMAIN unresolved)
  BY <1>1 DEF RejectCycle, IsCycle
<1>3. DOMAIN unresolved \in SUBSET Scheduled(NextChain)
  BY DEF RejectCycle, Inv, RoundInv
<1>4. QED
  BY <1>2, <1>3 DEF Executable, HasCycle

(* When none is left, there is no cycle.                                   *)
LEMMA NothingLeft ==
    ASSUME Inv, EndChain
    PROVE  BuiltInv'
<1>1. NextChain \in Chain /\ Len(chains) < Len(program.chains)
  BY NextChainType DEF EndChain, Inv, RoundInv
<1>2. ~HasCycle(NextChain)
  BY DEF EndChain, Inv, RoundInv, HasCycle, IsCycle
<1>3. Executable(NextChain)
  BY <1>1, <1>2, ChecksSuffice DEF EndChain, Inv, RoundInv
<1>4. Executable(NextChain) => \A i \in DOMAIN chains' : Executable(chains'[i])
  <2>1. \A i \in DOMAIN chains' : chains'[i] = NextChain \/ (i \in DOMAIN chains /\ chains'[i] = chains[i])
    BY <1>1 DEF EndChain, Inv, TypeOK
  <2>2. QED
    BY <2>1 DEF Inv, BuiltInv
<1>5. \A i \in DOMAIN chains' : chains'[i] = program.chains[i]
  BY <1>1 DEF EndChain, NextChain, Inv, TypeOK, BuiltInv
<1>6. Len(chains') <= Len(program.chains)
  <2>1. Len(program.chains) \in Nat
    BY ProgramType DEF Inv, TypeOK
  <2>2. QED
    BY <1>1, <2>1 DEF EndChain, Inv, TypeOK
<1>7. program' = program
  BY DEF EndChain
<1>8. \A i \in DOMAIN chains' : Executable(chains[i])'
  BY <1>3, <1>4, <1>7 DEF Executable, RunsIn
<1>9. QED
  BY <1>5, <1>6, <1>7, <1>8 DEF BuiltInv

LEMMA InvNext == Inv /\ [Next]_vars => Inv'
<1> SUFFICES ASSUME Inv, [Next]_vars
             PROVE  Inv'
  OBVIOUS
<1>1. TypeOK'
  BY TypeNext
<1>2. CASE EndChain
  <2>1. phase' = "chain"
    BY <1>2 DEF EndChain
  <2>2. QED
    BY <1>1, <1>2, <2>1, NothingLeft DEF Inv, RoundInv, FailedInv, EcuInv
<1>3. ASSUME ~EndChain
      PROVE  BuiltInv'
  <2>1. UNCHANGED <<program, chains>>
    BY <1>3 DEF Next, BuildApplications, RejectApplication, StartChain, RejectChain, Resolve,
                RejectCycle, BuildEcu, RejectEcu, Stopped, Fail, vars
  <2>2. QED
    BY <2>1, BuiltFrame DEF Inv
<1>4. CASE StartChain \/ Resolve
  <2>1. phase' = "ordering"
    BY <1>4 DEF StartChain, Resolve, Inv, RoundInv
  <2>2. ~EndChain
    BY <1>4, <2>1 DEF EndChain
  <2>3. QED
    BY <1>1, <1>3, <1>4, <2>1, <2>2, StartRounds, RoundKeepsCycles DEF Inv, FailedInv, EcuInv
<1>5. CASE RejectApplication \/ RejectChain \/ RejectCycle \/ RejectEcu
  <2>1. phase' = "failed" /\ UNCHANGED <<program, chains>>
    BY <1>5 DEF RejectApplication, RejectChain, RejectCycle, RejectEcu, Fail
  <2>2. ~EndChain
    BY <2>1 DEF EndChain
  <2>3. ASSUME Len(chains) < Len(program.chains)
        PROVE  \/ ~Executable(NextChain) \/ HidesApplication(NextChain)
               \/ \E app \in Applications : ~IsApplication(app)
    <3>1. CASE RejectApplication
      BY <3>1 DEF RejectApplication
    <3>2. CASE RejectChain
      BY <2>3, <3>2, NextChainType, ChecksAreNeeded DEF RejectChain, Inv
    <3>3. CASE RejectCycle
      BY <3>3, LeftOverIsCycle
    <3>4. CASE RejectEcu
      BY <2>3, <3>4 DEF RejectEcu, BuiltAllChains
    <3>5. QED
      BY <1>5, <3>1, <3>2, <3>3, <3>4
  <2>4. FailedInv'
    BY <2>1, <2>3, ChainFrame DEF FailedInv
  <2>5. QED
    BY <1>1, <1>3, <2>1, <2>2, <2>4 DEF Inv, RoundInv, EcuInv
<1>6. CASE BuildEcu
  <2>1. phase' = "done" /\ UNCHANGED <<program, chains>> /\ ~EndChain
    BY <1>6 DEF BuildEcu, EndChain
  <2>2. IsEcu'
    BY <1>6, <2>1 DEF BuildEcu, IsEcu, ChainsOf
  <2>3. QED
    BY <1>1, <1>3, <1>6, <2>1, <2>2 DEF BuildEcu, BuiltAllChains, Inv, RoundInv, FailedInv, EcuInv
<1>7. CASE BuildApplications
  <2>1. phase' = "chain" /\ ~EndChain
    BY <1>7 DEF BuildApplications, EndChain
  <2>2. QED
    BY <1>1, <1>3, <2>1 DEF Inv, RoundInv, FailedInv, EcuInv
<1>8. CASE UNCHANGED vars
  <2>1. ~EndChain
    BY <1>8 DEF EndChain, vars
  <2>2. UNCHANGED <<program, chains>> /\ UNCHANGED <<phase, unresolved>>
    BY <1>8 DEF vars
  <2>3. RoundInv'
    BY <2>2, ChainFrame DEF Inv, RoundInv
  <2>4. FailedInv'
    BY <2>2, ChainFrame DEF Inv, FailedInv
  <2>5. EcuInv'
    BY <2>2 DEF Inv, EcuInv, IsEcu, ChainsOf
  <2>6. QED
    BY <1>1, <1>3, <2>1, <2>3, <2>4, <2>5 DEF Inv
<1>9. QED
  BY <1>2, <1>4, <1>5, <1>6, <1>7, <1>8 DEF Next, Stopped

-----------------------------------------------------------------------------
(* The theorems.                                                           *)

LEMMA InvAlways == Spec => []Inv
BY InvInit, InvNext, PTL DEF Spec

(* The rounds of _validate_acyclic, which only ever look at activities     *)
(* without predecessors that are left, and the checks before them accept   *)
(* exactly the chains that can be executed, whatever their length, unless  *)
(* an application of the chain is hidden behind later ones.                *)
THEOREM CyclesAreFound == Spec => []ChainsAreSchedulable
<1>1. Inv => ChainsAreSchedulable
  BY DEF Inv, BuiltInv, FailedInv, ChainsAreSchedulable
<1>2. QED
  BY <1>1, InvAlways, PTL

(* What an accepted ECU triggers is deployed on it, under names that tell  *)
(* its applications apart, and none of these is in two chains.             *)
LEMMA EcuIsSound == Inv => EcuRunsItsChains
<1> DEFINE Owning(act) == {app \in Elements(program.deployed) : act \in Elements(program.activities[app])}
<1> SUFFICES ASSUME Inv, phase = "done"
             PROVE  EcuRunsItsChains
  BY DEF EcuRunsItsChains
<1>1. IsEcu /\ Len(chains) = Len(program.chains)
  BY DEF Inv, EcuInv
<1>2. chains \in Seq(Chain) /\ program.chains \in Seq(Chain)
  BY ProgramType DEF Inv, TypeOK
<1>3. chains = program.chains
  <2>1. \A i \in DOMAIN chains : chains[i] = program.chains[i]
    BY DEF Inv, BuiltInv
  <2>2. QED
    BY <1>1, <1>2, <2>1
<1>4. ASSUME NEW i \in DOMAIN chains, NEW act \in Scheduled(chains[i])
      PROVE  \E app \in Owning(act) : app \in Elements(chains[i].applications)
  BY <1>1 DEF Inv, BuiltInv, Executable, RunsIn, IsEcu
<1>5. ASSUME NEW i \in DOMAIN chains, NEW j \in DOMAIN chains \ {i},
             NEW act \in Scheduled(chains[i]), act \in Scheduled(chains[j])
      PROVE  \E app, other \in Owning(act) : app # other
  <2>1. PICK app \in Owning(act) : app \in Elements(chains[i].applications)
    BY <1>4
  <2>2. PICK other \in Owning(act) : other \in Elements(chains[j].applications)
    BY <1>4, <1>5
  <2>3. app \in Applications
    BY ProgramType DEF Elements, Inv, TypeOK
  <2>4. app # other
    BY <1>1, <2>1, <2>2, <2>3 DEF IsEcu, ChainsOf
  <2>5. QED
    BY <2>4
<1>6. ASSUME NEW app \in Elements(program.deployed), NEW other \in Elements(program.deployed),
             program.application_name[app] = program.application_name[other]
      PROVE  app = other
  BY <1>1, <1>6 DEF IsEcu, IsUnique, Elements
<1>7. ASSUME NEW i \in DOMAIN chains, NEW j \in DOMAIN chains,
             Elements(chains[i].applications) \cap Elements(chains[j].applications) # {}
      PROVE  i = j
  <2>1. PICK app : app \in Elements(chains[i].applications) /\ app \in Elements(chains[j].applications)
    BY <1>7
  <2>2. app \in Applications
    <3>1. app \in Elements(program.deployed)
      BY <1>1, <2>1 DEF IsEcu
    <3>2. QED
      BY <3>1, ProgramType DEF Elements, Inv, TypeOK
  <2>3. QED
    BY <1>1, <2>1, <2>2 DEF IsEcu, ChainsOf
<1>8. QED
  BY <1>3, <1>4, <1>5, <1>6, <1>7 DEF EcuRunsItsChains

(* The same for every reachable state.                                     *)
THEOREM AcceptedEcusAreSound == Spec => []EcuRunsItsChains
BY InvAlways, EcuIsSound, PTL

(* Every variable keeps its type.                                          *)
THEOREM TypeCorrect == Spec => []TypeOK
<1>1. Inv => TypeOK
  BY DEF Inv
<1>2. QED
  BY <1>1, InvAlways, PTL
=============================================================================
