------------------------------ MODULE Architecture ------------------------------
(***************************************************************************)
(* Validation of an architecture (ecu_model/architecture): application.py, *)
(* chain.py and ecu.py.                                                    *)
(*                                                                         *)
(* A program builds its applications, then its chains one after the other, *)
(* and at last the ECU that they are deployed on.  Each object is checked  *)
(* when it is built, the triggers of a chain by taking away, round by      *)
(* round, the activities whose predecessors are all gone.  The first       *)
(* object that is not valid ends the program.                              *)
(*                                                                         *)
(* Activities and applications are identities; names are the fully         *)
(* qualified ones.                                                         *)
(***************************************************************************)
EXTENDS Naturals, Sequences

CONSTANTS
    Activities,
    Applications,
    Names,
    Programs       \* the programs that are looked at: see Program

Node == [activity : Activities, triggered_by : SUBSET Activities]
Chain == [name : Names, applications : Seq(Applications), nodes : Seq(Node)]

Program ==
    [activity_name : [Activities -> Names], application_name : [Applications -> Names],
     activities : [Applications -> Seq(Activities)], \* Application.activities
     chains : Seq(Chain),                            \* in the order they are built
     deployed : Seq(Applications)]                   \* Ecu.applications

ASSUME ArchitectureAssumption == Programs \subseteq Program

VARIABLES
    program,    \* what the program builds
    phase,      \* "applications", "chain", "ordering", "done" or "failed"
    chains,     \* the chains that were built
    unresolved  \* activities of the chain in hand: the predecessors that are left

vars == <<program, phase, chains, unresolved>>

Elements(s) == {s[i] : i \in DOMAIN s}

(* The functions on subsets of the activities.                             *)
Unresolved == UNION {[A -> SUBSET Activities] : A \in SUBSET Activities}

TypeOK ==
    /\ program \in Programs
    /\ phase \in {"applications", "chain", "ordering", "done", "failed"}
    /\ chains \in Seq(Chain)
    /\ unresolved \in Unresolved

Nothing == [a \in {} |-> {}]

Init ==
    /\ program \in Programs
    /\ phase = "applications"
    /\ chains = <<>>
    /\ unresolved = Nothing

-----------------------------------------------------------------------------

IsUnique(names) == \A i, j \in DOMAIN names : names[i] = names[j] => i = j

(* _validate_unique_activity_names, after the length of the list.          *)
IsApplication(app) ==
    LET activities == program.activities[app] IN
    /\ activities # <<>>
    /\ IsUnique([i \in DOMAIN activities |-> program.activity_name[activities[i]]])

Fail ==
    /\ phase' = "failed" /\ unresolved' = Nothing
    /\ UNCHANGED <<program, chains>>

BuildApplications ==
    /\ phase = "applications"
    /\ \A app \in Applications : IsApplication(app)
    /\ phase' = "chain"
    /\ UNCHANGED <<program, chains, unresolved>>

RejectApplication ==
    /\ phase = "applications"
    /\ \E app \in Applications : ~IsApplication(app)
    /\ Fail

-----------------------------------------------------------------------------

ActivityOf(node) == node.activity
Scheduled(chain) == {ActivityOf(chain.nodes[i]) : i \in DOMAIN chain.nodes}

HasUniqueActivities(chain) ==
    IsUnique([i \in DOMAIN chain.nodes |-> ActivityOf(chain.nodes[i])])

(* The positions in the chain's applications of those with an activity.    *)
Owners(chain, activity) ==
    {i \in DOMAIN chain.applications : activity \in Elements(program.activities[chain.applications[i]])}

(* application_by_activity: the last application counts.                   *)
IsOwner(chain, app, activity) ==
    \E i \in Owners(chain, activity) :
        app = chain.applications[i] /\ \A j \in Owners(chain, activity) : j <= i

HasMembers(chain) ==
    /\ chain.applications # <<>>
    /\ \A a \in Scheduled(chain) : Owners(chain, a) # {}
    /\ \A app \in Elements(chain.applications) : \E a \in Scheduled(chain) : IsOwner(chain, app, a)

(* Triggers by activities of the chain other than the triggered one, and at*)
(* least one activity without any.                                         *)
HasTriggers(chain) ==
    /\ \A i \in DOMAIN chain.nodes :
          chain.nodes[i].triggered_by \subseteq Scheduled(chain) \ {ActivityOf(chain.nodes[i])}
    /\ \E i \in DOMAIN chain.nodes : chain.nodes[i].triggered_by = {}

NextChain == program.chains[Len(chains) + 1]
Building == phase = "chain" /\ Len(chains) < Len(program.chains)

IsChain(chain) ==
    HasUniqueActivities(chain) /\ HasMembers(chain) /\ HasTriggers(chain)

Predecessors(chain, activity) ==
    UNION {chain.nodes[i].triggered_by : i \in {k \in DOMAIN chain.nodes : ActivityOf(chain.nodes[k]) = activity}}

(* The checks before the order, and the start of _validate_acyclic.        *)
StartChain ==
    /\ Building /\ IsChain(NextChain)
    /\ phase' = "ordering"
    /\ unresolved' = [a \in Scheduled(NextChain) |-> Predecessors(NextChain, a)]
    /\ UNCHANGED <<program, chains>>

RejectChain ==
    /\ Building /\ ~IsChain(NextChain)
    /\ Fail

Schedulable == {a \in DOMAIN unresolved : unresolved[a] = {}}

(* Mutant: any progress is taken for the absence of cycles.                *)
WithoutEverything(done) == IF done = {} THEN unresolved ELSE Nothing

(* Mutant: what was scheduled is only forgotten as a predecessor.          *)
WithoutTriggers(done) == [a \in DOMAIN unresolved |-> unresolved[a] \ done]

Without(done) == [a \in DOMAIN unresolved \ done |-> unresolved[a] \ done]

(* One round of the loop.                                                  *)
Resolve ==
    /\ phase = "ordering" /\ Schedulable # {}
    /\ unresolved' = Without(Schedulable)
    /\ UNCHANGED <<program, phase, chains>>

(* "chain contains a trigger cycle".                                       *)
RejectCycle ==
    /\ phase = "ordering" /\ DOMAIN unresolved # {} /\ Schedulable = {}
    /\ Fail

EndChain ==
    /\ phase = "ordering" /\ DOMAIN unresolved = {}
    /\ phase' = "chain"
    /\ chains' = Append(chains, NextChain)
    /\ UNCHANGED <<program, unresolved>>

-----------------------------------------------------------------------------

(* Mutant: an application is handed on from one chain to the next.         *)
ChainsOfNone(app) == {}

ChainsOf(app) == {i \in DOMAIN chains : app \in Elements(chains[i].applications)}

(* The two validators of an ECU.                                           *)
IsEcu ==
    /\ program.deployed # <<>>
    /\ IsUnique([i \in DOMAIN program.deployed |-> program.application_name[program.deployed[i]]])
    /\ IsUnique([i \in DOMAIN chains |-> chains[i].name])
    /\ \A i \in DOMAIN chains : Elements(chains[i].applications) \subseteq Elements(program.deployed)
    /\ \A app \in Applications : \A i, j \in ChainsOf(app) : i = j

BuiltAllChains == phase = "chain" /\ Len(chains) = Len(program.chains)

BuildEcu ==
    /\ BuiltAllChains /\ IsEcu
    /\ phase' = "done"
    /\ UNCHANGED <<program, chains, unresolved>>

RejectEcu ==
    /\ BuiltAllChains /\ ~IsEcu
    /\ Fail

Stopped == phase \in {"done", "failed"} /\ UNCHANGED vars

Next ==
    \/ BuildApplications \/ RejectApplication
    \/ StartChain \/ RejectChain \/ Resolve \/ RejectCycle \/ EndChain
    \/ BuildEcu \/ RejectEcu \/ Stopped

Spec == Init /\ [][Next]_vars

(* Everything is one sequential program.                                   *)
FairSpec == Spec /\ WF_vars(Next)

-----------------------------------------------------------------------------

(* A set of activities each of which waits for another one of the set.     *)
IsCycle(chain, A) == A # {} /\ \A a \in A : Predecessors(chain, a) \cap A # {}
HasCycle(chain) == \E A \in SUBSET Scheduled(chain) : IsCycle(chain, A)

(* Its activities run in its applications, and none of these has nothing   *)
(* to do in it.                                                            *)
RunsIn(chain) ==
    /\ Scheduled(chain) \subseteq
          UNION {Elements(program.activities[app]) : app \in Elements(chain.applications)}
    /\ \A app \in Elements(chain.applications) :
          Elements(program.activities[app]) \cap Scheduled(chain) # {}

(* A chain that can be executed: distinct activities, each triggered by    *)
(* some of the others, none of which waits for ever.                       *)
Executable(chain) ==
    /\ chain.nodes # <<>> /\ chain.applications # <<>>
    /\ HasUniqueActivities(chain)
    /\ \A i \in DOMAIN chain.nodes : chain.nodes[i].triggered_by \subseteq Scheduled(chain)
    /\ RunsIn(chain)
    /\ ~HasCycle(chain)

(* An application of the chain lists no activity of the chain that is not  *)
(* listed again after it.                                                  *)
HidesApplication(chain) ==
    \E app \in Elements(chain.applications) :
        \A act \in Scheduled(chain) : \A i \in Owners(chain, act) :
            chain.applications[i] = app => \E j \in Owners(chain, act) : j > i

(* "Reject trigger cycles, which would make the chain unschedulable": the  *)
(* rounds and the checks before them accept only chains without a cycle of *)
(* any length, and all of them but those in which an application only has  *)
(* activities that later ones list, too: these are rejected because of the *)
(* idle application.                                                       *)
ChainsAreSchedulable ==
    /\ \A i \in DOMAIN chains : Executable(chains[i])
    /\ phase = "failed" /\ Len(chains) < Len(program.chains) =>
          \/ ~Executable(NextChain) \/ HidesApplication(NextChain)
          \/ \E app \in Applications : ~IsApplication(app)

(* On an ECU that was accepted no application is part of two chains, every *)
(* activity of a chain is deployed in one of the chain's applications,     *)
(* which has a name of its own, and two chains trigger the same activity   *)
(* only where two of its applications contain it: "part of multiple chains"*)
(* is checked for applications.                                            *)
EcuRunsItsChains ==
    phase = "done" =>
        LET Owning(act) == {app \in Elements(program.deployed) : act \in Elements(program.activities[app])} IN
        /\ chains = program.chains
        /\ \A i, j \in DOMAIN chains :
              Elements(chains[i].applications) \cap Elements(chains[j].applications) # {} => i = j
        /\ \A i \in DOMAIN chains : \A act \in Scheduled(chains[i]) :
              /\ \E app \in Owning(act) : app \in Elements(chains[i].applications)
              /\ \A j \in DOMAIN chains \ {i} :
                    act \in Scheduled(chains[j]) => \E app, other \in Owning(act) : app # other
        /\ \A app, other \in Elements(program.deployed) :
              program.application_name[app] = program.application_name[other] => app = other

(* The rounds of every cycle check come to an end.                         *)
Termination == <>(phase \in {"done", "failed"})
=============================================================================
