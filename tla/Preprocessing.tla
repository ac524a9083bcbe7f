---------------------------- MODULE Preprocessing ----------------------------
(***************************************************************************)
(* What a caller of BatchRunner.batch_run is promised, with no process,    *)
(* thread or queue in sight: input files are discovered one by one, each   *)
(* of them either ends up in the collected result or fails, and the call   *)
(* returns only a result that is complete.  If anything failed it raises.  *)
(* BatchRunner.tla implements this module.                                 *)
(***************************************************************************)
EXTENDS FiniteSets

CONSTANT Files              \* the resolved paths a call may discover

VARIABLES discovered,       \* files found so far
          collected,        \* files whose processed text is in the result
          failed,           \* files that will have no processed text
          discovery_failed, \* an explicitly listed file does not exist
          status            \* "running", "returned" or "raised"

vars == <<discovered, collected, failed, discovery_failed, status>>

TypeOK ==
    /\ discovered \subseteq Files
    /\ collected \subseteq discovered
    /\ failed \subseteq discovered
    /\ discovery_failed \in BOOLEAN
    /\ status \in {"running", "returned", "raised"}

Init ==
    /\ discovered = {}
    /\ collected = {}
    /\ failed = {}
    /\ discovery_failed = FALSE
    /\ status = "running"

Outstanding == discovered \ (collected \cup failed)

Discover(f) ==
    /\ status = "running"
    /\ discovered' = discovered \cup {f}
    /\ UNCHANGED <<collected, failed, discovery_failed, status>>

FailDiscovery ==
    /\ status = "running"
    /\ discovery_failed' = TRUE
    /\ UNCHANGED <<discovered, collected, failed, status>>

Collect(S) ==
    /\ status = "running"
    /\ S \subseteq Outstanding
    /\ collected' = collected \cup S
    /\ UNCHANGED <<discovered, failed, discovery_failed, status>>

Fail(S) ==
    /\ status = "running"
    /\ S \subseteq Outstanding
    /\ failed' = failed \cup S
    /\ UNCHANGED <<discovered, collected, discovery_failed, status>>

Return ==
    /\ status = "running"
    /\ ~discovery_failed
    /\ failed = {}
    /\ collected = discovered
    /\ status' = "returned"
    /\ UNCHANGED <<discovered, collected, failed, discovery_failed>>

Raise ==
    /\ status = "running"
    /\ discovery_failed \/ failed # {}
    /\ status' = "raised"
    /\ UNCHANGED <<discovered, collected, failed, discovery_failed>>

Next ==
    \/ \E f \in Files : Discover(f)
    \/ FailDiscovery
    \/ \E S \in SUBSET Files : Collect(S) \/ Fail(S)
    \/ Return
    \/ Raise

Spec == Init /\ [][Next]_vars
=============================================================================
