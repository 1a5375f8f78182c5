----------------------------- MODULE CreateContract -----------------------------
(***************************************************************************)
(* The promise of the create specs to who reads their verdict: which       *)
(* milestones a cluster has to reach is settled by the options; the spec   *)
(* observes them one at a time, each at a moment when the hub shows it;    *)
(* with the last one, and not earlier, it passes; and it never passes      *)
(* without one of them.                                                    *)
(***************************************************************************)

VARIABLES
    required,  \* the milestones the options ask for
    observed,  \* those the spec has observed
    phase,     \* "running", or how the spec ended
    shown      \* the milestones the hub shows now

contractVars == <<required, observed, phase, shown>>

ContractInit == phase = "running" /\ observed = {} /\ required # {}

Observe(m) ==
    /\ phase = "running"
    /\ m \in shown
    /\ observed' = observed \cup {m}
    /\ phase' = (IF observed' = required THEN "passed" ELSE "running")
    /\ UNCHANGED <<required, shown>>

\* What the spec cleans up when it fails may show on the hub.
FailSpec ==
    /\ phase = "running" /\ phase' = "failed"
    /\ UNCHANGED <<required, observed>>

\* The hub changes at any time, also when the spec is over.
HubChanges == UNCHANGED <<required, observed, phase>>

ContractNext ==
    \/ \E m \in required : Observe(m)
    \/ FailSpec \/ HubChanges

ContractSpec == ContractInit /\ [][ContractNext]_contractVars
=================================================================================
