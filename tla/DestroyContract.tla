---------------------------- MODULE DestroyContract ----------------------------
(***************************************************************************)
(* The promise of the destroy specs to the owner of a hub: a spec settles  *)
(* once which clusters it is about, all of its clusters that are on the    *)
(* hub at that moment; no other cluster is ever being deleted; and it      *)
(* passes only after it has observed each of them detached.                *)
(***************************************************************************)

VARIABLES
    mine,      \* the clusters the spec may touch: of its platform, or named
    phase,     \* where the spec is on its way to a verdict
    targets,   \* the clusters it is about, once it has settled them
    observed,  \* those it has seen detached
    hosted, deleting, managed  \* the HostedClusters and ManagedClusters of the hub

contractVars == <<mine, phase, targets, observed, hosted, deleting, managed>>

ContractInit ==
    /\ phase = "listing" /\ targets = {} /\ observed = {}
    /\ deleting = {}

HubUnchanged == UNCHANGED <<mine, hosted, deleting, managed>>

\* Of the clusters on the hub none that is its own is left out; a named cluster
\* need not be on the hub.
SettleTargets ==
    /\ phase = "listing"
    /\ targets' # {} /\ mine \cap hosted \subseteq targets' /\ targets' \subseteq mine
    /\ phase' = "working"
    /\ UNCHANGED observed /\ HubUnchanged

SkipSpec ==
    /\ phase = "listing" /\ mine \cap hosted = {}
    /\ phase' = "skipped"
    /\ UNCHANGED <<targets, observed>> /\ HubUnchanged

\* Looking for a ManagedCluster and not finding it; the last one ends the spec.
Observe(c) ==
    /\ phase = "working"
    /\ c \notin observed /\ c \notin managed
    /\ observed' = observed \cup {c}
    /\ phase' = (IF observed' = targets THEN "passed" ELSE "working")
    /\ UNCHANGED targets /\ HubUnchanged

FailSpec ==
    /\ phase \in {"listing", "working"}
    /\ phase' = "failed"
    /\ UNCHANGED <<targets, observed>> /\ HubUnchanged

\* The hub changes at any time, also when the spec is over, but what is asked to
\* go are the targets.
HubChanges ==
    /\ deleting' \subseteq deleting \cup targets
    /\ UNCHANGED <<mine, phase, targets, observed>>

ContractNext ==
    \/ SettleTargets \/ SkipSpec \/ FailSpec \/ HubChanges
    \/ \E c \in targets : Observe(c)

ContractSpec == ContractInit /\ [][ContractNext]_contractVars
================================================================================
