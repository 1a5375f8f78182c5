---------------------------- MODULE UpgradeContract ----------------------------
(***************************************************************************)
(* The promise of the upgrade specs to the reader of a test report: specs  *)
(* run one at a time, a verdict is final, a spec is skipped only when the  *)
(* options do not ask for it, and a spec passes only after it has observed,*)
(* while it was running, a hub that shows the requested upgrade.           *)
(***************************************************************************)
EXTENDS HostedClusterHub

VARIABLES
    phase,          \* phase[s]: where spec s is on its way to a verdict
    hostedCluster,  \* the HostedCluster on the hub
    nodePools       \* its NodePools

contractVars == <<phase, hostedCluster, nodePools>>
Phases == {"waiting", "running", "observed", "passed", "failed", "skipped"}
InProgress(s) == phase[s] \in {"running", "observed"}

ContractTypeOK == phase \in [Selected -> Phases]

ContractInit == phase = [s \in Selected |-> "waiting"]

Become(s, p) == phase' = [phase EXCEPT ![s] = p]
HubUnchanged == UNCHANGED <<hostedCluster, nodePools>>

StartSpec(s) ==
    /\ phase[s] = "waiting"
    /\ \A t \in Selected : ~InProgress(t)
    /\ Become(s, "running")
    /\ HubUnchanged

\* Reading the hub while it shows the upgrade.
Observe(s) ==
    /\ phase[s] = "running"
    /\ Reflects(s, hostedCluster, nodePools)
    /\ \E p \in {"observed", "passed"} : Become(s, p)
    /\ HubUnchanged

PassObserved(s) ==
    /\ phase[s] = "observed"
    /\ Become(s, "passed")
    /\ HubUnchanged

FailSpec(s) ==
    /\ InProgress(s)
    /\ Become(s, "failed")
    /\ HubUnchanged

SkipSpec(s) ==
    /\ phase[s] = "running"
    /\ Skips(s)
    /\ Become(s, "skipped")
    /\ HubUnchanged

\* The hub is not the specs' own: its clusters may change at any time.
HubChanges == UNCHANGED phase

ContractNext ==
    \/ HubChanges
    \/ \E s \in Selected :
        StartSpec(s) \/ Observe(s) \/ PassObserved(s) \/ FailSpec(s) \/ SkipSpec(s)

ContractSpec == ContractInit /\ [][ContractNext]_contractVars
=============================================================================
