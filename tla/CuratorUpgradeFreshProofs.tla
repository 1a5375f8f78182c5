----------------------- MODULE CuratorUpgradeFreshProofs -----------------------
(***************************************************************************)
(* Theorems about one upgrade spec alone, as its label filter selects it,  *)
(* on a hub without a ClusterCurator: for each of the three specs, every   *)
(* set of versions and node pools and every value of the options.          *)
(***************************************************************************)
EXTENDS CuratorUpgradeJobProofs

\* One spec is selected, nothing of an earlier run is there, and the applier
\* replaces .spec.
OneFreshSpec ==
    /\ ReplacesSpec /\ ~EarlierCurator
    /\ \A s, t \in Selected : s = t

\* The last write of the spec comes once.
OnceInv ==
    curator.desiredCuration = "upgrade" =>
        trigger \in Selected /\ todo = {} /\ pc \in {"idle", "waitJob", "verify", "readHC"}

\* There is one job, the one the spec asked for, and one that leaves the control
\* plane alone unless the spec is about it.
JobInv ==
    /\ condition.result # "absent" =>
           curator.desiredCuration = "upgrade" /\ ~unseen /\ job.by \in Selected
    /\ "controlPlane" \notin Selected => hostedCluster.release = releaseBefore

\* What the spec concludes from the condition.
VerdictInv ==
    /\ pc \in {"verify", "readHC"} => condition.result = "finished"
    /\ \A s \in Selected : verdict[s] = "passed" => condition.result = "finished"
    /\ OwnJobAccepted

FreshInv == OwnJobInv /\ OnceInv /\ JobInv /\ VerdictInv

LEMMA InitFresh == OneFreshSpec /\ Init => FreshInv
  <1> SUFFICES ASSUME OneFreshSpec, Init PROVE FreshInv
    OBVIOUS
  <1>1. curator.desiredCuration = "unset" /\ condition.result = "absent"
    BY DEF Init, OneFreshSpec, NothingLeft, NoCurator
  <1>2. OnceInv /\ JobInv /\ VerdictInv
    BY <1>1 DEF Init, OnceInv, JobInv, VerdictInv, OwnJobAccepted
  <1>3. QED
    BY <1>2, InitOwnJob DEF FreshInv

\* The spec under way is the selected one, and no other waits.
LEMMA OnlySpec ==
  ASSUME OneFreshSpec, StepInv, pc # "idle"
  PROVE  current \in Selected /\ todo = {}
  BY DEF OneFreshSpec, StepInv, TypeOK, Scheduling

-----------------------------------------------------------------------------
(* Steps of the spec                                                       *)

\* As long as the spec has not made its last write, there is no condition.
LEMMA NoConditionYet ==
  ASSUME FreshInv, pc \in {"createCurator"} \cup ConfigSteps
  PROVE  condition.result = "absent"
  BY DEF FreshInv, OnceInv, JobInv, ConfigSteps

LEMMA SpecStepOnceAndJob ==
  ASSUME OneFreshSpec, FreshInv, SpecStep
  PROVE  OnceInv' /\ JobInv'
  <1>1. /\ StepInv /\ RequestInv /\ ReplacesSpec /\ OnceInv /\ JobInv
    BY DEF FreshInv, OwnJobInv, OneFreshSpec
  <1>2. /\ pc # "idle" /\ UNCHANGED <<job, condition, hostedCluster, releaseBefore, todo>>
        /\ current \in Selected /\ todo = {}
    BY <1>1, SpecStepFrame, OnlySpec
  <1>3. CASE EnsureHostedCluster \/ EnsureNodePools \/ WaitForCuratorJob \/ WaitTimesOut
             \/ Verify \/ ReadControlPlaneRelease \/ CallFails
    <2>1. /\ UNCHANGED <<curator, trigger, unseen>>
          /\ \/ pc' \in {"idle", "verify", "readHC"}
             \/ pc \in {"ensureHC", "listNodePools"}
      BY <1>3, ReadsMove DEF curatorVars
    <2>2. QED
      BY <1>1, <1>2, <2>1 DEF OnceInv, JobInv
  <1>4. CASE CreateOrUpdateClusterCuratorForChannelUpgrade \/ SetClusterCuratorUpgradeChannel
             \/ SetClusterCuratorUpgradeDesiredUpdateAndType
    <2>1. curator'.desiredCuration = "unset" /\ pc \in {"createCurator"} \cup ConfigSteps
      BY <1>1, <1>4, WritesMove
         DEF ConfigSteps, CreateOrUpdateClusterCuratorForChannelUpgrade,
             SetClusterCuratorUpgradeChannel, SetClusterCuratorUpgradeDesiredUpdateAndType
    <2>2. QED
      BY <1>1, <1>2, <2>1, NoConditionYet DEF OnceInv, JobInv
  <1>5. CASE SetDesiredCuration
    <2>1. pc = "setCuration" /\ trigger' = current /\ pc' \in {"idle", "waitJob"}
      BY <1>1, <1>5, LastWriteMoves
    <2>2. condition.result = "absent"
      BY <2>1, NoConditionYet DEF ConfigSteps
    <2>3. QED
      BY <1>1, <1>2, <2>1, <2>2 DEF OnceInv, JobInv
  <1>6. QED
    BY <1>3, <1>4, <1>5 DEF SpecStep

LEMMA SpecStepVerdict ==
  ASSUME OneFreshSpec, FreshInv, SpecStep
  PROVE  VerdictInv'
  <1>1. StepInv /\ AskedInv /\ JobInv /\ VerdictInv
    BY DEF FreshInv, OwnJobInv
  <1>2. pc # "idle" /\ condition' = condition /\ current \in Selected
    BY <1>1, SpecStepFrame, OnlySpec
  <1>3. pc' \in {"verify", "readHC"} => condition.result = "finished"
    <2>1. CASE WaitForCuratorJob \/ Verify
      BY <1>1, <2>1 DEF WaitForCuratorJob, JobHasFinished, Verify, VerdictInv, GoTo, Conclude
    <2>2. CASE ~WaitForCuratorJob /\ ~Verify
      BY <2>2 DEF SpecStep, EnsureHostedCluster, EnsureNodePools,
         CreateOrUpdateClusterCuratorForChannelUpgrade, SetClusterCuratorUpgradeChannel,
         SetClusterCuratorUpgradeDesiredUpdateAndType, SetDesiredCuration,
         WaitTimesOut, ReadControlPlaneRelease, CallFails, Written, GoTo, Conclude
    <2>3. QED
      BY <2>1, <2>2
  <1>4. \A s \in Selected : verdict'[s] = "passed" => condition.result = "finished"
    <2>1. CASE Verify \/ ReadControlPlaneRelease
      BY <1>1, <2>1 DEF Verify, ReadControlPlaneRelease, VerdictInv
    <2>2. CASE ~Verify /\ ~ReadControlPlaneRelease
      <3>1. UNCHANGED verdict \/ Conclude("failed") \/ Conclude("skipped")
        BY <2>2 DEF SpecStep, EnsureHostedCluster, EnsureNodePools,
           CreateOrUpdateClusterCuratorForChannelUpgrade, SetClusterCuratorUpgradeChannel,
           SetClusterCuratorUpgradeDesiredUpdateAndType, SetDesiredCuration,
           WaitForCuratorJob, WaitTimesOut, CallFails, Written, GoTo
      <3>2. \A s \in Selected : verdict'[s] \in {verdict[s], "failed", "skipped"}
        BY <1>1, <3>1 DEF Conclude, StepInv, TypeOK
      <3>3. QED
        BY <1>1, <3>2 DEF VerdictInv
    <2>3. QED
      BY <2>1, <2>2
  <1>5. OwnJobAccepted'
    <2>1. CASE WaitForCuratorJob
      <3>1. condition.by = current
        BY <1>1, <1>2, <2>1 DEF WaitForCuratorJob, JobHasFinished, AskedInv, JobInv, OneFreshSpec
      <3>2. QED
        BY <1>1, <1>2, <2>1, <3>1 DEF WaitForCuratorJob, VerdictInv, OwnJobAccepted, StepInv, TypeOK
    <2>2. CASE ~WaitForCuratorJob
      <3>1. accepted' = accepted
        BY <2>2 DEF SpecStep, EnsureHostedCluster, EnsureNodePools,
           CreateOrUpdateClusterCuratorForChannelUpgrade, SetClusterCuratorUpgradeChannel,
           SetClusterCuratorUpgradeDesiredUpdateAndType, SetDesiredCuration,
           WaitTimesOut, Verify, ReadControlPlaneRelease, CallFails, Written
      <3>2. QED
        BY <1>1, <3>1 DEF VerdictInv, OwnJobAccepted
    <2>3. QED
      BY <2>1, <2>2
  <1>6. QED
    BY <1>2, <1>3, <1>4, <1>5 DEF VerdictInv

LEMMA SpecStepFresh == OneFreshSpec /\ FreshInv /\ SpecStep => FreshInv'
  BY SpecStepOwnJob, SpecStepOnceAndJob, SpecStepVerdict DEF FreshInv, OneFreshSpec

-----------------------------------------------------------------------------
(* Steps of the controller                                                 *)

\* The job changes the release of the control plane only for the spec about it.
LEMMA JobLeavesControlPlane ==
  ASSUME OneFreshSpec, FreshInv, JobUpgradesControlPlane
  PROVE  "controlPlane" \in Selected
  <1> SUFFICES ASSUME "controlPlane" \notin Selected PROVE FALSE
    OBVIOUS
  <1>1. job.running /\ job.request.desiredUpdate # NoValue
        /\ job.request.upgradeType \in {"ControlPlane", "both", NoValue}
    BY DEF JobUpgradesControlPlane, Upgrades
  <1>2. job.by \in Selected
    BY <1>1 DEF FreshInv, OwnJobInv, DoneInv, JobInv
  <1>3. job.request = Request(job.by) /\ Ready(job.by)
    BY <1>2 DEF FreshInv, OwnJobInv, DoneInv
  <1>4. CASE job.by = "channel"
    BY <1>1, <1>3, <1>4 DEF Request
  <1>5. CASE job.by = "nodePool"
    <2>1. job.request.upgradeType = "NodePools" /\ "NodePools" # NoValue
      BY <1>3, <1>5, NoValueAssumption DEF Request, Ready, Skips, SkipsNodePool, UpgradeTypes
    <2>2. QED
      BY <1>1, <2>1
  <1>6. QED
    BY <1>2, <1>4, <1>5, SelectedAssumption DEF SpecNames

LEMMA ControllerLeavesRelease ==
  ASSUME OneFreshSpec, FreshInv, ControllerStep, "controlPlane" \notin Selected
  PROVE  hostedCluster'.release = hostedCluster.release
  <1>1. ~JobUpgradesControlPlane
    BY JobLeavesControlPlane
  <1>2. CASE JobSetsChannel
    BY <1>2 DEF JobSetsChannel, FreshInv, OwnJobInv, StepInv, TypeOK, HostedClusterState
  <1>3. CASE ~JobSetsChannel
    BY <1>1, <1>3 DEF ControllerStep, LaunchJob, JobUpgradesNodePool, FinishJob, hubVars
  <1>4. QED
    BY <1>2, <1>3

\* Once the condition says that the job has finished, the controller rests.
LEMMA FinishedIsFinal ==
  ASSUME FreshInv, condition.result = "finished"
  PROVE  ~ControllerStep
  BY ControllerRests DEF FreshInv, OwnJobInv, DoneInv, JobInv

LEMMA ControllerFresh == OneFreshSpec /\ FreshInv /\ ControllerStep => FreshInv'
  <1> SUFFICES ASSUME OneFreshSpec, FreshInv, ControllerStep PROVE FreshInv'
    OBVIOUS
  <1>1. StepInv /\ DoneInv /\ OnceInv /\ JobInv /\ VerdictInv
    BY DEF FreshInv, OwnJobInv
  <1>2. /\ UNCHANGED <<curator, trigger, current, pc, todo, verdict, accepted, releaseBefore>>
    BY <1>1, ControllerFrame
  <1>3. OnceInv'
    BY <1>1, <1>2 DEF OnceInv
  <1>4. JobInv'
    <2>1. (condition.result # "absent" =>
               curator.desiredCuration = "upgrade" /\ ~unseen /\ job.by \in Selected)'
      BY <1>1, <1>2, ControllerJob DEF DoneInv, OnceInv, JobInv
    <2>2. QED
      BY <1>1, <1>2, <2>1, ControllerLeavesRelease DEF JobInv
  <1>5. VerdictInv'
    BY <1>1, <1>2, FinishedIsFinal DEF VerdictInv, OwnJobAccepted
  <1>6. QED
    BY <1>3, <1>4, <1>5, ControllerOwnJob DEF FreshInv

-----------------------------------------------------------------------------
(* The whole run                                                           *)

LEMMA StartFresh ==
  ASSUME OneFreshSpec, FreshInv, NEW s \in Selected, StartSpec(s)
  PROVE  OnceInv' /\ JobInv' /\ VerdictInv'
  <1>1. /\ pc' = "ensureHC" /\ s \in todo /\ releaseBefore' = hostedCluster.release
        /\ UNCHANGED <<verdict, accepted, curator, trigger, unseen, job, condition, hostedCluster>>
    BY DEF StartSpec, curatorVars, controllerVars, hubVars
  <1>2. curator.desiredCuration # "upgrade" /\ condition.result = "absent"
    BY <1>1 DEF FreshInv, OnceInv, JobInv
  <1>3. QED
    BY <1>1, <1>2 DEF FreshInv, OnceInv, JobInv, VerdictInv, OwnJobAccepted

LEMMA StutterFresh ==
  ASSUME FreshInv, UNCHANGED vars
  PROVE  OnceInv' /\ JobInv' /\ VerdictInv'
  <1>1. UNCHANGED <<todo, pc, verdict, releaseBefore, accepted, curator, trigger, unseen,
                    job, condition, hostedCluster>>
    BY DEF vars, specVars, curatorVars, controllerVars, hubVars
  <1>2. QED
    BY <1>1 DEF FreshInv, OnceInv, JobInv, VerdictInv, OwnJobAccepted

LEMMA FreshInvariant ==
  ASSUME OneFreshSpec
  PROVE  Spec => []FreshInv
  <1>1. Init => FreshInv
    BY InitFresh
  <1>2. FreshInv /\ OwnJobInv' /\ [Next]_vars => FreshInv'
    BY StartFresh, SpecStepFresh, ControllerFresh, StutterFresh DEF Next, Finished, FreshInv
  <1>3. ReplacesSpec
    BY DEF OneFreshSpec
  <1>4. Spec => []OwnJobInv
    BY <1>3, OwnJobInvariant
  <1>5. QED
    BY <1>1, <1>2, <1>4, PTL DEF Spec

\* The job that has finished is the one of the selected spec.
LEMMA FinishedJobUpgraded ==
  ASSUME OneFreshSpec, FreshInv, condition.result = "finished", NEW s \in Selected
  PROVE  CarriedOut(s)
  BY DEF FreshInv, OwnJobInv, DoneInv, JobInv, OneFreshSpec

\* One spec on a fresh hub ends its wait for clustercurator-job
\* (hcp_channel_upgrade_test.go:62) because of its own job.
THEOREM FreshSpecAcceptsItsJob ==
  ASSUME OneFreshSpec
  PROVE  Spec => []OwnJobAccepted
  <1>1. FreshInv => OwnJobAccepted
    BY DEF FreshInv, VerdictInv
  <1>2. QED
    BY <1>1, FreshInvariant, PTL

\* Its verification after the wait then finds the upgrade on the hub: the job
\* has done what the spec asked for, and nothing changes the hub afterwards.
THEOREM FreshSpecRaisesNoFalseAlarm ==
  ASSUME OneFreshSpec
  PROVE  Spec => []NoFalseAlarm
  <1>1. FreshInv => NoFalseAlarm
    <2> SUFFICES ASSUME FreshInv, pc = "verify" PROVE Reflects(current, hostedCluster, nodePools)
      BY DEF NoFalseAlarm
    <2>1. current \in Selected /\ Ready(current) /\ CarriedOut(current)
      BY OnlySpec, FinishedJobUpgraded DEF FreshInv, OwnJobInv, ReadyInv, VerdictInv
    <2>2. CASE current = "channel"
      BY <2>1, <2>2 DEF Reflects, ChannelReflected, CarriedOut
    <2>3. CASE current \in {"controlPlane", "nodePool"}
      <3>1. ReleaseMatches(DesiredUpdate)
        BY <2>1, <2>3, OptionsAssumption, ContainsAssumption
           DEF ReleaseMatches, Ready, Skips, SkipsControlPlane, SkipsNodePool
      <3>2. QED
        BY <2>1, <2>3, <3>1 DEF Reflects, ControlPlaneReflected, NodePoolsReflected, CarriedOut, Ready
    <2>4. QED
      BY <2>1, <2>2, <2>3, SelectedAssumption DEF SpecNames
  <1>2. QED
    BY <1>1, FreshInvariant, PTL

\* The node pool spec and the channel spec, alone on a fresh hub, pass without
\* the release of the control plane having changed: the node pool spec never
\* compares it (hcp_nodepool_upgrade_test.go:94).
THEOREM FreshSpecLeavesControlPlane ==
  ASSUME OneFreshSpec
  PROVE  Spec => []ControlPlaneUntouched
  <1>1. FreshInv => ControlPlaneUntouched
    BY DEF FreshInv, JobInv, ControlPlaneUntouched, OneFreshSpec
  <1>2. QED
    BY <1>1, FreshInvariant, PTL

\* The substring comparison of versions (hcp_nodepool_upgrade_test.go:87) lets no
\* other version pass: the job the wait is about has written the desired one.
THEOREM FreshSpecPassesOnDesiredVersion ==
  ASSUME OneFreshSpec
  PROVE  Spec => []PassedOnDesiredVersion
  <1>1. FreshInv => PassedOnDesiredVersion
    BY FinishedJobUpgraded DEF FreshInv, VerdictInv, PassedOnDesiredVersion, CarriedOut
  <1>2. QED
    BY <1>1, FreshInvariant, PTL
================================================================================
