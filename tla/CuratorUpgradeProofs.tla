-------------------------- MODULE CuratorUpgradeProofs --------------------------
(***************************************************************************)
(* Theorems about CuratorUpgrade, for every selection of specs, every set  *)
(* of channels, versions and node pools, and every value of the options.   *)
(***************************************************************************)
EXTENDS CuratorUpgrade, FiniteSetTheorems, TLAPS

LEMMA NoneIsNoSpec == "none" \notin Selected /\ "earlier" \notin Selected
  BY SelectedAssumption DEF SpecNames

LEMMA RequestType == \A s \in Selected : Request(s) \in Requests
  BY OptionsAssumption DEF Request, Requests

LEMMA NoRequestType == NoRequest \in Requests
  BY DEF NoRequest, Requests

\* Which steps belong to which spec, and that a spec under way has no verdict.
Scheduling ==
    /\ current = "none" <=> pc = "idle"
    /\ \A s \in Selected : s = current \/ s \in todo => verdict[s] = "none"
    /\ current \notin todo
    /\ pc = "setChannel" => current # "nodePool"
    /\ pc = "setUpdate" => current # "channel"
    /\ pc = "readHC" => current = "nodePool"

StepInv == TypeOK /\ Scheduling

LEMMA InitStepInv == Init => StepInv
  <1> SUFFICES ASSUME Init PROVE StepInv
    OBVIOUS
  <1> USE NoRequestType, NoneIsNoSpec
  <1>1. Scheduling
    BY DEF Init, Scheduling
  <1>2. CASE NothingLeft
    <2>1. /\ curator \in Curators
          /\ job \in [running : BOOLEAN, by : Owners, request : Requests]
          /\ condition \in [result : {"absent", "active", "finished", "failed"}, by : Owners]
      BY <1>2 DEF NothingLeft, Curators, NoCurator, NoJob, Owners
    <2>2. QED
      BY <2>1, <1>1 DEF Init, StepInv, TypeOK, Owners, Verdicts, HostedClusterState, Steps
  <1>3. CASE LeftByEarlierRun
    <2>1. /\ curator \in Curators
          /\ job \in [running : BOOLEAN, by : Owners, request : Requests]
          /\ condition \in [result : {"absent", "active", "finished", "failed"}, by : Owners]
      BY <1>3 DEF LeftByEarlierRun, Curators, Owners
    <2>2. QED
      BY <2>1, <1>1 DEF Init, StepInv, TypeOK, Owners, Verdicts, HostedClusterState, Steps
  <1>4. QED
    BY <1>2, <1>3 DEF Init

\* The part of a step that concerns the test process.
ProcessOK ==
    /\ Scheduling'
    /\ todo' = todo /\ current' \in {current, "none"} /\ pc' \in Steps
    /\ verdict' \in [Selected -> Verdicts]
    /\ releaseBefore' = releaseBefore

\* A spec that ends with verdict v leaves the schedule in order.
LEMMA ConcludeKeepsSchedule ==
  ASSUME StepInv, pc # "idle", NEW v \in Verdicts, Conclude(v)
  PROVE  ProcessOK
  <1>1. current \in Selected
    BY DEF StepInv, Scheduling, TypeOK
  <1>2. QED
    BY <1>1, NoneIsNoSpec DEF StepInv, Scheduling, TypeOK, Conclude, ProcessOK, Steps

\* A spec that goes on to a step of its own leaves the schedule in order.
LEMMA GoToKeepsSchedule ==
  ASSUME StepInv, pc # "idle", NEW step \in Steps \ {"idle"}, GoTo(step),
         step = "setChannel" => current # "nodePool",
         step = "setUpdate" => current # "channel",
         step = "readHC" => current = "nodePool"
  PROVE  ProcessOK
  BY DEF StepInv, Scheduling, TypeOK, GoTo, ProcessOK

LEMMA WriteCuratorType ==
  ASSUME StepInv, NEW new \in Curators, WriteCurator(new)
  PROVE  curator' \in Curators /\ unseen' \in BOOLEAN
  BY DEF StepInv, TypeOK, WriteCurator

\* Steps of the spec under way.
LEMMA SpecStepInv == StepInv /\ SpecStep => StepInv'
  <1> SUFFICES ASSUME StepInv, SpecStep PROVE StepInv'
    OBVIOUS
  <1> USE NoneIsNoSpec
  <1>0. pc # "idle" /\ current \in Selected
    BY DEF StepInv, Scheduling, TypeOK, SpecStep, EnsureHostedCluster, EnsureNodePools,
           CreateOrUpdateClusterCuratorForChannelUpgrade, SetClusterCuratorUpgradeChannel,
           SetClusterCuratorUpgradeDesiredUpdateAndType, SetDesiredCuration,
           WaitForCuratorJob, WaitTimesOut, Verify, ReadControlPlaneRelease, CallFails
  <1>1. ASSUME ProcessOK, UNCHANGED <<accepted, curatorVars, controllerVars, hubVars>>
        PROVE  StepInv'
    BY <1>1 DEF ProcessOK, StepInv, TypeOK, curatorVars, controllerVars, hubVars
  <1>2. ASSUME ProcessOK, UNCHANGED <<accepted, controllerVars, hubVars>>,
               curator' \in Curators, unseen' \in BOOLEAN, trigger' \in Owners
        PROVE  StepInv'
    BY <1>2 DEF ProcessOK, StepInv, TypeOK, controllerVars, hubVars
  <1>3. CASE EnsureHostedCluster
    <2>1. ProcessOK
      <3>1. CASE Conclude("failed") \/ Conclude("skipped")
        BY <1>0, <3>1, ConcludeKeepsSchedule DEF Verdicts
      <3>2. CASE GoTo(IF current = "nodePool" THEN "listNodePools" ELSE "createCurator")
        BY <1>0, <3>2, GoToKeepsSchedule DEF Steps
      <3>3. QED
        BY <1>3, <3>1, <3>2 DEF EnsureHostedCluster
    <2>2. QED
      BY <1>1, <1>3, <2>1 DEF EnsureHostedCluster
  <1>4. CASE EnsureNodePools
    <2>1. ProcessOK
      <3>1. CASE Conclude("failed")
        BY <1>0, <3>1, ConcludeKeepsSchedule DEF Verdicts
      <3>2. CASE GoTo("createCurator")
        BY <1>0, <3>2, GoToKeepsSchedule DEF Steps
      <3>3. QED
        BY <1>4, <3>1, <3>2 DEF EnsureNodePools
    <2>2. QED
      BY <1>1, <1>4, <2>1 DEF EnsureNodePools
  <1>5. CASE CreateOrUpdateClusterCuratorForChannelUpgrade
    <2>1. ProcessOK
      <3>1. CASE Conclude("failed")
        BY <1>0, <3>1, ConcludeKeepsSchedule DEF Verdicts
      <3>2. CASE GoTo(IF current = "nodePool" THEN "setUpdate" ELSE "setChannel")
        BY <1>0, <3>2, GoToKeepsSchedule DEF Steps, ConfigSteps
      <3>3. QED
        BY <1>5, <3>1, <3>2 DEF CreateOrUpdateClusterCuratorForChannelUpgrade, Written
    <2>2. curator' \in Curators /\ unseen' \in BOOLEAN
      <3>1. [NoCurator EXCEPT !.exists = TRUE] \in Curators
        BY NoRequestType DEF NoCurator, Curators
      <3>2. QED
        BY <1>5, <3>1, WriteCuratorType
           DEF CreateOrUpdateClusterCuratorForChannelUpgrade, StepInv, TypeOK
    <2>3. QED
      BY <1>2, <1>5, <2>1, <2>2
         DEF CreateOrUpdateClusterCuratorForChannelUpgrade, Written, StepInv, TypeOK
  <1>6. CASE SetClusterCuratorUpgradeChannel
    <2>1. ProcessOK
      <3>1. CASE Conclude("failed")
        BY <1>0, <3>1, ConcludeKeepsSchedule DEF Verdicts
      <3>2. CASE GoTo(IF current = "channel" THEN "setCuration" ELSE "setUpdate")
        BY <1>0, <3>2, GoToKeepsSchedule DEF Steps, ConfigSteps
      <3>3. QED
        BY <1>6, <3>1, <3>2 DEF SetClusterCuratorUpgradeChannel, Written
    <2>2. curator' \in Curators /\ unseen' \in BOOLEAN
      <3>1. [curator EXCEPT !.upgrade.channel = TestChannel] \in Curators
        BY OptionsAssumption DEF Curators, Requests, StepInv, TypeOK
      <3>2. QED
        BY <1>6, <3>1, WriteCuratorType
           DEF SetClusterCuratorUpgradeChannel, StepInv, TypeOK
    <2>3. QED
      BY <1>2, <1>6, <2>1, <2>2 DEF SetClusterCuratorUpgradeChannel, Written, StepInv, TypeOK
  <1>7. CASE SetClusterCuratorUpgradeDesiredUpdateAndType
    <2>1. ProcessOK
      <3>1. CASE Conclude("failed")
        BY <1>0, <3>1, ConcludeKeepsSchedule DEF Verdicts
      <3>2. CASE GoTo("setCuration")
        BY <1>0, <3>2, GoToKeepsSchedule DEF Steps, ConfigSteps
      <3>3. QED
        BY <1>7, <3>1, <3>2 DEF SetClusterCuratorUpgradeDesiredUpdateAndType, Written
    <2>2. curator' \in Curators /\ unseen' \in BOOLEAN
      <3>1. [curator EXCEPT !.upgrade.desiredUpdate = DesiredUpdate,
                            !.upgrade.upgradeType = UpgradeType] \in Curators
        BY OptionsAssumption DEF Curators, Requests, StepInv, TypeOK
      <3>2. QED
        BY <1>7, <3>1, WriteCuratorType DEF SetClusterCuratorUpgradeDesiredUpdateAndType
    <2>3. QED
      BY <1>2, <1>7, <2>1, <2>2
         DEF SetClusterCuratorUpgradeDesiredUpdateAndType, Written, StepInv, TypeOK
  <1>8. CASE SetDesiredCuration
    <2>1. ProcessOK
      <3>1. CASE Conclude("failed")
        BY <1>0, <3>1, ConcludeKeepsSchedule DEF Verdicts
      <3>2. CASE GoTo("waitJob")
        BY <1>0, <3>2, GoToKeepsSchedule DEF Steps, ConfigSteps
      <3>3. QED
        BY <1>8, <3>1, <3>2 DEF SetDesiredCuration, Written
    <2>2. curator' \in Curators /\ unseen' \in BOOLEAN
      <3>1. [curator EXCEPT !.desiredCuration = "upgrade"] \in Curators
        BY DEF Curators, StepInv, TypeOK
      <3>2. QED
        BY <1>8, <3>1, WriteCuratorType DEF SetDesiredCuration
    <2>3. QED
      BY <1>0, <1>2, <1>8, <2>1, <2>2 DEF SetDesiredCuration, Written, Owners
  <1>9. CASE WaitForCuratorJob
    <2>1. ProcessOK
      BY <1>0, <1>9, GoToKeepsSchedule DEF Steps, WaitForCuratorJob
    <2>2. accepted' \in [Selected -> Owners \cup {"none"}]
      BY <1>9 DEF WaitForCuratorJob, StepInv, TypeOK
    <2>3. QED
      BY <1>9, <2>1, <2>2
         DEF WaitForCuratorJob, ProcessOK, StepInv, TypeOK, curatorVars, controllerVars, hubVars
  <1>10. CASE WaitTimesOut
    BY <1>0, <1>1, <1>10, ConcludeKeepsSchedule DEF WaitTimesOut, Verdicts
  <1>11. CASE Verify
    <2>1. ProcessOK
      <3>1. CASE Conclude("failed") \/ Conclude("passed")
        BY <1>0, <3>1, ConcludeKeepsSchedule DEF Verdicts
      <3>2. CASE current = "nodePool" /\ GoTo("readHC")
        BY <1>0, <3>2, GoToKeepsSchedule DEF Steps
      <3>3. QED
        BY <1>11, <3>1, <3>2 DEF Verify
    <2>2. QED
      BY <1>1, <1>11, <2>1 DEF Verify
  <1>12. CASE ReadControlPlaneRelease
    BY <1>0, <1>1, <1>12, ConcludeKeepsSchedule DEF ReadControlPlaneRelease, Verdicts
  <1>13. CASE CallFails
    BY <1>0, <1>1, <1>13, ConcludeKeepsSchedule DEF CallFails, Verdicts
  <1>14. QED
    BY <1>3, <1>4, <1>5, <1>6, <1>7, <1>8, <1>9, <1>10, <1>11, <1>12, <1>13 DEF SpecStep

\* Steps of the controller leave the test process alone.
LEMMA ControllerStepInv == StepInv /\ ControllerStep => StepInv'
  <1> SUFFICES ASSUME StepInv, ControllerStep PROVE StepInv'
    OBVIOUS
  <1>1. ASSUME UNCHANGED specVars, UNCHANGED curator, UNCHANGED trigger, unseen' \in BOOLEAN,
               job' \in [running : BOOLEAN, by : Owners, request : Requests],
               condition' \in [result : {"absent", "active", "finished", "failed"}, by : Owners],
               hostedCluster' \in HostedClusterState, nodePools' \in NodePoolStates
        PROVE  StepInv'
    BY <1>1 DEF StepInv, TypeOK, Scheduling, specVars
  <1>2. CASE LaunchJob
    BY <1>1, <1>2 DEF LaunchJob, StepInv, TypeOK, Curators, hubVars
  <1>3. CASE JobSetsChannel
    <2>1. hostedCluster' \in HostedClusterState
      BY <1>3 DEF JobSetsChannel, StepInv, TypeOK, HostedClusterState, Requests
    <2>2. QED
      BY <1>1, <1>3, <2>1 DEF JobSetsChannel, StepInv, TypeOK, curatorVars, controllerVars
  <1>4. CASE JobUpgradesControlPlane
    <2>1. hostedCluster' \in HostedClusterState
      BY <1>4 DEF JobUpgradesControlPlane, Upgrades, StepInv, TypeOK, HostedClusterState, Requests
    <2>2. QED
      BY <1>1, <1>4, <2>1
         DEF JobUpgradesControlPlane, StepInv, TypeOK, curatorVars, controllerVars
  <1>5. ASSUME NEW n \in DOMAIN nodePools, JobUpgradesNodePool(n) PROVE StepInv'
    <2>1. job.request.desiredUpdate \in Versions
      BY <1>5 DEF JobUpgradesNodePool, Upgrades, StepInv, TypeOK, Requests
    <2>2. PICK P \in SUBSET NodePools : nodePools \in [P -> Versions]
      BY DEF StepInv, TypeOK, NodePoolStates
    <2>3. nodePools' \in [P -> Versions]
      BY <1>5, <2>1, <2>2 DEF JobUpgradesNodePool
    <2>4. nodePools' \in NodePoolStates
      BY <2>3 DEF NodePoolStates
    <2>5. QED
      BY <1>1, <1>5, <2>4 DEF JobUpgradesNodePool, StepInv, TypeOK, curatorVars, controllerVars
  <1>6. ASSUME NEW result \in {"finished", "failed"}, FinishJob(result) PROVE StepInv'
    BY <1>1, <1>6 DEF FinishJob, StepInv, TypeOK, curatorVars, hubVars
  <1>7. QED
    BY <1>2, <1>3, <1>4, <1>5, <1>6 DEF ControllerStep

LEMMA NextStepInv == StepInv /\ [Next]_vars => StepInv'
  <1> SUFFICES ASSUME StepInv, [Next]_vars PROVE StepInv'
    OBVIOUS
  <1>1. ASSUME NEW s \in Selected, StartSpec(s) PROVE StepInv'
    BY <1>1, NoneIsNoSpec
       DEF StepInv, TypeOK, Scheduling, StartSpec, curatorVars, controllerVars, hubVars,
           Steps, HostedClusterState
  <1>2. CASE UNCHANGED vars
    BY <1>2 DEF StepInv, TypeOK, Scheduling, vars, specVars, curatorVars, controllerVars, hubVars
  <1>3. QED
    BY <1>1, <1>2, SpecStepInv, ControllerStepInv DEF Next, Finished

LEMMA StepInvariant == Spec => []StepInv
  <1>1. QED
    BY InitStepInv, NextStepInv, PTL DEF Spec

\* Every reachable state is well typed: no interleaving of the specs with the
\* controller writes a value the ClusterCurator or the hub cannot hold.
THEOREM TypeCorrect == Spec => []TypeOK
  <1>1. StepInv => TypeOK
    BY DEF StepInv
  <1>2. QED
    BY <1>1, StepInvariant, PTL

-----------------------------------------------------------------------------
\* Between the reset of the resource and its last write, desiredCuration is
\* unset, so nothing can start; and a resource that asks for an upgrade the
\* controller has not seen yet carries one spec's whole request.
RequestInv ==
    /\ pc \in ConfigSteps => curator.desiredCuration = "unset"
    /\ pc = "setChannel" => curator.upgrade = NoRequest
    /\ pc = "setUpdate" => curator.upgrade =
            [NoRequest EXCEPT !.channel = IF current = "nodePool" THEN NoValue ELSE TestChannel]
    /\ pc = "setCuration" => curator.upgrade = Request(current)
    /\ curator.desiredCuration = "upgrade" /\ unseen =>
            trigger \in Selected /\ curator.upgrade = Request(trigger)

\* Steps that leave the resource alone and begin no write.
LEMMA QuietStepKeepsRequestInv ==
  ASSUME RequestInv, UNCHANGED curator, UNCHANGED trigger, UNCHANGED current \/ pc' = "idle",
         pc' \in ConfigSteps => UNCHANGED <<pc, current>>, unseen' => unseen
  PROVE  RequestInv'
  BY DEF RequestInv, Request, ConfigSteps

LEMMA SpecStepRequestInv ==
  ASSUME ReplacesSpec, StepInv, RequestInv, SpecStep
  PROVE  RequestInv'
  <1>0. current \in Selected /\ pc # "idle" /\ Selected \subseteq SpecNames
    BY SelectedAssumption, NoneIsNoSpec
       DEF StepInv, Scheduling, TypeOK, SpecStep, EnsureHostedCluster, EnsureNodePools,
           CreateOrUpdateClusterCuratorForChannelUpgrade, SetClusterCuratorUpgradeChannel,
           SetClusterCuratorUpgradeDesiredUpdateAndType, SetDesiredCuration,
           WaitForCuratorJob, WaitTimesOut, Verify, ReadControlPlaneRelease, CallFails
  <1>1. CASE EnsureHostedCluster \/ EnsureNodePools \/ WaitForCuratorJob \/ WaitTimesOut
             \/ Verify \/ ReadControlPlaneRelease \/ CallFails
    <2>1. UNCHANGED curatorVars /\ pc' \notin ConfigSteps
          /\ (UNCHANGED current \/ pc' = "idle")
      BY <1>1 DEF EnsureHostedCluster, EnsureNodePools, WaitForCuratorJob, WaitTimesOut, Verify,
                  ReadControlPlaneRelease, CallFails, GoTo, Conclude, ConfigSteps
    <2>2. QED
      BY <2>1, QuietStepKeepsRequestInv DEF curatorVars
  <1>2. CASE CreateOrUpdateClusterCuratorForChannelUpgrade
    <2>1. curator' = [NoCurator EXCEPT !.exists = TRUE]
      BY <1>2 DEF CreateOrUpdateClusterCuratorForChannelUpgrade, WriteCurator
    <2>2. curator'.desiredCuration = "unset" /\ curator'.upgrade = NoRequest
      BY <2>1 DEF NoCurator
    <2>3. pc' = "idle" \/ (current' = current
               /\ pc' = IF current = "nodePool" THEN "setUpdate" ELSE "setChannel")
      BY <1>2 DEF CreateOrUpdateClusterCuratorForChannelUpgrade, Written, GoTo, Conclude
    <2>4. pc' = "setUpdate" =>
            NoRequest = [NoRequest EXCEPT !.channel =
                            IF current' = "nodePool" THEN NoValue ELSE TestChannel]
      BY <2>3 DEF NoRequest
    <2>5. QED
      BY <2>2, <2>3, <2>4 DEF RequestInv, ConfigSteps
  <1>3. CASE SetClusterCuratorUpgradeChannel
    <2>1. CASE TestChannel = NoValue
      <3>1. UNCHANGED <<curator, trigger, unseen>> /\ pc' = "idle"
        BY <1>3, <2>1 DEF SetClusterCuratorUpgradeChannel, Conclude
      <3>2. QED
        BY <3>1, QuietStepKeepsRequestInv DEF ConfigSteps
    <2>2. CASE TestChannel # NoValue
      <3>1. curator' = [curator EXCEPT !.upgrade.channel = TestChannel]
        BY <1>3, <2>2 DEF SetClusterCuratorUpgradeChannel, WriteCurator
      <3>2. curator'.desiredCuration = "unset"
            /\ curator'.upgrade = [NoRequest EXCEPT !.channel = TestChannel]
        BY <1>3, <3>1
           DEF SetClusterCuratorUpgradeChannel, RequestInv, ConfigSteps, StepInv, TypeOK, Curators
      <3>3. pc' = "idle" \/ (current' = current
                 /\ pc' = IF current = "channel" THEN "setCuration" ELSE "setUpdate")
        BY <1>3, <2>2 DEF SetClusterCuratorUpgradeChannel, Written, GoTo, Conclude
      <3>4. current # "nodePool"
        BY <1>3 DEF SetClusterCuratorUpgradeChannel, StepInv, Scheduling
      <3>5. Request("channel") = [NoRequest EXCEPT !.channel = TestChannel]
        BY DEF Request, NoRequest
      <3>6. QED
        BY <3>2, <3>3, <3>4, <3>5 DEF RequestInv, ConfigSteps
    <2>3. QED
      BY <2>1, <2>2
  <1>4. CASE SetClusterCuratorUpgradeDesiredUpdateAndType
    <2>1. curator' = [curator EXCEPT !.upgrade.desiredUpdate = DesiredUpdate,
                                     !.upgrade.upgradeType = UpgradeType]
      BY <1>4 DEF SetClusterCuratorUpgradeDesiredUpdateAndType, WriteCurator
    <2>2. current # "channel" /\ pc = "setUpdate"
      BY <1>4 DEF SetClusterCuratorUpgradeDesiredUpdateAndType, StepInv, Scheduling
    <2>3. curator'.desiredCuration = "unset"
      BY <2>1, <2>2 DEF RequestInv, ConfigSteps, StepInv, TypeOK, Curators
    <2>4. curator.upgrade = [NoRequest EXCEPT
            !.channel = IF current = "nodePool" THEN NoValue ELSE TestChannel]
      BY <2>2 DEF RequestInv
    <2>5. curator'.upgrade = [curator.upgrade EXCEPT !.desiredUpdate = DesiredUpdate,
                                                     !.upgradeType = UpgradeType]
      BY <2>1 DEF StepInv, TypeOK, Curators, Requests
    <2>6. curator'.upgrade = Request(current)
      BY <2>2, <2>4, <2>5 DEF Request, NoRequest
    <2>7. pc' = "idle" \/ (current' = current /\ pc' = "setCuration")
      BY <1>4 DEF SetClusterCuratorUpgradeDesiredUpdateAndType, Written, GoTo, Conclude
    <2>8. QED
      BY <2>3, <2>6, <2>7 DEF RequestInv, ConfigSteps
  <1>5. CASE SetDesiredCuration
    <2>1. curator'.upgrade = Request(current) /\ trigger' = current
      BY <1>5 DEF SetDesiredCuration, WriteCurator, RequestInv, StepInv, TypeOK, Curators
    <2>2. pc' \notin ConfigSteps
      BY <1>5 DEF SetDesiredCuration, Written, GoTo, Conclude, ConfigSteps
    <2>3. QED
      BY <1>0, <2>1, <2>2 DEF RequestInv, ConfigSteps
  <1>6. QED
    BY <1>1, <1>2, <1>3, <1>4, <1>5 DEF SpecStep

LEMMA ControllerStepQuiet ==
  ASSUME ControllerStep
  PROVE  UNCHANGED <<curator, trigger, current, pc, todo, verdict>> /\ (unseen' => unseen)
  BY DEF ControllerStep, LaunchJob, JobSetsChannel, JobUpgradesControlPlane, JobUpgradesNodePool,
         FinishJob, specVars, curatorVars

LEMMA NextRequestInv ==
  ASSUME ReplacesSpec, StepInv, RequestInv, [Next]_vars
  PROVE  RequestInv'
  <1>1. ASSUME NEW s \in Selected, StartSpec(s) PROVE RequestInv'
    BY <1>1 DEF StartSpec, RequestInv, ConfigSteps, curatorVars
  <1>2. CASE SpecStep
    BY <1>2, SpecStepRequestInv
  <1>3. CASE ControllerStep
    BY <1>3, ControllerStepQuiet, QuietStepKeepsRequestInv
  <1>4. CASE UNCHANGED vars
    BY <1>4, QuietStepKeepsRequestInv DEF vars, specVars, curatorVars
  <1>5. QED
    BY <1>1, <1>2, <1>3, <1>4 DEF Next, Finished

\* Only the controller changes the job.
LEMMA JobStartsByLaunch ==
  ASSUME StepInv, [Next]_vars, JobStarts
  PROVE  LaunchJob
  <1>1. ASSUME UNCHANGED job PROVE FALSE
    BY <1>1 DEF JobStarts
  <1>2. ~ \E s \in Selected : StartSpec(s)
    BY <1>1 DEF StartSpec, controllerVars
  <1>3. ~ SpecStep
    BY <1>1 DEF SpecStep, EnsureHostedCluster, EnsureNodePools,
           CreateOrUpdateClusterCuratorForChannelUpgrade, SetClusterCuratorUpgradeChannel,
           SetClusterCuratorUpgradeDesiredUpdateAndType, SetDesiredCuration, WaitForCuratorJob,
           WaitTimesOut, Verify, ReadControlPlaneRelease, CallFails, controllerVars
  <1>4. ~ UNCHANGED vars
    BY <1>1 DEF vars, controllerVars
  <1>5. ControllerStep
    BY <1>2, <1>3, <1>4 DEF Next, Finished
  <1>6. QED
    BY <1>1, <1>5 DEF ControllerStep, JobSetsChannel, JobUpgradesControlPlane,
           JobUpgradesNodePool, FinishJob, JobStarts, controllerVars, StepInv, TypeOK

\* With an applier that replaces .spec, every job starts from the whole request
\* of one spec: never from a half-written resource, and never from a mixture of
\* two specs' fields (the order of the writes in the three upgrade specs).
THEOREM RequestsAreWhole ==
  ASSUME ReplacesSpec
  PROVE  Spec => JobCarriesRequest
  <1>1. Init => RequestInv
    BY DEF Init, RequestInv, ConfigSteps
  <1>2. StepInv /\ RequestInv /\ [Next]_vars => RequestInv'
    BY NextRequestInv
  <1>3. StepInv /\ RequestInv /\ [Next]_vars =>
          [JobStarts => /\ pc \notin ConfigSteps
                        /\ job'.by \in Selected
                        /\ job'.request = Request(job'.by)]_vars
    <2> SUFFICES ASSUME StepInv, RequestInv, [Next]_vars, JobStarts
                 PROVE  /\ pc \notin ConfigSteps
                        /\ job'.by \in Selected
                        /\ job'.request = Request(job'.by)
      OBVIOUS
    <2>1. LaunchJob
      BY JobStartsByLaunch
    <2>2. QED
      BY <2>1 DEF LaunchJob, RequestInv
  <1>4. QED
    BY <1>1, <1>2, <1>3, StepInvariant, PTL DEF Spec, JobCarriesRequest

-----------------------------------------------------------------------------
\* The phases of the contract, as the specs show them.
Phase == [s \in Selected |-> PhaseOf(s)]

LEMMA InitRefines == Init => Contract!ContractInit
  BY NoneIsNoSpec DEF Init, Contract!ContractInit, PhaseOf

\* Where the spec under way was before a step, and what its end changes.
LEMMA RunningPhase ==
  ASSUME StepInv, pc # "idle"
  PROVE  /\ current \in Selected
         /\ pc = "readHC" => PhaseOf(current) = "observed"
         /\ pc # "readHC" => PhaseOf(current) = "running"
  BY DEF StepInv, TypeOK, Scheduling, PhaseOf

LEMMA ConcludePhase ==
  ASSUME StepInv, pc # "idle", NEW v \in {"passed", "failed", "skipped"}, Conclude(v)
  PROVE  Phase' = [Phase EXCEPT ![current] = v]
  <1>1. current \in Selected
    BY RunningPhase
  <1>2. ASSUME NEW s \in Selected PROVE Phase'[s] = [Phase EXCEPT ![current] = v][s]
    BY <1>1, <1>2, NoneIsNoSpec DEF Phase, PhaseOf, Conclude, StepInv, TypeOK
  <1>3. QED
    BY <1>2 DEF Phase

\* A step of the spec under way that neither ends it nor observes the hub.
LEMMA QuietPhase ==
  ASSUME pc # "readHC", pc' # "readHC", UNCHANGED <<current, verdict>>
  PROVE  Phase' = Phase
  BY DEF Phase, PhaseOf

LEMMA SpecStepRefines ==
  ASSUME StepInv, SpecStep
  PROVE  [Contract!ContractNext]_(Contract!contractVars)
  <1> USE DEF Contract!contractVars, Contract!ContractNext
  <1>0. pc # "idle" /\ UNCHANGED hubVars
    BY DEF StepInv, Scheduling, TypeOK, SpecStep, EnsureHostedCluster, EnsureNodePools,
           CreateOrUpdateClusterCuratorForChannelUpgrade, SetClusterCuratorUpgradeChannel,
           SetClusterCuratorUpgradeDesiredUpdateAndType, SetDesiredCuration,
           WaitForCuratorJob, WaitTimesOut, Verify, ReadControlPlaneRelease, CallFails
  <1>1. ASSUME Conclude("failed") PROVE Contract!ContractNext
    <2>1. Phase' = [Phase EXCEPT ![current] = "failed"] /\ current \in Selected
          /\ Phase[current] \in {"running", "observed"}
      BY <1>0, <1>1, ConcludePhase, RunningPhase DEF Phase
    <2>2. Contract!FailSpec(current)
      BY <1>0, <2>1 DEF Contract!FailSpec, Contract!InProgress, Contract!Become,
                        Contract!HubUnchanged, hubVars, Phase
    <2>3. QED
      BY <2>1, <2>2
  <1>2. ASSUME Phase' = Phase PROVE [Contract!ContractNext]_(Contract!contractVars)
    BY <1>0, <1>2 DEF hubVars, Phase
  <1>3. CASE EnsureHostedCluster
    <2>1. CASE hostedCluster.exists /\ Skips(current) /\ Conclude("skipped")
      <3>1. Phase' = [Phase EXCEPT ![current] = "skipped"] /\ current \in Selected
            /\ Phase[current] = "running"
        BY <1>0, <1>3, <2>1, ConcludePhase, RunningPhase DEF Phase, EnsureHostedCluster
      <3>2. Contract!SkipSpec(current)
        BY <1>0, <2>1, <3>1 DEF Contract!SkipSpec, Contract!Skips, Skips,
              Contract!SkipsControlPlane, SkipsControlPlane, Contract!SkipsNodePool,
              SkipsNodePool, Contract!Become, Contract!HubUnchanged, hubVars, Phase
      <3>3. QED
        BY <3>1, <3>2
    <2>2. CASE GoTo(IF current = "nodePool" THEN "listNodePools" ELSE "createCurator")
      BY <1>2, <1>3, <2>2, QuietPhase DEF EnsureHostedCluster, GoTo
    <2>3. QED
      BY <1>1, <1>3, <2>1, <2>2 DEF EnsureHostedCluster
  <1>4. CASE EnsureNodePools
    <2>1. CASE GoTo("createCurator")
      BY <1>2, <1>4, <2>1, QuietPhase DEF EnsureNodePools, GoTo
    <2>2. QED
      BY <1>1, <1>4, <2>1 DEF EnsureNodePools
  <1>5. CASE CreateOrUpdateClusterCuratorForChannelUpgrade
    <2>1. CASE GoTo(IF current = "nodePool" THEN "setUpdate" ELSE "setChannel")
      BY <1>2, <1>5, <2>1, QuietPhase DEF CreateOrUpdateClusterCuratorForChannelUpgrade, GoTo
    <2>2. QED
      BY <1>1, <1>5, <2>1 DEF CreateOrUpdateClusterCuratorForChannelUpgrade, Written
  <1>6. CASE SetClusterCuratorUpgradeChannel
    <2>1. CASE GoTo(IF current = "channel" THEN "setCuration" ELSE "setUpdate")
      BY <1>2, <1>6, <2>1, QuietPhase DEF SetClusterCuratorUpgradeChannel, GoTo
    <2>2. QED
      BY <1>1, <1>6, <2>1 DEF SetClusterCuratorUpgradeChannel, Written
  <1>7. CASE SetClusterCuratorUpgradeDesiredUpdateAndType
    <2>1. CASE GoTo("setCuration")
      BY <1>2, <1>7, <2>1, QuietPhase DEF SetClusterCuratorUpgradeDesiredUpdateAndType, GoTo
    <2>2. QED
      BY <1>1, <1>7, <2>1 DEF SetClusterCuratorUpgradeDesiredUpdateAndType, Written
  <1>8. CASE SetDesiredCuration
    <2>1. CASE GoTo("waitJob")
      BY <1>2, <1>8, <2>1, QuietPhase DEF SetDesiredCuration, GoTo
    <2>2. QED
      BY <1>1, <1>8, <2>1 DEF SetDesiredCuration, Written
  <1>9. CASE WaitForCuratorJob
    BY <1>2, <1>9, QuietPhase DEF WaitForCuratorJob, GoTo
  <1>10. CASE WaitTimesOut \/ CallFails
    BY <1>1, <1>10 DEF WaitTimesOut, CallFails
  <1>11. CASE Verify
    <2>1. CASE ~Reflects(current, hostedCluster, nodePools)
      BY <1>1, <1>11, <2>1 DEF Verify
    <2>2. CASE Reflects(current, hostedCluster, nodePools)
      <3>1. current \in Selected /\ Phase[current] = "running"
        BY <1>0, <1>11, RunningPhase DEF Verify, Phase
      <3>2. Contract!Reflects(current, hostedCluster, nodePools)
        BY <2>2 DEF Reflects, Contract!Reflects, ChannelReflected, Contract!ChannelReflected,
              ControlPlaneReflected, Contract!ControlPlaneReflected, NodePoolsReflected,
              Contract!NodePoolsReflected, ReleaseMatches, Contract!ReleaseMatches
      <3>3. \E p \in {"observed", "passed"} : Phase' = [Phase EXCEPT ![current] = p]
        <4>1. CASE current = "nodePool" /\ GoTo("readHC")
          <5>1. ASSUME NEW s \in Selected
                PROVE  Phase'[s] = [Phase EXCEPT ![current] = "observed"][s]
            BY <1>11, <3>1, <4>1 DEF Phase, PhaseOf, GoTo, Verify, StepInv, Scheduling, TypeOK
          <5>2. Phase' = [Phase EXCEPT ![current] = "observed"]
            BY <5>1 DEF Phase
          <5>3. QED
            BY <5>2
        <4>2. CASE Conclude("passed")
          BY <1>0, <4>2, ConcludePhase
        <4>3. QED
          BY <1>11, <2>2, <4>1, <4>2 DEF Verify
      <3>4. Contract!Observe(current)
        BY <1>0, <3>1, <3>2, <3>3
           DEF Contract!Observe, Contract!Become, Contract!HubUnchanged, hubVars, Phase
      <3>5. QED
        BY <3>1, <3>4
    <2>3. QED
      BY <2>1, <2>2
  <1>12. CASE ReadControlPlaneRelease
    <2>1. Phase' = [Phase EXCEPT ![current] = "passed"] /\ current \in Selected
          /\ Phase[current] = "observed"
      BY <1>0, <1>12, ConcludePhase, RunningPhase DEF Phase, ReadControlPlaneRelease
    <2>2. Contract!PassObserved(current)
      BY <1>0, <2>1 DEF Contract!PassObserved, Contract!Become, Contract!HubUnchanged,
                        hubVars, Phase
    <2>3. QED
      BY <2>1, <2>2
  <1>13. QED
    BY <1>3, <1>4, <1>5, <1>6, <1>7, <1>8, <1>9, <1>10, <1>11, <1>12 DEF SpecStep

\* The three upgrade specs keep the contract: a spec passes only after it has
\* read, while it ran, a hub that shows the upgrade it is about.
THEOREM UpgradeImplementsContract == Spec => ImplementsContract
  <1>1. StepInv /\ [Next]_vars => [Contract!ContractNext]_(Contract!contractVars)
    <2> SUFFICES ASSUME StepInv, [Next]_vars
                 PROVE  [Contract!ContractNext]_(Contract!contractVars)
      OBVIOUS
    <2>1. ASSUME NEW s \in Selected, StartSpec(s) PROVE Contract!ContractNext
      <3>1. /\ Phase[s] = "waiting"
            /\ \A t \in Selected : Phase[t] \notin {"running", "observed"}
        BY <2>1, NoneIsNoSpec DEF StartSpec, Phase, PhaseOf, StepInv, Scheduling, TypeOK, Verdicts
      <3>2. Phase' = [Phase EXCEPT ![s] = "running"]
        <4>1. ASSUME NEW t \in Selected PROVE Phase'[t] = [Phase EXCEPT ![s] = "running"][t]
          BY <2>1, NoneIsNoSpec DEF StartSpec, Phase, PhaseOf, StepInv, Scheduling, TypeOK
        <4>2. QED
          BY <4>1 DEF Phase
      <3>3. Contract!StartSpec(s)
        BY <2>1, <3>1, <3>2 DEF Contract!StartSpec, StartSpec, Contract!InProgress,
             Contract!Become, Contract!HubUnchanged, hubVars, Phase
      <3>4. QED
        BY <3>3 DEF Contract!ContractNext
    <2>2. CASE SpecStep
      BY <2>2, SpecStepRefines
    <2>3. CASE ControllerStep
      <3>1. Phase' = Phase
        BY <2>3, ControllerStepQuiet DEF Phase, PhaseOf
      <3>2. QED
        BY <3>1 DEF Contract!ContractNext, Contract!HubChanges, Phase
    <2>4. CASE UNCHANGED vars
      BY <2>4 DEF vars, specVars, hubVars, Contract!contractVars, PhaseOf
    <2>5. QED
      BY <2>1, <2>2, <2>3, <2>4 DEF Next, Finished
  <1>2. QED
    BY <1>1, InitRefines, StepInvariant, PTL DEF Spec, ImplementsContract, Contract!ContractSpec

-----------------------------------------------------------------------------
(* The calls that are left                                                 *)

\* The calls that are left: those of the running spec, and ten and a start for each
\* that has not started.
CallsOf == [ensureHC |-> 10, listNodePools |-> 9, createCurator |-> 8, setChannel |-> 7,
            setUpdate |-> 6, setCuration |-> 5, waitJob |-> 4, verify |-> 3, readHC |-> 2,
            idle |-> 0]
CallsAhead == 11 * Cardinality(todo) + CallsOf[pc]

\* No spec starts twice, and none goes back to a call it has made: a failure is
\* final, it is never retried against what it left in the resource.
CallsRunOut ==
    [][IF SpecStep \/ \E s \in Selected : StartSpec(s)
       THEN CallsAhead' \in 0 .. (CallsAhead - 1)
       ELSE CallsAhead' = CallsAhead]_vars

LEMMA TodoIsFinite == TypeOK => IsFiniteSet(todo) /\ Cardinality(todo) \in Nat
  <1>1. IsFiniteSet({"channel"} \cup {"controlPlane"} \cup {"nodePool"})
    BY FS_Singleton, FS_Union
  <1>2. TypeOK => todo \subseteq {"channel"} \cup {"controlPlane"} \cup {"nodePool"}
    BY SelectedAssumption DEF TypeOK, SpecNames
  <1>3. QED
    BY <1>1, <1>2, FS_Subset, FS_CardinalityType

\* A spec goes forward through its calls, or ends.
LEMMA SpecGoesForward ==
  ASSUME StepInv, SpecStep
  PROVE  todo' = todo /\ CallsOf[pc] \in Nat /\ CallsOf[pc'] \in 0 .. (CallsOf[pc] - 1)
  <1> DEFINE forward == /\ todo' = todo /\ CallsOf[pc] \in Nat
                        /\ CallsOf[pc'] \in 0 .. (CallsOf[pc] - 1)
  <1>1. ASSUME pc \in Steps \ {"idle"}, todo' = todo, pc' = "idle" PROVE forward
    BY <1>1 DEF CallsOf, Steps, ConfigSteps
  <1>2. ASSUME NEW v \in Verdicts, Conclude(v) PROVE todo' = todo /\ pc' = "idle"
    BY <1>2 DEF Conclude
  <1>3. pc \in Steps
    BY DEF StepInv, TypeOK
  <1>4. CASE EnsureHostedCluster \/ EnsureNodePools
    <2>1. /\ pc \in {"ensureHC", "listNodePools"} /\ todo' = todo
          /\ \/ pc' = "idle"
             \/ pc' = "createCurator"
             \/ pc = "ensureHC" /\ pc' = "listNodePools"
      BY <1>4 DEF EnsureHostedCluster, EnsureNodePools, Conclude, GoTo
    <2>2. QED
      BY <2>1 DEF CallsOf
  <1>5. CASE CreateOrUpdateClusterCuratorForChannelUpgrade \/ SetClusterCuratorUpgradeChannel
    <2>1. /\ todo' = todo
          /\ \/ pc = "createCurator" /\ pc' \in {"idle", "setUpdate", "setChannel"}
             \/ pc = "setChannel" /\ pc' \in {"idle", "setUpdate", "setCuration"}
      BY <1>5 DEF CreateOrUpdateClusterCuratorForChannelUpgrade, SetClusterCuratorUpgradeChannel,
           Written, Conclude, GoTo
    <2>2. QED
      BY <2>1 DEF CallsOf
  <1>6. CASE SetClusterCuratorUpgradeDesiredUpdateAndType \/ SetDesiredCuration
    <2>1. /\ todo' = todo
          /\ \/ pc = "setUpdate" /\ pc' \in {"idle", "setCuration"}
             \/ pc = "setCuration" /\ pc' \in {"idle", "waitJob"}
      BY <1>6 DEF SetClusterCuratorUpgradeDesiredUpdateAndType, SetDesiredCuration,
           Written, Conclude, GoTo
    <2>2. QED
      BY <2>1 DEF CallsOf
  <1>7. CASE WaitForCuratorJob \/ WaitTimesOut
    <2>1. pc = "waitJob" /\ todo' = todo /\ pc' \in {"idle", "verify"}
      BY <1>7 DEF WaitForCuratorJob, WaitTimesOut, Conclude, GoTo
    <2>2. QED
      BY <2>1 DEF CallsOf
  <1>8. CASE Verify \/ ReadControlPlaneRelease
    <2>1. /\ todo' = todo
          /\ \/ pc = "verify" /\ pc' \in {"idle", "readHC"}
             \/ pc = "readHC" /\ pc' = "idle"
      BY <1>8 DEF Verify, ReadControlPlaneRelease, Conclude, GoTo
    <2>2. QED
      BY <2>1 DEF CallsOf
  <1>9. CASE CallFails
    BY <1>1, <1>3, <1>9 DEF CallFails, Conclude
  <1>10. QED
    BY <1>4, <1>5, <1>6, <1>7, <1>8, <1>9 DEF SpecStep

\* Whatever the controller does meanwhile, the upgrade specs make a bounded number
\* of calls: each spec starts once, and none goes back to a call it has made.
THEOREM UpgradeCallsRunOut == Spec => CallsRunOut
  <1>1. ASSUME StepInv, SpecStep PROVE CallsAhead' \in 0 .. (CallsAhead - 1)
    BY <1>1, SpecGoesForward, TodoIsFinite DEF StepInv, CallsAhead
  <1>2. ASSUME StepInv, NEW s \in Selected, StartSpec(s)
        PROVE  CallsAhead' \in 0 .. (CallsAhead - 1)
    <2>1. /\ current = "none" /\ s \in todo /\ todo' = todo \ {s} /\ pc' = "ensureHC"
      BY <1>2 DEF StartSpec
    <2>2. pc = "idle"
      BY <1>2, <2>1 DEF StepInv, Scheduling
    <2>3. IsFiniteSet(todo) /\ Cardinality(todo) \in Nat
      BY <1>2, TodoIsFinite DEF StepInv
    <2>4. Cardinality(todo') = Cardinality(todo) - 1 /\ Cardinality(todo') \in Nat
      BY <2>1, <2>3, FS_RemoveElement, FS_CardinalityType
    <2>5. QED
      BY <2>1, <2>2, <2>3, <2>4 DEF CallsAhead, CallsOf
  <1>3. ASSUME ControllerStep \/ Finished PROVE CallsAhead' = CallsAhead
    <2>1. UNCHANGED <<todo, pc>>
      BY <1>3 DEF ControllerStep, LaunchJob, JobSetsChannel, JobUpgradesControlPlane,
         JobUpgradesNodePool, FinishJob, Finished, vars, specVars
    <2>2. QED
      BY <2>1 DEF CallsAhead, CallsOf
  <1>4. StepInv /\ [Next]_vars =>
            [IF SpecStep \/ \E s \in Selected : StartSpec(s)
             THEN CallsAhead' \in 0 .. (CallsAhead - 1)
             ELSE CallsAhead' = CallsAhead]_vars
    BY <1>1, <1>2, <1>3 DEF Next
  <1>5. QED
    BY StepInvariant, <1>4, PTL DEF Spec, CallsRunOut
=================================================================================
