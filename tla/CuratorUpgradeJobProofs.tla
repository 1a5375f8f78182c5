----------------------- MODULE CuratorUpgradeJobProofs -----------------------
(***************************************************************************)
(* Theorems about which job ends the wait of an upgrade spec, for every    *)
(* selection and order of the specs, whatever curator an earlier test run  *)
(* left, and whatever the controller does meanwhile, when the applier      *)
(* replaces .spec.                                                         *)
(***************************************************************************)
EXTENDS CuratorUpgradeProofs

\* What a spec has made sure of when it writes its request.
Ready(s) ==
    /\ ~Skips(s)
    /\ s = "nodePool" => DOMAIN nodePools # {}
    /\ s # "nodePool" => TestChannel # NoValue

\* A spec makes sure of it on its way, and a request that the controller has not
\* seen comes from a spec that did.
ReadyInv ==
    /\ pc \in {"listNodePools", "createCurator", "setChannel"} => ~Skips(current)
    /\ pc \in {"createCurator", "setChannel"} /\ current = "nodePool" => DOMAIN nodePools # {}
    /\ pc \in {"setUpdate", "setCuration", "waitJob", "verify", "readHC"} => Ready(current)
    /\ unseen /\ curator.desiredCuration = "upgrade" => Ready(trigger)

\* A spec asks once: no job of its own exists before its last write, and while it
\* waits there is one exactly when the controller has reacted to that write.
AskedInv ==
    /\ trigger \notin todo /\ job.by \notin todo /\ condition.by = job.by
    /\ pc \in {"ensureHC", "listNodePools", "createCurator"} \cup ConfigSteps =>
           trigger # current /\ job.by # current
    /\ pc = "waitJob" => trigger = current /\ (unseen <=> job.by # current)

\* A job of a spec carries its request; once the condition says that it has
\* finished, its work is on the hub, and stays there while the spec looks at it.
DoneInv ==
    /\ job.running => condition.result = "active"
    /\ job.by \in Selected => job.request = Request(job.by) /\ Ready(job.by)
    /\ condition.result = "finished" /\ job.by \in Selected => CarriedOut(job.by)
    /\ pc \in {"verify", "readHC"} /\ accepted[current] = current =>
           condition.result = "finished" /\ job.by = current /\ ~unseen

OwnJobInv == StepInv /\ RequestInv /\ ReadyInv /\ AskedInv /\ DoneInv

LEMMA InitOwnJob == Init => OwnJobInv
  <1> SUFFICES ASSUME Init PROVE OwnJobInv
    OBVIOUS
  <1>1. /\ job.by = "earlier" /\ condition.by = "earlier"
        /\ job.running => condition.result = "active"
    <2>1. CASE NothingLeft
      BY <2>1 DEF NothingLeft, NoJob
    <2>2. CASE LeftByEarlierRun
      BY <2>2 DEF LeftByEarlierRun
    <2>3. QED
      BY <2>1, <2>2 DEF Init
  <1>2. StepInv /\ RequestInv
    BY InitStepInv DEF Init, RequestInv, ConfigSteps
  <1>3. ReadyInv /\ AskedInv /\ DoneInv
    BY <1>1, NoneIsNoSpec DEF Init, ReadyInv, AskedInv, DoneInv, ConfigSteps
  <1>4. QED
    BY <1>2, <1>3 DEF OwnJobInv

-----------------------------------------------------------------------------
(* Steps of the spec                                                       *)

LEMMA ReadyStays ==
  ASSUME NEW s, DOMAIN nodePools' = DOMAIN nodePools, Ready(s)
  PROVE  Ready(s)'
  BY DEF Ready, Skips, SkipsControlPlane, SkipsNodePool

\* A step of the spec moves its cursor and leaves the controller and the hub alone.
LEMMA SpecStepFrame ==
  ASSUME StepInv, SpecStep
  PROVE  /\ pc # "idle"
         /\ UNCHANGED <<job, condition, hostedCluster, nodePools, releaseBefore, todo>>
  BY DEF StepInv, Scheduling, TypeOK, SpecStep, EnsureHostedCluster, EnsureNodePools,
         CreateOrUpdateClusterCuratorForChannelUpgrade, SetClusterCuratorUpgradeChannel,
         SetClusterCuratorUpgradeDesiredUpdateAndType, SetDesiredCuration,
         WaitForCuratorJob, WaitTimesOut, Verify, ReadControlPlaneRelease, CallFails,
         Written, GoTo, Conclude, controllerVars, hubVars

\* The cursor of a spec that reads or ends.
LEMMA ReadsMove ==
  ASSUME EnsureHostedCluster \/ EnsureNodePools \/ WaitForCuratorJob \/ WaitTimesOut
         \/ Verify \/ ReadControlPlaneRelease \/ CallFails
  PROVE  /\ UNCHANGED curatorVars
         /\ \/ pc' = "idle"
            \/ /\ current' = current
               /\ \/ /\ pc = "ensureHC" /\ ~Skips(current)
                     /\ pc' = IF current = "nodePool" THEN "listNodePools" ELSE "createCurator"
                  \/ /\ pc = "listNodePools" /\ DOMAIN nodePools # {}
                     /\ pc' = "createCurator"
                  \/ pc = "waitJob" /\ WaitForCuratorJob /\ pc' = "verify"
                  \/ pc = "verify" /\ accepted' = accepted /\ pc' = "readHC"
  <1>1. CASE EnsureHostedCluster
    BY <1>1 DEF EnsureHostedCluster, GoTo, Conclude
  <1>2. CASE EnsureNodePools
    BY <1>2 DEF EnsureNodePools, GoTo, Conclude
  <1>3. CASE WaitForCuratorJob
    BY <1>3 DEF WaitForCuratorJob, GoTo
  <1>4. CASE Verify
    BY <1>4 DEF Verify, GoTo, Conclude
  <1>5. CASE WaitTimesOut \/ ReadControlPlaneRelease \/ CallFails
    BY <1>5 DEF WaitTimesOut, ReadControlPlaneRelease, CallFails, Conclude
  <1>6. QED
    BY <1>1, <1>2, <1>3, <1>4, <1>5

\* The cursor of a spec that writes the resource before its last write.
LEMMA WritesMove ==
  ASSUME StepInv, RequestInv, ReplacesSpec,
         CreateOrUpdateClusterCuratorForChannelUpgrade \/ SetClusterCuratorUpgradeChannel
         \/ SetClusterCuratorUpgradeDesiredUpdateAndType
  PROVE  /\ trigger' = trigger /\ curator'.desiredCuration = "unset"
         /\ \/ pc' = "idle"
            \/ /\ current' = current
               /\ \/ /\ pc = "createCurator"
                     /\ pc' = IF current = "nodePool" THEN "setUpdate" ELSE "setChannel"
                  \/ /\ pc = "setChannel" /\ TestChannel # NoValue
                     /\ pc' \in {"setUpdate", "setCuration"}
                  \/ pc = "setUpdate" /\ pc' = "setCuration"
  <1>1. CASE CreateOrUpdateClusterCuratorForChannelUpgrade
    <2>1. curator' = [NoCurator EXCEPT !.exists = TRUE] /\ trigger' = trigger
      BY <1>1 DEF CreateOrUpdateClusterCuratorForChannelUpgrade, WriteCurator
    <2>2. curator'.desiredCuration = "unset"
      BY <2>1 DEF NoCurator
    <2>3. QED
      BY <1>1, <2>1, <2>2
         DEF CreateOrUpdateClusterCuratorForChannelUpgrade, Written, GoTo, Conclude
  <1>2. CASE SetClusterCuratorUpgradeChannel
    <2>1. curator.desiredCuration = "unset"
      BY <1>2 DEF SetClusterCuratorUpgradeChannel, RequestInv, ConfigSteps
    <2>2. trigger' = trigger /\ curator'.desiredCuration = "unset"
      BY <1>2, <2>1 DEF SetClusterCuratorUpgradeChannel, WriteCurator, StepInv, TypeOK, Curators
    <2>3. QED
      BY <1>2, <2>2 DEF SetClusterCuratorUpgradeChannel, Written, GoTo, Conclude
  <1>3. CASE SetClusterCuratorUpgradeDesiredUpdateAndType
    <2>1. curator.desiredCuration = "unset"
      BY <1>3 DEF SetClusterCuratorUpgradeDesiredUpdateAndType, RequestInv, ConfigSteps
    <2>2. trigger' = trigger /\ curator'.desiredCuration = "unset"
      BY <1>3, <2>1
         DEF SetClusterCuratorUpgradeDesiredUpdateAndType, WriteCurator, StepInv, TypeOK, Curators
    <2>3. QED
      BY <1>3, <2>2
         DEF SetClusterCuratorUpgradeDesiredUpdateAndType, Written, GoTo, Conclude
  <1>4. QED
    BY <1>1, <1>2, <1>3

\* The last write: it always changes the resource, so the controller has
\* something to react to.
LEMMA LastWriteMoves ==
  ASSUME StepInv, RequestInv, SetDesiredCuration
  PROVE  /\ pc = "setCuration" /\ trigger' = current /\ unseen'
         /\ pc' = "idle" \/ (current' = current /\ pc' = "waitJob")
  <1>1. pc = "setCuration" /\ trigger' = current
    BY DEF SetDesiredCuration
  <1>2. unseen'
    <2>1. curator.desiredCuration = "unset"
      BY <1>1 DEF RequestInv, ConfigSteps
    <2>2. [curator EXCEPT !.desiredCuration = "upgrade"].desiredCuration = "upgrade"
      BY DEF StepInv, TypeOK, Curators
    <2>3. [curator EXCEPT !.desiredCuration = "upgrade"] # curator
      BY <2>1, <2>2
    <2>4. QED
      BY <2>3 DEF SetDesiredCuration, WriteCurator
  <1>3. QED
    BY <1>1, <1>2 DEF SetDesiredCuration, Written, GoTo, Conclude

LEMMA SpecStepReady ==
  ASSUME ReplacesSpec, StepInv, RequestInv, ReadyInv, SpecStep
  PROVE  ReadyInv'
  <1>1. pc # "idle" /\ nodePools' = nodePools
    BY SpecStepFrame
  <1>2. \A t : Ready(t) => Ready(t)'
    BY <1>1, ReadyStays
  <1>3. \A t : ~Skips(t) => ~Skips(t)'
    BY DEF Skips, SkipsControlPlane, SkipsNodePool
  <1>4. ASSUME current' = current, Ready(current) PROVE Ready(current)' /\ ~Skips(current)'
    BY <1>1, <1>4 DEF Ready, Skips, SkipsControlPlane, SkipsNodePool
  <1>5. ASSUME current' = current, ~Skips(current) PROVE ~Skips(current)'
    BY <1>5 DEF Skips, SkipsControlPlane, SkipsNodePool
  <1>6. CASE EnsureHostedCluster \/ EnsureNodePools \/ WaitForCuratorJob \/ WaitTimesOut
             \/ Verify \/ ReadControlPlaneRelease \/ CallFails
    <2>1. UNCHANGED curatorVars
      BY <1>6, ReadsMove
    <2>2. (unseen /\ curator.desiredCuration = "upgrade" => Ready(trigger))'
      <3>1. Ready(trigger) => Ready(trigger)'
        BY <1>1, <2>1 DEF Ready, Skips, SkipsControlPlane, SkipsNodePool, curatorVars
      <3>2. QED
        BY <2>1, <3>1 DEF ReadyInv, curatorVars
    <2>3. CASE pc' = "idle"
      BY <2>2, <2>3 DEF ReadyInv
    <2>4. CASE pc' # "idle"
      BY <1>1, <1>4, <1>5, <1>6, <2>2, <2>4, ReadsMove DEF ReadyInv
    <2>5. QED
      BY <2>3, <2>4
  <1>7. CASE CreateOrUpdateClusterCuratorForChannelUpgrade \/ SetClusterCuratorUpgradeChannel
             \/ SetClusterCuratorUpgradeDesiredUpdateAndType
    <2>1. (unseen /\ curator.desiredCuration = "upgrade" => Ready(trigger))'
      BY <1>7, WritesMove
    <2>2. CASE pc' = "idle"
      BY <2>1, <2>2 DEF ReadyInv
    <2>3. CASE pc = "createCurator" /\ current = "nodePool" /\ pc' # "idle"
      <3>1. current' = current /\ pc' = "setUpdate" /\ Ready(current)
        BY <1>7, <2>3, WritesMove DEF ReadyInv, Ready
      <3>2. QED
        BY <1>4, <2>1, <3>1 DEF ReadyInv
    <2>4. CASE pc = "createCurator" /\ current # "nodePool" /\ pc' # "idle"
      <3>1. current' = current /\ pc' = "setChannel" /\ ~Skips(current)
        BY <1>7, <2>4, WritesMove DEF ReadyInv
      <3>2. QED
        BY <1>5, <2>1, <2>4, <3>1 DEF ReadyInv
    <2>5. CASE pc \in {"setChannel", "setUpdate"} /\ pc' # "idle"
      <3>1. current' = current /\ pc' \in {"setUpdate", "setCuration"} /\ Ready(current)
        BY <1>7, <2>5, WritesMove DEF ReadyInv, Ready, StepInv, Scheduling
      <3>2. QED
        BY <1>4, <2>1, <3>1 DEF ReadyInv
    <2>6. QED
      BY <1>7, <2>2, <2>3, <2>4, <2>5, WritesMove
  <1>8. CASE SetDesiredCuration
    <2>1. /\ trigger' = current /\ Ready(current)
          /\ pc' = "idle" \/ (current' = current /\ pc' = "waitJob")
      BY <1>8, LastWriteMoves DEF ReadyInv
    <2>2. Ready(trigger)'
      BY <1>1, <2>1 DEF Ready, Skips, SkipsControlPlane, SkipsNodePool
    <2>3. QED
      BY <1>4, <2>1, <2>2 DEF ReadyInv
  <1>9. QED
    BY <1>6, <1>7, <1>8 DEF SpecStep

LEMMA SpecStepAsked ==
  ASSUME ReplacesSpec, StepInv, RequestInv, AskedInv, SpecStep
  PROVE  AskedInv'
  <1>1. pc # "idle" /\ UNCHANGED <<job, condition, todo>>
    BY SpecStepFrame
  <1>2. CASE EnsureHostedCluster \/ EnsureNodePools \/ WaitForCuratorJob \/ WaitTimesOut
             \/ Verify \/ ReadControlPlaneRelease \/ CallFails
    <2>1. /\ UNCHANGED <<trigger, unseen>>
          /\ \/ pc' \in {"idle", "verify", "readHC"}
             \/ /\ current' = current /\ pc \in {"ensureHC", "listNodePools"}
                /\ pc' \in {"listNodePools", "createCurator"}
      BY <1>2, ReadsMove DEF curatorVars
    <2>2. QED
      BY <1>1, <2>1 DEF AskedInv, ConfigSteps
  <1>3. CASE CreateOrUpdateClusterCuratorForChannelUpgrade \/ SetClusterCuratorUpgradeChannel
             \/ SetClusterCuratorUpgradeDesiredUpdateAndType
    <2>1. /\ trigger' = trigger
          /\ \/ pc' = "idle"
             \/ /\ current' = current /\ pc \in {"createCurator"} \cup ConfigSteps
                /\ pc' \in ConfigSteps
      BY <1>3, WritesMove DEF ConfigSteps
    <2>2. QED
      BY <1>1, <2>1 DEF AskedInv, ConfigSteps
  <1>4. CASE SetDesiredCuration
    <2>1. /\ pc = "setCuration" /\ trigger' = current /\ unseen'
          /\ pc' = "idle" \/ (current' = current /\ pc' = "waitJob")
      BY <1>4, LastWriteMoves
    <2>2. job.by # current /\ current \notin todo
      BY <2>1 DEF AskedInv, ConfigSteps, StepInv, Scheduling
    <2>3. QED
      BY <1>1, <2>1, <2>2 DEF AskedInv, ConfigSteps
  <1>5. QED
    BY <1>2, <1>3, <1>4 DEF SpecStep

LEMMA SpecStepDone ==
  ASSUME ReplacesSpec, StepInv, RequestInv, AskedInv, DoneInv, SpecStep
  PROVE  DoneInv'
  <1>1. pc # "idle" /\ UNCHANGED <<job, condition, hostedCluster, nodePools>>
    BY SpecStepFrame
  <1>2. /\ (job.running => condition.result = "active")'
        /\ (job.by \in Selected => job.request = Request(job.by) /\ Ready(job.by))'
        /\ (condition.result = "finished" /\ job.by \in Selected => CarriedOut(job.by))'
    BY <1>1 DEF DoneInv, Request, Ready, Skips, SkipsControlPlane, SkipsNodePool, CarriedOut
  <1>3. CASE EnsureHostedCluster \/ EnsureNodePools \/ WaitForCuratorJob \/ WaitTimesOut
             \/ Verify \/ ReadControlPlaneRelease \/ CallFails
    <2>1. CASE WaitForCuratorJob
      <3>1. /\ pc = "waitJob" /\ condition.result = "finished" /\ UNCHANGED <<current, unseen>>
            /\ accepted' = [accepted EXCEPT ![current] = condition.by] /\ current \in Selected
        BY <2>1, NoneIsNoSpec
           DEF WaitForCuratorJob, JobHasFinished, GoTo, curatorVars, StepInv, TypeOK, Scheduling
      <3>2. accepted'[current] = job.by
        BY <3>1 DEF AskedInv, StepInv, TypeOK
      <3>3. job.by = current => ~unseen
        BY <3>1 DEF AskedInv
      <3>4. QED
        BY <1>1, <1>2, <3>1, <3>2, <3>3 DEF DoneInv
    <2>2. CASE ~WaitForCuratorJob
      <3>1. /\ unseen' = unseen
            /\ \/ pc' \in {"idle", "listNodePools", "createCurator"}
               \/ pc = "verify" /\ UNCHANGED <<accepted, current>>
        BY <1>3, <2>2, ReadsMove DEF curatorVars
      <3>2. QED
        BY <1>1, <1>2, <3>1 DEF DoneInv
    <2>3. QED
      BY <2>1, <2>2
  <1>4. CASE CreateOrUpdateClusterCuratorForChannelUpgrade \/ SetClusterCuratorUpgradeChannel
             \/ SetClusterCuratorUpgradeDesiredUpdateAndType \/ SetDesiredCuration
    <2>1. pc' \in {"idle", "waitJob"} \cup ConfigSteps
      BY <1>4, WritesMove, LastWriteMoves DEF ConfigSteps
    <2>2. QED
      BY <1>2, <2>1 DEF DoneInv, ConfigSteps
  <1>5. QED
    BY <1>3, <1>4 DEF SpecStep

LEMMA SpecStepOwnJob == ReplacesSpec /\ OwnJobInv /\ SpecStep => OwnJobInv'
  BY SpecStepInv, SpecStepRequestInv, SpecStepReady, SpecStepAsked, SpecStepDone DEF OwnJobInv

-----------------------------------------------------------------------------
(* Steps of the controller                                                 *)

LEMMA ControllerFrame ==
  ASSUME StepInv, ControllerStep
  PROVE  UNCHANGED <<curator, trigger, current, pc, todo, verdict, accepted, releaseBefore>>
         /\ DOMAIN nodePools' = DOMAIN nodePools
  <1>1. ASSUME NEW n \in DOMAIN nodePools, JobUpgradesNodePool(n) PROVE DOMAIN nodePools' = DOMAIN nodePools
    BY <1>1 DEF JobUpgradesNodePool
  <1>2. QED
    BY <1>1 DEF ControllerStep, LaunchJob, JobSetsChannel, JobUpgradesControlPlane,
         JobUpgradesNodePool, FinishJob, specVars, curatorVars, hubVars

\* A controller that has reacted to the last write, and whose job is over, has
\* nothing to do.
LEMMA ControllerRests ==
  ASSUME ~job.running, ~unseen
  PROVE  ~ControllerStep
  BY DEF ControllerStep, LaunchJob, JobSetsChannel, JobUpgradesControlPlane,
         JobUpgradesNodePool, FinishJob, Upgrades

\* A job that has finished has done what its spec is about.
LEMMA DoneMeansCarriedOut ==
  ASSUME job.running, JobDone, NEW s \in Selected, job.request = Request(s), Ready(s)
  PROVE  CarriedOut(s)
  <1>1. s = "channel" => hostedCluster.channel = TestChannel
    BY DEF Request, Ready, JobDone
  <1>2. s = "controlPlane" => hostedCluster.release = DesiredUpdate
    BY DEF Request, Ready, Skips, SkipsControlPlane, JobDone, Upgrades
  <1>3. s = "nodePool" => \A n \in DOMAIN nodePools : nodePools[n] = DesiredUpdate
    BY DEF Request, Ready, Skips, SkipsNodePool, JobDone, Upgrades
  <1>4. QED
    BY <1>1, <1>2, <1>3 DEF CarriedOut

\* What each step of the controller does to the job and to its condition.
LEMMA ControllerJob ==
  ASSUME StepInv, ControllerStep
  PROVE  \/ /\ LaunchJob /\ unseen /\ ~unseen' /\ UNCHANGED <<hostedCluster, nodePools>>
            /\ curator.desiredCuration = "upgrade"
            /\ job'.by = trigger /\ job'.request = curator.upgrade
            /\ condition'.result = "active" /\ condition'.by = trigger
         \/ job.running /\ UNCHANGED <<unseen, job, condition>>
         \/ /\ job.running /\ ~job'.running /\ UNCHANGED <<unseen, hostedCluster, nodePools>>
            /\ job'.by = job.by /\ job'.request = job.request /\ condition'.by = job.by
            /\ condition'.result = "finished" => JobDone
  <1>1. CASE LaunchJob
    <2>1. job' = [running |-> TRUE, by |-> trigger, request |-> curator.upgrade]
          /\ condition' = [result |-> "active", by |-> trigger]
      BY <1>1 DEF LaunchJob
    <2>2. /\ job'.by = trigger /\ job'.request = curator.upgrade
          /\ condition'.result = "active" /\ condition'.by = trigger
      BY <2>1
    <2>3. /\ unseen /\ ~unseen' /\ UNCHANGED <<hostedCluster, nodePools>>
          /\ curator.desiredCuration = "upgrade"
      BY <1>1 DEF LaunchJob, hubVars
    <2>4. QED
      BY <1>1, <2>2, <2>3
  <1>2. CASE JobSetsChannel \/ JobUpgradesControlPlane
             \/ \E n \in DOMAIN nodePools : JobUpgradesNodePool(n)
    BY <1>2 DEF JobSetsChannel, JobUpgradesControlPlane, JobUpgradesNodePool, Upgrades,
         curatorVars, controllerVars
  <1>3. ASSUME NEW result \in {"finished", "failed"}, FinishJob(result)
        PROVE  /\ job.running /\ ~job'.running /\ UNCHANGED <<unseen, hostedCluster, nodePools>>
               /\ job'.by = job.by /\ job'.request = job.request /\ condition'.by = job.by
               /\ condition'.result = "finished" => JobDone
    BY <1>3 DEF FinishJob, curatorVars, hubVars, StepInv, TypeOK
  <1>4. QED
    BY <1>1, <1>2, <1>3 DEF ControllerStep

LEMMA ControllerReady ==
  ASSUME StepInv, ReadyInv, ControllerStep
  PROVE  ReadyInv'
  <1>1. /\ UNCHANGED <<curator, trigger, current, pc>> /\ DOMAIN nodePools' = DOMAIN nodePools
    BY ControllerFrame
  <1>2. unseen' => unseen
    BY ControllerJob
  <1>3. /\ Ready(current) => Ready(current)'
        /\ Ready(trigger) => Ready(trigger)'
        /\ ~Skips(current) => ~Skips(current)'
    BY <1>1 DEF Ready, Skips, SkipsControlPlane, SkipsNodePool
  <1>4. QED
    BY <1>1, <1>2, <1>3 DEF ReadyInv

LEMMA ControllerAsked ==
  ASSUME StepInv, AskedInv, ControllerStep
  PROVE  AskedInv'
  <1>1. UNCHANGED <<trigger, current, pc, todo>>
    BY ControllerFrame
  <1>2. QED
    BY <1>1, ControllerJob DEF AskedInv, ConfigSteps

LEMMA ControllerDone ==
  ASSUME StepInv, RequestInv, ReadyInv, DoneInv, ControllerStep
  PROVE  DoneInv'
  <1>1. UNCHANGED <<current, pc, accepted>> /\ DOMAIN nodePools' = DOMAIN nodePools
    BY ControllerFrame
  <1>2. ~(pc \in {"verify", "readHC"} /\ accepted[current] = current)
    BY ControllerRests DEF DoneInv
  <1>3. \A t : Request(t)' = Request(t)
    BY DEF Request
  <1>4. \A t : Ready(t) => Ready(t)'
    BY <1>1, ReadyStays
  <1>5. ASSUME job'.by = job.by, Ready(job.by) PROVE Ready(job.by)'
    BY <1>1, <1>5 DEF Ready, Skips, SkipsControlPlane, SkipsNodePool
  <1>6. CASE LaunchJob /\ unseen /\ condition'.result = "active"
             /\ curator.desiredCuration = "upgrade"
             /\ job'.by = trigger /\ job'.request = curator.upgrade
    <2>1. job'.request = Request(trigger) /\ Ready(trigger)
      BY <1>6 DEF RequestInv, ReadyInv
    <2>2. Request(job.by)' = Request(trigger) /\ Ready(job.by)'
      BY <1>1, <1>6, <2>1 DEF Request, Ready, Skips, SkipsControlPlane, SkipsNodePool
    <2>3. QED
      BY <1>1, <1>2, <1>6, <2>1, <2>2 DEF DoneInv
  <1>7. CASE job.running /\ UNCHANGED <<unseen, job, condition>>
    <2>1. condition.result = "active"
      BY <1>7 DEF DoneInv
    <2>2. Request(job.by)' = Request(job.by)
      BY <1>7 DEF Request
    <2>3. QED
      BY <1>1, <1>2, <1>5, <1>7, <2>1, <2>2 DEF DoneInv
  <1>8. CASE /\ job.running /\ ~job'.running /\ UNCHANGED <<unseen, hostedCluster, nodePools>>
             /\ job'.by = job.by /\ job'.request = job.request
             /\ condition'.result = "finished" => JobDone
    <2>1. Request(job.by)' = Request(job.by)
      BY <1>8 DEF Request
    <2>2. (condition.result = "finished" /\ job.by \in Selected => CarriedOut(job.by))'
      <3>1. SUFFICES ASSUME condition'.result = "finished", job.by \in Selected
                     PROVE  CarriedOut(job.by)'
        BY <1>8
      <3>2. CarriedOut(job.by)
        BY <1>8, <3>1, DoneMeansCarriedOut DEF DoneInv
      <3>3. QED
        BY <1>8, <3>2 DEF CarriedOut
    <2>3. QED
      BY <1>1, <1>2, <1>5, <1>8, <2>1, <2>2 DEF DoneInv
  <1>9. QED
    BY <1>6, <1>7, <1>8, ControllerJob

LEMMA ControllerOwnJob == OwnJobInv /\ ControllerStep => OwnJobInv'
  <1> SUFFICES ASSUME OwnJobInv, ControllerStep PROVE OwnJobInv'
    OBVIOUS
  <1>1. StepInv' /\ RequestInv'
    BY ControllerStepInv, ControllerStepQuiet, QuietStepKeepsRequestInv DEF OwnJobInv
  <1>2. QED
    BY <1>1, ControllerReady, ControllerAsked, ControllerDone DEF OwnJobInv

-----------------------------------------------------------------------------
(* The whole run                                                           *)

LEMMA StartOwnJob ==
  ASSUME OwnJobInv, NEW s \in Selected, StartSpec(s)
  PROVE  ReadyInv' /\ AskedInv' /\ DoneInv'
  <1>1. /\ pc' = "ensureHC" /\ current' = s /\ s \in todo /\ todo' = todo \ {s}
        /\ UNCHANGED <<curator, trigger, unseen, job, condition, hostedCluster, nodePools>>
    BY DEF StartSpec, curatorVars, controllerVars, hubVars
  <1>2. ReadyInv'
    BY <1>1 DEF OwnJobInv, ReadyInv, Ready, Skips, SkipsControlPlane, SkipsNodePool
  <1>3. AskedInv'
    BY <1>1 DEF OwnJobInv, AskedInv, ConfigSteps
  <1>4. DoneInv'
    BY <1>1 DEF OwnJobInv, DoneInv, Request, Ready, Skips, SkipsControlPlane, SkipsNodePool,
         CarriedOut
  <1>5. QED
    BY <1>2, <1>3, <1>4

LEMMA StutterOwnJob ==
  ASSUME OwnJobInv, UNCHANGED vars
  PROVE  ReadyInv' /\ AskedInv' /\ DoneInv'
  <1>1. UNCHANGED <<todo, current, pc, accepted, curator, trigger, unseen, job, condition,
                    hostedCluster, nodePools>>
    BY DEF vars, specVars, curatorVars, controllerVars, hubVars
  <1>2. ReadyInv'
    BY <1>1 DEF OwnJobInv, ReadyInv, Ready, Skips, SkipsControlPlane, SkipsNodePool
  <1>3. AskedInv'
    BY <1>1 DEF OwnJobInv, AskedInv, ConfigSteps
  <1>4. DoneInv'
    BY <1>1 DEF OwnJobInv, DoneInv, Request, Ready, Skips, SkipsControlPlane, SkipsNodePool,
         CarriedOut
  <1>5. QED
    BY <1>2, <1>3, <1>4

LEMMA OwnJobInvariant ==
  ASSUME ReplacesSpec
  PROVE  Spec => []OwnJobInv
  <1>1. Init => OwnJobInv
    BY InitOwnJob
  <1>2. OwnJobInv /\ [Next]_vars => OwnJobInv'
    <2> SUFFICES ASSUME OwnJobInv, [Next]_vars PROVE OwnJobInv'
      OBVIOUS
    <2>1. StepInv' /\ RequestInv'
      BY NextStepInv, NextRequestInv DEF OwnJobInv
    <2>2. QED
      BY <2>1, StartOwnJob, StutterOwnJob, SpecStepOwnJob, ControllerOwnJob
         DEF Next, Finished, OwnJobInv
  <1>3. QED
    BY <1>1, <1>2, PTL DEF Spec

\* The wait for clustercurator-job (hcp_channel_upgrade_test.go:62) ends on the job
\* of another spec, or of an earlier test run, only while the controller has not
\* reacted to the patch of desiredCuration yet: an answer that is one read old.
THEOREM ForeignJobsNeedTheRace ==
  ASSUME ReplacesSpec
  PROVE  Spec => ForeignJobOnlyInRace
  <1>1. OwnJobInv /\ [Next]_vars =>
            [\A s \in Selected :
                 accepted'[s] # accepted[s] => accepted'[s] = s \/ unseen]_vars
    <2> SUFFICES ASSUME OwnJobInv, [Next]_vars,
                        NEW s \in Selected, accepted'[s] # accepted[s], ~unseen
                 PROVE  accepted'[s] = s
      OBVIOUS
    <2>1. WaitForCuratorJob
      BY DEF Next, Finished, StartSpec, SpecStep, EnsureHostedCluster, EnsureNodePools,
         CreateOrUpdateClusterCuratorForChannelUpgrade, SetClusterCuratorUpgradeChannel,
         SetClusterCuratorUpgradeDesiredUpdateAndType, SetDesiredCuration, WaitTimesOut,
         Verify, ReadControlPlaneRelease, CallFails, Written, ControllerStep, LaunchJob,
         JobSetsChannel, JobUpgradesControlPlane, JobUpgradesNodePool, FinishJob, vars, specVars
    <2>2. condition.by = current
      BY <2>1 DEF WaitForCuratorJob, OwnJobInv, AskedInv
    <2>3. QED
      BY <2>1, <2>2 DEF WaitForCuratorJob, OwnJobInv, StepInv, TypeOK
  <1>2. QED
    BY <1>1, OwnJobInvariant, PTL DEF Spec, ForeignJobOnlyInRace

\* When the wait ended on the spec's own job, what the spec asked for is on the hub
\* while it verifies, and nothing takes it away before it is read.
THEOREM OwnJobsUpgrade ==
  ASSUME ReplacesSpec
  PROVE  Spec => []OwnJobMeansUpgraded
  <1>1. OwnJobInv => OwnJobMeansUpgraded
    <2> SUFFICES ASSUME OwnJobInv, pc \in {"verify", "readHC"}, accepted[current] = current
                 PROVE  CarriedOut(current)
      BY DEF OwnJobMeansUpgraded
    <2>1. current \in Selected /\ job.by = current /\ condition.result = "finished"
      BY DEF OwnJobInv, StepInv, TypeOK, Scheduling, DoneInv
    <2>2. QED
      BY <2>1 DEF OwnJobInv, DoneInv
  <1>2. QED
    BY <1>1, OwnJobInvariant, PTL

\* So the only false alarms at the verification (hcp_nodepool_upgrade_test.go:87)
\* are those of a spec whose wait ended on another's job.
THEOREM OwnJobRaisesNoFalseAlarm ==
  ASSUME ReplacesSpec
  PROVE  Spec => [](accepted[current] = current => NoFalseAlarm)
  <1>1. OwnJobInv => (accepted[current] = current => NoFalseAlarm)
    <2> SUFFICES ASSUME OwnJobInv, accepted[current] = current, pc = "verify"
                 PROVE  Reflects(current, hostedCluster, nodePools)
      BY DEF NoFalseAlarm
    <2>1. /\ current \in Selected /\ job.by = current /\ condition.result = "finished"
          /\ Ready(current)
      BY DEF OwnJobInv, StepInv, TypeOK, Scheduling, DoneInv, ReadyInv
    <2>2. CarriedOut(current)
      BY <2>1 DEF OwnJobInv, DoneInv
    <2>3. CASE current = "channel"
      BY <2>2, <2>3 DEF Reflects, ChannelReflected, CarriedOut
    <2>4. CASE current \in {"controlPlane", "nodePool"}
      <3>1. ReleaseMatches(DesiredUpdate)
        BY <2>1, <2>4, OptionsAssumption, ContainsAssumption
           DEF ReleaseMatches, Ready, Skips, SkipsControlPlane, SkipsNodePool
      <3>2. QED
        BY <2>1, <2>2, <2>4, <3>1
           DEF Reflects, ControlPlaneReflected, NodePoolsReflected, CarriedOut, Ready
    <2>5. QED
      BY <2>1, <2>3, <2>4, SelectedAssumption DEF SpecNames
  <1>2. QED
    BY <1>1, OwnJobInvariant, PTL
=============================================================================
