---------------------------- MODULE CuratorUpgrade ----------------------------
(***************************************************************************)
(* The three upgrade specs (channel, control plane, node pools).  They run *)
(* one after the other, in any order, against ONE ClusterCurator resource, *)
(* whose name is the hosted cluster's.  Each spec writes its request with  *)
(* separate API calls, waits for the condition clustercurator-job, and     *)
(* then reads the hosted cluster.  cluster-curator-controller, which is    *)
(* not in this repository, turns the resource into jobs concurrently.      *)
(***************************************************************************)
EXTENDS HostedClusterHub

CONSTANTS
    ReplacesSpec,   \* the applier replaces .spec of an existing resource
    EarlierCurator  \* a ClusterCurator of an earlier test run may be there

ASSUME EnvironmentAssumption == ReplacesSpec \in BOOLEAN /\ EarlierCurator \in BOOLEAN

VARIABLES
    todo,           \* specs that have not started
    current,        \* the spec that is running, or "none"
    pc,             \* the call it makes next
    verdict,        \* verdict[s]
    curator,        \* the ClusterCurator resource: spec fields the specs write
    trigger,        \* history: who last patched desiredCuration
    unseen,         \* the controller has a change of the resource to react to
    job,            \* the curator job
    condition,      \* the clustercurator-job condition, and whose job set it
    hostedCluster,
    nodePools,
    releaseBefore,  \* history: hostedCluster.release when the spec started
    accepted        \* history: accepted[s] is whose job ended the wait of s

specVars == <<todo, current, pc, verdict, releaseBefore, accepted>>
curatorVars == <<curator, trigger, unseen>>
controllerVars == <<job, condition>>
hubVars == <<hostedCluster, nodePools>>
vars == <<specVars, curatorVars, controllerVars, hubVars>>

Requests == [channel : Channels \cup {NoValue},
             desiredUpdate : Versions \cup {NoValue},
             upgradeType : UpgradeTypes \cup {NoValue}]
NoRequest == [channel |-> NoValue, desiredUpdate |-> NoValue, upgradeType |-> NoValue]

\* The spec.upgrade each spec means to hand to the controller.
Request(s) ==
    [channel |-> IF s = "nodePool" THEN NoValue ELSE TestChannel,
     desiredUpdate |-> IF s = "channel" THEN NoValue ELSE DesiredUpdate,
     upgradeType |-> IF s = "channel" THEN NoValue ELSE UpgradeType]

Curators == [exists : BOOLEAN,
             desiredCuration : {"unset", "install", "upgrade"},
             upgrade : Requests]
NoCurator == [exists |-> FALSE, desiredCuration |-> "unset", upgrade |-> NoRequest]

Owners == Selected \cup {"earlier"}
NoJob == [running |-> FALSE, by |-> "earlier", request |-> NoRequest]

\* The calls that write the request, in program order.
ConfigSteps == {"setChannel", "setUpdate", "setCuration"}
Steps == {"idle", "ensureHC", "listNodePools", "createCurator"} \cup ConfigSteps
            \cup {"waitJob", "verify", "readHC"}
Verdicts == {"none", "passed", "failed", "skipped"}

TypeOK ==
    /\ todo \subseteq Selected
    /\ current \in Selected \cup {"none"}
    /\ pc \in Steps
    /\ verdict \in [Selected -> Verdicts]
    /\ curator \in Curators
    /\ trigger \in Owners
    /\ unseen \in BOOLEAN
    /\ job \in [running : BOOLEAN, by : Owners, request : Requests]
    /\ condition \in [result : {"absent", "active", "finished", "failed"}, by : Owners]
    /\ hostedCluster \in HostedClusterState
    /\ nodePools \in NodePoolStates
    /\ releaseBefore \in Versions
    /\ accepted \in [Selected -> Owners \cup {"none"}]

\* The curator another test run (hcp_aws_create, or an earlier upgrade) left:
\* nothing in the upgrade specs deletes it.
LeftByEarlierRun ==
    /\ curator \in [exists : {TRUE}, desiredCuration : {"install", "upgrade"}, upgrade : Requests]
    /\ condition \in [result : {"active", "finished", "failed"}, by : {"earlier"}]
    /\ job = [running |-> condition.result = "active", by |-> "earlier",
              request |-> curator.upgrade]
    /\ curator.desiredCuration = "install" =>
          curator.upgrade = NoRequest /\ condition.result # "active"

NothingLeft ==
    /\ curator = NoCurator
    /\ condition = [result |-> "absent", by |-> "earlier"]
    /\ job = NoJob

Init ==
    /\ todo = Selected /\ current = "none" /\ pc = "idle"
    /\ verdict = [s \in Selected |-> "none"]
    /\ NothingLeft \/ (EarlierCurator /\ LeftByEarlierRun)
    /\ trigger = "earlier" /\ unseen = FALSE
    /\ hostedCluster \in HostedClusterState
    /\ nodePools \in NodePoolStates
    /\ releaseBefore = hostedCluster.release
    /\ accepted = [s \in Selected |-> "none"]

-----------------------------------------------------------------------------
(* The running spec                                                        *)

GoTo(step) == pc' = step /\ UNCHANGED <<todo, current, verdict, releaseBefore>>

Conclude(v) ==
    /\ verdict' = [verdict EXCEPT ![current] = v]
    /\ current' = "none" /\ pc' = "idle"
    /\ UNCHANGED <<todo, releaseBefore>>

\* A write that reached the API server; its answer may still be an error, and
\* gomega.Expect(err) then ends the spec.
Written(next) == (GoTo(next) \/ Conclude("failed")) /\ UNCHANGED accepted

\* ginkgo picks the next spec; the containers are shuffled.
StartSpec(s) ==
    /\ current = "none" /\ s \in todo
    /\ todo' = todo \ {s} /\ current' = s /\ pc' = "ensureHC"
    /\ releaseBefore' = hostedCluster.release
    /\ UNCHANGED <<verdict, accepted, curatorVars, controllerVars, hubVars>>

EnsureHostedCluster ==
    /\ pc = "ensureHC"
    /\ \/ ~hostedCluster.exists /\ Conclude("failed")
       \/ hostedCluster.exists /\ Skips(current) /\ Conclude("skipped")
       \/ /\ hostedCluster.exists /\ ~Skips(current)
          /\ GoTo(IF current = "nodePool" THEN "listNodePools" ELSE "createCurator")
    /\ UNCHANGED <<accepted, curatorVars, controllerVars, hubVars>>

EnsureNodePools ==
    /\ pc = "listNodePools"
    /\ IF DOMAIN nodePools = {} THEN Conclude("failed") ELSE GoTo("createCurator")
    /\ UNCHANGED <<accepted, curatorVars, controllerVars, hubVars>>

\* A patch is a change for the controller only when it changes the resource.
WriteCurator(new) ==
    /\ curator' = new
    /\ unseen' = (unseen \/ new # curator)

\* Mutant: an existing resource is left as it is.
CreateClusterCuratorIfMissing ==
    /\ pc = "createCurator"
    /\ WriteCurator(IF curator.exists THEN curator ELSE [NoCurator EXCEPT !.exists = TRUE])
    /\ Written(IF current = "nodePool" THEN "setUpdate" ELSE "setChannel")
    /\ UNCHANGED <<trigger, controllerVars, hubVars>>

\* The template has no desiredCuration, and only monitorTimeout in upgrade.
\* An applier that merges keeps the fields the template does not name.
CreateOrUpdateClusterCuratorForChannelUpgrade ==
    /\ pc = "createCurator"
    /\ WriteCurator(IF ReplacesSpec \/ ~curator.exists
                    THEN [NoCurator EXCEPT !.exists = TRUE]
                    ELSE curator)
    /\ Written(IF current = "nodePool" THEN "setUpdate" ELSE "setChannel")
    /\ UNCHANGED <<trigger, controllerVars, hubVars>>

SetClusterCuratorUpgradeChannel ==
    /\ pc = "setChannel"
    /\ IF TestChannel = NoValue
       THEN Conclude("failed") /\ UNCHANGED <<accepted, curator, unseen>>
       ELSE /\ WriteCurator([curator EXCEPT !.upgrade.channel = TestChannel])
            /\ Written(IF current = "channel" THEN "setCuration" ELSE "setUpdate")
    /\ UNCHANGED <<trigger, controllerVars, hubVars>>

\* Mutant: upgradeType is left out of the patch.
SetClusterCuratorUpgradeDesiredUpdateOnly ==
    /\ pc = "setUpdate"
    /\ WriteCurator([curator EXCEPT !.upgrade.desiredUpdate = DesiredUpdate])
    /\ Written("setCuration")
    /\ UNCHANGED <<trigger, controllerVars, hubVars>>

SetClusterCuratorUpgradeDesiredUpdateAndType ==
    /\ pc = "setUpdate"
    /\ WriteCurator([curator EXCEPT !.upgrade.desiredUpdate = DesiredUpdate,
                                    !.upgrade.upgradeType = UpgradeType])
    /\ Written("setCuration")
    /\ UNCHANGED <<trigger, controllerVars, hubVars>>

\* Mutant: a value the CRD's enum does not have.
SetDesiredCurationMisspelt ==
    /\ pc = "setCuration"
    /\ WriteCurator([curator EXCEPT !.desiredCuration = "Upgrade"])
    /\ trigger' = current
    /\ Written("waitJob")
    /\ UNCHANGED <<controllerVars, hubVars>>

SetDesiredCuration ==
    /\ pc = "setCuration"
    /\ WriteCurator([curator EXCEPT !.desiredCuration = "upgrade"])
    /\ trigger' = current
    /\ Written("waitJob")
    /\ UNCHANGED <<controllerVars, hubVars>>

\* Mutants: a missing condition counts as reached; the status is not compared.
JobFinishedOrUnknown == condition.result \in {"finished", "absent"}
JobEnded == condition.result \in {"finished", "failed"}

\* CheckCuratorCondition, with any message: status True, Job_has_finished.
JobHasFinished == condition.result = "finished"

WaitForCuratorJob ==
    /\ pc = "waitJob"
    /\ JobHasFinished
    /\ accepted' = [accepted EXCEPT ![current] = condition.by]
    /\ GoTo("verify")
    /\ UNCHANGED <<curatorVars, controllerVars, hubVars>>

\* Mutant: the wait has no timeout.
WaitsForever == FALSE

\* Eventually gives up after 15, 20 or 30 minutes; the job may take 120.
WaitTimesOut ==
    /\ pc = "waitJob"
    /\ Conclude("failed")
    /\ UNCHANGED <<accepted, curatorVars, controllerVars, hubVars>>

\* Mutant: the hub is read but not compared.
VerifyNothing ==
    /\ pc = "verify"
    /\ IF current = "nodePool" THEN GoTo("readHC") ELSE Conclude("passed")
    /\ UNCHANGED <<accepted, curatorVars, controllerVars, hubVars>>

Verify ==
    /\ pc = "verify"
    /\ \/ ~Reflects(current, hostedCluster, nodePools) /\ Conclude("failed")
       \/ /\ Reflects(current, hostedCluster, nodePools)
          /\ IF current = "nodePool" THEN GoTo("readHC") ELSE Conclude("passed")
    /\ UNCHANGED <<accepted, curatorVars, controllerVars, hubVars>>

\* The release of the control plane is read and printed, never compared.
ReadControlPlaneRelease ==
    /\ pc = "readHC"
    /\ Conclude("passed")
    /\ UNCHANGED <<accepted, curatorVars, controllerVars, hubVars>>

\* A call returns an error and had no effect.  Inside Eventually that is one
\* more attempt, so the wait is not concerned.
CallFails ==
    /\ pc \notin {"idle", "waitJob"}
    /\ Conclude("failed")
    /\ UNCHANGED <<accepted, curatorVars, controllerVars, hubVars>>

SpecStep ==
    \/ EnsureHostedCluster \/ EnsureNodePools
    \/ CreateOrUpdateClusterCuratorForChannelUpgrade
    \/ SetClusterCuratorUpgradeChannel \/ SetClusterCuratorUpgradeDesiredUpdateAndType
    \/ SetDesiredCuration
    \/ WaitForCuratorJob \/ WaitTimesOut
    \/ Verify \/ ReadControlPlaneRelease
    \/ CallFails

-----------------------------------------------------------------------------
(* cluster-curator-controller and its job (external)                       *)

LaunchJob ==
    /\ curator.exists /\ curator.desiredCuration = "upgrade"
    /\ unseen /\ ~job.running
    /\ unseen' = FALSE
    /\ job' = [running |-> TRUE, by |-> trigger, request |-> curator.upgrade]
    /\ condition' = [result |-> "active", by |-> trigger]
    /\ UNCHANGED <<specVars, curator, trigger, hubVars>>

Upgrades(kind) ==
    /\ job.running /\ job.request.desiredUpdate # NoValue
    /\ job.request.upgradeType \in {kind, "both", NoValue}

JobSetsChannel ==
    /\ job.running /\ job.request.channel # NoValue
    /\ hostedCluster' = [hostedCluster EXCEPT !.channel = job.request.channel]
    /\ UNCHANGED <<specVars, curatorVars, controllerVars, nodePools>>

JobUpgradesControlPlane ==
    /\ Upgrades("ControlPlane")
    /\ hostedCluster' = [hostedCluster EXCEPT !.release = job.request.desiredUpdate]
    /\ UNCHANGED <<specVars, curatorVars, controllerVars, nodePools>>

JobUpgradesNodePool(n) ==
    /\ Upgrades("NodePools")
    /\ nodePools' = [nodePools EXCEPT ![n] = job.request.desiredUpdate]
    /\ UNCHANGED <<specVars, curatorVars, controllerVars, hostedCluster>>

\* Everything the job was asked to do is on the hub.
JobDone ==
    /\ job.request.channel # NoValue => hostedCluster.channel = job.request.channel
    /\ Upgrades("ControlPlane") => hostedCluster.release = job.request.desiredUpdate
    /\ Upgrades("NodePools") =>
          \A n \in DOMAIN nodePools : nodePools[n] = job.request.desiredUpdate

FinishJob(result) ==
    /\ job.running
    /\ result = "finished" => JobDone
    /\ job' = [job EXCEPT !.running = FALSE]
    /\ condition' = [result |-> result, by |-> job.by]
    /\ UNCHANGED <<specVars, curatorVars, hubVars>>

ControllerStep ==
    \/ LaunchJob
    \/ JobSetsChannel \/ JobUpgradesControlPlane
    \/ \E n \in DOMAIN nodePools : JobUpgradesNodePool(n)
    \/ \E result \in {"finished", "failed"} : FinishJob(result)

-----------------------------------------------------------------------------
SuiteOver == todo = {} /\ current = "none"
Finished == SuiteOver /\ UNCHANGED vars

Next ==
    \/ \E s \in Selected : StartSpec(s)
    \/ SpecStep
    \/ ControllerStep
    \/ Finished

Spec == Init /\ [][Next]_vars

\* The test process runs: ginkgo starts the next spec, a call returns, a wait
\* ends by its timeout at the latest.  Nothing is assumed of the controller.
FairSpec ==
    /\ Spec
    /\ WF_vars(\E s \in Selected : StartSpec(s))
    /\ WF_vars(SpecStep)
-----------------------------------------------------------------------------
(* Properties                                                              *)

\* Where each spec is, in the terms of the contract.
PhaseOf(s) ==
    IF verdict[s] # "none" THEN verdict[s]
    ELSE IF s # current THEN "waiting"
    ELSE IF pc = "readHC" THEN "observed" ELSE "running"

Contract == INSTANCE UpgradeContract WITH phase <- [s \in Selected |-> PhaseOf(s)]

\* The upgrade specs keep the contract: whatever job the wait accepted, a spec
\* passes only after it read a hub that shows its upgrade, one spec runs at a
\* time, verdicts are final and skips follow the options.
ImplementsContract == Contract!ContractSpec

JobStarts == ~job.running /\ job'.running

\* desiredCuration is written last, and the resource is reset first: however
\* the controller interleaves with the writes of a spec, and whatever an
\* earlier or a failed spec left in the resource, a job never starts from a
\* half-written request nor from one made up of two specs' fields.
JobCarriesRequest ==
    [][JobStarts => /\ pc \notin ConfigSteps
                    /\ job'.by \in Selected
                    /\ job'.request = Request(job'.by)]_vars

\* The wait for "upgrade completed" ends because of the job the spec asked for,
\* not because of one of an earlier spec or of an earlier test run.
OwnJobAccepted == \A s \in Selected : accepted[s] \in {"none", s}

\* The wait can end on another's job only in one race: the condition that job
\* left is read before the controller has reacted to this spec's request.
ForeignJobOnlyInRace ==
    [][\A s \in Selected :
           accepted'[s] # accepted[s] => accepted'[s] = s \/ unseen]_vars

\* What spec s asks for is on the hub, version for version.
CarriedOut(s) ==
    /\ s = "channel" => hostedCluster.channel = TestChannel
    /\ s = "controlPlane" => hostedCluster.release = DesiredUpdate
    /\ s = "nodePool" => \A n \in DOMAIN nodePools : nodePools[n] = DesiredUpdate

\* A spec whose wait ended on its own job finds its upgrade carried out when it
\* verifies, whatever the jobs of earlier specs were still doing.
OwnJobMeansUpgraded ==
    pc \in {"verify", "readHC"} /\ accepted[current] = current => CarriedOut(current)

\* Once the wait is over, the hub shows the upgrade: a spec whose upgrade was
\* carried out does not fail at its verification (no false alarm).
NoFalseAlarm == pc = "verify" => Reflects(current, hostedCluster, nodePools)

\* A nodepool-only or channel-only spec that passes has not let the release of
\* the control plane change since it started.
ControlPlaneUntouched ==
    \A s \in Selected \ {"controlPlane"} :
        verdict[s] = "passed" => hostedCluster.release = releaseBefore

\* A spec passes on the desired version, not on one whose text has the desired
\* version's as a part (4.19.22 and 4.19.2).
PassedOnDesiredVersion ==
    /\ "controlPlane" \in Selected /\ verdict["controlPlane"] = "passed" =>
           hostedCluster.release = DesiredUpdate
    /\ "nodePool" \in Selected /\ verdict["nodePool"] = "passed" =>
           \A n \in DOMAIN nodePools : nodePools[n] = DesiredUpdate

\* Nothing the controller does or fails to do keeps the suite from ending with
\* a verdict for every spec: each wait has a timeout.
EverySpecConcludes == <>(\A s \in Selected : verdict[s] # "none")
=============================================================================
