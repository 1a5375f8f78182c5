----------------------------- MODULE ClusterCreate -----------------------------
(***************************************************************************)
(* The specs that create a hosted cluster on AWS and on KubeVirt.  The spec*)
(* is a sequence of calls: it starts the hcp CLI, sets up a ClusterCurator *)
(* when curation is enabled, and waits for what the CLI, the curator, the  *)
(* hypershift operator and the import controller do meanwhile.  Those are  *)
(* not in this repository.                                                 *)
(***************************************************************************)
EXTENDS Naturals, Sequences

CONSTANTS
    Platforms,                \* the platforms whose create spec may run
    AcmManagedClusterAddOns,  \* the add-ons to wait for on an ACM hub
    MceManagedClusterAddOns   \* and on a hub that has only MCE

ASSUME PlatformsAssumption == Platforms \subseteq {"aws", "kubevirt"}

\* cluster_curator.yaml lists two prehooks and two posthooks for the install.
PreHooks == 1..2
PostHooks == 3..4
Hooks == PreHooks \cup PostHooks
AddOnLists == [no |-> <<>>, mce |-> MceManagedClusterAddOns, acm |-> AcmManagedClusterAddOns]
Listed(list) == {AddOnLists[list][i] : i \in DOMAIN AddOnLists[list]}
AddOns == Listed("mce") \cup Listed("acm")
ASSUME AddOnsAssumption ==
    \A list \in DOMAIN AddOnLists :
        Len(AddOnLists[list]) \in Nat /\ DOMAIN AddOnLists[list] = 1..Len(AddOnLists[list])

\* The It of each platform, as its sequence of calls; "defer" registers
\* gexec.KillAndWait.  CuratorSteps are under an if curatorEnabled.
AwsBody == <<"startCLI", "defer", "waitCLI",
    "towerSecret", "deleteCurator", "createCurator", "preJob", "preCondition",
    "hcp", "provisioned", "readPostJob", "postJob", "curatorJob",
    "imported", "addons", "labels", "annotations">>
KubevirtBody == <<"startCLI", "towerSecret", "deleteCurator", "createCurator",
    "defer", "waitCLI", "preJob", "preCondition",
    "hcp", "provisioned", "postJob",
    "imported", "addons", "labels", "addLabels", "annotations">>
CuratorSteps == {"towerSecret", "deleteCurator", "createCurator", "preJob",
    "preCondition", "provisioned", "readPostJob", "postJob", "curatorJob"}
Waits == {"waitCLI", "preJob", "preCondition", "hcp", "provisioned", "postJob",
    "curatorJob", "imported", "addons", "labels", "addLabels", "annotations"}

VARIABLES
    platform,       \* whose spec runs
    curatorEnabled, \* CURATOR_ENABLED
    hub,            \* "acm" if a MultiClusterHub is installed, or "mce"
    at,          \* index in Body of the call the spec makes next
    verdict,     \* "running", or how the spec ended
    deferred,    \* KillAndWait is registered
    readJob,     \* the AnsibleJob the AWS spec read before its posthook wait
    missed,      \* history: a poll saw no finished posthook when all were finished
    checking,    \* whose list of add-ons the spec goes through, "no" until it knows
    addOn,       \* index in that list
    addOnsSeen,  \* history: add-ons the spec has seen available
    cli,         \* the hcp process
    towerSecret, \* the Ansible Tower secret
    curator,     \* whose ClusterCurator is on the hub
    jobs,        \* the AnsibleJob of each hook
    currentJob,  \* the condition current-ansiblejob: a hook, or 0
    conditions,  \* the other conditions of the curator that are reached
    cluster,     \* the HostedCluster
    managed,     \* the ManagedCluster
    available    \* add-ons that are available now

optionVars == <<platform, curatorEnabled, hub>>
specVars == <<at, verdict, deferred, readJob, missed, checking, addOn, addOnsSeen>>
curatorVars == <<curator, jobs, currentJob, conditions>>
hubVars == <<cluster, managed, available>>
vars == <<optionVars, specVars, cli, towerSecret, curatorVars, hubVars>>

\* Mutant: the session is cleaned up only when the CLI has ended.
BodyDeferringLate ==
    <<"startCLI", "waitCLI", "defer", "towerSecret", "deleteCurator",
      "createCurator", "preJob", "preCondition", "hcp", "provisioned", "readPostJob",
      "postJob", "curatorJob", "imported", "addons", "labels", "annotations">>
\* Mutant: the last wait for the curator is missing, as in the KubeVirt spec.
BodyWithoutCuratorJob ==
    SelectSeq(IF platform = "aws" THEN AwsBody ELSE KubevirtBody, LAMBDA s : s # "curatorJob")
\* Mutant: the ClusterCurator of an earlier run is not deleted.
BodyKeepingTheCurator ==
    SelectSeq(IF platform = "aws" THEN AwsBody ELSE KubevirtBody, LAMBDA s : s # "deleteCurator")

Body == IF platform = "aws" THEN AwsBody ELSE KubevirtBody

JobStates == {"none", "new", "running", "ok", "failed"}
Conditions == {"prehook-ansiblejob", "hypershift-provisioning-job", "clustercurator-job"}
NoSuchJob == [hook |-> 0, state |-> "none"]

TypeOK ==
    /\ platform \in Platforms /\ curatorEnabled \in BOOLEAN /\ hub \in {"mce", "acm"}
    /\ at \in 1..Len(Body)
    /\ verdict \in {"running", "passed", "failed", "panicked", "interrupted"}
    /\ deferred \in BOOLEAN
    /\ readJob \in [hook : 0..4, state : JobStates] /\ missed \in BOOLEAN
    /\ checking \in {"no", "mce", "acm"}
    /\ addOn \in 1..(Len(AddOnLists[checking]) + 1) /\ addOnsSeen \subseteq Listed(checking)
    /\ cli \in {"notStarted", "running", "exit0", "exit1", "killed"}
    /\ towerSecret \in {"absent", "empty", "set"}
    /\ curator \in {"absent", "earlier", "own"}
    /\ jobs \in [Hooks -> JobStates]
    /\ currentJob \in 0..4
    /\ conditions \subseteq Conditions
    /\ cluster \in {"absent", "paused", "provisioning", "available"}
    /\ managed \in {"absent", "joining", "available", "labelled"}
    /\ available \subseteq AddOns

\* A ClusterCurator whose install curation was interrupted or has ended, with
\* the AnsibleJob it was at.
LeftByEarlierRun ==
    /\ curator = "earlier" /\ currentJob \in Hooks
    /\ \E last \in {"new", "running", "ok", "failed"} :
          jobs = [h \in Hooks |-> IF h < currentJob THEN "ok"
                                  ELSE IF h = currentJob THEN last ELSE "none"]
    /\ conditions \in SUBSET Conditions
    /\ "prehook-ansiblejob" \in conditions => \A h \in PreHooks : jobs[h] = "ok"
    /\ "hypershift-provisioning-job" \in conditions => "prehook-ansiblejob" \in conditions
    /\ currentJob \in PostHooks => "hypershift-provisioning-job" \in conditions
    /\ "clustercurator-job" \in conditions => \A h \in Hooks : jobs[h] = "ok"

NothingLeft ==
    /\ curator = "absent" /\ currentJob = 0 /\ conditions = {}
    /\ jobs = [h \in Hooks |-> "none"]

Init ==
    /\ platform \in Platforms /\ curatorEnabled \in BOOLEAN /\ hub \in {"mce", "acm"}
    /\ at = 1 /\ verdict = "running" /\ deferred = FALSE
    /\ readJob = NoSuchJob /\ missed = FALSE
    /\ checking = "no" /\ addOn = 1 /\ addOnsSeen = {}
    /\ cli = "notStarted" /\ towerSecret \in {"absent", "set"}
    /\ NothingLeft \/ LeftByEarlierRun
    /\ cluster = "absent" /\ managed = "absent" /\ available = {}

-----------------------------------------------------------------------------
(* The spec                                                                *)

AtStep(step) ==
    /\ verdict = "running" /\ Body[at] = step
    /\ step \in CuratorSteps => curatorEnabled

\* The It ends by itself: deferred calls run, so a registered KillAndWait stops
\* the CLI; without it the process outlives the spec.
End(v) ==
    /\ verdict' = v /\ at' = at
    /\ cli' = IF deferred /\ cli = "running" THEN "killed" ELSE cli
\* Mutant: the last call is followed by another one.
AdvancePastTheEnd == at' = at + 1 /\ verdict' = "running" /\ cli' = cli
Advance == IF at = Len(Body) THEN End("passed")
           ELSE at' = at + 1 /\ verdict' = "running" /\ cli' = cli

StartCLI ==
    /\ AtStep("startCLI")
    /\ \/ cli' = "running" /\ at' = at + 1 /\ verdict' = "running"
       \/ End("failed")
    /\ UNCHANGED <<optionVars, deferred, readJob, missed, checking, addOn, addOnsSeen, towerSecret, curatorVars, hubVars>>

PassOverCuration ==
    /\ verdict = "running" /\ Body[at] \in CuratorSteps /\ ~curatorEnabled
    /\ Advance
    /\ UNCHANGED <<optionVars, deferred, readJob, missed, checking, addOn, addOnsSeen, towerSecret, curatorVars, hubVars>>

DeferKillAndWait ==
    /\ AtStep("defer")
    /\ deferred' = TRUE /\ Advance
    /\ UNCHANGED <<optionVars, readJob, missed, checking, addOn, addOnsSeen, towerSecret, curatorVars, hubVars>>

\* GetTowerHost and GetTowerToken return "" and no error when nothing is set:
\* an unusable secret is written.
CreateOrUpdateAnsibleTowerSecret ==
    /\ AtStep("towerSecret")
    /\ \/ towerSecret' \in {"set", "empty"} /\ Advance
       \/ UNCHANGED towerSecret /\ End("failed")
    /\ UNCHANGED <<optionVars, deferred, readJob, missed, checking, addOn, addOnsSeen, curatorVars, hubVars>>

DeleteClusterCurator ==
    /\ AtStep("deleteCurator")
    /\ \/ /\ curator' = "absent" /\ currentJob' = 0 /\ conditions' = {}
          /\ jobs' = [h \in Hooks |-> "none"]
          /\ Advance
       \/ UNCHANGED curatorVars /\ End("failed")
    /\ UNCHANGED <<optionVars, deferred, readJob, missed, checking, addOn, addOnsSeen, towerSecret, hubVars>>

\* On an existing resource the applier writes the same spec again, which
\* starts nothing.
CreateOrUpdateClusterCurator ==
    /\ AtStep("createCurator")
    /\ \/ curator' = (IF curator = "absent" THEN "own" ELSE curator) /\ Advance
       \/ UNCHANGED curator /\ End("failed")
    /\ UNCHANGED <<optionVars, deferred, readJob, missed, checking, addOn, addOnsSeen, towerSecret, jobs, currentJob, conditions, hubVars>>

\* The AnsibleJob the condition current-ansiblejob names.
CurrentAnsibleJob ==
    IF curator = "absent" \/ currentJob = 0 THEN NoSuchJob
    ELSE [hook |-> currentJob, state |-> jobs[currentJob]]

\* status.isFinished, which says nothing of the result, and extra_vars.hook.
HookFinished(job, hooks) == job.state \in {"ok", "failed"} /\ job.hook \in hooks

\* All AnsibleJobs of a stage have ended.
AllFinished(hooks) == \A h \in hooks : jobs[h] \in {"ok", "failed"}

\* WaitForClusterAddonsAvailable waits for one entry of the list after the other.
AddOnsLeft == checking # "no" /\ addOn \in DOMAIN AddOnLists[checking]

\* Mutant: the AnsibleJob is read once on either platform.
PostHookJobReadOnce == readJob
\* What each wait polls.  The KubeVirt spec reads the AnsibleJob at every poll
\* of the posthook wait, the AWS spec only once before it.
PostHookJob == IF platform = "aws" THEN readJob ELSE CurrentAnsibleJob
Satisfied(step) ==
    \/ step = "waitCLI" /\ cli = "exit0"
    \/ step = "preJob" /\ HookFinished(CurrentAnsibleJob, PreHooks)
    \/ step = "preCondition" /\ "prehook-ansiblejob" \in conditions
    \/ step = "hcp" /\ cluster = "available"
    \/ step = "provisioned" /\ "hypershift-provisioning-job" \in conditions
    \/ step = "postJob" /\ HookFinished(PostHookJob, PostHooks)
    \/ step = "curatorJob" /\ "clustercurator-job" \in conditions
    \/ step = "imported" /\ managed \in {"available", "labelled"}
    \/ step = "addons" /\ AddOnsLeft /\ AddOnLists[checking][addOn] \in available
    \/ step \in {"labels", "addLabels", "annotations"} /\ managed = "labelled"

\* A poll converts the status of the AnsibleJob to a map, and there may be none.
PollPanics(step) ==
    \/ step = "preJob" /\ CurrentAnsibleJob.state = "new"
    \/ step = "postJob" /\ PostHookJob.state = "new"

\* When the read fails, its error is kept like the object, for all polls.
ReadPostHookJob ==
    /\ AtStep("readPostJob")
    /\ readJob' \in {CurrentAnsibleJob, NoSuchJob} /\ Advance
    /\ UNCHANGED <<optionVars, deferred, missed, checking, addOn, addOnsSeen, towerSecret, curatorVars, hubVars>>

WaitEnds(step) ==
    /\ AtStep(step) /\ Satisfied(step)
    /\ Advance
    /\ UNCHANGED <<optionVars, deferred, readJob, missed, checking, addOn, addOnsSeen, towerSecret, curatorVars, hubVars>>

\* A poll of the posthook wait that is answered and finds nothing; the spec polls on.
PosthookPollIsFalse ==
    /\ AtStep("postJob") /\ ~Satisfied("postJob") /\ ~PollPanics("postJob")
    /\ missed' = (missed \/ AllFinished(PostHooks))
    /\ UNCHANGED <<optionVars, at, verdict, deferred, readJob, checking, addOn, addOnsSeen, cli, towerSecret, curatorVars, hubVars>>

\* Mutant: no timeout.
NeverTimesOut(step) == FALSE

\* Eventually gives up on its clock without a last poll, and a poll whose Get fails
\* has found nothing: the condition may hold by then.  But the posthook wait of the
\* AWS spec polls what it has in hand, so its first poll decides.
WaitTimesOut(step) ==
    /\ AtStep(step)
    /\ step = "addons" => AddOnsLeft
    /\ step = "postJob" /\ platform = "aws" => ~Satisfied(step) /\ ~PollPanics(step)
    /\ End("failed")
    /\ UNCHANGED <<optionVars, deferred, readJob, missed, checking, addOn, addOnsSeen, towerSecret, curatorVars, hubVars>>

HookWaitPanics(step) ==
    /\ AtStep(step) /\ PollPanics(step)
    /\ End("panicked")
    /\ UNCHANGED <<optionVars, deferred, readJob, missed, checking, addOn, addOnsSeen, towerSecret, curatorVars, hubVars>>

IsACMInstalled ==
    /\ AtStep("addons") /\ checking = "no"
    /\ checking' = hub
    /\ UNCHANGED <<optionVars, at, verdict, deferred, readJob, missed, addOn, addOnsSeen, cli, towerSecret, curatorVars, hubVars>>

ValidateClusterAddOnAvailable ==
    /\ AtStep("addons") /\ Satisfied("addons")
    /\ addOn' = addOn + 1 /\ addOnsSeen' = addOnsSeen \cup {AddOnLists[checking][addOn]}
    /\ UNCHANGED <<optionVars, at, verdict, deferred, readJob, missed, checking, cli, towerSecret, curatorVars, hubVars>>

\* Mutant: the loop ends with the first add-on that is available.
FirstAddOnAvailable ==
    /\ AtStep("addons") /\ addOn > 1
    /\ Advance
    /\ UNCHANGED <<optionVars, deferred, readJob, missed, checking, addOn, addOnsSeen, towerSecret, curatorVars, hubVars>>

AddOnsAllAvailable ==
    /\ AtStep("addons") /\ checking # "no" /\ ~AddOnsLeft
    /\ Advance
    /\ UNCHANGED <<optionVars, deferred, readJob, missed, checking, addOn, addOnsSeen, towerSecret, curatorVars, hubVars>>

\* IsACMInstalled fails: the function returns the error and both specs ignore it.
AddOnsCheckFails ==
    /\ AtStep("addons") /\ checking = "no"
    /\ Advance
    /\ UNCHANGED <<optionVars, deferred, readJob, missed, checking, addOn, addOnsSeen, towerSecret, curatorVars, hubVars>>

\* Reading the labels or annotations returns an error: gomega.Expect inside the
\* polled function ends the spec instead of the poll.
LabelReadFails ==
    /\ \E step \in {"labels", "addLabels", "annotations"} : AtStep(step)
    /\ End("failed")
    /\ UNCHANGED <<optionVars, deferred, readJob, missed, checking, addOn, addOnsSeen, towerSecret, curatorVars, hubVars>>

SpecStep ==
    \/ PassOverCuration \/ StartCLI \/ DeferKillAndWait
    \/ CreateOrUpdateAnsibleTowerSecret \/ DeleteClusterCurator \/ CreateOrUpdateClusterCurator
    \/ ReadPostHookJob
    \/ \E step \in Waits \ {"addons"} : WaitEnds(step)
    \/ \E step \in Waits : WaitTimesOut(step)
    \/ IsACMInstalled \/ ValidateClusterAddOnAvailable \/ AddOnsAllAvailable \/ AddOnsCheckFails
    \/ \E step \in {"preJob", "postJob"} : HookWaitPanics(step)
    \/ LabelReadFails

\* The timeout of the suite or a signal: ginkgo goes on without the It, whose
\* goroutine it cannot stop, and ends.  No deferred call runs.
SuiteInterrupted ==
    /\ verdict = "running" /\ verdict' = "interrupted"
    /\ UNCHANGED <<optionVars, at, deferred, readJob, missed, checking, addOn, addOnsSeen, cli, towerSecret, curatorVars, hubVars>>

-----------------------------------------------------------------------------
(* The hcp CLI, the curator, hypershift and the import controller, which   *)
(* are not in this repository                                              *)

\* Mutant: the option is left out.
NotPaused == FALSE
\* --pausedUntil true is passed when curation is enabled.
PausedUntil == curatorEnabled
CLICreatesCluster ==
    /\ cli = "running" /\ cluster = "absent"
    /\ cluster' = IF PausedUntil THEN "paused" ELSE "provisioning"
    /\ UNCHANGED <<optionVars, specVars, cli, towerSecret, curatorVars, managed, available>>

CLIExits ==
    /\ cli = "running"
    /\ cli' \in {"exit1"} \cup (IF cluster = "absent" THEN {} ELSE {"exit0"})
    /\ UNCHANGED <<optionVars, specVars, towerSecret, curatorVars, hubVars>>

\* The install curation runs one hook at a time, and the posthooks after the
\* provisioning; it needs the HostedCluster and the tower credentials.
LaunchHook(h) ==
    /\ curator = "own" /\ towerSecret = "set" /\ cluster # "absent"
    /\ jobs[h] = "none" /\ \A g \in Hooks : g < h => jobs[g] = "ok"
    /\ h \in PostHooks => "hypershift-provisioning-job" \in conditions
    /\ jobs' = [jobs EXCEPT ![h] = "new"] /\ currentJob' = h
    /\ UNCHANGED <<optionVars, specVars, cli, towerSecret, curator, conditions, hubVars>>

TowerUpdatesJob(h) ==
    /\ \/ jobs[h] = "new" /\ jobs' = [jobs EXCEPT ![h] = "running"]
       \/ jobs[h] = "running" /\ \E r \in {"ok", "failed"} : jobs' = [jobs EXCEPT ![h] = r]
    /\ UNCHANGED <<optionVars, specVars, cli, towerSecret, curator, currentJob, conditions, hubVars>>

CuratorReaches(c) ==
    /\ curator = "own" /\ c \notin conditions
    /\ c = "prehook-ansiblejob" => \A h \in PreHooks : jobs[h] = "ok"
    /\ c = "hypershift-provisioning-job" => "prehook-ansiblejob" \in conditions /\ cluster = "available"
    /\ c = "clustercurator-job" =>
          "hypershift-provisioning-job" \in conditions /\ \A h \in Hooks : jobs[h] = "ok"
    /\ conditions' = conditions \cup {c}
    /\ cluster' = IF c = "prehook-ansiblejob" /\ cluster = "paused" THEN "provisioning" ELSE cluster
    /\ UNCHANGED <<optionVars, specVars, cli, towerSecret, curator, jobs, currentJob, managed, available>>

HubAdvances ==
    /\ \/ cluster = "provisioning" /\ cluster' = "available" /\ UNCHANGED managed
       \/ /\ cluster = "available" /\ UNCHANGED cluster
          /\ \/ managed = "absent" /\ managed' = "joining"
             \/ managed = "joining" /\ managed' = "available"
             \/ managed = "available" /\ managed' = "labelled"
    /\ UNCHANGED <<optionVars, specVars, cli, towerSecret, curatorVars, available>>

\* An add-on's Available condition comes and goes.
AddOnChanges(a) ==
    /\ managed # "absent"
    /\ available' = IF a \in available THEN available \ {a} ELSE available \cup {a}
    /\ UNCHANGED <<optionVars, specVars, cli, towerSecret, curatorVars, cluster, managed>>

EnvironmentStep ==
    \/ CLICreatesCluster \/ CLIExits
    \/ \E h \in Hooks : LaunchHook(h) \/ TowerUpdatesJob(h)
    \/ \E c \in Conditions : CuratorReaches(c)
    \/ HubAdvances
    \/ \E a \in AddOns : AddOnChanges(a)

Ended == verdict # "running" /\ UNCHANGED vars
Next == SpecStep \/ PosthookPollIsFalse \/ SuiteInterrupted \/ EnvironmentStep \/ Ended
Spec == Init /\ [][Next]_vars

\* The test process runs; the hub and the CLI owe nothing.  Every wait either
\* is satisfied or times out.
FairSpec == Spec /\ WF_vars(SpecStep)

-----------------------------------------------------------------------------
(* Properties                                                              *)

\* Whichever call ends the AWS spec, and however late the CLI is, it leaves no hcp
\* process behind that would go on creating a cluster nobody waits for.  Only when
\* ginkgo gives the spec up, which runs no deferred call, may one go on.
AwsLeavesNoCLI ==
    platform = "aws" /\ verdict \notin {"running", "interrupted"} => cli # "running"

\* With curation enabled, no control plane comes up before every prehook has
\* succeeded: the cluster is created paused, whatever the order in which the
\* CLI and the curator get to work.
PrehooksBeforeProvisioning ==
    curatorEnabled /\ cluster \in {"provisioning", "available"} =>
        \A h \in PreHooks : jobs[h] = "ok"

\* When the AWS spec passes with curation enabled, all four AnsibleJobs of the
\* ClusterCurator it created have succeeded.  (The KubeVirt spec only knows that
\* one posthook has ended.)
AwsPassMeansHooksSucceeded ==
    platform = "aws" /\ curatorEnabled /\ verdict = "passed" =>
        \A h \in Hooks : jobs[h] = "ok"

\* A hook wait panics only on an AnsibleJob of the curation the spec has asked
\* for, never on one an interrupted earlier run left without a status.
PanicIsOfOwnCuration == verdict = "panicked" => curator = "own"

\* A spec that passes has seen every add-on of the list for its hub available,
\* however often one of them came and went, unless it could not find out which
\* hub it is on: then no add-on was looked at, and nobody is told.
PassMeansAddOnsSeen ==
    verdict = "passed" => checking = "no" \/ (checking = hub /\ addOnsSeen = Listed(hub))

\* A poll of the posthook wait sees that the posthooks are all finished.  (A poll
\* whose Get fails sees nothing, and when the last one was too early no poll does.)
PosthookWaitSeesTheJob == ~missed

\* When it does not, it is the poll of the AWS spec, and what that polls is not the
\* AnsibleJob the curator is at, because it was read earlier or could not be read.
\* Such a spec never passes, although the hub did all it was asked to do.
PosthookMissIsStaleRead ==
    missed => platform = "aws" /\ readJob # CurrentAnsibleJob /\ verdict # "passed"

\* The contract of CreateContract.  A milestone is named by the wait for it: what
\* the options ask for, whatever calls Body has, and what the hub shows of it.
Required ==
    {"waitCLI", "hcp", "imported", "labels", "annotations"}
        \cup (IF curatorEnabled THEN {"preJob", "preCondition", "provisioned", "postJob"} ELSE {})
        \cup (IF curatorEnabled /\ platform = "aws" THEN {"curatorJob"} ELSE {})
SomeFinished(hooks) == \E h \in hooks : jobs[h] \in {"ok", "failed"}
Shows(m) ==
    \/ m = "waitCLI" /\ cli = "exit0"
    \/ m = "hcp" /\ cluster = "available"
    \/ m = "imported" /\ managed \in {"available", "labelled"}
    \/ m \in {"labels", "annotations"} /\ managed = "labelled"
    \/ m = "preJob" /\ SomeFinished(PreHooks)
    \/ m = "preCondition" /\ "prehook-ansiblejob" \in conditions
    \/ m = "provisioned" /\ "hypershift-provisioning-job" \in conditions
    \/ m = "postJob" /\ SomeFinished(PostHooks)
    \/ m = "curatorJob" /\ "clustercurator-job" \in conditions
\* The call is behind the spec.
Past(step) == \E i \in 1..Len(Body) : i < at /\ Body[i] = step
Observed == {m \in Required : Past(m) \/ verdict = "passed"}
PhaseOf(v) == IF v \in {"panicked", "interrupted"} THEN "failed" ELSE v
Contract == INSTANCE CreateContract
    WITH required <- Required, observed <- Observed, phase <- PhaseOf(verdict),
         shown <- {m \in Required : Shows(m)}
ImplementsContract == Contract!ContractSpec

\* The spec ends with a verdict, whatever the hub does not do.
SpecConcludes == <>(verdict # "running")
=================================================================================
