----------------------------- MODULE ClusterDestroy -----------------------------
(***************************************************************************)
(* The specs that destroy hosted clusters: all clusters of a platform, or  *)
(* the one HCP_CLUSTER_NAME names, on AWS and on KubeVirt.  The hcp CLI or *)
(* a destroy curation asks for the deletion; the spec then waits until the *)
(* HostedCluster is destroyed and the ManagedCluster detached.  The CLI,   *)
(* the curator and the controllers of the hub are not in this repository.  *)
(***************************************************************************)
EXTENDS Naturals, FiniteSets

CONSTANTS
    Clusters,    \* names of hosted clusters
    PlatformOf,  \* spec.platform.type of each
    NoValue      \* HCP_CLUSTER_NAME is not set

Platforms == {"aws", "kubevirt"}
ASSUME PlatformOfAssumption == PlatformOf \in [Clusters -> Platforms]
ASSUME NoValueAssumption == NoValue \notin Clusters
ASSUME ClustersAssumption == IsFiniteSet(Clusters)

VARIABLES
    platform,       \* whose spec runs
    scope,          \* "all" or "one": the label destroy or destroy-one
    curatorEnabled, \* CURATOR_ENABLED
    clusterName,    \* HCP_CLUSTER_NAME
    pc,             \* the call the spec makes next
    verdict,        \* "running", or how the spec ended
    found,          \* hostedClusterList, or the named cluster
    left,           \* the clusters the current loop has not come to
    target,         \* the cluster the current iteration is about
    deferred,       \* KillAndWait is registered
    accepted,       \* the AnsibleJob that ended the posthook wait
    cli,            \* the hcp process for each cluster
    hosted,         \* HostedClusters on the hub
    deleting,       \* those whose deletion was asked for
    managed,        \* ManagedClusters on the hub
    curation,       \* how far the ClusterCurator of clusterName is
    conditions,     \* its conditions with reason Job_has_finished
    ansibleJob      \* the AnsibleJob its current-ansiblejob condition names

optionVars == <<platform, scope, curatorEnabled, clusterName>>
specVars == <<pc, verdict, found, left, target, deferred, accepted>>
curatorVars == <<curation, conditions, ansibleJob>>
hubVars == <<hosted, deleting, managed>>
vars == <<optionVars, specVars, cli, hubVars, curatorVars>>

Curations == {"absent", "installed", "requested", "prehooks", "uninstalling", "posthooks"}
Conditions == {"prehook-ansiblejob", "hypershift-uninstalling-job"}
\* stage and extra_vars.hook of an AnsibleJob; nth of the two in its stage.
AnsibleJobs == [stage : {"install", "destroy"}, hook : {"pre", "post"}, nth : 1..2,
                state : {"new", "running", "ok", "failed"}]
NoJob == [stage |-> "none", hook |-> "none", nth |-> 0, state |-> "none"]

TypeOK ==
    /\ platform \in Platforms /\ scope \in {"all", "one"} /\ curatorEnabled \in BOOLEAN
    /\ clusterName \in Clusters \cup {NoValue}
    /\ pc \in {"read", "start", "waitCLI", "setCuration", "preCondition",
               "destroyed", "uninstalled", "postJob", "detached"}
    /\ verdict \in {"running", "passed", "skipped", "failed", "panicked", "interrupted"}
    /\ found \subseteq Clusters /\ left \subseteq found
    /\ target \in found \cup {NoValue}
    /\ deferred \in BOOLEAN
    /\ accepted \in AnsibleJobs \cup {NoJob}
    /\ cli \in [Clusters -> {"notStarted", "running", "exit0", "exit1", "killed"}]
    /\ hosted \subseteq Clusters /\ deleting \subseteq hosted /\ managed \subseteq Clusters
    /\ curation \in Curations /\ conditions \subseteq Conditions
    /\ ansibleJob \in AnsibleJobs \cup {NoJob}

\* The ClusterCurator the create spec leaves: both install stages are over.
LastInstallJob == [stage |-> "install", hook |-> "post", nth |-> 2, state |-> "ok"]

Init ==
    /\ platform \in Platforms /\ scope \in {"all", "one"} /\ curatorEnabled \in BOOLEAN
    /\ clusterName \in Clusters \cup {NoValue}
    /\ pc = "read" /\ verdict = "running" /\ found = {} /\ left = {} /\ target = NoValue
    /\ deferred = FALSE /\ accepted = NoJob
    /\ cli = [c \in Clusters |-> "notStarted"]
    /\ hosted \in SUBSET Clusters /\ deleting = {} /\ managed \in SUBSET hosted
    /\ \/ curation = "absent" /\ conditions = {} /\ ansibleJob = NoJob
       \/ /\ curation = "installed" /\ conditions = {"prehook-ansiblejob"}
          /\ ansibleJob = LastInstallJob

-----------------------------------------------------------------------------
(* The specs                                                               *)

\* Only the KubeVirt spec for one cluster knows the curator.
Curated == platform = "kubevirt" /\ scope = "one" /\ curatorEnabled
At(step) == verdict = "running" /\ pc = step

\* The It ends by itself: a registered KillAndWait stops every hcp process.
End(v) ==
    /\ verdict' = v /\ pc' = pc
    /\ cli' = [c \in Clusters |->
                  IF deferred /\ cli[c] = "running" THEN "killed" ELSE cli[c]]
Goto(step) == pc' = step /\ verdict' = "running" /\ UNCHANGED cli

\* The clusters the spec is about: those of its platform, or the one named.
Mine == IF scope = "one" THEN {clusterName} ELSE {c \in Clusters : PlatformOf[c] = platform}

\* Mutant: spec.platform.type is not looked at.
ListEveryCluster == hosted
\* GetHostedClustersList with a type.
GetHostedClustersList == {c \in hosted : PlatformOf[c] = platform}

ReadHostedClusterList ==
    /\ At("read") /\ scope = "all"
    /\ \/ /\ GetHostedClustersList = {} /\ End("skipped")
          /\ UNCHANGED <<found, left>>
       \/ /\ GetHostedClustersList # {} /\ Goto("start")
          /\ found' = GetHostedClustersList /\ left' = found'
       \/ End("failed") /\ UNCHANGED <<found, left>>
    /\ UNCHANGED <<optionVars, target, deferred, accepted, hubVars, curatorVars>>

\* GetClusterName("") returns an error when HCP_CLUSTER_NAME is not set, so the
\* Skip for an empty name is never reached.  The AWS BeforeEach fails without
\* credentials.
ReadClusterName ==
    /\ At("read") /\ scope = "one"
    /\ \/ (clusterName = NoValue \/ platform = "aws") /\ End("failed") /\ UNCHANGED <<found, left>>
       \/ /\ clusterName # NoValue
          /\ Goto(IF Curated THEN "setCuration" ELSE "start")
          /\ found' = {clusterName} /\ left' = found'
    /\ UNCHANGED <<optionVars, target, deferred, accepted, hubVars, curatorVars>>

\* Mutant: every spec registers the cleanup after the wait.
DefersAfterTheWait == FALSE
\* The AWS spec for all clusters registers KillAndWait only after the wait.
DefersAtStart == ~(platform = "aws" /\ scope = "all")

StartCLI(c) ==
    /\ At("start") /\ c \in left
    /\ target' = c /\ left' = left \ {c}
    /\ deferred' = (deferred \/ DefersAtStart)
    /\ \/ End("failed")
       \/ cli' = [cli EXCEPT ![c] = "running"] /\ pc' = "waitCLI" /\ verdict' = "running"
    /\ UNCHANGED <<optionVars, found, accepted, hubVars, curatorVars>>

\* Mutant: the list is read again before the second loop.
ToVerifyRelisted == hosted
\* Mutant: the second loop uses the variable of the first.
ToVerifyLast == {target}
\* The second loop is over the same list.
ToVerify == found

CLIExited ==
    /\ At("waitCLI") /\ cli[target] = "exit0"
    /\ deferred' = TRUE
    /\ \/ left # {} /\ Goto("start") /\ UNCHANGED <<left, target>>
       \/ left = {} /\ Goto("destroyed") /\ target' = NoValue /\ left' = ToVerify
    /\ UNCHANGED <<optionVars, found, accepted, hubVars, curatorVars>>

SetDesiredCuration ==
    /\ At("setCuration")
    /\ \/ /\ curation # "absent" /\ curation' = "requested"
          /\ Goto("preCondition")
       \/ UNCHANGED curation /\ End("failed")
    /\ UNCHANGED <<optionVars, found, left, target, deferred, accepted, hubVars,
                   conditions, ansibleJob>>

PrehooksDone ==
    /\ At("preCondition") /\ "prehook-ansiblejob" \in conditions
    /\ Goto("destroyed")
    /\ UNCHANGED <<optionVars, found, left, target, deferred, accepted, hubVars, curatorVars>>

\* HasResource.  A Get of a namespaced resource without a namespace is answered
\* with NotFound, whatever the resource.
HasHostedCluster(c) == FALSE
\* Mutant: ManagedClusters are looked up like HostedClusters.
HasNothing(c) == FALSE
HasManagedCluster(c) == c \in managed

\* Mutant: the wait for the uninstall job is missing.
AfterDestroyedSkippingUninstall == IF Curated THEN "postJob" ELSE "detached"
AfterDestroyed == IF Curated THEN "uninstalled" ELSE "detached"

WaitForHostedClusterDestroyed(c) ==
    /\ At("destroyed") /\ c \in left /\ ~HasHostedCluster(c)
    /\ target' = c /\ left' = left \ {c}
    /\ Goto(AfterDestroyed)
    /\ UNCHANGED <<optionVars, found, deferred, accepted, hubVars, curatorVars>>

UninstallJobDone ==
    /\ At("uninstalled") /\ "hypershift-uninstalling-job" \in conditions
    /\ Goto("postJob")
    /\ UNCHANGED <<optionVars, found, left, target, deferred, accepted, hubVars, curatorVars>>

\* Of the AnsibleJob only extra_vars.hook and status.isFinished are looked at.
PosthookFinished == ansibleJob.hook = "post" /\ ansibleJob.state \in {"ok", "failed"}

PosthookDone ==
    /\ At("postJob") /\ PosthookFinished
    /\ accepted' = ansibleJob
    /\ Goto("detached")
    /\ UNCHANGED <<optionVars, found, left, target, deferred, hubVars, curatorVars>>

PosthookWaitPanics ==
    /\ At("postJob") /\ ansibleJob.state = "new"
    /\ End("panicked")
    /\ UNCHANGED <<optionVars, found, left, target, deferred, accepted, hubVars, curatorVars>>

WaitForClusterDetached ==
    /\ At("detached") /\ ~HasManagedCluster(target)
    /\ IF left = {} THEN End("passed") ELSE Goto("destroyed")
    /\ UNCHANGED <<optionVars, found, left, target, deferred, accepted, hubVars, curatorVars>>

\* Mutant: no timeout.
WaitsForever == FALSE

\* A wait times out, or a call inside one of the last two waits fails.  Eventually
\* gives up on its clock without a last poll, and a poll whose Get fails has found
\* nothing: what the spec waits for may be there by then.
WaitFails ==
    /\ verdict = "running"
    /\ pc \in {"waitCLI", "preCondition", "destroyed", "uninstalled", "postJob", "detached"}
    /\ End("failed")
    /\ UNCHANGED <<optionVars, found, left, target, deferred, accepted, hubVars, curatorVars>>

SpecStep ==
    \/ ReadHostedClusterList \/ ReadClusterName
    \/ \E c \in Clusters : StartCLI(c) \/ WaitForHostedClusterDestroyed(c)
    \/ CLIExited \/ SetDesiredCuration \/ PrehooksDone
    \/ UninstallJobDone \/ PosthookDone \/ PosthookWaitPanics
    \/ WaitForClusterDetached \/ WaitFails

\* The timeout of the suite or a signal: ginkgo goes on without the It, whose
\* goroutine it cannot stop, and ends.  No deferred call runs.
SuiteInterrupted ==
    /\ verdict = "running" /\ verdict' = "interrupted"
    /\ UNCHANGED <<optionVars, pc, found, left, target, deferred, accepted, cli, hubVars, curatorVars>>

-----------------------------------------------------------------------------
(* The hcp CLI, the curator and the hub, which are not in this repository  *)

\* hcp destroy asks for the deletion and may fail at any time; it ends well
\* only after it has asked, or when there was nothing to delete.
CLIDeletes(c) ==
    /\ cli[c] = "running" /\ c \in hosted
    /\ deleting' = deleting \cup {c}
    /\ UNCHANGED <<optionVars, specVars, cli, hosted, managed, curatorVars>>

CLIExits(c) ==
    /\ cli[c] = "running"
    /\ \E code \in {"exit1"} \cup (IF c \in hosted \ deleting THEN {} ELSE {"exit0"}) :
           cli' = [cli EXCEPT ![c] = code]
    /\ UNCHANGED <<optionVars, specVars, hubVars, curatorVars>>

\* Finalizers end, and the import controller detaches a cluster that goes away.
HostedClusterGone(c) ==
    /\ c \in deleting
    /\ hosted' = hosted \ {c} /\ deleting' = deleting \ {c}
    /\ UNCHANGED <<optionVars, specVars, cli, managed, curatorVars>>

ManagedClusterGone(c) ==
    /\ c \in managed /\ (c \in deleting \/ c \notin hosted)
    /\ managed' = managed \ {c}
    /\ UNCHANGED <<optionVars, specVars, cli, hosted, deleting, curatorVars>>

\* The destroy curation: both prehooks one by one, the uninstallation, which is
\* over when the HostedCluster is gone, both posthooks.
LaunchHook ==
    /\ \/ /\ curation = "requested" /\ curation' = "prehooks"
          /\ conditions' = conditions \ {"prehook-ansiblejob"}
          /\ ansibleJob' = [stage |-> "destroy", hook |-> "pre", nth |-> 1, state |-> "new"]
       \/ /\ curation \in {"prehooks", "posthooks"}
          /\ ansibleJob.nth = 1 /\ ansibleJob.state = "ok"
          /\ ansibleJob' = [ansibleJob EXCEPT !.nth = 2, !.state = "new"]
          /\ UNCHANGED <<curation, conditions>>
       \/ /\ curation = "uninstalling" /\ "hypershift-uninstalling-job" \in conditions
          /\ curation' = "posthooks"
          /\ ansibleJob' = [stage |-> "destroy", hook |-> "post", nth |-> 1, state |-> "new"]
          /\ UNCHANGED conditions
    /\ UNCHANGED <<optionVars, specVars, cli, hubVars>>

TowerUpdatesJob ==
    /\ \/ ansibleJob.state = "new" /\ ansibleJob' = [ansibleJob EXCEPT !.state = "running"]
       \/ ansibleJob.state = "running" /\
              \E r \in {"ok", "failed"} : ansibleJob' = [ansibleJob EXCEPT !.state = r]
    /\ UNCHANGED <<optionVars, specVars, cli, hubVars, curation, conditions>>

CuratorUninstalls ==
    /\ curation = "prehooks" /\ ansibleJob.nth = 2 /\ ansibleJob.state = "ok"
    /\ curation' = "uninstalling" /\ conditions' = conditions \cup {"prehook-ansiblejob"}
    /\ deleting' = deleting \cup ({clusterName} \cap hosted)
    /\ UNCHANGED <<optionVars, specVars, cli, hosted, managed, ansibleJob>>

CuratorUninstalled ==
    /\ curation = "uninstalling" /\ clusterName \notin hosted
    /\ "hypershift-uninstalling-job" \notin conditions
    /\ conditions' = conditions \cup {"hypershift-uninstalling-job"}
    /\ UNCHANGED <<optionVars, specVars, cli, hubVars, curation, ansibleJob>>

EnvironmentStep ==
    \/ \E c \in Clusters : CLIDeletes(c) \/ CLIExits(c)
                           \/ HostedClusterGone(c) \/ ManagedClusterGone(c)
    \/ LaunchHook \/ TowerUpdatesJob \/ CuratorUninstalls \/ CuratorUninstalled

Ended == verdict # "running" /\ UNCHANGED vars
Next == SpecStep \/ SuiteInterrupted \/ EnvironmentStep \/ Ended
Spec == Init /\ [][Next]_vars

\* The test process runs; the hub and the CLI owe nothing.
FairSpec == Spec /\ WF_vars(SpecStep)

-----------------------------------------------------------------------------
(* Properties                                                              *)

\* Whatever runs while the spec works its way through the hub, no cluster is
\* ever destroyed but those the spec is about: the ones of its platform, or the
\* one that is named.
DestroysOnlyItsClusters == deleting \subseteq Mine

\* Whichever call ends the spec, it leaves no hcp process behind that goes on
\* destroying.  Two are left out: the AWS spec for all clusters, which has registered
\* nothing that would stop the first process while it waits for it, and a spec that
\* ginkgo gives up, of which no deferred call runs.
LeavesNoCLI ==
    ~(platform = "aws" /\ scope = "all") /\ verdict \notin {"running", "interrupted"} =>
        \A c \in Clusters : cli[c] # "running"

\* A spec that passes has detached every cluster it was about, each after its
\* deletion was asked for; none is lost between the two loops.
PassMeansDetached ==
    verdict = "passed" =>
        /\ found # {} /\ found \cap managed = {}
        /\ Curated \/ \A c \in found : cli[c] = "exit0"

\* A spec that passes has destroyed every cluster it was about.
PassMeansDestroyed == verdict = "passed" => found \cap hosted = {}

\* With curation, a pass does mean that the HostedCluster is gone.
CuratedPassMeansDestroyed == Curated => PassMeansDestroyed

\* The AnsibleJob that ends the posthook wait is one of the destroy curation,
\* not the posthook the install curation left in the condition.
PosthookOfThisCuration == accepted # NoJob => accepted.stage = "destroy"

\* How the spec looks to the owner of the hub: the clusters behind the second loop,
\* or behind the wait for the one the loop is at, have been seen detached.
Phase == CASE verdict \in {"passed", "skipped"} -> verdict
           [] verdict \in {"failed", "panicked", "interrupted"} -> "failed"
           [] verdict = "running" -> IF pc = "read" THEN "listing" ELSE "working"
Observed == CASE verdict = "passed" -> found
              [] pc = "destroyed" -> found \ left
              [] pc \in {"uninstalled", "postJob", "detached"} /\ verdict # "passed" ->
                     found \ (left \cup {target})
              [] OTHER -> {}

Contract == INSTANCE DestroyContract
    WITH mine <- Mine, phase <- Phase, targets <- found, observed <- Observed

\* All four specs keep the contract, with two loops over one list, a CLI or a
\* curator that deletes while they wait, and hubs that lose clusters meanwhile.
ImplementsContract == Contract!ContractSpec

\* The spec ends with a verdict, whatever the hub does not do.
SpecConcludes == <>(verdict # "running")
=================================================================================
