# Verification of the hypershift add-on e2e test suite

This directory holds TLA+ models of the test harness in `src/e2e-go`, a Go and Ginkgo suite that creates, upgrades and destroys hosted clusters on an ACM or MCE hub, the TLC runs that check them, and the TLAPS proofs about them.

The program under verification is itself a test suite. Its correctness is that of its verdicts and of its traces on the hub:

1. a spec that passes has seen what its text promises;
2. a spec does not fail when the hub did what it was asked to do;
3. every spec ends with a verdict, whatever the hub does not do;
4. a spec touches only what it is about, puts back what it changed, and leaves no process behind;
5. the report says what happened.

What makes this hard is that a spec is one of several actors. Between any two of its API calls the hub's controllers, the `hcp` process it started, the curator with its Ansible jobs, other clients and other Ginkgo processes go on working; conditions of an earlier run are still there; any call can fail, also after it took effect; and every wait can time out.

## 1. Inventory

### Components of the repository

| Component | Source (`src/...`) | State | Operations | Module |
|---|---|---|---|---|
| suite and report | `e2e-go/pkg/test/hcp_suite_test.go`, `utils/reporter.go`, `utils/hypershiftaddon.go` | package variables of each process, spec states, the OIDC secret, the JUnit file | BeforeSuite steps, ReportAfterSuite, `GenerateJUnitReport` | `SuiteRun` |
| create specs | `hcp_aws_create_test.go`, `hcp_kubevirt_create_test.go` | position in the It, the CLI process, the AnsibleJob read before a wait | start the CLI, set up tower secret and ClusterCurator, ten kinds of waits | `ClusterCreate` |
| destroy specs | `hcp_aws_destroy_test.go`, `hcp_kubevirt_destroy_test.go` | list of clusters, position in two loops, CLI processes | list, destroy each, verify each, with or without curation | `ClusterDestroy` |
| upgrade specs | `hcp_channel_upgrade_test.go`, `hcp_control_plane_upgrade_test.go`, `hcp_nodepool_upgrade_test.go` | position in the It; the ClusterCurator all three share | write a request, wait for the curator job, read the hub | `CuratorUpgrade` |
| S3 secret spec | `hcp_rhacm4k-21843_test.go` | pod names, the copy of the secret | change the secret, wait for a new pod, restore | `S3SecretReinstall` |
| hosted cluster and curator helpers | `utils/hostedcluster.go`, `utils/clustercurator.go` | none of their own | every write to, and wait for, HostedClusters and the ClusterCurator | in the modules of their callers |
| managed cluster helpers | `utils/managedcluster.go`, `utils/mce_acm.go` | none | waits for import, add-ons (of an ACM or an MCE hub), detachment | `ClusterCreate`, `ClusterDestroy` |
| resource and pod queries | `utils/utils.go` | none | Get, List, secrets, latest pod | in the modules of their callers, partly |
| options | `utils/options.go`, `options_template.yaml` | `TestOptions`, read from a file; flags and environment | `LoadOptions`, one lookup per option | `Options`, loaded in `SuiteRun`; what a spec branches on is an option variable of its module |
| curator templates | `pkg/resources/clustercurator/*.yaml` | - | - | hooks, stages and fields the specs depend on |
| CLI link specs | `hcp_common_cli_route_test.go` | - | string comparisons, HTTP GET | only their skip, in `SuiteRun` |
| metrics spec | `hcp_metrics_test.go` | counts | Prometheus queries | not modelled |
| must-gather | `hcp_must_gather_test.go`, `scripts/must-gather` | files | one external command | not modelled |
| setup scripts, manifests, pipelines | `scripts/setup`, Jenkinsfiles | - | `oc`, `aws`, `curl` | not modelled |

### How they interact

* Ginkgo runs `BeforeSuite` on process 1, then the selected specs on every process, then `ReportAfterSuite`. Package variables are the only thing specs share in memory; they exist once per process.
* Specs share the hub. The upgrade specs and the curated destroy spec use one ClusterCurator, named like the configured cluster, which a create spec of an earlier run may have made; a create spec makes its own, under a generated name; the S3 secret belongs to the add-on and to whoever configures it.
* A spec asks through API objects (a ClusterCurator, a Secret) or through the `hcp` process, and learns the answer by polling (`Eventually`, or a hand-written loop).
* The actors on the other side, modelled as far as the code relies on them and marked external, are the hcp CLI, cluster-curator-controller with its curator jobs, the Ansible Tower operator, the hypershift operator, the import controller, the add-on agent, other clients of the hub, and Ginkgo.

### Hard behaviours

`PROJECT.json` lists each hazard at its line. The main families:

* **stale state**: conditions and AnsibleJobs of an earlier curation, an object read before `Eventually` and polled inside it, a HostedCluster looked up without its namespace;
* **atomicity**: read-change-update of a secret, a request written with four patches while a controller watches, a pod listed and then fetched;
* **ordering**: the curator is set up while the CLI still creates the cluster; jobs of a spec that gave up end during the next one;
* **partial failure**: a patch that took effect and returned an error, a process that outlives the spec, failures outside a spec that never reach the report;
* **liveness**: more than thirty polled waits for a hub that owes nothing.

## 2. Modules

Data is abstract: clusters, versions, channels, pods and specs are model values or small numbers; an Ansible job is its stage, hook and state. Control is not: every call of a spec is a step of its own, so that the other actors can come between any two, and every early return, failure and timeout is a disjunct.

### HostedClusterHub, UpgradeContract, CuratorUpgrade

`HostedClusterHub` has no variables: it defines what the upgrade specs read (channel, release, the NodePools' releases), when the hub *reflects* an upgrade (`ContainSubstring`, given as the relation `Contains`), and when a spec is skipped.

`UpgradeContract` is the abstract specification, what a reader of a test report relies on: specs run one at a time, verdicts are final, a spec is skipped only when the options do not ask for it, and it passes only after it observed, while running, a hub that reflects its upgrade. The hub may change at any time.

`CuratorUpgrade` is the code. `pc` is the next call of the running spec:

| `pc` | code |
|---|---|
| `ensureHC`, `listNodePools` | the first two steps of each It, with the Skip (control plane spec lines 44-54) |
| `createCurator` | `CreateOrUpdateClusterCuratorForChannelUpgrade`: a template without `desiredCuration` |
| `setChannel`, `setUpdate` | the two merge patches of `spec.upgrade` |
| `setCuration` | `SetDesiredCuration("upgrade")`, always last |
| `waitJob` | `Eventually(CheckCuratorCondition(clustercurator-job))`, any message |
| `verify`, `readHC` | the reads after the wait; the nodepool spec then reads the control plane's release and compares it with nothing |

`Written` lets a patch reach the server and still return an error; `CallFails` is an error without effect. The controller (`LaunchJob`, three job steps, `FinishJob`) runs concurrently and reacts only to a change of the resource. `trigger`, `releaseBefore` and `accepted` are history variables. The constant `ReplacesSpec` says what `applier.Apply` does with the `.spec` of an existing resource (replace it, or merge into it), which is decided in a library outside this repository; the runs take the replacing one. With a merging one a job can start from the fields of two specs, so `JobCarriesRequest` is about that assumption, too. `EarlierCurator` says whether a ClusterCurator of an earlier test run may be there.

`Contract == INSTANCE UpgradeContract WITH phase <- ...` is the refinement mapping: a spec is *waiting*, *running*, has *observed* (between the two reads of the nodepool spec), or has its verdict.

### CreateContract, ClusterCreate

`CreateContract` is the promise to who reads the verdict of a create spec: the options settle which milestones the cluster has to reach (`Required`); the spec observes them one at a time, each at a moment when the hub shows it; it passes with the last of them, and never without one. A milestone is named by the wait for it, and `Shows(m)` says what of the hub, the CLI and the curator makes it true, apart from the calls of `Body` that wait for it. `Observed` are the milestones behind the spec.

The It of each platform is a sequence of calls (`AwsBody`, `KubevirtBody`); `at` is the index of the next one, and a call the code guards with `CURATOR_ENABLED` is passed over without it (`PassOverCuration`). The two differ where it matters: the AWS spec registers `gexec.KillAndWait` right after it starts the CLI and waits for the CLI before it sets up the curator; the KubeVirt spec does both later; the AWS spec reads the AnsibleJob once before its posthook wait (`readPostJob`), the KubeVirt spec at every poll; and only the AWS spec waits for `clustercurator-job`.

`Satisfied(step)` is what a wait polls and `HookWaitPanics` the type assertion on an AnsibleJob without status. `WaitTimesOut` may happen whether the condition holds or not: `Eventually` gives up on its clock without a last poll, and a poll whose Get fails has found nothing. The one exception is the posthook wait of the AWS spec, which polls an object it already has, so that its first poll decides. `ReadPostHookJob` gets the AnsibleJob or, when the Get fails, nothing; the code keeps the error like the object, for all polls. `PosthookPollIsFalse` is a poll of the posthook wait that is answered and finds nothing, and the history variable `missed` says that one of them found nothing although all posthooks had ended. Which add-ons are waited for depends on the hub: `IsACMInstalled` asks for the MultiClusterHub, and its error is an error of `WaitForClusterAddonsAvailable` before it has looked at any add-on, which both specs drop; otherwise `addOn` goes through the list of an ACM or of an MCE hub (`checking`), and waits again for an add-on the list names again. `addLabels` is the second, identical wait for the labels in the KubeVirt spec.

A spec ends in one of two ways. `End` is an end of the It by itself (a pass, a failed assertion, a panic): deferred calls run, so a process with a registered `KillAndWait` is stopped. `SuiteInterrupted` is the timeout of the suite or a signal, at any call: the It takes no `SpecContext`, so ginkgo abandons its goroutine and ends without running its deferred calls, and the verdict is *interrupted*.

A ClusterCurator of the spec's name may exist initially, as a curation leaves it that ended or was interrupted at any hook (`LeftByEarlierRun`). Names are generated, so this is rare; the code provides for it ("destroy any existing clustercurator first if it exists in the same ns with same name", `hcp_aws_create_test.go:91`), and `DeleteClusterCurator` takes it away.

### DestroyContract, ClusterDestroy

`DestroyContract` is the promise to the owner of the hub: a spec settles once which clusters it is about, and leaves out none of its own that is on the hub at that moment; no other cluster is ever being deleted, also after the spec has ended; it is skipped only when there is nothing of its own; it passes only after it has observed each target detached. `Contract == INSTANCE DestroyContract WITH ...` maps the position in the two loops to the clusters observed so far: those of the list that are neither ahead of the second loop nor the one it is at.

All four specs (`scope` all or one, two platforms). For *all*, `GetHostedClustersList` is read once, a first loop starts an hcp process per cluster and waits for it, a second one over the same list waits until each HostedCluster is destroyed and each ManagedCluster detached. For *one*, the cluster is `HCP_CLUSTER_NAME`; on KubeVirt with `CURATOR_ENABLED` a destroy curation replaces the CLI. `HasHostedCluster` is FALSE because `WaitForHostedClusterDestroyed` asks for the namespaced resource without a namespace and takes the NotFound for an answer. `End` stops the processes if `KillAndWait` is registered; the AWS spec for all clusters registers it only after the first wait. `WaitFails` and `SuiteInterrupted` are as in `ClusterCreate`: a wait may time out with its condition true, and an interrupted spec runs no deferred call.

### SecretContract, S3SecretReinstall

`SecretContract` is the promise to those who share the secret: the spec adds one key of its own, once (unless a run whose AfterEach failed has left it there), and only to a secret with a region; it takes it out once, at its end; each of its writes is a single step that leaves the rest of the secret as it is at that moment; and it passes only by taking its key out. That the code needs a Get and an Update for each, with other writers between them, is what the refinement is about (`Phase` maps `pc` to *adding*, *holding* and the verdict).

`secret.version` stands for `resourceVersion`: `Update` succeeds only on the version it has read, and one that changes nothing makes no new version. `UpdateSecret` is three steps (Get, Update, Get), the AfterEach two (Get, Update), `GetLatestCreatedPod` two (List, Get). Creation times are whole seconds, so several pods can be the latest; the first in list order is taken. The Get drops every error, that of a pod that is gone and that of a call that failed, and then an empty Pod (name 0) is used: `PodGot` has the empty name at any time, and `CallFails` leaves these two Gets out because they cannot fail the spec. Other clients write the secret, the add-on agent starts an install job some time after a change, pods come and go.

### Options, SuiteRun

`Options` has no variables. `OptionsFile` is the choice of the file: the flag, then `OPTIONS_FILE`, then the default, the first name that is not empty, without a way back when that file cannot be read. `Lookup(option, cloud, env, file)` is the getter of an option: the environment variable, the file, a default or an error, in the order and with the exceptions of its function, and with the *source* of the value for a result. `S3Creds` is the pair of access key id and secret key: from the environment only if both are there, else both from the file.

`BeforeSuite` is the list of steps of the first function of `SynchronizedBeforeSuite`, which runs on process 1 alone. The constant `Inputs` has what a run can be started with (environment, flag, files, report file). `LoadOptions` sets `testOptions`; `CreateOIDCProviderSecret` creates the secret from `S3Creds`, or leaves one alone that is there, whoever made it. `Awaited` are the parts of the hub the steps look at, `Parts` those they announce: external-dns is named and never looked at. `initialised` is the set of processes whose package variables are set. Specs are started by any process and end as `Outcomes` says: a link spec is skipped on a process that is not initialised, the other specs fail, panic on their nil clients, or get by without them; when the suite is interrupted or timed out, so are the specs under way. `GenerateJUnitReport` is the switch of `reporter.go`, counted over the states of the specs; `ReportAfterSuite` ends the suite (`over`) whether or not the file could be written.

### Proof and MC modules

`CuratorUpgradeProofs`, `ClusterCreateProofs`, `ClusterDestroyProofs`, `S3SecretReinstallProofs` and `SuiteRunProofs` extend the module they are about; `CuratorUpgradeJobProofs` extends `CuratorUpgradeProofs` with the theorems about which job ends a wait, and `CuratorUpgradeFreshProofs` extends that one with the theorems about one selected spec. `MC*` modules give the constants their values for TLC.

## 3. Runs

Deadlock is checked in every run; a spec, or suite, that has ended stutters explicitly (`Ended`, `Finished`).

| Run | Bounds | What it shows |
|---|---|---|
| `upgrade_suite` | three specs in any order, an earlier ClusterCurator in any state, one NodePool, two versions, two channels, type ControlPlane | type correctness; the contract is kept (`ImplementsContract`); a curator job never starts from half a request or from fields of two specs (`JobCarriesRequest`); the wait ends on another's job only before the controller has reacted to the spec's own request (`ForeignJobOnlyInRace`), and after a wait that ended on its own job the spec finds its upgrade carried out (`OwnJobMeansUpgraded`); every spec gets a verdict (`EverySpecConcludes`) |
| `upgrade_fresh` | the nodepool spec alone (what its label selects), no earlier curator, two NodePools upgraded one by one, three versions of which one contains another | the spec's own job ends its wait, a finished upgrade is never reported as failed, it passes on the desired version itself, and the control plane keeps its release |
| `upgrade_stale_job` | as `upgrade_suite`, no earlier curator | **violation** of `OwnJobAccepted`: the second spec accepts the first one's job |
| `create` | both platforms, an ACM hub with three add-on entries of which one is repeated and an MCE hub with one, with and without curation, an earlier ClusterCurator left at any hook, a suite interrupted at any call | the AWS spec leaves no CLI behind when it ends by itself, whichever call ends it, and passes only if all four hooks succeeded; no control plane before the prehooks; a spec panics only on an AnsibleJob of its own curation; a pass has seen every add-on of the hub's list, or none because the list was not known; a poll that is answered misses posthooks that are all finished in the AWS spec alone, only because what it polls was read earlier or could not be read, and such a spec never passes (`PosthookMissIsStaleRead`); the contract is kept (`ImplementsContract`); a verdict |
| `create_stale_posthook` | as `create` | **violation** of `PosthookWaitSeesTheJob`: a poll of the AWS spec is answered and does not see that all posthooks are finished |
| `destroy` | every hub with up to three clusters of two platforms, every option, a suite interrupted at any call | the contract is kept (`ImplementsContract`); only the right clusters are destroyed; a pass means detached, and gone with curation; the posthook waited for is one of this curation; three of the four specs leave no process behind when they end by themselves; a verdict |
| `destroy_vacuous_wait` | as `destroy` | **violation** of `PassMeansDestroyed`: a spec passes with the HostedCluster on the hub |
| `s3_secret` | three pods in all, two seconds, one write of another client, the test key there or not | the contract is kept (`ImplementsContract`); no lost update; a pass leaves the secret clean; a pass has seen a new install pod if no pod was deleted and Step 1 got the name of a pod (`NewInstallUnlessPodMissed`); a verdict |
| `s3_older_pod` | as `s3_secret` | **violation** of `PassMeansNewInstall`: a pass on an install pod that was there before, because the Get of Step 1 failed or the latest pod was deleted |
| `suite` | two processes, three specs (one CLI link spec), timeout and signal, five ways to start the run | no spec before the S3 secret is there and every part of the hub but external-dns, which is announced and never looked at, was seen healthy (`OnlyExternalDNSUnchecked`); an S3 secret the run creates has the key the run was given (`SecretAsConfigured`); failures are counted; the columns add up; only a failing BeforeSuite and the timeout of the suite are lost (`OnlySetupAndTimeoutsAreLost`); the suite is over, with a report if there is a file that can be written |
| `suite_parallel` | as `suite` | **violation** of `RunsInitialised`: the second process runs specs with nil clients |
| `suite_report` | as `suite` | **violation** of `FailureReachesReport`: a failed run is a report without a failure |

Why these bounds are enough:

* *Upgrade.* Interference needs two specs, and a third for what an interrupted second one leaves; the specs are three. Two versions and two channels tell old from new; the third version in `upgrade_fresh` is the one that contains the desired one as a substring. Two NodePools make an upgrade that is half done.
* *Create.* The hooks are the four of the template. One cluster, because a spec creates one. The lists of add-ons tell an add-on named twice from two add-ons, and an ACM hub from an MCE hub.
* *Destroy.* Two clusters of one platform make both loops go round; a third one of the other platform is the stranger that must survive.
* *S3 secret.* The violation needs two pods; the third lets one be created as well as deleted. `MaxTime = 1` has pods of the same second and of different seconds. `MaxWrites = 1` is one conflicting write, which can fall between any two calls of the spec. The theorems below hold for any bounds.
* *Suite.* The second process is the one that differs from the first. Three specs let one wait, one run and one be finished. The five inputs have both parts of the key, one or none in the environment, and a counting options file with both, one or none, or one that cannot be read although another exists; the report file is unset, writable or not.

### Fairness

Only the test process is assumed to run: weak fairness of `SpecStep` (and of `StartSpec`, Ginkgo's next spec). A wait always has an enabled step, its success or its timeout, because `Eventually` and `exec` contexts end by the clock; fairness of the disjunction does not favour either. `S3SecretReinstall` needs strong fairness of `Step3TimesOut`: its hand-written loop alternates between List and Get, the timeout is enabled only at the top of it, and the clock of five minutes does run out. Nothing is assumed of the hub, the CLI, the curator or other clients: they may stop at any point. In `SuiteRun` the fair step is Ginkgo's, and that a spec ends is what the other modules show.

## 4. Proofs

The theorems hold for all values of the constants that satisfy the named assumptions in the modules.

**CuratorUpgradeProofs.** `TypeCorrect`; `RequestsAreWhole` (`JobCarriesRequest`, assuming `ReplacesSpec`); `UpgradeImplementsContract` (`ImplementsContract`). Type correctness is inductive only with `Scheduling`: which spec may be at which call, and that a spec under way has no verdict. For `JobCarriesRequest` the types say nothing; `RequestInv` adds that the resource is without `desiredCuration` while a request is being written, that the fields written so far are those of the running spec, and that whenever a change is unseen and `desiredCuration` is `upgrade`, the request is the one of the spec that triggered it. The refinement is one lemma per action: each maps to a step of the contract or to a stutter. `UpgradeCallsRunOut` (`CallsRunOut`): see *Bounded calls* below.

**CuratorUpgradeJobProofs.** For any selection and order of the specs and any earlier ClusterCurator, assuming `ReplacesSpec`: `ForeignJobsNeedTheRace` (`ForeignJobOnlyInRace`), `OwnJobsUpgrade` (`OwnJobMeansUpgraded`), `OwnJobRaisesNoFalseAlarm`. Together they say exactly how far the finding of `upgrade_stale_job` reaches: a foreign job ends the wait only if its condition is read before the controller has reacted to the last patch, and without that race the spec neither passes nor fails wrongly at its verification. `OwnJobInv` adds three parts to `StepInv` and `RequestInv`. `ReadyInv`: a spec that writes has checked its options and the hub (`Ready`), and so has the one whose unseen request is in the resource. `AskedInv`: no job and no trigger is of a spec that has not made its last write, and while a spec waits, the job is its own exactly when the controller has reacted (that the last write is always a change rests on `RequestInv`: `desiredCuration` was unset). `DoneInv`: a job of a spec carries its request; finished, its work is on the hub, and while its spec looks at it the controller has nothing to do.

**CuratorUpgradeFreshProofs.** Under `OneFreshSpec` (`ReplacesSpec`, no earlier ClusterCurator, exactly one selected spec, which may be any of the three): `FreshSpecAcceptsItsJob` (`OwnJobAccepted`), `FreshSpecRaisesNoFalseAlarm` (`NoFalseAlarm`), `FreshSpecLeavesControlPlane` (`ControlPlaneUntouched`), `FreshSpecPassesOnDesiredVersion` (`PassedOnDesiredVersion`). The finding of `upgrade_stale_job` says what happens with two specs; these say that it takes two, or an earlier curator. `FreshInv` adds to `OwnJobInv`: the last write comes once (`OnceInv`); a condition is of the one job, which the spec has asked for and which the controller has started (`JobInv`); past the wait, and with a pass, it has finished (`VerdictInv`). `NoValueAssumption` (an unset option is no version, channel or type) is needed to tell a request that has a field from one that has not.

**ClusterCreateProofs.** `TypeCorrect`, `StartedCLIIsStopped` (`AwsLeavesNoCLI`), `PausedUntilPrehooks` (`PrehooksBeforeProvisioning`), `PassMeansHooksSucceeded` (`AwsPassMeansHooksSucceeded`), `PanicsOnlyOnOwnCuration` (`PanicIsOfOwnCuration`), `AddOnsSeenOrNotLookedAt` (`PassMeansAddOnsSeen`). `Past(step)` says that a call lies behind the index `at`; the invariant ties it to the hub: `CleanupInv` (a running process of the AWS spec is one of a running spec that has registered its cleanup or does so next, or of one that was given up), `CuratorInv` (which ClusterCurator is there: the earlier one until `DeleteClusterCurator`, none until the spec applies its own), `HookInv` (with curation a cluster is provisioned only after the success of both prehooks of the spec's own curator, and the last condition means that all hooks succeeded), `PassInv` (a pass has every call behind it, and a known list of add-ons has then been seen whole).

`PosthookMissesAreStale` (`PosthookMissIsStaleRead`) and `CreateImplementsContract` (`ImplementsContract`) need `JobInv` as well: `current-ansiblejob` names the last hook that was launched, all hooks before it have succeeded (`LaunchInv`); a finished AnsibleJob the AWS spec has read before its wait is still what it was (`ReadJobInv`), which no later curation can change because the earlier ClusterCurator is gone by then; and a spec that has missed the finished posthooks is the AWS spec in its posthook wait, with something in hand that will never satisfy it (`MissInv`). So the object kept from before the wait can make the spec fail wrongly, never pass wrongly. A KubeVirt spec can fail wrongly, too, when its last poll was too early or its Gets fail, but no answered poll of it is wrong. `CreateCallsRunOut`: see below.

**ClusterDestroyProofs.** `DestroyImplementsContract` (`ImplementsContract`), `TypeCorrect`, `DestroysOnlyTheirs`, `StopsTheCLI`, `PassIsDetached`, `CuratedPassIsDestroyed`, `PosthookIsOfThisCuration`. The invariant has four parts besides the types. `ScopeInv`: what is found, what has an hcp process and what is being deleted lies within `Mine`, and a destroy curation under way is that of the cluster the spec has found. `CurationInv`: the destroy curation goes forward, and once the uninstall condition is there the HostedCluster is gone and the AnsibleJob is of the destroy stage; this is why a curated spec may pass although the wait for the HostedCluster is empty, and why its posthook wait cannot end on the posthook of the install curation. `CleanupInv`: a running process belongs to a running spec that has registered its cleanup, or to one that was given up. `LoopInv`: how far the two loops are, which relates `left`, `target`, exit codes and ManagedClusters at each call. The refinement is one step per action: most are stutters, because a wait that ends moves a cluster from `left` to `target`, and only the wait for the detachment moves it out of both. `DestroyCallsRunOut`: see below.

**S3SecretReinstallProofs.** `SecretImplementsContract` (`ImplementsContract`), `TypeCorrect`, `NoWriteIsLost`, `SecretIsRestored`, `SeesANewInstall`. `SecretInv`: a version names one content, so a copy with the current version *is* the secret, and no update based on it undoes anything; it also bounds the version, which types it. `PodInv`: without deletions Step 1 keeps the name of the pod it has chosen or, when its Get fails, none; the chosen pod stays the latest of those of Step 1, so a later choice is that pod or a new one. `SeesANewInstall` (`NewInstallUnlessPodMissed`) therefore needs both of its conditions, no deletion and a name in Step 1, and `s3_older_pod` shows a wrong pass without them; failing Gets in Step 3 do no harm. `PodInv` rests on two lemmas about the choice (`MinOfNames`, from the well-foundedness of the subset ordering on finite sets, and `ChoiceIsStable`). The refinement adds `KeyInv` (the spec writes its key only to a copy with a region): an Update that succeeds is based on the current version, so it maps to one step of the contract, and all reads map to stutters.

**SuiteRunProofs.** `TypeCorrect`, `ChecksComeFirst` (`OnlyExternalDNSUnchecked`), `SecretFollowsOptions` (`SecretAsConfigured`), `CountsFailures`, `ColumnsAddUp`. `Checked` says which checks lie behind the index of BeforeSuite, `Reporting` that nothing moves once the report is written; the columns follow from the cardinality of disjoint sets. `SecretFollowsOptions` rests on `S3CredsAreOneKey`, a case analysis of the lookups, and on the options being loaded before the secret is created. `LossesAreExplained` (`OnlySetupAndTimeoutsAreLost`) and `SerialRunsAreInitialised` (`RunsInitialised`, assuming `Procs = {1}`) bound two findings: only a failing BeforeSuite and the timeout of the suite leave a failed run without a failure in its report, and only the processes other than the first lack their clients. `SuiteStepsRunOut`: see below.

**Bounded calls.** `UpgradeCallsRunOut`, `CreateCallsRunOut`, `DestroyCallsRunOut` and `SuiteStepsRunOut` are the safety half of the liveness properties. Each has a variant over the natural numbers (`CallsAhead`, `StepsAhead`, defined in the proof module), and states that every step of the test process, an interruption included, decreases it and that every step of the hub leaves it as it is. So no spec goes back to a call it has made and no loop starts again; what is left to fairness is that a call returns or a wait times out. The theorems need that the sets the loops go over are finite (`ClustersAssumption`; the lists of add-ons are sequences, the selected upgrade specs three by name), and the cardinality facts of `FiniteSetTheorems`. No run lists them; the runs check the liveness properties, which say that the end is reached as well. `S3SecretReinstall` has no such variant: its hand-written loop polls as often as its clock allows.

Every finding of section 5 has a theorem that says where it ends: `ForeignJobsNeedTheRace` and `OwnJobRaisesNoFalseAlarm`, `PosthookMissesAreStale`, `CuratedPassIsDestroyed`, `SeesANewInstall`, `SerialRunsAreInitialised`, `LossesAreExplained`.

Only model-checked: liveness (`EverySpecConcludes`, `SpecConcludes` of three modules, `SuiteReports`), which is beyond this prover, as ENABLED is. Every invariant, action property and refinement of a passing run is proved.

## 5. Findings

Each is a run that ends in a counterexample; `PROJECT.json` quotes the lines.

* `hcp_channel_upgrade_test.go:64`: the wait "for upgrade completed" accepts the condition of an earlier job.
* `hcp_aws_create_test.go:141`: the AnsibleJob is read once before `Eventually`; a posthook that is still running then, or a Get that fails then, can only time out.
* `hostedcluster.go:103`: the wait for the destruction asks without a namespace and never waits.
* `hcp_rhacm4k-21843_test.go:68`: "another name" is taken for "a new pod". The name of Step 1 may also be empty, because `GetLatestCreatedPod` drops every error of its Get (`utils.go:479`).
* `hcp_suite_test.go:222`: only process 1 is initialised, so the parallel run of the README cannot work.
* `reporter.go:89`: failures of BeforeSuite and timed-out specs are in no failure or error element.

Properties that do not hold for one spec but for the others say so in their condition: the cleanup of the CLI (not the KubeVirt create spec, not the AWS destroy spec for all clusters), the success of all hooks (not the KubeVirt create spec). No spec stops its `hcp` process when the suite times out or is interrupted, and with waits of 30 minutes and more under a suite timeout of 30 minutes (the one the README of `e2e-go` gives) or of an hour (the default of ginkgo) that is likely: `AwsLeavesNoCLI` and `LeavesNoCLI` are about specs that end by themselves. A create spec that passes has seen the add-ons unless the list was not known.

One disagreement is stated by a property that holds. `hcp_suite_test.go:148` announces "Check if the hypershift operator is healthy by checking both operator and external-dns deployments", and the comment at `hypershiftaddon.go:12` says "checks if the operator and external-dns operators are in healthy state"; the code looks at the operator only. `OnlyExternalDNSUnchecked` in the run `suite` says exactly this: when specs start, every announced part has been seen healthy except external-dns, which never has. It fails if another check is left out, and also as soon as the code checks external-dns.

Without a run, because no property is about them: the comment above `LoadOptions` names the variable `OPTIONS`, the code reads `OPTIONS_FILE` (`options.go:126-139`); the README of `e2e-go` documents `PULL_SECRET_FILE`, the code reads `PULL_SECRET`.

## 6. What is not modelled, and why

* Texts: log lines, error messages, names of report entries, labels and annotations by name. No property is about them.
* The failures of the BeforeEach of the create specs (no credentials file, no role) as steps of their own: they are the failing disjunct of `StartCLI`, before which nothing has happened.
* `GetOwner` and `GetFileName`, which only make names and text.
* The metrics and must-gather specs, the bodies of the CLI link specs: external queries compared with a constant or with text. They change nothing, and what they could get wrong is decided outside the repository (how far a gauge lags, what a server answers). `PROJECT.json` keeps their hazards with that note.
* Setup scripts, manifests, pipelines: straight-line sequences of external commands, with three polling loops around them.
* What an abandoned It still does. When the suite times out or is interrupted, the goroutine of the It may go on for a moment until the process ends. `ClusterCreate` and `ClusterDestroy` end the spec at that point (`SuiteInterrupted`) and leave the calls it might still make out. `CuratorUpgrade` and `S3SecretReinstall` have no such end: a spec that stops there looks like one whose next call failed, but its AfterEach would run while its It might still write.
* Helpers without a caller: `WaitForAllClusterAddonsAvailable`, `VerifiesAllPodsAreRunning`, `GetLatestCreatedPodWithOptionPrefix`, `GetPodsInfoList`, `WaitForSuccess`, `GetACMNamespace`, `IsMCEInstalled`, `GetProviderCreds`, `DeleteOIDCProviderSecret`, `GetResourceDecodedSecretValue`.
* A create spec and an upgrade spec of one run on one ClusterCurator: the create specs generate a new name for their cluster, the upgrade specs use the configured one, so within one run they meet on different ClusterCurators.

## 7. Plan

Done, in this order: the upgrade specs with their contract and proofs (the only part where specs share a resource and race a controller), the create and destroy specs, the S3 secret spec, the suite and its report, the proofs about each of them, the options, the two kinds of hub, the contracts of the destroy, create and S3 secret specs, and the proofs of what bounds each finding.

Left:

1. *Pod and resource queries.* `GetLatestCreatedPodWithOptionPrefix` (whose loop variable is shared by all iterations in go 1.20) and `VerifiesAllPodsAreRunning`, once a spec calls them.
2. *CLI link specs.* The choice of the link by a part of its address, if they come to test more than one answer of a server.
