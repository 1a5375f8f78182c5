--------------------------- MODULE ClusterDestroyProofs ---------------------------
(***************************************************************************)
(* Theorems about ClusterDestroy, for any clusters on the hub, either      *)
(* platform, and every value of the options.                               *)
(***************************************************************************)
EXTENDS ClusterDestroy, FiniteSetTheorems, TLAPS

(***************************************************************************)
(* The inductive invariant                                                 *)
(***************************************************************************)

\* Who destroys: an hcp process for a cluster the spec has found, or the curator
\* of the named cluster.
ScopeInv ==
    /\ found \subseteq Mine /\ deleting \subseteq Mine
    /\ pc = "read" => found = {} /\ target = NoValue
    /\ \A c \in Clusters : cli[c] # "notStarted" => c \in found
    /\ pc \in {"setCuration", "preCondition", "uninstalled", "postJob"} => Curated
    /\ curation \notin {"absent", "installed"} => Curated /\ clusterName \in found

Uninstalled == "hypershift-uninstalling-job" \in conditions

\* The order of the destroy curation.  The condition of the uninstall job is what
\* tells its posthooks from the one the install curation has left.
CurationInv ==
    /\ pc \in {"read", "setCuration"} => curation \in {"absent", "installed"}
    /\ Uninstalled => curation \in {"uninstalling", "posthooks"} /\ clusterName \notin hosted
    /\ curation \in {"prehooks", "uninstalling", "posthooks"} => ansibleJob.stage = "destroy"
    /\ pc = "postJob" \/ (pc = "detached" /\ Curated) => Uninstalled
    /\ accepted # NoJob => accepted.stage = "destroy"

\* A process that runs belongs to a running spec that will stop it, or to one that
\* ginkgo gave up.
CleanupInv ==
    ~(platform = "aws" /\ scope = "all") =>
        \A c \in Clusters : cli[c] = "running" =>
            verdict = "interrupted" \/ (verdict = "running" /\ deferred)

ExitedWell(S) == \A c \in S : cli[c] = "exit0"

\* How far the two loops over found are, as long as the spec has not failed.
LoopInv ==
    verdict \in {"running", "passed"} =>
        /\ pc # "read" => found # {}
        /\ pc \in {"setCuration", "preCondition"} => left = found
        /\ pc = "start" => ExitedWell(found \ left)
        /\ pc = "waitCLI" => ExitedWell(found \ (left \cup {target}))
        /\ pc \in {"destroyed", "detached"} => Curated \/ ExitedWell(found)
        /\ pc = "destroyed" => (found \ left) \cap managed = {}
        /\ pc \in {"uninstalled", "postJob", "detached"} =>
               /\ target \in found \ left
               /\ (found \ (left \cup {target})) \cap managed = {}
        /\ verdict = "passed" => pc = "detached" /\ left = {} /\ target \notin managed

IInv == TypeOK /\ ScopeInv /\ CurationInv /\ CleanupInv /\ LoopInv

-----------------------------------------------------------------------------
(* The initial states                                                      *)

LEMMA LastInstallJobType == LastInstallJob \in AnsibleJobs
  BY DEF LastInstallJob, AnsibleJobs

LEMMA InitIInv == Init => IInv
  <1> SUFFICES ASSUME Init PROVE IInv
    OBVIOUS
  <1>1. TypeOK
    <2>1. curation \in Curations /\ conditions \subseteq Conditions
      BY DEF Init, Curations, Conditions
    <2>2. ansibleJob \in AnsibleJobs \cup {NoJob}
      BY LastInstallJobType DEF Init
    <2>3. QED
      BY <2>1, <2>2 DEF Init, TypeOK
  <1>2. ScopeInv
    BY DEF Init, ScopeInv
  <1>3. CurationInv
    BY DEF Init, CurationInv, Uninstalled
  <1>4. CleanupInv
    BY DEF Init, CleanupInv
  <1>5. LoopInv
    BY DEF Init, LoopInv
  <1>6. QED
    BY <1>1, <1>2, <1>3, <1>4, <1>5 DEF IInv

-----------------------------------------------------------------------------
(* What every step leaves alone                                            *)

LEMMA OptionsFixed == [Next]_vars => UNCHANGED optionVars
  BY DEF Next, SpecStep, SuiteInterrupted, EnvironmentStep, Ended, vars, ReadHostedClusterList, ReadClusterName, StartCLI, CLIExited, SetDesiredCuration,
           PrehooksDone, WaitForHostedClusterDestroyed, UninstallJobDone, PosthookDone,
           PosthookWaitPanics, WaitForClusterDetached, WaitFails,
           CLIDeletes, CLIExits, HostedClusterGone, ManagedClusterGone, LaunchHook,
           TowerUpdatesJob, CuratorUninstalls, CuratorUninstalled

LEMMA MineFixed == [Next]_vars => Mine' = Mine /\ Curated' = Curated
  BY OptionsFixed DEF optionVars, Mine, Curated

\* The spec does not touch the hub.
LEMMA SpecLeavesHub == SpecStep => UNCHANGED <<hubVars, conditions, ansibleJob>>
  BY DEF SpecStep, curatorVars, ReadHostedClusterList, ReadClusterName, StartCLI, CLIExited, SetDesiredCuration,
           PrehooksDone, WaitForHostedClusterDestroyed, UninstallJobDone, PosthookDone,
           PosthookWaitPanics, WaitForClusterDetached, WaitFails

\* A spec step starts from a running spec, and the hub stands still.
LEMMA SpecStepRuns == SpecStep => verdict = "running" /\ UNCHANGED hubVars
  BY SpecLeavesHub DEF SpecStep, At, ReadHostedClusterList, ReadClusterName, StartCLI, CLIExited,
       SetDesiredCuration, PrehooksDone, WaitForHostedClusterDestroyed, UninstallJobDone,
       PosthookDone, PosthookWaitPanics, WaitForClusterDetached, WaitFails

LEMMA EnvironmentLeavesSpec == EnvironmentStep => UNCHANGED specVars
  BY DEF EnvironmentStep, CLIDeletes, CLIExits, HostedClusterGone, ManagedClusterGone, LaunchHook,
           TowerUpdatesJob, CuratorUninstalls, CuratorUninstalled

\* An interruption changes the verdict, and nothing else.
LEMMA OnlyVerdict ==
  SuiteInterrupted =>
      /\ verdict = "running" /\ verdict' = "interrupted"
      /\ UNCHANGED <<optionVars, pc, found, left, target, deferred, accepted, cli, hubVars, curatorVars>>
      /\ UNCHANGED <<hosted, deleting, managed, curation, conditions, ansibleJob>>
  BY DEF SuiteInterrupted, hubVars, curatorVars

\* The outcomes of an hcp process at the end of the It.
LEMMA EndType ==
  ASSUME TypeOK, NEW v \in {"passed", "skipped", "failed", "panicked"}, End(v)
  PROVE  /\ cli' \in [Clusters -> {"notStarted", "running", "exit0", "exit1", "killed"}]
         /\ verdict' = v /\ pc' = pc
         /\ \A c \in Clusters :
                /\ cli[c] # "running" => cli'[c] = cli[c]
                /\ cli[c] = "running" => cli'[c] \in {"running", "killed"}
                /\ deferred => cli'[c] # "running"
  BY DEF TypeOK, End

-----------------------------------------------------------------------------
(* Type correctness                                                        *)

ProcessTypeOK ==
    /\ pc \in {"read", "start", "waitCLI", "setCuration", "preCondition",
               "destroyed", "uninstalled", "postJob", "detached"}
    /\ verdict \in {"running", "passed", "skipped", "failed", "panicked", "interrupted"}
    /\ cli \in [Clusters -> {"notStarted", "running", "exit0", "exit1", "killed"}]
LoopTypeOK ==
    /\ found \subseteq Clusters /\ left \subseteq found /\ target \in found \cup {NoValue}
    /\ deferred \in BOOLEAN /\ accepted \in AnsibleJobs \cup {NoJob}
HubTypeOK ==
    /\ hosted \subseteq Clusters /\ deleting \subseteq hosted /\ managed \subseteq Clusters
    /\ curation \in Curations /\ conditions \subseteq Conditions
    /\ ansibleJob \in AnsibleJobs \cup {NoJob}
OptionsTypeOK ==
    /\ platform \in Platforms /\ scope \in {"all", "one"} /\ curatorEnabled \in BOOLEAN
    /\ clusterName \in Clusters \cup {NoValue}

LEMMA TypeParts == TypeOK <=> ProcessTypeOK /\ LoopTypeOK /\ HubTypeOK /\ OptionsTypeOK
  BY DEF TypeOK, ProcessTypeOK, LoopTypeOK, HubTypeOK, OptionsTypeOK

LEMMA ProcessTypeStep == TypeOK /\ SpecStep => ProcessTypeOK'
  <1> SUFFICES ASSUME TypeOK, SpecStep PROVE ProcessTypeOK'
    OBVIOUS
  <1>0. ProcessTypeOK
    BY TypeParts
  <1>1. ASSUME NEW v \in {"passed", "skipped", "failed", "panicked"}, End(v) PROVE ProcessTypeOK'
    BY <1>0, <1>1, EndType DEF ProcessTypeOK
  <1>2. ASSUME NEW step \in {"start", "setCuration", "preCondition", "destroyed", "uninstalled",
                            "postJob", "detached"},
               Goto(step)
        PROVE  ProcessTypeOK'
    BY <1>0, <1>2 DEF Goto, ProcessTypeOK
  <1>3. ASSUME NEW c \in Clusters, StartCLI(c) PROVE ProcessTypeOK'
    <2>1. CASE End("failed")
      BY <1>1, <2>1
    <2>2. CASE cli' = [cli EXCEPT ![c] = "running"] /\ pc' = "waitCLI" /\ verdict' = "running"
      BY <1>0, <2>2 DEF ProcessTypeOK
    <2>3. QED
      BY <1>3, <2>1, <2>2 DEF StartCLI
  <1>4. CASE ReadHostedClusterList \/ ReadClusterName
    BY <1>1, <1>2, <1>4 DEF ReadHostedClusterList, ReadClusterName
  <1>5. CASE CLIExited \/ SetDesiredCuration \/ PrehooksDone
    BY <1>1, <1>2, <1>5 DEF CLIExited, SetDesiredCuration, PrehooksDone
  <1>6. ASSUME NEW c \in Clusters, WaitForHostedClusterDestroyed(c) PROVE ProcessTypeOK'
    BY <1>2, <1>6 DEF WaitForHostedClusterDestroyed, AfterDestroyed
  <1>7. CASE UninstallJobDone \/ PosthookDone
    BY <1>2, <1>7 DEF UninstallJobDone, PosthookDone
  <1>8. CASE PosthookWaitPanics \/ WaitForClusterDetached \/ WaitFails
    BY <1>1, <1>2, <1>8 DEF PosthookWaitPanics, WaitForClusterDetached, WaitFails
  <1>9. QED
    BY <1>3, <1>4, <1>5, <1>6, <1>7, <1>8 DEF SpecStep

LEMMA LoopTypeStep == TypeOK /\ ScopeInv /\ SpecStep => LoopTypeOK'
  <1> SUFFICES ASSUME TypeOK, ScopeInv, SpecStep PROVE LoopTypeOK'
    OBVIOUS
  <1> USE DEF LoopTypeOK
  <1>0. LoopTypeOK /\ HubTypeOK /\ OptionsTypeOK
    BY TypeParts
  <1>1. CASE ReadHostedClusterList
    <2>1. GetHostedClustersList \subseteq Clusters
      BY <1>0 DEF GetHostedClustersList, HubTypeOK
    <2>2. target' = NoValue /\ UNCHANGED <<deferred, accepted>>
      BY <1>1 DEF ReadHostedClusterList, ScopeInv, At
    <2>3. QED
      BY <1>0, <1>1, <2>1, <2>2 DEF ReadHostedClusterList
  <1>2. CASE ReadClusterName
    <2>1. target' = NoValue /\ UNCHANGED <<deferred, accepted>>
      BY <1>2 DEF ReadClusterName, ScopeInv, At
    <2>2. QED
      BY <1>0, <1>2, <2>1 DEF ReadClusterName, OptionsTypeOK
  <1>3. ASSUME NEW c \in Clusters, StartCLI(c) \/ WaitForHostedClusterDestroyed(c)
        PROVE  LoopTypeOK'
    BY <1>0, <1>3 DEF StartCLI, WaitForHostedClusterDestroyed, DefersAtStart
  <1>4. CASE CLIExited
    BY <1>0, <1>4 DEF CLIExited, ToVerify
  <1>5. CASE PosthookDone
    BY <1>0, <1>5 DEF PosthookDone, HubTypeOK
  <1>6. CASE UNCHANGED <<found, left, target, deferred, accepted>>
    BY <1>0, <1>6
  <1>7. QED
    BY <1>1, <1>2, <1>3, <1>4, <1>5, <1>6 DEF SpecStep, SetDesiredCuration, PrehooksDone,
         UninstallJobDone, PosthookWaitPanics, WaitForClusterDetached, WaitFails

LEMMA HubTypeStep == TypeOK /\ [Next]_vars => HubTypeOK'
  <1> SUFFICES ASSUME TypeOK, [Next]_vars PROVE HubTypeOK'
    OBVIOUS
  <1> USE DEF HubTypeOK
  <1>0. HubTypeOK /\ ProcessTypeOK
    BY TypeParts
  <1>1. CASE SpecStep
    <2>1. UNCHANGED hubVars /\ UNCHANGED <<conditions, ansibleJob>>
      BY <1>1, SpecLeavesHub
    <2>2. curation' \in {curation, "requested"}
      BY <1>1 DEF SpecStep, curatorVars, ReadHostedClusterList, ReadClusterName, StartCLI, CLIExited,
           SetDesiredCuration, PrehooksDone, WaitForHostedClusterDestroyed, UninstallJobDone,
           PosthookDone, PosthookWaitPanics, WaitForClusterDetached, WaitFails
    <2>3. QED
      BY <1>0, <2>1, <2>2 DEF hubVars, Curations
  <1>2. ASSUME NEW c \in Clusters,
               CLIDeletes(c) \/ CLIExits(c) \/ HostedClusterGone(c) \/ ManagedClusterGone(c)
        PROVE  HubTypeOK'
    BY <1>0, <1>2 DEF CLIDeletes, CLIExits, HostedClusterGone, ManagedClusterGone, hubVars, curatorVars
  <1>3. CASE LaunchHook
    <2>1. [stage |-> "destroy", hook |-> "pre", nth |-> 1, state |-> "new"] \in AnsibleJobs
      BY DEF AnsibleJobs
    <2>2. [stage |-> "destroy", hook |-> "post", nth |-> 1, state |-> "new"] \in AnsibleJobs
      BY DEF AnsibleJobs
    <2>3. ansibleJob.nth = 1 => [ansibleJob EXCEPT !.nth = 2, !.state = "new"] \in AnsibleJobs
      <3>1. ansibleJob = NoJob => ansibleJob.nth = 0
        BY DEF NoJob
      <3>2. ASSUME NEW j \in AnsibleJobs PROVE [j EXCEPT !.nth = 2, !.state = "new"] \in AnsibleJobs
        <4>1. [j EXCEPT !.nth = 2] \in AnsibleJobs
          BY DEF AnsibleJobs
        <4>2. \A k \in AnsibleJobs : [k EXCEPT !.state = "new"] \in AnsibleJobs
          BY DEF AnsibleJobs
        <4>3. QED
          BY <4>1, <4>2
      <3>3. ansibleJob.nth = 1 => ansibleJob \in AnsibleJobs
        BY <1>0, <3>1
      <3>4. QED
        BY <3>2, <3>3
    <2>4. ansibleJob' \in AnsibleJobs
      BY <1>3, <2>1, <2>2, <2>3 DEF LaunchHook
    <2>5. curation' \in Curations /\ conditions' \subseteq conditions /\ UNCHANGED hubVars
      BY <1>0, <1>3 DEF LaunchHook, Curations
    <2>6. QED
      BY <1>0, <2>4, <2>5 DEF hubVars
  <1>4. CASE TowerUpdatesJob
    <2>1. ansibleJob \in AnsibleJobs
      BY <1>0, <1>4 DEF TowerUpdatesJob, NoJob
    <2>2. ansibleJob' \in AnsibleJobs
      BY <1>4, <2>1 DEF TowerUpdatesJob, AnsibleJobs
    <2>3. QED
      BY <1>0, <1>4, <2>2 DEF TowerUpdatesJob, hubVars
  <1>5. CASE CuratorUninstalls \/ CuratorUninstalled
    BY <1>0, <1>5 DEF CuratorUninstalls, CuratorUninstalled, hubVars, Curations, Conditions
  <1>6. CASE SuiteInterrupted \/ Ended \/ UNCHANGED vars
    BY <1>0, <1>6, OnlyVerdict DEF Ended, vars, hubVars, curatorVars
  <1>7. QED
    BY <1>1, <1>2, <1>3, <1>4, <1>5, <1>6 DEF Next, EnvironmentStep

LEMMA TypeStep == TypeOK /\ ScopeInv /\ [Next]_vars => TypeOK'
  <1> SUFFICES ASSUME TypeOK, ScopeInv, [Next]_vars PROVE TypeOK'
    OBVIOUS
  <1>0. ProcessTypeOK /\ LoopTypeOK /\ OptionsTypeOK
    BY TypeParts
  <1>1. OptionsTypeOK' /\ HubTypeOK'
    BY <1>0, OptionsFixed, HubTypeStep DEF optionVars, OptionsTypeOK
  <1>2. CASE EnvironmentStep
    <2>1. LoopTypeOK' /\ pc' = pc /\ verdict' = verdict
      BY <1>0, <1>2, EnvironmentLeavesSpec DEF specVars, LoopTypeOK
    <2>2. cli' \in [Clusters -> {"notStarted", "running", "exit0", "exit1", "killed"}]
      BY <1>0, <1>2 DEF ProcessTypeOK, EnvironmentStep, CLIDeletes, CLIExits, HostedClusterGone,
           ManagedClusterGone, LaunchHook, TowerUpdatesJob, CuratorUninstalls, CuratorUninstalled
    <2>3. QED
      BY <1>0, <1>1, <2>1, <2>2
         DEF TypeOK, ProcessTypeOK, LoopTypeOK, HubTypeOK, OptionsTypeOK
  <1>3. CASE SpecStep
    BY <1>1, <1>3, ProcessTypeStep, LoopTypeStep
       DEF TypeOK, ProcessTypeOK, LoopTypeOK, HubTypeOK, OptionsTypeOK
  <1>4. CASE Ended \/ UNCHANGED vars
    BY <1>0, <1>1, <1>4 DEF Ended, vars, specVars,
         TypeOK, ProcessTypeOK, LoopTypeOK, HubTypeOK, OptionsTypeOK
  <1>5. CASE SuiteInterrupted
    BY <1>0, <1>1, <1>5, OnlyVerdict
       DEF TypeOK, ProcessTypeOK, LoopTypeOK, HubTypeOK, OptionsTypeOK
  <1>6. QED
    BY <1>2, <1>3, <1>4, <1>5 DEF Next

-----------------------------------------------------------------------------
(* Who destroys what                                                       *)

LEMMA ScopeStep == IInv /\ [Next]_vars => ScopeInv'
  <1> SUFFICES ASSUME IInv, [Next]_vars PROVE ScopeInv'
    OBVIOUS
  <1> USE DEF ScopeInv
  <1>0. /\ TypeOK /\ ScopeInv /\ CurationInv /\ LoopInv
        /\ Mine' = Mine /\ Curated' = Curated /\ clusterName' = clusterName
    BY MineFixed, OptionsFixed DEF IInv, optionVars
  <1>1. ASSUME SpecStep,
               found' \subseteq Mine, pc' = "read" => found' = {} /\ target' = NoValue,
               \A c \in Clusters : cli'[c] # "notStarted" => c \in found',
               pc' \in {"setCuration", "preCondition", "uninstalled", "postJob"} => Curated,
               curation' \notin {"absent", "installed"} => Curated /\ clusterName \in found'
        PROVE  ScopeInv'
    BY <1>0, <1>1, SpecLeavesHub DEF hubVars
  <1>2. ASSUME NEW v \in {"passed", "skipped", "failed", "panicked"}, End(v)
        PROVE  /\ pc' = pc
               /\ \A c \in Clusters : cli'[c] # "notStarted" => cli[c] # "notStarted"
    <2>1. pc' = pc /\ \A c \in Clusters : cli[c] # "running" => cli'[c] = cli[c]
      BY <1>0, <1>2, EndType
    <2>2. QED
      BY <2>1
  <1>3. CASE ReadHostedClusterList
    <2>1. GetHostedClustersList \subseteq Mine
      BY <1>0, <1>3 DEF ReadHostedClusterList, GetHostedClustersList, Mine, TypeOK
    <2>2. /\ target' = NoValue /\ found = {} /\ curation' \in {"absent", "installed"}
          /\ \A c \in Clusters : cli[c] = "notStarted"
      BY <1>0, <1>3 DEF ReadHostedClusterList, At, curatorVars, CurationInv
    <2>3. pc = "read" /\ \A c \in Clusters : cli'[c] = "notStarted"
      BY <1>2, <1>3, <2>2 DEF ReadHostedClusterList, Goto, At
    <2>4. found' \subseteq Mine /\ pc' \in {"read", "start"} /\ (pc' = "read" => found' = {})
      BY <1>2, <1>3, <2>1, <2>2, <2>3 DEF ReadHostedClusterList, Goto
    <2>5. QED
      BY <1>0, <1>1, <1>3, <2>2, <2>3, <2>4 DEF SpecStep
  <1>4. CASE ReadClusterName
    <2>1. /\ target' = NoValue /\ found = {} /\ curation' \in {"absent", "installed"}
          /\ \A c \in Clusters : cli[c] = "notStarted"
      BY <1>0, <1>4 DEF ReadClusterName, At, curatorVars, CurationInv
    <2>2. pc = "read" /\ \A c \in Clusters : cli'[c] = "notStarted"
      BY <1>2, <1>4, <2>1 DEF ReadClusterName, Goto, At
    <2>3. /\ found' \subseteq Mine /\ pc' \in {"read", "start", "setCuration"}
          /\ pc' = "read" => found' = {}
          /\ pc' = "setCuration" => Curated
      BY <1>2, <1>4, <2>1, <2>2 DEF ReadClusterName, Goto, Mine
    <2>4. QED
      BY <1>0, <1>1, <1>4, <2>1, <2>2, <2>3 DEF SpecStep
  <1>5. ASSUME NEW c \in Clusters, StartCLI(c) PROVE ScopeInv'
    <2>1. c \in found /\ pc = "start" /\ found' = found /\ curation' = curation
      BY <1>0, <1>5 DEF StartCLI, At, TypeOK, curatorVars
    <2>2. pc' \in {"start", "waitCLI"}
          /\ \A d \in Clusters : cli'[d] # "notStarted" => cli[d] # "notStarted" \/ d = c
      BY <1>0, <1>2, <1>5, <2>1 DEF StartCLI, TypeOK
    <2>3. QED
      BY <1>0, <1>1, <1>5, <2>1, <2>2 DEF SpecStep
  <1>6. CASE SetDesiredCuration
    <2>1. pc = "setCuration" /\ found' = found
      BY <1>6 DEF SetDesiredCuration, At
    <2>2. Curated /\ pc' \in {"preCondition", "setCuration"}
          /\ \A c \in Clusters : cli'[c] # "notStarted" => cli[c] # "notStarted"
      BY <1>0, <1>2, <1>6, <2>1 DEF SetDesiredCuration, Goto
    <2>3. clusterName \in found
      <3>1. found # {}
        BY <1>0, <1>6 DEF SetDesiredCuration, At, LoopInv
      <3>2. found \subseteq {clusterName}
        BY <1>0, <2>2 DEF Curated, Mine
      <3>3. QED
        BY <3>1, <3>2
    <2>4. QED
      BY <1>0, <1>1, <1>6, <2>1, <2>2, <2>3 DEF SpecStep
  <1>7. ASSUME NEW c \in Clusters, WaitForHostedClusterDestroyed(c) PROVE ScopeInv'
    <2>1. /\ found' = found /\ cli' = cli /\ curation' = curation
          /\ pc' = "detached" \/ (Curated /\ pc' = "uninstalled")
      BY <1>7 DEF WaitForHostedClusterDestroyed, Goto, AfterDestroyed, curatorVars
    <2>2. QED
      BY <1>0, <1>1, <1>7, <2>1 DEF SpecStep
  <1>8. CASE CLIExited \/ PrehooksDone \/ UninstallJobDone \/ PosthookDone
    <2>1. /\ found' = found /\ cli' = cli /\ curation' = curation
          /\ pc' \in {"start", "destroyed", "detached"} \/ (pc = "uninstalled" /\ pc' = "postJob")
      BY <1>8 DEF CLIExited, PrehooksDone, UninstallJobDone, PosthookDone, Goto, At, curatorVars
    <2>2. QED
      BY <1>0, <1>1, <1>8, <2>1 DEF SpecStep
  <1>9. CASE PosthookWaitPanics \/ WaitForClusterDetached \/ WaitFails
    <2>1. found' = found /\ curation' = curation /\ pc # "read"
      BY <1>9 DEF PosthookWaitPanics, WaitForClusterDetached, WaitFails, At, curatorVars
    <2>2. /\ pc' \in {pc, "destroyed"}
          /\ \A c \in Clusters : cli'[c] # "notStarted" => cli[c] # "notStarted"
      BY <1>2, <1>9 DEF PosthookWaitPanics, WaitForClusterDetached, WaitFails, Goto
    <2>3. QED
      BY <1>0, <1>1, <1>9, <2>1, <2>2 DEF SpecStep
  <1>10. CASE EnvironmentStep
    <2>1. UNCHANGED specVars
      BY <1>10, EnvironmentLeavesSpec
    <2>2. \A c \in Clusters : cli'[c] # "notStarted" => cli[c] # "notStarted"
      BY <1>0, <1>10 DEF EnvironmentStep, CLIDeletes, CLIExits, HostedClusterGone, TypeOK,
           ManagedClusterGone, LaunchHook, TowerUpdatesJob, CuratorUninstalls, CuratorUninstalled
    <2>3. curation' \notin {"absent", "installed"} => Curated /\ clusterName \in found
      BY <1>0, <1>10 DEF EnvironmentStep, CLIDeletes, CLIExits, HostedClusterGone, curatorVars,
           ManagedClusterGone, LaunchHook, TowerUpdatesJob, CuratorUninstalls, CuratorUninstalled
    <2>4. deleting' \subseteq Mine
      <3>1. ASSUME NEW c \in Clusters, CLIDeletes(c) PROVE deleting' \subseteq Mine
        BY <1>0, <3>1 DEF CLIDeletes
      <3>2. CASE CuratorUninstalls
        <4>1. Mine = {clusterName}
          BY <1>0, <3>2 DEF CuratorUninstalls, Curated, Mine
        <4>2. QED
          BY <1>0, <3>2, <4>1 DEF CuratorUninstalls
      <3>3. CASE deleting' \subseteq deleting
        BY <1>0, <3>3
      <3>4. QED
        BY <1>10, <3>1, <3>2, <3>3 DEF EnvironmentStep, CLIExits, HostedClusterGone, hubVars,
           ManagedClusterGone, LaunchHook, TowerUpdatesJob, CuratorUninstalled
    <2>5. QED
      BY <1>0, <2>1, <2>2, <2>3, <2>4 DEF specVars
  <1>11. CASE SuiteInterrupted \/ Ended \/ UNCHANGED vars
    BY <1>0, <1>11, OnlyVerdict DEF Ended, vars, specVars, hubVars, curatorVars
  <1>12. QED
    BY <1>3, <1>4, <1>5, <1>6, <1>7, <1>8, <1>9, <1>10, <1>11 DEF Next, SpecStep

\* KillAndWait is registered before the process is waited for, except by the AWS
\* spec for all clusters.
LEMMA CleanupStep == IInv /\ [Next]_vars => CleanupInv'
  <1> SUFFICES ASSUME IInv, [Next]_vars, ~(platform = "aws" /\ scope = "all"),
                      NEW c \in Clusters, cli'[c] = "running"
               PROVE  verdict' = "interrupted" \/ (verdict' = "running" /\ deferred')
    BY OptionsFixed DEF CleanupInv, optionVars
  <1>0. /\ TypeOK /\ ScopeInv
        /\ cli[c] = "running" => verdict = "interrupted" \/ (verdict = "running" /\ deferred)
        /\ SpecStep /\ cli[c] = "running" => deferred
    BY SpecStepRuns DEF IInv, CleanupInv
  <1>1. ASSUME NEW v \in {"passed", "skipped", "failed", "panicked"}, End(v), SpecStep PROVE FALSE
    <2>1. (cli[c] # "running" => cli'[c] = cli[c]) /\ (deferred => cli'[c] # "running")
      BY <1>0, <1>1, EndType
    <2>2. QED
      BY <1>0, <1>1, <2>1
  <1> USE DEF SpecStep
  <1>2. CASE ReadHostedClusterList \/ ReadClusterName
    BY <1>0, <1>1, <1>2 DEF ReadHostedClusterList, ReadClusterName, Goto
  <1>3. ASSUME NEW d \in Clusters, StartCLI(d) PROVE verdict' = "running" /\ deferred'
    BY <1>1, <1>3 DEF StartCLI, DefersAtStart
  <1>4. CASE CLIExited \/ SetDesiredCuration \/ PrehooksDone
    BY <1>0, <1>1, <1>4 DEF CLIExited, SetDesiredCuration, PrehooksDone, Goto
  <1>5. ASSUME NEW d \in Clusters, WaitForHostedClusterDestroyed(d)
        PROVE  verdict' = "running" /\ deferred'
    BY <1>0, <1>5 DEF WaitForHostedClusterDestroyed, Goto
  <1>6. CASE UninstallJobDone \/ PosthookDone \/ PosthookWaitPanics
    BY <1>0, <1>1, <1>6 DEF UninstallJobDone, PosthookDone, PosthookWaitPanics, Goto
  <1>7. CASE WaitForClusterDetached \/ WaitFails
    BY <1>0, <1>1, <1>7 DEF WaitForClusterDetached, WaitFails, Goto
  <1>8. CASE EnvironmentStep
    <2>1. cli[c] = "running"
      BY <1>0, <1>8 DEF EnvironmentStep, CLIDeletes, CLIExits, HostedClusterGone, TypeOK,
           ManagedClusterGone, LaunchHook, TowerUpdatesJob, CuratorUninstalls, CuratorUninstalled
    <2>2. QED
      BY <1>0, <1>8, <2>1, EnvironmentLeavesSpec DEF specVars
  <1>9. CASE SuiteInterrupted \/ Ended \/ UNCHANGED vars
    BY <1>0, <1>9, OnlyVerdict DEF Ended, vars, specVars
  <1>10. QED
    BY <1>2, <1>3, <1>4, <1>5, <1>6, <1>7, <1>8, <1>9 DEF Next, SpecStep

\* The curation goes forward, and the spec follows it.
LEMMA CurationStep == IInv /\ [Next]_vars => CurationInv'
  <1> SUFFICES ASSUME IInv, [Next]_vars PROVE CurationInv'
    OBVIOUS
  <1> USE DEF CurationInv, Uninstalled
  <1>0. TypeOK /\ ScopeInv /\ CurationInv /\ Curated' = Curated /\ clusterName' = clusterName
    BY MineFixed, OptionsFixed DEF IInv, optionVars
  <1>1. ASSUME SpecStep, curation' = curation, accepted' = accepted,
               pc' \in {"read", "setCuration"} => pc \in {"read", "setCuration"},
               pc' = "postJob" \/ (pc' = "detached" /\ Curated) => Uninstalled
        PROVE  CurationInv'
    BY <1>0, <1>1, SpecLeavesHub DEF hubVars
  <1>2. CASE ReadHostedClusterList \/ ReadClusterName
    <2>1. pc = "read" /\ pc' \in {"read", "start", "setCuration"}
      BY <1>2 DEF ReadHostedClusterList, ReadClusterName, At, End, Goto
    <2>2. curation' = curation /\ accepted' = accepted
      BY <1>2 DEF ReadHostedClusterList, ReadClusterName, curatorVars
    <2>3. QED
      BY <1>1, <1>2, <2>1, <2>2 DEF SpecStep
  <1>3. ASSUME NEW c \in Clusters, StartCLI(c) PROVE CurationInv'
    <2>1. pc' \in {"start", "waitCLI"} /\ curation' = curation /\ accepted' = accepted
      BY <1>3 DEF StartCLI, At, End, curatorVars
    <2>2. QED
      BY <1>1, <1>3, <2>1 DEF SpecStep
  <1>4. CASE CLIExited \/ PrehooksDone
    <2>1. pc' \in {"start", "destroyed"} /\ curation' = curation /\ accepted' = accepted
      BY <1>4 DEF CLIExited, PrehooksDone, Goto, curatorVars
    <2>2. QED
      BY <1>1, <1>4, <2>1 DEF SpecStep
  <1>5. CASE SetDesiredCuration
    <2>1. ~Uninstalled /\ pc = "setCuration" /\ conditions' = conditions /\ accepted' = accepted
      BY <1>0, <1>5 DEF SetDesiredCuration, At
    <2>2. \/ curation' = "requested" /\ pc' = "preCondition"
          \/ curation' = curation /\ pc' = pc
      BY <1>5 DEF SetDesiredCuration, Goto, End
    <2>3. ansibleJob' = ansibleJob
      BY <1>5 DEF SetDesiredCuration
    <2>4. QED
      BY <1>0, <2>1, <2>2, <2>3
  <1>6. ASSUME NEW c \in Clusters, WaitForHostedClusterDestroyed(c) PROVE CurationInv'
    <2>1. /\ pc' \in {"uninstalled", "detached"} /\ (pc' = "detached" => ~Curated)
          /\ curation' = curation /\ accepted' = accepted
      BY <1>6 DEF WaitForHostedClusterDestroyed, AfterDestroyed, Goto, curatorVars
    <2>2. QED
      BY <1>1, <1>6, <2>1 DEF SpecStep
  <1>7. CASE UninstallJobDone
    <2>1. pc' = "postJob" /\ Uninstalled /\ curation' = curation /\ accepted' = accepted
      BY <1>7 DEF UninstallJobDone, Goto, curatorVars
    <2>2. QED
      BY <1>1, <1>7, <2>1 DEF SpecStep
  <1>8. CASE PosthookDone
    <2>1. Uninstalled /\ ansibleJob.stage = "destroy"
      BY <1>0, <1>8 DEF PosthookDone, At
    <2>2. /\ accepted' = ansibleJob /\ pc' = "detached"
          /\ curation' = curation /\ conditions' = conditions /\ ansibleJob' = ansibleJob
          /\ hosted' = hosted
      BY <1>8 DEF PosthookDone, Goto, curatorVars, hubVars
    <2>3. QED
      BY <1>0, <2>1, <2>2
  <1>9. CASE PosthookWaitPanics \/ WaitForClusterDetached \/ WaitFails
    <2>1. pc' = pc \/ pc' = "destroyed"
      BY <1>9 DEF PosthookWaitPanics, WaitForClusterDetached, WaitFails, Goto, End
    <2>2. curation' = curation /\ accepted' = accepted
      BY <1>9 DEF PosthookWaitPanics, WaitForClusterDetached, WaitFails, curatorVars
    <2>3. QED
      BY <1>0, <1>1, <1>9, <2>1, <2>2 DEF SpecStep
  <1>10. CASE LaunchHook
    <2>1. pc' = pc /\ accepted' = accepted /\ hosted' = hosted
      BY <1>10 DEF LaunchHook, specVars, hubVars
    <2>2. CASE curation = "requested" /\ curation' = "prehooks"
      <3>1. ~Uninstalled'
        BY <1>0, <1>10, <2>2 DEF LaunchHook
      <3>2. ansibleJob'.stage = "destroy"
        BY <1>10, <2>2 DEF LaunchHook
      <3>3. QED
        BY <1>0, <2>1, <2>2, <3>1, <3>2
    <2>3. CASE /\ curation \in {"prehooks", "posthooks"} /\ ansibleJob.nth = 1
               /\ ansibleJob' = [ansibleJob EXCEPT !.nth = 2, !.state = "new"]
               /\ UNCHANGED <<curation, conditions>>
      <3>1. ansibleJob \in AnsibleJobs
        BY <1>0, <2>3 DEF TypeOK, NoJob
      <3>2. ansibleJob'.stage = ansibleJob.stage
        BY <2>3, <3>1 DEF AnsibleJobs
      <3>3. QED
        BY <1>0, <2>1, <2>3, <3>2
    <2>4. CASE /\ curation = "uninstalling" /\ Uninstalled /\ curation' = "posthooks"
               /\ ansibleJob' = [stage |-> "destroy", hook |-> "post", nth |-> 1, state |-> "new"]
               /\ UNCHANGED conditions
      BY <1>0, <2>1, <2>4
    <2>5. QED
      BY <1>10, <2>2, <2>3, <2>4 DEF LaunchHook
  <1>11. CASE TowerUpdatesJob
    <2>1. ansibleJob \in AnsibleJobs
      BY <1>0, <1>11 DEF TowerUpdatesJob, TypeOK, NoJob
    <2>2. ansibleJob'.stage = ansibleJob.stage
      BY <1>11, <2>1 DEF TowerUpdatesJob, AnsibleJobs
    <2>3. QED
      BY <1>0, <1>11, <2>2 DEF TowerUpdatesJob, specVars, hubVars
  <1>12. CASE CuratorUninstalls
    BY <1>0, <1>12 DEF CuratorUninstalls, specVars
  <1>13. CASE CuratorUninstalled
    BY <1>0, <1>13 DEF CuratorUninstalled, specVars, hubVars
  <1>14. ASSUME NEW c \in Clusters,
                CLIDeletes(c) \/ CLIExits(c) \/ HostedClusterGone(c) \/ ManagedClusterGone(c)
         PROVE  CurationInv'
    <2>1. UNCHANGED specVars /\ UNCHANGED curatorVars /\ hosted' \subseteq hosted
      BY <1>14 DEF CLIDeletes, CLIExits, HostedClusterGone, ManagedClusterGone, hubVars
    <2>2. QED
      BY <1>0, <2>1 DEF specVars, curatorVars
  <1>15. CASE SuiteInterrupted \/ Ended \/ UNCHANGED vars
    BY <1>0, <1>15, OnlyVerdict DEF Ended, vars, specVars, hubVars, curatorVars
  <1>16. QED
    BY <1>2, <1>3, <1>4, <1>5, <1>6, <1>7, <1>8, <1>9, <1>10, <1>11, <1>12, <1>13, <1>14, <1>15
       DEF Next, SpecStep, EnvironmentStep

-----------------------------------------------------------------------------
(* The two loops                                                           *)

\* What LoopInv says of a spec that has not failed.
Progress ==
    /\ pc # "read" => found # {}
    /\ pc \in {"setCuration", "preCondition"} => left = found
    /\ pc = "start" => ExitedWell(found \ left)
    /\ pc = "waitCLI" => ExitedWell(found \ (left \cup {target}))
    /\ pc \in {"destroyed", "detached"} => Curated \/ ExitedWell(found)
    /\ pc = "destroyed" => (found \ left) \cap managed = {}
    /\ pc \in {"uninstalled", "postJob", "detached"} =>
           /\ target \in found \ left
           /\ (found \ (left \cup {target})) \cap managed = {}
    /\ verdict = "passed" => pc = "detached" /\ left = {} /\ target \notin managed

LEMMA LoopInvIsProgress == LoopInv <=> (verdict \in {"running", "passed"} => Progress)
  BY DEF LoopInv, Progress

\* A spec that fails, is skipped or panics has nothing left to prove.
LEMMA EndedBadly ==
  ASSUME NEW v \in {"skipped", "failed", "panicked"}, End(v)
  PROVE  LoopInv'
  BY DEF End, LoopInv

LEMMA SpecLoopStep == IInv /\ SpecStep => LoopInv'
  <1> SUFFICES ASSUME IInv, SpecStep PROVE LoopInv'
    OBVIOUS
  <1>0. /\ TypeOK /\ ScopeInv /\ CurationInv /\ Progress /\ verdict = "running"
        /\ managed' = managed /\ Curated' = Curated
    <2>1. verdict = "running" /\ managed' = managed
      BY SpecStepRuns DEF hubVars
    <2>2. Curated' = Curated
      BY MineFixed DEF Next
    <2>3. QED
      BY <2>1, <2>2, LoopInvIsProgress DEF IInv
  <1>1. Progress' => LoopInv'
    BY DEF Progress, LoopInv
  <1>2. CASE ReadHostedClusterList \/ ReadClusterName
    <2>1. CASE End("skipped") \/ End("failed")
      BY <2>1, EndedBadly
    <2>2. CASE Goto("start") \/ (Goto("setCuration") /\ Curated)
      <3>1. found' # {} /\ left' = found'
        BY <1>2, <2>2 DEF ReadHostedClusterList, ReadClusterName, Goto, End
      <3>2. QED
        BY <1>1, <2>2, <3>1 DEF Goto, Progress, ExitedWell
    <2>3. QED
      BY <1>2, <2>1, <2>2 DEF ReadHostedClusterList, ReadClusterName
  <1>3. ASSUME NEW c \in Clusters, StartCLI(c) PROVE LoopInv'
    <2>1. CASE End("failed")
      BY <2>1, EndedBadly
    <2>2. CASE cli' = [cli EXCEPT ![c] = "running"] /\ pc' = "waitCLI" /\ verdict' = "running"
      <3>1. c \in left /\ left' = left \ {c} /\ target' = c /\ found' = found /\ pc = "start"
        BY <1>3 DEF StartCLI, At
      <3>2. ExitedWell(found \ left) /\ found # {}
        BY <1>0, <3>1 DEF Progress
      <3>3. \A d \in found' \ (left' \cup {target'}) : cli'[d] = "exit0"
        BY <1>0, <2>2, <3>1, <3>2 DEF ExitedWell, TypeOK
      <3>4. QED
        BY <1>1, <2>2, <3>1, <3>2, <3>3 DEF Progress, ExitedWell
    <2>3. QED
      BY <1>3, <2>1, <2>2 DEF StartCLI
  <1>4. CASE CLIExited
    <2>1. pc = "waitCLI" /\ cli[target] = "exit0" /\ found' = found /\ cli' = cli
          /\ verdict' = "running"
      BY <1>4 DEF CLIExited, At, Goto
    <2>2. ExitedWell(found \ left) /\ found # {}
      BY <1>0, <2>1 DEF Progress, ExitedWell
    <2>3. CASE pc' = "start" /\ left' = left
      BY <1>1, <2>1, <2>2, <2>3 DEF Progress, ExitedWell
    <2>4. CASE left = {} /\ pc' = "destroyed" /\ left' = found
      BY <1>1, <2>1, <2>2, <2>4 DEF Progress, ExitedWell
    <2>5. QED
      BY <1>4, <2>3, <2>4 DEF CLIExited, Goto, ToVerify
  <1>5. CASE SetDesiredCuration
    <2>1. CASE End("failed")
      BY <2>1, EndedBadly
    <2>2. CASE Goto("preCondition")
      <3>1. left = found /\ found # {} /\ left' = left /\ found' = found
        BY <1>0, <1>5 DEF SetDesiredCuration, At, Progress
      <3>2. QED
        BY <1>1, <2>2, <3>1 DEF Goto, Progress
    <2>3. QED
      BY <1>5, <2>1, <2>2 DEF SetDesiredCuration
  <1>6. CASE PrehooksDone
    <2>1. left = found /\ found # {} /\ left' = left /\ found' = found /\ Curated
      BY <1>0, <1>6 DEF PrehooksDone, At, Progress, ScopeInv
    <2>2. pc' = "destroyed" /\ verdict' = "running"
      BY <1>6 DEF PrehooksDone, Goto
    <2>3. QED
      BY <1>0, <1>1, <2>1, <2>2 DEF Progress
  <1>7. ASSUME NEW c \in Clusters, WaitForHostedClusterDestroyed(c) PROVE LoopInv'
    <2>1. /\ pc = "destroyed" /\ c \in left /\ target' = c /\ left' = left \ {c}
          /\ found' = found /\ cli' = cli /\ verdict' = "running"
          /\ pc' \in {"uninstalled", "detached"}
      BY <1>7 DEF WaitForHostedClusterDestroyed, AfterDestroyed, At, Goto
    <2>2. found # {} /\ (found \ left) \cap managed = {} /\ (Curated \/ ExitedWell(found))
      BY <1>0, <2>1 DEF Progress
    <2>3. target' \in found' \ left' /\ (found' \ (left' \cup {target'})) \cap managed' = {}
      BY <1>0, <2>1, <2>2 DEF TypeOK
    <2>4. QED
      BY <1>0, <1>1, <2>1, <2>2, <2>3 DEF Progress, ExitedWell
  <1>8. CASE UninstallJobDone \/ PosthookDone
    <2>1. /\ pc \in {"uninstalled", "postJob"} /\ pc' \in {"postJob", "detached"}
          /\ found' = found /\ left' = left /\ target' = target /\ verdict' = "running"
      BY <1>8 DEF UninstallJobDone, PosthookDone, At, Goto
    <2>2. Curated /\ found # {} /\ (found \ (left \cup {target})) \cap managed = {}
      BY <1>0, <2>1 DEF Progress, ScopeInv
    <2>3. QED
      BY <1>0, <1>1, <2>1, <2>2 DEF Progress
  <1>9. CASE WaitForClusterDetached
    <2>1. /\ pc = "detached" /\ target \notin managed
          /\ found' = found /\ left' = left /\ target' = target
      BY <1>9 DEF WaitForClusterDetached, HasManagedCluster, At
    <2>2. /\ found # {} /\ (Curated \/ ExitedWell(found))
          /\ (found \ (left \cup {target})) \cap managed = {}
      BY <1>0, <2>1 DEF Progress
    <2>3. CASE left = {} /\ End("passed")
      <3>1. pc' = pc /\ verdict' = "passed" /\ (ExitedWell(found) => \A c \in found : cli'[c] = "exit0")
        BY <1>0, <2>3, EndType DEF ExitedWell, TypeOK
      <3>2. QED
        BY <1>0, <1>1, <2>1, <2>2, <2>3, <3>1 DEF Progress, ExitedWell
    <2>4. CASE Goto("destroyed")
      <3>1. (found' \ left') \cap managed' = {}
        BY <1>0, <2>1, <2>2
      <3>2. pc' = "destroyed" /\ verdict' = "running" /\ cli' = cli
        BY <2>4 DEF Goto
      <3>3. QED
        BY <1>0, <1>1, <2>1, <2>2, <3>1, <3>2 DEF Progress, ExitedWell
    <2>5. QED
      BY <1>9, <2>3, <2>4 DEF WaitForClusterDetached
  <1>10. CASE PosthookWaitPanics \/ WaitFails
    BY <1>10, EndedBadly DEF PosthookWaitPanics, WaitFails
  <1>11. QED
    BY <1>2, <1>3, <1>4, <1>5, <1>6, <1>7, <1>8, <1>9, <1>10 DEF SpecStep

\* The hub only takes clusters away, and a process that has exited stays so.
LEMMA LoopStep == IInv /\ [Next]_vars => LoopInv'
  <1> SUFFICES ASSUME IInv, [Next]_vars, verdict' \in {"running", "passed"} PROVE Progress'
    BY DEF LoopInv, Progress
  <1>1. CASE SpecStep
    BY <1>1, SpecLoopStep DEF LoopInv, Progress
  <1>0. ~SuiteInterrupted
    BY OnlyVerdict
  <1>2. CASE EnvironmentStep
    <2>1. UNCHANGED specVars /\ Curated' = Curated
      BY <1>2, EnvironmentLeavesSpec, MineFixed
    <2>2. managed' \subseteq managed
      BY <1>2 DEF EnvironmentStep, CLIDeletes, CLIExits, HostedClusterGone, ManagedClusterGone,
           LaunchHook, TowerUpdatesJob, CuratorUninstalls, CuratorUninstalled, hubVars
    <2>3. \A c \in Clusters : cli[c] = "exit0" => cli'[c] = "exit0"
      BY <1>2 DEF IInv, TypeOK, EnvironmentStep, CLIDeletes, CLIExits, HostedClusterGone,
           ManagedClusterGone, LaunchHook, TowerUpdatesJob, CuratorUninstalls, CuratorUninstalled
    <2>4. Progress /\ found \subseteq Clusters
      BY <2>1 DEF IInv, LoopInv, Progress, specVars, TypeOK
    <2>5. \A S \in SUBSET Clusters : ExitedWell(S) => \A c \in S : cli'[c] = "exit0"
      BY <2>3 DEF ExitedWell
    <2>6. QED
      BY <2>1, <2>2, <2>4, <2>5 DEF specVars, Progress, ExitedWell
  <1>3. CASE Ended \/ UNCHANGED vars
    <2>1. UNCHANGED vars /\ Progress
      BY <1>3 DEF Ended, IInv, LoopInv, Progress, vars, specVars
    <2>2. Curated' = Curated
      BY MineFixed
    <2>3. QED
      BY <2>1, <2>2 DEF vars, specVars, hubVars, Progress, ExitedWell
  <1>4. QED
    BY <1>0, <1>1, <1>2, <1>3 DEF Next

-----------------------------------------------------------------------------
(* The theorems                                                            *)

LEMMA Inductive == Spec => []IInv
  <1>1. IInv /\ [Next]_vars => IInv'
    BY TypeStep, ScopeStep, CurationStep, CleanupStep, LoopStep DEF IInv
  <1>2. QED
    BY InitIInv, <1>1, PTL DEF Spec

\* Every variable keeps to its type; in particular an accepted AnsibleJob is one
\* that was launched, and only an existing HostedCluster is being deleted.
THEOREM TypeCorrect == Spec => []TypeOK
  <1>1. IInv => TypeOK
    BY DEF IInv
  <1>2. QED
    BY Inductive, <1>1, PTL

\* Whatever is on the hub, a destroy spec asks for the deletion of no cluster but
\* those of its platform, or the one HCP_CLUSTER_NAME names.
THEOREM DestroysOnlyTheirs == Spec => []DestroysOnlyItsClusters
  <1>1. IInv => DestroysOnlyItsClusters
    BY DEF IInv, ScopeInv, Mine, DestroysOnlyItsClusters
  <1>2. QED
    BY Inductive, <1>1, PTL

\* Three of the four destroy specs stop the hcp process they started, on every way
\* out of the It: a pass, a failed expectation, the timeout of a wait, a panic.  What
\* ginkgo gives up, on its own timeout or a signal, never gets out of the It.
THEOREM StopsTheCLI == Spec => []LeavesNoCLI
  <1>1. IInv => LeavesNoCLI
    BY DEF IInv, CleanupInv, LeavesNoCLI
  <1>2. QED
    BY Inductive, <1>1, PTL

\* A destroy spec that passes was about at least one cluster, and every cluster it
\* was about is detached: the second loop misses none of those the first has
\* destroyed.
THEOREM PassIsDetached == Spec => []PassMeansDetached
  <1>1. IInv => PassMeansDetached
    <2> SUFFICES ASSUME IInv, verdict = "passed"
                 PROVE  /\ found # {} /\ found \cap managed = {}
                        /\ Curated \/ \A c \in found : cli[c] = "exit0"
      BY DEF PassMeansDetached
    <2>1. /\ pc = "detached" /\ left = {} /\ target \notin managed /\ found # {}
          /\ Curated \/ ExitedWell(found)
          /\ (found \ (left \cup {target})) \cap managed = {}
      BY DEF IInv, LoopInv
    <2>2. QED
      BY <2>1 DEF ExitedWell
  <1>2. QED
    BY Inductive, <1>1, PTL

\* The wait for the uninstall job makes up for the wait for the HostedCluster that
\* is over at once: a curated destroy that passes has destroyed its cluster.
THEOREM CuratedPassIsDestroyed == Spec => []CuratedPassMeansDestroyed
  <1>1. IInv => CuratedPassMeansDestroyed
    <2> SUFFICES ASSUME IInv, Curated, verdict = "passed" PROVE found \cap hosted = {}
      BY DEF CuratedPassMeansDestroyed, PassMeansDestroyed
    <2>1. pc = "detached"
      BY DEF IInv, LoopInv
    <2>2. clusterName \notin hosted
      BY <2>1 DEF IInv, CurationInv
    <2>3. found \subseteq {clusterName}
      BY DEF IInv, ScopeInv, Mine, Curated
    <2>4. QED
      BY <2>2, <2>3
  <1>2. QED
    BY Inductive, <1>1, PTL

\* The posthook wait never ends on the posthook the install curation has left:
\* it is entered only once the uninstall job has finished.
THEOREM PosthookIsOfThisCuration == Spec => []PosthookOfThisCuration
  <1>1. IInv => PosthookOfThisCuration
    BY DEF IInv, CurationInv, PosthookOfThisCuration
  <1>2. QED
    BY Inductive, <1>1, PTL

-----------------------------------------------------------------------------
(* The contract                                                            *)

LEMMA InitRefines == Init => Contract!ContractInit
  BY DEF Init, Contract!ContractInit, Phase, Observed

\* A spec step that leaves alone how the spec looks from outside is a stutter.
LEMMA QuietStep ==
  ASSUME SpecStep, UNCHANGED <<Phase, found, Observed>>
  PROVE  UNCHANGED Contract!contractVars
  BY MineFixed, SpecLeavesHub DEF Next, hubVars, Contract!contractVars

\* A spec step that fails, wherever the loops are.
LEMMA FailStep ==
  ASSUME SpecStep, NEW v \in {"failed", "panicked"}, End(v), UNCHANGED <<found, Observed>>
  PROVE  Contract!FailSpec
  <1>1. verdict = "running" /\ UNCHANGED hubVars /\ Mine' = Mine
    BY SpecStepRuns, MineFixed DEF Next
  <1>2. Phase \in {"listing", "working"} /\ Phase' = "failed"
    BY <1>1 DEF Phase, End
  <1>3. QED
    BY <1>1, <1>2 DEF hubVars, Contract!FailSpec, Contract!HubUnchanged

\* The list is read once, and everything of its own on the hub is in it.
LEMMA ReadRefines ==
  ASSUME IInv, ReadHostedClusterList \/ ReadClusterName
  PROVE  Contract!ContractNext
  <1>1. /\ SpecStep /\ pc = "read" /\ verdict = "running" /\ found = {}
        /\ UNCHANGED hubVars /\ Mine' = Mine /\ Observed = {} /\ Phase = "listing"
    <2>1. SpecStep /\ pc = "read" /\ verdict = "running"
      BY DEF SpecStep, ReadHostedClusterList, ReadClusterName, At
    <2>2. QED
      BY <2>1, SpecStepRuns, MineFixed DEF Next, IInv, ScopeInv, Observed, Phase
  <1>2. CASE End("failed") /\ UNCHANGED <<found, left>>
    <2>1. Observed' = Observed
      BY <1>1, <1>2 DEF Observed, End
    <2>2. QED
      BY <1>1, <1>2, <2>1, FailStep DEF Contract!ContractNext
  <1>3. CASE ReadHostedClusterList /\ GetHostedClustersList = {} /\ End("skipped")
             /\ UNCHANGED <<found, left>>
    <2>1. Mine \cap hosted = {}
      BY <1>3 DEF ReadHostedClusterList, GetHostedClustersList, Mine
    <2>2. Phase' = "skipped" /\ Observed' = {}
      BY <1>1, <1>3 DEF Observed, Phase, End
    <2>3. QED
      BY <1>1, <1>3, <2>1, <2>2
         DEF Contract!ContractNext, Contract!SkipSpec, Contract!HubUnchanged, hubVars
  <1>4. CASE /\ found' # {} /\ left' = found' /\ Goto(IF Curated THEN "setCuration" ELSE "start")
             /\ Mine \cap hosted \subseteq found' /\ found' \subseteq Mine
    <2>1. Phase' = "working" /\ Observed' = {}
      BY <1>4 DEF Observed, Phase, Goto
    <2>2. QED
      BY <1>1, <1>4, <2>1
         DEF Contract!ContractNext, Contract!SettleTargets, Contract!HubUnchanged, hubVars
  <1>5. CASE ReadHostedClusterList
    <2>1. ASSUME GetHostedClustersList # {}, Goto("start"),
                 found' = GetHostedClustersList, left' = found'
          PROVE  Contract!ContractNext
      <3>1. ~Curated /\ GetHostedClustersList = Mine \cap hosted
        BY <1>5 DEF ReadHostedClusterList, Curated, GetHostedClustersList, Mine, IInv, TypeOK
      <3>2. QED
        BY <1>4, <2>1, <3>1
    <2>2. QED
      BY <1>2, <1>3, <1>5, <2>1 DEF ReadHostedClusterList
  <1>6. CASE ReadClusterName
    BY <1>2, <1>4, <1>6 DEF ReadClusterName, Mine
  <1>7. QED
    BY <1>5, <1>6

\* Every other step of the spec works on the targets, observes one, or fails.
LEMMA SpecStepRefines ==
  ASSUME IInv, SpecStep
  PROVE  [Contract!ContractNext]_(Contract!contractVars)
  <1>0. verdict = "running" /\ UNCHANGED hubVars /\ Mine' = Mine /\ TypeOK /\ Progress
    BY SpecStepRuns, MineFixed, LoopInvIsProgress DEF Next, IInv
  <1>1. ASSUME UNCHANGED <<Phase, found, Observed>>
        PROVE  [Contract!ContractNext]_(Contract!contractVars)
    BY <1>1, QuietStep
  <1>2. ASSUME NEW v \in {"failed", "panicked"}, End(v), UNCHANGED <<found, Observed>>
        PROVE  Contract!ContractNext
    BY <1>2, FailStep DEF Contract!ContractNext
  <1>3. ASSUME pc # "read", pc' # "read", verdict' = "running" PROVE Phase' = Phase
    BY <1>0, <1>3 DEF Phase
  <1>4. ASSUME End("failed") \/ End("panicked"), UNCHANGED <<found, left, target>>
        PROVE  Contract!ContractNext
    <2>1. Observed' = Observed
      BY <1>0, <1>4 DEF Observed, End
    <2>2. QED
      BY <1>2, <1>4, <2>1
  <1>5. CASE ReadHostedClusterList \/ ReadClusterName
    BY <1>5, ReadRefines
  <1>6. ASSUME NEW c \in Clusters, StartCLI(c)
        PROVE  [Contract!ContractNext]_(Contract!contractVars)
    <2>1. pc = "start" /\ found' = found
      BY <1>6 DEF StartCLI, At
    <2>2. CASE End("failed")
      <3>1. Observed' = Observed
        BY <1>0, <2>1, <2>2 DEF Observed, End
      <3>2. QED
        BY <1>2, <2>1, <2>2, <3>1
    <2>3. CASE pc' = "waitCLI" /\ verdict' = "running"
      <3>1. Observed' = Observed
        BY <1>0, <2>1, <2>3 DEF Observed
      <3>2. QED
        BY <1>1, <1>3, <2>1, <2>3, <3>1
    <2>4. QED
      BY <1>6, <2>2, <2>3 DEF StartCLI
  <1>7. CASE CLIExited
    <2>1. /\ pc = "waitCLI" /\ found' = found /\ verdict' = "running"
          /\ pc' = "start" \/ (pc' = "destroyed" /\ left' = found)
      BY <1>7 DEF CLIExited, At, Goto, ToVerify
    <2>2. Observed' = Observed
      BY <1>0, <2>1 DEF Observed
    <2>3. QED
      BY <1>1, <1>3, <2>1, <2>2
  <1>8. CASE SetDesiredCuration
    <2>1. pc = "setCuration" /\ UNCHANGED <<found, left, target>>
      BY <1>8 DEF SetDesiredCuration, At
    <2>2. CASE Goto("preCondition")
      <3>1. Observed' = Observed
        BY <1>0, <2>1, <2>2 DEF Observed, Goto
      <3>2. QED
        BY <1>1, <1>3, <2>1, <2>2, <3>1 DEF Goto
    <2>3. QED
      BY <1>4, <1>8, <2>1, <2>2 DEF SetDesiredCuration
  <1>9. CASE PrehooksDone
    <2>1. /\ pc = "preCondition" /\ pc' = "destroyed" /\ verdict' = "running"
          /\ UNCHANGED <<found, left, target>>
      BY <1>9 DEF PrehooksDone, At, Goto
    <2>2. left = found
      BY <1>0, <2>1 DEF Progress
    <2>3. Observed' = Observed
      BY <1>0, <2>1, <2>2 DEF Observed
    <2>4. QED
      BY <1>1, <1>3, <2>1, <2>3
  <1>10. ASSUME NEW c \in Clusters, WaitForHostedClusterDestroyed(c)
         PROVE  [Contract!ContractNext]_(Contract!contractVars)
    <2>1. /\ pc = "destroyed" /\ c \in left /\ target' = c /\ left' = left \ {c}
          /\ found' = found /\ verdict' = "running" /\ pc' \in {"uninstalled", "detached"}
      BY <1>10 DEF WaitForHostedClusterDestroyed, AfterDestroyed, At, Goto
    <2>2. Observed' = Observed
      BY <1>0, <2>1 DEF Observed
    <2>3. QED
      BY <1>1, <1>3, <2>1, <2>2
  <1>11. CASE UninstallJobDone \/ PosthookDone
    <2>1. /\ pc \in {"uninstalled", "postJob"} /\ pc' \in {"postJob", "detached"}
          /\ verdict' = "running" /\ UNCHANGED <<found, left, target>>
      BY <1>11 DEF UninstallJobDone, PosthookDone, At, Goto
    <2>2. Observed' = Observed
      BY <1>0, <2>1 DEF Observed
    <2>3. QED
      BY <1>1, <1>3, <2>1, <2>2
  <1>12. CASE PosthookWaitPanics \/ WaitFails
    <2>1. (End("failed") \/ End("panicked")) /\ UNCHANGED <<found, left, target>>
      BY <1>12 DEF PosthookWaitPanics, WaitFails
    <2>2. QED
      BY <1>4, <2>1
  <1>13. CASE WaitForClusterDetached
    <2>1. /\ pc = "detached" /\ target \notin managed /\ target \in found \ left
          /\ UNCHANGED <<found, left, target>>
          /\ IF left = {} THEN End("passed") ELSE Goto("destroyed")
      BY <1>0, <1>13 DEF WaitForClusterDetached, HasManagedCluster, At, Progress
    <2>2. Phase = "working" /\ Observed = found \ (left \cup {target})
      BY <1>0, <2>1 DEF Phase, Observed
    <2>3. Observed' = found \ left
      BY <2>1 DEF Observed, End, Goto
    <2>4. Observed' = Observed \cup {target} /\ target \notin Observed
      BY <2>1, <2>2, <2>3
    <2>5. Phase' = IF Observed' = found THEN "passed" ELSE "working"
      <3>1. left \subseteq found
        BY <1>0 DEF TypeOK
      <3>2. Phase' = IF left = {} THEN "passed" ELSE "working"
        BY <2>1 DEF Phase, End, Goto
      <3>3. QED
        BY <2>3, <3>1, <3>2
    <2>6. Contract!Observe(target)
      BY <1>0, <2>1, <2>2, <2>4, <2>5 DEF Contract!Observe, Contract!HubUnchanged, hubVars
    <2>7. QED
      BY <2>1, <2>6 DEF Contract!ContractNext
  <1>14. QED
    BY <1>5, <1>6, <1>7, <1>8, <1>9, <1>10, <1>11, <1>12, <1>13 DEF SpecStep

\* To the owner of the hub, a spec that ginkgo gives up has failed.
LEMMA InterruptRefines ==
  ASSUME IInv, SuiteInterrupted
  PROVE  Contract!FailSpec
  <1>1. Mine' = Mine
    BY MineFixed DEF Next
  <1>2. Phase \in {"listing", "working"} /\ Phase' = "failed" /\ Observed' = Observed
    BY OnlyVerdict DEF Phase, Observed
  <1>3. QED
    BY <1>1, <1>2, OnlyVerdict DEF Contract!FailSpec, Contract!HubUnchanged

\* What the CLI and the curator ask the hub to delete are the targets.
LEMMA EnvironmentStepRefines ==
  ASSUME IInv, EnvironmentStep
  PROVE  Contract!ContractNext
  <1>0. ScopeInv /\ UNCHANGED specVars /\ Mine' = Mine
    BY EnvironmentLeavesSpec, MineFixed DEF Next, IInv
  <1>1. ASSUME NEW c \in Clusters, CLIDeletes(c) PROVE deleting' \subseteq deleting \cup found
    BY <1>0, <1>1 DEF CLIDeletes, ScopeInv
  <1>2. ASSUME CuratorUninstalls PROVE deleting' \subseteq deleting \cup found
    BY <1>0, <1>2 DEF CuratorUninstalls, ScopeInv
  <1>3. deleting' \subseteq deleting \cup found
    BY <1>1, <1>2 DEF EnvironmentStep, CLIExits, HostedClusterGone, ManagedClusterGone,
         LaunchHook, TowerUpdatesJob, CuratorUninstalled, hubVars
  <1>4. UNCHANGED <<Phase, found, Observed>>
    BY <1>0 DEF specVars, Phase, Observed
  <1>5. QED
    BY <1>0, <1>3, <1>4 DEF Contract!ContractNext, Contract!HubChanges

\* The destroy specs keep their contract: the targets are settled once and are all
\* of the spec's clusters on the hub, nothing else is ever being deleted, and a
\* spec passes only after it has observed each target detached.
THEOREM DestroyImplementsContract == Spec => ImplementsContract
  <1>1. IInv /\ [Next]_vars => [Contract!ContractNext]_(Contract!contractVars)
    <2> SUFFICES ASSUME IInv, [Next]_vars
                 PROVE  [Contract!ContractNext]_(Contract!contractVars)
      OBVIOUS
    <2>1. CASE Ended \/ UNCHANGED vars
      <3>1. Mine' = Mine
        BY MineFixed
      <3>2. QED
        BY <2>1, <3>1
           DEF Ended, vars, specVars, hubVars, Contract!contractVars, Phase, Observed
    <2>2. CASE SuiteInterrupted
      BY <2>2, InterruptRefines DEF Contract!ContractNext
    <2>3. QED
      BY <2>1, <2>2, SpecStepRefines, EnvironmentStepRefines DEF Next
  <1>2. QED
    BY <1>1, InitRefines, Inductive, PTL DEF Spec, ImplementsContract, Contract!ContractSpec

-----------------------------------------------------------------------------
(* The calls that are left                                                 *)

\* How many more calls the spec can make: two for each cluster the first loop has
\* not come to, four for each the second has not, and those it is in the middle of.
CallsAhead ==
    LET ahead == Cardinality(left)
        secondLoop == 4 * Cardinality(found) + 1
    IN  CASE verdict # "running" -> 0
          [] At("read") -> 6 * Cardinality(Clusters) + 4
          [] At("start") -> 2 * ahead + secondLoop + 2
          [] At("waitCLI") -> 2 * ahead + secondLoop + 3
          [] At("setCuration") -> secondLoop + 2
          [] At("preCondition") -> secondLoop + 1
          [] At("destroyed") -> 4 * ahead + 1
          [] At("uninstalled") -> 4 * ahead + 4
          [] At("postJob") -> 4 * ahead + 3
          [] At("detached") -> 4 * ahead + 2

\* Both loops end: no call of the spec, whatever it meets on the hub, puts off the
\* end by bringing work back that was done, and an interruption takes the rest away.
CallsRunOut ==
    [][IF SpecStep \/ SuiteInterrupted THEN CallsAhead' \in 0 .. (CallsAhead - 1)
       ELSE CallsAhead' = CallsAhead]_vars

\* Hubs have finitely many clusters, and no spec finds more than there are.
LEMMA ClusterCounts ==
  ASSUME NEW S \in SUBSET Clusters, NEW T \in SUBSET S
  PROVE  /\ IsFiniteSet(T)
         /\ Cardinality(Clusters) \in Nat /\ Cardinality(S) \in Nat /\ Cardinality(T) \in Nat
         /\ Cardinality(T) <= Cardinality(S) /\ Cardinality(S) <= Cardinality(Clusters)
  <1>1. IsFiniteSet(S) /\ Cardinality(S) <= Cardinality(Clusters)
    BY ClustersAssumption, FS_Subset
  <1>2. IsFiniteSet(T) /\ Cardinality(T) <= Cardinality(S)
    BY <1>1, FS_Subset
  <1>3. QED
    BY <1>1, <1>2, ClustersAssumption, FS_CardinalityType

\* A loop that takes a cluster has one less to come to.
LEMMA TakeCluster ==
  ASSUME TypeOK, NEW c \in left
  PROVE  Cardinality(left \ {c}) = Cardinality(left) - 1
  BY ClusterCounts, FS_RemoveElement DEF TypeOK

\* There is a call to make as long as the spec runs.
LEMMA CallsAheadType ==
  ASSUME TypeOK, verdict = "running"
  PROVE  CallsAhead \in Nat /\ CallsAhead > 0
  <1>1. Cardinality(Clusters) \in Nat /\ Cardinality(found) \in Nat /\ Cardinality(left) \in Nat
    BY ClusterCounts DEF TypeOK
  <1>2. pc \in {"read", "start", "waitCLI", "setCuration", "preCondition",
                "destroyed", "uninstalled", "postJob", "detached"}
    BY DEF TypeOK
  <1>3. CallsAhead \in Nat
    BY <1>1, <1>2 DEF CallsAhead, At
  <1>4. 0 < CallsAhead
    BY <1>1, <1>2 DEF CallsAhead, At
  <1>5. QED
    BY <1>3, <1>4

\* Every call leaves fewer.
LEMMA CallsStep == IInv /\ SpecStep => CallsAhead' \in 0 .. (CallsAhead - 1)
  <1> SUFFICES ASSUME IInv, SpecStep PROVE CallsAhead' \in 0 .. (CallsAhead - 1)
    OBVIOUS
  <1> DEFINE size == Cardinality(found)
             ahead == Cardinality(left)
  <1>0. /\ TypeOK /\ verdict = "running"
        /\ Cardinality(Clusters) \in Nat /\ size \in Nat /\ ahead \in Nat /\ ahead <= size
        /\ size' \in Nat /\ ahead' \in Nat /\ size' <= Cardinality(Clusters)
    <2>1. TypeOK /\ TypeOK' /\ verdict = "running"
      BY TypeStep, SpecStepRuns DEF IInv, Next
    <2>2. found \subseteq Clusters /\ left \subseteq found /\ found' \subseteq Clusters /\ left' \subseteq found'
      BY <2>1 DEF TypeOK
    <2>3. QED
      BY <2>1, <2>2, ClusterCounts
  <1> DEFINE fewer == CallsAhead' < CallsAhead
  <1>1. CASE verdict' # "running"
    <2>1. CallsAhead' = 0
      BY <1>1 DEF CallsAhead, At
    <2>2. QED
      BY <1>0, <2>1, CallsAheadType
  <1>2. ASSUME fewer, verdict' = "running" PROVE CallsAhead' \in 0 .. (CallsAhead - 1)
    <2>1. pc' \in {"read", "start", "waitCLI", "setCuration", "preCondition",
                   "destroyed", "uninstalled", "postJob", "detached"}
      BY TypeStep DEF IInv, Next, TypeOK
    <2>2. CallsAhead' \in Nat
      BY <1>0, <1>2, <2>1 DEF CallsAhead, At
    <2>3. QED
      BY <1>0, <1>2, <2>2, CallsAheadType
  <1>3. ASSUME ReadHostedClusterList \/ ReadClusterName, verdict' = "running" PROVE fewer
    <2>1. pc = "read" /\ pc' \in {"start", "setCuration"} /\ left' = found'
      BY <1>3 DEF ReadHostedClusterList, ReadClusterName, At, Goto, End
    <2>2. QED
      BY <1>0, <1>3, <2>1 DEF CallsAhead, At
  <1>4. ASSUME NEW c \in Clusters, StartCLI(c), verdict' = "running" PROVE fewer
    <2>1. pc = "start" /\ pc' = "waitCLI" /\ found' = found /\ c \in left /\ left' = left \ {c}
      BY <1>4 DEF StartCLI, At, End
    <2>2. ahead' = ahead - 1
      BY <1>0, <2>1, TakeCluster
    <2>3. QED
      BY <1>0, <1>4, <2>1, <2>2 DEF CallsAhead, At
  <1>5. ASSUME CLIExited, verdict' = "running" PROVE fewer
    <2>1. /\ pc = "waitCLI" /\ found' = found
          /\ \/ pc' = "start" /\ left' = left
             \/ pc' = "destroyed" /\ left' = found
      BY <1>5 DEF CLIExited, At, Goto, ToVerify
    <2>2. QED
      BY <1>0, <1>5, <2>1 DEF CallsAhead, At
  <1>6. ASSUME SetDesiredCuration \/ PrehooksDone, verdict' = "running" PROVE fewer
    <2>1. /\ found' = found /\ left' = left
          /\ \/ pc = "setCuration" /\ pc' = "preCondition"
             \/ pc = "preCondition" /\ pc' = "destroyed"
      BY <1>6 DEF SetDesiredCuration, PrehooksDone, At, Goto, End
    <2>2. QED
      BY <1>0, <1>6, <2>1 DEF CallsAhead, At
  <1>7. ASSUME NEW c \in Clusters, WaitForHostedClusterDestroyed(c), verdict' = "running" PROVE fewer
    <2>1. /\ pc = "destroyed" /\ pc' \in {"uninstalled", "detached"}
          /\ c \in left /\ left' = left \ {c}
      BY <1>7 DEF WaitForHostedClusterDestroyed, AfterDestroyed, At, Goto
    <2>2. ahead' = ahead - 1
      BY <1>0, <2>1, TakeCluster
    <2>3. QED
      BY <1>0, <1>7, <2>1, <2>2 DEF CallsAhead, At
  <1>8. ASSUME UninstallJobDone \/ PosthookDone \/ WaitForClusterDetached, verdict' = "running"
        PROVE  fewer
    <2>1. /\ left' = left
          /\ \/ pc = "uninstalled" /\ pc' = "postJob"
             \/ pc = "postJob" /\ pc' = "detached"
             \/ pc = "detached" /\ pc' = "destroyed"
      BY <1>8 DEF UninstallJobDone, PosthookDone, WaitForClusterDetached, At, Goto, End
    <2>2. QED
      BY <1>0, <1>8, <2>1 DEF CallsAhead, At
  <1>9. ASSUME PosthookWaitPanics \/ WaitFails PROVE verdict' # "running"
    BY <1>9 DEF PosthookWaitPanics, WaitFails, End
  <1>10. QED
    BY <1>1, <1>2, <1>3, <1>4, <1>5, <1>6, <1>7, <1>8, <1>9 DEF SpecStep

LEMMA InterruptedCalls == IInv /\ SuiteInterrupted => CallsAhead' \in 0 .. (CallsAhead - 1)
  <1> SUFFICES ASSUME IInv, SuiteInterrupted PROVE CallsAhead' \in 0 .. (CallsAhead - 1)
    OBVIOUS
  <1>1. verdict = "running" /\ CallsAhead' = 0
    BY OnlyVerdict DEF CallsAhead, At
  <1>2. QED
    BY <1>1, CallsAheadType DEF IInv

\* However many clusters the hub has and whatever becomes of them meanwhile, a
\* destroy spec makes a bounded number of calls: neither loop starts over.
THEOREM DestroyCallsRunOut == Spec => CallsRunOut
  <1>1. ASSUME EnvironmentStep \/ Ended PROVE CallsAhead' = CallsAhead
    <2>1. UNCHANGED <<optionVars, specVars>>
      BY <1>1 DEF EnvironmentStep, Ended, vars, CLIDeletes, CLIExits,
         HostedClusterGone, ManagedClusterGone, LaunchHook, TowerUpdatesJob, CuratorUninstalls,
         CuratorUninstalled
    <2>2. QED
      BY <2>1 DEF optionVars, specVars, CallsAhead, At
  <1>2. IInv /\ [Next]_vars =>
            [IF SpecStep \/ SuiteInterrupted THEN CallsAhead' \in 0 .. (CallsAhead - 1)
             ELSE CallsAhead' = CallsAhead]_vars
    BY <1>1, CallsStep, InterruptedCalls DEF Next
  <1>3. QED
    BY Inductive, <1>2, PTL DEF Spec, CallsRunOut
===================================================================================
