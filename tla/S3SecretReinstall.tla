--------------------------- MODULE S3SecretReinstall ---------------------------
(***************************************************************************)
(* RHACM4K-21843: the spec adds a key to the S3 secret, waits for the pod  *)
(* of a new hypershift install job, and takes the key out again in its     *)
(* AfterEach.  Meanwhile other clients write the secret, the add-on agent  *)
(* starts install jobs and pods are deleted.  Names of pods are numbers in *)
(* the order in which the API server lists them.                           *)
(***************************************************************************)
EXTENDS Naturals, FiniteSetsExt

CONSTANTS
    PodNames,   \* names of pods, in list order; 0 is the empty name
    MaxTime,    \* bound on the clock (creation timestamps are in seconds)
    MaxWrites   \* bound on the writes of other clients

ASSUME PodNamesAssumption == PodNames \subseteq Nat \ {0}
ASSUME BoundsAssumption == MaxTime \in Nat /\ MaxWrites \in Nat

VARIABLES
    pc,            \* the call the spec makes next
    verdict,       \* "running", or how the spec ended
    itFailed,      \* the It has failed, its AfterEach still runs
    podNameBefore, podNameAfter,
    latestPodName, \* the local of GetLatestCreatedPod between List and Get
    copy,          \* the secret as the spec last read it
    existing,      \* history: the pods at the List of Step 1
    secret,        \* the secret on the hub
    written,       \* history: what other clients have written last
    pods,          \* the pods of the namespace, by name
    used,          \* names given to pods so far
    podsDeleted,   \* history: a pod has been deleted since Step 1
    now,           \* the clock
    agentSeen      \* the version of the secret the add-on agent has acted on

specVars == <<pc, verdict, itFailed, podNameBefore, podNameAfter, latestPodName,
              copy, existing>>
secretVars == <<secret, written>>
podVars == <<pods, used, podsDeleted, now, agentSeen>>
vars == <<specVars, secretVars, podVars>>

\* The spec itself writes the secret twice at most.
\* A test key may be left by an earlier run whose AfterEach has failed.
\* version stands for metadata.resourceVersion, data for the keys that are not
\* the spec's business; region and test are the keys it looks for and adds.
Versions == 1..(MaxWrites + 3)
Secrets == [version : Versions, region : BOOLEAN, test : BOOLEAN, data : 0..MaxWrites]
Pods == [install : BOOLEAN, created : 0..MaxTime]

TypeOK ==
    /\ pc \in {"list", "get", "getSecret", "update", "verify",
               "poll", "pollGet", "restoreGet", "restoreUpdate", "over"}
    /\ verdict \in {"running", "passed", "failed"} /\ itFailed \in BOOLEAN
    /\ {podNameBefore, podNameAfter, latestPodName} \subseteq PodNames \cup {0}
    /\ copy \in Secrets /\ secret \in Secrets /\ written \in 0..MaxWrites
    /\ existing \subseteq PodNames /\ used \subseteq PodNames
    /\ DOMAIN pods \subseteq used /\ pods \in [DOMAIN pods -> Pods]
    /\ podsDeleted \in BOOLEAN /\ now \in 0..MaxTime /\ agentSeen \in Versions

Init ==
    /\ pc = "list" /\ verdict = "running" /\ itFailed = FALSE
    /\ podNameBefore = 0 /\ podNameAfter = 0 /\ latestPodName = 0
    /\ secret \in [version : {1}, region : BOOLEAN, test : BOOLEAN, data : {0}]
    /\ copy = secret /\ existing = {} /\ written = 0
    /\ \E P \in SUBSET PodNames : pods \in [P -> [install : BOOLEAN, created : {0}]]
    /\ used = DOMAIN pods /\ podsDeleted = FALSE
    /\ now = 0 /\ agentSeen = 1

-----------------------------------------------------------------------------
(* The spec                                                                *)

\* Mutant: a spec whose AfterEach fails starts over with Step 2.
FailStartingOver ==
    /\ pc' = IF pc \in {"restoreGet", "restoreUpdate"} THEN "getSecret" ELSE "restoreGet"
    /\ itFailed' = TRUE /\ verdict' = verdict
\* An assertion fails: the It ends, AfterEach runs.  A failure in AfterEach
\* ends the spec.
Fail ==
    IF pc \in {"restoreGet", "restoreUpdate"}
    THEN pc' = "over" /\ verdict' = "failed" /\ itFailed' = itFailed
    ELSE pc' = "restoreGet" /\ itFailed' = TRUE /\ verdict' = verdict
Goto(step) == pc' = step /\ UNCHANGED <<itFailed, verdict>>

\* The loop of GetLatestCreatedPod: the first listed of the pods with the latest
\* creation time, "" when there are none.
LatestCreatedPod ==
    LET latest == {n \in DOMAIN pods : \A m \in DOMAIN pods : pods[m].created <= pods[n].created}
    IN  IF latest = {} THEN 0 ELSE Min(latest)

\* The Get of GetLatestCreatedPod.  It drops every error, that of a pod that is gone
\* and that of a call that has failed: the client returns an empty Pod with it,
\* which is not nil.
PodGot == {0} \cup ({latestPodName} \cap DOMAIN pods)

ListPodsBefore ==
    /\ pc = "list"
    /\ latestPodName' = LatestCreatedPod /\ existing' = DOMAIN pods
    /\ Goto("get")
    /\ UNCHANGED <<podNameBefore, podNameAfter, copy, secretVars, podVars>>

GetPodBefore ==
    /\ pc = "get"
    /\ podNameBefore' \in PodGot
    /\ Goto("getSecret")
    /\ UNCHANGED <<podNameAfter, latestPodName, copy, existing, secretVars, podVars>>

\* UpdateSecret returns an error when the key is missing; Step 2 ignores it.
GetSecretToUpdate ==
    /\ pc = "getSecret"
    /\ copy' = secret
    /\ Goto(IF secret.region THEN "update" ELSE "poll")
    /\ UNCHANGED <<podNameBefore, podNameAfter, latestPodName, existing, secretVars, podVars>>

\* Mutant: an update that does not send the resourceVersion it has read.
UpdateForced(new) == secret' = [new EXCEPT !.version = secret.version + 1]
\* The API server takes an update of the version it has, and only that.  One that
\* changes nothing makes no new version.
Update(new) ==
    /\ copy.version = secret.version
    /\ secret' = IF new = secret THEN secret ELSE [new EXCEPT !.version = secret.version + 1]

UpdateSecret ==
    /\ pc = "update"
    /\ Update([copy EXCEPT !.test = TRUE])
    /\ Goto("verify") \/ Fail
    /\ UNCHANGED <<podNameBefore, podNameAfter, latestPodName, copy, existing, written, podVars>>

VerifyUpdatedSecret ==
    /\ pc = "verify"
    /\ IF secret.test THEN Goto("poll") ELSE Fail
    /\ UNCHANGED <<podNameBefore, podNameAfter, latestPodName, copy, existing, secretVars, podVars>>

ListPodsAfter ==
    /\ pc = "poll"
    /\ latestPodName' = LatestCreatedPod
    /\ Goto("pollGet")
    /\ UNCHANGED <<podNameBefore, podNameAfter, copy, existing, secretVars, podVars>>

\* Mutant: the name is not compared with that of Step 1.
IsInstallJob(name) == name # 0 /\ pods[name].install
\* Step 3 wants another pod with the prefix hypershift-install-job; Step 4 then
\* holds as well.
IsOtherInstallJob(name) == name \notin {0, podNameBefore} /\ pods[name].install

GetPodAfter ==
    /\ pc = "pollGet"
    /\ podNameAfter' \in PodGot
    /\ IF IsOtherInstallJob(podNameAfter')
       THEN Goto("restoreGet") ELSE Goto("poll")
    /\ UNCHANGED <<podNameBefore, latestPodName, copy, existing, secretVars, podVars>>

\* Mutant: the loop looks at no clock.
NoTimeout == FALSE
Step3TimesOut ==
    /\ pc = "poll" /\ Fail
    /\ UNCHANGED <<podNameBefore, podNameAfter, latestPodName, copy, existing, secretVars, podVars>>

GetSecretToRestore ==
    /\ pc = "restoreGet"
    /\ copy' = secret /\ Goto("restoreUpdate")
    /\ UNCHANGED <<podNameBefore, podNameAfter, latestPodName, existing, secretVars, podVars>>

\* Mutant: the wrong key is deleted.
WithoutTestKeyMissed(s) == s
WithoutTestKey(s) == [s EXCEPT !.test = FALSE]

RestoreSecret ==
    /\ pc = "restoreUpdate"
    /\ Update(WithoutTestKey(copy))
    /\ \/ /\ pc' = "over" /\ itFailed' = itFailed
          /\ verdict' = IF itFailed THEN "failed" ELSE "passed"
       \/ Fail
    /\ UNCHANGED <<podNameBefore, podNameAfter, latestPodName, copy, existing, written, podVars>>

\* A call is refused or fails without effect (a conflict is such a case).  The Gets
\* of the two pods are not among them: their errors are dropped.
CallFails ==
    /\ pc \in {"list", "getSecret", "update", "verify", "poll", "restoreGet", "restoreUpdate"}
    /\ Fail
    /\ UNCHANGED <<podNameBefore, podNameAfter, latestPodName, copy, existing, secretVars, podVars>>

SpecStep ==
    \/ ListPodsBefore \/ GetPodBefore
    \/ GetSecretToUpdate \/ UpdateSecret \/ VerifyUpdatedSecret
    \/ ListPodsAfter \/ GetPodAfter \/ Step3TimesOut
    \/ GetSecretToRestore \/ RestoreSecret \/ CallFails

-----------------------------------------------------------------------------
(* Other clients of the hub, which are not in this repository              *)

OtherClientWrites ==
    /\ written < MaxWrites
    /\ written' = written + 1
    /\ secret' = [secret EXCEPT !.version = @ + 1, !.data = written']
    /\ UNCHANGED <<specVars, podVars>>

PodCreated(n, install) ==
    /\ n \in PodNames \ used /\ used' = used \cup {n}
    /\ pods' = [m \in DOMAIN pods \cup {n} |->
                   IF m = n THEN [install |-> install, created |-> now] ELSE pods[m]]

\* The add-on agent starts an install job when the secret has changed.
AgentReinstalls ==
    /\ agentSeen # secret.version /\ agentSeen' = secret.version
    /\ \E n \in PodNames : PodCreated(n, TRUE)
    /\ UNCHANGED <<specVars, secretVars, podsDeleted, now>>

OtherPodCreated ==
    /\ \E n \in PodNames : PodCreated(n, FALSE)
    /\ UNCHANGED <<specVars, secretVars, podsDeleted, now, agentSeen>>

PodDeleted(n) ==
    /\ n \in DOMAIN pods
    /\ pods' = [m \in DOMAIN pods \ {n} |-> pods[m]]
    /\ podsDeleted' = (podsDeleted \/ pc # "list")
    /\ UNCHANGED <<specVars, secretVars, used, now, agentSeen>>

Tick ==
    /\ now < MaxTime /\ now' = now + 1
    /\ UNCHANGED <<specVars, secretVars, pods, used, podsDeleted, agentSeen>>

EnvironmentStep ==
    \/ OtherClientWrites \/ AgentReinstalls \/ OtherPodCreated
    \/ \E n \in PodNames : PodDeleted(n)
    \/ Tick

Ended == verdict # "running" /\ UNCHANGED vars
Next == SpecStep \/ EnvironmentStep \/ Ended
Spec == Init /\ [][Next]_vars

\* The test process runs, and the loop of Step 3 ends after five minutes even
\* if its condition never holds; the hub owes nothing.
FairSpec == Spec /\ WF_vars(SpecStep) /\ SF_vars(Step3TimesOut)

-----------------------------------------------------------------------------
(* Properties                                                              *)

\* Neither the update of Step 2 nor the restoration of AfterEach ever undoes
\* what another client wrote to the secret between their Get and their Update.
NoLostUpdate == secret.data = written

\* A spec that passes leaves no trace in the secret, whoever wrote it meanwhile.
PassMeansRestored == verdict = "passed" => ~secret.test

\* A passing spec has seen the pod of a new install job: one that did not exist
\* when it looked first.
PassMeansNewInstall == verdict = "passed" => podNameAfter \notin existing

\* That holds as long as no pod is deleted while the spec runs and Step 1 has got the
\* name of a pod, when there was one: even if pods are created within the same second
\* and at any point of the two reads, and if Gets fail in Step 3.
PodMissed == podNameBefore = 0 /\ existing # {}
NewInstallUnlessPodMissed == ~podsDeleted /\ ~PodMissed => PassMeansNewInstall

\* The contract of SecretContract: among the writers of one secret the spec behaves
\* as if each of its two read-change-write sequences were a single step.
Phase ==
    IF pc = "over" THEN verdict
    ELSE IF pc \in {"list", "get", "getSecret", "update"} THEN "adding" ELSE "holding"
Contract == INSTANCE SecretContract
    WITH region <- secret.region, data <- secret.data, test <- secret.test, phase <- Phase
ImplementsContract == Contract!ContractSpec

\* The spec, with its AfterEach, ends with a verdict.
SpecConcludes == <>(verdict # "running")
=================================================================================
