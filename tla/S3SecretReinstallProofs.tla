------------------------- MODULE S3SecretReinstallProofs -------------------------
(***************************************************************************)
(* Theorems about S3SecretReinstall, for every set of pod names and any    *)
(* bounds on the clock and on the writes of other clients.                 *)
(***************************************************************************)
EXTENDS S3SecretReinstall, FiniteSetTheorems, TLAPS

(***************************************************************************)
(* The inductive invariant                                                 *)
(***************************************************************************)

\* A spec without a verdict still has a call to make, and only a spec whose It
\* has not failed can pass.
VerdictInv ==
    /\ pc = "over" <=> verdict # "running"
    /\ verdict = "passed" => ~itFailed
    /\ pc \notin {"restoreGet", "restoreUpdate", "over"} => ~itFailed

\* How often the spec has written the secret.
OwnWrites ==
    IF pc = "over" THEN 2
    ELSE IF pc \in {"list", "get", "getSecret", "update"} THEN 0 ELSE 1

\* A version names one content: a copy that is not outdated is the secret.
SecretInv ==
    /\ secret.version <= 1 + written + OwnWrites
    /\ copy.version <= secret.version
    /\ copy.version = secret.version => copy = secret

\* What GetLatestCreatedPod chooses among the pods S.
LatestAmong(S) == {n \in S : \A m \in S : pods[m].created <= pods[n].created}
NameOf(S) == IF S = {} THEN 0 ELSE Min(S)
Chosen == NameOf(LatestAmong(existing))
BeforeKnown == {"getSecret", "update", "verify", "poll", "pollGet"}

\* Without deletions the pods of Step 1 are still there; Step 1 keeps the name it
\* has chosen, or none because its Get has failed; and a later choice is either the
\* pod chosen in Step 1 or one that has been created since.
PodInv ==
    ~podsDeleted =>
        /\ pc = "list" => existing = {}
        /\ existing \subseteq DOMAIN pods
        /\ pc = "get" => latestPodName = Chosen
        /\ pc \in BeforeKnown => podNameBefore \in {0, Chosen}
        /\ pc = "pollGet" => latestPodName \in {0, Chosen} \/ latestPodName \notin existing
        /\ pc \in {"restoreGet", "restoreUpdate"} /\ ~itFailed =>
               PodMissed \/ podNameAfter \notin existing
        /\ verdict = "passed" => PodMissed \/ podNameAfter \notin existing

IInv == TypeOK /\ VerdictInv /\ SecretInv /\ PodInv /\ NoLostUpdate /\ PassMeansRestored

-----------------------------------------------------------------------------
(* Choices among pods                                                      *)

\* Of the initial segments of S, one is contained in no other: its end is the
\* minimum.
LEMMA MinOfNames ==
  ASSUME NEW S \in SUBSET Nat, S # {}
  PROVE  Min(S) \in S /\ \A y \in S : Min(S) <= y
  <1> DEFINE Segment(n) == S \cap (0..n)
             Segments == {Segment(n) : n \in S}
  <1>1. \A n \in S : IsFiniteSet(Segment(n))
    <2> TAKE n \in S
    <2>1. IsFiniteSet(0..n)
      BY FS_Interval
    <2>2. QED
      BY <2>1, FS_Subset
  <1>2. Segments \subseteq FiniteSubsetsOf(S) /\ Segments # {}
    BY <1>1 DEF FiniteSubsetsOf
  <1>3. \E I \in Segments : \A J \in Segments : <<J, I>> \notin StrictSubsetOrdering(S)
    BY <1>2, FS_StrictSubsetOrderingWellFounded, WFMin
  <1>4. PICK x \in S : \A y \in S : <<Segment(y), Segment(x)>> \notin StrictSubsetOrdering(S)
    BY <1>3
  <1>5. ASSUME NEW y \in S, y < x PROVE FALSE
    <2>1. Segment(y) \subseteq Segment(x) /\ x \in Segment(x) \ Segment(y)
      BY <1>5
    <2>2. QED
      BY <1>4, <2>1 DEF StrictSubsetOrdering
  <1>6. \A y \in S : x <= y
    BY <1>5
  <1>7. QED
    BY <1>6 DEF Min

\* The choice among all pods, when it is one of the pods of Step 1, is the choice
\* among those: the ties are broken the same way.
LEMMA ChoiceIsStable ==
  ASSUME TypeOK, existing \subseteq DOMAIN pods, LatestCreatedPod \in existing
  PROVE  LatestCreatedPod = Chosen
  <1> DEFINE all == LatestAmong(DOMAIN pods)
             mine == LatestAmong(existing)
  <1>1. DOMAIN pods \subseteq Nat \ {0} /\ \A n \in DOMAIN pods : pods[n].created \in Nat
    BY PodNamesAssumption, BoundsAssumption DEF TypeOK, Pods
  <1>2. LatestCreatedPod = NameOf(all)
    BY DEF LatestCreatedPod, LatestAmong, NameOf
  <1>3. all # {} /\ LatestCreatedPod = Min(all)
    BY <1>1, <1>2 DEF NameOf
  <1>4. Min(all) \in all /\ \A y \in all : Min(all) <= y
    BY <1>1, <1>3, MinOfNames DEF LatestAmong
  <1>5. Min(all) \in mine
    BY <1>3, <1>4 DEF LatestAmong
  <1>6. mine \subseteq all
    BY <1>1, <1>4, <1>5 DEF LatestAmong
  <1>7. Min(mine) \in mine /\ \A y \in mine : Min(mine) <= y
    BY <1>1, <1>5, <1>6, MinOfNames DEF LatestAmong
  <1>8. Min(mine) = Min(all)
    <2>1. Min(mine) <= Min(all) /\ Min(all) <= Min(mine)
      BY <1>4, <1>5, <1>6, <1>7
    <2>2. Min(mine) \in Nat /\ Min(all) \in Nat
      BY <1>1, <1>4, <1>7 DEF LatestAmong
    <2>3. QED
      BY <2>1, <2>2
  <1>9. QED
    BY <1>3, <1>5, <1>8 DEF NameOf, Chosen

-----------------------------------------------------------------------------
(* The initial states and the steps                                        *)

LEMMA InitIInv == Init => IInv
  <1> SUFFICES ASSUME Init PROVE IInv
    OBVIOUS
  <1> USE PodNamesAssumption, BoundsAssumption
  <1>1. /\ secret \in Secrets /\ copy = secret
        /\ secret.version = 1 /\ secret.data = 0
    <2>1. secret \in [version : {1}, region : BOOLEAN, test : BOOLEAN, data : {0}] /\ copy = secret
      BY DEF Init
    <2>2. {1} \subseteq Versions /\ {0} \subseteq 0..MaxWrites
      BY DEF Versions
    <2>3. [version : {1}, region : BOOLEAN, test : BOOLEAN, data : {0}] \subseteq Secrets
      BY <2>2 DEF Secrets
    <2>4. QED
      BY <2>1, <2>3
  <1>2. DOMAIN pods \subseteq PodNames /\ pods \in [DOMAIN pods -> Pods]
    BY DEF Init, Pods
  <1>3. TypeOK
    <2>1. pc = "list" /\ verdict = "running" /\ existing = {} /\ used = DOMAIN pods
      BY DEF Init
    <2>2. itFailed \in BOOLEAN /\ podsDeleted \in BOOLEAN
      BY DEF Init
    <2>3. written \in 0..MaxWrites /\ now \in 0..MaxTime /\ agentSeen \in Versions
      BY DEF Init, Versions
    <2>4. {podNameBefore, podNameAfter, latestPodName} \subseteq PodNames \cup {0}
      BY DEF Init
    <2>5. QED
      BY <1>1, <1>2, <2>1, <2>2, <2>3, <2>4 DEF TypeOK
  <1>4. VerdictInv /\ PassMeansRestored /\ PodInv
    BY DEF Init, VerdictInv, PassMeansRestored, PodInv, BeforeKnown
  <1>5. SecretInv /\ NoLostUpdate
    BY <1>1 DEF Init, SecretInv, OwnWrites, NoLostUpdate
  <1>6. QED
    BY <1>3, <1>4, <1>5 DEF IInv

LEMMA VerdictStep == IInv /\ [Next]_vars => VerdictInv'
  <1> SUFFICES ASSUME IInv, [Next]_vars PROVE VerdictInv'
    OBVIOUS
  <1> USE DEF IInv, VerdictInv
  <1>1. CASE SpecStep
    BY <1>1 DEF SpecStep, ListPodsBefore, GetPodBefore, GetSecretToUpdate, UpdateSecret,
         VerifyUpdatedSecret, ListPodsAfter, GetPodAfter, Step3TimesOut,
         GetSecretToRestore, RestoreSecret, CallFails, Fail, Goto, TypeOK
  <1>2. CASE EnvironmentStep \/ Ended \/ UNCHANGED vars
    <2>1. UNCHANGED specVars
      BY <1>2 DEF EnvironmentStep, OtherClientWrites, AgentReinstalls, OtherPodCreated,
           PodDeleted, Tick, Ended, vars
    <2>2. QED
      BY <2>1 DEF specVars
  <1>3. QED
    BY <1>1, <1>2 DEF Next

\* Steps that leave the secret and the copy alone do not take back a write.
LEMMA OwnWritesGrow ==
  ASSUME IInv, SpecStep PROVE OwnWrites' >= OwnWrites /\ OwnWrites' \in 0..2
  BY DEF IInv, VerdictInv, SpecStep, ListPodsBefore, GetPodBefore, GetSecretToUpdate, UpdateSecret,
       VerifyUpdatedSecret, ListPodsAfter, GetPodAfter, Step3TimesOut,
       GetSecretToRestore, RestoreSecret, CallFails, Fail, Goto, OwnWrites

\* Update refuses an outdated copy, so what it writes back is what is there; one
\* that changes nothing leaves the secret as it is.
LEMMA UpdateKeepsData ==
  ASSUME TypeOK, SecretInv, NEW new \in Secrets,
         new.version = copy.version, new.data = copy.data, Update(new)
  PROVE  /\ copy = secret
         /\ secret' = secret \/ secret'.version = secret.version + 1
         /\ secret'.data = secret.data /\ secret'.test = new.test
         /\ secret'.region = new.region
  BY DEF TypeOK, SecretInv, Secrets, Update

LEMMA SecretStep == IInv /\ [Next]_vars => SecretInv' /\ NoLostUpdate' /\ PassMeansRestored'
  <1> SUFFICES ASSUME IInv, [Next]_vars
               PROVE  SecretInv' /\ NoLostUpdate' /\ PassMeansRestored'
    OBVIOUS
  <1>0. /\ copy \in Secrets /\ secret \in Secrets /\ written \in Nat
        /\ copy.version \in Nat /\ secret.version \in Nat
    BY BoundsAssumption DEF IInv, TypeOK, Secrets, Versions
  <1>1. CASE SpecStep /\ UNCHANGED <<secret, copy, written>> /\ ~RestoreSecret
    <2>1. verdict' = "passed" => verdict = "passed"
      BY <1>1 DEF SpecStep, ListPodsBefore, GetPodBefore, GetSecretToUpdate, UpdateSecret,
           VerifyUpdatedSecret, ListPodsAfter, GetPodAfter, Step3TimesOut,
           GetSecretToRestore, CallFails, Fail, Goto
    <2>2. QED
      BY <1>0, <1>1, <2>1, OwnWritesGrow
         DEF IInv, SecretInv, NoLostUpdate, PassMeansRestored, OwnWrites
  <1>2. CASE GetSecretToUpdate \/ GetSecretToRestore
    BY <1>0, <1>2 DEF IInv, VerdictInv, GetSecretToUpdate, GetSecretToRestore, Goto, secretVars,
         SecretInv, NoLostUpdate, PassMeansRestored, OwnWrites
  <1>3. CASE UpdateSecret
    <2>1. [copy EXCEPT !.test = TRUE] \in Secrets
      BY <1>0 DEF Secrets
    <2>2. /\ copy = secret /\ (secret' = secret \/ secret'.version = secret.version + 1)
          /\ secret'.data = secret.data
      BY <1>0, <1>3, <2>1, UpdateKeepsData DEF IInv, UpdateSecret, Secrets
    <2>3. OwnWrites = 0 /\ OwnWrites' = 1 /\ verdict' = verdict /\ verdict # "passed"
      BY <1>3 DEF IInv, VerdictInv, UpdateSecret, Goto, Fail, OwnWrites
    <2>4. QED
      BY <1>0, <1>3, <2>2, <2>3
         DEF IInv, UpdateSecret, SecretInv, NoLostUpdate, PassMeansRestored
  <1>4. CASE RestoreSecret
    <2>1. WithoutTestKey(copy) \in Secrets /\ ~WithoutTestKey(copy).test
      BY <1>0 DEF Secrets, WithoutTestKey
    <2>2. /\ copy = secret /\ (secret' = secret \/ secret'.version = secret.version + 1)
          /\ secret'.data = secret.data /\ ~secret'.test
      BY <1>0, <1>4, <2>1, UpdateKeepsData DEF IInv, RestoreSecret, Secrets, WithoutTestKey
    <2>3. OwnWrites = 1 /\ OwnWrites' = 2
      BY <1>4 DEF IInv, VerdictInv, RestoreSecret, Fail, OwnWrites
    <2>4. QED
      BY <1>0, <1>4, <2>2, <2>3
         DEF IInv, RestoreSecret, SecretInv, NoLostUpdate, PassMeansRestored
  <1>5. CASE OtherClientWrites
    BY <1>0, <1>5 DEF IInv, OtherClientWrites, specVars, SecretInv, NoLostUpdate,
         PassMeansRestored, OwnWrites, Secrets
  <1>6. CASE UNCHANGED <<specVars, secretVars>>
    BY <1>6 DEF IInv, specVars, secretVars, SecretInv, NoLostUpdate, PassMeansRestored, OwnWrites
  <1>7. QED
    <2>1. CASE SpecStep
      BY <1>1, <1>2, <1>3, <1>4, <2>1 DEF SpecStep, ListPodsBefore, GetPodBefore,
           VerifyUpdatedSecret, ListPodsAfter, GetPodAfter, Step3TimesOut, CallFails, secretVars
    <2>2. CASE EnvironmentStep \/ Ended \/ UNCHANGED vars
      BY <1>5, <1>6, <2>2 DEF EnvironmentStep, AgentReinstalls, OtherPodCreated,
           PodDeleted, Tick, Ended, vars
    <2>3. QED
      BY <2>1, <2>2 DEF Next

LEMMA ChoiceUnchanged ==
  ASSUME existing' = existing, existing \subseteq DOMAIN pods,
         \A n \in existing : pods'[n] = pods[n]
  PROVE  Chosen' = Chosen
  BY DEF Chosen, LatestAmong

LEMMA PodStep == IInv /\ [Next]_vars => PodInv'
  <1> SUFFICES ASSUME IInv, [Next]_vars, ~podsDeleted' PROVE PodInv'
    BY DEF PodInv
  <1>0. PodInv /\ TypeOK /\ VerdictInv
    BY DEF IInv
  <1> USE DEF BeforeKnown, PodMissed
  <1>1. CASE SpecStep
    <2>1. UNCHANGED podVars /\ ~podsDeleted
      BY <1>1 DEF SpecStep, ListPodsBefore, GetPodBefore, GetSecretToUpdate, UpdateSecret,
           VerifyUpdatedSecret, ListPodsAfter, GetPodAfter, Step3TimesOut,
           GetSecretToRestore, RestoreSecret, CallFails, podVars
    <2>2. pods' = pods
      BY <2>1 DEF podVars
    <2>3. ASSUME existing' = existing, pc # "list" PROVE Chosen' = Chosen
      BY <1>0, <2>1, <2>2, <2>3, ChoiceUnchanged DEF PodInv
    <2>4. CASE ListPodsBefore
      <3>1. latestPodName' = Chosen'
        BY <2>2, <2>4 DEF ListPodsBefore, LatestCreatedPod, Chosen, LatestAmong, NameOf
      <3>2. QED
        BY <1>0, <2>2, <2>4, <3>1 DEF ListPodsBefore, Goto, PodInv, VerdictInv
    <2>5. CASE GetPodBefore
      <3>1. latestPodName = Chosen /\ existing \subseteq DOMAIN pods /\ Chosen' = Chosen
        BY <1>0, <2>1, <2>3, <2>5 DEF GetPodBefore, PodInv
      <3>2. podNameBefore' \in {0, Chosen}
        BY <2>5, <3>1 DEF GetPodBefore, PodGot
      <3>3. QED
        BY <1>0, <2>1, <2>2, <2>5, <3>1, <3>2 DEF GetPodBefore, Goto, PodInv, VerdictInv
    <2>6. CASE GetSecretToUpdate \/ UpdateSecret \/ VerifyUpdatedSecret
      BY <1>0, <2>1, <2>2, <2>3, <2>6
         DEF GetSecretToUpdate, UpdateSecret, VerifyUpdatedSecret, Goto, Fail, PodInv, VerdictInv
    <2>7. CASE ListPodsAfter
      <3>1. podNameBefore \in {0, Chosen} /\ existing \subseteq DOMAIN pods /\ Chosen' = Chosen
        BY <1>0, <2>1, <2>3, <2>7 DEF ListPodsAfter, PodInv
      <3>2. LatestCreatedPod = Chosen \/ LatestCreatedPod \notin existing
        BY <1>0, <3>1, ChoiceIsStable
      <3>3. QED
        BY <1>0, <2>1, <2>2, <2>7, <3>1, <3>2 DEF ListPodsAfter, Goto, PodInv, VerdictInv
    <2>8. CASE GetPodAfter
      <3>1. Chosen' = Chosen
        BY <2>3, <2>8 DEF GetPodAfter
      <3>2. podNameAfter' \notin {0, podNameBefore} =>
              PodMissed \/ podNameAfter' \notin existing
        BY <1>0, <2>1, <2>8 DEF GetPodAfter, PodGot, PodInv
      <3>3. QED
        BY <1>0, <2>1, <2>2, <2>8, <3>1, <3>2 DEF GetPodAfter, IsOtherInstallJob, Goto, PodInv, VerdictInv
    <2>9. CASE Step3TimesOut \/ CallFails
      <3>1. \/ pc' = "restoreGet" /\ itFailed' /\ verdict' = "running"
            \/ pc' = "over" /\ verdict' = "failed"
        BY <1>0, <2>9 DEF Step3TimesOut, CallFails, Fail, VerdictInv
      <3>2. existing' = existing /\ existing \subseteq DOMAIN pods
        BY <1>0, <2>1, <2>9 DEF Step3TimesOut, CallFails, PodInv
      <3>3. QED
        BY <1>0, <2>2, <3>1, <3>2 DEF PodInv
    <2>10. CASE GetSecretToRestore \/ RestoreSecret
      BY <1>0, <2>1, <2>2, <2>10
         DEF GetSecretToRestore, RestoreSecret, Goto, Fail, PodInv, VerdictInv
    <2>11. QED
      BY <1>1, <2>4, <2>5, <2>6, <2>7, <2>8, <2>9, <2>10 DEF SpecStep
  <1>2. ASSUME UNCHANGED specVars, ~podsDeleted,
               \A n \in DOMAIN pods : n \in DOMAIN pods' /\ pods'[n] = pods[n]
        PROVE  PodInv'
    <2>1. pc # "list" => Chosen' = Chosen
      BY <1>0, <1>2, ChoiceUnchanged DEF PodInv, specVars
    <2>2. QED
      BY <1>0, <1>2, <2>1 DEF PodInv, specVars
  <1>3. CASE AgentReinstalls \/ OtherPodCreated
    <2>1. PICK n \in PodNames, install \in BOOLEAN : PodCreated(n, install)
      BY <1>3 DEF AgentReinstalls, OtherPodCreated
    <2>2. n \notin DOMAIN pods
      BY <1>0, <2>1 DEF PodCreated, TypeOK
    <2>3. QED
      BY <1>2, <1>3, <2>1, <2>2 DEF AgentReinstalls, OtherPodCreated, PodCreated
  <1>4. ASSUME NEW n \in PodNames, PodDeleted(n) PROVE PodInv'
    <2>1. pc = "list" /\ ~podsDeleted /\ UNCHANGED specVars
      BY <1>4 DEF PodDeleted
    <2>2. QED
      BY <1>0, <2>1 DEF PodInv, VerdictInv, specVars
  <1>5. CASE OtherClientWrites \/ Tick \/ Ended \/ UNCHANGED vars
    <2>1. UNCHANGED specVars /\ UNCHANGED <<pods, podsDeleted>>
      BY <1>5 DEF OtherClientWrites, Tick, Ended, vars, podVars
    <2>2. QED
      BY <1>2, <2>1
  <1>6. QED
    BY <1>1, <1>3, <1>4, <1>5 DEF Next, EnvironmentStep

\* The parts of TypeOK a kind of step may disturb.
ProcessTypeOK ==
    /\ pc \in {"list", "get", "getSecret", "update", "verify",
               "poll", "pollGet", "restoreGet", "restoreUpdate", "over"}
    /\ verdict \in {"running", "passed", "failed"} /\ itFailed \in BOOLEAN
NamesTypeOK ==
    /\ {podNameBefore, podNameAfter, latestPodName} \subseteq PodNames \cup {0}
    /\ existing \subseteq PodNames
SecretTypeOK == copy \in Secrets /\ secret \in Secrets /\ written \in 0..MaxWrites
PodTypeOK ==
    /\ used \subseteq PodNames
    /\ DOMAIN pods \subseteq used /\ pods \in [DOMAIN pods -> Pods]
    /\ podsDeleted \in BOOLEAN /\ now \in 0..MaxTime /\ agentSeen \in Versions

LEMMA TypeParts == TypeOK <=> ProcessTypeOK /\ NamesTypeOK /\ SecretTypeOK /\ PodTypeOK
  BY DEF TypeOK, ProcessTypeOK, NamesTypeOK, SecretTypeOK, PodTypeOK

LEMMA ProcessTypeStep == TypeOK /\ VerdictInv /\ SpecStep => ProcessTypeOK'
  <1> SUFFICES ASSUME TypeOK, VerdictInv, SpecStep PROVE ProcessTypeOK'
    OBVIOUS
  <1>0. ProcessTypeOK
    BY TypeParts
  <1> USE <1>0 DEF ProcessTypeOK
  <1>1. ASSUME Fail PROVE ProcessTypeOK'
    BY <1>1 DEF Fail
  <1>2. ASSUME NEW step \in {"get", "getSecret", "update", "verify", "poll", "pollGet",
                            "restoreGet", "restoreUpdate"},
               Goto(step)
        PROVE  ProcessTypeOK'
    BY <1>2 DEF Goto
  <1>3. CASE RestoreSecret
    BY <1>1, <1>3 DEF RestoreSecret
  <1>4. QED
    BY <1>1, <1>2, <1>3 DEF SpecStep, ListPodsBefore, GetPodBefore, GetSecretToUpdate, UpdateSecret,
         VerifyUpdatedSecret, ListPodsAfter, GetPodAfter, Step3TimesOut,
         GetSecretToRestore, CallFails

LEMMA NamesTypeStep == TypeOK /\ SpecStep => NamesTypeOK'
  <1> SUFFICES ASSUME TypeOK, SpecStep PROVE NamesTypeOK'
    OBVIOUS
  <1>0. NamesTypeOK /\ PodTypeOK
    BY TypeParts
  <1>1. LatestCreatedPod \in PodNames \cup {0}
    <2> DEFINE all == LatestAmong(DOMAIN pods)
    <2>1. LatestCreatedPod = NameOf(all)
      BY DEF LatestCreatedPod, LatestAmong, NameOf
    <2>2. all \subseteq PodNames /\ all \in SUBSET Nat
      BY <1>0, PodNamesAssumption DEF LatestAmong, PodTypeOK
    <2>3. QED
      BY <2>1, <2>2, MinOfNames DEF NameOf
  <1>2. PodGot \subseteq PodNames \cup {0}
    BY <1>0 DEF PodGot, PodTypeOK
  <1>3. DOMAIN pods \subseteq PodNames
    BY <1>0 DEF PodTypeOK
  <1>4. QED
    BY <1>0, <1>1, <1>2, <1>3 DEF SpecStep, ListPodsBefore, GetPodBefore, GetSecretToUpdate,
         UpdateSecret, VerifyUpdatedSecret, ListPodsAfter, GetPodAfter, Step3TimesOut,
         GetSecretToRestore, RestoreSecret, CallFails, NamesTypeOK

LEMMA SecretTypeStep == IInv /\ [Next]_vars /\ SecretInv' => SecretTypeOK'
  <1> SUFFICES ASSUME IInv, [Next]_vars, SecretInv' PROVE SecretTypeOK'
    OBVIOUS
  <1>0. SecretTypeOK /\ VerdictInv
    BY TypeParts DEF IInv
  <1> USE BoundsAssumption
  <1>1. ASSUME NEW new \in Secrets, secret' = [new EXCEPT !.version = secret.version + 1],
               written' \in 0..MaxWrites
        PROVE  secret' \in Secrets
    <2>1. secret'.version = secret.version + 1 /\ secret.version \in Versions
      BY <1>0, <1>1 DEF SecretTypeOK, Secrets
    <2>2. secret'.version <= MaxWrites + 3
      BY <1>1, <2>1 DEF SecretInv, OwnWrites, Versions
    <2>3. secret.version + 1 \in Versions
      BY <2>1, <2>2 DEF Versions
    <2>4. QED
      BY <1>1, <2>3 DEF Secrets
  <1>2. CASE UpdateSecret
    <2>1. [copy EXCEPT !.test = TRUE] \in Secrets
      BY <1>0 DEF SecretTypeOK, Secrets
    <2>2. QED
      BY <1>0, <1>1, <1>2, <2>1 DEF UpdateSecret, Update, SecretTypeOK
  <1>3. CASE RestoreSecret
    <2>1. WithoutTestKey(copy) \in Secrets
      BY <1>0 DEF SecretTypeOK, Secrets, WithoutTestKey
    <2>2. QED
      BY <1>0, <1>1, <1>3, <2>1 DEF RestoreSecret, Update, SecretTypeOK
  <1>4. CASE OtherClientWrites
    <2>1. written' \in 0..MaxWrites
      BY <1>0, <1>4 DEF OtherClientWrites, SecretTypeOK
    <2>2. [secret EXCEPT !.data = written'] \in Secrets
      BY <1>0, <2>1 DEF SecretTypeOK, Secrets
    <2>3. secret' = [[secret EXCEPT !.data = written'] EXCEPT !.version = secret.version + 1]
      BY <1>0, <1>4 DEF OtherClientWrites, SecretTypeOK, Secrets
    <2>4. QED
      BY <1>0, <1>1, <1>4, <2>1, <2>2, <2>3 DEF OtherClientWrites, SecretTypeOK, specVars
  <1>5. CASE secret' = secret /\ written' = written /\ copy' \in {copy, secret}
    BY <1>0, <1>5 DEF SecretTypeOK
  <1>6. QED
    <2>1. CASE SpecStep
      BY <1>2, <1>3, <1>5, <2>1 DEF SpecStep, ListPodsBefore, GetPodBefore, GetSecretToUpdate,
           VerifyUpdatedSecret, ListPodsAfter, GetPodAfter, Step3TimesOut,
           GetSecretToRestore, CallFails, secretVars
    <2>2. CASE EnvironmentStep \/ Ended \/ UNCHANGED vars
      BY <1>4, <1>5, <2>2 DEF EnvironmentStep, AgentReinstalls, OtherPodCreated,
           PodDeleted, Tick, Ended, vars, specVars, secretVars
    <2>3. QED
      BY <2>1, <2>2 DEF Next

LEMMA PodTypeStep == TypeOK /\ EnvironmentStep => PodTypeOK'
  <1> SUFFICES ASSUME TypeOK, EnvironmentStep PROVE PodTypeOK'
    OBVIOUS
  <1>0. PodTypeOK /\ SecretTypeOK
    BY TypeParts
  <1> USE BoundsAssumption
  <1>1. ASSUME NEW n \in PodNames, NEW install \in BOOLEAN, PodCreated(n, install)
        PROVE  /\ used' \subseteq PodNames /\ DOMAIN pods' \subseteq used'
               /\ pods' \in [DOMAIN pods' -> Pods]
    <2>1. [install |-> install, created |-> now] \in Pods
      BY <1>0 DEF PodTypeOK, Pods
    <2>2. QED
      BY <1>0, <1>1, <2>1 DEF PodTypeOK, PodCreated
  <1>2. CASE AgentReinstalls
    BY <1>0, <1>1, <1>2 DEF AgentReinstalls, PodTypeOK, SecretTypeOK, Secrets
  <1>3. CASE OtherPodCreated
    BY <1>0, <1>1, <1>3 DEF OtherPodCreated, PodTypeOK
  <1>4. ASSUME NEW n \in PodNames, PodDeleted(n) PROVE PodTypeOK'
    BY <1>0, <1>4 DEF PodDeleted, PodTypeOK
  <1>5. CASE OtherClientWrites \/ Tick
    BY <1>0, <1>5 DEF OtherClientWrites, Tick, PodTypeOK, podVars
  <1>6. QED
    BY <1>2, <1>3, <1>4, <1>5 DEF EnvironmentStep

LEMMA TypeStep == IInv /\ [Next]_vars => TypeOK'
  <1> SUFFICES ASSUME IInv, [Next]_vars PROVE TypeOK'
    OBVIOUS
  <1>1. ProcessTypeOK /\ NamesTypeOK /\ PodTypeOK /\ TypeOK /\ VerdictInv
    BY TypeParts DEF IInv
  <1>2. SecretTypeOK'
    BY SecretStep, SecretTypeStep
  <1>3. CASE SpecStep
    <2>1. UNCHANGED podVars
      BY <1>3 DEF SpecStep, ListPodsBefore, GetPodBefore, GetSecretToUpdate, UpdateSecret,
           VerifyUpdatedSecret, ListPodsAfter, GetPodAfter, Step3TimesOut,
           GetSecretToRestore, RestoreSecret, CallFails
    <2>2. PodTypeOK'
      BY <1>1, <2>1 DEF podVars, PodTypeOK
    <2>3. QED
      BY <1>1, <1>2, <1>3, <2>2, ProcessTypeStep, NamesTypeStep, TypeParts
         DEF TypeOK, ProcessTypeOK, NamesTypeOK, SecretTypeOK, PodTypeOK
  <1>4. CASE EnvironmentStep \/ Ended \/ UNCHANGED vars
    <2>1. UNCHANGED specVars
      BY <1>4 DEF EnvironmentStep, OtherClientWrites, AgentReinstalls, OtherPodCreated,
           PodDeleted, Tick, Ended, vars
    <2>2. ProcessTypeOK' /\ NamesTypeOK'
      BY <1>1, <2>1 DEF specVars, ProcessTypeOK, NamesTypeOK
    <2>3. PodTypeOK'
      <3>1. CASE Ended \/ UNCHANGED vars
        BY <1>1, <3>1 DEF Ended, vars, podVars, PodTypeOK
      <3>2. QED
        BY <1>1, <1>4, <3>1, PodTypeStep
    <2>4. QED
      BY <1>2, <2>2, <2>3 DEF TypeOK, ProcessTypeOK, NamesTypeOK, SecretTypeOK, PodTypeOK
  <1>5. QED
    BY <1>3, <1>4 DEF Next

-----------------------------------------------------------------------------
(* The refinement of the contract                                          *)

\* What the contract needs on top of the invariant: the spec only ever adds its key
\* to a copy with a region.
KeyInv == pc = "update" => copy.region

LEMMA KeyStep == IInv /\ KeyInv /\ [Next]_vars => KeyInv'
  <1> SUFFICES ASSUME IInv, KeyInv, [Next]_vars PROVE KeyInv'
    OBVIOUS
  <1>1. CASE SpecStep
    BY <1>1 DEF IInv, VerdictInv, KeyInv, SpecStep, ListPodsBefore, GetPodBefore,
         GetSecretToUpdate, UpdateSecret, VerifyUpdatedSecret, ListPodsAfter, GetPodAfter,
         Step3TimesOut, GetSecretToRestore, RestoreSecret, CallFails, Fail, Goto, secretVars
  <1>2. CASE UNCHANGED specVars
    BY <1>2 DEF KeyInv, specVars
  <1>3. QED
    BY <1>1, <1>2 DEF Next, EnvironmentStep, OtherClientWrites, AgentReinstalls,
         OtherPodCreated, PodDeleted, Tick, Ended, vars

LEMMA InitRefines == Init => Contract!ContractInit /\ KeyInv
  BY DEF Init, Phase, Contract!ContractInit, KeyInv

\* The two writes of the spec: what they write is what they found, but for the key.
LEMMA WriteRefines ==
  ASSUME IInv, KeyInv, UpdateSecret \/ RestoreSecret
  PROVE  Contract!ContractNext
  <1>0. copy \in Secrets /\ secret \in Secrets
    BY DEF IInv, TypeOK
  <1> USE DEF Contract!ContractNext, Contract!OthersKept
  <1>1. CASE UpdateSecret
    <2> DEFINE new == [copy EXCEPT !.test = TRUE]
    <2>1. /\ new \in Secrets /\ new.test /\ new.version = copy.version
          /\ new.region = copy.region /\ new.data = copy.data
      BY <1>0 DEF Secrets
    <2>2. /\ copy = secret /\ secret'.test
          /\ secret'.region = secret.region /\ secret'.data = secret.data
      BY <1>1, <2>1, UpdateKeepsData DEF IInv, UpdateSecret
    <2>3. Phase = "adding" /\ Phase' = "holding"
      BY <1>1 DEF IInv, VerdictInv, UpdateSecret, Goto, Fail, Phase
    <2>4. secret.region
      BY <1>1, <2>2 DEF KeyInv, UpdateSecret
    <2>5. QED
      BY <2>2, <2>3, <2>4 DEF Contract!AddKey
  <1>2. CASE RestoreSecret
    <2>1. /\ WithoutTestKey(copy) \in Secrets /\ ~WithoutTestKey(copy).test
          /\ WithoutTestKey(copy).version = copy.version
          /\ WithoutTestKey(copy).region = copy.region /\ WithoutTestKey(copy).data = copy.data
      BY <1>0 DEF Secrets, WithoutTestKey
    <2>2. /\ copy = secret /\ ~secret'.test
          /\ secret'.region = secret.region /\ secret'.data = secret.data
      BY <1>2, <2>1, UpdateKeepsData DEF IInv, RestoreSecret
    <2>3. Phase = "holding" /\ Phase' \in {"passed", "failed"}
      BY <1>2 DEF IInv, VerdictInv, RestoreSecret, Fail, Phase
    <2>4. QED
      BY <2>2, <2>3 DEF Contract!TakeKeyOut
  <1>3. QED
    BY <1>1, <1>2

\* Every other call of the spec leaves the secret alone and moves on at most one phase.
LEMMA OtherCallRefines ==
  ASSUME IInv, SpecStep, ~UpdateSecret, ~RestoreSecret
  PROVE  [Contract!ContractNext]_(Contract!contractVars)
  <1>1. secret' = secret
    BY DEF SpecStep, ListPodsBefore, GetPodBefore, GetSecretToUpdate, VerifyUpdatedSecret,
         ListPodsAfter, GetPodAfter, Step3TimesOut, GetSecretToRestore, CallFails, secretVars
  <1>2. \/ Phase' = Phase
        \/ Phase = "adding" /\ Phase' = "holding"
        \/ Phase = "holding" /\ Phase' = "failed"
    BY DEF IInv, VerdictInv, SpecStep, ListPodsBefore, GetPodBefore, GetSecretToUpdate,
         VerifyUpdatedSecret, ListPodsAfter, GetPodAfter, Step3TimesOut, GetSecretToRestore,
         CallFails, Fail, Goto, Phase
  <1>3. QED
    BY <1>1, <1>2 DEF Contract!contractVars, Contract!ContractNext, Contract!AddNothing,
         Contract!FailSpec, Contract!OthersKept

LEMMA StepRefines ==
  ASSUME IInv, KeyInv, [Next]_vars
  PROVE  [Contract!ContractNext]_(Contract!contractVars)
  <1>1. CASE SpecStep
    BY <1>1, WriteRefines, OtherCallRefines
  <1>2. CASE OtherClientWrites
    <2>1. secret'.region = secret.region /\ secret'.test = secret.test
      BY <1>2 DEF IInv, TypeOK, Secrets, OtherClientWrites
    <2>2. Phase' = Phase
      BY <1>2 DEF OtherClientWrites, specVars, Phase
    <2>3. QED
      BY <2>1, <2>2 DEF Contract!ContractNext, Contract!OthersWrite
  <1>3. CASE UNCHANGED <<specVars, secretVars>>
    BY <1>3 DEF specVars, secretVars, Phase, Contract!contractVars
  <1>4. QED
    BY <1>1, <1>2, <1>3 DEF Next, EnvironmentStep, AgentReinstalls, OtherPodCreated,
         PodDeleted, Tick, Ended, vars

-----------------------------------------------------------------------------
(* Theorems                                                                *)

LEMMA Inductive == Spec => []IInv
  <1>1. IInv /\ [Next]_vars => IInv'
    BY TypeStep, VerdictStep, SecretStep, PodStep DEF IInv
  <1>2. QED
    BY InitIInv, <1>1, PTL DEF Spec

\* Type correctness: in particular the version of the secret stays within the
\* writes the code and the other clients can make.
THEOREM TypeCorrect == Spec => []TypeOK
  BY Inductive, PTL DEF IInv

\* Whatever other clients write between the Get and the Update of UpdateSecret
\* or of AfterEach, and however often: no write is undone.
THEOREM NoWriteIsLost == Spec => []NoLostUpdate
  BY Inductive, PTL DEF IInv

\* A spec that passes has removed its test key, and nobody brings it back.
THEOREM SecretIsRestored == Spec => []PassMeansRestored
  BY Inductive, PTL DEF IInv

\* As long as no pod is deleted and the Get of Step 1 has not failed with pods
\* there, the pod a passing spec has accepted is one that did not exist when it
\* looked first: for any number of pods, also if several are created within one
\* second or between the List and the Get, and however many Gets of Step 3 fail.
THEOREM SeesANewInstall == Spec => []NewInstallUnlessPodMissed
  <1>1. IInv => NewInstallUnlessPodMissed
    BY DEF IInv, PodInv, NewInstallUnlessPodMissed, PassMeansNewInstall
  <1>2. QED
    BY Inductive, <1>1, PTL

\* Seen from the secret, the two read-change-update sequences of UpdateSecret and of
\* AfterEach are two steps, each of which touches the test key and nothing else: the
\* other writers cannot tell the spec from one that locks the secret.
THEOREM SecretImplementsContract == Spec => ImplementsContract
  <1>1. IInv /\ KeyInv /\ [Next]_vars => [Contract!ContractNext]_(Contract!contractVars)
    BY StepRefines
  <1>2. QED
    BY <1>1, KeyStep, InitRefines, Inductive, PTL
       DEF Spec, ImplementsContract, Contract!ContractSpec
=================================================================================
