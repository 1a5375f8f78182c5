--------------------------- MODULE ClusterCreateProofs ---------------------------
(***************************************************************************)
(* Theorems about ClusterCreate, for either platform, with and without     *)
(* curation, on any hub and for any lists of add-ons.                      *)
(***************************************************************************)
EXTENDS ClusterCreate, TLAPS

-----------------------------------------------------------------------------
(* The order of the calls                                                  *)

LEMMA BodyLength ==
  ASSUME platform \in Platforms
  PROVE  /\ platform = "aws" => Body = AwsBody /\ Len(Body) = 17
         /\ platform # "aws" => Body = KubevirtBody /\ Len(Body) = 16
  BY DEF Body, AwsBody, KubevirtBody

LEMMA AwsOrder ==
  ASSUME NEW i \in 1..17
  PROVE  /\ AwsBody[i] = "defer" <=> i = 2
         /\ AwsBody[i] = "startCLI" <=> i = 1
         /\ AwsBody[i] = "deleteCurator" <=> i = 5
         /\ AwsBody[i] = "createCurator" <=> i = 6
         /\ AwsBody[i] = "preJob" <=> i = 7
         /\ AwsBody[i] = "postJob" <=> i = 12
         /\ AwsBody[i] = "curatorJob" <=> i = 13
         /\ AwsBody[i] = "addons" <=> i = 15
         /\ AwsBody[i] = "annotations" <=> i = 17
  BY DEF AwsBody

LEMMA KubevirtOrder ==
  ASSUME NEW i \in 1..16
  PROVE  /\ KubevirtBody[i] = "deleteCurator" <=> i = 3
         /\ KubevirtBody[i] = "createCurator" <=> i = 4
         /\ KubevirtBody[i] = "preJob" <=> i = 7
         /\ KubevirtBody[i] = "postJob" <=> i = 11
         /\ KubevirtBody[i] # "curatorJob"
         /\ KubevirtBody[i] = "addons" <=> i = 13
         /\ KubevirtBody[i] = "annotations" <=> i = 16
  BY DEF KubevirtBody

LEMMA Order ==
  ASSUME platform \in Platforms, at \in 1..Len(Body)
  PROVE  /\ Body[at] = "startCLI" => at < Len(Body)
         /\ platform = "aws" => (Body[at] = "startCLI" <=> at = 1) /\ (Body[at] = "defer" <=> at = 2)
         /\ Body[at] = "deleteCurator" =>
                ~Past("deleteCurator") /\ ~Past("createCurator") /\ ~Past("curatorJob") /\ at < Len(Body)
         /\ Body[at] = "createCurator" => Past("deleteCurator") /\ at < Len(Body)
         /\ Body[at] \in {"preJob", "postJob"} => Past("createCurator")
         /\ Body[at] = "addons" => ~Past("addons") /\ at < Len(Body)
         /\ at = Len(Body) =>
                Body[at] = "annotations" /\ Past("addons") /\ (platform = "aws" => Past("curatorJob"))
  <1>1. CASE platform = "aws"
    <2>1. Body = AwsBody /\ Len(Body) = 17
      BY <1>1, BodyLength
    <2>2. \A t : Past(t) <=> \E i \in 1..17 : i < at /\ AwsBody[i] = t
      BY <2>1 DEF Past
    <2>0. at \in 1..17
      BY <2>1
    <2>3. Past("deleteCurator") <=> 5 < at
      BY <2>0, <2>2, AwsBody[5] = "deleteCurator", AwsOrder DEF AwsBody
    <2>4. Past("createCurator") <=> 6 < at
      BY <2>0, <2>2, AwsBody[6] = "createCurator", AwsOrder DEF AwsBody
    <2>5. Past("curatorJob") <=> 13 < at
      BY <2>0, <2>2, AwsBody[13] = "curatorJob", AwsOrder DEF AwsBody
    <2>6. Past("addons") <=> 15 < at
      BY <2>0, <2>2, AwsBody[15] = "addons", AwsOrder DEF AwsBody
    <2>8. QED
      BY <1>1, <2>0, <2>1, <2>3, <2>4, <2>5, <2>6, AwsOrder
  <1>2. CASE platform # "aws"
    <2>1. Body = KubevirtBody /\ Len(Body) = 16
      BY <1>2, BodyLength
    <2>2. \A t : Past(t) <=> \E i \in 1..16 : i < at /\ KubevirtBody[i] = t
      BY <2>1 DEF Past
    <2>0. at \in 1..16
      BY <2>1
    <2>3. Past("deleteCurator") <=> 3 < at
      BY <2>0, <2>2, KubevirtBody[3] = "deleteCurator", KubevirtOrder DEF KubevirtBody
    <2>4. Past("createCurator") <=> 4 < at
      BY <2>0, <2>2, KubevirtBody[4] = "createCurator", KubevirtOrder DEF KubevirtBody
    <2>5. ~Past("curatorJob")
      BY <2>2, KubevirtOrder
    <2>6. Past("addons") <=> 13 < at
      BY <2>0, <2>2, KubevirtBody[13] = "addons", KubevirtOrder DEF KubevirtBody
    <2>7. Body[at] = "startCLI" => at < Len(Body)
      BY <2>1, KubevirtOrder
    <2>8. QED
      BY <1>2, <2>0, <2>1, <2>3, <2>4, <2>5, <2>6, <2>7, KubevirtOrder
  <1>3. QED
    BY <1>1, <1>2

LEMMA LengthIsNat == platform \in Platforms => Len(Body) \in Nat
  BY BodyLength

LEMMA PastSame ==
  ASSUME NEW t, UNCHANGED <<platform, at>>
  PROVE  Past(t)' <=> Past(t)
  BY DEF Past, Body

LEMMA PastNext ==
  ASSUME NEW t, TypeOK, UNCHANGED platform, at < Len(Body), at' = at + 1
  PROVE  Past(t)' <=> Past(t) \/ Body[at] = t
  BY LengthIsNat DEF Past, Body, TypeOK

-----------------------------------------------------------------------------
(* The inductive invariant                                                 *)

\* On AWS a process that runs belongs to a running spec that will stop it, or is
\* about to say so, or to one that ginkgo gave up.
CleanupInv ==
    platform = "aws" /\ cli = "running" =>
        verdict = "interrupted" \/ (verdict = "running" /\ (at = 2 \/ deferred))

\* Whose ClusterCurator is there, by what the spec has behind it.
CuratorInv ==
    /\ curator = "own" => curatorEnabled /\ Past("createCurator")
    /\ curatorEnabled /\ Past("deleteCurator") => curator # "earlier"
    /\ curatorEnabled /\ Past("createCurator") => curator = "own"
    /\ verdict = "panicked" => curator = "own"

\* What the conditions and the cluster say of the hooks.
HookInv ==
    /\ curatorEnabled /\ cluster \in {"provisioning", "available"} =>
           curator = "own" /\ \A h \in PreHooks : jobs[h] = "ok"
    /\ "clustercurator-job" \in conditions => \A h \in Hooks : jobs[h] = "ok"
    /\ curatorEnabled /\ Past("curatorJob") => "clustercurator-job" \in conditions

\* How far a spec that passes has come, and what the loop over the add-ons has seen.
SeenBefore(n) == {AddOnLists[checking][i] : i \in 1..(n - 1)}
PassInv ==
    /\ verdict = "passed" => at = Len(Body)
    /\ checking # "no" => checking = hub
    /\ addOnsSeen = SeenBefore(addOn)
    /\ Past("addons") /\ checking # "no" => addOnsSeen = Listed(hub)

IInv == TypeOK /\ CleanupInv /\ CuratorInv /\ HookInv /\ PassInv

\* The lists of add-ons are finite.
LEMMA ListLength ==
  ASSUME NEW list \in {"no", "mce", "acm"}
  PROVE  /\ Len(AddOnLists[list]) \in Nat
         /\ DOMAIN AddOnLists[list] = 1..Len(AddOnLists[list])
  BY AddOnsAssumption DEF AddOnLists

LEMMA NothingListed == Listed("no") = {} /\ Len(AddOnLists["no"]) = 0
  BY DEF Listed, AddOnLists

LEMMA SeenSame ==
  ASSUME UNCHANGED <<checking, addOn>> PROVE SeenBefore(addOn)' = SeenBefore(addOn)
  BY DEF SeenBefore, AddOnLists

LEMMA InitIInv == Init => IInv
  <1> SUFFICES ASSUME Init PROVE IInv
    OBVIOUS
  <1>1. \A t : ~Past(t)
    BY DEF Past, Init
  <1>2. jobs \in [Hooks -> JobStates] /\ currentJob \in 0..4 /\ conditions \subseteq Conditions
        /\ curator \in {"absent", "earlier"}
        /\ ("clustercurator-job" \in conditions => \A h \in Hooks : jobs[h] = "ok")
    <2>1. CASE NothingLeft
      BY <2>1 DEF NothingLeft, JobStates
    <2>2. CASE LeftByEarlierRun
      BY <2>2 DEF LeftByEarlierRun, JobStates, Hooks, PreHooks, PostHooks
    <2>3. QED
      BY <2>1, <2>2 DEF Init
  <1>3. at \in 1..Len(Body)
    <2>1. platform \in Platforms /\ at = 1
      BY DEF Init
    <2>2. Len(Body) = 16 \/ Len(Body) = 17
      BY <2>1, BodyLength
    <2>3. CASE Len(Body) = 16
      BY <2>1, <2>3
    <2>4. CASE Len(Body) = 17
      BY <2>1, <2>4
    <2>5. QED
      BY <2>2, <2>3, <2>4
  <1>4. NoSuchJob \in [hook : 0..4, state : JobStates]
    BY DEF NoSuchJob, JobStates
  <1>5. TypeOK
    <2>1. addOn \in 1..(Len(AddOnLists[checking]) + 1) /\ addOnsSeen \subseteq Listed(checking)
      BY NothingListed DEF Init
    <2>2. QED
      BY <1>2, <1>3, <1>4, <2>1 DEF Init, TypeOK
  <1>6. addOnsSeen = SeenBefore(addOn)
    BY DEF Init, SeenBefore
  <1>7. QED
    BY <1>1, <1>2, <1>5, <1>6 DEF Init, IInv, CleanupInv, CuratorInv, HookInv, PassInv

-----------------------------------------------------------------------------
(* How a step moves the spec                                               *)

\* The three outcomes of a call.
Goes == at < Len(Body) /\ at' = at + 1 /\ verdict' = "running"
Passes == at = Len(Body) /\ at' = at /\ verdict' = "passed"
Stays == at' = at /\ (verdict' \in {"running", "failed", "interrupted"} \/ (verdict' = "panicked" /\ curator = "own"))

LEMMA AdvanceMoves ==
  ASSUME TypeOK, Advance
  PROVE  \/ Goes /\ cli' = cli
         \/ Passes /\ End("passed")
  <1>1. at <= Len(Body)
    BY LengthIsNat DEF TypeOK
  <1>2. CASE at = Len(Body)
    BY <1>2 DEF Advance, End, Passes
  <1>3. CASE at # Len(Body)
    BY <1>1, <1>3, LengthIsNat DEF Advance, Goes, TypeOK
  <1>4. QED
    BY <1>2, <1>3

LEMMA SpecVarsTyped ==
  ASSUME TypeOK, UNCHANGED platform, Advance \/ \E v \in {"failed", "panicked"} : End(v)
  PROVE  /\ at' \in 1..Len(Body')
         /\ verdict' \in {"running", "passed", "failed", "panicked", "interrupted"}
         /\ cli' \in {"notStarted", "running", "exit0", "exit1", "killed"}
  <1>1. Body' = Body
    BY DEF Body
  <1>2. Len(Body) \in Nat /\ at \in 1..Len(Body)
    BY LengthIsNat DEF TypeOK
  <1>3. cli \in {"notStarted", "running", "exit0", "exit1", "killed"}
    BY DEF TypeOK
  <1>4. CASE Advance
    BY <1>1, <1>2, <1>3, <1>4, AdvanceMoves DEF Goes, Passes, End
  <1>5. CASE \E v \in {"failed", "panicked"} : End(v)
    BY <1>1, <1>2, <1>3, <1>5 DEF End
  <1>6. QED
    BY <1>4, <1>5

\* Where the process is not started and its cleanup is not registered.
LEMMA QuietCleanup ==
  ASSUME IInv, verdict = "running", Body[at] # "startCLI", Body[at] # "defer",
         UNCHANGED <<platform, deferred>>,
         Advance \/ \E v \in {"failed", "panicked"} : End(v)
  PROVE  CleanupInv'
  <1> SUFFICES ASSUME platform = "aws", cli' = "running"
               PROVE  verdict' = "running" /\ (at' = 2 \/ deferred')
    BY DEF CleanupInv
  <1>1. at # 2
    BY Order DEF IInv, TypeOK
  <1>2. CASE \E v \in {"passed", "failed", "panicked"} : End(v)
    <2>1. cli = "running" /\ ~deferred
      BY <1>2 DEF End
    <2>2. QED
      BY <1>1, <2>1 DEF IInv, CleanupInv
  <1>3. CASE Goes /\ cli' = cli
    BY <1>1, <1>3 DEF Goes, IInv, CleanupInv
  <1>4. QED
    BY <1>2, <1>3, AdvanceMoves DEF IInv

LEMMA SpecStays ==
  ASSUME IInv, Stays, UNCHANGED <<optionVars, curatorVars, hubVars, missed, checking, addOn, addOnsSeen>>
  PROVE  CuratorInv' /\ HookInv' /\ PassInv'
  <1>1. UNCHANGED <<platform, curatorEnabled, hub, curator, jobs, conditions, cluster, at>>
    BY DEF optionVars, curatorVars, hubVars, Stays
  <1>2. \A t : Past(t)' <=> Past(t)
    BY <1>1, PastSame
  <1>3. Len(Body)' = Len(Body)
    BY <1>1 DEF Body
  <1>4. CuratorInv'
    BY <1>1, <1>2 DEF IInv, CuratorInv, Stays
  <1>5. HookInv'
    BY <1>1, <1>2 DEF IInv, HookInv
  <1>6. PassInv'
    BY <1>1, <1>2, <1>3, SeenSame DEF IInv, PassInv, Stays
  <1>7. QED
    BY <1>4, <1>5, <1>6

LEMMA SpecMoves ==
  ASSUME IInv, Goes \/ Passes, UNCHANGED <<optionVars, curatorVars, hubVars, missed, checking, addOn, addOnsSeen>>,
         curatorEnabled => Body[at] \notin {"deleteCurator", "createCurator"},
         curatorEnabled /\ Body[at] = "curatorJob" => "clustercurator-job" \in conditions,
         Body[at] = "addons" => checking = "no" \/ addOnsSeen = Listed(checking)
  PROVE  CuratorInv' /\ HookInv' /\ PassInv'
  <1>1. UNCHANGED <<platform, curatorEnabled, hub, curator, jobs, conditions, cluster, missed, checking, addOn, addOnsSeen>>
    BY DEF optionVars, curatorVars, hubVars
  <1>2. Len(Body)' = Len(Body)
    BY <1>1 DEF Body
  <1>3. CASE Goes
    <2>1. \A t : Past(t)' <=> Past(t) \/ Body[at] = t
      BY <1>1, <1>3, PastNext DEF Goes, IInv
    <2>2. CuratorInv'
      BY <1>1, <1>3, <2>1 DEF Goes, IInv, CuratorInv
    <2>3. HookInv'
      BY <1>1, <2>1 DEF IInv, HookInv
    <2>4. PassInv'
      BY <1>1, <1>3, <2>1, SeenSame DEF Goes, IInv, PassInv
    <2>5. QED
      BY <2>2, <2>3, <2>4
  <1>4. CASE Passes
    <2>1. \A t : Past(t)' <=> Past(t)
      BY <1>1, <1>4, PastSame DEF Passes
    <2>2. CuratorInv' /\ HookInv'
      BY <1>1, <1>4, <2>1 DEF Passes, IInv, CuratorInv, HookInv
    <2>3. PassInv'
      BY <1>1, <1>2, <1>4, <2>1, SeenSame DEF Passes, IInv, PassInv
    <2>4. QED
      BY <2>2, <2>3
  <1>5. QED
    BY <1>3, <1>4

-----------------------------------------------------------------------------
(* The steps of the spec                                                   *)

\* What a call leaves alone that is no call on the curator or the add-ons.
Quiet == UNCHANGED <<optionVars, deferred, missed, checking, addOn, addOnsSeen, curatorVars, hubVars>>

LEMMA TypeOfQuietStep ==
  ASSUME TypeOK, UNCHANGED <<optionVars, curatorVars, hubVars>>,
         at' \in 1..Len(Body'), verdict' \in {"running", "passed", "failed", "panicked", "interrupted"},
         cli' \in {"notStarted", "running", "exit0", "exit1", "killed"},
         deferred' \in BOOLEAN, towerSecret' \in {"absent", "empty", "set"},
         readJob' \in [hook : 0..4, state : JobStates],
         missed' \in BOOLEAN, checking' \in {"no", "mce", "acm"},
         addOn' \in 1..(Len(AddOnLists[checking']) + 1), addOnsSeen' \subseteq Listed(checking')
  PROVE  TypeOK'
  <1>1. curator \in {"absent", "earlier", "own"} /\ jobs \in [Hooks -> JobStates]
        /\ currentJob \in 0..4 /\ conditions \subseteq Conditions
    BY DEF TypeOK
  <1>2. (Listed(checking))' = Listed(checking') /\ (AddOnLists[checking])' = AddOnLists[checking']
    BY DEF Listed, AddOnLists
  <1>3. QED
    BY <1>1, <1>2 DEF TypeOK, optionVars, curatorVars, hubVars, Body

LEMMA CurrentJobTyped ==
  ASSUME TypeOK
  PROVE  CurrentAnsibleJob \in [hook : 0..4, state : JobStates]
  <1>1. CASE curator = "absent" \/ currentJob = 0
    BY <1>1 DEF CurrentAnsibleJob, NoSuchJob, JobStates
  <1>2. CASE ~(curator = "absent" \/ currentJob = 0)
    <2>1. currentJob \in Hooks /\ currentJob \in 0..4 /\ jobs \in [Hooks -> JobStates]
      BY <1>2 DEF TypeOK, Hooks, PreHooks, PostHooks
    <2>2. jobs[currentJob] \in JobStates
      BY <2>1
    <2>3. QED
      BY <1>2, <2>1, <2>2 DEF CurrentAnsibleJob
  <1>3. QED
    BY <1>1, <1>2

\* A call that advances, or ends the spec, and touches nothing else of the hub.
LEMMA QuietStep ==
  ASSUME IInv, verdict = "running", Quiet,
         Body[at] # "startCLI", Body[at] # "defer",
         towerSecret' \in {"absent", "empty", "set"},
         readJob' \in [hook : 0..4, state : JobStates],
         \/ /\ Advance
            /\ curatorEnabled => Body[at] \notin {"deleteCurator", "createCurator"}
            /\ curatorEnabled /\ Body[at] = "curatorJob" => "clustercurator-job" \in conditions
            /\ Body[at] = "addons" => checking = "no" \/ addOnsSeen = Listed(checking)
         \/ End("failed")
         \/ End("panicked") /\ curator = "own"
  PROVE  IInv'
  <1>1. UNCHANGED <<optionVars, curatorVars, hubVars, platform, deferred, missed, checking, addOn, addOnsSeen>>
    BY DEF Quiet, optionVars
  <1>2. Advance \/ \E v \in {"failed", "panicked"} : End(v)
    OBVIOUS
  <1>3. TypeOK /\ deferred \in BOOLEAN /\ checking \in {"no", "mce", "acm"}
        /\ addOnsSeen \subseteq Listed(checking) /\ missed \in BOOLEAN
        /\ addOn \in 1..(Len(AddOnLists[checking]) + 1)
    BY DEF IInv, TypeOK
  <1>4. TypeOK'
    BY <1>1, <1>2, <1>3, SpecVarsTyped, TypeOfQuietStep
  <1>5. CleanupInv'
    BY <1>1, <1>2, QuietCleanup
  <1>6. CASE Advance /\ (curatorEnabled => Body[at] \notin {"deleteCurator", "createCurator"})
             /\ (curatorEnabled /\ Body[at] = "curatorJob" => "clustercurator-job" \in conditions)
             /\ (Body[at] = "addons" => checking = "no" \/ addOnsSeen = Listed(checking))
    <2>1. Goes \/ Passes
      BY <1>3, <1>6, AdvanceMoves
    <2>2. CuratorInv' /\ HookInv' /\ PassInv'
      BY <1>1, <1>6, <2>1, SpecMoves
    <2>3. QED
      BY <1>4, <1>5, <2>2 DEF IInv
  <1>7. CASE End("failed") \/ (End("panicked") /\ curator = "own")
    <2>1. Stays
      BY <1>7 DEF End, Stays
    <2>2. CuratorInv' /\ HookInv' /\ PassInv'
      BY <1>1, <2>1, SpecStays
    <2>3. QED
      BY <1>4, <1>5, <2>2 DEF IInv
  <1>8. QED
    BY <1>6, <1>7

LEMMA StartCLIKeeps == IInv /\ StartCLI => IInv'
  <1> SUFFICES ASSUME IInv, StartCLI PROVE IInv'
    OBVIOUS
  <1>1. /\ verdict = "running" /\ Body[at] = "startCLI"
        /\ UNCHANGED <<optionVars, curatorVars, hubVars, deferred, readJob, missed, checking, addOn, addOnsSeen, towerSecret>>
    BY DEF StartCLI, AtStep
  <1>2. TypeOK /\ platform \in Platforms /\ at \in 1..Len(Body) /\ Len(Body) \in Nat
    BY LengthIsNat DEF IInv, TypeOK
  <1>3. at < Len(Body) /\ (platform = "aws" => at = 1)
    BY <1>1, <1>2, Order
  <1>4. UNCHANGED platform /\ Body' = Body
    BY <1>1 DEF optionVars, Body
  <1>5. CASE cli' = "running" /\ at' = at + 1 /\ verdict' = "running"
    <2>1. Goes
      BY <1>3, <1>5 DEF Goes
    <2>2. at' \in 1..Len(Body')
      BY <1>2, <1>3, <1>4, <1>5
    <2>3. TypeOK'
      BY <1>1, <1>2, <1>5, <2>2, TypeOfQuietStep DEF TypeOK
    <2>4. CleanupInv'
      BY <1>3, <1>4, <1>5 DEF CleanupInv
    <2>5. CuratorInv' /\ HookInv' /\ PassInv'
      BY <1>1, <2>1, SpecMoves
    <2>6. QED
      BY <2>3, <2>4, <2>5 DEF IInv
  <1>6. CASE End("failed")
    <2>1. at' \in 1..Len(Body') /\ verdict' = "failed"
          /\ cli' \in {"notStarted", "running", "exit0", "exit1", "killed"}
      BY <1>2, <1>4, <1>6, SpecVarsTyped DEF End
    <2>2. TypeOK'
      BY <1>1, <1>2, <2>1, TypeOfQuietStep DEF TypeOK
    <2>3. CleanupInv'
      <3>1. platform = "aws" /\ cli = "running" => deferred
        BY <1>1, <1>3 DEF IInv, CleanupInv
      <3>2. platform = "aws" => cli' # "running"
        BY <1>6, <3>1 DEF End
      <3>3. QED
        BY <1>4, <3>2 DEF CleanupInv
    <2>4. Stays
      BY <1>6 DEF End, Stays
    <2>5. CuratorInv' /\ HookInv' /\ PassInv'
      BY <1>1, <2>4, SpecStays
    <2>6. QED
      BY <2>2, <2>3, <2>5 DEF IInv
  <1>7. QED
    BY <1>5, <1>6 DEF StartCLI

LEMMA DeferKeeps == IInv /\ DeferKillAndWait => IInv'
  <1> SUFFICES ASSUME IInv, DeferKillAndWait PROVE IInv'
    OBVIOUS
  <1>1. /\ verdict = "running" /\ Body[at] = "defer" /\ deferred' = TRUE /\ Advance
        /\ UNCHANGED <<optionVars, curatorVars, hubVars, readJob, missed, checking, addOn, addOnsSeen, towerSecret>>
    BY DEF DeferKillAndWait, AtStep
  <1>2. TypeOK /\ platform \in Platforms /\ at \in 1..Len(Body) /\ UNCHANGED platform
    BY <1>1 DEF IInv, TypeOK, optionVars
  <1>3. Goes /\ cli' = cli
    <2>1. at # Len(Body)
      BY <1>1, <1>2, Order
    <2>2. QED
      BY <1>1, <1>2, <2>1, AdvanceMoves DEF Passes
  <1>4. TypeOK'
    BY <1>1, <1>2, SpecVarsTyped, TypeOfQuietStep DEF TypeOK
  <1>5. CleanupInv'
    BY <1>1, <1>3 DEF CleanupInv, Goes
  <1>6. CuratorInv' /\ HookInv' /\ PassInv'
    BY <1>1, <1>3, SpecMoves
  <1>7. QED
    BY <1>4, <1>5, <1>6 DEF IInv

LEMMA PassOverKeeps == IInv /\ PassOverCuration => IInv'
  <1> SUFFICES ASSUME IInv, PassOverCuration PROVE IInv'
    OBVIOUS
  <1>1. verdict = "running" /\ Body[at] \in CuratorSteps /\ ~curatorEnabled /\ Advance
        /\ Quiet /\ towerSecret' = towerSecret /\ readJob' = readJob
    BY DEF PassOverCuration, Quiet
  <1>2. Body[at] \notin {"startCLI", "defer", "addons"}
    BY <1>1 DEF CuratorSteps
  <1>3. QED
    BY <1>1, <1>2, QuietStep DEF IInv, TypeOK

LEMMA TowerSecretKeeps == IInv /\ CreateOrUpdateAnsibleTowerSecret => IInv'
  <1> SUFFICES ASSUME IInv, CreateOrUpdateAnsibleTowerSecret PROVE IInv'
    OBVIOUS
  <1>1. verdict = "running" /\ Body[at] = "towerSecret" /\ (Advance \/ End("failed"))
        /\ Quiet /\ readJob' = readJob
    BY DEF CreateOrUpdateAnsibleTowerSecret, AtStep, Quiet
  <1>2. towerSecret' \in {"absent", "empty", "set"}
    BY DEF CreateOrUpdateAnsibleTowerSecret, IInv, TypeOK
  <1>3. QED
    BY <1>1, <1>2, QuietStep DEF IInv, TypeOK

LEMMA ReadPostHookJobKeeps == IInv /\ ReadPostHookJob => IInv'
  <1> SUFFICES ASSUME IInv, ReadPostHookJob PROVE IInv'
    OBVIOUS
  <1>1. verdict = "running" /\ Body[at] = "readPostJob" /\ Advance /\ Quiet
        /\ readJob' \in {CurrentAnsibleJob, NoSuchJob} /\ towerSecret' = towerSecret
    BY DEF ReadPostHookJob, AtStep, Quiet
  <1>2. readJob' \in [hook : 0..4, state : JobStates]
    BY <1>1, CurrentJobTyped DEF IInv, NoSuchJob, JobStates
  <1>3. QED
    BY <1>1, <1>2, QuietStep DEF IInv, TypeOK

LEMMA WaitKeeps ==
  ASSUME NEW step \in Waits
  PROVE  IInv /\ (WaitTimesOut(step) \/ (step # "addons" /\ WaitEnds(step))) => IInv'
  <1> SUFFICES ASSUME IInv, WaitTimesOut(step) \/ (step # "addons" /\ WaitEnds(step)) PROVE IInv'
    OBVIOUS
  <1>1. verdict = "running" /\ Body[at] = step /\ Quiet
        /\ towerSecret' = towerSecret /\ readJob' = readJob
    BY DEF WaitTimesOut, WaitEnds, AtStep, Quiet
  <1>2. step \notin {"startCLI", "defer", "deleteCurator", "createCurator"}
    BY DEF Waits
  <1>3. End("failed") \/ (Advance /\ step # "addons" /\ (step = "curatorJob" => "clustercurator-job" \in conditions))
    BY DEF WaitTimesOut, WaitEnds, Satisfied
  <1>4. QED
    BY <1>1, <1>2, <1>3, QuietStep DEF IInv, TypeOK

LEMMA HookWaitPanicsKeeps ==
  ASSUME NEW step \in {"preJob", "postJob"}
  PROVE  IInv /\ HookWaitPanics(step) => IInv'
  <1> SUFFICES ASSUME IInv, HookWaitPanics(step) PROVE IInv'
    OBVIOUS
  <1>1. verdict = "running" /\ Body[at] = step /\ curatorEnabled /\ Quiet /\ End("panicked")
        /\ towerSecret' = towerSecret /\ readJob' = readJob
    BY DEF HookWaitPanics, AtStep, Quiet, CuratorSteps
  <1>2. curator = "own"
    BY <1>1, Order DEF IInv, TypeOK, CuratorInv
  <1>3. QED
    BY <1>1, <1>2, QuietStep DEF IInv, TypeOK

LEMMA AddOnsEndKeeps == IInv /\ (AddOnsAllAvailable \/ AddOnsCheckFails) => IInv'
  <1> SUFFICES ASSUME IInv, AddOnsAllAvailable \/ AddOnsCheckFails PROVE IInv'
    OBVIOUS
  <1>1. verdict = "running" /\ Body[at] = "addons" /\ Quiet /\ Advance
        /\ towerSecret' = towerSecret /\ readJob' = readJob
        /\ (checking = "no" \/ addOnsSeen = Listed(checking))
    <2>1. ASSUME checking # "no", ~AddOnsLeft PROVE addOnsSeen = Listed(checking)
      <3>1. checking \in {"no", "mce", "acm"} /\ addOn \in 1..(Len(AddOnLists[checking]) + 1)
        BY DEF IInv, TypeOK
      <3>2. addOn \notin 1..Len(AddOnLists[checking])
        BY <2>1, <3>1, ListLength DEF AddOnsLeft
      <3>3. addOn - 1 = Len(AddOnLists[checking])
        BY <3>1, <3>2, ListLength
      <3>4. addOnsSeen = {AddOnLists[checking][i] : i \in 1..Len(AddOnLists[checking])}
        BY <3>3 DEF IInv, PassInv, SeenBefore
      <3>5. QED
        BY <3>1, <3>4, ListLength DEF Listed
    <2>2. QED
      BY <2>1 DEF AddOnsAllAvailable, AddOnsCheckFails, AtStep, Quiet
  <1>2. QED
    BY <1>1, QuietStep DEF IInv, TypeOK

LEMMA LabelReadFailsKeeps == IInv /\ LabelReadFails => IInv'
  <1> SUFFICES ASSUME IInv, LabelReadFails PROVE IInv'
    OBVIOUS
  <1>1. verdict = "running" /\ Body[at] \in {"labels", "addLabels", "annotations"} /\ Quiet /\ End("failed")
        /\ towerSecret' = towerSecret /\ readJob' = readJob
    BY DEF LabelReadFails, AtStep, Quiet
  <1>2. QED
    BY <1>1, QuietStep DEF IInv, TypeOK

\* The two steps that stay at the add-ons.
LEMMA AddOnsKeep ==
  IInv /\ (IsACMInstalled \/ ValidateClusterAddOnAvailable) => IInv'
  <1> SUFFICES ASSUME IInv, IsACMInstalled \/ ValidateClusterAddOnAvailable
               PROVE  IInv'
    OBVIOUS
  <1>1. /\ verdict = "running" /\ Body[at] = "addons"
        /\ UNCHANGED <<optionVars, at, verdict, deferred, readJob, cli, towerSecret, curatorVars, hubVars>>
        /\ UNCHANGED <<platform, hub, at, verdict, deferred, readJob, cli, towerSecret>>
    BY DEF IsACMInstalled, ValidateClusterAddOnAvailable, AtStep, optionVars
  <1>2. Body' = Body /\ ~Past("addons") /\ ~Past("addons")'
    <2>1. ~Past("addons")
      BY <1>1, Order DEF IInv, TypeOK
    <2>2. QED
      BY <1>1, <2>1, PastSame DEF Body
  <1>3. /\ missed' \in BOOLEAN /\ checking' \in {"no", "mce", "acm"}
        /\ addOn' \in 1..(Len(AddOnLists[checking']) + 1)
        /\ addOnsSeen' \subseteq Listed(checking')
        /\ checking' # "no" => checking' = hub
        /\ addOnsSeen' = SeenBefore(addOn)'
    <2>0. /\ checking \in {"no", "mce", "acm"} /\ hub \in {"mce", "acm"} /\ missed \in BOOLEAN
          /\ addOn \in 1..(Len(AddOnLists[checking]) + 1) /\ addOnsSeen \subseteq Listed(checking)
          /\ addOnsSeen = SeenBefore(addOn)
      BY DEF IInv, TypeOK, PassInv
    <2>1. CASE IsACMInstalled
      <3>1. checking = "no" /\ checking' = hub /\ UNCHANGED <<missed, addOn, addOnsSeen>>
        BY <2>1 DEF IsACMInstalled
      <3>2. addOn = 1 /\ addOnsSeen = {}
        BY <2>0, <3>1, NothingListed
      <3>3. SeenBefore(addOn)' = {}
        BY <3>1, <3>2 DEF SeenBefore
      <3>4. addOn' \in 1..(Len(AddOnLists[checking']) + 1)
        BY <2>0, <3>1, <3>2, ListLength
      <3>5. QED
        BY <2>0, <3>1, <3>2, <3>3, <3>4
    <2>2. CASE ValidateClusterAddOnAvailable
      <3>1. /\ addOn \in DOMAIN AddOnLists[checking] /\ UNCHANGED <<missed, checking>>
            /\ addOn' = addOn + 1 /\ addOnsSeen' = addOnsSeen \cup {AddOnLists[checking][addOn]}
        BY <2>2 DEF ValidateClusterAddOnAvailable, Satisfied, AddOnsLeft
      <3>2. addOn \in 1..Len(AddOnLists[checking]) /\ Len(AddOnLists[checking]) \in Nat
        BY <2>0, <3>1, ListLength
      <3>3. addOn' \in 1..(Len(AddOnLists[checking']) + 1)
        BY <3>1, <3>2
      <3>4. addOnsSeen' \subseteq Listed(checking')
        BY <2>0, <3>1 DEF Listed
      <3>5. SeenBefore(addOn)' = SeenBefore(addOn) \cup {AddOnLists[checking][addOn]}
        <4>1. 1..(addOn' - 1) = 1..(addOn - 1) \cup {addOn}
          BY <3>1, <3>2
        <4>2. SeenBefore(addOn)' = {AddOnLists[checking][i] : i \in 1..(addOn' - 1)}
          BY <3>1 DEF SeenBefore, AddOnLists
        <4>3. QED
          BY <4>1, <4>2 DEF SeenBefore
      <3>6. QED
        BY <1>1, <2>0, <3>1, <3>3, <3>4, <3>5 DEF IInv, PassInv
    <2>3. QED
      BY <2>1, <2>2
  <1>4. TypeOK'
    BY <1>1, <1>2, <1>3, TypeOfQuietStep DEF IInv, TypeOK
  <1>5. CleanupInv'
    BY <1>1 DEF IInv, CleanupInv
  <1>6. CuratorInv'
    <2>1. \A t : Past(t)' <=> Past(t)
      BY <1>1, PastSame
    <2>2. QED
      BY <1>1, <2>1 DEF IInv, CuratorInv, optionVars, curatorVars
  <1>7. HookInv'
    <2>1. Past("curatorJob")' <=> Past("curatorJob")
      BY <1>1, PastSame
    <2>2. QED
      BY <1>1, <2>1 DEF IInv, HookInv, optionVars, curatorVars, hubVars
  <1>8. PassInv'
    BY <1>1, <1>2, <1>3 DEF IInv, PassInv
  <1>9. QED
    BY <1>4, <1>5, <1>6, <1>7, <1>8 DEF IInv

\* A call on the curator that succeeds: the parts about the spec itself.
LEMMA CuratorCallMoves ==
  ASSUME IInv, verdict = "running", Advance, Body[at] \in {"deleteCurator", "createCurator"},
         UNCHANGED <<optionVars, deferred, readJob, missed, checking, addOn, addOnsSeen, towerSecret, hubVars>>,
         curator' \in {"absent", "earlier", "own"}, jobs' \in [Hooks -> JobStates],
         currentJob' \in 0..4, conditions' \subseteq Conditions
  PROVE  TypeOK' /\ CleanupInv' /\ PassInv' /\ Goes /\ (\A t : Past(t)' <=> Past(t) \/ Body[at] = t)
  <1>1. TypeOK /\ platform \in Platforms /\ at \in 1..Len(Body)
    BY DEF IInv, TypeOK
  <1>2. UNCHANGED <<platform, curatorEnabled, hub, deferred, missed, checking, addOn, addOnsSeen>>
        /\ Body' = Body /\ (Listed(checking))' = Listed(checking)
    BY DEF optionVars, Body, Listed, AddOnLists
  <1>3. Goes
    BY <1>1, AdvanceMoves, Order DEF Passes
  <1>4. at' \in 1..Len(Body') /\ verdict' \in {"running", "passed", "failed", "panicked", "interrupted"}
        /\ cli' \in {"notStarted", "running", "exit0", "exit1", "killed"}
    BY <1>1, <1>2, SpecVarsTyped
  <1>5. TypeOK'
    BY <1>1, <1>2, <1>4 DEF TypeOK, hubVars
  <1>6. CleanupInv'
    BY <1>2, QuietCleanup
  <1>7. \A t : Past(t)' <=> Past(t) \/ Body[at] = t
    BY <1>1, <1>2, <1>3, PastNext DEF Goes
  <1>8. PassInv'
    BY <1>2, <1>3, <1>7, SeenSame DEF IInv, PassInv, Goes
  <1>9. QED
    BY <1>3, <1>5, <1>6, <1>7, <1>8

LEMMA DeleteCuratorKeeps == IInv /\ DeleteClusterCurator => IInv'
  <1> SUFFICES ASSUME IInv, DeleteClusterCurator PROVE IInv'
    OBVIOUS
  <1>1. /\ verdict = "running" /\ Body[at] = "deleteCurator" /\ curatorEnabled
        /\ UNCHANGED <<optionVars, deferred, readJob, missed, checking, addOn, addOnsSeen, towerSecret, hubVars>>
    BY DEF DeleteClusterCurator, AtStep, CuratorSteps
  <1>2. CASE UNCHANGED curatorVars /\ End("failed")
    BY <1>1, <1>2, QuietStep DEF Quiet, IInv, TypeOK
  <1>3. CASE /\ curator' = "absent" /\ currentJob' = 0 /\ conditions' = {}
             /\ jobs' = [h \in Hooks |-> "none"] /\ Advance
    <2>1. jobs' \in [Hooks -> JobStates]
      BY <1>3 DEF JobStates
    <2>2. TypeOK' /\ CleanupInv' /\ PassInv' /\ Goes /\ (\A t : Past(t)' <=> Past(t) \/ Body[at] = t)
      BY <1>1, <1>3, <2>1, CuratorCallMoves
    <2>3. ~Past("createCurator") /\ ~Past("curatorJob")
      BY <1>1, Order DEF IInv, TypeOK
    <2>4. ~Past("createCurator")' /\ ~Past("curatorJob")'
      BY <1>1, <2>2, <2>3
    <2>5. CuratorInv'
      BY <1>3, <2>2, <2>4 DEF CuratorInv, Goes
    <2>6. ~(cluster \in {"provisioning", "available"}) /\ cluster' = cluster
      BY <1>1, <2>3 DEF IInv, HookInv, CuratorInv, hubVars
    <2>7. HookInv'
      BY <1>3, <2>4, <2>6 DEF HookInv
    <2>8. QED
      BY <2>2, <2>5, <2>7 DEF IInv
  <1>4. QED
    BY <1>2, <1>3 DEF DeleteClusterCurator

LEMMA CreateCuratorKeeps == IInv /\ CreateOrUpdateClusterCurator => IInv'
  <1> SUFFICES ASSUME IInv, CreateOrUpdateClusterCurator PROVE IInv'
    OBVIOUS
  <1>1. /\ verdict = "running" /\ Body[at] = "createCurator" /\ curatorEnabled /\ curatorEnabled' = curatorEnabled
        /\ UNCHANGED <<optionVars, deferred, readJob, missed, checking, addOn, addOnsSeen, towerSecret, jobs, currentJob, conditions, hubVars>>
    BY DEF CreateOrUpdateClusterCurator, AtStep, CuratorSteps, optionVars
  <1>2. CASE UNCHANGED curator /\ End("failed")
    BY <1>1, <1>2, QuietStep DEF Quiet, IInv, TypeOK, curatorVars
  <1>3. CASE curator' = (IF curator = "absent" THEN "own" ELSE curator) /\ Advance
    <2>1. Past("deleteCurator")
      BY <1>1, Order DEF IInv, TypeOK
    <2>2. curator' = "own"
      BY <1>1, <1>3, <2>1 DEF IInv, TypeOK, CuratorInv
    <2>3. TypeOK' /\ CleanupInv' /\ PassInv' /\ Goes /\ (\A t : Past(t)' <=> Past(t) \/ Body[at] = t)
      <3>1. jobs' \in [Hooks -> JobStates] /\ currentJob' \in 0..4 /\ conditions' \subseteq Conditions
        BY <1>1 DEF IInv, TypeOK
      <3>2. QED
        BY <1>1, <1>3, <2>2, <3>1, CuratorCallMoves
    <2>4. CuratorInv'
      BY <1>1, <2>2, <2>3 DEF CuratorInv, Goes
    <2>5. Past("curatorJob")' <=> Past("curatorJob")
      BY <1>1, <2>3
    <2>6. HookInv'
      BY <1>1, <2>2, <2>5 DEF IInv, HookInv, hubVars
    <2>7. QED
      BY <2>3, <2>4, <2>6 DEF IInv
  <1>4. QED
    BY <1>2, <1>3 DEF CreateOrUpdateClusterCurator

LEMMA SpecStepKeeps == IInv /\ SpecStep => IInv'
  BY PassOverKeeps, StartCLIKeeps, DeferKeeps, TowerSecretKeeps, DeleteCuratorKeeps,
     CreateCuratorKeeps, ReadPostHookJobKeeps, WaitKeeps, AddOnsKeep, AddOnsEndKeeps,
     HookWaitPanicsKeeps, LabelReadFailsKeeps DEF SpecStep

-----------------------------------------------------------------------------
(* The steps of the environment                                            *)

\* The spec does not move; what is left to show is about the process and the hooks.
LEMMA EnvironmentKeeps ==
  ASSUME IInv, UNCHANGED <<optionVars, specVars, towerSecret, curator>>,
         TypeOK', cli' = "running" => cli = "running", HookInv'
  PROVE  IInv'
  <1>1. UNCHANGED <<platform, curatorEnabled, hub, at, verdict, deferred, missed, checking, addOn, addOnsSeen, curator>>
    BY DEF optionVars, specVars
  <1>2. (\A t : Past(t)' <=> Past(t)) /\ Len(Body)' = Len(Body)
    BY <1>1, PastSame DEF Body
  <1>3. CleanupInv'
    BY <1>1 DEF IInv, CleanupInv
  <1>4. CuratorInv'
    BY <1>1, <1>2 DEF IInv, CuratorInv
  <1>5. PassInv'
    BY <1>1, <1>2, SeenSame DEF IInv, PassInv
  <1>6. QED
    BY <1>3, <1>4, <1>5 DEF IInv

LEMMA TypeOfEnvironmentStep ==
  ASSUME TypeOK, UNCHANGED <<optionVars, specVars, towerSecret, curator>>,
         cli' \in {"notStarted", "running", "exit0", "exit1", "killed"},
         jobs' \in [Hooks -> JobStates], currentJob' \in 0..4, conditions' \subseteq Conditions,
         cluster' \in {"absent", "paused", "provisioning", "available"},
         managed' \in {"absent", "joining", "available", "labelled"}, available' \subseteq AddOns
  PROVE  TypeOK'
  <1>1. UNCHANGED <<platform, curatorEnabled, hub, at, verdict, deferred, readJob, missed, checking, addOn, addOnsSeen>>
    BY DEF optionVars, specVars
  <1>2. Body' = Body /\ (Listed(checking))' = Listed(checking)
    BY <1>1 DEF Body, Listed, AddOnLists
  <1>3. QED
    BY <1>1, <1>2 DEF TypeOK

\* The hooks that have succeeded stay so.
LEMMA HooksStay ==
  ASSUME IInv, UNCHANGED <<optionVars, specVars, curator>>,
         \A h \in Hooks : jobs[h] = "ok" => jobs'[h] = "ok",
         conditions \subseteq conditions',
         "clustercurator-job" \in conditions' \ conditions => \A h \in Hooks : jobs[h] = "ok",
         curatorEnabled /\ cluster' \in {"provisioning", "available"} =>
             \/ cluster \in {"provisioning", "available"}
             \/ curator = "own" /\ \A h \in PreHooks : jobs[h] = "ok"
  PROVE  HookInv'
  <1>1. UNCHANGED <<platform, curatorEnabled, at, curator>>
    BY DEF optionVars, specVars
  <1>2. Past("curatorJob")' <=> Past("curatorJob")
    BY <1>1, PastSame
  <1>3. PreHooks \subseteq Hooks
    BY DEF Hooks
  <1>4. QED
    BY <1>1, <1>2, <1>3 DEF IInv, HookInv

LEMMA CLIKeeps == IInv /\ (CLICreatesCluster \/ CLIExits) => IInv'
  <1> SUFFICES ASSUME IInv, CLICreatesCluster \/ CLIExits PROVE IInv'
    OBVIOUS
  <1>1. TypeOK /\ jobs \in [Hooks -> JobStates]
    BY DEF IInv, TypeOK
  <1>2. CASE CLICreatesCluster
    <2>1. UNCHANGED <<optionVars, specVars, towerSecret, curator, cli, jobs, currentJob, conditions, managed, available>>
      BY <1>2 DEF CLICreatesCluster, curatorVars
    <2>2. cluster' \in {"paused", "provisioning"} /\ (curatorEnabled => cluster' = "paused")
      BY <1>2 DEF CLICreatesCluster, PausedUntil
    <2>3. TypeOK'
      BY <1>1, <2>1, <2>2, TypeOfEnvironmentStep DEF TypeOK
    <2>4. HookInv'
      BY <2>1, <2>2, HooksStay
    <2>5. QED
      BY <2>1, <2>3, <2>4, EnvironmentKeeps
  <1>3. CASE CLIExits
    <2>1. UNCHANGED <<optionVars, specVars, towerSecret, curator, jobs, currentJob, conditions, cluster, managed, available>>
      BY <1>3 DEF CLIExits, curatorVars, hubVars
    <2>2. cli' \in {"exit0", "exit1"}
      BY <1>3 DEF CLIExits
    <2>3. TypeOK'
      BY <1>1, <2>1, <2>2, TypeOfEnvironmentStep DEF TypeOK
    <2>4. HookInv'
      BY <2>1, HooksStay
    <2>5. QED
      BY <2>1, <2>2, <2>3, <2>4, EnvironmentKeeps
  <1>4. QED
    BY <1>2, <1>3

LEMMA JobKeeps ==
  ASSUME NEW h \in Hooks
  PROVE  IInv /\ (LaunchHook(h) \/ TowerUpdatesJob(h)) => IInv'
  <1> SUFFICES ASSUME IInv, LaunchHook(h) \/ TowerUpdatesJob(h) PROVE IInv'
    OBVIOUS
  <1>1. TypeOK /\ jobs \in [Hooks -> JobStates] /\ currentJob \in 0..4
    BY DEF IInv, TypeOK
  <1>2. /\ UNCHANGED <<optionVars, specVars, towerSecret, curator, cli, conditions, cluster, managed, available>>
        /\ currentJob' \in {currentJob, h}
    BY DEF LaunchHook, TowerUpdatesJob, hubVars
  <1>3. \E r \in JobStates : jobs' = [jobs EXCEPT ![h] = r]
    BY DEF LaunchHook, TowerUpdatesJob, JobStates
  <1>4. jobs[h] # "ok"
    BY DEF LaunchHook, TowerUpdatesJob
  <1>5. jobs' \in [Hooks -> JobStates] /\ \A g \in Hooks : jobs[g] = "ok" => jobs'[g] = "ok"
    BY <1>1, <1>3, <1>4
  <1>6. currentJob' \in 0..4
    BY <1>1, <1>2 DEF Hooks, PreHooks, PostHooks
  <1>7. TypeOK'
    BY <1>1, <1>2, <1>5, <1>6, TypeOfEnvironmentStep DEF TypeOK
  <1>8. HookInv'
    BY <1>2, <1>5, HooksStay
  <1>9. QED
    BY <1>2, <1>7, <1>8, EnvironmentKeeps

LEMMA CuratorReachesKeeps ==
  ASSUME NEW c \in Conditions
  PROVE  IInv /\ CuratorReaches(c) => IInv'
  <1> SUFFICES ASSUME IInv, CuratorReaches(c) PROVE IInv'
    OBVIOUS
  <1>1. TypeOK /\ jobs \in [Hooks -> JobStates] /\ conditions \subseteq Conditions
    BY DEF IInv, TypeOK
  <1>2. UNCHANGED <<optionVars, specVars, towerSecret, curator, cli, jobs, currentJob, managed, available>>
    BY DEF CuratorReaches
  <1>3. conditions' = conditions \cup {c}
        /\ (c = "clustercurator-job" => \A h \in Hooks : jobs[h] = "ok")
        /\ (c = "prehook-ansiblejob" => curator = "own" /\ \A h \in PreHooks : jobs[h] = "ok")
    BY DEF CuratorReaches
  <1>4. cluster' = cluster \/ (c = "prehook-ansiblejob" /\ cluster' = "provisioning")
    BY DEF CuratorReaches
  <1>5. TypeOK'
    BY <1>1, <1>2, <1>3, <1>4, TypeOfEnvironmentStep DEF TypeOK
  <1>6. HookInv'
    BY <1>2, <1>3, <1>4, HooksStay
  <1>7. QED
    BY <1>2, <1>5, <1>6, EnvironmentKeeps

LEMMA HubKeeps == IInv /\ (HubAdvances \/ \E a \in AddOns : AddOnChanges(a)) => IInv'
  <1> SUFFICES ASSUME IInv, HubAdvances \/ \E a \in AddOns : AddOnChanges(a) PROVE IInv'
    OBVIOUS
  <1>1. TypeOK /\ available \subseteq AddOns
    BY DEF IInv, TypeOK
  <1>2. UNCHANGED <<optionVars, specVars, towerSecret, curator, cli, jobs, currentJob, conditions>>
    BY DEF HubAdvances, AddOnChanges, curatorVars
  <1>3. cluster' = cluster \/ (cluster = "provisioning" /\ cluster' = "available")
    BY DEF HubAdvances, AddOnChanges
  <1>4. managed' \in {managed, "joining", "available", "labelled"} /\ available' \subseteq AddOns
    BY <1>1 DEF HubAdvances, AddOnChanges
  <1>5. TypeOK'
    BY <1>1, <1>2, <1>3, <1>4, TypeOfEnvironmentStep DEF TypeOK
  <1>6. HookInv'
    BY <1>2, <1>3, HooksStay
  <1>7. QED
    BY <1>2, <1>5, <1>6, EnvironmentKeeps

\* A poll that is false, and ginkgo giving the spec up, change one variable each.
LEMMA PollKeeps == IInv /\ PosthookPollIsFalse => IInv'
  <1> SUFFICES ASSUME IInv, PosthookPollIsFalse PROVE IInv'
    OBVIOUS
  <1>1. UNCHANGED <<optionVars, curatorVars, hubVars, at, verdict, deferred, readJob,
                    checking, addOn, addOnsSeen, cli, towerSecret>>
    BY DEF PosthookPollIsFalse
  <1>2. missed' \in BOOLEAN
    BY DEF PosthookPollIsFalse, AllFinished, IInv, TypeOK
  <1>3. UNCHANGED <<platform, curatorEnabled, hub, curator, conditions, cluster, jobs>>
        /\ Body' = Body
    BY <1>1 DEF optionVars, curatorVars, hubVars, Body
  <1>4. TypeOK'
    BY <1>1, <1>2, <1>3, TypeOfQuietStep DEF IInv, TypeOK
  <1>5. \A t : Past(t)' <=> Past(t)
    BY <1>1, <1>3, PastSame
  <1>6. SeenBefore(addOn)' = SeenBefore(addOn)
    BY <1>1, SeenSame
  <1>7. QED
    BY <1>1, <1>3, <1>4, <1>5, <1>6 DEF IInv, CleanupInv, CuratorInv, HookInv, PassInv

LEMMA InterruptKeeps == IInv /\ SuiteInterrupted => IInv'
  <1> SUFFICES ASSUME IInv, SuiteInterrupted PROVE IInv'
    OBVIOUS
  <1>1. /\ UNCHANGED <<optionVars, curatorVars, hubVars, at, deferred, readJob, missed,
                       checking, addOn, addOnsSeen, cli, towerSecret>>
        /\ verdict' = "interrupted"
    BY DEF SuiteInterrupted
  <1>2. Body' = Body
    BY <1>1 DEF optionVars, Body
  <1>3. TypeOK'
    BY <1>1, <1>2, TypeOfQuietStep DEF IInv, TypeOK
  <1>4. CleanupInv'
    BY <1>1 DEF CleanupInv
  <1>5. CuratorInv' /\ HookInv' /\ PassInv'
    BY <1>1, SpecStays DEF Stays
  <1>6. QED
    BY <1>3, <1>4, <1>5 DEF IInv

LEMMA StutterKeeps == IInv /\ UNCHANGED vars => IInv'
  <1> SUFFICES ASSUME IInv, UNCHANGED vars PROVE IInv'
    OBVIOUS
  <1>1. UNCHANGED <<optionVars, specVars, towerSecret, curator, cli, jobs, currentJob, conditions, cluster, managed, available>>
    BY DEF vars, curatorVars, hubVars
  <1>2. TypeOK'
    BY <1>1, TypeOfEnvironmentStep DEF IInv, TypeOK
  <1>3. HookInv'
    BY <1>1, HooksStay
  <1>4. QED
    BY <1>1, <1>2, <1>3, EnvironmentKeeps

LEMMA NextKeeps == IInv /\ [Next]_vars => IInv'
  <1> SUFFICES ASSUME IInv, [Next]_vars PROVE IInv'
    OBVIOUS
  <1>1. CASE SpecStep
    BY <1>1, SpecStepKeeps
  <1>2. CASE EnvironmentStep
    BY <1>2, CLIKeeps, JobKeeps, CuratorReachesKeeps, HubKeeps DEF EnvironmentStep
  <1>3. CASE UNCHANGED vars
    BY <1>3, StutterKeeps
  <1>4. QED
    BY <1>1, <1>2, <1>3, PollKeeps, InterruptKeeps DEF Next, Ended

LEMMA InvariantHolds == Spec => []IInv
  BY InitIInv, NextKeeps, PTL DEF Spec

-----------------------------------------------------------------------------
(* The posthook wait and the contract                                      *)

\* What the posthook wait needs on top of the invariant: the condition
\* current-ansiblejob names the last hook that was launched, a finished AnsibleJob
\* the AWS spec has read is still what it was, and a spec whose poll has missed the
\* finished posthooks is the AWS spec, in its wait for good.
LaunchInv ==
    \A h \in Hooks : jobs[h] # "none" =>
        h <= currentJob /\ \A g \in Hooks : g < h => jobs[g] = "ok"
ReadJobInv ==
    readJob.state \in {"ok", "failed"} =>
        Past("deleteCurator") /\ readJob.hook \in Hooks /\ jobs[readJob.hook] = readJob.state
MissInv ==
    missed =>
        /\ platform = "aws" /\ Body[at] = "postJob" /\ verdict # "passed"
        /\ curatorEnabled /\ curator = "own"
        /\ ~HookFinished(readJob, PostHooks) /\ AllFinished(PostHooks)
JobInv == LaunchInv /\ ReadJobInv /\ MissInv

LEMMA InitJobInv == Init => JobInv
  <1> SUFFICES ASSUME Init PROVE JobInv
    OBVIOUS
  <1>1. ReadJobInv
    BY DEF Init, NoSuchJob, ReadJobInv
  <1>0. MissInv
    BY DEF Init, MissInv
  <1>2. CASE NothingLeft
    BY <1>0, <1>1, <1>2 DEF NothingLeft, JobInv, LaunchInv
  <1>3. CASE LeftByEarlierRun
    <2>1. currentJob \in Hooks /\ Hooks \subseteq Nat
      BY <1>3 DEF LeftByEarlierRun, Hooks, PreHooks, PostHooks
    <2>2. \A h \in Hooks : (jobs[h] # "none" => h <= currentJob) /\ (h < currentJob => jobs[h] = "ok")
      BY <1>3, <2>1 DEF LeftByEarlierRun
    <2>3. QED
      BY <1>0, <1>1, <2>1, <2>2 DEF JobInv, LaunchInv
  <1>4. QED
    BY <1>2, <1>3 DEF Init

LEMMA SpecStepMoves ==
  ASSUME IInv, SpecStep
  PROVE  /\ UNCHANGED optionVars /\ Body' = Body
         /\ at' = at \/ at' = at + 1
  <1>1. Advance \/ (\E v : End(v)) \/ at' = at \/ at' = at + 1
    BY DEF SpecStep, PassOverCuration, StartCLI, DeferKillAndWait,
         CreateOrUpdateAnsibleTowerSecret, DeleteClusterCurator, CreateOrUpdateClusterCurator,
         ReadPostHookJob, WaitEnds, WaitTimesOut, ValidateClusterAddOnAvailable,
         IsACMInstalled, AddOnsAllAvailable, AddOnsCheckFails, HookWaitPanics, LabelReadFails
  <1>2. UNCHANGED optionVars
    BY DEF SpecStep, PassOverCuration, StartCLI, DeferKillAndWait,
         CreateOrUpdateAnsibleTowerSecret, DeleteClusterCurator, CreateOrUpdateClusterCurator,
         ReadPostHookJob, WaitEnds, WaitTimesOut, ValidateClusterAddOnAvailable,
         IsACMInstalled, AddOnsAllAvailable, AddOnsCheckFails, HookWaitPanics, LabelReadFails
  <1>3. QED
    BY <1>1, <1>2 DEF Advance, End, optionVars, Body

\* All posthooks are finished: the curator is at the last one.
LEMMA LastHook ==
  ASSUME IInv, LaunchInv, AllFinished(PostHooks)
  PROVE  /\ currentJob = 4 /\ \A h \in Hooks : jobs[h] \in {"ok", "failed"}
         /\ curator # "absent" => HookFinished(CurrentAnsibleJob, PostHooks)
  <1>1. /\ 3 \in PostHooks /\ 4 \in PostHooks /\ Hooks = {1, 2, 3, 4}
        /\ PostHooks = {3, 4} /\ currentJob \in 0..4
    BY DEF Hooks, PreHooks, PostHooks, IInv, TypeOK
  <1>2. jobs[3] \in {"ok", "failed"} /\ jobs[4] \in {"ok", "failed"}
    BY <1>1 DEF AllFinished
  <1>3. 4 <= currentJob /\ jobs[1] = "ok" /\ jobs[2] = "ok"
    BY <1>1, <1>2 DEF LaunchInv
  <1>4. currentJob = 4
    BY <1>1, <1>3
  <1>5. QED
    BY <1>1, <1>2, <1>3, <1>4 DEF CurrentAnsibleJob, HookFinished

\* A spec in a posthook wait it cannot leave but by giving up.
LEMMA SpecStepKeepsMissInv == IInv /\ JobInv /\ SpecStep => MissInv'
  <1> SUFFICES ASSUME IInv, JobInv, SpecStep, missed' PROVE MissInv'
    BY DEF MissInv
  <1>1. missed' = missed /\ UNCHANGED optionVars
    BY DEF SpecStep, PassOverCuration, StartCLI, DeferKillAndWait,
         CreateOrUpdateAnsibleTowerSecret, DeleteClusterCurator, CreateOrUpdateClusterCurator,
         ReadPostHookJob, WaitEnds, WaitTimesOut, ValidateClusterAddOnAvailable,
         IsACMInstalled, AddOnsAllAvailable, AddOnsCheckFails, HookWaitPanics, LabelReadFails
  <1>2. /\ platform = "aws" /\ Body[at] = "postJob" /\ verdict # "passed"
        /\ curatorEnabled /\ curator = "own"
        /\ ~HookFinished(readJob, PostHooks) /\ AllFinished(PostHooks)
    BY <1>1 DEF JobInv, MissInv
  <1>3. ~Satisfied("postJob")
    BY <1>2 DEF Satisfied, PostHookJob
  <1>4. /\ \E v \in {"failed", "panicked"} : End(v)
        /\ UNCHANGED <<optionVars, readJob, curatorVars>>
    BY <1>2, <1>3
       DEF SpecStep, PassOverCuration, StartCLI, DeferKillAndWait,
           CreateOrUpdateAnsibleTowerSecret, DeleteClusterCurator,
           CreateOrUpdateClusterCurator, ReadPostHookJob, WaitEnds, WaitTimesOut,
           ValidateClusterAddOnAvailable, IsACMInstalled, AddOnsAllAvailable,
           AddOnsCheckFails, HookWaitPanics, LabelReadFails, AtStep
  <1>5. UNCHANGED <<at, platform, curatorEnabled, readJob, curator, jobs>> /\ verdict' # "passed"
    BY <1>4 DEF End, optionVars, curatorVars
  <1>6. Body' = Body
    BY <1>5 DEF Body
  <1>7. QED
    BY <1>2, <1>5, <1>6 DEF MissInv, HookFinished, AllFinished

LEMMA PastStaysPast ==
  ASSUME IInv, SpecStep, NEW t, Past(t)
  PROVE  Past(t)'
  <1>1. at \in Nat /\ Len(Body) \in Nat
    BY LengthIsNat DEF IInv, TypeOK
  <1>2. QED
    BY <1>1, SpecStepMoves DEF Past

LEMMA ReadAfterDelete ==
  ASSUME TypeOK, Body[at] = "readPostJob" PROVE Past("deleteCurator")
  <1>1. CASE platform = "aws"
    <2>1. Body = AwsBody /\ at \in 1..17 /\ Len(Body) = 17
      BY <1>1, BodyLength DEF TypeOK
    <2>2. 5 < at
      BY <2>1 DEF AwsBody
    <2>3. QED
      BY <2>1, <2>2, AwsBody[5] = "deleteCurator" DEF Past, AwsBody
  <1>2. CASE platform # "aws"
    <2>1. Body = KubevirtBody /\ at \in 1..16
      BY <1>2, BodyLength DEF TypeOK
    <2>2. QED
      BY <2>1 DEF KubevirtBody
  <1>3. QED
    BY <1>1, <1>2

LEMMA SpecStepKeepsJobInv == IInv /\ JobInv /\ SpecStep => JobInv'
  <1> SUFFICES ASSUME IInv, JobInv, SpecStep, MissInv' PROVE JobInv'
    BY SpecStepKeepsMissInv
  <1>0. Past("deleteCurator") => Past("deleteCurator")'
    BY PastStaysPast
  <1>1. CASE DeleteClusterCurator
    <2>1. ~Past("deleteCurator") /\ readJob' = readJob
      BY <1>1, Order DEF DeleteClusterCurator, AtStep, IInv, TypeOK
    <2>2. readJob.state \notin {"ok", "failed"}
      BY <2>1 DEF JobInv, ReadJobInv
    <2>3. ReadJobInv'
      BY <2>1, <2>2 DEF ReadJobInv
    <2>4. LaunchInv'
      <3>1. CASE jobs' = [h \in Hooks |-> "none"]
        BY <3>1 DEF LaunchInv
      <3>2. CASE UNCHANGED curatorVars
        BY <3>2 DEF curatorVars, JobInv, LaunchInv
      <3>3. QED
        BY <1>1, <3>1, <3>2 DEF DeleteClusterCurator
    <2>5. QED
      BY <2>3, <2>4 DEF JobInv
  <1>2. CASE ReadPostHookJob
    <2>1. readJob' \in {CurrentAnsibleJob, NoSuchJob} /\ UNCHANGED <<jobs, currentJob>> /\ Past("deleteCurator")
      BY <1>2, ReadAfterDelete DEF ReadPostHookJob, AtStep, curatorVars, IInv
    <2>2. CurrentAnsibleJob.state \in {"ok", "failed"} =>
              currentJob \in Hooks /\ CurrentAnsibleJob.hook = currentJob
              /\ jobs[currentJob] = CurrentAnsibleJob.state
      BY DEF CurrentAnsibleJob, NoSuchJob, IInv, TypeOK, Hooks, PreHooks, PostHooks
    <2>3. QED
      BY <1>0, <2>1, <2>2 DEF JobInv, ReadJobInv, LaunchInv, NoSuchJob
  <1>3. CASE ~DeleteClusterCurator /\ ~ReadPostHookJob
    <2>1. UNCHANGED <<jobs, currentJob, readJob>>
      BY <1>3 DEF SpecStep, PassOverCuration, StartCLI, DeferKillAndWait,
           CreateOrUpdateAnsibleTowerSecret, CreateOrUpdateClusterCurator,
           WaitEnds, WaitTimesOut, ValidateClusterAddOnAvailable,
           IsACMInstalled, AddOnsAllAvailable, AddOnsCheckFails, HookWaitPanics,
           LabelReadFails, curatorVars
    <2>2. QED
      BY <1>0, <2>1 DEF JobInv, ReadJobInv, LaunchInv
  <1>4. QED
    BY <1>1, <1>2, <1>3

LEMMA EnvironmentKeepsMissInv == IInv /\ JobInv /\ EnvironmentStep => MissInv'
  <1> SUFFICES ASSUME IInv, JobInv, EnvironmentStep, missed' PROVE MissInv'
    BY DEF MissInv
  <1>1. UNCHANGED <<platform, curatorEnabled, at, verdict, readJob, missed, curator>> /\ Body' = Body
    BY DEF EnvironmentStep, CLICreatesCluster, CLIExits, LaunchHook, TowerUpdatesJob,
         CuratorReaches, HubAdvances, AddOnChanges, optionVars, specVars, curatorVars, Body
  <1>2. missed /\ AllFinished(PostHooks)
    BY <1>1 DEF JobInv, MissInv
  <1>3. \A h \in Hooks : jobs[h] \in {"ok", "failed"}
    BY <1>2, LastHook DEF JobInv
  <1>4. jobs' = jobs
    BY <1>3 DEF EnvironmentStep, CLICreatesCluster, CLIExits, LaunchHook, TowerUpdatesJob,
         CuratorReaches, HubAdvances, AddOnChanges, curatorVars
  <1>5. QED
    BY <1>1, <1>2, <1>4 DEF JobInv, MissInv, HookFinished, AllFinished

LEMMA EnvironmentKeepsJobInv == IInv /\ JobInv /\ EnvironmentStep => JobInv'
  <1> SUFFICES ASSUME IInv, JobInv, EnvironmentStep, MissInv' PROVE JobInv'
    BY EnvironmentKeepsMissInv
  <1>0. UNCHANGED <<platform, at, readJob>>
    BY DEF EnvironmentStep, CLICreatesCluster, CLIExits, LaunchHook, TowerUpdatesJob,
         CuratorReaches, HubAdvances, AddOnChanges, optionVars, specVars
  <1>1. Past("deleteCurator")' <=> Past("deleteCurator")
    BY <1>0, PastSame
  <1>2. /\ jobs \in [Hooks -> JobStates] /\ currentJob \in 0..4 /\ Hooks \subseteq Nat
        /\ PostHooks \subseteq Hooks
        /\ readJob \in [hook : 0..4, state : JobStates]
    BY DEF IInv, TypeOK, Hooks, PreHooks, PostHooks
  <1>3. ASSUME NEW h \in Hooks, LaunchHook(h) PROVE JobInv'
    <2>1. /\ jobs[h] = "none" /\ jobs' = [jobs EXCEPT ![h] = "new"] /\ currentJob' = h
          /\ \A g \in Hooks : g < h => jobs[g] = "ok"
      BY <1>3 DEF LaunchHook
    <2>2. \A k \in Hooks : k > h => jobs[k] = "none"
      BY <1>2, <2>1 DEF JobInv, LaunchInv
    <2>3. LaunchInv'
      <3> SUFFICES ASSUME NEW k \in Hooks, jobs'[k] # "none"
                   PROVE  k <= h /\ \A g \in Hooks : g < k => jobs'[g] = "ok"
        BY <2>1 DEF LaunchInv
      <3>1. k <= h
        BY <1>2, <2>1, <2>2
      <3>2. \A g \in Hooks : g < k => jobs[g] = "ok" /\ g # h
        BY <1>2, <2>1, <3>1
      <3>3. QED
        BY <1>2, <2>1, <3>1, <3>2
    <2>4. ReadJobInv'
      BY <1>0, <1>1, <1>2, <2>1 DEF JobInv, ReadJobInv
    <2>5. QED
      BY <2>3, <2>4 DEF JobInv
  <1>4. ASSUME NEW h \in Hooks, TowerUpdatesJob(h) PROVE JobInv'
    <2>1. PICK r \in {"running", "ok", "failed"} : jobs' = [jobs EXCEPT ![h] = r]
      BY <1>4 DEF TowerUpdatesJob
    <2>2. jobs[h] \in {"new", "running"} /\ currentJob' = currentJob
      BY <1>4 DEF TowerUpdatesJob
    <2>3. \A k \in Hooks : (jobs'[k] # "none" => jobs[k] # "none")
                         /\ (jobs[k] \in {"ok", "failed"} => jobs'[k] = jobs[k])
      BY <1>2, <2>1, <2>2
    <2>4. LaunchInv'
      BY <2>2, <2>3 DEF JobInv, LaunchInv
    <2>5. ReadJobInv'
      BY <1>0, <1>1, <2>3 DEF JobInv, ReadJobInv
    <2>6. QED
      BY <2>4, <2>5 DEF JobInv
  <1>5. ASSUME UNCHANGED <<jobs, currentJob>> PROVE JobInv'
    BY <1>0, <1>1, <1>5 DEF JobInv, ReadJobInv, LaunchInv
  <1>6. QED
    BY <1>3, <1>4, <1>5 DEF EnvironmentStep, CLICreatesCluster, CLIExits, CuratorReaches,
         HubAdvances, AddOnChanges, curatorVars

\* A poll of the posthook wait that misses the finished posthooks.
LEMMA PollKeepsJobInv == IInv /\ JobInv /\ PosthookPollIsFalse => JobInv'
  <1> SUFFICES ASSUME IInv, JobInv, PosthookPollIsFalse PROVE JobInv'
    OBVIOUS
  <1>1. /\ verdict = "running" /\ Body[at] = "postJob" /\ curatorEnabled /\ ~Satisfied("postJob")
        /\ missed' = (missed \/ AllFinished(PostHooks))
        /\ UNCHANGED <<platform, curatorEnabled, at, verdict, readJob, curator, jobs, currentJob>>
    BY DEF PosthookPollIsFalse, AtStep, CuratorSteps, optionVars, curatorVars
  <1>2. (Past("deleteCurator")' <=> Past("deleteCurator")) /\ Body' = Body
    BY <1>1, PastSame DEF Body
  <1>3. ASSUME AllFinished(PostHooks)
        PROVE  platform = "aws" /\ curator = "own" /\ ~HookFinished(readJob, PostHooks)
    <2>1. curator = "own"
      BY <1>1, Order DEF IInv, TypeOK, CuratorInv
    <2>2. HookFinished(CurrentAnsibleJob, PostHooks)
      BY <1>3, <2>1, LastHook DEF JobInv
    <2>3. QED
      BY <1>1, <2>1, <2>2 DEF Satisfied, PostHookJob
  <1>4. MissInv'
    BY <1>1, <1>2, <1>3 DEF JobInv, MissInv, HookFinished, AllFinished
  <1>5. QED
    BY <1>1, <1>2, <1>4 DEF JobInv, ReadJobInv, LaunchInv

LEMMA QuietKeepsJobInv == JobInv /\ (SuiteInterrupted \/ UNCHANGED vars) => JobInv'
  <1> SUFFICES ASSUME JobInv, SuiteInterrupted \/ UNCHANGED vars PROVE JobInv'
    OBVIOUS
  <1>1. /\ UNCHANGED <<platform, curatorEnabled, at, readJob, missed, curator, jobs, currentJob>>
        /\ verdict' \in {verdict, "interrupted"}
    BY DEF SuiteInterrupted, vars, optionVars, specVars, curatorVars
  <1>2. (Past("deleteCurator")' <=> Past("deleteCurator")) /\ Body' = Body
    BY <1>1, PastSame DEF Body
  <1>3. QED
    BY <1>1, <1>2 DEF JobInv, ReadJobInv, LaunchInv, MissInv, HookFinished, AllFinished

LEMMA NextKeepsJobInv == IInv /\ JobInv /\ [Next]_vars => JobInv'
  BY SpecStepKeepsJobInv, PollKeepsJobInv, EnvironmentKeepsJobInv, QuietKeepsJobInv
     DEF Next, Ended

LEMMA JobInvHolds == Spec => []JobInv
  BY InitJobInv, InvariantHolds, NextKeepsJobInv, PTL DEF Spec

\* The last call is the wait for the annotations, and every required wait is a call.
LEMMA RequiredCalls ==
  ASSUME TypeOK
  PROVE  /\ Body[at] = "annotations" <=> at = Len(Body)
         /\ at = Len(Body) => \A m \in Required \ {"annotations"} : Past(m)
         /\ Body[at] \in Waits \ {"addons", "addLabels"} /\ (Body[at] \in CuratorSteps => curatorEnabled) =>
                Body[at] \in Required
         /\ Body[at] \in Required /\ Body[at] \in CuratorSteps => curatorEnabled
  <1>1. CASE platform = "aws"
    <2>1. Body = AwsBody /\ at \in 1..17 /\ Len(Body) = 17
      BY <1>1, BodyLength DEF TypeOK
    <2>2. ASSUME at = 17, NEW m \in Required \ {"annotations"} PROVE Past(m)
      <3>1. \E i \in {3, 7, 8, 9, 10, 12, 13, 14, 16} : AwsBody[i] = m
        BY DEF Required, AwsBody
      <3>2. QED
        BY <2>1, <2>2, <3>1 DEF Past
    <2>3. Body[at] \in Waits \ {"addons", "addLabels"} /\ (Body[at] \in CuratorSteps => curatorEnabled) =>
              Body[at] \in Required
      BY <1>1 DEF Waits, CuratorSteps, Required
    <2>4. Body[at] \in Required /\ Body[at] \in CuratorSteps => curatorEnabled
      BY DEF CuratorSteps, Required
    <2>5. QED
      BY <2>1, <2>2, <2>3, <2>4, AwsOrder
  <1>2. CASE platform # "aws"
    <2>1. Body = KubevirtBody /\ at \in 1..16 /\ Len(Body) = 16
      BY <1>2, BodyLength DEF TypeOK
    <2>2. ASSUME at = 16, NEW m \in Required \ {"annotations"} PROVE Past(m)
      <3>1. \E i \in {6, 7, 8, 9, 10, 11, 12, 14} : KubevirtBody[i] = m
        BY <1>2 DEF Required, KubevirtBody
      <3>2. QED
        BY <2>1, <2>2, <3>1 DEF Past
    <2>3. Body[at] \in Waits \ {"addons", "addLabels"} /\ (Body[at] \in CuratorSteps => curatorEnabled) =>
              Body[at] \in Required
      BY <2>1, KubevirtOrder DEF Waits, CuratorSteps, Required
    <2>4. Body[at] \in Required /\ Body[at] \in CuratorSteps => curatorEnabled
      BY DEF CuratorSteps, Required
    <2>5. QED
      BY <2>1, <2>2, <2>3, <2>4, KubevirtOrder
  <1>3. QED
    BY <1>1, <1>2

LEMMA RequiredSame == UNCHANGED optionVars => Required' = Required
  BY DEF optionVars, Required

\* What the spec has observed grows by the call it makes, if that is a milestone.
LEMMA ObservedMoves ==
  ASSUME IInv, verdict = "running", UNCHANGED optionVars, Goes
  PROVE  Observed' = Observed \cup ({Body[at]} \cap Required) /\ Observed' # Required
  <1>1. Required' = Required /\ UNCHANGED platform
    BY RequiredSame DEF optionVars
  <1>2. \A m : Past(m)' <=> Past(m) \/ Body[at] = m
    BY <1>1, PastNext DEF IInv, Goes
  <1>3. "annotations" \in Required
    BY DEF Required
  <1>4. ~Past("annotations")' /\ verdict' = "running"
    <2>1. \A i \in 1..Len(Body) : i < Len(Body) => Body[i] # "annotations"
      <3>1. \/ Body = AwsBody /\ Len(Body) = 17
            \/ Body = KubevirtBody /\ Len(Body) = 16
        BY BodyLength DEF IInv, TypeOK
      <3>2. CASE Body = AwsBody /\ Len(Body) = 17
        <4>1. \A i \in 1..17 : AwsBody[i] = "annotations" => i = 17
          BY AwsOrder
        <4>2. QED
          BY <3>2, <4>1
      <3>3. CASE Body = KubevirtBody /\ Len(Body) = 16
        <4>1. \A i \in 1..16 : KubevirtBody[i] = "annotations" => i = 16
          BY KubevirtOrder
        <4>2. QED
          BY <3>3, <4>1
      <3>4. QED
        BY <3>1, <3>2, <3>3
    <2>2. Body' = Body /\ at + 1 <= Len(Body) /\ at' = at + 1
      BY <1>1, LengthIsNat DEF Body, Goes, IInv, TypeOK
    <2>3. at \in Nat /\ Len(Body) \in Nat
      BY LengthIsNat DEF IInv, TypeOK
    <2>4. QED
      BY <2>1, <2>2, <2>3 DEF Past, Goes
  <1>5. QED
    BY <1>1, <1>2, <1>3, <1>4 DEF Observed

LEMMA ObservedStays ==
  ASSUME UNCHANGED <<optionVars, at>>, verdict # "passed", verdict' # "passed"
  PROVE  Observed' = Observed
  <1>1. Required' = Required /\ UNCHANGED platform
    BY RequiredSame DEF optionVars
  <1>2. \A m : Past(m)' <=> Past(m)
    BY <1>1, PastSame
  <1>3. QED
    BY <1>1, <1>2 DEF Observed

\* The end of a wait is the observation of its milestone.
LEMMA ShownWhenSatisfied ==
  ASSUME IInv, JobInv, NEW step \in Waits \ {"addons", "addLabels"}, AtStep(step), Satisfied(step)
  PROVE  Shows(step)
  <1>1. step \notin {"preJob", "postJob"} => Shows(step)
    BY DEF Satisfied, Shows, Waits
  <1>2. ASSUME NEW hooks, HookFinished(CurrentAnsibleJob, hooks) PROVE SomeFinished(hooks)
    BY <1>2 DEF HookFinished, CurrentAnsibleJob, NoSuchJob, SomeFinished
  <1>3. ASSUME NEW hooks, HookFinished(readJob, hooks) PROVE SomeFinished(hooks)
    BY <1>3 DEF HookFinished, JobInv, ReadJobInv, SomeFinished
  <1>4. QED
    BY <1>1, <1>2, <1>3 DEF Satisfied, PostHookJob, Shows

LEMMA WaitRefines ==
  ASSUME IInv, JobInv, NEW step \in Waits \ {"addons", "addLabels"}, WaitEnds(step)
  PROVE  Contract!ContractNext
  <1>1. /\ verdict = "running" /\ Body[at] = step /\ Advance /\ UNCHANGED optionVars
        /\ step \in CuratorSteps => curatorEnabled
    BY DEF WaitEnds, AtStep
  <1>2. step \in Required /\ Shows(step) /\ Required' = Required /\ UNCHANGED platform
    BY <1>1, RequiredCalls, RequiredSame, ShownWhenSatisfied DEF WaitEnds, IInv, optionVars
  <1>3. {m \in Required : Shows(m)}' = {m \in Required : Shows(m)}
    <2>1. ~deferred \/ cli # "running" \/ cli' \in {"running", "killed"}
      BY <1>1 DEF Advance, End
    <2>2. cli' = "exit0" <=> cli = "exit0"
      BY <1>1, AdvanceMoves DEF IInv, End
    <2>3. UNCHANGED <<cluster, managed, conditions, jobs>>
      BY DEF WaitEnds, curatorVars, hubVars
    <2>4. QED
      BY <1>2, <2>2, <2>3 DEF Shows, SomeFinished
  <1>4. CASE Goes
    <2>1. Observed' = Observed \cup {step} /\ Observed' # Required
      BY <1>1, <1>2, <1>4, ObservedMoves
    <2>2. PhaseOf(verdict) = "running" /\ PhaseOf(verdict') = "running"
      BY <1>1, <1>4 DEF Goes, PhaseOf
    <2>3. Contract!Observe(step)
      BY <1>2, <1>3, <2>1, <2>2 DEF Contract!Observe
    <2>4. QED
      BY <1>2, <2>3 DEF Contract!ContractNext
  <1>5. CASE Passes
    <2>1. step = "annotations" /\ \A m \in Required \ {"annotations"} : Past(m)
      BY <1>1, <1>5, RequiredCalls DEF Passes, IInv
    <2>2. Observed' = Required
      BY <1>2, <1>5 DEF Observed, Passes
    <2>3. Observed' = Observed \cup {step}
      BY <1>2, <2>1, <2>2 DEF Observed
    <2>4. PhaseOf(verdict) = "running" /\ PhaseOf(verdict') = "passed"
      BY <1>1, <1>5 DEF Passes, PhaseOf
    <2>5. Contract!Observe(step)
      BY <1>2, <1>3, <2>2, <2>3, <2>4 DEF Contract!Observe
    <2>6. QED
      BY <1>2, <2>5 DEF Contract!ContractNext
  <1>6. QED
    BY <1>1, <1>4, <1>5, AdvanceMoves DEF IInv

\* A call that is no wait for a milestone, or the end of a failing spec.
LEMMA OtherCallRefines ==
  ASSUME IInv, SpecStep, ~\E step \in Waits \ {"addons", "addLabels"} : WaitEnds(step)
  PROVE  Contract!ContractNext
  <1>1. verdict = "running" /\ UNCHANGED optionVars /\ Required' = Required
    <2>1. verdict = "running" /\ UNCHANGED optionVars
      BY DEF SpecStep, PassOverCuration, StartCLI, DeferKillAndWait,
           CreateOrUpdateAnsibleTowerSecret, DeleteClusterCurator, CreateOrUpdateClusterCurator,
           ReadPostHookJob, WaitEnds, WaitTimesOut, ValidateClusterAddOnAvailable, AtStep,
           IsACMInstalled, AddOnsAllAvailable, AddOnsCheckFails, HookWaitPanics, LabelReadFails
    <2>2. QED
      BY <2>1, RequiredSame
  <1> USE DEF Contract!ContractNext
  <1>2. ASSUME UNCHANGED at, verdict' \in {"running", "failed", "panicked"}
        PROVE  Contract!ContractNext
    <2>1. Observed' = Observed
      BY <1>1, <1>2, ObservedStays
    <2>2. PhaseOf(verdict) = "running" /\ PhaseOf(verdict') \in {"running", "failed"}
      BY <1>1, <1>2 DEF PhaseOf
    <2>3. QED
      BY <1>1, <2>1, <2>2 DEF Contract!FailSpec, Contract!HubChanges
  <1>3. ASSUME Goes, Body[at] \notin Required PROVE Contract!ContractNext
    <2>1. Observed' = Observed
      BY <1>1, <1>3, ObservedMoves
    <2>2. PhaseOf(verdict') = PhaseOf(verdict)
      BY <1>1, <1>3 DEF Goes
    <2>3. QED
      BY <1>1, <2>1, <2>2 DEF Contract!HubChanges
  <1>4. ASSUME Advance, Body[at] \notin Required PROVE Contract!ContractNext
    <2>1. at # Len(Body)
      BY <1>4, RequiredCalls DEF IInv, Required
    <2>2. QED
      BY <1>3, <1>4, <2>1, AdvanceMoves DEF Passes, IInv
  <1>5. CASE StartCLI
    <2>1. Body[at] = "startCLI" /\ at < Len(Body)
      BY <1>5, Order DEF StartCLI, AtStep, IInv, TypeOK
    <2>2. Body[at] \notin Required
      BY <2>1 DEF Required
    <2>3. QED
      BY <1>2, <1>3, <1>5, <2>1, <2>2 DEF StartCLI, End, Goes
  <1>6. CASE PassOverCuration
    BY <1>4, <1>6, RequiredCalls DEF PassOverCuration, IInv
  <1>7. CASE \/ DeferKillAndWait \/ CreateOrUpdateAnsibleTowerSecret \/ DeleteClusterCurator
             \/ CreateOrUpdateClusterCurator \/ ReadPostHookJob
    <2>1. Body[at] \notin Required
      BY <1>7 DEF DeferKillAndWait, CreateOrUpdateAnsibleTowerSecret, DeleteClusterCurator,
           CreateOrUpdateClusterCurator, ReadPostHookJob, AtStep, Required
    <2>2. Advance \/ End("failed")
      BY <1>7 DEF DeferKillAndWait, CreateOrUpdateAnsibleTowerSecret, DeleteClusterCurator,
           CreateOrUpdateClusterCurator, ReadPostHookJob
    <2>3. QED
      BY <1>2, <1>4, <2>1, <2>2 DEF End
  <1>8. CASE AddOnsAllAvailable \/ AddOnsCheckFails
    BY <1>4, <1>8 DEF AddOnsAllAvailable, AddOnsCheckFails, AtStep, Required
  <1>9. CASE IsACMInstalled \/ ValidateClusterAddOnAvailable
    BY <1>1, <1>2, <1>9 DEF IsACMInstalled, ValidateClusterAddOnAvailable
  <1>10. CASE \/ \E step \in Waits : WaitTimesOut(step)
              \/ \E step \in {"preJob", "postJob"} : HookWaitPanics(step)
              \/ LabelReadFails
    BY <1>2, <1>10 DEF WaitTimesOut, HookWaitPanics, LabelReadFails, End
  <1>11. CASE WaitEnds("addLabels")
    BY <1>4, <1>11 DEF WaitEnds, AtStep, Required
  <1>12. QED
    BY <1>5, <1>6, <1>7, <1>8, <1>9, <1>10, <1>11 DEF SpecStep

LEMMA NextRefines ==
  ASSUME IInv, JobInv, [Next]_vars
  PROVE  [Contract!ContractNext]_(Contract!contractVars)
  <1>1. CASE SpecStep
    BY <1>1, WaitRefines, OtherCallRefines
  <1>2. CASE PosthookPollIsFalse \/ EnvironmentStep \/ UNCHANGED vars
    <2>1. UNCHANGED <<optionVars, at, verdict>>
      BY <1>2 DEF EnvironmentStep, CLICreatesCluster, CLIExits, LaunchHook, TowerUpdatesJob,
           CuratorReaches, HubAdvances, AddOnChanges, PosthookPollIsFalse, specVars, vars
    <2>2. Required' = Required /\ UNCHANGED <<platform, at, verdict>>
      BY <2>1, RequiredSame DEF optionVars
    <2>3. \A m : Past(m)' <=> Past(m)
      BY <2>2, PastSame
    <2>4. Observed' = Observed
      BY <2>2, <2>3 DEF Observed
    <2>5. QED
      BY <2>2, <2>4 DEF Contract!ContractNext, Contract!HubChanges
  <1>3. CASE SuiteInterrupted
    <2>1. verdict = "running" /\ verdict' = "interrupted" /\ UNCHANGED <<optionVars, at>>
      BY <1>3 DEF SuiteInterrupted
    <2>2. Observed' = Observed /\ Required' = Required
      BY <2>1, ObservedStays, RequiredSame
    <2>3. PhaseOf(verdict) = "running" /\ PhaseOf(verdict') = "failed"
      BY <2>1 DEF PhaseOf
    <2>4. QED
      BY <2>2, <2>3 DEF Contract!ContractNext, Contract!FailSpec
  <1>4. QED
    BY <1>1, <1>2, <1>3 DEF Next, Ended

LEMMA InitRefines == Init => Contract!ContractInit
  <1> SUFFICES ASSUME Init PROVE Contract!ContractInit
    OBVIOUS
  <1>1. \A m : ~Past(m)
    BY DEF Past, Init
  <1>2. Observed = {} /\ PhaseOf(verdict) = "running"
    BY <1>1 DEF Init, Observed, PhaseOf
  <1>3. Required # {}
    BY DEF Required
  <1>4. QED
    BY <1>2, <1>3 DEF Contract!ContractInit

-----------------------------------------------------------------------------
(* What it says of the specs                                               *)

\* The variables of the create specs keep their types, whatever the add-ons.
THEOREM TypeCorrect == Spec => []TypeOK
  <1>1. IInv => TypeOK
    BY DEF IInv
  <1>2. QED
    BY <1>1, InvariantHolds, PTL

\* Whichever call ends the AWS spec, KillAndWait has stopped the hcp process it
\* started (hcp_aws_create_test.go:78), because nothing lies between the start and
\* the defer that could end the spec.  A process may only outlive a spec that ginkgo
\* gives up on its timeout or a signal, for which no deferred call runs.
THEOREM StartedCLIIsStopped == Spec => []AwsLeavesNoCLI
  <1>1. IInv => AwsLeavesNoCLI
    BY DEF IInv, CleanupInv, AwsLeavesNoCLI
  <1>2. QED
    BY <1>1, InvariantHolds, PTL

\* With curation the hcp CLI creates the cluster paused
\* (hcp_aws_create_test.go:69) and only the prehooks of the curation let it go on.
THEOREM PausedUntilPrehooks == Spec => []PrehooksBeforeProvisioning
  <1>1. IInv => PrehooksBeforeProvisioning
    BY DEF IInv, HookInv, PrehooksBeforeProvisioning
  <1>2. QED
    BY <1>1, InvariantHolds, PTL

\* The AWS spec waits for the condition clustercurator-job
\* (hcp_aws_create_test.go:159) of a ClusterCurator it has created anew, so its
\* pass says that every hook has succeeded.
THEOREM PassMeansHooksSucceeded == Spec => []AwsPassMeansHooksSucceeded
  <1>1. IInv => AwsPassMeansHooksSucceeded
    <2> SUFFICES ASSUME IInv, platform = "aws", curatorEnabled, verdict = "passed"
                 PROVE  \A h \in Hooks : jobs[h] = "ok"
      BY DEF AwsPassMeansHooksSucceeded
    <2>1. at = Len(Body) /\ Past("curatorJob")
      BY Order DEF IInv, TypeOK, PassInv
    <2>2. QED
      BY <2>1 DEF IInv, HookInv
  <1>2. QED
    BY <1>1, InvariantHolds, PTL

\* Deleting the ClusterCurator first (clustercurator.go, DeleteClusterCurator)
\* keeps the hook waits from the AnsibleJobs of an interrupted earlier run.
THEOREM PanicsOnlyOnOwnCuration == Spec => []PanicIsOfOwnCuration
  <1>1. IInv => PanicIsOfOwnCuration
    BY DEF IInv, CuratorInv, PanicIsOfOwnCuration
  <1>2. QED
    BY <1>1, InvariantHolds, PTL

\* WaitForClusterAddonsAvailable has seen every add-on of the list for its hub,
\* or has looked at none of them.
THEOREM AddOnsSeenOrNotLookedAt == Spec => []PassMeansAddOnsSeen
  <1>1. IInv => PassMeansAddOnsSeen
    <2> SUFFICES ASSUME IInv, verdict = "passed", checking # "no"
                 PROVE  checking = hub /\ addOnsSeen = Listed(hub)
      BY DEF PassMeansAddOnsSeen
    <2>1. at = Len(Body) /\ Past("addons")
      BY Order DEF IInv, TypeOK, PassInv
    <2>2. QED
      BY <2>1 DEF IInv, PassInv
  <1>2. QED
    BY <1>1, InvariantHolds, PTL

\* A poll of the posthook wait that is answered finds nothing, although the posthooks
\* are all finished, only in the AWS spec, and only because what it read before the
\* wait (hcp_aws_create_test.go:141) is not the AnsibleJob the curator is at; such a
\* spec never passes.  The KubeVirt spec, which reads the AnsibleJob at every poll
\* (hcp_kubevirt_create_test.go:132), has no such poll.
THEOREM PosthookMissesAreStale == Spec => []PosthookMissIsStaleRead
  <1>1. IInv /\ JobInv => PosthookMissIsStaleRead
    BY LastHook DEF JobInv, MissInv, PosthookMissIsStaleRead
  <1>2. QED
    BY <1>1, InvariantHolds, JobInvHolds, PTL

\* Whatever the two sequences of calls look like, and whatever the hub does in
\* between: a create spec observes the milestones its options ask for one by one,
\* each while the hub shows it, and passes with the last of them, never without.  In
\* particular the AnsibleJob the AWS spec keeps from before its wait is no outdated
\* witness: a posthook that was finished when it was read still is.
THEOREM CreateImplementsContract == Spec => ImplementsContract
  <1>1. IInv /\ JobInv /\ [Next]_vars => [Contract!ContractNext]_(Contract!contractVars)
    BY NextRefines
  <1>2. QED
    BY <1>1, InitRefines, InvariantHolds, JobInvHolds, PTL
       DEF Spec, ImplementsContract, Contract!ContractSpec

-----------------------------------------------------------------------------
(* The calls that are left                                                 *)

\* The calls that are left: those of Body, and those of the loop over the add-ons.
CallsAhead ==
    IF verdict # "running" THEN 0
    ELSE Len(Body) + 1 - at
         + (IF checking = "no" THEN Len(AddOnLists["mce"]) + Len(AddOnLists["acm"]) + 1
            ELSE Len(AddOnLists[checking]) + 1 - addOn)

\* However often the add-ons come and go, the spec makes no call twice: each of the
\* loop's waits is over for good when it is over.  Only an interruption takes the
\* calls away that are left.
CallsRunOut ==
    [][IF SpecStep \/ SuiteInterrupted THEN CallsAhead' \in 0 .. (CallsAhead - 1)
       ELSE CallsAhead' = CallsAhead]_vars

\* Every call ends the spec, or goes on to the next one of Body, or stays in the
\* loop over the add-ons.
LEMMA SpecStepMakesACall ==
  ASSUME SpecStep
  PROVE  /\ verdict = "running" /\ UNCHANGED platform
         /\ \/ verdict' # "running"
            \/ at' = at + 1 /\ UNCHANGED <<verdict, checking, addOn>>
            \/ IsACMInstalled
            \/ ValidateClusterAddOnAvailable
  <1>1. verdict = "running" /\ UNCHANGED platform
    BY DEF SpecStep, PassOverCuration, StartCLI, DeferKillAndWait, AtStep, optionVars,
         CreateOrUpdateAnsibleTowerSecret, DeleteClusterCurator, CreateOrUpdateClusterCurator,
         ReadPostHookJob, WaitEnds, WaitTimesOut, ValidateClusterAddOnAvailable,
         IsACMInstalled, AddOnsAllAvailable, AddOnsCheckFails, HookWaitPanics, LabelReadFails
  <1>2. ASSUME Advance PROVE verdict' # "running" \/ (at' = at + 1 /\ verdict' = "running")
    BY <1>2 DEF Advance, End
  <1>3. ASSUME NEW v \in {"failed", "panicked"}, End(v) PROVE verdict' # "running"
    BY <1>3 DEF End
  <1>4. QED
    BY <1>1, <1>2, <1>3
       DEF SpecStep, PassOverCuration, StartCLI, DeferKillAndWait,
         CreateOrUpdateAnsibleTowerSecret, DeleteClusterCurator, CreateOrUpdateClusterCurator,
         ReadPostHookJob, WaitEnds, WaitTimesOut, AddOnsAllAvailable, AddOnsCheckFails,
         HookWaitPanics, LabelReadFails

LEMMA CallsStep ==
  ASSUME IInv, SpecStep \/ SuiteInterrupted
  PROVE  CallsAhead' \in 0 .. (CallsAhead - 1)
  <1> DEFINE loop == IF checking = "no" THEN Len(AddOnLists["mce"]) + Len(AddOnLists["acm"]) + 1
                     ELSE Len(AddOnLists[checking]) + 1 - addOn
  <1>0. /\ verdict = "running" /\ UNCHANGED platform
        /\ \/ verdict' # "running"
           \/ at' = at + 1 /\ UNCHANGED <<verdict, checking, addOn>>
           \/ IsACMInstalled
           \/ ValidateClusterAddOnAvailable
    BY SpecStepMakesACall DEF SuiteInterrupted, optionVars
  <1>1. PICK length \in Nat : Len(Body) = length /\ Len(Body)' = length /\ at \in 1 .. length
    BY <1>0, LengthIsNat DEF Body, IInv, TypeOK
  <1>2. PICK mce \in Nat, acm \in Nat : Len(AddOnLists["mce"]) = mce /\ Len(AddOnLists["acm"]) = acm
    BY ListLength
  <1>3. /\ checking \in {"no", "mce", "acm"} /\ hub \in {"mce", "acm"} /\ hub' = hub
        /\ addOn \in 1 .. (Len(AddOnLists[checking]) + 1)
    <2>1. UNCHANGED optionVars
      BY SpecStepMoves DEF SuiteInterrupted
    <2>2. QED
      BY <2>1 DEF IInv, TypeOK, optionVars
  <1>4. PICK left \in Nat : loop = left
    <2>1. CASE checking = "no"
      BY <1>2, <2>1
    <2>2. CASE checking # "no"
      <3>1. PICK listed \in Nat : Len(AddOnLists[checking]) = listed
        BY <1>3, ListLength
      <3>2. QED
        BY <1>3, <2>2, <3>1
    <2>3. QED
      BY <2>1, <2>2
  <1>5. CallsAhead = length + 1 - at + left
    BY <1>0, <1>1, <1>4 DEF CallsAhead
  <1> HIDE DEF loop
  <1>6. CASE verdict' # "running"
    <2>1. CallsAhead' = 0
      BY <1>6 DEF CallsAhead
    <2>2. QED
      BY <1>1, <1>4, <1>5, <2>1
  <1>7. CASE at' = at + 1 /\ UNCHANGED <<verdict, checking, addOn>>
    <2>1. CallsAhead' = length + 1 - (at + 1) + left
      BY <1>0, <1>1, <1>4, <1>7 DEF CallsAhead, AddOnLists, loop
    <2>2. QED
      BY <1>1, <1>4, <1>5, <2>1
  <1>8. CASE IsACMInstalled
    <2>1. checking = "no" /\ checking' = hub /\ UNCHANGED <<at, verdict, addOn>>
      BY <1>8 DEF IsACMInstalled
    <2>2. addOn = 1 /\ left = mce + acm + 1
      BY <1>2, <1>3, <1>4, <2>1, NothingListed DEF loop
    <2>3. PICK listed \in {mce, acm} : Len(AddOnLists[hub]) = listed
      BY <1>2, <1>3
    <2>4. (Len(AddOnLists[checking]))' = listed
      BY <2>1, <2>3 DEF AddOnLists
    <2>5. checking' # "no" /\ addOn' = 1 /\ at' = at /\ verdict' = "running"
      BY <1>0, <1>3, <2>1, <2>2
    <2>6. CallsAhead' = length + 1 - at + (listed + 1 - 1)
      BY <1>1, <2>4, <2>5 DEF CallsAhead
    <2>7. QED
      BY <1>1, <1>2, <1>5, <2>2, <2>3, <2>6
  <1>9. CASE ValidateClusterAddOnAvailable
    <2>1. /\ addOn \in DOMAIN AddOnLists[checking] /\ checking # "no"
          /\ addOn' = addOn + 1 /\ UNCHANGED <<at, verdict, checking>>
      BY <1>9 DEF ValidateClusterAddOnAvailable, Satisfied, AddOnsLeft
    <2>2. PICK listed \in Nat : Len(AddOnLists[checking]) = listed /\ addOn \in 1..listed
      BY <1>3, <2>1, ListLength
    <2>3. (Len(AddOnLists[checking]))' = listed
      BY <2>1, <2>2 DEF AddOnLists
    <2>4. left = listed + 1 - addOn
      BY <1>4, <2>1, <2>2 DEF loop
    <2>5. CallsAhead' = length + 1 - at + (listed + 1 - (addOn + 1))
      BY <1>0, <1>1, <2>1, <2>3 DEF CallsAhead
    <2>6. QED
      BY <1>1, <1>5, <2>2, <2>4, <2>5
  <1>10. QED
    BY <1>0, <1>6, <1>7, <1>8, <1>9

\* Whatever comes and goes on the hub, a create spec makes a bounded number of
\* calls: one for each of Body, and one for each add-on of its list.
THEOREM CreateCallsRunOut == Spec => CallsRunOut
  <1>1. ASSUME PosthookPollIsFalse \/ EnvironmentStep \/ Ended PROVE CallsAhead' = CallsAhead
    <2>1. UNCHANGED <<optionVars, at, verdict, checking, addOn>>
      BY <1>1 DEF EnvironmentStep, Ended, vars, CLICreatesCluster, CLIExits, specVars,
         LaunchHook, TowerUpdatesJob, CuratorReaches, HubAdvances, AddOnChanges,
         PosthookPollIsFalse
    <2>2. QED
      BY <2>1 DEF optionVars, CallsAhead, Body, AddOnLists
  <1>2. IInv /\ [Next]_vars =>
            [IF SpecStep \/ SuiteInterrupted THEN CallsAhead' \in 0 .. (CallsAhead - 1)
                         ELSE CallsAhead' = CallsAhead]_vars
    BY <1>1, CallsStep DEF Next
  <1>3. QED
    BY InvariantHolds, <1>2, PTL DEF Spec, CallsRunOut
=================================================================================
