------------------------------ MODULE SuiteRunProofs ------------------------------
(***************************************************************************)
(* Theorems about SuiteRun, for every number of processes and every set of *)
(* selected specs.                                                         *)
(***************************************************************************)
EXTENDS SuiteRun, FiniteSetTheorems, TLAPS

(***************************************************************************)
(* The inductive invariant                                                 *)
(***************************************************************************)

\* Nothing of the suite moves unless BeforeSuite has passed.
NothingBefore ==
    beforeSuite # "passed" => stop = "no" /\ \A s \in Specs : state[s] = "waiting"

\* What the steps of BeforeSuite up to at have established.
Checked ==
    /\ at > 2 => testOptions = inputs.files[OptionsFile(inputs.given)]
    /\ at > 5 => oidcSecret # NoSecret
    /\ at > 6 => "operator" \in seenHealthy
    /\ at > 7 => "addonManager" \in seenHealthy
    /\ at > 8 => "addonAvailable" \in seenHealthy
    /\ seenHealthy \subseteq Awaited
    /\ beforeSuite = "passed" => at > Len(BeforeSuite)

\* When the report is written, the suite is over, and it stays as reported.
Reporting ==
    junit.written => SuiteOver /\ beforeSuite # "running" /\ junit = GenerateJUnitReport

IInv == TypeOK /\ NothingBefore /\ Checked /\ SecretAsConfigured /\ Reporting

LEMMA StepsOfBeforeSuite ==
  /\ Len(BeforeSuite) = 10 /\ DOMAIN BeforeSuite = 1..10
  /\ BeforeSuite[2] = "options" /\ BeforeSuite[5] = "oidcSecret" /\ BeforeSuite[6] = "operator"
  /\ BeforeSuite[7] = "addonManager" /\ BeforeSuite[8] = "addonAvailable"
  /\ \A i \in 1..10 : BeforeSuite[i] = "oidcSecret" => i = 5
  /\ \A i \in 1..10 : BeforeSuite[i] = "options" => i = 2
  /\ \A i \in 1..10 : BeforeSuite[i] # "externalDNS"
  BY DEF BeforeSuite

-----------------------------------------------------------------------------
(* The OIDC provider secret                                                *)

LEMMA S3CredsAreOneKey ==
  ASSUME NEW env, NEW file, NEW key, key = S3Creds(env, file)
  PROVE  IF S3Options \subseteq env THEN key = <<"env", "env">>
         ELSE key = << IF "S3AccessKeyID" \in file THEN "file" ELSE "empty",
                       IF "S3AccessSecret" \in file THEN "file" ELSE "empty" >>
  <1>1. CASE S3Options \subseteq env
    BY <1>1 DEF S3Creds
  <1>2. CASE ~(S3Options \subseteq env)
    <2>1. ASSUME NEW o \in S3Options
          PROVE  Lookup(o, "aws", {}, file) = IF o \in file THEN "file" ELSE "empty"
      BY DEF S3Options, Lookup, Required, ClusterOptions, InFile, CredentialOptions, Defaulted
    <2>2. "S3AccessKeyID" \in S3Options /\ "S3AccessSecret" \in S3Options
      BY DEF S3Options
    <2>3. key = <<Lookup("S3AccessKeyID", "aws", {}, file), Lookup("S3AccessSecret", "aws", {}, file)>>
      BY <1>2 DEF S3Creds
    <2>4. QED
      BY <1>2, <2>1, <2>2, <2>3
  <1>3. QED
    BY <1>1, <1>2

LEMMA S3CredsAreCredentials == \A env, file : S3Creds(env, file) \in Credentials
  BY S3CredsAreOneKey DEF Credentials

\* A secret of this run is neither missing nor somebody else's.
LEMMA SecretsDiffer ==
  /\ NoSecret \notin Credentials /\ OthersSecret \notin Credentials /\ OthersSecret # NoSecret
  BY DEF NoSecret, OthersSecret, Credentials

-----------------------------------------------------------------------------
(* The columns of the report                                               *)

LEMMA WithIsNatural == \A A : With(A) \in Nat
  <1> TAKE A
  <1>1. IsFiniteSet({s \in Specs : state[s] \in A})
    BY SpecsAssumption, FS_Subset
  <1>2. QED
    BY <1>1, FS_CardinalityType DEF With

LEMMA WithAddsUp ==
  ASSUME NEW A, NEW B, A \cap B = {}
  PROVE  With(A) + With(B) = With(A \cup B)
  <1> DEFINE S == {s \in Specs : state[s] \in A}
             T == {s \in Specs : state[s] \in B}
  <1>1. IsFiniteSet(S) /\ IsFiniteSet(T)
    BY SpecsAssumption, FS_Subset
  <1>2. S \cap T = {}
    OBVIOUS
  <1>3. Cardinality(S \cup T) = Cardinality(S) + Cardinality(T) - Cardinality(S \cap T)
    BY <1>1, FS_Union
  <1>4. Cardinality(S \cap T) = 0
    BY <1>2, FS_EmptySet
  <1>5. Cardinality(S) \in Nat /\ Cardinality(T) \in Nat
    BY <1>1, FS_CardinalityType
  <1>6. {s \in Specs : state[s] \in A \cup B} = S \cup T
    OBVIOUS
  <1>7. With(A \cup B) = Cardinality(S \cup T) /\ With(A) = Cardinality(S) /\ With(B) = Cardinality(T)
    BY <1>6, Zenon DEF With
  <1>8. QED
    BY <1>3, <1>4, <1>5, <1>7

LEMMA ReportIsTyped == GenerateJUnitReport \in Counts
  BY WithIsNatural DEF GenerateJUnitReport, Counts

-----------------------------------------------------------------------------
(* The initial states and the steps                                        *)

\* Only StartSpec, EndSpec and SkipRest change what the specs and processes do.
Running ==
    /\ state \in [Specs -> SpecStates]
    /\ runner \in [Procs -> Specs \cup {NoSpec}]
    /\ \A s \in Specs : state[s] = "running" <=> \E p \in Procs : runner[p] = s
    /\ \A p, q \in Procs : runner[p] = runner[q] => p = q \/ runner[p] = NoSpec

LEMMA InitIInv == Init => IInv
  <1> SUFFICES ASSUME Init PROVE IInv
    OBVIOUS
  <1>1. /\ at = 1 /\ beforeSuite = "running" /\ ~junit.written
        /\ \A s \in Specs : state[s] = "waiting"
        /\ \A p \in Procs : runner[p] = NoSpec
    BY DEF Init, NoReport
  <1>2. Running
    BY <1>1, SpecsAssumption DEF Init, Running, SpecStates
  <1>3. TypeOK
    <2>1. at \in 1..Len(BeforeSuite) + 1
      BY <1>1, StepsOfBeforeSuite
    <2>2. testOptions \subseteq InFile /\ initialised \subseteq Procs /\ seenHealthy \subseteq Parts
      BY DEF Init
    <2>3. /\ inputs \in Inputs /\ beforeSuite = "running" /\ stop = "no" /\ over = FALSE
          /\ junit = NoReport /\ healthy \subseteq Parts /\ oidcSecret \in {NoSecret, OthersSecret}
      BY DEF Init
    <2>4. QED
      BY <1>2, <2>1, <2>2, <2>3 DEF TypeOK, Running
  <1>4. NothingBefore /\ Checked /\ SecretAsConfigured /\ Reporting
    BY <1>1, SecretsDiffer DEF Init, NothingBefore, Checked, SecretAsConfigured, Reporting
  <1>5. QED
    BY <1>3, <1>4 DEF IInv

LEMMA StartKeepsRunning ==
  ASSUME Running, NEW p \in Procs, NEW s \in Specs, StartSpec(p, s)
  PROVE  Running'
  <1> USE SpecsAssumption DEF Running
  <1>1. /\ state' = [state EXCEPT ![s] = "running"] /\ runner' = [runner EXCEPT ![p] = s]
        /\ runner[p] = NoSpec /\ state[s] = "waiting"
    BY DEF StartSpec
  <1>2. state' \in [Specs -> SpecStates] /\ runner' \in [Procs -> Specs \cup {NoSpec}]
    BY <1>1 DEF SpecStates
  <1>3. \A q \in Procs : runner[q] # s
    BY <1>1
  <1>4. ASSUME NEW r \in Specs PROVE state'[r] = "running" <=> \E q \in Procs : runner'[q] = r
    BY <1>1, <1>4
  <1>5. ASSUME NEW q \in Procs, NEW r \in Procs, runner'[q] = runner'[r]
        PROVE  q = r \/ runner'[q] = NoSpec
    BY <1>1, <1>3, <1>5
  <1>6. QED
    BY <1>2, <1>4, <1>5

LEMMA EndKeepsRunning ==
  ASSUME Running, NEW p \in Procs, EndSpec(p)
  PROVE  Running'
  <1> USE SpecsAssumption DEF Running
  <1>1. PICK outcome \in SpecStates \ {"waiting", "running"} :
            state' = [state EXCEPT ![runner[p]] = outcome]
    BY DEF EndSpec, Outcomes, SpecStates, Failing
  <1>2. runner[p] \in Specs /\ runner' = [runner EXCEPT ![p] = NoSpec]
    BY DEF EndSpec
  <1>3. state' \in [Specs -> SpecStates] /\ runner' \in [Procs -> Specs \cup {NoSpec}]
    BY <1>1, <1>2
  <1>4. ASSUME NEW r \in Specs PROVE state'[r] = "running" <=> \E q \in Procs : runner'[q] = r
    BY <1>1, <1>2, <1>4
  <1>5. ASSUME NEW q \in Procs, NEW r \in Procs, runner'[q] = runner'[r]
        PROVE  q = r \/ runner'[q] = NoSpec
    BY <1>2, <1>5
  <1>6. QED
    BY <1>3, <1>4, <1>5

LEMMA SkipKeepsRunning ==
  ASSUME Running, SkipRest
  PROVE  Running'
  <1> USE DEF Running
  <1>1. /\ state' = [s \in Specs |-> IF state[s] = "waiting" THEN "skipped" ELSE state[s]]
        /\ runner' = runner
    BY DEF SkipRest
  <1>2. state' \in [Specs -> SpecStates]
    BY <1>1 DEF SpecStates
  <1>3. \A s \in Specs : state'[s] = "running" <=> state[s] = "running"
    BY <1>1
  <1>4. QED
    BY <1>1, <1>2, <1>3

LEMMA RunningStep == Running /\ [Next]_vars => Running'
  <1> SUFFICES ASSUME Running, [Next]_vars PROVE Running'
    OBVIOUS
  <1>1. CASE state' = state /\ runner' = runner
    BY <1>1 DEF Running
  <1>2. QED
    BY <1>1, StartKeepsRunning, EndKeepsRunning, SkipKeepsRunning
       DEF Next, GinkgoStep, BeforeSuiteFails, BeforeSuiteStep, LoadOptions,
           CreateOIDCProviderSecret,
           BeforeSuitePasses, ReportAfterSuite, SuiteInterrupted, HubChanges, vars, specVars, reportVars, hubVars

LEMMA TypeStep == TypeOK /\ [Next]_vars => TypeOK'
  <1> SUFFICES ASSUME TypeOK, [Next]_vars PROVE TypeOK'
    OBVIOUS
  <1>0. Running' 
    BY RunningStep DEF TypeOK, Running
  <1>1. at' \in 1..Len(BeforeSuite) + 1 /\ beforeSuite' \in {"running", "passed", "failed"}
    BY StepsOfBeforeSuite
       DEF TypeOK, Next, GinkgoStep, BeforeSuiteFails, BeforeSuiteStep, LoadOptions,
           CreateOIDCProviderSecret,
           BeforeSuitePasses, StartSpec, EndSpec, SkipRest, ReportAfterSuite, SuiteInterrupted,
           HubChanges, InBeforeSuite, vars, specVars, reportVars
  <1>2. initialised' \subseteq Procs /\ seenHealthy' \subseteq Parts
    BY ProcsAssumption
       DEF TypeOK, Next, GinkgoStep, BeforeSuiteFails, BeforeSuiteStep, LoadOptions,
           CreateOIDCProviderSecret,
           BeforeSuitePasses, StartSpec, EndSpec, SkipRest, ReportAfterSuite, SuiteInterrupted,
           HubChanges, vars, specVars, reportVars
  <1>3. stop' \in {"no", "timeout", "signal"} /\ junit' \in {NoReport} \cup Counts
    BY ReportIsTyped
       DEF TypeOK, Next, GinkgoStep, BeforeSuiteFails, BeforeSuiteStep, LoadOptions,
           CreateOIDCProviderSecret,
           BeforeSuitePasses, StartSpec, EndSpec, SkipRest, ReportAfterSuite, SuiteInterrupted,
           HubChanges, vars, specVars, reportVars
  <1>4. healthy' \subseteq Parts /\ over' \in BOOLEAN
    BY DEF TypeOK, Next, GinkgoStep, BeforeSuiteFails, BeforeSuiteStep, LoadOptions,
           CreateOIDCProviderSecret,
           BeforeSuitePasses, StartSpec, EndSpec, SkipRest, ReportAfterSuite, SuiteInterrupted,
           HubChanges, vars, specVars, reportVars, hubVars
  <1>5. inputs' = inputs
    BY DEF Next, GinkgoStep, BeforeSuiteFails, BeforeSuiteStep, LoadOptions, CreateOIDCProviderSecret,
           BeforeSuitePasses, StartSpec, EndSpec, SkipRest, ReportAfterSuite, SuiteInterrupted,
           HubChanges, vars
  <1>6. testOptions' \subseteq InFile /\ oidcSecret' \in {NoSecret, OthersSecret} \cup Credentials
    <2>1. CASE LoadOptions
      <3>1. /\ testOptions' = inputs.files[OptionsFile(inputs.given)]
            /\ OptionsFile(inputs.given) \in DOMAIN inputs.files
        BY <2>1, Zenon DEF LoadOptions, StepDone
      <3>2. \A place \in DOMAIN inputs.files : inputs.files[place] \subseteq InFile
        BY InputsAssumption DEF TypeOK
      <3>3. oidcSecret' = oidcSecret
        BY <2>1 DEF LoadOptions, hubVars
      <3>4. QED
        BY <3>1, <3>2, <3>3, Zenon DEF TypeOK
    <2>2. CASE CreateOIDCProviderSecret
      BY <2>2, S3CredsAreCredentials DEF TypeOK, CreateOIDCProviderSecret
    <2>3. CASE testOptions' = testOptions /\ oidcSecret' = oidcSecret
      BY <2>3 DEF TypeOK
    <2>4. QED
      BY <2>1, <2>2, <2>3
         DEF Next, GinkgoStep, BeforeSuiteFails, BeforeSuiteStep, BeforeSuitePasses, StartSpec, EndSpec,
             SkipRest, ReportAfterSuite, SuiteInterrupted, HubChanges, vars, hubVars
  <1>7. QED
    BY <1>0, <1>1, <1>2, <1>3, <1>4, <1>5, <1>6 DEF TypeOK, Running

LEMMA NothingBeforeStep == IInv /\ [Next]_vars => NothingBefore'
  <1> SUFFICES ASSUME IInv, [Next]_vars, beforeSuite' # "passed"
               PROVE  stop' = "no" /\ \A s \in Specs : state'[s] = "waiting"
    BY DEF NothingBefore
  <1>1. beforeSuite # "passed"
    BY DEF Next, GinkgoStep, BeforeSuiteFails, BeforeSuiteStep, LoadOptions,
           CreateOIDCProviderSecret,
         BeforeSuitePasses, StartSpec, EndSpec, SkipRest, ReportAfterSuite, SuiteInterrupted,
         HubChanges, vars, specVars, reportVars
  <1>2. stop = "no" /\ (\A s \in Specs : state[s] = "waiting") /\ \A p \in Procs : runner[p] = NoSpec
    BY <1>1 DEF IInv, NothingBefore, TypeOK
  <1>3. stop' = stop /\ state' = state
    BY <1>1, <1>2
       DEF Next, GinkgoStep, BeforeSuiteFails, BeforeSuiteStep, LoadOptions,
           CreateOIDCProviderSecret,
         BeforeSuitePasses, StartSpec, EndSpec, SkipRest, ReportAfterSuite, SuiteInterrupted,
         HubChanges, vars, specVars, reportVars
  <1>4. QED
    BY <1>2, <1>3

LEMMA CheckedStep == IInv /\ [Next]_vars => Checked'
  <1> SUFFICES ASSUME IInv, [Next]_vars PROVE Checked'
    OBVIOUS
  <1>0. Checked /\ at \in 1..11
    BY StepsOfBeforeSuite DEF IInv, TypeOK
  <1>1. ASSUME NEW i \in DOMAIN BeforeSuite, BeforeSuiteStep(BeforeSuite[i]) PROVE Checked'
    <2> DEFINE step == BeforeSuite[i]
    <2>1. /\ at \in 1..10 /\ BeforeSuite[at] = step
          /\ step \notin {"options", "oidcSecret"}
          /\ step \in Awaited => step \in seenHealthy'
          /\ at' = at + 1 /\ seenHealthy \subseteq seenHealthy'
          /\ inputs' = inputs /\ testOptions' = testOptions
          /\ oidcSecret' = oidcSecret /\ beforeSuite' = "running"
      BY <1>1, StepsOfBeforeSuite DEF BeforeSuiteStep, InBeforeSuite, StepDone, hubVars
    <2>2. at # 2 /\ at # 5
      BY <2>1, StepsOfBeforeSuite
    <2>3. /\ at = 6 => "operator" \in seenHealthy'
          /\ at = 7 => "addonManager" \in seenHealthy'
          /\ at = 8 => "addonAvailable" \in seenHealthy'
      BY <2>1, StepsOfBeforeSuite DEF Awaited
    <2>4. seenHealthy' \subseteq Awaited
      <3>1. seenHealthy' = seenHealthy \cup (healthy \cap {step})
        BY <1>1 DEF BeforeSuiteStep
      <3>2. step # "externalDNS"
        BY <2>1, StepsOfBeforeSuite
      <3>3. healthy \subseteq Awaited \cup {"externalDNS"}
        BY DEF IInv, TypeOK, Parts
      <3>4. QED
        BY <1>0, <3>1, <3>2, <3>3 DEF Checked
    <2>5. QED
      BY <1>0, <2>1, <2>2, <2>3, <2>4 DEF Checked
  <1>2. CASE CreateOIDCProviderSecret
    <2>1. at = 5
      BY <1>2, StepsOfBeforeSuite DEF CreateOIDCProviderSecret, InBeforeSuite
    <2>2. oidcSecret' # NoSecret
      BY <1>2, S3CredsAreCredentials, SecretsDiffer DEF CreateOIDCProviderSecret
    <2>3. QED
      BY <1>0, <1>2, <2>1, <2>2 DEF CreateOIDCProviderSecret, InBeforeSuite, Checked
  <1>3. CASE BeforeSuitePasses
    BY <1>0, <1>3 DEF BeforeSuitePasses, Checked, hubVars
  <1>4. CASE LoadOptions
    <2>1. at = 2
      BY <1>4, StepsOfBeforeSuite DEF LoadOptions, InBeforeSuite
    <2>2. QED
      BY <1>0, <1>4, <2>1 DEF LoadOptions, InBeforeSuite, Checked, hubVars
  <1>5. CASE /\ UNCHANGED <<inputs, testOptions, at, seenHealthy, oidcSecret>>
             /\ (beforeSuite' = "passed" => beforeSuite = "passed")
    BY <1>0, <1>5 DEF Checked
  <1>6. QED
    BY <1>1, <1>2, <1>3, <1>4, <1>5
       DEF Next, GinkgoStep, BeforeSuiteFails, StartSpec, EndSpec, SkipRest, ReportAfterSuite,
           SuiteInterrupted, HubChanges, vars, specVars, reportVars, hubVars

\* The options are loaded when the secret is created, and stay as loaded.
LEMMA SecretStep == IInv /\ [Next]_vars => SecretAsConfigured'
  <1> SUFFICES ASSUME IInv, [Next]_vars PROVE SecretAsConfigured'
    OBVIOUS
  <1>0. inputs' = inputs
    BY DEF Next, GinkgoStep, BeforeSuiteFails, BeforeSuiteStep, LoadOptions, CreateOIDCProviderSecret,
           BeforeSuitePasses, StartSpec, EndSpec, SkipRest, ReportAfterSuite, SuiteInterrupted,
           HubChanges, vars
  <1>1. CASE CreateOIDCProviderSecret /\ oidcSecret = NoSecret
    <2>1. at = 5
      BY <1>1, StepsOfBeforeSuite DEF CreateOIDCProviderSecret, InBeforeSuite
    <2>2. testOptions = inputs.files[OptionsFile(inputs.given)]
      BY <2>1 DEF IInv, Checked
    <2>3. oidcSecret' = S3Creds(inputs.env, testOptions)
      BY <1>1 DEF CreateOIDCProviderSecret
    <2>4. QED
      BY <1>0, <2>2, <2>3, S3CredsAreOneKey DEF SecretAsConfigured
  <1>2. CASE oidcSecret' = oidcSecret
    BY <1>0, <1>2 DEF IInv, SecretAsConfigured
  <1>3. QED
    BY <1>1, <1>2
       DEF Next, GinkgoStep, BeforeSuiteFails, BeforeSuiteStep, LoadOptions, CreateOIDCProviderSecret,
           BeforeSuitePasses, StartSpec, EndSpec, SkipRest, ReportAfterSuite, SuiteInterrupted,
           HubChanges, vars, hubVars

\* Once the suite is over, no step changes a spec: all have ended, or BeforeSuite
\* has failed and none is started.
LEMMA ReportingStep == IInv /\ [Next]_vars => Reporting'
  <1> SUFFICES ASSUME IInv, [Next]_vars, junit'.written PROVE Reporting'
    BY DEF Reporting
  <1> USE DEF IInv
  <1>1. ASSUME state' = state, runner' = runner, beforeSuite' = beforeSuite,
               SuiteOver, beforeSuite # "running", junit' = GenerateJUnitReport
        PROVE  Reporting'
    <2>1. GenerateJUnitReport' = GenerateJUnitReport /\ SuiteOver'
      BY <1>1 DEF GenerateJUnitReport, With, SuiteOver
    <2>2. QED
      BY <1>1, <2>1 DEF Reporting
  <1>2. CASE ReportAfterSuite
    <2>1. junit' = GenerateJUnitReport
      BY <1>2 DEF ReportAfterSuite, Reporting
    <2>2. QED
      BY <1>1, <1>2, <2>1 DEF ReportAfterSuite, specVars
  <1>3. CASE ~ReportAfterSuite
    <2>1. junit' = junit
      BY <1>3 DEF Next, GinkgoStep, BeforeSuiteFails, BeforeSuiteStep, LoadOptions,
           CreateOIDCProviderSecret,
         BeforeSuitePasses, StartSpec, EndSpec, SkipRest, SuiteInterrupted, HubChanges, vars, specVars, reportVars
    <2>2. SuiteOver /\ beforeSuite # "running" /\ junit = GenerateJUnitReport
      BY <2>1 DEF Reporting
    <2>3. /\ \A p \in Procs : runner[p] = NoSpec
          /\ beforeSuite = "passed" => \A s \in Specs : state[s] # "waiting"
          /\ beforeSuite # "passed" => stop = "no"
      BY <2>2 DEF SuiteOver, NothingBefore
    <2>4. state' = state /\ runner' = runner /\ beforeSuite' = beforeSuite
      BY <1>3, <2>2, <2>3
         DEF Next, GinkgoStep, BeforeSuiteFails, BeforeSuiteStep, LoadOptions,
           CreateOIDCProviderSecret,
         BeforeSuitePasses, StartSpec, EndSpec, SkipRest, SuiteInterrupted, HubChanges, vars, specVars,
         reportVars, InBeforeSuite, NothingBefore
    <2>5. QED
      BY <1>1, <2>1, <2>2, <2>4
  <1>4. QED
    BY <1>2, <1>3

LEMMA Inductive == Spec => []IInv
  <1>1. IInv /\ [Next]_vars => IInv'
    BY TypeStep, NothingBeforeStep, CheckedStep, SecretStep, ReportingStep DEF IInv
  <1>2. QED
    BY InitIInv, <1>1, PTL DEF Spec

\* A spec has run out of the time of the suite only if the suite did.
TimedOutInv == \A s \in Specs : state[s] = "timedout" => stop = "timeout"

LEMMA TimedOutStep == IInv /\ TimedOutInv /\ [Next]_vars => TimedOutInv'
  <1> SUFFICES ASSUME IInv, TimedOutInv, [Next]_vars PROVE TimedOutInv'
    OBVIOUS
  <1>0. Running
    BY DEF IInv, TypeOK, Running
  <1>1. ASSUME NEW p \in Procs, EndSpec(p) PROVE TimedOutInv'
    <2>1. PICK outcome : /\ state' = [state EXCEPT ![runner[p]] = outcome]
                         /\ outcome = "timedout" => stop = "timeout"
      BY <1>1 DEF EndSpec, Outcomes
    <2>2. stop' = stop /\ runner[p] \in Specs
      BY <1>0, <1>1 DEF EndSpec, Running
    <2>3. QED
      BY <1>0, <2>1, <2>2 DEF TimedOutInv, Running
  <1>2. ASSUME NEW p \in Procs, NEW s \in Specs, StartSpec(p, s) PROVE TimedOutInv'
    BY <1>0, <1>2 DEF StartSpec, TimedOutInv, Running
  <1>3. CASE SkipRest
    BY <1>0, <1>3 DEF SkipRest, TimedOutInv, Running
  <1>4. CASE state' = state /\ (stop' = stop \/ stop = "no")
    BY <1>4 DEF TimedOutInv
  <1>5. QED
    BY <1>1, <1>2, <1>3, <1>4
       DEF Next, GinkgoStep, BeforeSuiteFails, BeforeSuiteStep, LoadOptions,
           CreateOIDCProviderSecret, BeforeSuitePasses, ReportAfterSuite, SuiteInterrupted,
           HubChanges, vars, specVars

\* Process 1 has run the first function of SynchronizedBeforeSuite when specs run.
InitialisedInv == beforeSuite = "passed" => 1 \in initialised

LEMMA InitialisedStep == InitialisedInv /\ [Next]_vars => InitialisedInv'
  BY DEF InitialisedInv, Next, GinkgoStep, BeforeSuiteFails, BeforeSuiteStep, LoadOptions,
         CreateOIDCProviderSecret, BeforeSuitePasses, StartSpec, EndSpec, SkipRest,
         ReportAfterSuite, SuiteInterrupted, HubChanges, vars

LEMMA CountedSpec ==
  ASSUME NEW A, NEW s \in Specs, state[s] \in A
  PROVE  With(A) # 0
  <1> DEFINE S == {r \in Specs : state[r] \in A}
  <1>1. IsFiniteSet(S) /\ S # {}
    BY SpecsAssumption, FS_Subset
  <1>2. QED
    BY <1>1, FS_EmptySet DEF With

-----------------------------------------------------------------------------
(* Theorems                                                                *)

\* Type correctness; in particular no spec runs on two processes, and the specs
\* that run are those the processes have.
THEOREM TypeCorrect == Spec => []TypeOK
  BY Inductive, PTL DEF IInv

\* No spec of any process starts before BeforeSuite has seen the operator, the
\* add-on manager and the add-on healthy and has the S3 secret; and each spec starts
\* without anybody having looked at external-dns.
THEOREM ChecksComeFirst == Spec => []OnlyExternalDNSUnchecked
  <1>1. IInv => OnlyExternalDNSUnchecked
    <2> SUFFICES ASSUME IInv, NEW s \in Specs, state[s] # "waiting"
                 PROVE  seenHealthy = Parts \ {"externalDNS"} /\ oidcSecret # NoSecret
      BY DEF OnlyExternalDNSUnchecked
    <2>1. beforeSuite = "passed"
      BY DEF IInv, NothingBefore
    <2>2. at \in Nat /\ at > 10
      BY <2>1, StepsOfBeforeSuite DEF IInv, TypeOK, Checked
    <2>3. Parts \ {"externalDNS"} = Awaited
      BY DEF Parts, Awaited
    <2>4. seenHealthy = Awaited
      <3>1. Awaited \subseteq seenHealthy /\ seenHealthy \subseteq Awaited
        BY <2>2 DEF IInv, Checked, Awaited
      <3>2. QED
        BY <3>1
    <2>5. oidcSecret # NoSecret
      BY <2>2 DEF IInv, Checked
    <2>6. QED
      BY <2>3, <2>4, <2>5
  <1>2. QED
    BY Inductive, <1>1, PTL

\* A secret the run has created carries the access key of the environment, or the
\* one of the options file the run was told to use, for all inputs of a run.
THEOREM SecretFollowsOptions == Spec => []SecretAsConfigured
  BY Inductive, PTL DEF IInv

\* The report counts each spec that failed, panicked, was aborted or interrupted
\* as a failure or an error, once.
THEOREM CountsFailures == Spec => []FailuresCounted
  <1>1. IInv => FailuresCounted
    <2> SUFFICES ASSUME IInv, junit.written
                 PROVE  junit.failures + junit.errors = With(Failing \ {"timedout"})
      BY DEF FailuresCounted
    <2>1. junit.failures = With({"failed"}) /\ junit.errors = With(ErrorStates)
      BY DEF IInv, Reporting, GenerateJUnitReport
    <2>2. {"failed"} \cap ErrorStates = {} /\ {"failed"} \cup ErrorStates = Failing \ {"timedout"}
      BY DEF ErrorStates, Failing
    <2>3. QED
      BY <2>1, <2>2, WithAddsUp
  <1>2. QED
    BY Inductive, <1>1, PTL

\* The columns of the report add up to the number of its tests, but for the specs
\* that passed or ran out of the time of the suite.
THEOREM ColumnsAddUp == Spec => []ReportAddsUp
  <1>1. IInv => ReportAddsUp
    <2> SUFFICES ASSUME IInv, junit.written
                 PROVE  junit.tests = junit.disabled + junit.skipped + junit.errors
                                      + junit.failures + With({"passed", "timedout"})
      BY DEF ReportAddsUp
    <2>1. /\ junit.tests = With(Reported) /\ junit.disabled = With({"pending"})
          /\ junit.skipped = With({"skipped"}) /\ junit.errors = With(ErrorStates)
          /\ junit.failures = With({"failed"})
      BY DEF IInv, Reporting, GenerateJUnitReport
    <2>2. With({"running"}) = 0
      <3>1. \A s \in Specs : state[s] # "running"
        BY SpecsAssumption DEF IInv, Reporting, SuiteOver, TypeOK
      <3>2. {s \in Specs : state[s] \in {"running"}} = {}
        BY <3>1
      <3>3. QED
        BY <3>2, FS_EmptySet DEF With
    <2> DEFINE A == {"pending"} \cup {"skipped"}
               B == A \cup ErrorStates
               C == B \cup {"failed"}
               D == C \cup {"passed", "timedout"}
    <2>3. With({"pending"}) + With({"skipped"}) = With(A)
      BY WithAddsUp
    <2>4. With(A) + With(ErrorStates) = With(B)
      BY WithAddsUp DEF ErrorStates
    <2>5. With(B) + With({"failed"}) = With(C)
      BY WithAddsUp DEF ErrorStates
    <2>6. With(C) + With({"passed", "timedout"}) = With(D)
      BY WithAddsUp DEF ErrorStates
    <2>7. With(D) + With({"running"}) = With(Reported)
      <3>1. D \cap {"running"} = {} /\ D \cup {"running"} = Reported
        BY DEF ErrorStates, Reported, SpecStates, Failing
      <3>2. QED
        BY <3>1, WithAddsUp
    <2>8. QED
      BY <2>1, <2>2, <2>3, <2>4, <2>5, <2>6, <2>7, WithIsNatural
  <1>2. QED
    BY Inductive, <1>1, PTL

\* What the finding about the report comes down to: of all ways a run can fail, only
\* a failure of BeforeSuite (reporter.go:89) and the timeout of the suite
\* (reporter.go:107-146) can leave a report without a failure or an error.
THEOREM LossesAreExplained == Spec => []OnlySetupAndTimeoutsAreLost
  <1>1. Init => TimedOutInv
    BY DEF Init, TimedOutInv
  <1>2. IInv /\ TimedOutInv => OnlySetupAndTimeoutsAreLost
    <2> SUFFICES ASSUME IInv, TimedOutInv, junit.written, stop # "timeout",
                        NEW s \in Specs, state[s] \in Failing
                 PROVE  junit.failures + junit.errors > 0
      BY DEF OnlySetupAndTimeoutsAreLost, FailureReachesReport
    <2>1. junit.failures = With({"failed"}) /\ junit.errors = With(ErrorStates)
      BY DEF IInv, Reporting, GenerateJUnitReport
    <2>2. {"failed"} \cap ErrorStates = {} /\ state[s] \in {"failed"} \cup ErrorStates
      BY DEF TimedOutInv, ErrorStates, Failing
    <2>3. With({"failed"}) + With(ErrorStates) = With({"failed"} \cup ErrorStates)
      BY <2>2, WithAddsUp
    <2>4. With({"failed"} \cup ErrorStates) # 0
      BY <2>2, CountedSpec
    <2>5. QED
      BY <2>1, <2>3, <2>4, WithIsNatural
  <1>3. QED
    BY <1>1, <1>2, TimedOutStep, Inductive, PTL DEF Spec

\* What the finding about parallel processes comes down to: a run on one process, as
\* e2e-go/README.md:42 starts the create specs, has its clients and configuration in
\* every spec, for any number of specs; only the other processes ever lack them.
THEOREM SerialRunsAreInitialised ==
  ASSUME Procs = {1}
  PROVE  Spec => []RunsInitialised
  <1>1. Init => InitialisedInv
    BY DEF Init, InitialisedInv
  <1>2. IInv /\ InitialisedInv => RunsInitialised
    <2> SUFFICES ASSUME IInv, InitialisedInv, runner[1] # NoSpec PROVE 1 \in initialised
      BY DEF RunsInitialised
    <2>1. runner[1] \in Specs /\ state[runner[1]] = "running"
      BY ProcsAssumption DEF IInv, TypeOK
    <2>2. beforeSuite = "passed"
      BY <2>1 DEF IInv, NothingBefore
    <2>3. QED
      BY <2>2 DEF InitialisedInv
  <1>3. QED
    BY <1>1, <1>2, InitialisedStep, Inductive, PTL DEF Spec

-----------------------------------------------------------------------------
(* What ginkgo still has to do                                             *)

\* What becomes of the number of specs in states A when the state of one changes.
LEMMA StateMoves ==
  ASSUME NEW f \in [Specs -> SpecStates], NEW s \in Specs, NEW to \in SpecStates, NEW A
  PROVE  LET before == Cardinality({r \in Specs : f[r] \in A})
             after == Cardinality({r \in Specs : [f EXCEPT ![s] = to][r] \in A})
         IN  /\ before \in Nat /\ after \in Nat
             /\ f[s] \in A /\ to \notin A => after = before - 1
             /\ f[s] \notin A /\ to \in A => after = before + 1
             /\ f[s] \notin A /\ to \notin A => after = before
  <1> DEFINE S == {r \in Specs : f[r] \in A}
             T == {r \in Specs : [f EXCEPT ![s] = to][r] \in A}
  <1>1. IsFiniteSet(S) /\ IsFiniteSet(T)
    BY SpecsAssumption, FS_Subset
  <1>2. Cardinality(S) \in Nat /\ Cardinality(T) \in Nat
    BY <1>1, FS_CardinalityType
  <1>3. ASSUME f[s] \in A, to \notin A PROVE Cardinality(T) = Cardinality(S) - 1
    <2>1. T = S \ {s} /\ s \in S
      BY <1>3
    <2>2. QED
      BY <1>1, <2>1, FS_RemoveElement
  <1>4. ASSUME f[s] \notin A, to \in A PROVE Cardinality(T) = Cardinality(S) + 1
    <2>1. T = S \cup {s} /\ s \notin S
      BY <1>4
    <2>2. QED
      BY <1>1, <2>1, FS_AddElement
  <1>5. ASSUME f[s] \notin A, to \notin A PROVE Cardinality(T) = Cardinality(S)
    <2>1. T = S
      BY <1>5
    <2>2. QED
      BY <2>1
  <1>6. QED
    BY <1>2, <1>3, <1>4, <1>5

\* With, of a step that changes the state of one spec.
LEMMA WithMoves ==
  ASSUME TypeOK, NEW s \in Specs, NEW to \in SpecStates, state' = [state EXCEPT ![s] = to], NEW A
  PROVE  /\ With(A) \in Nat /\ With(A)' \in Nat
         /\ state[s] \in A /\ to \notin A => With(A)' = With(A) - 1
         /\ state[s] \notin A /\ to \in A => With(A)' = With(A) + 1
         /\ state[s] \notin A /\ to \notin A => With(A)' = With(A)
  BY StateMoves DEF TypeOK, With

\* What ginkgo still has to do: the rest of BeforeSuite and its result, the start and
\* the end of each spec, and the report.
StepsAhead ==
    (IF beforeSuite = "running" THEN Len(BeforeSuite) + 2 - at ELSE 0)
    + 2 * With({"waiting"}) + With({"running"}) + (IF over THEN 0 ELSE 1)

\* The suite does nothing twice: no spec runs again that has ended or was skipped,
\* and there is one report, after the last of them.
StepsRunOut ==
    [][IF GinkgoStep THEN StepsAhead' \in 0 .. (StepsAhead - 1) ELSE StepsAhead' = StepsAhead]_vars

\* The two things the measure counts.
SetupAhead == IF beforeSuite = "running" THEN Len(BeforeSuite) + 2 - at ELSE 0
SpecsAhead == 2 * With({"waiting"}) + With({"running"})

LEMMA AheadType == TypeOK => SetupAhead \in Nat /\ SpecsAhead \in Nat
  <1>1. TypeOK => SetupAhead \in Nat
    BY StepsOfBeforeSuite DEF TypeOK, SetupAhead
  <1>2. With({"waiting"}) \in Nat /\ With({"running"}) \in Nat
    BY WithIsNatural
  <1>3. QED
    BY <1>1, <1>2 DEF SpecsAhead

\* A step of BeforeSuite is one less to do, and starts no spec.
LEMMA SetupStep ==
  ASSUME TypeOK,
         \/ BeforeSuiteFails \/ LoadOptions \/ CreateOIDCProviderSecret \/ BeforeSuitePasses
         \/ \E i \in DOMAIN BeforeSuite : BeforeSuiteStep(BeforeSuite[i])
  PROVE  SetupAhead' \in 0 .. (SetupAhead - 1) /\ SpecsAhead' = SpecsAhead /\ over' = over
  <1>1. /\ beforeSuite = "running" /\ state' = state /\ over' = over
        /\ \/ beforeSuite' \in {"failed", "passed"}
           \/ beforeSuite' = "running" /\ at \in DOMAIN BeforeSuite /\ at' = at + 1
    BY DEF BeforeSuiteFails, LoadOptions, CreateOIDCProviderSecret, BeforeSuitePasses,
         BeforeSuiteStep, InBeforeSuite, specVars, reportVars
  <1>2. SetupAhead' \in 0 .. (SetupAhead - 1)
    BY <1>1, StepsOfBeforeSuite DEF SetupAhead, TypeOK
  <1>3. SpecsAhead' = SpecsAhead
    BY <1>1 DEF SpecsAhead, With
  <1>4. QED
    BY <1>1, <1>2, <1>3

\* A spec that starts or ends, and the skip of those that wait, leave less to do.
LEMMA SpecsStep ==
  ASSUME TypeOK,
         \/ \E p \in Procs : EndSpec(p) \/ \E s \in Specs : StartSpec(p, s)
         \/ SkipRest
  PROVE  SpecsAhead' \in 0 .. (SpecsAhead - 1) /\ SetupAhead' = SetupAhead /\ over' = over
  <1>1. SetupAhead' = SetupAhead /\ over' = over
    BY DEF EndSpec, StartSpec, SkipRest, SetupAhead, reportVars
  <1>2. ASSUME NEW p \in Procs, NEW s \in Specs, StartSpec(p, s)
        PROVE  SpecsAhead' \in 0 .. (SpecsAhead - 1)
    <2>1. state' = [state EXCEPT ![s] = "running"] /\ state[s] = "waiting" /\ "running" \in SpecStates
      BY <1>2 DEF StartSpec, SpecStates
    <2>2. /\ With({"waiting"}) \in Nat /\ With({"running"}) \in Nat /\ With({"waiting"})' \in Nat
          /\ With({"waiting"})' = With({"waiting"}) - 1
          /\ With({"running"})' = With({"running"}) + 1
      BY <2>1, WithMoves
    <2>3. QED
      BY <2>2 DEF SpecsAhead
  <1>3. ASSUME NEW p \in Procs, EndSpec(p) PROVE SpecsAhead' \in 0 .. (SpecsAhead - 1)
    <2>1. PICK outcome \in SpecStates \ {"waiting", "running"} :
              state' = [state EXCEPT ![runner[p]] = outcome]
      BY <1>3 DEF EndSpec, Outcomes, SpecStates, Failing
    <2>2. runner[p] \in Specs /\ state[runner[p]] = "running"
      BY <1>3 DEF EndSpec, TypeOK
    <2>3. /\ With({"waiting"}) \in Nat /\ With({"running"}) \in Nat /\ With({"running"})' \in Nat
          /\ With({"waiting"})' = With({"waiting"})
          /\ With({"running"})' = With({"running"}) - 1
      BY <2>1, <2>2, WithMoves
    <2>4. QED
      BY <2>3 DEF SpecsAhead
  <1>4. ASSUME SkipRest PROVE SpecsAhead' \in 0 .. (SpecsAhead - 1)
    <2>1. PICK s \in Specs : state[s] = "waiting"
      BY <1>4 DEF SkipRest
    <2>2. state' = [t \in Specs |-> IF state[t] = "waiting" THEN "skipped" ELSE state[t]]
      BY <1>4 DEF SkipRest
    <2>3. With({"running"})' = With({"running"})
      <3>1. {t \in Specs : state'[t] \in {"running"}} = {t \in Specs : state[t] \in {"running"}}
        BY <2>2
      <3>2. QED
        BY <3>1 DEF With
    <2>4. With({"waiting"})' = 0
      <3>1. {t \in Specs : state'[t] \in {"waiting"}} = {}
        BY <2>2
      <3>2. QED
        BY <3>1, FS_EmptySet DEF With
    <2>5. With({"waiting"}) # 0
      <3>1. IsFiniteSet({t \in Specs : state[t] \in {"waiting"}})
        BY SpecsAssumption, FS_Subset
      <3>2. s \in {t \in Specs : state[t] \in {"waiting"}}
        BY <2>1
      <3>3. QED
        BY <3>1, <3>2, FS_EmptySet DEF With
    <2>6. With({"waiting"}) \in Nat /\ With({"running"}) \in Nat
      BY WithIsNatural
    <2>7. QED
      BY <2>3, <2>4, <2>5, <2>6 DEF SpecsAhead
  <1>5. QED
    BY <1>1, <1>2, <1>3, <1>4

\* However many specs and processes there are, and whenever a timeout or a signal
\* comes: the suite takes a bounded number of steps.  No spec runs twice, and the
\* report is written once.
THEOREM SuiteStepsRunOut == Spec => StepsRunOut
  <1>1. ASSUME IInv, GinkgoStep PROVE StepsAhead' \in 0 .. (StepsAhead - 1)
    <2>1. TypeOK /\ SetupAhead \in Nat /\ SpecsAhead \in Nat /\ over \in BOOLEAN
      BY <1>1, AheadType DEF IInv, TypeOK
    <2>2. /\ StepsAhead = SetupAhead + SpecsAhead + (IF over THEN 0 ELSE 1)
          /\ StepsAhead' = SetupAhead' + SpecsAhead' + (IF over' THEN 0 ELSE 1)
      <3>1. With({"waiting"}) \in Nat /\ With({"running"}) \in Nat
        BY WithIsNatural
      <3>2. With({"waiting"})' \in Nat /\ With({"running"})' \in Nat
        <4>1. state' \in [Specs -> SpecStates]
          BY <1>1, TypeStep DEF IInv, Next, TypeOK
        <4>2. \A A : IsFiniteSet({s \in Specs : state'[s] \in A})
          BY SpecsAssumption, FS_Subset
        <4>3. QED
          BY <4>2, FS_CardinalityType DEF With
      <3>3. SetupAhead \in Nat /\ SetupAhead' \in Int
        BY <1>1, <2>1, TypeStep, StepsOfBeforeSuite DEF IInv, Next, TypeOK, SetupAhead
      <3>4. QED
        BY <3>1, <3>2, <3>3 DEF StepsAhead, SetupAhead, SpecsAhead
    <2> DEFINE report == IF over THEN 0 ELSE 1
    <2>3. report \in 0 .. 1
      BY <2>1
    <2>4. CASE SetupAhead' \in 0 .. (SetupAhead - 1) /\ SpecsAhead' = SpecsAhead /\ over' = over
      <3>1. PICK less \in 0 .. (SetupAhead - 1) : SetupAhead' = less
        BY <2>4
      <3>2. /\ StepsAhead = SetupAhead + SpecsAhead + report
            /\ StepsAhead' = less + SpecsAhead + report
        BY <2>1, <2>2, <2>4, <3>1
      <3>3. SetupAhead \in Nat /\ SpecsAhead \in Nat
        BY <2>1
      <3> HIDE DEF report
      <3>4. QED
        BY <2>3, <3>2, <3>3
    <2>5. CASE SpecsAhead' \in 0 .. (SpecsAhead - 1) /\ SetupAhead' = SetupAhead /\ over' = over
      <3>1. PICK less \in 0 .. (SpecsAhead - 1) : SpecsAhead' = less
        BY <2>5
      <3>2. /\ StepsAhead = SpecsAhead + SetupAhead + report
            /\ StepsAhead' = less + SetupAhead + report
        BY <2>1, <2>2, <2>5, <3>1
      <3>3. SetupAhead \in Nat /\ SpecsAhead \in Nat
        BY <2>1
      <3> HIDE DEF report
      <3>4. QED
        BY <2>3, <3>2, <3>3
    <2>6. CASE ReportAfterSuite
      <3>1. SetupAhead' = SetupAhead /\ SpecsAhead' = SpecsAhead /\ ~over /\ over'
        BY <2>6 DEF ReportAfterSuite, SetupAhead, SpecsAhead, With, specVars
      <3>2. QED
        BY <2>1, <2>2, <3>1
    <2>7. QED
      BY <1>1, <2>1, <2>4, <2>5, <2>6, SetupStep, SpecsStep DEF GinkgoStep
  <1>2. ASSUME Next, ~GinkgoStep PROVE StepsAhead' = StepsAhead
    <2>1. UNCHANGED <<at, beforeSuite, state, over>>
      BY <1>2 DEF Next, SuiteInterrupted, HubChanges, vars, specVars, reportVars
    <2>2. QED
      BY <2>1 DEF StepsAhead, With
  <1>3. IInv /\ [Next]_vars =>
            [IF GinkgoStep THEN StepsAhead' \in 0 .. (StepsAhead - 1)
                           ELSE StepsAhead' = StepsAhead]_vars
    BY <1>1, <1>2
  <1>4. QED
    BY Inductive, <1>3, PTL DEF Spec, StepsRunOut
=================================================================================
