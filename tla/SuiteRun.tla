-------------------------------- MODULE SuiteRun --------------------------------
(***************************************************************************)
(* A run of the suite by ginkgo: one or more parallel processes, the       *)
(* SynchronizedBeforeSuite, the selected specs, a timeout or a signal, and *)
(* the JUnit report at the end.  Package variables exist once per process. *)
(***************************************************************************)
EXTENDS Naturals, Sequences, FiniteSets, Options

CONSTANTS
    Procs,      \* parallel processes; ginkgo calls the first one 1
    Specs,      \* the specs the label filter selects
    LinkSpecs,  \* those of hcp_common_cli_route_test.go
    NoSpec,
    Inputs      \* what a run may be started with

ASSUME ProcsAssumption == 1 \in Procs
ASSUME SpecsAssumption ==
    IsFiniteSet(Specs) /\ LinkSpecs \subseteq Specs /\ NoSpec \notin Specs

\* The options set in the environment, where an options file was named, the
\* readable options files, and JUNIT_REPORT_FILE.
ASSUME InputsAssumption ==
    \A i \in Inputs :
        /\ i.env \subseteq InFile \cup TowerOptions \cup Required \cup Defaulted
        /\ i.given \subseteq {"flag", "env"}
        /\ DOMAIN i.files \subseteq Places
        /\ \A place \in DOMAIN i.files : i.files[place] \subseteq InFile
        /\ i.reportFile \in {"unset", "writable", "unwritable"}

\* Mutant: the secret is created before the options are loaded.
BeforeSuiteSecretFirst == <<"clients", "oidcSecret", "options", "mceNamespace", "hcpVersion",
    "operator", "addonManager", "addonAvailable", "cliDownload", "config">>
\* What the first function of SynchronizedBeforeSuite does, in this order.
BeforeSuite == <<"clients", "options", "mceNamespace", "hcpVersion", "oidcSecret",
    "operator", "addonManager", "addonAvailable", "cliDownload", "config">>
\* The parts of the hub it waits for, and those it announces to check.
Awaited == {"operator", "addonManager", "addonAvailable"}
Parts == Awaited \cup {"externalDNS"}
\* The options of config, curatorEnabled and fipsEnabled.
ConfigOptions == (ClusterOptions \ {"ClusterName"}) \cup {"Namespace", "PullSecret", "AWSCreds",
    "AWSSecretCreds", "CuratorEnabled", "FIPSEnabled"}

\* The OIDC provider secret, by the sources of its access key; an earlier run,
\* or somebody else, may have created it.
NoSecret == <<>>
OthersSecret == <<"other", "other">>
Credentials == {"env", "file", "empty"} \X {"env", "file", "empty"}

VARIABLES
    inputs,      \* what this run was started with
    testOptions, \* TestOptions of process 1
    at,          \* index in BeforeSuite of the next step
    beforeSuite, \* "running", "passed" or "failed"
    initialised, \* processes whose clients and config are set
    seenHealthy, \* history: parts of the hub seen healthy by BeforeSuite
    state,       \* types.SpecState of each spec
    runner,      \* the spec each process runs
    stop,        \* why ginkgo starts no further spec
    over,        \* ReportAfterSuite has ended
    junit,       \* the report file
    healthy,     \* parts of the hub that are healthy now
    oidcSecret   \* the OIDC provider secret

specVars == <<state, runner, stop>>
reportVars == <<over, junit>>
hubVars == <<healthy, oidcSecret>>
vars == <<inputs, testOptions, at, beforeSuite, initialised, seenHealthy, specVars, reportVars, hubVars>>

Failing == {"failed", "panicked", "interrupted", "aborted", "timedout"}
SpecStates == {"waiting", "running", "passed", "skipped", "pending"} \cup Failing
NoReport == [written |-> FALSE]
Counts == [written : {TRUE}, tests : Nat, disabled : Nat, skipped : Nat, errors : Nat, failures : Nat]

TypeOK ==
    /\ inputs \in Inputs /\ testOptions \subseteq InFile
    /\ at \in 1..Len(BeforeSuite) + 1
    /\ beforeSuite \in {"running", "passed", "failed"}
    /\ initialised \subseteq Procs /\ seenHealthy \subseteq Parts
    /\ state \in [Specs -> SpecStates]
    /\ runner \in [Procs -> Specs \cup {NoSpec}]
    /\ \A s \in Specs : state[s] = "running" <=> \E p \in Procs : runner[p] = s
    /\ \A p, q \in Procs : runner[p] = runner[q] => p = q \/ runner[p] = NoSpec
    /\ stop \in {"no", "timeout", "signal"}
    /\ over \in BOOLEAN /\ junit \in {NoReport} \cup Counts
    /\ healthy \subseteq Parts /\ oidcSecret \in {NoSecret, OthersSecret} \cup Credentials

Init ==
    /\ inputs \in Inputs /\ testOptions = {}
    /\ at = 1 /\ beforeSuite = "running" /\ initialised = {} /\ seenHealthy = {}
    /\ state = [s \in Specs |-> "waiting"] /\ runner = [p \in Procs |-> NoSpec]
    /\ stop = "no" /\ over = FALSE /\ junit = NoReport
    /\ healthy \in SUBSET Parts /\ oidcSecret \in {NoSecret, OthersSecret}

-----------------------------------------------------------------------------
(* SynchronizedBeforeSuite: the first function runs on process 1 only, the *)
(* second one, for every process, is empty.                                *)

InBeforeSuite(step) ==
    beforeSuite = "running" /\ at \in DOMAIN BeforeSuite /\ BeforeSuite[at] = step

\* Mutant: the add-on is looked at but not waited for.
StepDoneUnlessAddOn(step) ==
    /\ step \in Awaited \ {"addonAvailable"} => step \in healthy
    /\ step = "options" => OptionsFile(inputs.given) \in DOMAIN inputs.files
\* When a step can end well.  IsHypershiftOperatorHealthy looks at the operator's
\* Deployment only: of the Parts, external-dns is none of Awaited.
StepDone(step) ==
    /\ step \in Awaited => step \in healthy
    /\ step = "options" => OptionsFile(inputs.given) \in DOMAIN inputs.files
    /\ step = "config" => \A o \in ConfigOptions : Lookup(o, "aws", inputs.env, testOptions) # "error"

\* A call returns an error, or a wait times out; reading config makes no call.
BeforeSuiteFails ==
    /\ beforeSuite = "running" /\ at \in DOMAIN BeforeSuite
    /\ BeforeSuite[at] = "config" => ~StepDone("config")
    /\ beforeSuite' = "failed"
    /\ UNCHANGED <<inputs, testOptions, at, initialised, seenHealthy, specVars, reportVars, hubVars>>

BeforeSuiteStep(step) ==
    /\ InBeforeSuite(step) /\ step \notin {"options", "oidcSecret"} /\ StepDone(step)
    /\ at' = at + 1
    /\ seenHealthy' = seenHealthy \cup (healthy \cap {step})
    /\ UNCHANGED <<inputs, testOptions, beforeSuite, initialised, specVars, reportVars, hubVars>>

LoadOptions ==
    /\ InBeforeSuite("options") /\ StepDone("options")
    /\ testOptions' = inputs.files[OptionsFile(inputs.given)] /\ at' = at + 1
    /\ UNCHANGED <<inputs, beforeSuite, initialised, seenHealthy, specVars, reportVars, hubVars>>

\* An error AlreadyExists is accepted.
CreateOIDCProviderSecret ==
    /\ InBeforeSuite("oidcSecret")
    /\ oidcSecret' = IF oidcSecret = NoSecret THEN S3Creds(inputs.env, testOptions) ELSE oidcSecret
    /\ at' = at + 1
    /\ UNCHANGED <<inputs, testOptions, beforeSuite, initialised, seenHealthy, specVars, reportVars, healthy>>

BeforeSuitePasses ==
    /\ beforeSuite = "running" /\ at > Len(BeforeSuite)
    /\ beforeSuite' = "passed" /\ initialised' = {1}
    /\ UNCHANGED <<inputs, testOptions, at, seenHealthy, specVars, reportVars, hubVars>>

-----------------------------------------------------------------------------
(* The specs                                                               *)

StartSpec(p, s) ==
    /\ beforeSuite = "passed" /\ stop = "no" /\ runner[p] = NoSpec /\ state[s] = "waiting"
    /\ runner' = [runner EXCEPT ![p] = s] /\ state' = [state EXCEPT ![s] = "running"]
    /\ UNCHANGED <<inputs, testOptions, at, beforeSuite, initialised, seenHealthy, stop, reportVars, hubVars>>

\* Where the package variables are not set, the BeforeEach of the CLI link specs
\* skips ("perhaps console is not enabled?").  Most other specs call methods of nil
\* clients and panic, unless an option or the CLI fails them before they get there;
\* the must-gather spec needs no client and may pass.
Outcomes(p, s) ==
    IF p \in initialised THEN {"passed", "failed", "panicked", "skipped"}
    ELSE IF s \in LinkSpecs THEN {"skipped"}
    ELSE {"passed", "failed", "panicked"}

\* When the suite times out or is interrupted, so are the running specs.
EndSpec(p) ==
    /\ runner[p] # NoSpec
    /\ \E outcome \in Outcomes(p, runner[p])
              \cup (IF stop = "timeout" THEN {"timedout"} ELSE {})
              \cup (IF stop = "signal" THEN {"interrupted"} ELSE {}) :
           state' = [state EXCEPT ![runner[p]] = outcome]
    /\ runner' = [runner EXCEPT ![p] = NoSpec]
    /\ UNCHANGED <<inputs, testOptions, at, beforeSuite, initialised, seenHealthy, stop, reportVars, hubVars>>

SuiteInterrupted(why) ==
    /\ stop = "no" /\ beforeSuite = "passed" /\ ~over
    /\ stop' = why
    /\ UNCHANGED <<inputs, testOptions, at, beforeSuite, initialised, seenHealthy, state, runner, reportVars, hubVars>>

\* Mutant: the specs that run are skipped, too.
SkipAll ==
    /\ stop # "no" /\ \E s \in Specs : state[s] = "waiting"
    /\ state' = [s \in Specs |-> IF state[s] \in {"waiting", "running"} THEN "skipped" ELSE state[s]]
    /\ UNCHANGED <<inputs, testOptions, at, beforeSuite, initialised, seenHealthy, runner, stop, reportVars, hubVars>>

SkipRest ==
    /\ stop # "no" /\ \E s \in Specs : state[s] = "waiting"
    /\ state' = [s \in Specs |-> IF state[s] = "waiting" THEN "skipped" ELSE state[s]]
    /\ UNCHANGED <<inputs, testOptions, at, beforeSuite, initialised, seenHealthy, runner, stop, reportVars, hubVars>>

-----------------------------------------------------------------------------
(* ReportAfterSuite                                                        *)

With(states) == Cardinality({s \in Specs : state[s] \in states})

\* Mutant: an interrupted spec is not an error.
ErrorsWithoutInterrupts == {"aborted", "panicked"}
\* The cases of GenerateJUnitReport.  SpecStateTimedout is none of them.
ErrorStates == {"interrupted", "aborted", "panicked"}
\* Mutant: a skipped spec is no test.
ReportedWithoutSkipped == SpecStates \ {"waiting", "skipped"}
\* A report has an entry for each spec that came to an end; the entry of a suite
\* node has no text and is passed over.
Reported == SpecStates \ {"waiting"}

GenerateJUnitReport ==
    [written |-> TRUE, tests |-> With(Reported), disabled |-> With({"pending"}),
     skipped |-> With({"skipped"}), failures |-> With({"failed"}), errors |-> With(ErrorStates)]

\* Mutant: specs that BeforeSuite has kept from running are waited for.
SuiteOverAfterSpecs ==
    /\ \A p \in Procs : runner[p] = NoSpec
    /\ \A s \in Specs : state[s] # "waiting"

SuiteOver ==
    /\ \A p \in Procs : runner[p] = NoSpec
    /\ beforeSuite = "failed" \/ \A s \in Specs : state[s] # "waiting"

\* Without JUNIT_REPORT_FILE nothing is written.  When the file cannot be created
\* the error is only printed, and an error of a later write is dropped.
ReportAfterSuite ==
    /\ SuiteOver /\ beforeSuite # "running" /\ ~over
    /\ over' = TRUE
    /\ junit' = IF inputs.reportFile = "writable" THEN GenerateJUnitReport ELSE junit
    /\ UNCHANGED <<inputs, testOptions, at, beforeSuite, initialised, seenHealthy, specVars, hubVars>>

\* A part of the hub becomes healthy or unhealthy.
HubChanges(part) ==
    /\ beforeSuite = "running"
    /\ healthy' = IF part \in healthy THEN healthy \ {part} ELSE healthy \cup {part}
    /\ UNCHANGED <<inputs, testOptions, at, beforeSuite, initialised, seenHealthy, specVars, reportVars, oidcSecret>>

GinkgoStep ==
    \/ BeforeSuiteFails \/ LoadOptions \/ CreateOIDCProviderSecret \/ BeforeSuitePasses
    \/ \E i \in DOMAIN BeforeSuite : BeforeSuiteStep(BeforeSuite[i])
    \/ \E p \in Procs : EndSpec(p) \/ \E s \in Specs : StartSpec(p, s)
    \/ SkipRest \/ ReportAfterSuite

Next ==
    \/ GinkgoStep
    \/ \E why \in {"timeout", "signal"} : SuiteInterrupted(why)
    \/ \E part \in Parts : HubChanges(part)
    \/ over /\ UNCHANGED vars

Spec == Init /\ [][Next]_vars
\* Ginkgo runs, and every spec ends by its own timeouts (see the other modules).
FairSpec == Spec /\ WF_vars(GinkgoStep)

-----------------------------------------------------------------------------
(* Properties                                                              *)

\* No spec is started before the S3 secret is there and every part of the hub
\* that BeforeSuite announces to check was seen healthy, but for external-dns, which
\* is announced like the others and never looked at.
OnlyExternalDNSUnchecked ==
    (\E s \in Specs : state[s] # "waiting") =>
        seenHealthy = Parts \ {"externalDNS"} /\ oidcSecret # NoSecret

\* A secret this run has created carries one access key: the one of the
\* environment if that has both parts of it, else the one of the options file
\* the run was told to use, and never one from a file it was not told to use.
SecretAsConfigured ==
    oidcSecret \in Credentials =>
        IF S3Options \subseteq inputs.env THEN oidcSecret = <<"env", "env">>
        ELSE LET file == inputs.files[OptionsFile(inputs.given)]
                 part(o) == IF o \in file THEN "file" ELSE "empty"
             IN oidcSecret = <<part("S3AccessKeyID"), part("S3AccessSecret")>>

\* A spec that fails, panics or is interrupted is counted as such in the report,
\* whatever the other processes do.
FailuresCounted ==
    junit.written => junit.failures + junit.errors = With(Failing \ {"timedout"})

\* The columns of the report account for all specs but those that passed or ran
\* out of the suite's time.
ReportAddsUp ==
    junit.written =>
        junit.tests = junit.disabled + junit.skipped + junit.errors + junit.failures
                      + With({"passed", "timedout"})

\* A run that did not succeed is a report with a failure or an error.
FailureReachesReport ==
    junit.written /\ (beforeSuite = "failed" \/ \E s \in Specs : state[s] \in Failing) =>
        junit.failures + junit.errors > 0

\* It is, unless BeforeSuite failed or the time of the suite ran out: a spec that a
\* signal interrupted, panicked or failed is never lost.
OnlySetupAndTimeoutsAreLost ==
    beforeSuite = "passed" /\ stop # "timeout" => FailureReachesReport

\* A process that runs a spec has the clients and the configuration.
RunsInitialised == \A p \in Procs : runner[p] # NoSpec => p \in initialised

\* The suite ends, and with a report if there is a file to write it to.
SuiteReports == <>(over /\ (inputs.reportFile = "writable" => junit.written))
=================================================================================
