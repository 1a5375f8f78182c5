SPECIFICATION FairSpec
CONSTANTS
    Procs = {1, 2}
    Specs = {s1, s2, l1}
    LinkSpecs = {l1}
    s1 = s1
    s2 = s2
    l1 = l1
    NoSpec = NoSpec
    Inputs <- MCInputs
INVARIANT TypeOK
INVARIANT OnlyExternalDNSUnchecked
INVARIANT SecretAsConfigured
INVARIANT FailuresCounted
INVARIANT ReportAddsUp
INVARIANT OnlySetupAndTimeoutsAreLost
PROPERTY SuiteReports
