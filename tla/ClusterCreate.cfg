SPECIFICATION FairSpec
CONSTANTS
    Platforms = {"aws", "kubevirt"}
    AcmManagedClusterAddOns <- mcAcmAddOns
    MceManagedClusterAddOns <- mcMceAddOns
INVARIANT TypeOK
INVARIANT AwsLeavesNoCLI
INVARIANT PrehooksBeforeProvisioning
INVARIANT AwsPassMeansHooksSucceeded
INVARIANT PanicIsOfOwnCuration
INVARIANT PassMeansAddOnsSeen
INVARIANT PosthookMissIsStaleRead
PROPERTY ImplementsContract
PROPERTY SpecConcludes
