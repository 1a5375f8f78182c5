SPECIFICATION FairSpec
CONSTANTS
    Platforms = {"aws", "kubevirt"}
    AcmManagedClusterAddOns <- mcAcmAddOns
    MceManagedClusterAddOns <- mcMceAddOns
INVARIANT PosthookWaitSeesTheJob
