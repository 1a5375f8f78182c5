SPECIFICATION FairSpec
CONSTANTS
    a1 = a1
    a2 = a2
    k1 = k1
    NoValue = NoValue
    Clusters = {a1, a2, k1}
    PlatformOf <- mcPlatformOf
INVARIANT TypeOK
INVARIANT DestroysOnlyItsClusters
INVARIANT LeavesNoCLI
INVARIANT PassMeansDetached
INVARIANT CuratedPassMeansDestroyed
INVARIANT PosthookOfThisCuration
PROPERTY ImplementsContract
PROPERTY SpecConcludes
