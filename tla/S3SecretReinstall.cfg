SPECIFICATION FairSpec
CONSTANTS
    PodNames = {1, 2, 3}
    MaxTime = 1
    MaxWrites = 1
INVARIANT TypeOK
INVARIANT NoLostUpdate
INVARIANT PassMeansRestored
INVARIANT NewInstallUnlessPodMissed
PROPERTY ImplementsContract
PROPERTY SpecConcludes
