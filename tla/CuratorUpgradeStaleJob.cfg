SPECIFICATION FairSpec
CONSTANTS
    fast = fast
    stable = stable
    v1 = v1
    v2 = v2
    v22 = v22
    np1 = np1
    np2 = np2
    NoValue = NoValue
    Channels <- mcChannels
    Versions <- mcVersions
    NodePools <- mcOnePool
    Contains <- mcContains
    TestChannel = fast
    DesiredUpdate = v22
    UpgradeType = "ControlPlane"
    Selected <- mcSuite
    ReplacesSpec = TRUE
    EarlierCurator = FALSE
INVARIANT OwnJobAccepted
