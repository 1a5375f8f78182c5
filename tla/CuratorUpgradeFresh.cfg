SPECIFICATION FairSpec
CONSTANTS
    fast = fast
    stable = stable
    v1 = v1
    v2 = v2
    v22 = v22
    np1 = np1
    np2 = np2
    NoValue = NoValue
    Channels <- mcChannels
    Versions <- mcThreeVersions
    NodePools <- mcNodePools
    Contains <- mcThreeContains
    TestChannel = fast
    DesiredUpdate = v2
    UpgradeType = "NodePools"
    Selected <- mcNodePool
    ReplacesSpec = TRUE
    EarlierCurator = FALSE
INVARIANT OwnJobAccepted
INVARIANT NoFalseAlarm
INVARIANT ControlPlaneUntouched
INVARIANT PassedOnDesiredVersion
