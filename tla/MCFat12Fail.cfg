SPECIFICATION Spec
CONSTANTS
    LastCluster = 4
    RootSlots = 2
    SlotsPerCluster = 3
    ShortNames = {"b", "l~1"}
    LongNames = {"long"}
    Aliases <- OneAlias
    Checksum <- AliasesCollide
    Blocks = {"x", "y"}
    Contents <- OneOrTwo
    MaxFailures = 1
INVARIANTS
    OthersIntact
    SoundVolume
CHECK_DEADLOCK FALSE
