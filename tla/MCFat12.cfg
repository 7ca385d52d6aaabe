SPECIFICATION Spec
CONSTANTS
    LastCluster = 5
    RootSlots = 3
    SlotsPerCluster = 3
    ShortNames = {"l~1"}
    LongNames = {"long"}
    Aliases <- NumberedAliases
    Checksum <- AliasesCollide
    Blocks = {"x", "y"}
    Contents <- EmptyOrTwo
    MaxFailures = 0
INVARIANTS
    SoundVolume
    NothingLeaks
    NamesSound
