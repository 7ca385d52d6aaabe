SPECIFICATION SpecIsr
CONSTANTS
    LastCluster = 4
    RootSlots = 3
    SlotsPerCluster = 3
    ShortNames = {"b"}
    LongNames = {"long"}
    Aliases <- NumberedAliases
    Checksum <- AliasesCollide
    Blocks = {"x", "y"}
    Contents <- OneOrTwo
    MaxFailures = 0
INVARIANTS
    NoCrossLink
