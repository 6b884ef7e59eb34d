\* Two levels of tables with two entries each.
SPECIFICATION Spec
CONSTANTS
    Levels = 2
    VPNShift = 1
    Tables = {0, 1}
    Configs <- MCConfigs
    MaxTLB = 2
INVARIANTS
    MappingOwned
    FenceRespected
    AllowedNow
