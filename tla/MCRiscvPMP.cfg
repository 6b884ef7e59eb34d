\* Software that leaves the bases of unlocked TOR entries alone.
SPECIFICATION Spec
CONSTANTS
    N = 2
    RWX = {"R"}
    Configs <- RunConfigs
INVARIANTS
    NoStalePrivilege
    AccessDecision
PROPERTY
    LockedUntilReset
