\* Software moves the lower bound of a TOR entry.
SPECIFICATION Spec
CONSTANTS
    N = 2
    RWX = {"R"}
    Configs <- TORBaseConfigs
INVARIANT
    NoStalePrivilege
