CONSTANTS
    Regs = {"f0", "f1"}
    Configs <- RewriteConfigs
    Programs <- RewriteFS
    FSVals <- MCFSVals
    MisaVals <- NoMisa
    MaxBlocks = 2
SPECIFICATION Spec
INVARIANTS
    FSDirty
