CONSTANTS
    Regs = {"f0", "f1"}
    Configs <- MCConfigs
    Programs <- MCPrograms
    FSVals <- MCFSVals
    MisaVals <- MCMisaVals
    MaxBlocks = 2
SPECIFICATION Spec
INVARIANTS
    RoundingCorrect
    EnabledRespected
    BoxRespected
    FSDirty
    ControlWordCurrent
