SPECIFICATION Spec
CHECK_DEADLOCK FALSE
CONSTANTS
    LFSRBits = 2
    Registers = {"sp", "a0"}
    Words = {0, 1}
    Images <- Loaded
INVARIANTS
    ResultsWrittenBack
