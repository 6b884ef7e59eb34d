\* All modes, a User interrupt that can be delegated twice and a Machine one.
SPECIFICATION LiveSpec
CONSTANTS
    HasS = TRUE
    HasU = TRUE
    HasN = TRUE
    Interrupts = {0, 3}
    Exceptions = {2}
    StatusVals <- InterruptStatusVals
    ASIDs = {0}
    SatpVals <- NoSatpVals
    HasA = FALSE
    DebugWrites = FALSE
INVARIANTS
    NoLostInterrupt
    WFIEndsWhenPending
    HaltReasonsConsistent
    MipComposed
    InterruptTargetSound
PROPERTIES
    InterruptsServed
