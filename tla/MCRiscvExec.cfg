SPECIFICATION Spec
CHECK_DEADLOCK FALSE
CONSTANTS
    ByteBits = 2
    Cells = 16
    Fetches <- Firsts
    Seconds <- SecondHalves
    Runs <- AllRuns
    CSRVals <- SomeCSRVals
    PCs = {8}
INVARIANTS
    DecodeUnambiguous
    DecodesAsISA
    CompressedExpands
    ExecutesAsISA
    CSRAccessAsISA
