CONSTANTS
    F32 <- MCF32
    F64 <- MCF64
    IntGuard = 2
    IntBits = 9
    V32 <- MCV32
    V64 <- MCV64
    C32 <- MCC32
    C64 <- MCC64
    Fma32 <- MCFma32
    Fma64 <- MCFma64
    I32 <- MCI32
    I64 <- MCI64
    U32 <- MCU32
    U64 <- MCU64
SPECIFICATION Spec
INVARIANTS
    AddSubCorrect
    MulDivSqrtCorrect
    FusedCorrect
    ConvertCorrect
    MinMaxSignCorrect
