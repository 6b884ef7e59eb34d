--------------------------- MODULE RiscvFPValues ---------------------------
(***************************************************************************)
(* The value handlers of riscvMorph.c that correct what the host's         *)
(* floating point unit computes: FMIN and FMAX of both versions of the     *)
(* user specification, the integers returned for operands out of range,    *)
(* sign injection and classification.  Each stands for its 32-bit and its  *)
(* 64-bit copy; the format is a parameter.                                 *)
(***************************************************************************)
EXTENDS SoftFloat

isNaNorInf(f, v) == expUI(f, v) = ExpMax(f)

isNaN(f, v)    == isNaNorInf(f, v) /\ fracUI(f, v) # 0

isInf(f, v)    == isNaNorInf(f, v) /\ fracUI(f, v) = 0

isDenorm(f, v) == expUI(f, v) = 0 /\ fracUI(f, v) # 0

isZero(f, v)   == v % 2^(f.E + f.F) = 0

\* The quiet bit, the top bit of the fraction.
Quiet(f, v)    == fracUI(f, v) >= 2^(f.F - 1)

isQNaN(f, v)   == isNaN(f, v) /\ Quiet(f, v)

isSNaN(f, v)   == isNaN(f, v) /\ ~Quiet(f, v)

\* The integer for an operand no integer of that width represents.
handleIndeterminate(f, w, isSigned, v) ==
    IF signUI(f, v) = 1 /\ ~isNaN(f, v)
    THEN IF isSigned THEN -(2^(w - 1)) ELSE 0
    ELSE IF isSigned THEN 2^(w - 1) - 1 ELSE 2^w - 1

handleIndeterminate32(f, isSigned, v) == handleIndeterminate(f, IntBits, isSigned, v)

handleIndeterminate64(f, isSigned, v) == handleIndeterminate(f, W64, isSigned, v)

\* A result handler: the value, and the invalid flag for signaling operands.
doMinMax_2_2(f, native, a, b) ==
    CASE isSNaN(f, a) \/ isSNaN(f, b) -> Invalid(f)
      [] isQNaN(f, a) /\ isQNaN(f, b) -> Exact(defaultNaN(f))
      [] isQNaN(f, a) /\ ~isNaN(f, b) -> Exact(b)
      [] ~isNaN(f, a) /\ isQNaN(f, b) -> Exact(a)
      [] OTHER -> Exact(native)

doMinMax_2_3(f, native, a, b) ==
    [v  |-> CASE isNaN(f, a) /\ isNaN(f, b) -> defaultNaN(f)
              [] isNaN(f, a) /\ ~isNaN(f, b) -> b
              [] ~isNaN(f, a) /\ isNaN(f, b) -> a
              [] OTHER -> native,
     fl |-> IF isSNaN(f, a) \/ isSNaN(f, b) THEN {"invalid"} ELSE {}]

BothZero(f, a, b) == isZero(f, a) /\ isZero(f, b)

doFMin_2_2(f, native, a, b) ==
    IF BothZero(f, a, b) THEN Exact(b)
    ELSE IF isNaNorInf(f, native) THEN doMinMax_2_2(f, native, a, b)
    ELSE Exact(native)

doFMax_2_2(f, native, a, b) ==
    IF BothZero(f, a, b) THEN Exact(a)
    ELSE IF isNaNorInf(f, native) THEN doMinMax_2_2(f, native, a, b)
    ELSE Exact(native)

\* Mutant of doFMin_2_3: the zero returned is the second operand, as in 2.2.
FMinZeroAs_2_2(f, native, a, b) ==
    IF BothZero(f, a, b) THEN Exact(b)
    ELSE IF isNaNorInf(f, native) THEN doMinMax_2_3(f, native, a, b)
    ELSE Exact(native)

\* "a | b" and "a & b" of two zeros: the negative one, if any, and the
\* positive one, if any.
doFMin_2_3(f, native, a, b) ==
    IF BothZero(f, a, b) THEN Exact(IF a > b THEN a ELSE b)
    ELSE IF isNaNorInf(f, native) THEN doMinMax_2_3(f, native, a, b)
    ELSE Exact(native)

doFMax_2_3(f, native, a, b) ==
    IF BothZero(f, a, b) THEN Exact(IF a > b THEN b ELSE a)
    ELSE IF isNaNorInf(f, native) THEN doMinMax_2_3(f, native, a, b)
    ELSE Exact(native)

\* The host's minimum and maximum, before the handler: a NaN for a NaN.
Key(f, v) == IF signUI(f, v) = 1 THEN -(v % 2^(f.E + f.F)) ELSE v

HostMin(f, a, b) ==
    IF isNaN(f, a) \/ isNaN(f, b) THEN defaultNaN(f)
    ELSE IF Key(f, a) < Key(f, b) THEN a ELSE b

HostMax(f, a, b) ==
    IF isNaN(f, a) \/ isNaN(f, b) THEN defaultNaN(f)
    ELSE IF Key(f, a) > Key(f, b) THEN a ELSE b

\* getFPControl: the handler depends on the version of the specification.
FMin(f, version, a, b) ==
    IF version = "2.2" THEN doFMin_2_2(f, HostMin(f, a, b), a, b)
                       ELSE doFMin_2_3(f, HostMin(f, a, b), a, b)

FMax(f, version, a, b) ==
    IF version = "2.2" THEN doFMax_2_2(f, HostMax(f, a, b), a, b)
                       ELSE doFMax_2_3(f, HostMax(f, a, b), a, b)

\* fsgnj keeps fs1's magnitude, fsgnjx all of fs1; fs2's sign, negated for
\* fsgnjn, is then exclusive-ored in.
FSgn(f, clearFS1, negFS2, a, b) ==
    LET sign == 2^(f.E + f.F)
        tmp  == IF clearFS1 THEN a % sign ELSE a
        s    == IF negFS2 THEN 1 - signUI(f, b) ELSE signUI(f, b)
    IN  Xor(signUI(f, tmp), s) * sign + (tmp % sign)

RVFC == [NINF |-> 0, NNORM |-> 1, NDENORM |-> 2, NZERO |-> 3, PZERO |-> 4,
         PDENORM |-> 5, PNORM |-> 6, PINF |-> 7, SNAN |-> 8, QNAN |-> 9]

\* The number of the one class bit.
doFClass(f, v) ==
    LET neg == signUI(f, v) = 1
    IN  IF isSNaN(f, v) THEN RVFC.SNAN
        ELSE IF isQNaN(f, v) THEN RVFC.QNAN
        ELSE IF isInf(f, v) THEN IF neg THEN RVFC.NINF ELSE RVFC.PINF
        ELSE IF isDenorm(f, v) THEN IF neg THEN RVFC.NDENORM ELSE RVFC.PDENORM
        ELSE IF isZero(f, v) THEN IF neg THEN RVFC.NZERO ELSE RVFC.PZERO
        ELSE IF neg THEN RVFC.NNORM ELSE RVFC.PNORM

=============================================================================
