---------------------------- MODULE SoftFloatVMI ----------------------------
(***************************************************************************)
(* The emulated floating point operations of riscvSoftFloat.c that the     *)
(* simulator calls in place of the host's when rounding to nearest, ties   *)
(* away, may be needed: each sets the rounding mode and clears the flags,  *)
(* computes, and adds its flags to the caller's.  Checked against          *)
(* FloatSpec.                                                              *)
(***************************************************************************)
EXTENDS FloatSpec, RiscvFPValues, Sequences

CONSTANTS V32, V64,       \* operands of the two operand operations
          C32, C64,       \* operands of the roots and the conversions
          Fma32, Fma64,   \* operands of the fused operations
          I32, I64,       \* signed integer operands
          U32, U64        \* unsigned integer operands

\* Operands are words of the formats and of the integer types.
ASSUME OperandAssumption ==
    /\ V32 \cup C32 \cup Fma32 \subseteq 0 .. 2^(F32.E + F32.F + 1) - 1
    /\ V64 \cup C64 \cup Fma64 \subseteq 0 .. 2^(F64.E + F64.F + 1) - 1
    /\ I32 \subseteq -(2^(W32 - 1)) .. 2^(W32 - 1) - 1 /\ U32 \subseteq 0 .. 2^W32 - 1
    /\ I64 \subseteq -(2^(W64 - 1)) .. 2^(W64 - 1) - 1 /\ U64 \subseteq 0 .. 2^W64 - 1

VARIABLES frm,            \* fcsr.frm
          fpActiveRM,     \* riscv->fpActiveRM
          op, args,       \* the operation performed, and its operands
          result,         \* what it returned
          setFlags        \* the flags it added

vars == <<frm, fpActiveRM, op, args, result, setFlags>>

mapRM == <<"RTE", "RTZ", "RDN", "RUP", "RMM">>

\* beforeFPInt: the mode SoftFloat is given.
beforeFPInt(rm) == IF rm = "CURRENT" THEN mapRM[frm + 1] ELSE rm

beforeFP == beforeFPInt(fpActiveRM)

mapRC == [NEAREST |-> "RTE", ZERO |-> "RTZ", NEG_INF |-> "RDN",
          POS_INF |-> "RUP", AWAY |-> "RMM", CURRENT |-> "CURRENT"]

beforeFPCVT(rc) == beforeFPInt(mapRC[rc])

\* The control a conversion is given: its own mode, or the current one.
RC == {"AWAY", "CURRENT"}

\* Flags are cleared before the operation and added to the caller's after.
afterFP(r) == setFlags' = setFlags \cup r.fl

Call(name, in, r) ==
    /\ op' = name
    /\ args' = in
    /\ result' = r.v
    /\ afterFP(r)
    /\ UNCHANGED <<frm, fpActiveRM>>

riscvFADD32 == op = "none" /\ \E a, b \in V32 :
    Call("FADD32", <<a, b>>, f32_add(a, b, beforeFP))

riscvFADD64 == op = "none" /\ \E a, b \in V64 :
    Call("FADD64", <<a, b>>, f64_add(a, b, beforeFP))

riscvFSUB32 == op = "none" /\ \E a, b \in V32 :
    Call("FSUB32", <<a, b>>, f32_sub(a, b, beforeFP))

riscvFSUB64 == op = "none" /\ \E a, b \in V64 :
    Call("FSUB64", <<a, b>>, f64_sub(a, b, beforeFP))

riscvFMUL32 == op = "none" /\ \E a, b \in V32 :
    Call("FMUL32", <<a, b>>, f32_mul(a, b, beforeFP))

riscvFMUL64 == op = "none" /\ \E a, b \in V64 :
    Call("FMUL64", <<a, b>>, f64_mul(a, b, beforeFP))

riscvFDIV32 == op = "none" /\ \E a, b \in V32 :
    Call("FDIV32", <<a, b>>, f32_div(a, b, beforeFP))

riscvFDIV64 == op = "none" /\ \E a, b \in V64 :
    Call("FDIV64", <<a, b>>, f64_div(a, b, beforeFP))

riscvFSQRT32 == op = "none" /\ \E a \in C32, err \in 0 .. 2 :
    Call("FSQRT32", <<a>>, f32_sqrt(a, err, beforeFP))

riscvFSQRT64 == op = "none" /\ \E a \in C64, err \in 0 .. 2 :
    Call("FSQRT64", <<a>>, f64_sqrt(a, err, beforeFP))

\* "x ^ F32_SIGN", "x ^ F64_SIGN".
Flip(f, x) == packToUI(f, 1 - signUI(f, x), expUI(f, x), fracUI(f, x))

riscvFMADD32 == op = "none" /\ \E a, b, c \in Fma32 :
    Call("FMADD32", <<a, b, c>>,
         f32_mulAdd(a, b, c, beforeFP))

riscvFMADD64 == op = "none" /\ \E a, b, c \in Fma64 :
    Call("FMADD64", <<a, b, c>>,
         f64_mulAdd(a, b, c, beforeFP))

riscvFMSUB32 == op = "none" /\ \E a, b, c \in Fma32 :
    Call("FMSUB32", <<a, b, c>>,
         f32_mulAdd(a, b, Flip(F32, c), beforeFP))

riscvFMSUB64 == op = "none" /\ \E a, b, c \in Fma64 :
    Call("FMSUB64", <<a, b, c>>,
         f64_mulAdd(a, b, Flip(F64, c), beforeFP))

riscvFNMADD32 == op = "none" /\ \E a, b, c \in Fma32 :
    Call("FNMADD32", <<a, b, c>>,
         f32_mulAdd(Flip(F32, a), b, Flip(F32, c), beforeFP))

riscvFNMADD64 == op = "none" /\ \E a, b, c \in Fma64 :
    Call("FNMADD64", <<a, b, c>>,
         f64_mulAdd(Flip(F64, a), b, Flip(F64, c), beforeFP))

riscvFNMSUB32 == op = "none" /\ \E a, b, c \in Fma32 :
    Call("FNMSUB32", <<a, b, c>>,
         f32_mulAdd(Flip(F32, a), b, c, beforeFP))

riscvFNMSUB64 == op = "none" /\ \E a, b, c \in Fma64 :
    Call("FNMSUB64", <<a, b, c>>,
         f64_mulAdd(Flip(F64, a), b, c, beforeFP))

riscvFCVTF32F64 == op = "none" /\ \E a \in C64, rc \in RC :
    Call("F32F64", <<a, rc>>, f64_to_f32(a, beforeFPCVT(rc)))

riscvFCVTF32I32 == op = "none" /\ \E a \in I32, rc \in RC :
    Call("F32I32", <<a, rc>>, i32_to_f32(a, beforeFPCVT(rc)))

riscvFCVTF32I64 == op = "none" /\ \E a \in I64, rc \in RC :
    Call("F32I64", <<a, rc>>, i64_to_f32(a, beforeFPCVT(rc)))

riscvFCVTF32U32 == op = "none" /\ \E a \in U32, rc \in RC :
    Call("F32U32", <<a, rc>>, ui32_to_f32(a, beforeFPCVT(rc)))

riscvFCVTF32U64 == op = "none" /\ \E a \in U64, rc \in RC :
    Call("F32U64", <<a, rc>>, ui64_to_f32(a, beforeFPCVT(rc)))

riscvFCVTF64I64 == op = "none" /\ \E a \in I64, rc \in RC :
    Call("F64I64", <<a, rc>>, i64_to_f64(a, beforeFPCVT(rc)))

riscvFCVTF64U64 == op = "none" /\ \E a \in U64, rc \in RC :
    Call("F64U64", <<a, rc>>, ui64_to_f64(a, beforeFPCVT(rc)))

riscvFCVTI32F32 == op = "none" /\ \E a \in C32, rc \in RC :
    Call("I32F32", <<a, rc>>, f32_to_i32(a, beforeFPCVT(rc)))

riscvFCVTI64F32 == op = "none" /\ \E a \in C32, rc \in RC :
    Call("I64F32", <<a, rc>>, f32_to_i64(a, beforeFPCVT(rc)))

riscvFCVTU32F32 == op = "none" /\ \E a \in C32, rc \in RC :
    Call("U32F32", <<a, rc>>, f32_to_ui32(a, beforeFPCVT(rc)))

riscvFCVTU64F32 == op = "none" /\ \E a \in C32, rc \in RC :
    Call("U64F32", <<a, rc>>, f32_to_ui64(a, beforeFPCVT(rc)))

riscvFCVTI32F64 == op = "none" /\ \E a \in C64, rc \in RC :
    Call("I32F64", <<a, rc>>, f64_to_i32(a, beforeFPCVT(rc)))

riscvFCVTI64F64 == op = "none" /\ \E a \in C64, rc \in RC :
    Call("I64F64", <<a, rc>>, f64_to_i64(a, beforeFPCVT(rc)))

riscvFCVTU32F64 == op = "none" /\ \E a \in C64, rc \in RC :
    Call("U32F64", <<a, rc>>, f64_to_ui32(a, beforeFPCVT(rc)))

riscvFCVTU64F64 == op = "none" /\ \E a \in C64, rc \in RC :
    Call("U64F64", <<a, rc>>, f64_to_ui64(a, beforeFPCVT(rc)))

\* The operations the host performs, with the handlers that correct it.
emitFMinMax == op = "none" /\ \E version \in {"2.2", "2.3"} :
    \/ \E a, b \in V32 : \/ Call("FMIN32", <<a, b, version>>, FMin(F32, version, a, b))
                         \/ Call("FMAX32", <<a, b, version>>, FMax(F32, version, a, b))
    \/ \E a, b \in V64 : \/ Call("FMIN64", <<a, b, version>>, FMin(F64, version, a, b))
                         \/ Call("FMAX64", <<a, b, version>>, FMax(F64, version, a, b))

\* A conversion the host finds it cannot represent raises invalid and takes
\* the handler's value; rounding is toward zero here, the mode of a cast.
OutOfIntRange(f, w, signed, a) == "invalid" \in ToIntSpec(f, w, signed, a, "RTZ").fl

hostConvert == op = "none" /\ \E signed \in BOOLEAN :
    \/ \E a \in C32 :
        \/ /\ OutOfIntRange(F32, IntBits, signed, a)
           /\ Call("CVT32F32", <<a, signed>>,
                   [v |-> handleIndeterminate32(F32, signed, a), fl |-> {"invalid"}])
        \/ /\ OutOfIntRange(F32, W64, signed, a)
           /\ Call("CVT64F32", <<a, signed>>,
                   [v |-> handleIndeterminate64(F32, signed, a), fl |-> {"invalid"}])
    \/ \E a \in C64 :
        \/ /\ OutOfIntRange(F64, IntBits, signed, a)
           /\ Call("CVT32F64", <<a, signed>>,
                   [v |-> handleIndeterminate32(F64, signed, a), fl |-> {"invalid"}])
        \/ /\ OutOfIntRange(F64, W64, signed, a)
           /\ Call("CVT64F64", <<a, signed>>,
                   [v |-> handleIndeterminate64(F64, signed, a), fl |-> {"invalid"}])

\* fsgnj, fsgnjn, fsgnjx: the two attributes of the instruction.
emitFSgn == op = "none" /\ \E at \in {<<TRUE, FALSE>>, <<TRUE, TRUE>>, <<FALSE, FALSE>>} :
    \/ \E a, b \in V32 : Call("FSGN32", <<a, b, at>>, Exact(FSgn(F32, at[1], at[2], a, b)))
    \/ \E a, b \in V64 : Call("FSGN64", <<a, b, at>>, Exact(FSgn(F64, at[1], at[2], a, b)))

emitFClass == op = "none" /\
    \/ \E a \in C32 : Call("FCLASS32", <<a>>, Exact(doFClass(F32, a)))
    \/ \E a \in C64 : Call("FCLASS64", <<a>>, Exact(doFClass(F64, a)))

\* Each call starts from clear flags: the simulator merges them into fflags.
Return ==
    /\ op # "none"
    /\ op' = "none" /\ args' = <<>> /\ result' = 0 /\ setFlags' = {}
    /\ UNCHANGED <<frm, fpActiveRM>>

\* An instruction rounds by its own field, RMM here, or by frm.
Init ==
    /\ \/ fpActiveRM = "CURRENT" /\ frm \in 0 .. 4
       \/ fpActiveRM = "RMM" /\ frm = 0
    /\ op = "none" /\ args = <<>> /\ result = 0 /\ setFlags = {}

Next ==
    \/ riscvFADD32 \/ riscvFADD64
    \/ riscvFSUB32 \/ riscvFSUB64
    \/ riscvFMUL32 \/ riscvFMUL64
    \/ riscvFDIV32 \/ riscvFDIV64
    \/ riscvFSQRT32 \/ riscvFSQRT64
    \/ riscvFMADD32 \/ riscvFMADD64
    \/ riscvFMSUB32 \/ riscvFMSUB64
    \/ riscvFNMADD32 \/ riscvFNMADD64
    \/ riscvFNMSUB32 \/ riscvFNMSUB64
    \/ riscvFCVTF32F64
    \/ riscvFCVTF32I32
    \/ riscvFCVTF32I64
    \/ riscvFCVTF32U32
    \/ riscvFCVTF32U64
    \/ riscvFCVTF64I64
    \/ riscvFCVTF64U64
    \/ riscvFCVTI32F32
    \/ riscvFCVTI64F32
    \/ riscvFCVTU32F32
    \/ riscvFCVTU64F32
    \/ riscvFCVTI32F64
    \/ riscvFCVTI64F64
    \/ riscvFCVTU32F64
    \/ riscvFCVTU64F64
    \/ emitFMinMax
    \/ hostConvert
    \/ emitFSgn
    \/ emitFClass
    \/ Return

Spec == Init /\ [][Next]_vars

(***************************************************************************)
(* Properties: the value and the flags are those of the exact result       *)
(* rounded once in the mode in force.                                      *)
(***************************************************************************)

Got == [v |-> result, fl |-> setFlags]

\* The mode the instruction is required to round in.
RequiredRM == IF fpActiveRM = "CURRENT" THEN mapRM[frm + 1] ELSE fpActiveRM

CvtRM == IF args[2] = "AWAY" THEN "RMM" ELSE mapRM[frm + 1]

\* softfloat_addMags*, softfloat_subMags*: the sum and the difference of any
\* two values, subnormals, cancellation and overflow included, are correctly
\* rounded and flagged.
AddSubCorrect ==
    LET a == args[1]  b == args[2]
    IN  CASE op = "FADD32" -> Got = AddSpec(F32, a, b, RequiredRM)
          [] op = "FADD64" -> Got = AddSpec(F64, a, b, RequiredRM)
          [] op = "FSUB32" -> Got = SubSpec(F32, a, b, RequiredRM)
          [] op = "FSUB64" -> Got = SubSpec(F64, a, b, RequiredRM)
          [] OTHER -> TRUE

\* f*_mul, f*_div, f*_sqrt: products, quotients and roots are correctly
\* rounded and flagged, in these widths with any reciprocal square root that
\* its contract allows.
MulDivSqrtCorrect ==
    LET a == args[1]  b == args[2]
    IN  CASE op = "FMUL32" -> Got = MulSpec(F32, a, b, RequiredRM)
          [] op = "FMUL64" -> Got = MulSpec(F64, a, b, RequiredRM)
          [] op = "FDIV32" -> Got = DivSpec(F32, a, b, RequiredRM)
          [] op = "FDIV64" -> Got = DivSpec(F64, a, b, RequiredRM)
          [] op = "FSQRT32" -> Got = SqrtSpec(F32, a, RequiredRM)
          [] op = "FSQRT64" -> Got = SqrtSpec(F64, a, RequiredRM)
          [] OTHER -> TRUE

\* softfloat_mulAdd* and the operand negations of its eight callers: a*b+c,
\* a*b-c, -(a*b)-c and -(a*b)+c with one rounding, massive cancellation
\* included.
FusedCorrect ==
    LET f == IF op \in {"FMADD32", "FMSUB32", "FNMADD32", "FNMSUB32"} THEN F32 ELSE F64
        a == args[1]  b == args[2]  c == args[3]
        n(x) == Negated(f, x)
    IN  CASE op \in {"FMADD32", "FMADD64"} -> Got = FmaSpec(f, a, b, c, RequiredRM)
          [] op \in {"FMSUB32", "FMSUB64"} -> Got = FmaSpec(f, a, b, n(c), RequiredRM)
          [] op \in {"FNMADD32", "FNMADD64"} ->
                Got = FmaSpec(f, n(a), b, n(c), RequiredRM)
          [] op \in {"FNMSUB32", "FNMSUB64"} -> Got = FmaSpec(f, n(a), b, c, RequiredRM)
          [] OTHER -> TRUE

\* The fifteen conversions: rounded in the conversion's own mode, out of
\* range and NaN operands saturated with invalid alone; and a conversion that
\* the host performs, corrected by handleIndeterminate*, yields the integer
\* and the flag of the emulated one.
ConvertCorrect ==
    LET a == args[1]
    IN  CASE op = "F32F64" -> Got = NarrowSpec(a, CvtRM)
          [] op \in {"F32I32", "F32I64", "F32U32", "F32U64"} ->
                Got = FromIntSpec(F32, a, CvtRM)
          [] op \in {"F64I64", "F64U64"} -> Got = FromIntSpec(F64, a, CvtRM)
          [] op = "I32F32" -> Got = ToIntSpec(F32, IntBits, TRUE, a, CvtRM)
          [] op = "I64F32" -> Got = ToIntSpec(F32, W64, TRUE, a, CvtRM)
          [] op = "U32F32" -> Got = ToIntSpec(F32, IntBits, FALSE, a, CvtRM)
          [] op = "U64F32" -> Got = ToIntSpec(F32, W64, FALSE, a, CvtRM)
          [] op = "I32F64" -> Got = ToIntSpec(F64, IntBits, TRUE, a, CvtRM)
          [] op = "I64F64" -> Got = ToIntSpec(F64, W64, TRUE, a, CvtRM)
          [] op = "U32F64" -> Got = ToIntSpec(F64, IntBits, FALSE, a, CvtRM)
          [] op = "U64F64" -> Got = ToIntSpec(F64, W64, FALSE, a, CvtRM)
          [] op = "CVT32F32" -> Got = ToIntSpec(F32, IntBits, args[2], a, "RTZ")
          [] op = "CVT64F32" -> Got = ToIntSpec(F32, W64, args[2], a, "RTZ")
          [] op = "CVT32F64" -> Got = ToIntSpec(F64, IntBits, args[2], a, "RTZ")
          [] op = "CVT64F64" -> Got = ToIntSpec(F64, W64, args[2], a, "RTZ")
          [] OTHER -> TRUE

\* a <= b as numbers, zeros equal.
AtMost(f, a, b) ==
    IF IsInf(f, a) THEN signUI(f, a) = 1 \/ a = b
    ELSE IF IsInf(f, b) THEN signUI(f, b) = 0
    ELSE IF isZero(f, a) /\ isZero(f, b) THEN TRUE
    ELSE IF signUI(f, a) # signUI(f, b) THEN signUI(f, a) = 1
    ELSE IF signUI(f, a) = 0 THEN Larger(MagOf(f, b), MagOf(f, a))
    ELSE Larger(MagOf(f, a), MagOf(f, b))

\* r is the smaller of a and b, a NaN only when the version says so.
MinSpec(f, a, b, ver, r) ==
    LET signal == isSigNaN(f, a) \/ isSigNaN(f, b)
        nums   == {x \in {a, b} : ~IsNaN(f, x)}
    IN  /\ r.fl = IF signal THEN {"invalid"} ELSE {}
        /\ IF nums = {} \/ (signal /\ ver = "2.2") THEN r.v = defaultNaN(f)
           ELSE /\ r.v \in nums
                /\ \A x \in nums : AtMost(f, r.v, x)
                /\ (ver = "2.3" /\ \A x \in {a, b} : isZero(f, x))
                      => (signUI(f, r.v) = 1 <=> \E x \in {a, b} : signUI(f, x) = 1)

\* emitFSgn and doFClass*: sign injection moves a number between a class and
\* its mirror image by the other operand's sign, and leaves a NaN in its
\* class.
SignMovesClass(f) ==
    LET a    == args[1]  b == args[2]
        cls  == doFClass(f, a)
        neg  == signUI(f, b) = 1
        flip == CASE args[3] = <<TRUE, FALSE>> -> neg # (signUI(f, a) = 1)
                  [] args[3] = <<TRUE, TRUE>>  -> neg = (signUI(f, a) = 1)
                  [] OTHER -> neg
    IN  doFClass(f, result) = IF cls > 7 \/ ~flip THEN cls ELSE 7 - cls

\* doFMin*, doFMax*: with the host's result corrected, FMIN and FMAX return
\* the smaller and the larger number of each version, treat NaNs as that
\* version does, and from 2.3 order the two zeros; and the sign injections
\* agree with the classification.
MinMaxSignCorrect ==
    LET f == IF op \in {"FMIN32", "FMAX32", "FSGN32"} THEN F32 ELSE F64
        a == args[1]  b == args[2]
    IN  CASE op \in {"FMIN32", "FMIN64"} -> MinSpec(f, a, b, args[3], Got)
          [] op \in {"FMAX32", "FMAX64"} ->
                LET r == [Got EXCEPT !.v = IF IsNaN(f, Got.v) THEN @ ELSE Negated(f, @)]
                    n(x) == IF IsNaN(f, x) THEN x ELSE Negated(f, x)
                IN  MinSpec(f, n(a), n(b), args[3], r)
          [] op \in {"FSGN32", "FSGN64"} -> SignMovesClass(f)
          [] OTHER -> TRUE

=============================================================================
