----------------------------- MODULE SoftFloat -----------------------------
(***************************************************************************)
(* The arithmetic of riscvSoftFloat.c, as built on a 64-bit host           *)
(* (SOFTFLOAT_FAST_INT64, SOFTFLOAT_FAST_DIV64TO32, INLINE_LEVEL 4,        *)
(* tininess detected after rounding).                                      *)
(*                                                                         *)
(* A value is its bit pattern, a natural number, as in the code.  A format *)
(* is a record of three widths: E exponent bits, F fraction bits and G     *)
(* guard bits; the code's working word for it has F + G + 2 bits:          *)
(*   float32_t is [E |-> 8, F |-> 23, G |-> 7], a word of 32 bits,         *)
(*   float64_t is [E |-> 11, F |-> 52, G |-> 10], a word of 64 bits.       *)
(* Every literal of the code is written as what it is in the format        *)
(* (0x7F is the bias, 0x00800000 is 2^F, 0x40000000 is 2^(F+G), 0x3F is    *)
(* 2^(G-1)-1 ...), so that TLC can check the same algorithms on narrow     *)
(* formats.  A result is [v |-> pattern, fl |-> set of raised flags].      *)
(***************************************************************************)
EXTENDS Integers, FiniteSets

CONSTANTS F32, F64,     \* the two formats
          IntGuard,     \* guard bits of the 32-bit integer roundings (12)
          IntBits       \* width of the 32-bit integer results (32)

RoundingModes == {"RTE", "RTZ", "RDN", "RUP", "RMM"}

Width(f)  == f.F + f.G + 2

ExpMax(f) == 2^f.E - 1

Bias(f)   == 2^(f.E - 1) - 1

Hidden(f) == 2^f.F

W32  == Width(F32)

W64  == Width(F64)

ASSUME FormatAssumption ==
    /\ \A f \in {F32, F64} : f.E \in Nat \ {0, 1} /\ f.F \in Nat /\ f.G \in Nat
    /\ W64 = 2 * W32                   \* two 32-bit words in a 64-bit word
    /\ F32.G >= 6 /\ F64.G >= 9        \* the roots and quotients need these
    /\ F32.F + F32.G < F64.F           \* f64_to_f32 drops bits
    /\ IntGuard \in 1 .. F32.F /\ IntBits + IntGuard <= F64.F

\* What the conversions need of the widths.
ASSUME ConversionAssumption ==
    /\ IntGuard >= 2                   \* a jammed bit is below the half
    /\ IntBits \in 1 .. W32            \* the result of a word
    /\ \A f \in {F32, F64} : W64 <= Bias(f)   \* every integer is in range
    /\ Bias(F32) + F32.F < Bias(F64)   \* F64's subnormals vanish in F32

\* The low bit set when b holds: "x | b".
Or1(x, b) == IF b /\ x % 2 = 0 THEN x + 1 ELSE x

Xor(s, t) == (s + t) % 2

signUI(f, ui) == ui \div 2^(f.E + f.F)

expUI(f, ui)  == (ui \div 2^f.F) % 2^f.E

fracUI(f, ui) == ui % 2^f.F

packToUI(f, sign, exp, sig) == sign * 2^(f.E + f.F) + exp * 2^f.F + sig

defaultNaN(f) == packToUI(f, 0, ExpMax(f), 2^(f.F - 1))

isSigNaN(f, ui) ==
    /\ expUI(f, ui) = ExpMax(f)
    /\ fracUI(f, ui) \in 1 .. 2^(f.F - 1) - 1

Exact(v)   == [v |-> v, fl |-> {}]

Invalid(f) == [v |-> defaultNaN(f), fl |-> {"invalid"}]

\* The combined NaN is always the default NaN; a signaling operand raises
\* invalid.
propagateNaN(f, uiA, uiB) ==
    [v |-> defaultNaN(f),
     fl |-> IF isSigNaN(f, uiA) \/ isSigNaN(f, uiB) THEN {"invalid"} ELSE {}]

softfloat_propagateNaNF32UI(uiA, uiB) == propagateNaN(F32, uiA, uiB)

softfloat_propagateNaNF64UI(uiA, uiB) == propagateNaN(F64, uiA, uiB)

(***************************************************************************)
(* Words.  The bits shifted out of a value are "jammed" into its low bit.  *)
(***************************************************************************)

\* The bits that "a << (-dist & (w-1))" keeps: all of them when dist is 0.
Dropped(a, dist) == IF dist = 0 THEN a ELSE a % 2^dist

shiftRightJam(w, a, dist) ==
    IF dist < w - 1 THEN Or1(a \div 2^dist, Dropped(a, dist) # 0)
                    ELSE IF a # 0 THEN 1 ELSE 0

softfloat_shiftRightJam32(a, dist) == shiftRightJam(W32, a, dist)

softfloat_shiftRightJam64(a, dist) == shiftRightJam(W64, a, dist)

softfloat_shortShiftRightJam64(a, dist) == Or1(a \div 2^dist, a % 2^dist # 0)

softfloat_shiftRightJam64Extra(a, dist) ==
    IF dist < W64
    THEN [v |-> a \div 2^dist,
          extra |-> IF dist = 0 THEN a ELSE (a % 2^dist) * 2^(W64 - dist)]
    ELSE [v |-> 0,
          extra |-> IF dist = W64 THEN a ELSE IF a # 0 THEN 1 ELSE 0]

countLeadingZeros(w, a) ==
    CHOOSE n \in 0 .. w : a < 2^(w - n) /\ (n = w \/ a >= 2^(w - n - 1))

softfloat_countLeadingZeros32(a) == countLeadingZeros(W32, a)

softfloat_countLeadingZeros64(a) == countLeadingZeros(W64, a)

Pair(v64, v0) == [v64 |-> v64, v0 |-> v0]

softfloat_add128(a, b) ==
    LET low == (a.v0 + b.v0) % 2^W64
    IN  Pair((a.v64 + b.v64 + (IF low < a.v0 THEN 1 ELSE 0)) % 2^W64, low)

\* Mutant of softfloat_sub128: no borrow from the high word.
Sub128NoBorrow(a, b) == Pair((a.v64 - b.v64) % 2^W64, (a.v0 - b.v0) % 2^W64)

softfloat_sub128(a, b) ==
    Pair((a.v64 - b.v64 - (IF a.v0 < b.v0 THEN 1 ELSE 0)) % 2^W64,
         (a.v0 - b.v0) % 2^W64)

softfloat_shortShiftLeft128(a, dist) ==
    IF dist = 0 THEN a    \* its only call with dist = 0 has v0 = 0
    ELSE Pair(((a.v64 % 2^(W64 - dist)) * 2^dist) + (a.v0 \div 2^(W64 - dist)),
              (a.v0 % 2^(W64 - dist)) * 2^dist)

softfloat_shortShiftRightJam128(a, dist) ==
    Pair(a.v64 \div 2^dist,
         Or1((a.v64 % 2^dist) * 2^(W64 - dist) + (a.v0 \div 2^dist),
             a.v0 % 2^dist # 0))

softfloat_shiftRightJam128(a, dist) ==
    IF dist < W64
    THEN Pair(a.v64 \div 2^dist,
              Or1((a.v64 % 2^dist) * 2^(W64 - dist) + (a.v0 \div 2^dist),
                  Dropped(a.v0, dist) # 0))
    ELSE LET d == dist % W64
         IN  Pair(0, IF dist < 2 * W64 - 1
                     THEN Or1(a.v64 \div 2^d, a.v64 % 2^d # 0 \/ a.v0 # 0)
                     ELSE IF a.v64 # 0 \/ a.v0 # 0 THEN 1 ELSE 0)

\* The product of two words from the products of their halves, with the two
\* carries the code derives from unsigned comparisons.
softfloat_mul64To128(a, b) ==
    LET half == 2^W32
        word == 2^W64
        low  == (a % half) * (b % half)
        mid1 == (a \div half) * (b % half)
        mid  == (mid1 + (a % half) * (b \div half)) % word
        top  == (a \div half) * (b \div half)
                  + (IF mid < mid1 THEN half ELSE 0) + (mid \div half)
        v0   == (low + (mid % half) * half) % word
    IN  Pair(top + (IF v0 < (mid % half) * half THEN 1 ELSE 0), v0)

(***************************************************************************)
(* Rounding and packing.                                                   *)
(***************************************************************************)

roundIncrement(f, sign, rm) ==
    IF rm \in {"RTE", "RMM"} THEN 2^(f.G - 1)
    ELSE IF rm = (IF sign = 1 THEN "RDN" ELSE "RUP") THEN 2^f.G - 1
    ELSE 0

\* "exp" is one less than the exponent field: the hidden bit of "sig" adds it
\* back.  Below exponent 0 the significand is denormalised first.
roundPack(f, sign, exp, sig, rm) ==
    LET inc  == roundIncrement(f, sign, rm)
        full == 2^(Width(f) - 1)
        tiny == exp < -1 \/ sig + inc < full
        s    == IF exp < 0 THEN shiftRightJam(Width(f), sig, -exp) ELSE sig
        bits == s % 2^f.G
        up   == (s + inc) \div 2^f.G
        r    == IF bits = 2^(f.G - 1) /\ rm = "RTE" THEN up - (up % 2) ELSE up
    IN  IF exp > ExpMax(f) - 2 \/ (exp = ExpMax(f) - 2 /\ sig + inc >= full)
        THEN [v |-> packToUI(f, sign, ExpMax(f), 0) - (IF inc = 0 THEN 1 ELSE 0),
              fl |-> {"overflow", "inexact"}]
        ELSE [v |-> packToUI(f, sign, IF exp < 0 \/ r = 0 THEN 0 ELSE exp, r),
              fl |-> {x \in {"underflow", "inexact"} :
                        /\ bits # 0
                        /\ x = "underflow" => exp < 0 /\ tiny}]

softfloat_roundPackToF32(sign, exp, sig, rm) == roundPack(F32, sign, exp, sig, rm)

softfloat_roundPackToF64(sign, exp, sig, rm) == roundPack(F64, sign, exp, sig, rm)

normRoundPack(f, sign, exp, sig, rm) ==
    LET shiftDist == countLeadingZeros(Width(f), sig) - 1
        e == exp - shiftDist
    IN  IF shiftDist >= f.G /\ e \in 0 .. ExpMax(f) - 3
        THEN Exact(packToUI(f, sign, IF sig # 0 THEN e ELSE 0,
                            sig * 2^(shiftDist - f.G)))
        ELSE roundPack(f, sign, e, sig * 2^shiftDist, rm)

softfloat_normRoundPackToF32(sign, exp, sig, rm) ==
    normRoundPack(F32, sign, exp, sig, rm)

softfloat_normRoundPackToF64(sign, exp, sig, rm) ==
    normRoundPack(F64, sign, exp, sig, rm)

normSubnormalSig(f, sig) ==
    LET shiftDist == countLeadingZeros(Width(f), sig) - (f.G + 1)
    IN  [exp |-> 1 - shiftDist, sig |-> sig * 2^shiftDist]

softfloat_normSubnormalF32Sig(sig) == normSubnormalSig(F32, sig)

softfloat_normSubnormalF64Sig(sig) == normSubnormalSig(F64, sig)

\* Exponent and significand, hidden bit included, of a finite nonzero value.
Unpacked(f, ui) ==
    IF expUI(f, ui) = 0 THEN normSubnormalSig(f, fracUI(f, ui))
    ELSE [exp |-> expUI(f, ui), sig |-> fracUI(f, ui) + Hidden(f)]

IsSpecial(f, ui) == expUI(f, ui) = ExpMax(f)

IsZero(f, ui)    == expUI(f, ui) = 0 /\ fracUI(f, ui) = 0

Infinity(f, sign) == packToUI(f, sign, ExpMax(f), 0)

ZeroOf(f, sign)   == packToUI(f, sign, 0, 0)

(***************************************************************************)
(* Addition and subtraction of magnitudes.                                 *)
(***************************************************************************)

\* Mutant of Aligned: a subnormal is not doubled.
AlignedNotDoubled(f, ui, shift) ==
    LET s == fracUI(f, ui) * 2^shift
    IN  IF expUI(f, ui) # 0 THEN s + 2^(f.F + shift) ELSE s

\* A significand scaled for addition: the hidden bit, or twice the fraction
\* of a subnormal.
Aligned(f, ui, shift) ==
    LET s == fracUI(f, ui) * 2^shift
    IN  IF expUI(f, ui) # 0 THEN s + 2^(f.F + shift) ELSE 2 * s

addMags(f, uiA, uiB, signZ, rm) ==
    LET expA == expUI(f, uiA)   sigA == fracUI(f, uiA)
        expB == expUI(f, uiB)   sigB == fracUI(f, uiB)
        d    == IF expA > expB THEN expA - expB ELSE expB - expA
        big  == IF expA > expB THEN uiA ELSE uiB
        low  == IF expA > expB THEN uiB ELSE uiA
        sigZ == Aligned(f, big, f.G - 1)
                  + shiftRightJam(Width(f), Aligned(f, low, f.G - 1), d)
    IN  IF d = 0
        THEN IF expA = 0 THEN Exact(uiA + sigB)
             ELSE IF expA = ExpMax(f)
             THEN IF sigA # 0 \/ sigB # 0 THEN propagateNaN(f, uiA, uiB)
                                          ELSE Exact(uiA)
             ELSE roundPack(f, signZ, expA,
                            (2 * Hidden(f) + sigA + sigB) * 2^(f.G - 1), rm)
        ELSE IF IsSpecial(f, big)
        THEN IF fracUI(f, big) # 0 THEN propagateNaN(f, uiA, uiB)
                                   ELSE Exact(Infinity(f, signZ))
        ELSE IF sigZ < 2^(f.F + f.G)
        THEN roundPack(f, signZ, expUI(f, big) - 1, 2 * sigZ, rm)
        ELSE roundPack(f, signZ, expUI(f, big), sigZ, rm)

\* F32 packs an even sum of equal exponents without rounding.
softfloat_addMagsF32(uiA, uiB, rm) ==
    LET e    == expUI(F32, uiA)
        sigZ == 2 * Hidden(F32) + fracUI(F32, uiA) + fracUI(F32, uiB)
    IN  IF /\ e = expUI(F32, uiB) /\ e \in 1 .. ExpMax(F32) - 2
           /\ sigZ % 2 = 0
        THEN Exact(packToUI(F32, signUI(F32, uiA), e, sigZ \div 2))
        ELSE addMags(F32, uiA, uiB, signUI(F32, uiA), rm)

softfloat_addMagsF64(uiA, uiB, signZ, rm) == addMags(F64, uiA, uiB, signZ, rm)

subMags(f, uiA, uiB, signA, rm) ==
    LET expA == expUI(f, uiA)   sigA == fracUI(f, uiA)
        expB == expUI(f, uiB)   sigB == fracUI(f, uiB)
        diff == IF sigA < sigB THEN sigB - sigA ELSE sigA - sigB
        exp  == IF expA # 0 THEN expA - 1 ELSE 0
        dist == countLeadingZeros(Width(f), diff) - (f.G + 1)
        s    == IF exp < dist THEN exp ELSE dist
        d    == IF expA > expB THEN expA - expB ELSE expB - expA
        big  == IF expA > expB THEN uiA ELSE uiB
        low  == IF expA > expB THEN uiB ELSE uiA
        sign == IF expA > expB \/ (d = 0 /\ sigA >= sigB) THEN signA
                                                         ELSE 1 - signA
    IN  IF d = 0
        THEN IF expA = ExpMax(f)
             THEN IF sigA # 0 \/ sigB # 0 THEN propagateNaN(f, uiA, uiB)
                                          ELSE Invalid(f)
             ELSE IF diff = 0 THEN Exact(ZeroOf(f, IF rm = "RDN" THEN 1 ELSE 0))
             ELSE Exact(packToUI(f, sign, exp - s, diff * 2^s))
        ELSE IF IsSpecial(f, big)
        THEN IF fracUI(f, big) # 0 THEN propagateNaN(f, uiA, uiB)
                                   ELSE Exact(Infinity(f, sign))
        ELSE normRoundPack(f, sign, expUI(f, big) - 1,
               Aligned(f, big, f.G)
                 - shiftRightJam(Width(f), Aligned(f, low, f.G), d), rm)

softfloat_subMagsF32(uiA, uiB, rm) ==
    subMags(F32, uiA, uiB, signUI(F32, uiA), rm)

softfloat_subMagsF64(uiA, uiB, signZ, rm) == subMags(F64, uiA, uiB, signZ, rm)

f32_add(a, b, rm) ==
    IF signUI(F32, a) # signUI(F32, b) THEN softfloat_subMagsF32(a, b, rm)
                                       ELSE softfloat_addMagsF32(a, b, rm)

f32_sub(a, b, rm) ==
    IF signUI(F32, a) # signUI(F32, b) THEN softfloat_addMagsF32(a, b, rm)
                                       ELSE softfloat_subMagsF32(a, b, rm)

f64_add(a, b, rm) ==
    IF signUI(F64, a) = signUI(F64, b)
    THEN softfloat_addMagsF64(a, b, signUI(F64, a), rm)
    ELSE softfloat_subMagsF64(a, b, signUI(F64, a), rm)

f64_sub(a, b, rm) ==
    IF signUI(F64, a) = signUI(F64, b)
    THEN softfloat_subMagsF64(a, b, signUI(F64, a), rm)
    ELSE softfloat_addMagsF64(a, b, signUI(F64, a), rm)

(***************************************************************************)
(* Multiplication.  Prod multiplies two aligned significands and jams the  *)
(* low word of the product.                                                *)
(***************************************************************************)

mul(f, Prod(_, _), uiA, uiB, rm) ==
    LET signZ == Xor(signUI(f, uiA), signUI(f, uiB))
        a     == Unpacked(f, uiA)
        b     == Unpacked(f, uiB)
        expZ  == a.exp + b.exp - Bias(f)
        sigZ  == Prod(a.sig * 2^f.G, b.sig * 2^(f.G + 1))
        inf(other) == IF IsZero(f, other) THEN Invalid(f)
                                          ELSE Exact(Infinity(f, signZ))
        nan(ui)    == IsSpecial(f, ui) /\ fracUI(f, ui) # 0
    IN  IF nan(uiA) \/ nan(uiB) THEN propagateNaN(f, uiA, uiB)
        ELSE IF IsSpecial(f, uiA) THEN inf(uiB)
        ELSE IF IsSpecial(f, uiB) THEN inf(uiA)
        ELSE IF IsZero(f, uiA) \/ IsZero(f, uiB) THEN Exact(ZeroOf(f, signZ))
        ELSE IF sigZ < 2^(f.F + f.G)
        THEN roundPack(f, signZ, expZ - 1, 2 * sigZ, rm)
        ELSE roundPack(f, signZ, expZ, sigZ, rm)

ProdF32(a, b) == softfloat_shortShiftRightJam64(a * b, W32)

ProdF64(a, b) == LET z == softfloat_mul64To128(a, b) IN Or1(z.v64, z.v0 # 0)

f32_mul(a, b, rm) == mul(F32, ProdF32, a, b, rm)

f64_mul(a, b, rm) == mul(F64, ProdF64, a, b, rm)

(***************************************************************************)
(* Division.  Quot divides two significands, the first no less than half   *)
(* and less than twice the second, into W-1 bits and a sticky bit.         *)
(***************************************************************************)

div(f, Quot(_, _), uiA, uiB, rm) ==
    LET signZ == Xor(signUI(f, uiA), signUI(f, uiB))
        a     == Unpacked(f, uiA)
        b     == Unpacked(f, uiB)
        less  == a.sig < b.sig
        nan(ui) == IsSpecial(f, ui) /\ fracUI(f, ui) # 0
    IN  IF nan(uiA) \/ nan(uiB) THEN propagateNaN(f, uiA, uiB)
        ELSE IF IsSpecial(f, uiA)
        THEN IF IsSpecial(f, uiB) THEN Invalid(f) ELSE Exact(Infinity(f, signZ))
        ELSE IF IsSpecial(f, uiB) THEN Exact(ZeroOf(f, signZ))
        ELSE IF IsZero(f, uiB)
        THEN IF IsZero(f, uiA) THEN Invalid(f)
             ELSE [v |-> Infinity(f, signZ), fl |-> {"infinite"}]
        ELSE IF IsZero(f, uiA) THEN Exact(ZeroOf(f, signZ))
        ELSE roundPack(f, signZ,
                       a.exp - b.exp + Bias(f) - 1 - (IF less THEN 1 ELSE 0),
                       Quot(IF less THEN 2 * a.sig ELSE a.sig, b.sig), rm)

QuotF32(sigA, sigB) ==
    LET sig64A == sigA * 2^(W32 - 2)
        sigZ   == sig64A \div sigB
    IN  IF sigZ % 2^(F32.G - 1) = 0 THEN Or1(sigZ, sigB * sigZ # sig64A) ELSE sigZ

f32_div(a, b, rm) == div(F32, QuotF32, a, b, rm)

softfloat_approxRecip32_1(a) == (2^(W64 - 1) - 1) \div a

\* Mutant of QuotF64: the second remainder is never examined.
QuotF64NoRemainder(sigA, sigB) ==
    LET hi    == (sigB * 2^(F64.G + 1)) \div 2^W32
        A     == sigA * 2^F64.G
        recip == softfloat_approxRecip32_1(hi) - 2
        z32   == ((A \div 2^W32) * recip) \div 2^W32
        rem   == ((A - 2 * z32 * hi) % 2^(W32 + 4)) * 2^(W32 - 4)
        q     == (((rem \div 2^W32) * recip) \div 2^W32) + 4
    IN  z32 * 2^W32 + q * 16

\* Two digits of W32 bits each from one approximate reciprocal; the second
\* remainder is only computed when the quotient is close to a multiple of
\* the rounding unit.
QuotF64(sigA, sigB) ==
    LET hi    == (sigB * 2^(F64.G + 1)) \div 2^W32
        lo    == (sigB * 2^(F64.G + 1)) % 2^W32
        A     == sigA * 2^F64.G
        recip == softfloat_approxRecip32_1(hi) - 2
        z32   == ((A \div 2^W32) * recip) \div 2^W32
        next(rem, digit) ==
            LET term == (2 * digit) % 2^W32
            IN  ((((rem - term * hi) % 2^(W32 + 4)) * 2^(W32 - 4))
                   - term * (lo \div 16)) % 2^W64
        rem1  == next(A, z32)
        q     == (((rem1 \div 2^W32) * recip) \div 2^W32) + 4
        sigZ  == z32 * 2^W32 + q * 16
        rem2  == next(rem1, q - (q % 8))
        base  == sigZ - (sigZ % 128)
    IN  IF sigZ % 2^(F64.G - 1) >= 4 * 16 THEN sigZ
        ELSE IF rem2 >= 2^(W64 - 1) THEN base - 128
        ELSE Or1(base, rem2 # 0)

f64_div(a, b, rm) == div(F64, QuotF64, a, b, rm)

(***************************************************************************)
(* Square root.  The reciprocal square root (a table and Newton's step) is *)
(* taken here by its contract, in a word of any width: top bit set, never  *)
(* above the true value and at most 2.06 units below it.  err is the       *)
(* distance from the best approximation, and 2 is within the contract only *)
(* where the best is at most 0.06 units from the true value.  RecipSqrt32  *)
(* has the table and the step, in their width.                             *)
(***************************************************************************)

softfloat_approxRecipSqrt32_1(oddExpA, a, err) ==
    LET unit  == 2^(2 * W32)
        k     == 2^(W32 - 2 + oddExpA)
        bound == (unit \div a) * k + ((unit % a) * k) \div a   \* unit * k / a
        best  == CHOOSE r \in 2^(W32 - 1) .. 2^W32 - 1 :
                    /\ r * r <= bound
                    /\ r = 2^W32 - 1 \/ (r + 1) * (r + 1) > bound
        below == IF err = 2 /\ 100 * (bound - best * best) > 12 * best THEN 1 ELSE err
    IN  IF best - below < 2^(W32 - 1) THEN 2^(W32 - 1) ELSE best - below

sqrt(f, Root(_, _, _), uiA, err, rm) ==
    LET a    == Unpacked(f, uiA)
        expZ == ((a.exp - Bias(f)) \div 2) + Bias(f) - 1
    IN  IF IsSpecial(f, uiA) /\ fracUI(f, uiA) # 0 THEN propagateNaN(f, uiA, 0)
        ELSE IF IsZero(f, uiA) \/ uiA = Infinity(f, 0) THEN Exact(uiA)
        ELSE IF signUI(f, uiA) = 1 THEN Invalid(f)
        ELSE roundPack(f, 0, expZ, Root(a.exp % 2, a.sig, err), rm)

RootF32(odd, sig, err) ==
    LET sigA == sig * 2^(F32.G + 1)
        est  == (sigA * softfloat_approxRecipSqrt32_1(odd, sigA, err)) \div 2^W32
        sigZ == (IF odd = 1 THEN est \div 2 ELSE est) + 2
        base == sigZ - (sigZ % 4)
        negRem == ((sigZ \div 4) * (sigZ \div 4)) % 2^W32
    IN  IF sigZ % 2^(F32.G - 1) >= 2 THEN sigZ
        ELSE IF negRem >= 2^(W32 - 1) THEN Or1(base, TRUE)
        ELSE IF negRem # 0 THEN base - 1
        ELSE base

f32_sqrt(a, err, rm) == sqrt(F32, RootF32, a, err, rm)

\* x * x modulo a 64-bit word.
Square64(x) ==
    LET lo == x % 2^W32
    IN  (((2 * (x \div 2^W32) * lo) % 2^W32) * 2^W32 + lo * lo) % 2^W64

RootF64(odd, sig, err) ==
    LET sig32A == sig \div 2^(F64.F + 1 - W32)
        recip  == softfloat_approxRecipSqrt32_1(odd, sig32A, err)
        est    == (sig32A * recip) \div 2^W32
        z32    == IF odd = 1 THEN est \div 2 ELSE est
        sigA   == sig * 2^(F64.G - 1 - odd)
        rem    == sigA - z32 * z32
        q      == (((rem \div 4) % 2^W32) * recip) \div 2^W32
        sigZ   == z32 * 2^W32 + 32 + q * 8
        base   == sigZ - (sigZ % 64)
        rem2   == ((sigA % 2^12) * 2^(W64 - 12)
                     - Square64(base \div 64)) % 2^W64
    IN  IF sigZ % 2^(F64.G - 1) >= 34 THEN sigZ
        ELSE IF rem2 >= 2^(W64 - 1) THEN base - 1
        ELSE Or1(base, rem2 # 0)

f64_sqrt(a, err, rm) == sqrt(F64, RootF64, a, err, rm)

(***************************************************************************)
(* Fused multiply-add: uiA * uiB + uiC with one rounding.  Fuse adds the   *)
(* product of two finite nonzero values to the finite uiC.                 *)
(***************************************************************************)

CancelledZero(f, rm) == Exact(ZeroOf(f, IF rm = "RDN" THEN 1 ELSE 0))

mulAdd(f, Fuse(_, _, _, _, _), uiA, uiB, uiC, rm) ==
    LET signC == signUI(f, uiC)
        signP == Xor(signUI(f, uiA), signUI(f, uiB))
        nan(ui) == IsSpecial(f, ui) /\ fracUI(f, ui) # 0
        other   == IF IsSpecial(f, uiA) THEN uiB ELSE uiA
        abc     == propagateNaN(f, uiA, uiB)
    IN  IF nan(uiA) \/ nan(uiB)
        THEN [abc EXCEPT !.fl = @ \cup propagateNaN(f, abc.v, uiC).fl]
        ELSE IF IsSpecial(f, uiA) \/ IsSpecial(f, uiB)
        THEN IF IsZero(f, other) THEN Invalid(f)
             ELSE IF nan(uiC) THEN propagateNaN(f, Infinity(f, signP), uiC)
             ELSE IF IsSpecial(f, uiC) /\ signP # signC THEN Invalid(f)
             ELSE Exact(Infinity(f, signP))
        ELSE IF nan(uiC) THEN propagateNaN(f, 0, uiC)
        ELSE IF IsSpecial(f, uiC) THEN Exact(uiC)
        ELSE IF IsZero(f, uiA) \/ IsZero(f, uiB)
        THEN IF IsZero(f, uiC) /\ signP # signC THEN CancelledZero(f, rm)
                                                ELSE Exact(uiC)
        ELSE Fuse(signP, Unpacked(f, uiA), Unpacked(f, uiB), uiC, rm)

\* Pack a positive sum that may need one normalising shift.
PackSum(f, sign, exp, sig, rm) ==
    IF sig < 2^(f.F + f.G) THEN roundPack(f, sign, exp - 1, 2 * sig, rm)
                           ELSE roundPack(f, sign, exp, sig, rm)

FuseF32(signP, a, b, uiC, rm) ==
    LET prod    == (a.sig * 2^F32.G) * (b.sig * 2^F32.G)
        short   == prod < 2^(W64 - 3)
        sigProd == IF short THEN 2 * prod ELSE prod
        expProd == a.exp + b.exp - (Bias(F32) - 1) - (IF short THEN 1 ELSE 0)
        signC   == signUI(F32, uiC)
        c       == Unpacked(F32, uiC)
        sigC    == c.sig * 2^(F32.G - 1)
        sig64C  == sigC * 2^W32
        expDiff == expProd - c.exp
        diff    == IF expDiff < 0
                   THEN sig64C - softfloat_shiftRightJam64(sigProd, -expDiff)
                   ELSE IF expDiff = 0 THEN sigProd - sig64C
                   ELSE sigProd - softfloat_shiftRightJam64(sig64C, expDiff)
        sig64Z  == IF diff < 0 THEN -diff ELSE diff
        dist    == softfloat_countLeadingZeros64(sig64Z) - 1
    IN  IF IsZero(F32, uiC)
        THEN softfloat_roundPackToF32(signP, expProd - 1,
               softfloat_shortShiftRightJam64(sigProd, W32 - 1), rm)
        ELSE IF signP = signC
        THEN IF expDiff <= 0
             THEN PackSum(F32, signP, c.exp,
                    sigC + softfloat_shiftRightJam64(sigProd, W32 - expDiff), rm)
             ELSE PackSum(F32, signP, expProd,
                    softfloat_shortShiftRightJam64(
                      sigProd + softfloat_shiftRightJam64(sig64C, expDiff), W32),
                    rm)
        ELSE IF diff = 0 THEN CancelledZero(F32, rm)
        ELSE softfloat_roundPackToF32(
               IF expDiff < 0 THEN signC ELSE IF diff < 0 THEN 1 - signP ELSE signP,
               (IF expDiff < 0 THEN c.exp ELSE expProd) - dist,
               IF dist < W32 THEN softfloat_shortShiftRightJam64(sig64Z, W32 - dist)
                             ELSE sig64Z * 2^(dist - W32), rm)

softfloat_mulAddF32(uiA, uiB, uiC, rm) == mulAdd(F32, FuseF32, uiA, uiB, uiC, rm)

\* The product with its leading bit in place, as a double word.
Product128(exp, prod) ==
    IF prod.v64 < 2^(W64 - 3) THEN [exp |-> exp - 1, sig |-> softfloat_add128(prod, prod)]
                              ELSE [exp |-> exp, sig |-> prod]

\* The product aligned to a C of larger exponent: its low word is kept.
AlignedProduct(sameSign, expDiff, sigProd) ==
    IF expDiff >= 0 THEN sigProd
    ELSE IF sameSign \/ expDiff < -1
    THEN [sigProd EXCEPT !.v64 = softfloat_shiftRightJam64(@, -expDiff)]
    ELSE softfloat_shortShiftRightJam128(sigProd, 1)

AlignedC(sigC, expDiff) == softfloat_shiftRightJam128(Pair(sigC, 0), expDiff)

SumWithC(z, sigC, expDiff) ==
    IF expDiff <= 0 THEN Pair(sigC + z.v64, z.v0)
                    ELSE softfloat_add128(z, AlignedC(sigC, expDiff))

DiffWithC(z, sigC, expDiff) ==
    IF expDiff < 0 THEN softfloat_sub128(Pair(sigC, 0), z)
    ELSE IF expDiff = 0 THEN Pair((z.v64 - sigC) % 2^W64, z.v0)
    ELSE softfloat_sub128(z, AlignedC(sigC, expDiff))

\* Normalise a difference whose high word is not zero, jam and pack it.
PackShifted(sign, exp, sig, dist, rm) ==
    softfloat_roundPackToF64(sign, exp - dist,
        IF dist < 0
        THEN Or1(softfloat_shortShiftRightJam64(sig.v64, -dist), sig.v0 # 0)
        ELSE LET left == softfloat_shortShiftLeft128(sig, dist)
             IN  Or1(left.v64, left.v0 # 0), rm)

PackHigh(sign, exp, sig, rm) ==
    PackShifted(sign, exp, sig, softfloat_countLeadingZeros64(sig.v64) - 1, rm)

PackDiff(sign, exp, sig, rm) ==
    PackHigh(sign, IF sig.v64 = 0 THEN exp - W64 ELSE exp,
             IF sig.v64 = 0 THEN Pair(sig.v0, 0) ELSE sig, rm)

\* Exponents that are equal leave the sign of the difference open.
PackUnlike(signP, exp, expDiff, diff, rm) ==
    LET neg == expDiff = 0 /\ diff.v64 >= 2^(W64 - 1)
    IN  IF expDiff = 0 /\ diff = Pair(0, 0) THEN CancelledZero(F64, rm)
        ELSE PackDiff(IF expDiff < 0 \/ neg THEN 1 - signP ELSE signP, exp,
                      IF neg THEN softfloat_sub128(Pair(0, 0), diff) ELSE diff, rm)

PackLike(signP, exp, sum, rm) ==
    PackSum(F64, signP, exp, Or1(sum.v64, sum.v0 # 0), rm)

AddToProduct(signP, prod, signC, expC, sigC, rm) ==
    LET expDiff == prod.exp - expC
        exp     == IF expDiff < 0 THEN expC ELSE prod.exp
        z       == AlignedProduct(signP = signC, expDiff, prod.sig)
    IN  IF signP = signC
        THEN PackLike(signP, exp, SumWithC(z, sigC, expDiff), rm)
        ELSE PackUnlike(signP, exp, expDiff, DiffWithC(z, sigC, expDiff), rm)

FuseF64(signP, a, b, uiC, rm) ==
    LET c    == Unpacked(F64, uiC)
        prod == Product128(a.exp + b.exp - (Bias(F64) - 1),
                           softfloat_mul64To128(a.sig * 2^F64.G, b.sig * 2^F64.G))
    IN  IF IsZero(F64, uiC)
        THEN softfloat_roundPackToF64(signP, prod.exp - 1,
               Or1(2 * prod.sig.v64, prod.sig.v0 # 0), rm)
        ELSE AddToProduct(signP, prod, signUI(F64, uiC), c.exp,
                          c.sig * 2^(F64.G - 1), rm)

softfloat_mulAddF64(uiA, uiB, uiC, rm) == mulAdd(F64, FuseF64, uiA, uiB, uiC, rm)

f32_mulAdd(a, b, c, rm) == softfloat_mulAddF32(a, b, c, rm)

f64_mulAdd(a, b, c, rm) == softfloat_mulAddF64(a, b, c, rm)

(***************************************************************************)
(* Conversions between formats and from integers.                          *)
(***************************************************************************)

f64_to_f32(a, rm) ==
    LET sign   == signUI(F64, a)
        frac   == fracUI(F64, a)
        frac32 == softfloat_shortShiftRightJam64(frac, F64.F - (F32.F + F32.G))
    IN  IF IsSpecial(F64, a)
        THEN IF frac = 0 THEN Exact(Infinity(F32, sign))
             ELSE [v |-> defaultNaN(F32),
                   fl |-> IF frac < 2^(F64.F - 1) THEN {"invalid"} ELSE {}]
        ELSE IF expUI(F64, a) = 0 /\ frac32 = 0 THEN Exact(ZeroOf(F32, sign))
        ELSE softfloat_roundPackToF32(sign,
               expUI(F64, a) - (Bias(F64) - Bias(F32) + 1),
               frac32 + 2^(F32.F + F32.G), rm)

Abs(a) == IF a < 0 THEN -a ELSE a

Sign(a) == IF a < 0 THEN 1 ELSE 0

\* An integer of the format's own word: i32_to_f32 and i64_to_f64.
intToFloat(f, a, rm) ==
    IF a = 0 THEN Exact(0)
    ELSE IF a = -(2^(Width(f) - 1))
    THEN Exact(packToUI(f, 1, Bias(f) + Width(f) - 1, 0))
    ELSE normRoundPack(f, Sign(a), Bias(f) + Width(f) - 3, Abs(a), rm)

i32_to_f32(a, rm) == intToFloat(F32, a, rm)

i64_to_f64(a, rm) == intToFloat(F64, a, rm)

uintToFloat(f, a, rm) ==
    IF a = 0 THEN Exact(0)
    ELSE IF a >= 2^(Width(f) - 1)
    THEN roundPack(f, 0, Bias(f) + Width(f) - 2, Or1(a \div 2, a % 2 = 1), rm)
    ELSE normRoundPack(f, 0, Bias(f) + Width(f) - 3, a, rm)

ui32_to_f32(a, rm) == uintToFloat(F32, a, rm)

ui64_to_f64(a, rm) == uintToFloat(F64, a, rm)

\* A 64-bit magnitude to F32: packed when it fits, else narrowed and rounded.
longToF32(sign, mag, rm) ==
    LET dist == softfloat_countLeadingZeros64(mag) - (W64 - (F32.F + 1))
        d    == dist + F32.G
    IN  IF dist >= 0
        THEN IF mag = 0 THEN Exact(0)
             ELSE Exact(packToUI(F32, sign, Bias(F32) + F32.F - 1 - dist,
                                 mag * 2^dist))
        ELSE softfloat_roundPackToF32(sign, Bias(F32) + F32.F + F32.G - 1 - d,
               IF d < 0 THEN softfloat_shortShiftRightJam64(mag, -d)
                        ELSE mag * 2^d, rm)

i64_to_f32(a, rm) == longToF32(Sign(a), Abs(a), rm)

ui64_to_f32(a, rm) == longToF32(0, a, rm)

(***************************************************************************)
(* Conversions to integers ("exact" is always 1).  A result out of range   *)
(* saturates; a NaN is the largest integer.                                *)
(***************************************************************************)

Saturated(w, signed, sign) ==
    [v |-> IF sign = 0 THEN (IF signed THEN 2^(w - 1) - 1 ELSE 2^w - 1)
           ELSE IF signed THEN -(2^(w - 1)) ELSE 0,
     fl |-> {"invalid"}]

\* The two's complement reading of a w-bit word.
ToSigned(w, ui) == IF ui >= 2^(w - 1) THEN ui - 2^w ELSE ui

RoundedUp(sign, rm) == rm = (IF sign = 1 THEN "RDN" ELSE "RUP")

Inexact(v, b) == [v |-> v, fl |-> IF b THEN {"inexact"} ELSE {}]

\* Mutant of softfloat_roundToI32: the sign of the result is not checked.
RoundToI32NoSignCheck(sign, sig, rm) ==
    LET inc == IF rm \in {"RMM", "RTE"} THEN 2^(IntGuard - 1)
               ELSE IF RoundedUp(sign, rm) THEN 2^IntGuard - 1 ELSE 0
        bits == sig % 2^IntGuard
        up   == (sig + inc) \div 2^IntGuard
        s32  == IF bits = 2^(IntGuard - 1) /\ rm = "RTE" THEN up - (up % 2) ELSE up
    IN  IF up >= 2^IntBits THEN Saturated(IntBits, TRUE, sign)
        ELSE Inexact(ToSigned(IntBits, (IF sign = 1 THEN -s32 ELSE s32) % 2^IntBits),
                     bits # 0)

softfloat_roundToI32(sign, sig, rm) ==
    LET inc  == IF rm \in {"RMM", "RTE"} THEN 2^(IntGuard - 1)
                ELSE IF RoundedUp(sign, rm) THEN 2^IntGuard - 1 ELSE 0
        bits == sig % 2^IntGuard
        up   == (sig + inc) \div 2^IntGuard
        s32  == IF bits = 2^(IntGuard - 1) /\ rm = "RTE" THEN up - (up % 2) ELSE up
        z    == ToSigned(IntBits, (IF sign = 1 THEN -s32 ELSE s32) % 2^IntBits)
    IN  IF \/ up >= 2^IntBits
           \/ z # 0 /\ (z < 0) # (sign = 1)
        THEN Saturated(IntBits, TRUE, sign)
        ELSE Inexact(z, bits # 0)

softfloat_roundToUI32(sign, sig, rm) ==
    LET inc  == IF rm \in {"RMM", "RTE"} THEN 2^(IntGuard - 1)
                ELSE IF sign = 0 /\ rm = "RUP" THEN 2^IntGuard - 1 ELSE 0
        bits == sig % 2^IntGuard
        up   == (sig + inc) \div 2^IntGuard
        z    == IF bits = 2^(IntGuard - 1) /\ rm = "RTE" THEN up - (up % 2) ELSE up
    IN  IF rm \notin {"RMM", "RTE"} /\ sign = 1 /\ sig = 0 THEN Exact(0)
        ELSE IF \/ sign = 1 /\ rm = "RDN"
                \/ up >= 2^IntBits
                \/ sign = 1 /\ z # 0
        THEN Saturated(IntBits, FALSE, sign)
        ELSE Inexact(z, bits # 0)

\* The 64-bit word after rounding with its extra fraction word.
Increment64(sig, extra, rm) ==
    IF extra = 2^(W64 - 1) /\ rm = "RTE" THEN (sig + 1) - ((sig + 1) % 2) ELSE sig + 1

softfloat_roundToI64(sign, sig, extra, rm) ==
    LET inc == IF rm \in {"RMM", "RTE"} THEN extra >= 2^(W64 - 1)
               ELSE extra # 0 /\ RoundedUp(sign, rm)
        s   == IF inc THEN Increment64(sig, extra, rm) ELSE sig
        z   == ToSigned(W64, (IF sign = 1 THEN -s ELSE s) % 2^W64)
    IN  IF \/ inc /\ sig + 1 = 2^W64
           \/ z # 0 /\ (z < 0) # (sign = 1)
        THEN Saturated(W64, TRUE, sign)
        ELSE Inexact(z, extra # 0)

softfloat_roundToUI64(sign, sig, extra, rm) ==
    LET near == rm \in {"RMM", "RTE"}
        inc  == IF near THEN extra >= 2^(W64 - 1)
                ELSE sign = 0 /\ rm = "RUP" /\ extra # 0
        s    == IF inc THEN Increment64(sig, extra, rm) ELSE sig
    IN  IF ~near /\ sign = 1 /\ sig = 0 /\ extra = 0 THEN Exact(0)
        ELSE IF \/ ~near /\ sign = 1 /\ rm = "RDN"
                \/ inc /\ sig + 1 = 2^W64
                \/ sign = 1 /\ s # 0
        THEN Saturated(W64, FALSE, sign)
        ELSE Inexact(s, extra # 0)

\* The significand, hidden bit included when the exponent is not zero.
Significand(f, ui) ==
    fracUI(f, ui) + (IF expUI(f, ui) # 0 THEN Hidden(f) ELSE 0)

\* f32_to_i32, f64_to_i32 and the unsigned twins: "place" moves the
\* significand of F32 up by a word; a NaN loses its sign.
toWord(f, place, Round(_, _, _), ui, rm) ==
    LET sig  == Significand(f, ui) * 2^place
        dist == Bias(f) + f.F + place - IntGuard - expUI(f, ui)
        sign == IF IsSpecial(f, ui) /\ fracUI(f, ui) # 0 THEN 0 ELSE signUI(f, ui)
    IN  Round(sign,
              IF 0 < dist THEN softfloat_shiftRightJam64(sig, dist) ELSE sig, rm)

f32_to_i32(a, rm) == toWord(F32, IntBits, softfloat_roundToI32, a, rm)

f32_to_ui32(a, rm) == toWord(F32, IntBits, softfloat_roundToUI32, a, rm)

f64_to_i32(a, rm) == toWord(F64, 0, softfloat_roundToI32, a, rm)

f64_to_ui32(a, rm) == toWord(F64, 0, softfloat_roundToUI32, a, rm)

OutOfRange(f, signed, ui) ==
    Saturated(W64, signed, IF fracUI(f, ui) # 0 /\ IsSpecial(f, ui) THEN 0
                           ELSE signUI(f, ui))

f32ToLong(signed, Round(_, _, _, _), a, rm) ==
    LET dist == Bias(F32) + W64 - 1 - expUI(F32, a)
        x == softfloat_shiftRightJam64Extra(
               Significand(F32, a) * 2^(W64 - (F32.F + 1)), dist)
    IN  IF dist < 0 THEN OutOfRange(F32, signed, a)
        ELSE IF dist = 0
        THEN Round(signUI(F32, a), Significand(F32, a) * 2^(W64 - (F32.F + 1)), 0, rm)
        ELSE Round(signUI(F32, a), x.v, x.extra, rm)

f32_to_i64(a, rm) == f32ToLong(TRUE, softfloat_roundToI64, a, rm)

f32_to_ui64(a, rm) == f32ToLong(FALSE, softfloat_roundToUI64, a, rm)

f64ToLong(signed, Round(_, _, _, _), a, rm) ==
    LET dist == Bias(F64) + F64.F - expUI(F64, a)
        x    == softfloat_shiftRightJam64Extra(Significand(F64, a), dist)
    IN  IF dist < -(W64 - (F64.F + 1)) THEN OutOfRange(F64, signed, a)
        ELSE IF dist <= 0
        THEN Round(signUI(F64, a), Significand(F64, a) * 2^(-dist), 0, rm)
        ELSE Round(signUI(F64, a), x.v, x.extra, rm)

f64_to_i64(a, rm) == f64ToLong(TRUE, softfloat_roundToI64, a, rm)

f64_to_ui64(a, rm) == f64ToLong(FALSE, softfloat_roundToUI64, a, rm)

=============================================================================
