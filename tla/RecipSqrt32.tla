----------------------------- MODULE RecipSqrt32 -----------------------------
(***************************************************************************)
(* The reciprocal square root that f32_sqrt and f64_sqrt start from, with  *)
(* the code's tables and in the code's widths, and the root that f32_sqrt  *)
(* makes of it.  SoftFloat takes the reciprocal by the contract that its   *)
(* header comment states: here the tables and Newton's step are checked to *)
(* keep it.  For roots of the full width the contract alone is not enough  *)
(* (a reciprocal two units low can lose an exact root near 2), so that the *)
(* roots are checked with the reciprocals that the tables give.            *)
(*                                                                         *)
(* Words of the code are wider than TLC's integers.  A word is a sequence  *)
(* of Digits digits of DigitBits bits each, the lowest first; arithmetic   *)
(* is modulo 2^(Digits * DigitBits), more than any result here needs.      *)
(***************************************************************************)
EXTENDS Integers, Sequences, FiniteSetsExt

Digits == 10

DigitBits == 12

Base == 2^DigitBits

RECURSIVE CarryFrom(_, _, _)

\* The digits of a number given by its columns, from column i on.
CarryFrom(column, i, carry) ==
    IF i > Digits THEN <<>>
    ELSE LET sum == column[i] + carry
         IN  <<sum % Base>> \o CarryFrom(column, i + 1, sum \div Base)

Number(column) == CarryFrom(column, 1, 0)

\* A number less than 2^31.
Nr(n) == Number([i \in 1 .. Digits |-> IF i = 1 THEN n ELSE 0])

x ++ y == Number([i \in 1 .. Digits |-> x[i] + y[i]])

x -- y == Number([i \in 1 .. Digits |-> x[i] - y[i]])

x ** y == Number([k \in 1 .. Digits |-> MapThenSumSet(LAMBDA i : x[i] * y[k + 1 - i], 1 .. k)])

Power(n) == Number([i \in 1 .. Digits |-> IF i = n \div DigitBits + 1 THEN 2^(n % DigitBits) ELSE 0])

\* x << n, x >> n and the low n bits of x.
Up(x, n) == x ** Power(n)

Down(x, n) ==
    LET digit(i) == IF i > Digits THEN 0 ELSE x[i]
        q == n \div DigitBits
        s == n % DigitBits
    IN  Number([i \in 1 .. Digits |->
            digit(i + q) \div 2^s + (digit(i + q + 1) % 2^s) * 2^(DigitBits - s)])

Low(x, n) ==
    Number([i \in 1 .. Digits |->
        LET bits == n - DigitBits * (i - 1)
        IN  IF bits <= 0 THEN 0 ELSE IF bits >= DigitBits THEN x[i] ELSE x[i] % 2^bits])

x \preceq y == \/ x = y
               \/ \E i \in 1 .. Digits : x[i] < y[i] /\ \A j \in i + 1 .. Digits : x[j] = y[j]

\* A word of 32 bits, given by the high 24 and the low 8.
Word(high, low) == Up(Nr(high), 8) ++ Nr(low)

\* The value of a word of at most 24 bits.
Small(x) == x[1] + x[2] * Base

------------------------------------------------------------------------------

softfloat_approxRecipSqrt_1k0s ==
    <<46281, 65451, 43645, 61724, 41413, 58567, 39491, 55849,
      37813, 53477, 36333, 51383, 35014, 49517, 33828, 47841>>

softfloat_approxRecipSqrt_1k1s ==
    <<42405, 59970, 35873, 50733, 30863, 43647, 26920, 38070,
      23751, 33589, 21158, 29922, 19006, 26878, 17195, 24317>>

\* The quadratic term of Newton's step.
Quadratic(r, r0, sigma0) ==
    LET sqrSigma0 == Down(sigma0 ** sigma0, 32)
        slope     == Low((Down(r, 1) ++ Down(r, 3)) -- Up(r0, 14), 32)
    IN  r ++ Down(slope ** sqrSigma0, 48)

softfloat_approxRecipSqrt32_1(oddExpA, a) ==
    LET index  == 2 * (Small(Down(a, 28)) % 8) + oddExpA + 1
        eps    == Low(Down(a, 12), 16)
        r0     == Nr(softfloat_approxRecipSqrt_1k0s[index])
                    -- Down(Nr(softfloat_approxRecipSqrt_1k1s[index]) ** eps, 20)
        ESqrR0 == Low(Up(r0 ** r0, 1 - oddExpA), 32)
        sigma0 == Low(Nr(0) -- Nr(1) -- Down(ESqrR0 ** a, 23), 32)     \* ~x is -1 - x
        linear == Up(r0, 16) ++ Down(r0 ** sigma0, 25)
        r      == Low(Quadratic(linear, r0, sigma0), 32)
    IN  IF Power(31) \preceq r THEN r ELSE Power(31)

\* A root that may be exact, or just below a half, is settled by its square.
Settled(sigZ) ==
    LET shifted == Down(sigZ, 2)
        negRem  == Low(shifted ** shifted, 32)
        base    == Up(shifted, 2)
    IN  IF Small(sigZ) % 64 >= 2 THEN sigZ
        ELSE IF Power(31) \preceq negRem THEN base ++ Nr(1)
        ELSE IF negRem # Nr(0) THEN base -- Nr(1)
        ELSE base

\* The significand of f32_sqrt's result before rounding: 24 bits, and 7 more
\* for the rounding.
RootF32(oddExpA, sigA) ==
    LET a == Up(Nr(sigA), 8)
    IN  Settled(Down(a ** softfloat_approxRecipSqrt32_1(oddExpA, a), 32 + oddExpA) ++ Nr(2))

------------------------------------------------------------------------------
(* What they are to satisfy; MCSoftFloat has it evaluated. *)

\* softfloat_approxRecipSqrt32_1, as its header comment says: the top bit of the
\* result is set, and the result is never above the true reciprocal root and at
\* most 2.06 units below it.
RecipSqrtContract(oddExpA, a) ==
    LET r      == softfloat_approxRecipSqrt32_1(oddExpA, a)
        unit   == Power(94 + oddExpA)              \* the square of the true one, times a
        within == r ** Nr(100) ++ Nr(206)
    IN  /\ Power(31) \preceq r
        /\ r ** r ** a \preceq unit
        /\ unit ** Nr(10000) \preceq within ** within ** a

\* f32_sqrt: what it rounds has the bits of the true root down to the half of
\* the last place, and a zero rest exactly where the root ends there, so that
\* rounding and inexact are right in every mode.
RootF32Exact(oddExpA, sigA) ==
    LET z      == RootF32(oddExpA, sigA)
        square == Up(Nr(sigA), 38 - oddExpA)       \* of the true root
        low    == Small(z) % 64
        kept   == z -- Nr(low)
        next   == kept ++ Nr(64)
    IN  IF low = 0 THEN kept ** kept = square
        ELSE ~ (square \preceq kept ** kept) /\ ~ (next ** next \preceq square)

==============================================================================
