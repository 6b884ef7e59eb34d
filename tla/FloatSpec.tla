----------------------------- MODULE FloatSpec -----------------------------
(***************************************************************************)
(* What IEEE 754 and the RISC-V F and D extensions require of the          *)
(* operations of SoftFloat: the exact result of the operands, rounded once *)
(* (tininess after rounding), with the flags of that rounding; every NaN   *)
(* result is the default NaN.                                              *)
(*                                                                         *)
(* Nothing here follows riscvSoftFloat.c: only its layout of the bit       *)
(* patterns is used.  An exact magnitude is n/d * 2^e, held as a record;   *)
(* where an addend is too small to matter it is replaced by a positive     *)
(* amount less than a unit of the larger one.                              *)
(***************************************************************************)
EXTENDS SoftFloat

\* The number of bits of a natural number of at most two words.
BitLen(n) == IF n = 0 THEN 0 ELSE CHOOSE k \in 1 .. 2 * W64 : n \div 2^(k - 1) = 1

Least(x, y) == IF x < y THEN x ELSE y

Mag(n, d, e) == [n |-> n, d |-> d, e |-> e]

\* The magnitude of a finite value.
MagOf(f, ui) ==
    LET field == expUI(f, ui)
    IN  Mag(Significand(f, ui), 1, (IF field = 0 THEN 1 ELSE field) - Bias(f) - f.F)

\* x in quarter units of 2^q: the quotient, and whether something is left.
Quarters(x, q) ==
    LET k == x.e - q + 2
        a == x.n \div x.d
        j == Least(BitLen(a), -k)     \* no bit of a is above
    IN  IF k >= 0 THEN [t |-> (x.n * 2^k) \div x.d, rest |-> (x.n * 2^k) % x.d # 0]
        ELSE [t |-> a \div 2^j, rest |-> x.n % x.d # 0 \/ a % 2^j # 0]

\* t quarters, and something less than a quarter if rest, rounded.
RoundQuarters(t, rest, sign, rm) ==
    LET m     == t \div 4
        r     == t % 4
        exact == r = 0 /\ ~rest
        tie   == r = 2 /\ ~rest
        above == r >= 2 /\ ~tie
        up    == \/ rm = "RTE" /\ (above \/ (tie /\ m % 2 = 1))
                 \/ rm = "RMM" /\ (above \/ tie)
                 \/ rm = "RDN" /\ ~exact /\ sign = 1
                 \/ rm = "RUP" /\ ~exact /\ sign = 0
    IN  [m |-> IF up THEN m + 1 ELSE m, inexact |-> ~exact]

\* x rounded to a multiple of 2^q.
RoundTo(x, q, sign, rm) ==
    LET y == Quarters(x, q) IN RoundQuarters(y.t, y.rest, sign, rm)

\* The exponent of the leading bit of x.
Log2(x) ==
    LET k == BitLen(x.n) - BitLen(x.d)
        below == IF k >= 0 THEN x.n < x.d * 2^k ELSE x.n * 2^(-k) < x.d
    IN  x.e + (IF below THEN k - 1 ELSE k)

\* x # 0 rounded to the format f.
Rounded(f, sign, x, rm) ==
    LET lg    == Log2(x)
        emin  == 1 - Bias(f)
        q     == (IF lg < emin THEN emin ELSE lg) - f.F
        z     == RoundTo(x, q, sign, rm)
        over  == \/ q + f.F > Bias(f)
                 \/ q + f.F = Bias(f) /\ z.m = 2^(f.F + 1)
        tiny  == /\ lg < emin
                 /\ ~(/\ lg = emin - 1
                      /\ RoundTo(x, lg - f.F, sign, rm).m = 2^(f.F + 1))
        toInf == rm \in {"RTE", "RMM", IF sign = 1 THEN "RDN" ELSE "RUP"}
    IN  IF over
        THEN [v |-> Infinity(f, sign) - (IF toInf THEN 0 ELSE 1),
              fl |-> {"overflow", "inexact"}]
        ELSE [v |-> packToUI(f, sign, q + f.F + Bias(f) - 1, z.m),
              fl |-> IF ~z.inexact THEN {}
                     ELSE IF tiny THEN {"inexact", "underflow"} ELSE {"inexact"}]

\* Trailing zeros moved to the exponent; leading bits filled up to f's
\* precision and two more.
Trimmed(x) ==
    LET k == CHOOSE i \in 0 .. 2 * W64 : x.n % 2^i = 0 /\ (x.n \div 2^i) % 2 = 1
    IN  Mag(x.n \div 2^k, 1, x.e + k)

Filled(f, x) ==
    LET k == f.F + 3 - BitLen(x.n)
    IN  IF k > 0 THEN Mag(x.n * 2^k, 1, x.e - k) ELSE x

\* The magnitude of x + y or x - y, both nonzero, x the larger.
Combined(f, plus, x0, y0) ==
    LET x == Filled(f, Trimmed(x0))
        y == Trimmed(y0)
        d == x.e - y.e
        s(a, b) == IF plus THEN a + b ELSE a - b
    IN  IF d >= BitLen(y.n) THEN Mag(s(2 * x.n, 1), 1, x.e - 1)
        ELSE IF d >= 0 THEN Mag(s(x.n * 2^d, y.n), 1, y.e)
        ELSE Mag(s(x.n, y.n * 2^(-d)), 1, x.e)

Larger(x, y) ==
    LET dx == BitLen(x.n) + x.e
        dy == BitLen(y.n) + y.e
        k  == x.e - y.e
    IN  dx > dy \/ (dx = dy /\ IF k >= 0 THEN x.n * 2^k >= y.n
                               ELSE x.n >= y.n * 2^(-k))

\* The sum of two signed finite magnitudes; an exact zero of different signs
\* is negative only when rounding down.
SumSpec(f, sx, x, sy, y, rm) ==
    LET c == IF Larger(x, y) THEN Combined(f, sx = sy, x, y)
                             ELSE Combined(f, sx = sy, y, x)
        sign == IF Larger(x, y) THEN sx ELSE sy
        down == IF rm = "RDN" THEN 1 ELSE 0
    IN  IF x.n = 0 /\ y.n = 0 THEN Exact(ZeroOf(f, IF sx = sy THEN sx ELSE down))
        ELSE IF y.n = 0 THEN Rounded(f, sx, x, rm)
        ELSE IF x.n = 0 THEN Rounded(f, sy, y, rm)
        ELSE IF c.n = 0 THEN Exact(ZeroOf(f, down))
        ELSE Rounded(f, sign, c, rm)

IsNaN(f, ui) == IsSpecial(f, ui) /\ fracUI(f, ui) # 0

IsInf(f, ui) == IsSpecial(f, ui) /\ fracUI(f, ui) = 0

NaNOf(f, uis) ==
    IF \E ui \in uis : isSigNaN(f, ui) THEN Invalid(f) ELSE Exact(defaultNaN(f))

AddSpec(f, a, b, rm) ==
    LET sa == signUI(f, a)
        sb == signUI(f, b)
    IN  IF IsNaN(f, a) \/ IsNaN(f, b) THEN NaNOf(f, {a, b})
        ELSE IF IsInf(f, a) /\ IsInf(f, b) /\ sa # sb THEN Invalid(f)
        ELSE IF IsInf(f, a) THEN Exact(a)
        ELSE IF IsInf(f, b) THEN Exact(b)
        ELSE SumSpec(f, sa, MagOf(f, a), sb, MagOf(f, b), rm)

Negated(f, a) == (a + 2^(f.E + f.F)) % 2^(f.E + f.F + 1)

SubSpec(f, a, b, rm) ==
    IF IsNaN(f, b) THEN NaNOf(f, {a, b}) ELSE AddSpec(f, a, Negated(f, b), rm)

ProductOf(f, a, b) ==
    LET x == MagOf(f, a)  y == MagOf(f, b)
    IN  Mag(x.n * y.n, 1, x.e + y.e)

MulSpec(f, a, b, rm) ==
    LET s == Xor(signUI(f, a), signUI(f, b))
    IN  IF IsNaN(f, a) \/ IsNaN(f, b) THEN NaNOf(f, {a, b})
        ELSE IF (IsInf(f, a) /\ IsZero(f, b)) \/ (IsZero(f, a) /\ IsInf(f, b))
        THEN Invalid(f)
        ELSE IF IsInf(f, a) \/ IsInf(f, b) THEN Exact(Infinity(f, s))
        ELSE IF IsZero(f, a) \/ IsZero(f, b) THEN Exact(ZeroOf(f, s))
        ELSE Rounded(f, s, ProductOf(f, a, b), rm)

DivSpec(f, a, b, rm) ==
    LET s == Xor(signUI(f, a), signUI(f, b))
        x == MagOf(f, a)  y == MagOf(f, b)
    IN  IF IsNaN(f, a) \/ IsNaN(f, b) THEN NaNOf(f, {a, b})
        ELSE IF (IsInf(f, a) /\ IsInf(f, b)) \/ (IsZero(f, a) /\ IsZero(f, b))
        THEN Invalid(f)
        ELSE IF IsInf(f, a) THEN Exact(Infinity(f, s))
        ELSE IF IsZero(f, b) THEN [v |-> Infinity(f, s), fl |-> {"infinite"}]
        ELSE IF IsInf(f, b) \/ IsZero(f, a) THEN Exact(ZeroOf(f, s))
        ELSE Rounded(f, s, Mag(x.n, y.n, x.e - y.e), rm)

\* The product exactly, plus c, rounded once.
FmaSpec(f, a, b, c, rm) ==
    LET s  == Xor(signUI(f, a), signUI(f, b))
        sc == signUI(f, c)
        bad == (IsInf(f, a) /\ IsZero(f, b)) \/ (IsZero(f, a) /\ IsInf(f, b))
    IN  IF bad THEN Invalid(f)
        ELSE IF \E ui \in {a, b, c} : IsNaN(f, ui) THEN NaNOf(f, {a, b, c})
        ELSE IF IsInf(f, a) \/ IsInf(f, b)
        THEN IF IsInf(f, c) /\ s # sc THEN Invalid(f) ELSE Exact(Infinity(f, s))
        ELSE IF IsInf(f, c) THEN Exact(c)
        ELSE SumSpec(f, s, ProductOf(f, a, b), sc, MagOf(f, c), rm)

\* The integer square root of n < 2^30, one bit at a time.
IntRoot(n) ==
    LET root[i \in 0 .. 15] ==
          IF i = 0 THEN 0
          ELSE LET r == root[i - 1] + 2^(15 - i)
               IN  IF r * r <= n THEN r ELSE root[i - 1]
    IN  root[15]

SqrtSpec(f, a, rm) ==
    LET x  == MagOf(f, a)
        k0 == 2 * (f.F + 3) - BitLen(x.n)
        k  == IF (x.e - k0) % 2 = 0 THEN k0 ELSE k0 + 1
        n  == x.n * 2^k
        r  == IntRoot(n)
    IN  IF IsNaN(f, a) THEN NaNOf(f, {a})
        ELSE IF IsZero(f, a) THEN Exact(a)
        ELSE IF signUI(f, a) = 1 THEN Invalid(f)
        ELSE IF IsInf(f, a) THEN Exact(a)
        ELSE Rounded(f, 0, Mag(2 * r + (IF r * r = n THEN 0 ELSE 1), 1,
                               ((x.e - k) \div 2) - 1), rm)

NarrowSpec(a, rm) ==
    LET s == signUI(F64, a)
    IN  IF IsNaN(F64, a)
        THEN IF isSigNaN(F64, a) THEN Invalid(F32) ELSE Exact(defaultNaN(F32))
        ELSE IF IsInf(F64, a) THEN Exact(Infinity(F32, s))
        ELSE IF IsZero(F64, a) THEN Exact(ZeroOf(F32, s))
        ELSE Rounded(F32, s, MagOf(F64, a), rm)

FromIntSpec(f, a, rm) ==
    IF a = 0 THEN Exact(0) ELSE Rounded(f, Sign(a), Mag(Abs(a), 1, 0), rm)

\* A w-bit integer: the rounded value when it is in range, else saturated
\* with invalid as the only flag.
ToIntSpec(f, w, signed, a, rm) ==
    LET s   == signUI(f, a)
        lo  == IF signed THEN -(2^(w - 1)) ELSE 0
        hi  == IF signed THEN 2^(w - 1) - 1 ELSE 2^w - 1
        x   == MagOf(f, a)
        z   == RoundTo(x, 0, s, rm)
        i   == IF s = 1 THEN -z.m ELSE z.m
    IN  IF IsNaN(f, a) THEN [v |-> hi, fl |-> {"invalid"}]
        ELSE IF IsInf(f, a) \/ (x.n # 0 /\ Log2(x) > w) \/ i \notin lo .. hi
        THEN [v |-> IF s = 1 THEN lo ELSE hi, fl |-> {"invalid"}]
        ELSE [v |-> i, fl |-> IF z.inexact THEN {"inexact"} ELSE {}]

=============================================================================
