---------------------------- MODULE MCSoftFloat ----------------------------
(***************************************************************************)
(* Narrow formats for TLC.  They keep the relations between the code's     *)
(* widths that its algorithms use (FormatAssumption and                    *)
(* ConversionAssumption): the F64 word is two F32 words, F64's significand *)
(* does not fit one half of its word, and the exponent range covers the    *)
(* integers.  The 32-bit integer results are IntBits wide.                 *)
(***************************************************************************)
EXTENDS SoftFloatVMI

MCF32 == [E |-> 6, F |-> 2, G |-> 7]

MCF64 == [E |-> 7, F |-> 11, G |-> 9]

Patterns(f, signs, exps, fracs) ==
    {packToUI(f, s, e, x) : s \in signs, e \in exps, x \in fracs}

\* Zeros, subnormals, both ends of the range, the middle, infinities, NaNs.
MCV32 == Patterns(MCF32, 0 .. 1, {0, 1, 2, 30, 31, 32, 34, 39, 61, 62, 63}, 0 .. 3)

MCC32 == 0 .. 2^9 - 1

MCFma32 == Patterns(MCF32, 0 .. 1, {1, 18, 31, 33}, {0, 3})
             \cup {0, 1, packToUI(MCF32, 0, 62, 1), packToUI(MCF32, 1, 63, 0),
                   packToUI(MCF32, 1, 63, 1)}

Specials64 == {packToUI(MCF64, 0, 127, 0), packToUI(MCF64, 1, 127, 0),
               packToUI(MCF64, 0, 127, 1), packToUI(MCF64, 1, 127, 1024)}

MCV64 == Patterns(MCF64, 0 .. 1, {0, 1, 2, 32, 62, 63, 64, 70, 76, 126},
                  {0, 1, 1195, 2047}) \cup Specials64

\* Around the exponents where a value leaves F32 and the integers.
MCC64 == Patterns(MCF64, 0 .. 1,
                  {0, 1, 30, 31, 32, 33, 62, 63, 64, 69, 70, 71, 72, 73, 74,
                   82, 83, 84, 85, 93, 94, 95, 126},
                  {0, 1, 6, 511, 1024, 1195, 2047}) \cup Specials64

MCFma64 == Patterns(MCF64, {0}, {0, 1, 40, 63}, {16, 1360, 2032})
             \cup {packToUI(MCF64, 1, 63, 0), packToUI(MCF64, 1, 62, 672),
                   packToUI(MCF64, 1, 1, 16), packToUI(MCF64, 0, 126, 2032),
                   packToUI(MCF64, 1, 127, 0), packToUI(MCF64, 0, 127, 8), 0}

MCI32 == -1024 .. -960 \cup -70 .. 70 \cup 500 .. 530 \cup 1000 .. 1023

MCU32 == 0 .. 70 \cup 500 .. 530 \cup 1010 .. 1040 \cup 2000 .. 2047

\* Integers near powers of two of the 64-bit word.
MCU64 == 0 .. 40 \cup {x \in {2^k + d : k \in 5 .. 22, d \in -5 .. 5} : x < 2^22}

MCI64 == {x \in {s * u : s \in {-1, 1}, u \in MCU64} : x \in -(2^21) .. 2^21 - 1}

-----------------------------------------------------------------------------
(* The table of the reciprocal root, in the code's widths. *)

Table == INSTANCE RecipSqrt32

\* Inputs, without their low eight bits, for which the result is two units low.
TwoLow == {8388870, 8411057, 9331295, 9404005, 9434763, 10436970, 8388644, 8402566, 8417556,
           8466141, 9372729, 9414328, 9425674, 9430517, 9435094, 9495564, 10584739}

\* Significands whose root would be wrong, were the reciprocal two units low.
NearHalf == {16491605, 16545450, 16625182, 16675054}

\* Both ends and the middle of each of the eight segments of the table: the
\* high 24 and the low 8 bits.
Words ==
    LET segments == {2^23 + k * 2^20 : k \in 0 .. 7}
    IN  {<<s, 0>> : s \in segments \cup TwoLow}
          \cup {<<s + 2^20 - 1, 255>> : s \in segments}
          \cup {<<s + 699051, 170>> : s \in segments}

\* What RecipSqrt32 says of softfloat_approxRecipSqrt32_1 holds on these inputs.
ASSUME RecipSqrtAssumption ==
    \A odd \in 0 .. 1, w \in Words : Table!RecipSqrtContract(odd, Table!Word(w[1], w[2]))

\* What it says of f32_sqrt holds for significands whose root is exact (the
\* squares of twelve bits), for their neighbours and near a half.
ASSUME RootF32Assumption ==
    LET squares == {r * r : r \in 2897 .. 4095} \cup {2 * r * r : r \in 2048 .. 2896}
        around  == squares \cup {q + 1 : q \in squares} \cup {q - 1 : q \in squares \ {2^23}}
    IN  \A odd \in 0 .. 1, sigA \in around \cup TwoLow \cup NearHalf :
            Table!RootF32Exact(odd, sigA)

=============================================================================
