------------------------- MODULE SoftFloatVMIProofs --------------------------
(***************************************************************************)
(* Theorems about SoftFloatVMI, for every pair of formats that             *)
(* FormatAssumption and ConversionAssumption allow, the code's among them, *)
(* and every operand.                                                      *)
(***************************************************************************)
EXTENDS SoftFloatVMI, IterationTheorems

------------------------------------------------------------------------------
(* Formats and their fields *)

\* A word of a sign, Q exponents and P fractions.
Splits(Q, P, R, v) ==
    /\ v \div R \in {0, 1} /\ v % R \in 0 .. R - 1 /\ v = (v \div R) * R + (v % R)
    /\ (v \div P) % Q \in 0 .. Q - 1 /\ v % P \in 0 .. P - 1
    /\ v % R = ((v \div P) % Q) * P + (v % P)

LEMMA SplitWord ==
    ASSUME NEW Q \in Nat, NEW P \in Nat, NEW R \in Nat, Q >= 1, P >= 1, R = Q * P,
           NEW v \in Nat, v < 2 * R
    PROVE  Splits(Q, P, R, v)
<1> DEFINE s == v \div R
           m == v % R
           u == v \div P
           x == v % P
           e == u % Q
           h == u \div Q
<1>0. R >= 1
  OBVIOUS
<1>1. u \in Int /\ x \in 0 .. P - 1 /\ v = P * u + x
  OBVIOUS
<1>2. s \in Int /\ m \in 0 .. R - 1 /\ v = R * s + m
  BY <1>0
<1>3. e \in 0 .. Q - 1 /\ h \in Int /\ u = Q * h + e
  <2> HIDE DEF u
  <2> QED BY <1>1
<1>4. s \in {0, 1}
  <2> HIDE DEF s, m
  <2>2. R * s < 2 * R /\ R * s > -R
    BY <1>2
  <2>3. s < 2
    BY <1>2, <2>2
  <2>4. s > -1
    BY <1>2, <2>2
  <2> QED BY <1>2, <2>3, <2>4
<1> HIDE DEF u, s, m, x, e, h
<1> DEFINE t == e * P + x
<1>5. t \in 0 .. R - 1
  <2>1. e * P <= (Q - 1) * P /\ e * P >= 0 /\ e * P \in Int
    BY <1>1, <1>3
  <2>2. (Q - 1) * P = Q * P - P
    OBVIOUS
  <2> QED BY <1>1, <1>2, <2>1, <2>2
<1>6. v = R * h + t
  <2>1. P * u = P * (Q * h + e)
    BY <1>3
  <2>2. P * (Q * h + e) = (Q * P) * h + e * P
    BY <1>1, <1>3
  <2>3. e * P \in Int /\ R * h \in Int /\ R * h = (Q * P) * h
    BY <1>1, <1>3
  <2>4. P * u = R * h + e * P
    BY <2>1, <2>2, <2>3
  <2> QED BY <1>1, <2>3, <2>4
<1> HIDE DEF t
<1>7. v \div R = h /\ v % R = t
  BY <1>3, <1>5, <1>6, DivModUnique
<1>8. s = h /\ m = t
  BY <1>7 DEF s, m
<1>9. v = s * R + m
  BY <1>2
<1> QED BY <1>1, <1>2, <1>3, <1>4, <1>8, <1>9 DEF Splits, s, m, t, e, u, x

\* The word made of given fields.
Joins(Q, P, R, s, e, x, v) ==
    v \in 0 .. 2 * R - 1 /\ v \div R = s /\ (v \div P) % Q = e /\ v % P = x

LEMMA JoinWord ==
    ASSUME NEW Q \in Nat, NEW P \in Nat, NEW R \in Nat, Q >= 1, P >= 1, R = Q * P,
           NEW s \in {0, 1}, NEW e \in 0 .. Q - 1, NEW x \in 0 .. P - 1,
           NEW v \in Int, v = s * R + e * P + x
    PROVE  Joins(Q, P, R, s, e, x, v)
<1>1. e * P + x \in 0 .. R - 1
  <2>1. e * P <= (Q - 1) * P /\ e * P >= 0 /\ e * P \in Int
    OBVIOUS
  <2>2. (Q - 1) * P = Q * P - P
    OBVIOUS
  <2> QED BY <2>1, <2>2
<1> DEFINE t == e * P + x
           g == s * Q + e
<1>2. R >= 1 /\ s * R \in Int /\ (s = 0 => s * R = 0) /\ (s = 1 => s * R = R)
  OBVIOUS
<1>3. e * P \in Int /\ v = s * R + t
  BY <1>2
<1>4. t \in 0 .. R - 1
  BY <1>1
<1> HIDE DEF t
<1>5. v \in 0 .. 2 * R - 1 /\ v = R * s + t
  BY <1>2, <1>3, <1>4
<1>6. v \div R = s
  BY <1>4, <1>5, DivModUnique
<1>7. g \in Int /\ v = P * g + x
  <2>1. P * (s * Q + e) = s * (Q * P) + e * P
    OBVIOUS
  <2>2. s * Q \in Int
    OBVIOUS
  <2>3. v = s * (Q * P) + e * P + x
    OBVIOUS
  <2>4. P * g = s * (Q * P) + e * P
    BY <2>1
  <2> QED BY <2>2, <2>3, <2>4
<1>8. v \div P = g /\ v % P = x
  <2> HIDE DEF g
  <2> QED BY <1>5, <1>7, DivModUnique
<1>9. g % Q = e
  <2>1. g = Q * s + e
    OBVIOUS
  <2> HIDE DEF g
  <2> QED BY <1>7, <2>1, DivModUnique
<1> QED BY <1>5, <1>6, <1>8, <1>9 DEF Joins

IsFormat(f) ==
    /\ f.E \in Nat \ {0, 1} /\ f.F \in Nat \ {0} /\ f.G \in Nat /\ f.G >= 6
    /\ Width(f) \in Nat /\ Width(f) <= W64 /\ W64 \in Nat

Word(f) == 0 .. 2^(f.E + f.F + 1) - 1

LEMMA Formats == IsFormat(F32) /\ IsFormat(F64)
BY FormatAssumption DEF IsFormat, W64, W32, Width

\* The sizes of the fields, and the words they make.
LEMMA Sizes ==
    ASSUME NEW f, IsFormat(f)
    PROVE  /\ 2^f.E \in Nat /\ 2^f.E >= 2 /\ 2^f.F \in Nat /\ 2^f.F >= 2
           /\ 2^(f.F - 1) \in Nat /\ 2^(f.F - 1) >= 1 /\ 2^f.F = 2 * 2^(f.F - 1)
           /\ 2^(f.E + f.F) = 2^f.E * 2^f.F
           /\ 2^(f.E + f.F + 1) = 2 * 2^(f.E + f.F)
           /\ 2^(f.E + f.F) \in Nat /\ 2^(f.E + f.F) >= 4
<1> USE DEF IsFormat
<1>1. 2^f.E = 2 * 2^(f.E - 1) /\ 2^f.F = 2 * 2^(f.F - 1)
  BY PowerStep
<1>2. 2^(f.E - 1) \in Nat /\ 2^(f.E - 1) >= 1 /\ 2^(f.F - 1) \in Nat /\ 2^(f.F - 1) >= 1
  BY PowerOfTwo
<1>3. 2^(f.E + f.F) = 2^f.E * 2^f.F
  BY PowerSum
<1>4. f.E + f.F \in Nat /\ 2^(f.E + f.F + 1) = 2 * 2^(f.E + f.F)
  BY PowerDoubles
<1> DEFINE Q == 2^f.E
           P == 2^f.F
<1>5. Q \in Nat /\ Q >= 2 /\ P \in Nat /\ P >= 2
  BY <1>1, <1>2
<1> HIDE DEF Q, P
<1>6. Q * P \in Nat /\ Q * P >= 4
  BY <1>5
<1> QED BY <1>1, <1>2, <1>3, <1>4, <1>5, <1>6 DEF Q, P

Magnitude(f, v) == expUI(f, v) * 2^f.F + fracUI(f, v)

\* A word is made of its fields.
Fielded(f, v) ==
    /\ signUI(f, v) \in {0, 1} /\ expUI(f, v) \in 0 .. ExpMax(f)
    /\ fracUI(f, v) \in 0 .. 2^f.F - 1
    /\ Magnitude(f, v) \in 0 .. 2^(f.E + f.F) - 1
    /\ v = signUI(f, v) * 2^(f.E + f.F) + Magnitude(f, v)
    /\ v % 2^(f.E + f.F) = Magnitude(f, v)

LEMMA Fields ==
    ASSUME NEW f, IsFormat(f), NEW v \in Word(f)
    PROVE  Fielded(f, v)
<1> DEFINE Q == 2^f.E
           P == 2^f.F
           R == 2^(f.E + f.F)
<1>1. /\ Q \in Nat /\ Q >= 2 /\ P \in Nat /\ P >= 2 /\ R \in Nat /\ R >= 4 /\ R = Q * P
      /\ v \in Nat /\ v < 2 * R
  <2>1. /\ Q \in Nat /\ Q >= 2 /\ P \in Nat /\ P >= 2 /\ R \in Nat /\ R >= 4 /\ R = Q * P
        /\ 2^(f.E + f.F + 1) = 2 * R
    BY Sizes
  <2>2. v \in 0 .. 2 * R - 1
    BY <2>1 DEF Word
  <2> HIDE DEF Q, P, R
  <2> QED BY <2>1, <2>2
<1>2. /\ signUI(f, v) = v \div R /\ expUI(f, v) = (v \div P) % Q /\ fracUI(f, v) = v % P
      /\ ExpMax(f) = Q - 1 /\ Magnitude(f, v) = ((v \div P) % Q) * P + (v % P)
  BY DEF signUI, expUI, fracUI, ExpMax, Magnitude
<1> HIDE DEF Q, P, R
<1>3. Splits(Q, P, R, v)
  BY <1>1, SplitWord
<1> QED BY <1>2, <1>3 DEF Splits, Fielded, P, R

\* Packing fields makes the word that has them.
LEMMA PackedFields ==
    ASSUME NEW f, IsFormat(f), NEW s \in {0, 1}, NEW e \in 0 .. ExpMax(f), NEW x \in 0 .. 2^f.F - 1
    PROVE  /\ packToUI(f, s, e, x) \in Word(f)
           /\ signUI(f, packToUI(f, s, e, x)) = s
           /\ expUI(f, packToUI(f, s, e, x)) = e
           /\ fracUI(f, packToUI(f, s, e, x)) = x
<1> DEFINE Q == 2^f.E
           P == 2^f.F
           R == 2^(f.E + f.F)
           v == packToUI(f, s, e, x)
<1>1. /\ Q \in Nat /\ Q >= 2 /\ P \in Nat /\ P >= 2 /\ R \in Nat /\ R >= 4 /\ R = Q * P
      /\ Word(f) = 0 .. 2 * R - 1 /\ e \in 0 .. Q - 1 /\ x \in 0 .. P - 1
  <2>1. /\ Q \in Nat /\ Q >= 2 /\ P \in Nat /\ P >= 2 /\ R \in Nat /\ R >= 4 /\ R = Q * P
        /\ 2^(f.E + f.F + 1) = 2 * R
    BY Sizes
  <2>2. Word(f) = 0 .. 2 * R - 1 /\ e \in 0 .. Q - 1 /\ x \in 0 .. P - 1
    BY <2>1 DEF Word, ExpMax
  <2> QED BY <2>1, <2>2
<1>2. v = s * R + e * P + x
  BY DEF packToUI
<1>3. signUI(f, v) = v \div R /\ expUI(f, v) = (v \div P) % Q /\ fracUI(f, v) = v % P
  BY DEF signUI, expUI, fracUI
<1> HIDE DEF Q, P, R, v
<1>4. Joins(Q, P, R, s, e, x, v)
  <2>1. v \in Int /\ Q >= 1 /\ P >= 1
    BY <1>1, <1>2
  <2> QED BY <1>1, <1>2, <2>1, JoinWord, Zenon
<1> QED BY <1>1, <1>3, <1>4 DEF Joins, v

------------------------------------------------------------------------------
(* Bit lengths *)

HasBits(n, k) == k \in Nat \ {0} /\ 2^(k - 1) <= n /\ n < 2^k

LEMMA BitsUnique ==
    ASSUME NEW n \in Nat, NEW k, NEW j, HasBits(n, k), HasBits(n, j)
    PROVE  k = j
<1> USE DEF HasBits
<1>1. \A a, b \in Nat \ {0} : a < b => 2^a <= 2^(b - 1) /\ 2^a \in Nat /\ 2^(b - 1) \in Nat
  BY PowerMonotone, PowerOfTwo
<1> QED BY <1>1

LEMMA BitsExist ==
    ASSUME NEW n \in Nat, n >= 1, NEW w \in Nat, n < 2^w
    PROVE  \E k \in 1 .. w : HasBits(n, k)
<1> DEFINE T == {k \in 0 .. w : n < 2^k}
<1>1. T \subseteq Nat /\ T # {}
  OBVIOUS
<1> HIDE DEF T
<1>2. PICK k \in T : \A j \in T : k <= j
  BY <1>1, LeastElement
<1> USE DEF T
<1>3. k \in 0 .. w /\ n < 2^k /\ k # 0
  <2>1. k \in 0 .. w /\ n < 2^k
    OBVIOUS
  <2>2. ~(n < 2^0)
    BY PowerZero
  <2> QED BY <2>1, <2>2
<1>4. k - 1 \in 0 .. w /\ k - 1 \notin T
  BY <1>2, <1>3
<1>5. 2^(k - 1) \in Nat /\ 2^(k - 1) <= n
  BY <1>4, PowerOfTwo
<1> QED BY <1>3, <1>5 DEF HasBits

\* The reference's bit length is the number of bits.
LEMMA BitLenBits ==
    ASSUME NEW n \in Nat, n >= 1, W64 \in Nat, n < 2^(2 * W64)
    PROVE  HasBits(n, BitLen(n))
<1>1. PICK k \in 1 .. 2 * W64 : HasBits(n, k)
  BY BitsExist
<1> DEFINE B(j) == n \div 2^(j - 1) = 1
<1>2. ASSUME NEW j \in 1 .. 2 * W64
      PROVE  B(j) <=> HasBits(n, j)
  <2> DEFINE d == 2^(j - 1)
  <2>1. d \in Nat /\ d >= 1 /\ 2^j = 2 * d /\ j \in Nat \ {0}
    BY PowerOfTwo, PowerStep
  <2>2. HasBits(n, j) <=> d <= n /\ n < 2 * d
    BY <2>1 DEF HasBits
  <2>5. B(j) <=> n \div d = 1
    OBVIOUS
  <2> HIDE DEF d, B
  <2>3. n \div d = 1 => d <= n /\ n < 2 * d
    BY <2>1
  <2>4. ASSUME d <= n, n < 2 * d PROVE n \div d = 1
    <3>1. d * 1 <= n /\ n < d * 1 + d /\ n \in Int /\ 1 \in Int
      BY <2>1, <2>4
    <3> QED BY <2>1, <3>1, DivUnique, Zenon
  <2> QED BY <2>2, <2>3, <2>4, <2>5
<1>3. B(k)
  BY <1>1, <1>2
<1>4. BitLen(n) = CHOOSE j \in 1 .. 2 * W64 : B(j)
  <2>1. n # 0
    OBVIOUS
  <2> QED BY <2>1, Zenon DEF BitLen
<1> HIDE DEF B
<1>5. BitLen(n) \in 1 .. 2 * W64 /\ B(BitLen(n))
  BY <1>3, <1>4, Zenon
<1> QED BY <1>2, <1>5

LEMMA BitLenZero == BitLen(0) = 0
BY DEF BitLen

\* The words of a format are within the reach of BitLen.
LEMMA FormatReach ==
    ASSUME NEW f, IsFormat(f)
    PROVE  W64 \in Nat /\ 2^(2 * W64) \in Nat /\ 2 * 2^f.F <= 2^(2 * W64)
<1> USE DEF IsFormat, Width
<1>1. f.F + 1 \in 0 .. 2 * W64 /\ 2 * W64 \in Nat
  OBVIOUS
<1>2. 2^(f.F + 1) <= 2^(2 * W64)
  BY <1>1, PowerMonotone
<1>3. 2^(f.F + 1) = 2 * 2^f.F
  BY PowerDoubles
<1> QED BY <1>1, <1>2, <1>3, PowerOfTwo


LEMMA BitLenMonotone ==
    ASSUME NEW m \in Nat, NEW n \in Nat, W64 \in Nat, m < 2^(2 * W64), n < 2^(2 * W64),
           BitLen(m) < BitLen(n)
    PROVE  m < n
<1>1. CASE m = 0
  BY <1>1, BitLenZero
<1>2. CASE m >= 1 /\ n = 0
  <2>2. HasBits(m, BitLen(m))
    BY <1>2, BitLenBits
  <2> QED BY <1>2, <2>2, BitLenZero DEF HasBits
<1>3. CASE m >= 1 /\ n >= 1
  <2> DEFINE i == BitLen(m)
             j == BitLen(n)
  <2>1. HasBits(m, i) /\ HasBits(n, j) /\ i < j
    BY <1>3, BitLenBits
  <2> HIDE DEF i, j
  <2>2. i \in 0 .. (j - 1) /\ j - 1 \in Nat
    BY <2>1 DEF HasBits
  <2>3. 2^i <= 2^(j - 1) /\ 2^i \in Nat /\ 2^(j - 1) \in Nat
    BY <2>2, PowerMonotone, PowerOfTwo
  <2> QED BY <2>1, <2>3 DEF HasBits
<1> QED BY <1>1, <1>2, <1>3

------------------------------------------------------------------------------
(* The order of the numbers *)

Exponent(f, v) == IF expUI(f, v) = 0 THEN 1 ELSE expUI(f, v)

\* A significand has F + 1 bits when it has the hidden bit, and fewer when not.
SignificandLength(f, v) ==
    LET n == Significand(f, v)
    IN  /\ n \in Nat /\ n < 2^(2 * W64) /\ BitLen(n) \in Nat
        /\ expUI(f, v) # 0 => n = fracUI(f, v) + 2^f.F /\ BitLen(n) = f.F + 1
        /\ expUI(f, v) = 0 => n = fracUI(f, v) /\ BitLen(n) <= f.F

LEMMA SignificandBits ==
    ASSUME NEW f, IsFormat(f), NEW v \in Word(f)
    PROVE  SignificandLength(f, v)
<1> DEFINE P == 2^f.F
           n == Significand(f, v)
           x == fracUI(f, v)
<1>1. x \in 0 .. P - 1 /\ P \in Nat /\ P >= 2 /\ expUI(f, v) \in Nat
  BY Fields, Sizes DEF Fielded
<1>2. W64 \in Nat /\ 2^(2 * W64) \in Nat /\ 2 * P <= 2^(2 * W64)
  BY FormatReach
<1>3. /\ expUI(f, v) # 0 => n = x + P
      /\ expUI(f, v) = 0 => n = x
  BY <1>1 DEF Significand, Hidden
<1>4. n \in Nat /\ n < 2^(2 * W64)
  BY <1>1, <1>2, <1>3
<1>5. n >= 1 => HasBits(n, BitLen(n))
  BY <1>2, <1>4, BitLenBits
<1>6. n = 0 => BitLen(n) = 0
  BY BitLenZero
<1> HIDE DEF n
<1>7. ASSUME expUI(f, v) # 0 PROVE BitLen(n) = f.F + 1
  <2>1. n >= 1 /\ P <= n /\ n < 2 * P
    BY <1>1, <1>3, <1>7
  <2>2. f.F + 1 \in Nat \ {0} /\ (f.F + 1) - 1 = f.F /\ 2^(f.F + 1) = 2 * P
    BY PowerDoubles DEF IsFormat
  <2>3. HasBits(n, f.F + 1)
    BY <2>1, <2>2 DEF HasBits
  <2> QED BY <1>4, <1>5, <2>1, <2>3, BitsUnique
<1>8. ASSUME expUI(f, v) = 0 PROVE BitLen(n) <= f.F
  <2>1. n < P
    BY <1>1, <1>3, <1>8
  <2>2. CASE n = 0
    BY <1>6, <2>2 DEF IsFormat
  <2>3. CASE n >= 1
    <3> DEFINE k == BitLen(n)
    <3>1. k \in Nat \ {0} /\ 2^(k - 1) <= n
      BY <1>5, <2>3 DEF HasBits
    <3> HIDE DEF k
    <3>2. f.F \in Nat
      BY DEF IsFormat
    <3>3. ASSUME k > f.F PROVE FALSE
      <4>1. f.F \in 0 .. (k - 1) /\ k - 1 \in Nat
        BY <3>1, <3>2, <3>3
      <4>2. P <= 2^(k - 1) /\ 2^(k - 1) \in Nat
        BY <4>1, PowerMonotone, PowerOfTwo
      <4> QED BY <1>1, <1>4, <2>1, <3>1, <4>2
    <3>4. k <= f.F
      BY <3>1, <3>2, <3>3
    <3> QED BY <3>4 DEF k
  <2> QED BY <1>4, <2>2, <2>3
<1>9. BitLen(n) \in Nat
  BY <1>4, <1>5, <1>6 DEF HasBits
<1> QED BY <1>3, <1>4, <1>7, <1>8, <1>9 DEF SignificandLength, n

LEMMA MagOfFields ==
    ASSUME NEW f, IsFormat(f), NEW v \in Word(f)
    PROVE  /\ MagOf(f, v) = [n |-> Significand(f, v), d |-> 1, e |-> Exponent(f, v) - Bias(f) - f.F]
           /\ Bias(f) \in Int /\ f.F \in Nat /\ Exponent(f, v) \in Nat
<1>1. f.E - 1 \in Nat /\ f.F \in Nat
  BY DEF IsFormat
<1>2. 2^(f.E - 1) \in Nat
  BY <1>1, PowerOfTwo
<1>3. expUI(f, v) \in Nat
  BY Fields DEF Fielded
<1> QED BY <1>1, <1>2, <1>3 DEF MagOf, Mag, Exponent, Bias


\* Finite magnitudes are ordered as the words without their signs.
LEMMA LargerIsAbove ==
    ASSUME NEW f, IsFormat(f), NEW a \in Word(f), NEW b \in Word(f)
    PROVE  Larger(MagOf(f, a), MagOf(f, b)) <=> Magnitude(f, a) >= Magnitude(f, b)
<1> DEFINE P == 2^f.F
           na == Significand(f, a)
           nb == Significand(f, b)
           la == BitLen(na)
           lb == BitLen(nb)
           ea == expUI(f, a)
           eb == expUI(f, b)
           xa == Exponent(f, a)
           xb == Exponent(f, b)
           c  == Bias(f) + f.F
           k  == xa - xb
           R  == la + xa > lb + xb \/ (la + xa = lb + xb /\ IF k >= 0 THEN na * 2^k >= nb ELSE na >= nb * 2^(-k))
<1>1. /\ na \in Nat /\ nb \in Nat /\ la \in Nat /\ lb \in Nat
      /\ na < 2^(2 * W64) /\ nb < 2^(2 * W64)
      /\ ea # 0 => na = fracUI(f, a) + P /\ la = f.F + 1
      /\ ea = 0 => na = fracUI(f, a) /\ la <= f.F
      /\ eb # 0 => nb = fracUI(f, b) + P /\ lb = f.F + 1
      /\ eb = 0 => nb = fracUI(f, b) /\ lb <= f.F
  BY SignificandBits DEF SignificandLength
<1>2. /\ MagOf(f, a) = [n |-> na, d |-> 1, e |-> xa - Bias(f) - f.F]
      /\ MagOf(f, b) = [n |-> nb, d |-> 1, e |-> xb - Bias(f) - f.F]
      /\ Bias(f) \in Int /\ f.F \in Nat /\ xa \in Nat /\ xb \in Nat
  BY MagOfFields
<1>3. /\ fracUI(f, a) \in 0 .. P - 1 /\ fracUI(f, b) \in 0 .. P - 1 /\ ea \in Nat /\ eb \in Nat
      /\ Magnitude(f, a) = ea * P + fracUI(f, a) /\ Magnitude(f, b) = eb * P + fracUI(f, b)
      /\ P \in Nat /\ P >= 2
  BY Fields, Sizes DEF Fielded, Magnitude
<1>4. xa = (IF ea = 0 THEN 1 ELSE ea) /\ xb = (IF eb = 0 THEN 1 ELSE eb)
  BY DEF Exponent
<1> HIDE DEF na, nb, xa, xb, la, lb
<1>5. Larger(MagOf(f, a), MagOf(f, b)) <=> R
  <2>1. Larger([n |-> na, d |-> 1, e |-> xa - Bias(f) - f.F], [n |-> nb, d |-> 1, e |-> xb - Bias(f) - f.F])
          <=> \/ BitLen(na) + (xa - Bias(f) - f.F) > BitLen(nb) + (xb - Bias(f) - f.F)
              \/ /\ BitLen(na) + (xa - Bias(f) - f.F) = BitLen(nb) + (xb - Bias(f) - f.F)
                 /\ IF (xa - Bias(f) - f.F) - (xb - Bias(f) - f.F) >= 0
                    THEN na * 2^((xa - Bias(f) - f.F) - (xb - Bias(f) - f.F)) >= nb
                    ELSE na >= nb * 2^(-((xa - Bias(f) - f.F) - (xb - Bias(f) - f.F)))
    BY DEF Larger
  <2>2. (xa - Bias(f) - f.F) - (xb - Bias(f) - f.F) = k
    BY <1>2
  <2> QED BY <1>1, <1>2, <2>1, <2>2 DEF la, lb
<1> HIDE DEF ea, eb, P, k
<1>6. CASE ea # 0 /\ eb # 0
  <2>1. CASE ea = eb
    <3>0. k = 0
      BY <1>2, <1>4, <2>1 DEF k
    <3>1. k = 0 /\ na * 2^k = na
      BY <1>1, <3>0, PowerZero
    <3>2. ea * P = eb * P /\ ea * P \in Int
      BY <1>3, <2>1
    <3>3. R <=> na >= nb
      BY <1>1, <1>2, <1>4, <1>6, <2>1, <3>1
    <3> QED BY <1>1, <1>3, <1>5, <1>6, <3>2, <3>3
  <2>2. CASE ea > eb
    <3>1. ea * P >= (eb + 1) * P /\ (eb + 1) * P = eb * P + P /\ eb * P \in Int /\ ea * P \in Int
      BY <1>3, <2>2
    <3>2. R
      BY <1>1, <1>2, <1>4, <1>6, <2>2
    <3> QED BY <1>3, <1>5, <3>1, <3>2
  <2>3. CASE ea < eb
    <3>1. eb * P >= (ea + 1) * P /\ (ea + 1) * P = ea * P + P /\ eb * P \in Int /\ ea * P \in Int
      BY <1>3, <2>3
    <3>2. ~R
      BY <1>1, <1>2, <1>4, <1>6, <2>3
    <3> QED BY <1>3, <1>5, <3>1, <3>2
  <2> QED BY <1>3, <2>1, <2>2, <2>3
<1>7. CASE ea # 0 /\ eb = 0
  <2>1. ea * P >= P /\ ea * P \in Int /\ eb * P = 0
    BY <1>3, <1>7
  <2>2. R
    BY <1>1, <1>2, <1>3, <1>4, <1>7
  <2> QED BY <1>3, <1>5, <2>1, <2>2
<1>8. CASE ea = 0 /\ eb # 0
  <2>1. eb * P >= P /\ eb * P \in Int /\ ea * P = 0
    BY <1>3, <1>8
  <2>2. ~R
    BY <1>1, <1>2, <1>3, <1>4, <1>8
  <2> QED BY <1>3, <1>5, <2>1, <2>2
<1>9. CASE ea = 0 /\ eb = 0
  <2>1. ea * P = 0 /\ eb * P = 0
    BY <1>3, <1>9
  <2>2. k = 0 /\ na * 2^k = na
    BY <1>1, <1>2, <1>4, <1>9, PowerZero DEF k
  <2>3. R <=> la > lb \/ (la = lb /\ na >= nb)
    BY <1>1, <1>2, <1>4, <1>9, <2>2
  <2>4. W64 \in Nat
    BY DEF IsFormat
  <2>5. (la > lb => na > nb) /\ (la < lb => na < nb)
    BY <1>1, <2>4, BitLenMonotone DEF la, lb
  <2> QED BY <1>1, <1>3, <1>5, <1>9, <2>1, <2>3, <2>5
<1> QED BY <1>6, <1>7, <1>8, <1>9


\* The kinds of a word, by its magnitude: M is that of the infinities.
MaxMagnitude(f) == ExpMax(f) * 2^f.F

Kinds(f, v) ==
    /\ IsInf(f, v) <=> Magnitude(f, v) = MaxMagnitude(f)
    /\ IsNaN(f, v) <=> Magnitude(f, v) > MaxMagnitude(f)
    /\ isZero(f, v) <=> Magnitude(f, v) = 0
    /\ isNaN(f, v) <=> IsNaN(f, v)
    /\ isSNaN(f, v) <=> isSigNaN(f, v)
    /\ isQNaN(f, v) <=> IsNaN(f, v) /\ ~isSigNaN(f, v)
    /\ isSigNaN(f, v) => IsNaN(f, v)
    /\ isNaNorInf(f, v) <=> Magnitude(f, v) >= MaxMagnitude(f)

LEMMA WordKinds ==
    ASSUME NEW f, IsFormat(f), NEW v \in Word(f)
    PROVE  Kinds(f, v) /\ Magnitude(f, v) \in Nat /\ MaxMagnitude(f) \in Nat /\ MaxMagnitude(f) > 0
<1> DEFINE P == 2^f.F
           e == expUI(f, v)
           x == fracUI(f, v)
           X == ExpMax(f)
           h == 2^(f.F - 1)
<1>1. /\ e \in 0 .. X /\ x \in 0 .. P - 1 /\ P \in Nat /\ P >= 2
      /\ h \in Nat /\ h >= 1 /\ P = 2 * h /\ X \in Nat /\ X >= 1
      /\ Magnitude(f, v) = e * P + x /\ MaxMagnitude(f) = X * P
      /\ v % 2^(f.E + f.F) = e * P + x
  BY Fields, Sizes DEF Fielded, Magnitude, ExpMax, MaxMagnitude
<1>2. /\ IsInf(f, v) <=> e = X /\ x = 0
      /\ IsNaN(f, v) <=> e = X /\ x # 0
      /\ isZero(f, v) <=> e * P + x = 0
      /\ isNaN(f, v) <=> e = X /\ x # 0
      /\ isSNaN(f, v) <=> e = X /\ x # 0 /\ ~(x >= h)
      /\ isQNaN(f, v) <=> e = X /\ x # 0 /\ x >= h
      /\ isSigNaN(f, v) <=> e = X /\ x \in 1 .. h - 1
      /\ isNaNorInf(f, v) <=> e = X
  BY <1>1 DEF IsInf, IsNaN, IsSpecial, isZero, isNaN, isSNaN, isQNaN, isSigNaN, Quiet, isNaNorInf
<1> HIDE DEF P, e, x, X, h
<1>3. /\ e * P \in Nat /\ X * P \in Nat /\ X * P > 0
      /\ e = X => e * P = X * P
      /\ e # X => e * P <= X * P - P
  <2>1. e * P \in Nat /\ X * P \in Nat /\ X * P > 0
    BY <1>1
  <2>2. e # X => e * P <= (X - 1) * P
    BY <1>1
  <2>3. (X - 1) * P = X * P - P
    BY <1>1
  <2> QED BY <1>1, <2>1, <2>2, <2>3
<1>4. /\ (e = X /\ x = 0) <=> e * P + x = X * P
      /\ (e = X /\ x # 0) <=> e * P + x > X * P
      /\ e = X <=> e * P + x >= X * P
      /\ e * P + x \in Nat
  BY <1>1, <1>3
<1>5. /\ (e = X /\ x # 0 /\ ~(x >= h)) <=> (e = X /\ x \in 1 .. h - 1)
      /\ (e = X /\ x # 0 /\ x >= h) <=> (e = X /\ x # 0) /\ ~(e = X /\ x \in 1 .. h - 1)
      /\ (e = X /\ x \in 1 .. h - 1) => (e = X /\ x # 0)
  BY <1>1
<1>6. Kinds(f, v)
  BY <1>1, <1>2, <1>4, <1>5 DEF Kinds
<1> QED BY <1>1, <1>3, <1>4, <1>6

LEMMA DefaultNaN ==
    ASSUME NEW f, IsFormat(f)
    PROVE  defaultNaN(f) \in Word(f) /\ IsNaN(f, defaultNaN(f)) /\ isNaNorInf(f, defaultNaN(f))
<1>1. /\ 2^(f.F - 1) \in 0 .. 2^f.F - 1 /\ 2^(f.F - 1) # 0 /\ ExpMax(f) \in 0 .. ExpMax(f) /\ 0 \in {0, 1}
  BY Sizes DEF ExpMax
<1>2. /\ defaultNaN(f) \in Word(f) /\ expUI(f, defaultNaN(f)) = ExpMax(f)
      /\ fracUI(f, defaultNaN(f)) = 2^(f.F - 1)
  BY <1>1, PackedFields DEF defaultNaN
<1> QED BY <1>1, <1>2 DEF IsNaN, IsSpecial, isNaNorInf

LEMMA KeyOrder ==
    ASSUME NEW f, IsFormat(f), NEW v \in Word(f)
    PROVE  /\ signUI(f, v) \in {0, 1} /\ Magnitude(f, v) \in Nat /\ Key(f, v) \in Int
           /\ signUI(f, v) = 1 => Key(f, v) = -Magnitude(f, v)
           /\ signUI(f, v) = 0 => Key(f, v) = Magnitude(f, v)
<1>1. Fielded(f, v) /\ 2^(f.E + f.F) \in Nat
  BY Fields, Sizes
<1>2. signUI(f, v) = 0 => v = Magnitude(f, v)
  BY <1>1 DEF Fielded
<1> QED BY <1>1, <1>2 DEF Fielded, Key

\* Words of the same sign and magnitude are the same.
LEMMA SameWord ==
    ASSUME NEW f, IsFormat(f), NEW a \in Word(f), NEW b \in Word(f),
           signUI(f, a) = signUI(f, b), Magnitude(f, a) = Magnitude(f, b)
    PROVE  a = b
BY Fields DEF Fielded

\* The reference's order of the numbers is the order of the host.
LEMMA AtMostIsOrder ==
    ASSUME NEW f, IsFormat(f), NEW a \in Word(f), NEW b \in Word(f), ~IsNaN(f, a), ~IsNaN(f, b)
    PROVE  AtMost(f, a, b) <=> Key(f, a) <= Key(f, b)
<1> DEFINE M == MaxMagnitude(f)
           ma == Magnitude(f, a)
           mb == Magnitude(f, b)
           sa == signUI(f, a)
           sb == signUI(f, b)
           ka == Key(f, a)
           kb == Key(f, b)
<1>1. /\ M \in Nat /\ M > 0 /\ ma \in Nat /\ mb \in Nat /\ ma <= M /\ mb <= M
      /\ IsInf(f, a) <=> ma = M
      /\ IsInf(f, b) <=> mb = M
      /\ isZero(f, a) <=> ma = 0
      /\ isZero(f, b) <=> mb = 0
  <2>1. Kinds(f, a) /\ Kinds(f, b) /\ M \in Nat /\ M > 0 /\ ma \in Nat /\ mb \in Nat
    BY WordKinds
  <2> QED BY <2>1 DEF Kinds
<1>2. /\ sa \in {0, 1} /\ sb \in {0, 1} /\ ka \in Int /\ kb \in Int
      /\ (sa = 1 => ka = -ma) /\ (sa = 0 => ka = ma)
      /\ (sb = 1 => kb = -mb) /\ (sb = 0 => kb = mb)
  BY KeyOrder
<1>3. sa = sb /\ ma = mb => a = b
  BY SameWord
<1>4. a = b => sa = sb /\ ma = mb
  OBVIOUS
<1>5. AtMost(f, a, b) <=>
        IF ma = M THEN sa = 1 \/ a = b
        ELSE IF mb = M THEN sb = 0
        ELSE IF ma = 0 /\ mb = 0 THEN TRUE
        ELSE IF sa # sb THEN sa = 1
        ELSE IF sa = 0 THEN mb >= ma
        ELSE ma >= mb
  <2>1. Larger(MagOf(f, a), MagOf(f, b)) <=> ma >= mb
    BY LargerIsAbove
  <2>2. Larger(MagOf(f, b), MagOf(f, a)) <=> mb >= ma
    BY LargerIsAbove
  <2> HIDE DEF ma, mb, M
  <2> QED BY <1>1, <2>1, <2>2 DEF AtMost
<1> HIDE DEF ma, mb, M, sa, sb, ka, kb
<1>6. AtMost(f, a, b) <=> ka <= kb
  BY <1>1, <1>2, <1>3, <1>4, <1>5
<1> QED BY <1>6 DEF ka, kb


------------------------------------------------------------------------------
(* Signs *)

\* b is a with the sign s.
Resigned(f, s, a, b) ==
    /\ b \in Word(f) /\ signUI(f, b) = s
    /\ expUI(f, b) = expUI(f, a) /\ fracUI(f, b) = fracUI(f, a)
    /\ Magnitude(f, b) = Magnitude(f, a)

LEMMA WithSign ==
    ASSUME NEW f, IsFormat(f), NEW a \in Word(f), NEW s \in {0, 1}
    PROVE  Resigned(f, s, a, s * 2^(f.E + f.F) + Magnitude(f, a))
<1> DEFINE e == expUI(f, a)
           x == fracUI(f, a)
           R == 2^(f.E + f.F)
           P == 2^f.F
           w == packToUI(f, s, e, x)
<1>1. e \in 0 .. ExpMax(f) /\ x \in 0 .. 2^f.F - 1
  BY Fields DEF Fielded
<1>2. w \in Word(f) /\ signUI(f, w) = s /\ expUI(f, w) = e /\ fracUI(f, w) = x
  BY <1>1, PackedFields
<1>3. w = s * R + e * P + x /\ Magnitude(f, a) = e * P + x
  BY DEF packToUI, Magnitude
<1>4. e \in Int /\ x \in Int /\ P \in Int /\ R \in Int
  BY <1>1, Sizes DEF ExpMax
<1> HIDE DEF e, x, R, P
<1>5. w = s * R + Magnitude(f, a)
  <2>1. s * R \in Int /\ e * P \in Int
    BY <1>4
  <2> QED BY <1>3, <1>4, <2>1
<1>6. Resigned(f, s, a, w)
  BY <1>2 DEF Resigned, Magnitude, e, x
<1> QED BY <1>5, <1>6 DEF R

LEMMA NegatedSign ==
    ASSUME NEW f, IsFormat(f), NEW a \in Word(f)
    PROVE  Resigned(f, 1 - signUI(f, a), a, Negated(f, a))
<1> DEFINE R == 2^(f.E + f.F)
           s == signUI(f, a)
           m == Magnitude(f, a)
<1>1. s \in {0, 1} /\ m \in 0 .. R - 1 /\ a = s * R + m /\ R \in Nat /\ 2^(f.E + f.F + 1) = 2 * R
  BY Fields, Sizes DEF Fielded
<1>2. Negated(f, a) = (a + R) % (2 * R)
  BY <1>1 DEF Negated
<1> HIDE DEF R, s, m
<1>3. (a + R) % (2 * R) = (1 - s) * R + m
  <2>1. CASE s = 0
    <3>1. a + R \in Int /\ 2 * R \in Nat /\ 0 \in Int /\ a + R \in Nat /\ a + R < 2 * R /\ a + R = (2 * R) * 0 + (a + R)
      BY <1>1, <2>1
    <3>2. (a + R) % (2 * R) = a + R
      BY <3>1, DivModUnique
    <3> QED BY <1>1, <2>1, <3>2
  <2>2. CASE s = 1
    <3>1. a + R \in Int /\ 2 * R \in Nat /\ 1 \in Int /\ m \in Nat /\ m < 2 * R /\ a + R = (2 * R) * 1 + m
      BY <1>1, <2>2
    <3>2. (a + R) % (2 * R) = m
      BY <3>1, DivModUnique
    <3> QED BY <1>1, <2>2, <3>2
  <2> QED BY <1>1, <2>1, <2>2
<1>4. 1 - s \in {0, 1}
  BY <1>1
<1> QED BY <1>2, <1>3, <1>4, WithSign DEF R, s, m

\* A word resigned keeps its kind, and its opposite is the negated number.
LEMMA NegatedKind ==
    ASSUME NEW f, IsFormat(f), NEW a \in Word(f)
    PROVE  /\ Negated(f, a) \in Word(f) /\ signUI(f, Negated(f, a)) = 1 - signUI(f, a)
           /\ IsNaN(f, Negated(f, a)) <=> IsNaN(f, a)
           /\ isSigNaN(f, Negated(f, a)) <=> isSigNaN(f, a)
           /\ isZero(f, Negated(f, a)) <=> isZero(f, a)
           /\ Key(f, Negated(f, a)) = -Key(f, a)
<1> DEFINE b == Negated(f, a)
<1>1. /\ b \in Word(f) /\ signUI(f, b) = 1 - signUI(f, a) /\ expUI(f, b) = expUI(f, a)
      /\ fracUI(f, b) = fracUI(f, a) /\ Magnitude(f, b) = Magnitude(f, a)
  BY NegatedSign DEF Resigned
<1> HIDE DEF b
<1>2. Kinds(f, a) /\ Kinds(f, b)
  BY <1>1, WordKinds
<1>3. /\ signUI(f, a) \in {0, 1} /\ Magnitude(f, a) \in Nat
      /\ signUI(f, a) = 1 => Key(f, a) = -Magnitude(f, a)
      /\ signUI(f, a) = 0 => Key(f, a) = Magnitude(f, a)
      /\ signUI(f, b) = 1 => Key(f, b) = -Magnitude(f, b)
      /\ signUI(f, b) = 0 => Key(f, b) = Magnitude(f, b)
  BY <1>1, KeyOrder
<1>4. Key(f, b) = -Key(f, a)
  BY <1>1, <1>3
<1>5. isSigNaN(f, b) <=> isSigNaN(f, a)
  BY <1>1 DEF isSigNaN
<1> QED BY <1>1, <1>2, <1>4, <1>5 DEF b, Kinds

------------------------------------------------------------------------------
(* FMIN and FMAX *)

Signals(f, a, b) == isSigNaN(f, a) \/ isSigNaN(f, b)

\* What an operation returns when an operand is a NaN.
NaNOutcome(f, ver, a, b, r) ==
    /\ IsNaN(f, a) \/ IsNaN(f, b)
    /\ r = [v |-> IF (IsNaN(f, a) /\ IsNaN(f, b)) \/ (Signals(f, a, b) /\ ver = "2.2")
                  THEN defaultNaN(f)
                  ELSE IF IsNaN(f, a) THEN b ELSE a,
            fl |-> IF Signals(f, a, b) THEN {"invalid"} ELSE {}]

\* r is the least of two numbers.
LeastOutcome(f, ver, a, b, r) ==
    /\ ~IsNaN(f, a) /\ ~IsNaN(f, b)
    /\ r = Exact(r.v) /\ r.v \in {a, b}
    /\ Key(f, r.v) <= Key(f, a) /\ Key(f, r.v) <= Key(f, b)
    /\ (ver = "2.3" /\ isZero(f, a) /\ isZero(f, b))
          => (signUI(f, r.v) = 1 <=> signUI(f, a) = 1 \/ signUI(f, b) = 1)

LEMMA NaNOutcomeIsMin ==
    ASSUME NEW f, IsFormat(f), NEW a \in Word(f), NEW b \in Word(f), NEW ver \in {"2.2", "2.3"},
           NEW r, NaNOutcome(f, ver, a, b, r)
    PROVE  MinSpec(f, a, b, ver, r)
<1> DEFINE nums == {x \in {a, b} : ~IsNaN(f, x)}
           signal == isSigNaN(f, a) \/ isSigNaN(f, b)
<1>1. /\ isSigNaN(f, a) => IsNaN(f, a)
      /\ isSigNaN(f, b) => IsNaN(f, b)
      /\ isZero(f, a) => ~IsNaN(f, a)
      /\ isZero(f, b) => ~IsNaN(f, b)
  BY WordKinds DEF Kinds
<1>2. /\ ~IsNaN(f, a) => AtMost(f, a, a)
      /\ ~IsNaN(f, b) => AtMost(f, b, b)
  BY AtMostIsOrder, KeyOrder
<1>3. r.fl = IF signal THEN {"invalid"} ELSE {}
  BY DEF NaNOutcome, Signals
<1>4. nums = {} <=> IsNaN(f, a) /\ IsNaN(f, b)
  OBVIOUS
<1>5. ~(\A x \in {a, b} : isZero(f, x))
  BY <1>1 DEF NaNOutcome
<1>6. CASE (IsNaN(f, a) /\ IsNaN(f, b)) \/ (signal /\ ver = "2.2")
  <2>1. r.v = defaultNaN(f)
    BY <1>6 DEF NaNOutcome, Signals
  <2> QED BY <1>3, <1>4, <1>6, <2>1, Zenon DEF MinSpec
<1>7. CASE ~((IsNaN(f, a) /\ IsNaN(f, b)) \/ (signal /\ ver = "2.2"))
  <2>1. r.v = (IF IsNaN(f, a) THEN b ELSE a) /\ (IsNaN(f, a) \/ IsNaN(f, b))
    BY <1>7 DEF NaNOutcome, Signals
  <2>2. r.v \in nums /\ \A x \in nums : AtMost(f, r.v, x)
    BY <1>2, <1>7, <2>1
  <2> QED BY <1>3, <1>4, <1>5, <1>7, <2>2, Zenon DEF MinSpec
<1> QED BY <1>6, <1>7

LEMMA LeastOutcomeIsMin ==
    ASSUME NEW f, IsFormat(f), NEW a \in Word(f), NEW b \in Word(f), NEW ver \in {"2.2", "2.3"},
           NEW r, LeastOutcome(f, ver, a, b, r)
    PROVE  MinSpec(f, a, b, ver, r)
<1> DEFINE nums == {x \in {a, b} : ~IsNaN(f, x)}
           signal == isSigNaN(f, a) \/ isSigNaN(f, b)
<1>1. ~IsNaN(f, a) /\ ~IsNaN(f, b) /\ r.fl = {} /\ r.v \in {a, b}
  BY DEF LeastOutcome, Exact
<1>2. ~signal
  BY <1>1, WordKinds DEF Kinds
<1>3. nums = {a, b} /\ nums # {}
  BY <1>1
<1>4. AtMost(f, r.v, a) /\ AtMost(f, r.v, b)
  <2>1. r.v \in Word(f) /\ ~IsNaN(f, r.v)
    BY <1>1
  <2>2. Key(f, r.v) <= Key(f, a) /\ Key(f, r.v) <= Key(f, b)
    BY DEF LeastOutcome
  <2> QED BY <1>1, <2>1, <2>2, AtMostIsOrder
<1>5. (ver = "2.3" /\ \A x \in {a, b} : isZero(f, x))
         => (signUI(f, r.v) = 1 <=> \E x \in {a, b} : signUI(f, x) = 1)
  BY DEF LeastOutcome
<1>6. r.v \in nums /\ \A x \in nums : AtMost(f, r.v, x)
  BY <1>1, <1>3, <1>4
<1> QED BY <1>1, <1>2, <1>3, <1>5, <1>6, Zenon DEF MinSpec

\* The common result handlers: numbers keep the host's result.
LEMMA Handlers ==
    ASSUME NEW f, IsFormat(f), NEW a \in Word(f), NEW b \in Word(f), NEW native
    PROVE  /\ ~IsNaN(f, a) /\ ~IsNaN(f, b) => /\ doMinMax_2_2(f, native, a, b) = Exact(native)
                                              /\ doMinMax_2_3(f, native, a, b) = Exact(native)
           /\ IsNaN(f, a) \/ IsNaN(f, b) => /\ NaNOutcome(f, "2.2", a, b, doMinMax_2_2(f, native, a, b))
                                            /\ NaNOutcome(f, "2.3", a, b, doMinMax_2_3(f, native, a, b))
<1>1. /\ isNaN(f, a) <=> IsNaN(f, a)
      /\ isNaN(f, b) <=> IsNaN(f, b)
      /\ isSNaN(f, a) <=> isSigNaN(f, a)
      /\ isSNaN(f, b) <=> isSigNaN(f, b)
      /\ isQNaN(f, a) <=> IsNaN(f, a) /\ ~isSigNaN(f, a)
      /\ isQNaN(f, b) <=> IsNaN(f, b) /\ ~isSigNaN(f, b)
      /\ isSigNaN(f, a) => IsNaN(f, a)
      /\ isSigNaN(f, b) => IsNaN(f, b)
  BY WordKinds DEF Kinds
<1>2. ASSUME ~IsNaN(f, a), ~IsNaN(f, b)
      PROVE  doMinMax_2_2(f, native, a, b) = Exact(native) /\ doMinMax_2_3(f, native, a, b) = Exact(native)
  BY <1>1, <1>2 DEF doMinMax_2_2, doMinMax_2_3, Exact
<1>3. ASSUME IsNaN(f, a) \/ IsNaN(f, b)
      PROVE  NaNOutcome(f, "2.2", a, b, doMinMax_2_2(f, native, a, b))
  <2>1. CASE Signals(f, a, b)
    <3>1. doMinMax_2_2(f, native, a, b) = Invalid(f)
      BY <1>1, <2>1 DEF doMinMax_2_2, Signals
    <3> QED BY <1>3, <2>1, <3>1 DEF NaNOutcome, Invalid
  <2>2. CASE ~Signals(f, a, b) /\ IsNaN(f, a) /\ IsNaN(f, b)
    <3>1. doMinMax_2_2(f, native, a, b) = Exact(defaultNaN(f))
      BY <1>1, <2>2 DEF doMinMax_2_2, Signals
    <3> QED BY <1>3, <2>2, <3>1 DEF NaNOutcome, Exact
  <2>3. CASE ~Signals(f, a, b) /\ IsNaN(f, a) /\ ~IsNaN(f, b)
    <3>1. doMinMax_2_2(f, native, a, b) = Exact(b)
      BY <1>1, <2>3 DEF doMinMax_2_2, Signals
    <3> QED BY <1>3, <2>3, <3>1 DEF NaNOutcome, Exact
  <2>4. CASE ~Signals(f, a, b) /\ ~IsNaN(f, a) /\ IsNaN(f, b)
    <3>1. doMinMax_2_2(f, native, a, b) = Exact(a)
      BY <1>1, <2>4 DEF doMinMax_2_2, Signals
    <3> QED BY <1>3, <2>4, <3>1 DEF NaNOutcome, Exact
  <2> QED BY <1>3, <2>1, <2>2, <2>3, <2>4
<1>4. ASSUME IsNaN(f, a) \/ IsNaN(f, b)
      PROVE  NaNOutcome(f, "2.3", a, b, doMinMax_2_3(f, native, a, b))
  <2> DEFINE y == IF IsNaN(f, a) /\ IsNaN(f, b) THEN defaultNaN(f) ELSE IF IsNaN(f, a) THEN b ELSE a
             g == IF Signals(f, a, b) THEN {"invalid"} ELSE {}
  <2>1. doMinMax_2_3(f, native, a, b).v = y
    BY <1>1, <1>4 DEF doMinMax_2_3
  <2>2. doMinMax_2_3(f, native, a, b).fl = g
    BY <1>1 DEF doMinMax_2_3, Signals
  <2>3. doMinMax_2_3(f, native, a, b) = [v |-> y, fl |-> g]
    BY <2>1, <2>2 DEF doMinMax_2_3
  <2> QED BY <1>4, <2>3 DEF NaNOutcome
<1> QED BY <1>2, <1>3, <1>4

\* Facts about two operands that FMIN and FMAX distinguish.
LEMMA TwoZeros ==
    ASSUME NEW f, IsFormat(f), NEW a \in Word(f), NEW b \in Word(f), isZero(f, a), isZero(f, b)
    PROVE  /\ ~IsNaN(f, a) /\ ~IsNaN(f, b) /\ Key(f, a) = 0 /\ Key(f, b) = 0
           /\ signUI(f, a) \in {0, 1} /\ signUI(f, b) \in {0, 1}
           /\ a > b <=> signUI(f, a) = 1 /\ signUI(f, b) = 0
<1> DEFINE R == 2^(f.E + f.F)
<1>1. /\ Magnitude(f, a) = 0 /\ Magnitude(f, b) = 0 /\ ~IsNaN(f, a) /\ ~IsNaN(f, b)
  BY WordKinds DEF Kinds
<1>2. /\ signUI(f, a) \in {0, 1} /\ signUI(f, b) \in {0, 1} /\ R \in Nat /\ R >= 4
      /\ a = signUI(f, a) * R + Magnitude(f, a) /\ b = signUI(f, b) * R + Magnitude(f, b)
  BY Fields, Sizes DEF Fielded
<1> HIDE DEF R
<1>3. a > b <=> signUI(f, a) = 1 /\ signUI(f, b) = 0
  BY <1>1, <1>2
<1>4. Key(f, a) = 0 /\ Key(f, b) = 0
  BY <1>1, KeyOrder
<1> QED BY <1>1, <1>2, <1>3, <1>4

LEMMA MinCorrect ==
    ASSUME NEW f, IsFormat(f), NEW a \in Word(f), NEW b \in Word(f), NEW ver \in {"2.2", "2.3"}
    PROVE  MinSpec(f, a, b, ver, FMin(f, ver, a, b))
<1> DEFINE r == FMin(f, ver, a, b)
           h == HostMin(f, a, b)
<1>1. r = IF ver = "2.2" THEN doFMin_2_2(f, h, a, b) ELSE doFMin_2_3(f, h, a, b)
  BY DEF FMin
<1>2. (isNaN(f, a) <=> IsNaN(f, a)) /\ (isNaN(f, b) <=> IsNaN(f, b))
  BY WordKinds DEF Kinds
<1>3. /\ isZero(f, a) => ~IsNaN(f, a)
      /\ isZero(f, b) => ~IsNaN(f, b)
  BY WordKinds DEF Kinds
<1>4. CASE IsNaN(f, a) \/ IsNaN(f, b)
  <2>1. h = defaultNaN(f) /\ isNaNorInf(f, h) /\ ~BothZero(f, a, b)
    BY <1>2, <1>3, <1>4, DefaultNaN DEF HostMin, BothZero
  <2> HIDE DEF h
  <2>2. r = IF ver = "2.2" THEN doMinMax_2_2(f, h, a, b) ELSE doMinMax_2_3(f, h, a, b)
    BY <1>1, <2>1 DEF doFMin_2_2, doFMin_2_3
  <2>3. NaNOutcome(f, ver, a, b, r)
    BY <1>4, <2>2, Handlers
  <2> QED BY <2>3, NaNOutcomeIsMin
<1>5. CASE BothZero(f, a, b)
  <2>1. r = Exact(IF ver = "2.3" /\ a > b THEN a ELSE b)
    BY <1>1, <1>5 DEF doFMin_2_2, doFMin_2_3
  <2>2. /\ isZero(f, a) /\ isZero(f, b) /\ ~IsNaN(f, a) /\ ~IsNaN(f, b) /\ Key(f, a) = 0 /\ Key(f, b) = 0
        /\ signUI(f, a) \in {0, 1} /\ signUI(f, b) \in {0, 1}
        /\ a > b <=> signUI(f, a) = 1 /\ signUI(f, b) = 0
    BY <1>5, TwoZeros DEF BothZero
  <2>3. LeastOutcome(f, ver, a, b, r)
    BY <2>1, <2>2 DEF LeastOutcome, Exact
  <2> QED BY <2>3, LeastOutcomeIsMin
<1>6. CASE ~IsNaN(f, a) /\ ~IsNaN(f, b) /\ ~BothZero(f, a, b)
  <2>1. h = IF Key(f, a) < Key(f, b) THEN a ELSE b
    BY <1>2, <1>6 DEF HostMin
  <2>2. Key(f, a) \in Int /\ Key(f, b) \in Int
    BY KeyOrder
  <2>3. h \in {a, b} /\ Key(f, h) <= Key(f, a) /\ Key(f, h) <= Key(f, b)
    BY <2>1, <2>2
  <2> HIDE DEF h
  <2>4. r = Exact(h)
    BY <1>1, <1>6, Handlers DEF doFMin_2_2, doFMin_2_3
  <2>5. LeastOutcome(f, ver, a, b, r)
    BY <1>6, <2>3, <2>4 DEF LeastOutcome, Exact, BothZero
  <2> QED BY <2>5, LeastOutcomeIsMin
<1> QED BY <1>4, <1>5, <1>6

\* The operand of FMAX seen by FMIN.
Mirrored(f, x) == IF IsNaN(f, x) THEN x ELSE Negated(f, x)

LEMMA MirroredKind ==
    ASSUME NEW f, IsFormat(f), NEW a \in Word(f)
    PROVE  /\ Mirrored(f, a) \in Word(f)
           /\ IsNaN(f, Mirrored(f, a)) <=> IsNaN(f, a)
           /\ isSigNaN(f, Mirrored(f, a)) <=> isSigNaN(f, a)
           /\ ~IsNaN(f, a) => /\ isZero(f, Mirrored(f, a)) <=> isZero(f, a)
                              /\ Key(f, Mirrored(f, a)) = -Key(f, a)
                              /\ signUI(f, Mirrored(f, a)) = 1 - signUI(f, a)
           /\ IsNaN(f, a) => Mirrored(f, a) = a
BY NegatedKind DEF Mirrored

LEMMA MaxCorrect ==
    ASSUME NEW f, IsFormat(f), NEW a \in Word(f), NEW b \in Word(f), NEW ver \in {"2.2", "2.3"},
           NEW v, NEW fl, FMax(f, ver, a, b) = [v |-> v, fl |-> fl]
    PROVE  MinSpec(f, Mirrored(f, a), Mirrored(f, b), ver, [v |-> Mirrored(f, v), fl |-> fl])
<1> DEFINE r == FMax(f, ver, a, b)
           h == HostMax(f, a, b)
           c == Mirrored(f, a)
           d == Mirrored(f, b)
           q == [v |-> Mirrored(f, v), fl |-> fl]
<1>1. r = IF ver = "2.2" THEN doFMax_2_2(f, h, a, b) ELSE doFMax_2_3(f, h, a, b)
  BY DEF FMax
<1>2. (isNaN(f, a) <=> IsNaN(f, a)) /\ (isNaN(f, b) <=> IsNaN(f, b))
  BY WordKinds DEF Kinds
<1>3. /\ isZero(f, a) => ~IsNaN(f, a)
      /\ isZero(f, b) => ~IsNaN(f, b)
  BY WordKinds DEF Kinds
<1>4. c \in Word(f) /\ d \in Word(f)
  BY MirroredKind
<1>5. CASE IsNaN(f, a) \/ IsNaN(f, b)
  <2>1. h = defaultNaN(f) /\ isNaNorInf(f, h) /\ ~BothZero(f, a, b)
    BY <1>2, <1>3, <1>5, DefaultNaN DEF HostMax, BothZero
  <2> HIDE DEF h
  <2>2. r = IF ver = "2.2" THEN doMinMax_2_2(f, h, a, b) ELSE doMinMax_2_3(f, h, a, b)
    BY <1>1, <2>1 DEF doFMax_2_2, doFMax_2_3
  <2>3. NaNOutcome(f, ver, a, b, r)
    BY <1>5, <2>2, Handlers
  <2>4. r = [v |-> v, fl |-> fl]
    OBVIOUS
  <2> HIDE DEF r
  <2>5. /\ v = IF (IsNaN(f, a) /\ IsNaN(f, b)) \/ (Signals(f, a, b) /\ ver = "2.2")
               THEN defaultNaN(f) ELSE IF IsNaN(f, a) THEN b ELSE a
        /\ fl = IF Signals(f, a, b) THEN {"invalid"} ELSE {}
    BY <2>3, <2>4 DEF NaNOutcome
  <2>6. /\ IsNaN(f, c) <=> IsNaN(f, a)
        /\ IsNaN(f, d) <=> IsNaN(f, b)
        /\ Signals(f, c, d) <=> Signals(f, a, b)
    BY MirroredKind DEF Signals
  <2>7. Mirrored(f, defaultNaN(f)) = defaultNaN(f)
    BY DefaultNaN DEF Mirrored
  <2>8. Mirrored(f, v) = IF (IsNaN(f, a) /\ IsNaN(f, b)) \/ (Signals(f, a, b) /\ ver = "2.2")
                         THEN defaultNaN(f) ELSE IF IsNaN(f, a) THEN d ELSE c
    BY <2>5, <2>7
  <2> HIDE DEF c, d
  <2>9. NaNOutcome(f, ver, c, d, q)
    BY <1>5, <2>5, <2>6, <2>8 DEF NaNOutcome
  <2> QED BY <1>4, <2>9, NaNOutcomeIsMin DEF c, d
<1>6. ASSUME ~IsNaN(f, a), ~IsNaN(f, b), v \in {a, b}, fl = {}, Key(f, v) >= Key(f, a), Key(f, v) >= Key(f, b),
             ver = "2.3" /\ isZero(f, a) /\ isZero(f, b)
               => (signUI(f, v) = 0 <=> signUI(f, a) = 0 \/ signUI(f, b) = 0)
      PROVE  MinSpec(f, c, d, ver, q)
  <2>1. v \in Word(f) /\ ~IsNaN(f, v)
    BY <1>6
  <2>2. /\ ~IsNaN(f, c) /\ ~IsNaN(f, d)
        /\ Key(f, c) = -Key(f, a) /\ Key(f, d) = -Key(f, b) /\ Key(f, Mirrored(f, v)) = -Key(f, v)
        /\ isZero(f, c) <=> isZero(f, a)
        /\ isZero(f, d) <=> isZero(f, b)
        /\ signUI(f, c) = 1 - signUI(f, a) /\ signUI(f, d) = 1 - signUI(f, b)
        /\ signUI(f, Mirrored(f, v)) = 1 - signUI(f, v)
    BY <1>6, <2>1, MirroredKind
  <2>3. /\ Key(f, a) \in Int /\ Key(f, b) \in Int /\ Key(f, v) \in Int
        /\ signUI(f, a) \in {0, 1} /\ signUI(f, b) \in {0, 1} /\ signUI(f, v) \in {0, 1}
    BY <2>1, KeyOrder
  <2>4. Mirrored(f, v) \in {c, d}
    BY <1>6
  <2> DEFINE w == Mirrored(f, v)
  <2>5. q = [v |-> w, fl |-> {}]
    BY <1>6
  <2> HIDE DEF c, d, w, q
  <2>6. q = Exact(q.v) /\ q.v = w
    BY <2>5 DEF Exact
  <2>7. LeastOutcome(f, ver, c, d, q)
    <3>1. w \in {c, d} /\ Key(f, w) <= Key(f, c) /\ Key(f, w) <= Key(f, d)
      BY <1>6, <2>2, <2>3, <2>4 DEF w
    <3>2. ASSUME ver = "2.3" /\ isZero(f, c) /\ isZero(f, d)
          PROVE  signUI(f, w) = 1 <=> signUI(f, c) = 1 \/ signUI(f, d) = 1
      BY <1>6, <2>2, <2>3, <3>2 DEF w
    <3> QED BY <2>2, <2>6, <3>1, <3>2 DEF LeastOutcome
  <2> QED BY <1>4, <2>7, LeastOutcomeIsMin DEF c, d
<1>7. CASE BothZero(f, a, b)
  <2>1. [v |-> v, fl |-> fl] = Exact(IF ver = "2.3" /\ a > b THEN b ELSE a)
    BY <1>1, <1>7 DEF doFMax_2_2, doFMax_2_3
  <2>2. v = (IF ver = "2.3" /\ a > b THEN b ELSE a) /\ fl = {}
    BY <2>1 DEF Exact
  <2>3. /\ isZero(f, a) /\ isZero(f, b) /\ ~IsNaN(f, a) /\ ~IsNaN(f, b) /\ Key(f, a) = 0 /\ Key(f, b) = 0
        /\ signUI(f, a) \in {0, 1} /\ signUI(f, b) \in {0, 1}
        /\ a > b <=> signUI(f, a) = 1 /\ signUI(f, b) = 0
    BY <1>7, TwoZeros DEF BothZero
  <2>4. /\ v \in {a, b} /\ Key(f, v) >= Key(f, a) /\ Key(f, v) >= Key(f, b)
        /\ ver = "2.3" => (signUI(f, v) = 0 <=> signUI(f, a) = 0 \/ signUI(f, b) = 0)
    BY <2>2, <2>3
  <2> HIDE DEF c, d, q
  <2> QED BY <1>6, <2>2, <2>3, <2>4 DEF c, d, q
<1>8. CASE ~IsNaN(f, a) /\ ~IsNaN(f, b) /\ ~BothZero(f, a, b)
  <2>1. h = IF Key(f, a) > Key(f, b) THEN a ELSE b
    BY <1>2, <1>8 DEF HostMax
  <2>2. Key(f, a) \in Int /\ Key(f, b) \in Int
    BY KeyOrder
  <2>3. h \in {a, b} /\ Key(f, h) >= Key(f, a) /\ Key(f, h) >= Key(f, b)
    BY <2>1, <2>2
  <2> HIDE DEF h
  <2>4. r = Exact(h)
    BY <1>1, <1>8, Handlers DEF doFMax_2_2, doFMax_2_3
  <2>5. v = h /\ fl = {}
    BY <2>4 DEF Exact
  <2>6. ~(isZero(f, a) /\ isZero(f, b))
    BY <1>8 DEF BothZero
  <2> HIDE DEF c, d, q
  <2> QED BY <1>6, <1>8, <2>3, <2>5, <2>6 DEF c, d, q
<1> QED BY <1>5, <1>7, <1>8

------------------------------------------------------------------------------
(* Sign injection and classification *)

LEMMA ResignedClass ==
    ASSUME NEW f, IsFormat(f), NEW a \in Word(f), NEW s \in {0, 1}, NEW c, Resigned(f, s, a, c)
    PROVE  doFClass(f, c) = IF doFClass(f, a) > 7 \/ s = signUI(f, a) THEN doFClass(f, a) ELSE 7 - doFClass(f, a)
<1>1. c \in Word(f) /\ signUI(f, c) = s /\ signUI(f, a) \in {0, 1}
  BY Fields DEF Resigned, Fielded
<1>2. /\ isSNaN(f, c) <=> isSNaN(f, a)
      /\ isQNaN(f, c) <=> isQNaN(f, a)
      /\ isInf(f, c) <=> isInf(f, a)
      /\ isDenorm(f, c) <=> isDenorm(f, a)
  BY DEF Resigned, isSNaN, isQNaN, isInf, isDenorm, isNaN, isNaNorInf, Quiet
<1>3. isZero(f, c) <=> isZero(f, a)
  <2>1. Kinds(f, a) /\ Kinds(f, c) /\ Magnitude(f, c) = Magnitude(f, a)
    BY <1>1, WordKinds DEF Resigned
  <2> QED BY <2>1 DEF Kinds
<1>4. /\ RVFC.NINF = 0 /\ RVFC.NNORM = 1 /\ RVFC.NDENORM = 2 /\ RVFC.NZERO = 3 /\ RVFC.PZERO = 4
      /\ RVFC.PDENORM = 5 /\ RVFC.PNORM = 6 /\ RVFC.PINF = 7 /\ RVFC.SNAN = 8 /\ RVFC.QNAN = 9
  BY DEF RVFC
<1> QED BY <1>1, <1>2, <1>3, <1>4 DEF doFClass

\* The sign that an injection gives.
InjectedSign(clearFS1, negFS2, sa, sb) ==
    Xor(IF clearFS1 THEN 0 ELSE sa, IF negFS2 THEN 1 - sb ELSE sb)

LEMMA InjectedWord ==
    ASSUME NEW f, IsFormat(f), NEW a \in Word(f), NEW b \in Word(f),
           NEW clear \in BOOLEAN, NEW neg \in BOOLEAN
    PROVE  Resigned(f, InjectedSign(clear, neg, signUI(f, a), signUI(f, b)), a, FSgn(f, clear, neg, a, b))
<1> DEFINE R == 2^(f.E + f.F)
           m == Magnitude(f, a)
           tmp == IF clear THEN a % R ELSE a
           s == IF neg THEN 1 - signUI(f, b) ELSE signUI(f, b)
<1>1. /\ signUI(f, a) \in {0, 1} /\ signUI(f, b) \in {0, 1} /\ m \in 0 .. R - 1 /\ R \in Nat /\ R >= 4
      /\ a % R = m
  BY Fields, Sizes DEF Fielded
<1>2. signUI(f, tmp) = (IF clear THEN 0 ELSE signUI(f, a)) /\ tmp % R = m
  <2>1. CASE clear
    <3>1. m \in Nat /\ m \in Int /\ m < R /\ 0 \in Int /\ m = R * 0 + m
      BY <1>1
    <3>2. m \div R = 0 /\ m % R = m
      BY <1>1, <3>1, DivModUnique
    <3> QED BY <1>1, <2>1, <3>2 DEF signUI
  <2>2. CASE ~clear
    BY <1>1, <2>2
  <2> QED BY <2>1, <2>2
<1>3. FSgn(f, clear, neg, a, b) = Xor(signUI(f, tmp), s) * R + (tmp % R)
  BY DEF FSgn
<1>4. FSgn(f, clear, neg, a, b) = InjectedSign(clear, neg, signUI(f, a), signUI(f, b)) * R + m
  BY <1>2, <1>3 DEF InjectedSign
<1>5. InjectedSign(clear, neg, signUI(f, a), signUI(f, b)) \in {0, 1}
  BY <1>1 DEF InjectedSign, Xor
<1> QED BY <1>4, <1>5, WithSign

\* SignMovesClass of given operands and result.
MovesClass(f, a, b, at, r) ==
    LET flip == CASE at = <<TRUE, FALSE>> -> (signUI(f, b) = 1) # (signUI(f, a) = 1)
                  [] at = <<TRUE, TRUE>>  -> (signUI(f, b) = 1) = (signUI(f, a) = 1)
                  [] OTHER -> signUI(f, b) = 1
    IN  doFClass(f, r) = IF doFClass(f, a) > 7 \/ ~flip THEN doFClass(f, a) ELSE 7 - doFClass(f, a)

LEMMA InjectionMovesClass ==
    ASSUME NEW f, IsFormat(f), NEW a \in Word(f), NEW b \in Word(f),
           NEW at \in {<<TRUE, FALSE>>, <<TRUE, TRUE>>, <<FALSE, FALSE>>}
    PROVE  MovesClass(f, a, b, at, FSgn(f, at[1], at[2], a, b))
<1> DEFINE sa == signUI(f, a)
           sb == signUI(f, b)
           s  == InjectedSign(at[1], at[2], sa, sb)
           r  == FSgn(f, at[1], at[2], a, b)
           flip == CASE at = <<TRUE, FALSE>> -> (sb = 1) # (sa = 1)
                     [] at = <<TRUE, TRUE>>  -> (sb = 1) = (sa = 1)
                     [] OTHER -> sb = 1
<1>1. sa \in {0, 1} /\ sb \in {0, 1}
  BY Fields DEF Fielded
<1>2. at[1] \in BOOLEAN /\ at[2] \in BOOLEAN
  <2>1. /\ <<TRUE, FALSE>>[1] = TRUE /\ <<TRUE, FALSE>>[2] = FALSE
        /\ <<TRUE, TRUE>>[1] = TRUE /\ <<TRUE, TRUE>>[2] = TRUE
        /\ <<FALSE, FALSE>>[1] = FALSE /\ <<FALSE, FALSE>>[2] = FALSE
    OBVIOUS
  <2> QED BY <2>1, Zenon
<1>3. Resigned(f, s, a, r)
  BY <1>2, InjectedWord
<1>4. s \in {0, 1} /\ (flip <=> s # sa)
  <2> HIDE DEF sa, sb
  <2>1. CASE at = <<TRUE, FALSE>>
    <3>1. at[1] = TRUE /\ at[2] = FALSE
      BY <2>1
    <3>2. flip <=> (sb = 1) # (sa = 1)
      BY <2>1
    <3>3. s = InjectedSign(TRUE, FALSE, sa, sb)
      BY <3>1, Zenon
    <3> HIDE DEF s, flip
    <3>4. s = (0 + (sb)) % 2
      BY <3>3 DEF InjectedSign, Xor
    <3> QED BY <1>1, <3>2, <3>4
  <2>2. CASE at = <<TRUE, TRUE>>
    <3>1. at[1] = TRUE /\ at[2] = TRUE
      BY <2>2
    <3>2. flip <=> (sb = 1) = (sa = 1)
      BY <2>2
    <3>3. s = InjectedSign(TRUE, TRUE, sa, sb)
      BY <3>1, Zenon
    <3> HIDE DEF s, flip
    <3>4. s = (0 + (1 - sb)) % 2
      BY <3>3 DEF InjectedSign, Xor
    <3> QED BY <1>1, <3>2, <3>4
  <2>3. CASE at = <<FALSE, FALSE>>
    <3>1. at[1] = FALSE /\ at[2] = FALSE
      BY <2>3
    <3>2. flip <=> sb = 1
      BY <2>3
    <3>3. s = InjectedSign(FALSE, FALSE, sa, sb)
      BY <3>1, Zenon
    <3> HIDE DEF s, flip
    <3>4. s = (sa + (sb)) % 2
      BY <3>3 DEF InjectedSign, Xor
    <3> QED BY <1>1, <3>2, <3>4
  <2> QED BY <2>1, <2>2, <2>3
<1> HIDE DEF s, r
<1>5. doFClass(f, r) = IF doFClass(f, a) > 7 \/ s = signUI(f, a) THEN doFClass(f, a) ELSE 7 - doFClass(f, a)
  BY <1>3, <1>4, ResignedClass
<1>6. MovesClass(f, a, b, at, r) <=>
        doFClass(f, r) = IF doFClass(f, a) > 7 \/ ~flip THEN doFClass(f, a) ELSE 7 - doFClass(f, a)
  BY DEF MovesClass
<1> HIDE DEF flip
<1> QED BY <1>4, <1>5, <1>6 DEF r

------------------------------------------------------------------------------
(* The theorem *)

MinMaxOps == {"FMIN32", "FMIN64", "FMAX32", "FMAX64", "FSGN32", "FSGN64"}

\* Between two calls the flags are clear.
FlagsCleared == op = "none" => setFlags = {}

LEMMA Operands ==
    /\ V32 \subseteq Word(F32) /\ C32 \subseteq Word(F32) /\ Fma32 \subseteq Word(F32)
    /\ V64 \subseteq Word(F64) /\ C64 \subseteq Word(F64) /\ Fma64 \subseteq Word(F64)
BY OperandAssumption DEF Word

LEMMA FormatsDiffer == F32 # F64
<1>1. F32.F \in Nat /\ F32.G \in Nat /\ F32.F + F32.G < F64.F
  BY FormatAssumption
<1> QED BY <1>1

\* The actions that leave FMIN, FMAX and sign injection alone.
LEMMA OtherActions ==
    ASSUME Next
    PROVE  emitFMinMax \/ emitFSgn \/ (op' \notin MinMaxOps /\ (op' = "none" => setFlags' = {}))
<1> DEFINE Other == op' \notin MinMaxOps /\ (op' = "none" => setFlags' = {})
<1> USE DEF MinMaxOps, Call
<1>1. ASSUME riscvFADD32 PROVE Other
  BY <1>1 DEF riscvFADD32
<1>2. ASSUME riscvFADD64 PROVE Other
  BY <1>2 DEF riscvFADD64
<1>3. ASSUME riscvFSUB32 PROVE Other
  BY <1>3 DEF riscvFSUB32
<1>4. ASSUME riscvFSUB64 PROVE Other
  BY <1>4 DEF riscvFSUB64
<1>5. ASSUME riscvFMUL32 PROVE Other
  BY <1>5 DEF riscvFMUL32
<1>6. ASSUME riscvFMUL64 PROVE Other
  BY <1>6 DEF riscvFMUL64
<1>7. ASSUME riscvFDIV32 PROVE Other
  BY <1>7 DEF riscvFDIV32
<1>8. ASSUME riscvFDIV64 PROVE Other
  BY <1>8 DEF riscvFDIV64
<1>9. ASSUME riscvFSQRT32 PROVE Other
  BY <1>9 DEF riscvFSQRT32
<1>10. ASSUME riscvFSQRT64 PROVE Other
  BY <1>10 DEF riscvFSQRT64
<1>11. ASSUME riscvFMADD32 PROVE Other
  BY <1>11 DEF riscvFMADD32
<1>12. ASSUME riscvFMADD64 PROVE Other
  BY <1>12 DEF riscvFMADD64
<1>13. ASSUME riscvFMSUB32 PROVE Other
  BY <1>13 DEF riscvFMSUB32
<1>14. ASSUME riscvFMSUB64 PROVE Other
  BY <1>14 DEF riscvFMSUB64
<1>15. ASSUME riscvFNMADD32 PROVE Other
  BY <1>15 DEF riscvFNMADD32
<1>16. ASSUME riscvFNMADD64 PROVE Other
  BY <1>16 DEF riscvFNMADD64
<1>17. ASSUME riscvFNMSUB32 PROVE Other
  BY <1>17 DEF riscvFNMSUB32
<1>18. ASSUME riscvFNMSUB64 PROVE Other
  BY <1>18 DEF riscvFNMSUB64
<1>19. ASSUME riscvFCVTF32F64 PROVE Other
  BY <1>19 DEF riscvFCVTF32F64
<1>20. ASSUME riscvFCVTF32I32 PROVE Other
  BY <1>20 DEF riscvFCVTF32I32
<1>21. ASSUME riscvFCVTF32I64 PROVE Other
  BY <1>21 DEF riscvFCVTF32I64
<1>22. ASSUME riscvFCVTF32U32 PROVE Other
  BY <1>22 DEF riscvFCVTF32U32
<1>23. ASSUME riscvFCVTF32U64 PROVE Other
  BY <1>23 DEF riscvFCVTF32U64
<1>24. ASSUME riscvFCVTF64I64 PROVE Other
  BY <1>24 DEF riscvFCVTF64I64
<1>25. ASSUME riscvFCVTF64U64 PROVE Other
  BY <1>25 DEF riscvFCVTF64U64
<1>26. ASSUME riscvFCVTI32F32 PROVE Other
  BY <1>26 DEF riscvFCVTI32F32
<1>27. ASSUME riscvFCVTI64F32 PROVE Other
  BY <1>27 DEF riscvFCVTI64F32
<1>28. ASSUME riscvFCVTU32F32 PROVE Other
  BY <1>28 DEF riscvFCVTU32F32
<1>29. ASSUME riscvFCVTU64F32 PROVE Other
  BY <1>29 DEF riscvFCVTU64F32
<1>30. ASSUME riscvFCVTI32F64 PROVE Other
  BY <1>30 DEF riscvFCVTI32F64
<1>31. ASSUME riscvFCVTI64F64 PROVE Other
  BY <1>31 DEF riscvFCVTI64F64
<1>32. ASSUME riscvFCVTU32F64 PROVE Other
  BY <1>32 DEF riscvFCVTU32F64
<1>33. ASSUME riscvFCVTU64F64 PROVE Other
  BY <1>33 DEF riscvFCVTU64F64
<1>34. ASSUME hostConvert PROVE Other
  BY <1>34 DEF hostConvert
<1>35. ASSUME emitFClass PROVE Other
  BY <1>35 DEF emitFClass
<1>36. ASSUME Return PROVE Other
  BY <1>36 DEF Return
<1> HIDE DEF Other
<1> QED
  BY <1>1, <1>2, <1>3, <1>4, <1>5, <1>6, <1>7, <1>8, <1>9, <1>10, <1>11, <1>12, <1>13,
     <1>14, <1>15, <1>16, <1>17, <1>18, <1>19, <1>20, <1>21, <1>22, <1>23, <1>24, <1>25,
     <1>26, <1>27, <1>28, <1>29, <1>30, <1>31, <1>32, <1>33, <1>34, <1>35, <1>36, Zenon
     DEF Next, Other


\* FMIN and FMAX return a value and flags.
LEMMA MinMaxRecords ==
    ASSUME NEW f, IsFormat(f), NEW a \in Word(f), NEW b \in Word(f), NEW ver \in {"2.2", "2.3"}
    PROVE  \E v, fl : FMax(f, ver, a, b) = [v |-> v, fl |-> fl]
<1> DEFINE Rec(r) == \E v, fl : r = [v |-> v, fl |-> fl]
           h == HostMax(f, a, b)
<1>1. \A v : Rec(Exact(v))
  BY DEF Exact
<1>2. Rec(doMinMax_2_2(f, h, a, b)) /\ Rec(doMinMax_2_3(f, h, a, b))
  <2> HIDE DEF h
  <2>1. CASE ~IsNaN(f, a) /\ ~IsNaN(f, b)
    BY <1>1, <2>1, Handlers
  <2>2. CASE IsNaN(f, a) \/ IsNaN(f, b)
    <3>1. \A r, ve : NaNOutcome(f, ve, a, b, r) => Rec(r)
      BY DEF NaNOutcome
    <3> QED BY <2>2, <3>1, Handlers
  <2> QED BY <2>1, <2>2
<1> HIDE DEF Rec, h
<1>3. Rec(doFMax_2_2(f, h, a, b)) /\ Rec(doFMax_2_3(f, h, a, b))
  BY <1>1, <1>2 DEF doFMax_2_2, doFMax_2_3
<1>4. Rec(FMax(f, ver, a, b))
  BY <1>3 DEF FMax, h
<1> QED BY <1>4 DEF Rec

\* An FMIN, an FMAX and a sign injection of either format.
LEMMA MinStep ==
    ASSUME NEW f \in {F32, F64}, NEW name, NEW a \in Word(f), NEW b \in Word(f), NEW ver \in {"2.2", "2.3"},
           name = IF f = F32 THEN "FMIN32" ELSE "FMIN64",
           setFlags = {}, Call(name, <<a, b, ver>>, FMin(f, ver, a, b))
    PROVE  MinMaxSignCorrect' /\ op' # "none"
<1>1. IsFormat(f)
  BY Formats
<1>2. op' = name /\ args' = <<a, b, ver>> /\ result' = FMin(f, ver, a, b).v /\ setFlags' = FMin(f, ver, a, b).fl
  BY DEF Call, afterFP
<1>3. Got'.v = FMin(f, ver, a, b).v /\ Got'.fl = FMin(f, ver, a, b).fl
  BY <1>2 DEF Got
<1> DEFINE r == FMin(f, ver, a, b)
<1>4. MinSpec(f, a, b, ver, r)
  BY <1>1, MinCorrect
<1> HIDE DEF r
<1>5. MinSpec(f, a, b, ver, Got')
  BY <1>3, <1>4, Zenon DEF MinSpec, r
<1>6. args'[1] = a /\ args'[2] = b /\ args'[3] = ver /\ op' = name
  BY <1>2
<1>7. (IF name \in {"FMIN32", "FMAX32", "FSGN32"} THEN F32 ELSE F64) = f
  OBVIOUS
<1>8. MinMaxSignCorrect' <=> MinSpec(f, args'[1], args'[2], args'[3], Got')
  BY <1>6, <1>7 DEF MinMaxSignCorrect
<1> QED BY <1>5, <1>6, <1>8


LEMMA MaxStep ==
    ASSUME NEW f \in {F32, F64}, NEW name, NEW a \in Word(f), NEW b \in Word(f), NEW ver \in {"2.2", "2.3"},
           name = IF f = F32 THEN "FMAX32" ELSE "FMAX64",
           setFlags = {}, Call(name, <<a, b, ver>>, FMax(f, ver, a, b))
    PROVE  MinMaxSignCorrect' /\ op' # "none"
<1>1. IsFormat(f)
  BY Formats
<1>2. PICK v, fl : FMax(f, ver, a, b) = [v |-> v, fl |-> fl]
  BY <1>1, MinMaxRecords
<1>3. op' = name /\ args' = <<a, b, ver>> /\ result' = v /\ setFlags' = fl
  BY <1>2 DEF Call, afterFP
<1>4. Got' = [v |-> v, fl |-> fl]
  BY <1>3 DEF Got
<1>5. MinSpec(f, Mirrored(f, a), Mirrored(f, b), ver, [v |-> Mirrored(f, v), fl |-> fl])
  BY <1>1, <1>2, MaxCorrect
<1>6. [Got' EXCEPT !.v = IF IsNaN(f, Got'.v) THEN @ ELSE Negated(f, @)] = [v |-> Mirrored(f, v), fl |-> fl]
  BY <1>4 DEF Mirrored
<1>7. args'[1] = a /\ args'[2] = b /\ args'[3] = ver /\ op' = name
  BY <1>3
<1>8. (IF name \in {"FMIN32", "FMAX32", "FSGN32"} THEN F32 ELSE F64) = f
  OBVIOUS
<1>9. MinMaxSignCorrect' <=>
        MinSpec(f, IF IsNaN(f, args'[1]) THEN args'[1] ELSE Negated(f, args'[1]),
                   IF IsNaN(f, args'[2]) THEN args'[2] ELSE Negated(f, args'[2]), args'[3],
                   [Got' EXCEPT !.v = IF IsNaN(f, Got'.v) THEN @ ELSE Negated(f, @)])
  BY <1>7, <1>8 DEF MinMaxSignCorrect
<1>10. MinMaxSignCorrect' <=> MinSpec(f, Mirrored(f, a), Mirrored(f, b), ver, [v |-> Mirrored(f, v), fl |-> fl])
  BY <1>6, <1>7, <1>9, Zenon DEF Mirrored
<1> QED BY <1>5, <1>7, <1>10

LEMMA SignStep ==
    ASSUME NEW f \in {F32, F64}, NEW name, NEW a \in Word(f), NEW b \in Word(f),
           NEW at \in {<<TRUE, FALSE>>, <<TRUE, TRUE>>, <<FALSE, FALSE>>},
           name = IF f = F32 THEN "FSGN32" ELSE "FSGN64",
           Call(name, <<a, b, at>>, Exact(FSgn(f, at[1], at[2], a, b)))
    PROVE  MinMaxSignCorrect' /\ op' # "none"
<1>1. IsFormat(f)
  BY Formats
<1>2. op' = name /\ args' = <<a, b, at>> /\ result' = FSgn(f, at[1], at[2], a, b)
  BY DEF Call, Exact
<1>3. MovesClass(f, a, b, at, FSgn(f, at[1], at[2], a, b))
  BY <1>1, InjectionMovesClass
<1>4. args'[1] = a /\ args'[2] = b /\ args'[3] = at /\ op' = name
  BY <1>2
<1>5. (IF name \in {"FMIN32", "FMAX32", "FSGN32"} THEN F32 ELSE F64) = f
  OBVIOUS
<1>6. MinMaxSignCorrect' <=> SignMovesClass(f)'
  BY <1>4, <1>5 DEF MinMaxSignCorrect
<1>7. SignMovesClass(f)' <=> MovesClass(f, args'[1], args'[2], args'[3], result')
  BY Zenon DEF SignMovesClass, MovesClass
<1> QED BY <1>2, <1>3, <1>4, <1>6, <1>7

LEMMA MinMaxAction ==
    ASSUME setFlags = {}, emitFMinMax
    PROVE  MinMaxSignCorrect' /\ op' # "none"
<1>1. PICK ver \in {"2.2", "2.3"} :
        \/ \E a, b \in V32 : \/ Call("FMIN32", <<a, b, ver>>, FMin(F32, ver, a, b))
                             \/ Call("FMAX32", <<a, b, ver>>, FMax(F32, ver, a, b))
        \/ \E a, b \in V64 : \/ Call("FMIN64", <<a, b, ver>>, FMin(F64, ver, a, b))
                             \/ Call("FMAX64", <<a, b, ver>>, FMax(F64, ver, a, b))
  BY DEF emitFMinMax
<1>2. CASE \E a, b \in V32 : \/ Call("FMIN32", <<a, b, ver>>, FMin(F32, ver, a, b))
                             \/ Call("FMAX32", <<a, b, ver>>, FMax(F32, ver, a, b))
  <2>1. PICK a \in V32, b \in V32 : \/ Call("FMIN32", <<a, b, ver>>, FMin(F32, ver, a, b))
                                    \/ Call("FMAX32", <<a, b, ver>>, FMax(F32, ver, a, b))
    BY <1>2
  <2>2. F32 \in {F32, F64} /\ a \in Word(F32) /\ b \in Word(F32)
    BY Operands
  <2>3. CASE Call("FMIN32", <<a, b, ver>>, FMin(F32, ver, a, b))
    BY <2>2, <2>3, MinStep
  <2>4. CASE Call("FMAX32", <<a, b, ver>>, FMax(F32, ver, a, b))
    BY <2>2, <2>4, MaxStep
  <2> QED BY <2>1, <2>3, <2>4
<1>3. CASE \E a, b \in V64 : \/ Call("FMIN64", <<a, b, ver>>, FMin(F64, ver, a, b))
                             \/ Call("FMAX64", <<a, b, ver>>, FMax(F64, ver, a, b))
  <2>1. PICK a \in V64, b \in V64 : \/ Call("FMIN64", <<a, b, ver>>, FMin(F64, ver, a, b))
                                    \/ Call("FMAX64", <<a, b, ver>>, FMax(F64, ver, a, b))
    BY <1>3
  <2>2. F64 \in {F32, F64} /\ a \in Word(F64) /\ b \in Word(F64)
    BY Operands
  <2>3. CASE Call("FMIN64", <<a, b, ver>>, FMin(F64, ver, a, b))
    BY <2>2, <2>3, MinStep, FormatsDiffer
  <2>4. CASE Call("FMAX64", <<a, b, ver>>, FMax(F64, ver, a, b))
    BY <2>2, <2>4, MaxStep, FormatsDiffer
  <2> QED BY <2>1, <2>3, <2>4
<1> QED BY <1>1, <1>2, <1>3

LEMMA SignAction ==
    ASSUME emitFSgn
    PROVE  MinMaxSignCorrect' /\ op' # "none"
<1>1. PICK at \in {<<TRUE, FALSE>>, <<TRUE, TRUE>>, <<FALSE, FALSE>>} :
        \/ \E a, b \in V32 : Call("FSGN32", <<a, b, at>>, Exact(FSgn(F32, at[1], at[2], a, b)))
        \/ \E a, b \in V64 : Call("FSGN64", <<a, b, at>>, Exact(FSgn(F64, at[1], at[2], a, b)))
  BY DEF emitFSgn
<1>2. CASE \E a, b \in V32 : Call("FSGN32", <<a, b, at>>, Exact(FSgn(F32, at[1], at[2], a, b)))
  <2>1. PICK a \in V32, b \in V32 : Call("FSGN32", <<a, b, at>>, Exact(FSgn(F32, at[1], at[2], a, b)))
    BY <1>2
  <2>2. F32 \in {F32, F64} /\ a \in Word(F32) /\ b \in Word(F32)
    BY Operands
  <2> QED BY <2>1, <2>2, SignStep
<1>3. CASE \E a, b \in V64 : Call("FSGN64", <<a, b, at>>, Exact(FSgn(F64, at[1], at[2], a, b)))
  <2>1. PICK a \in V64, b \in V64 : Call("FSGN64", <<a, b, at>>, Exact(FSgn(F64, at[1], at[2], a, b)))
    BY <1>3
  <2>2. F64 \in {F32, F64} /\ a \in Word(F64) /\ b \in Word(F64)
    BY Operands
  <2> QED BY <2>1, <2>2, SignStep, FormatsDiffer
<1> QED BY <1>1, <1>2, <1>3

\* doFMin*, doFMax*, emitFSgn: for every two formats and every two operands,
\* FMIN and FMAX of both versions return the smaller and the larger number
\* with the NaNs, zeros and flags of their version, and a sign injection
\* moves a number between a class and its mirror image.
THEOREM MinMaxSign == Spec => []MinMaxSignCorrect
<1> DEFINE Inv == FlagsCleared /\ MinMaxSignCorrect
<1>1. Init => Inv
  BY DEF Init, FlagsCleared, MinMaxSignCorrect
<1>2. Inv /\ [Next]_vars => Inv'
  <2> SUFFICES ASSUME Inv, [Next]_vars PROVE Inv'
    OBVIOUS
  <2>1. CASE emitFMinMax
    <3>1. setFlags = {}
      BY <2>1 DEF emitFMinMax, FlagsCleared
    <3> QED BY <2>1, <3>1, MinMaxAction DEF FlagsCleared
  <2>2. CASE emitFSgn
    BY <2>2, SignAction DEF FlagsCleared
  <2>3. CASE op' \notin MinMaxOps /\ (op' = "none" => setFlags' = {})
    BY <2>3 DEF FlagsCleared, MinMaxSignCorrect, MinMaxOps
  <2>4. CASE UNCHANGED vars
    <3>1. FlagsCleared'
      BY <2>4 DEF vars, FlagsCleared
    <3>2. MinMaxSignCorrect'
      BY <2>4, Zenon DEF vars, MinMaxSignCorrect, Got, SignMovesClass
    <3> QED BY <3>1, <3>2
  <2> QED BY <2>1, <2>2, <2>3, <2>4, OtherActions
<1>3. Inv => MinMaxSignCorrect
  OBVIOUS
<1> QED BY <1>1, <1>2, <1>3, PTL DEF Spec

------------------------------------------------------------------------------
(* Exact values.  A value is held as X units of 2^L; what rounding to a      *)
(* multiple of 2^q needs of it is how many halves of 2^q it holds, and       *)
(* whether something is left.                                                *)

Sticky(X, H) == IF X % H = 0 THEN 0 ELSE 1

\* X and Y cannot be told apart in units of H.
Agree(X, Y, H) == X \div H = Y \div H /\ Sticky(X, H) = Sticky(Y, H)

LEMMA AgreeAdd ==
    ASSUME NEW A \in Int, NEW X \in Int, NEW Y \in Int, NEW H \in Nat \ {0}, Agree(X, Y, H)
    PROVE  Agree(A * H + X, A * H + Y, H)
<1>1. (A * H + X) \div H = A + (X \div H) /\ (A * H + X) % H = X % H
  BY ShiftedDivMod
<1>2. (A * H + Y) \div H = A + (Y \div H) /\ (A * H + Y) % H = Y % H
  BY ShiftedDivMod
<1> QED BY <1>1, <1>2 DEF Agree, Sticky

LEMMA AgreeSub ==
    ASSUME NEW A \in Int, NEW X \in Int, NEW Y \in Int, NEW H \in Nat \ {0}, Agree(X, Y, H)
    PROVE  Agree(A * H - X, A * H - Y, H)
<1>1. /\ X % H = 0 => (A * H - X) \div H = A - (X \div H) /\ (A * H - X) % H = 0
      /\ X % H # 0 => (A * H - X) \div H = A - (X \div H) - 1 /\ (A * H - X) % H = H - (X % H)
  BY MirroredDivMod
<1>2. /\ Y % H = 0 => (A * H - Y) \div H = A - (Y \div H) /\ (A * H - Y) % H = 0
      /\ Y % H # 0 => (A * H - Y) \div H = A - (Y \div H) - 1 /\ (A * H - Y) % H = H - (Y % H)
  BY MirroredDivMod
<1>3. X % H \in 0 .. H - 1 /\ Y % H \in 0 .. H - 1
  OBVIOUS
<1>4. X \div H = Y \div H /\ (X % H = 0 <=> Y % H = 0)
  BY DEF Agree, Sticky
<1> DEFINE p == X % H
           r == Y % H
           u == X \div H
           v == Y \div H
           g == (A * H - X) % H
           k == (A * H - Y) % H
<1>5. g = 0 <=> p = 0
  <2> HIDE DEF p, r, u, v, g, k
  <2> QED BY <1>1, <1>3 DEF p, g
<1>6. k = 0 <=> r = 0
  <2> HIDE DEF p, r, u, v, g, k
  <2> QED BY <1>2, <1>3 DEF r, k
<1>7. (A * H - X) \div H = (A * H - Y) \div H
  BY <1>1, <1>2, <1>4
<1> QED BY <1>4, <1>5, <1>6, <1>7 DEF Agree, Sticky

LEMMA AgreeCoarser ==
    ASSUME NEW X \in Nat, NEW Y \in Nat, NEW H \in Nat \ {0}, NEW K \in Nat \ {0}, Agree(X, Y, H)
    PROVE  Agree(X, Y, H * K)
<1> DEFINE u == X \div H
           v == Y \div H
<1>1. X \div (H * K) = u \div K /\ Y \div (H * K) = v \div K
  BY NestedDiv
<1>2. X % (H * K) = H * (u % K) + (X % H) /\ Y % (H * K) = H * (v % K) + (Y % H)
  BY NestedMod
<1>3. u = v /\ (X % H = 0 <=> Y % H = 0) /\ u \in Int
  BY DEF Agree, Sticky
<1>4. X % H \in 0 .. H - 1 /\ Y % H \in 0 .. H - 1
  OBVIOUS
<1> DEFINE r == u % K
           p == X % H
           g == Y % H
<1>5. r \in 0 .. K - 1
  <2> HIDE DEF u
  <2> QED BY <1>3
<1>6. H * r + p = 0 <=> H * r + g = 0
  <2> HIDE DEF r, p, g
  <2>1. H * r \in Nat
    BY <1>5
  <2> QED BY <1>3, <1>4, <2>1 DEF p, g
<1>7. X % (H * K) = 0 <=> Y % (H * K) = 0
  BY <1>2, <1>3, <1>6
<1> QED BY <1>1, <1>3, <1>7 DEF Agree, Sticky

LEMMA AgreeScaled ==
    ASSUME NEW X \in Int, NEW Y \in Int, NEW H \in Nat \ {0}, NEW K \in Nat \ {0}, Agree(X, Y, H)
    PROVE  Agree(X * K, Y * K, H * K)
<1>1. (X * K) \div (H * K) = X \div H /\ (X * K) % (H * K) = (X % H) * K
  BY ScaledDivMod
<1>2. (Y * K) \div (H * K) = Y \div H /\ (Y * K) % (H * K) = (Y % H) * K
  BY ScaledDivMod
<1>3. X % H \in 0 .. H - 1 /\ Y % H \in 0 .. H - 1
  OBVIOUS
<1>4. \A m \in Nat : m * K = 0 <=> m = 0
  OBVIOUS
<1>5. (X % H) * K = 0 <=> X % H = 0
  BY <1>3, <1>4
<1>6. (Y % H) * K = 0 <=> Y % H = 0
  BY <1>3, <1>4
<1> QED BY <1>1, <1>2, <1>5, <1>6 DEF Agree, Sticky

LEMMA AgreeTransitive ==
    ASSUME NEW X, NEW Y, NEW Z, NEW H, Agree(X, Y, H), Agree(Y, Z, H)
    PROVE  Agree(X, Z, H)
BY DEF Agree

LEMMA AgreeSymmetric == ASSUME NEW X, NEW Y, NEW H, Agree(X, Y, H) PROVE Agree(Y, X, H)
BY DEF Agree

\* Values that agree in a unit that divides the leading bit have as many bits.
LEMMA AgreeBits ==
    ASSUME NEW X \in Nat, NEW Y \in Nat, NEW B \in Nat \ {0}, NEW j \in Nat, j < B,
           Agree(X, Y, 2^j), HasBits(X, B)
    PROVE  HasBits(Y, B)
<1> DEFINE H == 2^j
           K == 2^(B - 1 - j)
           T == 2^(B - 1)
<1>1. H \in Nat /\ H >= 1 /\ K \in Nat /\ K >= 1 /\ T \in Nat
  BY PowerOfTwo
<1>2. T = H * K /\ 2^B = 2 * T
  <2>1. B - 1 \in Nat /\ j <= B - 1
    OBVIOUS
  <2>2. T = H * K
    BY <2>1, PowerDiff
  <2> QED BY <2>2, PowerStep
<1>3. T <= X /\ X < 2 * T
  BY <1>2 DEF HasBits
<1>4. X \div H = Y \div H
  BY DEF Agree
<1> HIDE DEF H, K, T
<1> DEFINE u == X \div H
<1>5. u \in Int /\ H * u <= X /\ X < H * u + H
  BY <1>1
<1>6. H * u <= Y /\ Y < H * u + H
  BY <1>1, <1>4
<1> HIDE DEF u
<1>7. u >= K
  <2>1. H * (u + 1) > H * K
    BY <1>1, <1>2, <1>3, <1>5
  <2> QED BY <1>1, <1>5, <2>1
<1>8. u + 1 <= 2 * K
  <2>1. H * u < H * (2 * K)
    <3>1. H * (2 * K) = 2 * (H * K)
      BY <1>1
    <3> QED BY <1>1, <1>2, <1>3, <1>5, <3>1
  <2>2. u < 2 * K
    BY <1>1, <1>5, <2>1
  <2> QED BY <1>1, <1>5, <2>2
<1>9. H * u >= H * K /\ H * (u + 1) <= H * (2 * K) /\ H * (u + 1) = H * u + H /\ H * (2 * K) = 2 * (H * K)
  BY <1>1, <1>5, <1>7, <1>8
<1>10. T <= Y /\ Y < 2 * T
  BY <1>1, <1>2, <1>5, <1>6, <1>9
<1> QED BY <1>2, <1>10 DEF HasBits, T

\* x is X units of 2^L.
Denotes(x, L, X) ==
    /\ x = [n |-> x.n, d |-> 1, e |-> x.e] /\ x.n \in Nat /\ x.n < 2^(2 * W64) /\ x.e \in Int
    /\ L \in Int /\ L <= x.e /\ X = x.n * 2^(x.e - L)

\* The reach of the reference's bit length.
Reach == W64 \in Nat /\ 2^(2 * W64) \in Nat

LEMMA BitLenReach ==
    ASSUME Reach, NEW n \in Nat, n < 2^(2 * W64)
    PROVE  /\ BitLen(n) \in Nat /\ n < 2^BitLen(n) /\ 2^BitLen(n) \in Nat
           /\ n >= 1 => HasBits(n, BitLen(n))
<1>1. n >= 1 => HasBits(n, BitLen(n))
  BY BitLenBits DEF Reach
<1>2. CASE n >= 1
  BY <1>1, <1>2, PowerOfTwo DEF HasBits
<1>3. CASE n = 0
  <2>1. BitLen(n) = 0
    BY <1>3, BitLenZero
  <2>2. 2^BitLen(n) = 1
    BY <2>1, PowerZero
  <2> QED BY <1>1, <1>3, <2>1, <2>2
<1> QED BY <1>2, <1>3

LEMMA QuartersAt ==
    ASSUME Reach, NEW x, NEW L, NEW X, Denotes(x, L, X), NEW q \in Int, L <= q - 2
    PROVE  /\ Quarters(x, q).t = X \div 2^(q - 2 - L)
           /\ Quarters(x, q).rest <=> X % 2^(q - 2 - L) # 0
<1> DEFINE n == x.n
           e == x.e
           k == e - q + 2
           D == 2^(q - 2 - L)
           S == 2^(e - L)
<1>1. /\ n \in Nat /\ n < 2^(2 * W64) /\ e \in Int /\ L \in Int /\ L <= e /\ X = n * S
      /\ x.n = n /\ x.d = 1 /\ x.e = e
  BY DEF Denotes
<1> HIDE DEF n, e
<1>2. D \in Nat /\ D >= 1 /\ S \in Nat /\ S >= 1
  BY <1>1, PowerOfTwo
<1>3. n \div 1 = n /\ n % 1 = 0
  BY <1>1
<1>4. CASE k >= 0
  <2>1. S = 2^k * D
    <3>1. k \in Nat /\ q - 2 - L \in Nat /\ e - L = k + (q - 2 - L)
      BY <1>1, <1>4
    <3> QED BY <3>1, PowerSum
  <2> DEFINE y == n * 2^k
  <2>2. 2^k \in Nat /\ y \in Nat
    <3>1. 2^k \in Nat
      BY <1>1, <1>4, PowerOfTwo
    <3> QED BY <1>1, <3>1
  <2>3. X = D * y + 0
    <3>1. n * (2^k * D) = D * (n * 2^k)
      BY <1>1, <1>2, <2>2
    <3> QED BY <1>1, <1>2, <2>1, <2>2, <3>1
  <2>4. Quarters(x, q).t = y \div 1 /\ (Quarters(x, q).rest <=> y % 1 # 0)
    BY <1>1, <1>4 DEF Quarters
  <2> HIDE DEF y, D
  <2>5. X \div D = y /\ X % D = 0
    <3>1. X \in Int /\ 0 \in Nat /\ 0 < D /\ D \in Nat /\ y \in Int
      BY <1>2, <2>2, <2>3
    <3> QED BY <2>3, <3>1, DivModUnique, Zenon
  <2> QED BY <2>2, <2>4, <2>5 DEF D
<1>5. CASE k < 0
  <2> DEFINE w == -k
             P == 2^w
             b == BitLen(n)
             j == IF b < w THEN b ELSE w
  <2>1. w \in Nat /\ w >= 1 /\ P \in Nat /\ P >= 1
    BY <1>1, <1>5, PowerOfTwo
  <2>2. D = P * S
    <3>1. w \in Nat /\ e - L \in Nat /\ q - 2 - L = w + (e - L)
      BY <1>1, <1>5
    <3> QED BY <3>1, PowerSum
  <2>3. Quarters(x, q).t = n \div 2^j /\ (Quarters(x, q).rest <=> n % 2^j # 0)
    <3>1. ~(k >= 0)
      BY <1>1, <1>5
    <3>2. Quarters(x, q).t = (n \div 1) \div 2^j /\ (Quarters(x, q).rest <=> n % 1 # 0 \/ (n \div 1) % 2^j # 0)
      BY <1>1, <1>3, <3>1 DEF Quarters, Least
    <3> QED BY <1>3, <3>2
  <2>4. n \div 2^j = n \div P /\ (n % 2^j = 0 <=> n % P = 0)
    <3>1. CASE j = w
      BY <3>1
    <3>2. CASE j # w
      <4>1. j = b /\ b < w
        BY <3>2
      <4>2. b \in Nat /\ n < 2^b /\ 2^b \in Nat
        BY <1>1, BitLenReach
      <4> HIDE DEF b, j, w
      <4>3. 2^b <= P
        <5>1. b \in 0 .. w
          BY <2>1, <4>1, <4>2
        <5> QED BY <2>1, <5>1, PowerMonotone
      <4>4. \A c \in Nat : n < c => n \div c = 0 /\ n % c = n
        <5> SUFFICES ASSUME NEW c \in Nat, n < c PROVE n \div c = 0 /\ n % c = n
          OBVIOUS
        <5>1. n \in Int /\ 0 \in Int /\ n = c * 0 + n
          BY <1>1
        <5> QED BY <1>1, <5>1, DivModUnique
      <4>5. n < P
        BY <1>1, <2>1, <4>2, <4>3
      <4> QED BY <2>1, <4>1, <4>2, <4>4, <4>5
    <3> QED BY <3>1, <3>2
  <2>5. X \div D = n \div P /\ X % D = (n % P) * S
    <3> HIDE DEF P, S, D
    <3>1. n \in Int /\ P \in Nat \ {0} /\ S \in Nat \ {0}
      BY <1>1, <1>2, <2>1
    <3>2. (n * S) \div (P * S) = n \div P /\ (n * S) % (P * S) = (n % P) * S
      BY <3>1, ScaledDivMod, Zenon
    <3> QED BY <1>1, <2>2, <3>2
  <2>6. X % D = 0 <=> n % P = 0
    <3> HIDE DEF P, S, D, w
    <3>1. n % P \in Nat
      BY <1>1, <2>1
    <3>2. \A m \in Nat : m * S = 0 <=> m = 0
      BY <1>2
    <3> QED BY <2>5, <3>1, <3>2
  <2> HIDE DEF j, P, D
  <2> QED BY <2>3, <2>4, <2>5, <2>6 DEF D
<1> QED BY <1>1, <1>4, <1>5

\* Rounding w halves, and st = 1 if more, to a whole number.
RoundM(w, st, sign, rm) ==
    LET m == w \div 2
        half == w % 2
    IN  IF \/ rm = "RTE" /\ half = 1 /\ (st = 1 \/ m % 2 = 1)
           \/ rm = "RMM" /\ half = 1
           \/ rm = "RDN" /\ (half = 1 \/ st = 1) /\ sign = 1
           \/ rm = "RUP" /\ (half = 1 \/ st = 1) /\ sign = 0
        THEN m + 1 ELSE m

RoundI(w, st) == IF w % 2 = 0 /\ st = 0 THEN 0 ELSE 1

LEMMA FourParts ==
    ASSUME NEW t \in Nat
    PROVE  /\ (t \div 2) \div 2 = t \div 4
           /\ t % 4 = 2 * ((t \div 2) % 2) + (t % 2)
<1>1. t \div (2 * 2) = (t \div 2) \div 2 /\ t % (2 * 2) = 2 * ((t \div 2) % 2) + (t % 2)
  BY NestedDiv, NestedMod
<1>2. 2 * 2 = 4
  OBVIOUS
<1> QED BY <1>1, <1>2

LEMMA RoundToAt ==
    ASSUME Reach, NEW x, NEW L, NEW X \in Nat, Denotes(x, L, X), NEW q \in Int, L <= q - 2,
           NEW sign \in {0, 1}, NEW rm \in RoundingModes
    PROVE  /\ RoundTo(x, q, sign, rm).m = RoundM(X \div 2^(q - 1 - L), Sticky(X, 2^(q - 1 - L)), sign, rm)
           /\ RoundTo(x, q, sign, rm).inexact <=> RoundI(X \div 2^(q - 1 - L), Sticky(X, 2^(q - 1 - L))) = 1
<1> DEFINE D == 2^(q - 2 - L)
           H == 2^(q - 1 - L)
           t == X \div D
           w == X \div H
           st == Sticky(X, H)
           y == Quarters(x, q)
<1>1. L \in Int /\ D \in Nat /\ D >= 1 /\ H = D * 2
  <2>1. L \in Int
    BY DEF Denotes
  <2>2. q - 2 - L \in Nat /\ (q - 2 - L) + 1 = q - 1 - L
    BY <2>1
  <2> QED BY <2>1, <2>2, PowerOfTwo, PowerDoubles
<1>2. y.t = t /\ (y.rest <=> X % D # 0)
  BY QuartersAt
<1> HIDE DEF D, H
<1>3. w = t \div 2 /\ X % H = D * (t % 2) + (X % D) /\ t \in Nat /\ X % D \in Nat
  <2>1. D \in Nat \ {0} /\ 2 \in Nat \ {0}
    BY <1>1
  <2>2. X \div (D * 2) = (X \div D) \div 2 /\ X % (D * 2) = D * ((X \div D) % 2) + (X % D)
    BY <2>1, NestedDiv, NestedMod, Zenon
  <2>3. X \div D \in Nat /\ X % D \in Nat
    BY <1>1
  <2> QED BY <1>1, <2>2, <2>3
<1>4. (st = 0 <=> (t % 2 = 0 /\ X % D = 0)) /\ st \in {0, 1}
  <2> DEFINE a == t % 2
             b == X % D
  <2>1. a \in {0, 1} /\ b \in Nat
    <3> HIDE DEF t
    <3> QED BY <1>3
  <2> HIDE DEF a, b
  <2>2. D * a + b = 0 <=> a = 0 /\ b = 0
    BY <1>1, <2>1
  <2>3. X % H = D * a + b
    BY <1>3 DEF a, b
  <2> QED BY <2>2, <2>3 DEF Sticky, a, b
<1>5. w \div 2 = t \div 4 /\ t % 4 = 2 * (w % 2) + (t % 2)
  <2> HIDE DEF t, w
  <2> QED BY <1>3, FourParts
<1> DEFINE m == t \div 4
           r == t % 4
           h == w % 2
           o == t % 2
<1>6. h \in {0, 1} /\ o \in {0, 1} /\ m \in Nat /\ r = 2 * h + o
  <2> HIDE DEF t, w
  <2>1. w \in Int
    BY <1>3
  <2> QED BY <1>3, <1>5, <2>1
<1>7. y.t \div 4 = m /\ y.t % 4 = r
  BY <1>2
<1>8. y.rest <=> X % D # 0
  BY <1>2
<1> DEFINE exact == r = 0 /\ ~y.rest
           tie   == r = 2 /\ ~y.rest
           above == r >= 2 /\ ~tie
<1> HIDE DEF t, w, st, y, m, r, h, o
<1>9. /\ exact <=> (h = 0 /\ st = 0)
      /\ tie <=> (h = 1 /\ st = 0)
      /\ above <=> (h = 1 /\ st = 1)
  <2>1. st = 0 <=> (o = 0 /\ ~y.rest)
    BY <1>4, <1>8 DEF o
  <2> QED BY <1>4, <1>6, <2>1
<1> DEFINE up == \/ rm = "RTE" /\ (above \/ (tie /\ m % 2 = 1))
                 \/ rm = "RMM" /\ (above \/ tie)
                 \/ rm = "RDN" /\ ~exact /\ sign = 1
                 \/ rm = "RUP" /\ ~exact /\ sign = 0
<1>11. RoundTo(x, q, sign, rm).inexact <=> ~exact
  BY <1>7 DEF RoundTo, RoundQuarters, y
<1>12. RoundTo(x, q, sign, rm).m = IF up THEN m + 1 ELSE m
  BY <1>7 DEF RoundTo, RoundQuarters, y
<1> HIDE DEF up
<1> HIDE DEF exact, tie, above
<1>13. RoundM(w, st, sign, rm) =
         IF \/ rm = "RTE" /\ h = 1 /\ (st = 1 \/ m % 2 = 1)
            \/ rm = "RMM" /\ h = 1
            \/ rm = "RDN" /\ (h = 1 \/ st = 1) /\ sign = 1
            \/ rm = "RUP" /\ (h = 1 \/ st = 1) /\ sign = 0
         THEN m + 1 ELSE m
  BY <1>5 DEF RoundM, m, h
<1>14. RoundTo(x, q, sign, rm).m = RoundM(w, st, sign, rm)
  BY <1>4, <1>6, <1>9, <1>12, <1>13 DEF up, RoundingModes
<1>15. RoundI(w, st) = 1 <=> ~(h = 0 /\ st = 0)
  BY DEF RoundI, h
<1> QED BY <1>9, <1>11, <1>14, <1>15 DEF w, st, H

LEMMA BitsScaled ==
    ASSUME NEW n \in Nat, NEW b, HasBits(n, b), NEW k \in Nat
    PROVE  HasBits(n * 2^k, b + k)
<1> DEFINE T == 2^(b - 1)
           K == 2^k
<1>1. b \in Nat \ {0} /\ T <= n /\ n < 2 * T /\ T \in Nat /\ 2^b = 2 * T
  <2>1. b \in Nat \ {0} /\ T <= n /\ n < 2^b
    BY DEF HasBits
  <2> QED BY <2>1, PowerOfTwo, PowerStep
<1>2. K \in Nat /\ K >= 1
  BY PowerOfTwo
<1>3. 2^(b + k) = 2^b * K /\ 2^((b + k) - 1) = T * K
  <2>1. b - 1 \in Nat /\ (b + k) - 1 = (b - 1) + k
    BY <1>1
  <2> QED BY <1>1, <2>1, PowerSum
<1> HIDE DEF T, K
<1>4. T * K <= n * K /\ n * K < (2 * T) * K
  BY <1>1, <1>2
<1>5. b + k \in Nat \ {0}
  BY <1>1
<1> QED BY <1>1, <1>3, <1>4, <1>5 DEF HasBits, K

\* The leading bit of a value.
LEMMA Log2At ==
    ASSUME Reach, NEW x, NEW L, NEW X \in Nat, Denotes(x, L, X), NEW B, HasBits(X, B)
    PROVE  Log2(x) = L + B - 1 /\ x.n >= 1 /\ B \in Nat
<1> DEFINE n == x.n
           e == x.e
           b == BitLen(n)
           S == 2^(e - L)
<1>1. /\ n \in Nat /\ n < 2^(2 * W64) /\ e \in Int /\ L \in Int /\ L <= e /\ X = n * S
      /\ x.n = n /\ x.d = 1 /\ x.e = e
  BY DEF Denotes
<1>2. S \in Nat /\ S >= 1
  BY <1>1, PowerOfTwo
<1>3. n >= 1 /\ B \in Nat
  <2>1. X >= 1 /\ B \in Nat
    <3>1. B \in Nat \ {0} /\ 2^(B - 1) <= X
      BY DEF HasBits
    <3> QED BY <3>1, PowerOfTwo
  <2> HIDE DEF n, S
  <2> QED BY <1>1, <1>2, <2>1
<1>4. HasBits(n, b) /\ b \in Nat
  BY <1>1, <1>3, BitLenReach
<1> HIDE DEF n, e, b
<1>5. B = b + (e - L)
  <2>1. HasBits(X, b + (e - L))
    BY <1>1, <1>4, BitsScaled
  <2> QED BY <2>1, BitsUnique
<1>6. BitLen(1) = 1
  <2>1. HasBits(1, 1)
    <3>1. 2^0 = 1 /\ 2^(0 + 1) = 2 * 2^0
      BY PowerZero, PowerDoubles
    <3> QED BY <3>1 DEF HasBits
  <2>2. 1 < 2^(2 * W64)
    BY <1>1, <1>3 DEF Reach
  <2>3. HasBits(1, BitLen(1))
    BY <2>2, BitLenReach
  <2> QED BY <2>1, <2>3, BitsUnique
<1> DEFINE k == b - 1
<1>7. k \in Nat /\ 2^k \in Nat /\ 2^k <= n
  BY <1>4, PowerOfTwo DEF HasBits
<1>8. BitLen(x.n) - BitLen(x.d) = k
  BY <1>1, <1>6 DEF b
<1> HIDE DEF k
<1>9. k >= 0 /\ ~(x.n < x.d * 2^k)
  BY <1>1, <1>7
<1>10. Log2(x) = x.e + k
  BY <1>8, <1>9 DEF Log2
<1> QED BY <1>1, <1>3, <1>4, <1>5, <1>10 DEF k

\* The exponent of the last place of a value whose leading bit is at lg.
LastPlace(f, lg) == (IF lg < 1 - Bias(f) THEN 1 - Bias(f) ELSE lg) - f.F

\* The result for a value rounded to m (ix = 1 when not exactly), and to c with
\* unbounded exponent.
Outcome(f, sign, lg, m, ix, c, rm) ==
    LET q     == LastPlace(f, lg)
        over  == q + f.F > Bias(f) \/ (q + f.F = Bias(f) /\ m = 2^(f.F + 1))
        tiny  == lg < 1 - Bias(f) /\ ~(lg = 1 - Bias(f) - 1 /\ c = 2^(f.F + 1))
        toInf == rm \in {"RTE", "RMM", IF sign = 1 THEN "RDN" ELSE "RUP"}
    IN  IF over
        THEN [v |-> Infinity(f, sign) - (IF toInf THEN 0 ELSE 1), fl |-> {"overflow", "inexact"}]
        ELSE [v |-> packToUI(f, sign, q + f.F + Bias(f) - 1, m),
              fl |-> IF ix = 0 THEN {} ELSE IF tiny THEN {"inexact", "underflow"} ELSE {"inexact"}]

\* X units of 2^L, of B bits, rounded.
RoundedAt(f, sign, L, B, X, rm) ==
    LET lg == L + B - 1
        H  == 2^(LastPlace(f, lg) - 1 - L)
        N  == 2^(B - f.F - 2)
    IN  Outcome(f, sign, lg, RoundM(X \div H, Sticky(X, H), sign, rm), RoundI(X \div H, Sticky(X, H)),
                RoundM(X \div N, Sticky(X, N), sign, rm), rm)

LEMMA FormatFacts ==
    ASSUME NEW f, IsFormat(f)
    PROVE  /\ f.E \in Nat /\ f.F \in Nat /\ f.F >= 1 /\ f.G \in Nat /\ f.G >= 6
           /\ Bias(f) \in Nat /\ Bias(f) >= 1 /\ ExpMax(f) = 2 * Bias(f) + 1
           /\ Width(f) = f.F + f.G + 2 /\ Reach /\ f.F + f.G + 2 <= W64
<1>1. /\ f.E \in Nat \ {0, 1} /\ f.F \in Nat \ {0} /\ f.G \in Nat /\ f.G >= 6
      /\ Width(f) \in Nat /\ Width(f) <= W64 /\ W64 \in Nat /\ Width(f) = f.F + f.G + 2
  BY DEF IsFormat, Width
<1>2. f.E - 1 \in Nat /\ f.E - 1 >= 1 /\ f.E >= 1
  BY <1>1
<1>3. 2^f.E = 2 * 2^(f.E - 1) /\ 2^(f.E - 1) = 2 * 2^(f.E - 1 - 1)
  BY <1>1, <1>2, PowerStep
<1>4. 2^(f.E - 1 - 1) \in Nat /\ 2^(f.E - 1 - 1) >= 1
  BY <1>2, PowerOfTwo
<1>5. Bias(f) \in Nat /\ Bias(f) >= 1 /\ ExpMax(f) = 2 * Bias(f) + 1
  BY <1>3, <1>4 DEF Bias, ExpMax
<1>6. Reach
  BY <1>1, PowerOfTwo DEF Reach
<1> QED BY <1>1, <1>5, <1>6

LEMMA RoundedIsAt ==
    ASSUME NEW f, IsFormat(f), NEW x, NEW L, NEW X \in Nat, Denotes(x, L, X),
           NEW B, HasBits(X, B), B >= f.F + 3, NEW sign \in {0, 1}, NEW rm \in RoundingModes
    PROVE  Rounded(f, sign, x, rm) = RoundedAt(f, sign, L, B, X, rm)
<1> DEFINE lg == L + B - 1
           q  == LastPlace(f, lg)
           p  == lg - f.F
           zm == RoundTo(x, q, sign, rm).m
           c  == RoundTo(x, p, sign, rm).m
           H  == 2^(q - 1 - L)
           N  == 2^(B - f.F - 2)
           i  == RoundI(X \div H, Sticky(X, H))
<1>1. Reach /\ f.F \in Nat /\ Bias(f) \in Nat
  BY FormatFacts
<1>2. L \in Int
  BY DEF Denotes
<1>3. Log2(x) = lg /\ B \in Nat
  BY <1>1, Log2At
<1>4. lg \in Int /\ q \in Int /\ p \in Int /\ L <= q - 2 /\ L <= p - 2 /\ p - 1 - L = B - f.F - 2
  BY <1>1, <1>2, <1>3 DEF LastPlace
<1>5. /\ zm = RoundM(X \div H, Sticky(X, H), sign, rm)
      /\ RoundTo(x, q, sign, rm).inexact <=> i = 1
  <2> HIDE DEF q
  <2> QED BY <1>1, <1>4, RoundToAt
<1>6. c = RoundM(X \div N, Sticky(X, N), sign, rm)
  <2>1. N = 2^(p - 1 - L)
    BY <1>4
  <2> HIDE DEF p, N
  <2> QED BY <1>1, <1>4, <2>1, RoundToAt
<1>7. i \in {0, 1}
  BY DEF RoundI
<1> HIDE DEF i, zm, c, H, N
<1>8. Rounded(f, sign, x, rm) = Outcome(f, sign, lg, zm, i, c, rm)
  <2>1. (IF lg < 1 - Bias(f) THEN 1 - Bias(f) ELSE lg) - f.F = q /\ lg - f.F = p
    BY DEF LastPlace
  <2> HIDE DEF lg, p
  <2> QED BY <1>3, <1>5, <1>7, <2>1 DEF Rounded, Outcome, zm, c
<1> QED BY <1>5, <1>6, <1>8 DEF RoundedAt, H, N, i

\* Values of the same leading bit that agree in halves of the last place round alike.
LEMMA RoundedAgree ==
    ASSUME NEW f, IsFormat(f), NEW L \in Int, NEW B \in Nat, B >= f.F + 3, NEW X \in Nat, NEW Y \in Nat,
           Agree(X, Y, 2^(B - f.F - 2)), NEW sign, NEW rm
    PROVE  RoundedAt(f, sign, L, B, X, rm) = RoundedAt(f, sign, L, B, Y, rm)
<1> DEFINE lg == L + B - 1
           q  == LastPlace(f, lg)
           k  == q - lg + f.F
           H  == 2^(q - 1 - L)
           N  == 2^(B - f.F - 2)
<1>1. f.F \in Nat /\ Bias(f) \in Nat
  BY FormatFacts
<1>2. k \in Nat /\ B - f.F - 2 \in Nat /\ q - 1 - L = (B - f.F - 2) + k
  BY <1>1 DEF LastPlace
<1>3. H = N * 2^k /\ N \in Nat \ {0} /\ 2^k \in Nat \ {0}
  <2> HIDE DEF k, q, lg
  <2>1. H = N * 2^k
    BY <1>2, PowerSum
  <2>2. N \in Nat /\ N >= 1 /\ 2^k \in Nat /\ 2^k >= 1
    BY <1>2, PowerOfTwo
  <2> QED BY <2>1, <2>2
<1> HIDE DEF N, k
<1>4. Agree(X, Y, N) /\ Agree(X, Y, H)
  BY <1>3, AgreeCoarser DEF N
<1> QED BY <1>4 DEF RoundedAt, Agree, H, N

------------------------------------------------------------------------------
(* Rounding and packing *)

Increment(H, sign, rm) ==
    IF rm \in {"RTE", "RMM"} THEN H
    ELSE IF rm = (IF sign = 1 THEN "RDN" ELSE "RUP") THEN 2 * H - 1
    ELSE 0

\* Adding the increment and dropping 2 * H is rounding.
IncrementRounds(s, H, sign, rm) ==
    LET up == (s + Increment(H, sign, rm)) \div (2 * H)
        r  == IF s % (2 * H) = H /\ rm = "RTE" THEN up - (up % 2) ELSE up
    IN  /\ r = RoundM(s \div H, Sticky(s, H), sign, rm)
        /\ s % (2 * H) # 0 <=> RoundI(s \div H, Sticky(s, H)) = 1
        /\ r \in {s \div (2 * H), (s \div (2 * H)) + 1} /\ up \in {s \div (2 * H), (s \div (2 * H)) + 1}
        /\ r # up => up % 2 = 1 /\ r = up - 1

LEMMA IncrementForm ==
    ASSUME NEW s \in Nat, NEW H \in Nat, H >= 1, NEW sign \in {0, 1}, NEW rm \in RoundingModes
    PROVE  IncrementRounds(s, H, sign, rm)
<1> DEFINE P == 2 * H
           w == s \div H
           c == s % H
           m == w \div 2
           h == w % 2
           b == H * h + c
           inc == Increment(H, sign, rm)
           up == (s + inc) \div P
           r == IF s % P = H /\ rm = "RTE" THEN up - (up % 2) ELSE up
<1>1. w \in Nat /\ c \in 0 .. H - 1 /\ s = H * w + c
  OBVIOUS
<1>2. m \in Nat /\ h \in {0, 1} /\ w = 2 * m + h
  <2> HIDE DEF w
  <2> QED BY <1>1
<1> HIDE DEF w, c, m, h
<1>3. /\ b \in 0 .. P - 1 /\ (h = 0 => b = c) /\ (h = 1 => b = H + c) /\ P \in Nat /\ P >= 2 /\ P = 2 * H
  BY <1>1, <1>2
<1>4. s = P * m + b
  <2>1. H * w = H * (2 * m + h)
    BY <1>2
  <2>2. H * (2 * m + h) = (2 * H) * m + H * h /\ H * h \in Int /\ (2 * H) * m \in Int
    BY <1>2
  <2> QED BY <1>1, <2>1, <2>2
<1> HIDE DEF b, P
<1>5. s \div P = m /\ s % P = b
  <2>1. s \in Int /\ b \in Nat /\ b < P /\ m \in Int
    BY <1>2, <1>3
  <2> QED BY <1>3, <1>4, <2>1, DivModUnique
<1>6. /\ inc \in Nat /\ inc <= P - 1
      /\ rm \in {"RTE", "RMM"} => inc = H
      /\ rm = "RTZ" => inc = 0
      /\ rm = "RDN" => inc = IF sign = 1 THEN P - 1 ELSE 0
      /\ rm = "RUP" => inc = IF sign = 0 THEN P - 1 ELSE 0
  BY DEF Increment, RoundingModes, P
<1> DEFINE g == IF b + inc >= P THEN 1 ELSE 0
<1>7. up = m + g
  <2> HIDE DEF inc
  <2> DEFINE y == s + inc
             t == b + inc - g * P
             p == m + g
  <2>1. t \in Nat /\ t < P /\ p \in Int /\ y \in Int /\ P * (m + g) = P * m + g * P
    BY <1>2, <1>3, <1>6
  <2>2. y = P * p + t
    <3>1. P * m \in Int /\ g * P \in Int
      BY <1>2, <1>3
    <3> QED BY <1>3, <1>4, <1>6, <2>1, <3>1
  <2> HIDE DEF y, t, p
  <2>3. y \div P = p
    BY <1>3, <2>1, <2>2, DivModUnique
  <2> QED BY <2>3 DEF y, p
<1>8. Sticky(s, H) = (IF c = 0 THEN 0 ELSE 1)
  BY DEF Sticky, c
<1> HIDE DEF inc, up
<1>9. RoundM(s \div H, Sticky(s, H), sign, rm) =
        IF \/ rm = "RTE" /\ h = 1 /\ (c # 0 \/ m % 2 = 1)
           \/ rm = "RMM" /\ h = 1
           \/ rm = "RDN" /\ (h = 1 \/ c # 0) /\ sign = 1
           \/ rm = "RUP" /\ (h = 1 \/ c # 0) /\ sign = 0
        THEN m + 1 ELSE m
  BY <1>8 DEF RoundM, m, h, w
<1>10. RoundI(s \div H, Sticky(s, H)) = 1 <=> ~(h = 0 /\ c = 0)
  BY <1>8 DEF RoundI, h, w
<1>11. s % P # 0 <=> RoundI(s \div H, Sticky(s, H)) = 1
  BY <1>1, <1>2, <1>3, <1>5, <1>10
<1>12. r = RoundM(s \div H, Sticky(s, H), sign, rm) /\ r \in {m, m + 1} /\ (r # up => up % 2 = 1 /\ r = up - 1)
  <2>1. CASE rm = "RTE"
    <3>1. g = 1 <=> h = 1
      BY <1>1, <1>2, <1>3, <1>6, <2>1
    <3>2. s % P = H <=> h = 1 /\ c = 0
      BY <1>1, <1>2, <1>3, <1>5
    <3>3. (m + 1) % 2 = 1 - (m % 2) /\ m % 2 \in {0, 1}
      BY <1>2
    <3> QED BY <1>2, <1>7, <1>9, <2>1, <3>1, <3>2, <3>3
  <2>2. CASE rm = "RMM"
    <3>1. g = 1 <=> h = 1
      BY <1>1, <1>2, <1>3, <1>6, <2>2
    <3> QED BY <1>2, <1>7, <1>9, <2>2, <3>1
  <2>3. CASE rm \in {"RTZ", "RDN", "RUP"}
    <3>1. /\ rm = "RTZ" => g = 0
          /\ rm = "RDN" => (g = 1 <=> (sign = 1 /\ b # 0))
          /\ rm = "RUP" => (g = 1 <=> (sign = 0 /\ b # 0))
      BY <1>3, <1>6
    <3>2. b # 0 <=> h = 1 \/ c # 0
      BY <1>1, <1>2, <1>3
    <3> QED BY <1>2, <1>7, <1>9, <2>3, <3>1, <3>2
  <2> QED BY <2>1, <2>2, <2>3 DEF RoundingModes
<1>13. up \in {m, m + 1}
  BY <1>2, <1>7
<1> HIDE DEF r
<1> QED BY <1>5, <1>11, <1>12, <1>13 DEF IncrementRounds, P, up, r, inc

LEMMA JamAgree ==
    ASSUME NEW a \in Nat, NEW w \in Nat, NEW dist \in Nat, dist >= 1, w >= 1, a < 2^(w - 1)
    PROVE  /\ shiftRightJam(w, a, dist) \in Nat
           /\ shiftRightJam(w, a, dist) = Or1(a \div 2^dist, a % 2^dist # 0)
           /\ Agree(shiftRightJam(w, a, dist) * 2^dist, a, 2 * 2^dist)
<1> DEFINE D == 2^dist
           q == a \div D
           r == a % D
           J == shiftRightJam(w, a, dist)
<1>1. D \in Nat /\ D >= 1
  BY PowerOfTwo
<1>2. q \in Nat /\ r \in 0 .. D - 1
  <2> HIDE DEF D
  <2> QED BY <1>1
<1>3. J = Or1(q, r # 0)
  <2>1. CASE dist < w - 1
    BY <2>1 DEF shiftRightJam, Dropped
  <2>2. CASE dist >= w - 1
    <3>1. w - 1 \in 0 .. dist
      BY <2>2
    <3>2. 2^(w - 1) <= D /\ 2^(w - 1) \in Nat
      BY <3>1, PowerMonotone, PowerOfTwo
    <3>3. a < D /\ a \in Int /\ 0 \in Int /\ a = D * 0 + a
      BY <1>1, <3>2
    <3>4. q = 0 /\ r = a
      <4> HIDE DEF D
      <4> QED BY <1>1, <3>3, DivModUnique DEF q, r
    <3>5. J = IF a # 0 THEN 1 ELSE 0
      BY <2>2 DEF shiftRightJam
    <3>6. 0 % 2 = 0
      OBVIOUS
    <3> HIDE DEF J, q, r
    <3> QED BY <3>4, <3>5, <3>6 DEF Or1
  <2> QED BY <2>1, <2>2
<1>4. J = IF r # 0 /\ q % 2 = 0 THEN q + 1 ELSE q
  BY <1>3 DEF Or1
<1> HIDE DEF J, q, r
<1>5. J \in Nat /\ J \div 2 = q \div 2 /\ (J % 2 = 0 <=> q % 2 = 0 /\ r = 0)
  <2>1. q % 2 = 0 => (q + 1) \div 2 = q \div 2 /\ (q + 1) % 2 = 1
    BY <1>2
  <2> QED BY <1>2, <1>4, <2>1
<1>6. a \div (D * 2) = q \div 2 /\ a % (D * 2) = D * (q % 2) + r
  <2>1. D \in Nat \ {0} /\ 2 \in Nat \ {0}
    BY <1>1
  <2> HIDE DEF D
  <2> QED BY <2>1, NestedDiv, NestedMod, Zenon DEF q, r
<1>7. (J * D) \div (2 * D) = J \div 2 /\ (J * D) % (2 * D) = (J % 2) * D
  <2>1. D \in Nat \ {0} /\ 2 \in Nat \ {0} /\ J \in Int
    BY <1>1, <1>5
  <2> HIDE DEF D
  <2> QED BY <2>1, ScaledDivMod, Zenon
<1>8. D * 2 = 2 * D
  BY <1>1
<1> DEFINE h == q % 2
           k == J % 2
<1>9. h \in {0, 1} /\ k \in {0, 1}
  BY <1>2, <1>5
<1> HIDE DEF D, h, k
<1>10. (k * D = 0 <=> k = 0) /\ (D * h + r = 0 <=> h = 0 /\ r = 0)
  BY <1>1, <1>2, <1>9
<1>11. Agree(J * D, a, 2 * D)
  BY <1>5, <1>6, <1>7, <1>8, <1>10 DEF Agree, Sticky, h, k
<1> QED BY <1>3, <1>5, <1>11 DEF J, D, q, r

\* A significand as the rounding expects it.
Normalised(f, sig) == sig \in Nat /\ 2^(f.F + f.G) <= sig /\ sig < 2^(f.F + f.G + 1)

LEMMA GuardSizes ==
    ASSUME NEW f, IsFormat(f)
    PROVE  /\ 2^(f.G - 1) \in Nat /\ 2^(f.G - 1) >= 2 /\ 2^f.G = 2 * 2^(f.G - 1)
           /\ 2^f.F \in Nat /\ 2^f.F >= 2 /\ 2^(f.F + 1) = 2 * 2^f.F
           /\ 2^(f.F + f.G) = 2^f.F * 2^f.G /\ 2^(f.F + f.G + 1) = 2^(f.F + 1) * 2^f.G
           /\ 2^f.G \in Nat
<1>1. f.F \in Nat /\ f.F >= 1 /\ f.G \in Nat /\ f.G >= 6
  BY FormatFacts
<1>2. 2^f.G = 2 * 2^(f.G - 1) /\ 2^(f.G - 1) = 2 * 2^(f.G - 1 - 1)
  <2>1. f.G - 1 \in Nat /\ f.G - 1 >= 1 /\ f.G >= 1
    BY <1>1
  <2> QED BY <1>1, <2>1, PowerStep
<1>3. 2^(f.G - 1 - 1) \in Nat /\ 2^(f.G - 1 - 1) >= 1
  BY <1>1, PowerOfTwo
<1>4. 2^f.F \in Nat /\ 2^f.F >= 2
  BY Sizes
<1>5. 2^(f.F + 1) = 2 * 2^f.F /\ 2^(f.F + f.G) = 2^f.F * 2^f.G
  BY <1>1, PowerDoubles, PowerSum
<1>6. 2^(f.F + f.G + 1) = 2^(f.F + 1) * 2^f.G
  <2>1. f.F + f.G + 1 = (f.F + 1) + f.G /\ f.F + 1 \in Nat
    BY <1>1
  <2> QED BY <1>1, <2>1, PowerSum
<1> QED BY <1>2, <1>3, <1>4, <1>5, <1>6

\* A normalised significand carries out exactly when its rounding does.
LEMMA Carries ==
    ASSUME NEW f, IsFormat(f), NEW sig, Normalised(f, sig), NEW sign \in {0, 1}, NEW rm \in RoundingModes
    PROVE  LET H == 2^(f.G - 1)
               m == RoundM(sig \div H, Sticky(sig, H), sign, rm)
           IN  /\ m = 2^(f.F + 1) <=> sig + Increment(H, sign, rm) >= 2^(f.F + f.G + 1)
               /\ m \in Nat /\ m >= 1
<1> DEFINE H == 2^(f.G - 1)
           P == 2^f.G
           C == 2^(f.F + 1)
           full == 2^(f.F + f.G + 1)
           m == RoundM(sig \div H, Sticky(sig, H), sign, rm)
           inc == Increment(H, sign, rm)
           y == sig + inc
           up == y \div P
           b == sig \div P
<1>1. /\ H \in Nat /\ H >= 2 /\ P = 2 * H /\ 2^f.F \in Nat /\ 2^f.F >= 2 /\ C = 2 * 2^f.F
      /\ 2^(f.F + f.G) = 2^f.F * P /\ full = C * P /\ P \in Nat
  BY GuardSizes
<1>2. sig \in Nat /\ 2^f.F * P <= sig /\ sig < C * P
  BY <1>1 DEF Normalised
<1> HIDE DEF H, P, C, full
<1>3. IncrementRounds(sig, H, sign, rm)
  BY <1>1, <1>2, IncrementForm
<1>4. inc \in Nat /\ inc < P
  BY <1>1 DEF Increment
<1> HIDE DEF inc
<1>5. m \in {b, b + 1} /\ up \in {b, b + 1} /\ (m # up => up % 2 = 1 /\ m = up - 1)
  <2> DEFINE r == IF sig % P = H /\ rm = "RTE" THEN up - (up % 2) ELSE up
  <2>1. r = m /\ r \in {b, b + 1} /\ up \in {b, b + 1} /\ (r # up => up % 2 = 1 /\ r = up - 1)
    BY <1>1, <1>3 DEF IncrementRounds, inc
  <2> HIDE DEF r, m, up, b
  <2> QED BY <2>1
<1> HIDE DEF m, y
<1>6. up \in Int /\ P * up <= y /\ y < P * up + P /\ b \in Int /\ P * b <= sig /\ sig < P * b + P /\ y \in Int
  <2>1. y \in Int
    BY <1>2, <1>4 DEF y
  <2>2. b \in Int /\ P * b <= sig /\ sig < P * b + P
    <3>1. sig \in Int /\ P >= 1
      BY <1>1, <1>2
    <3>2. b \in Int /\ sig % P \in 0 .. P - 1 /\ sig = P * b + (sig % P)
      BY <1>1, <3>1, Euclid
    <3> HIDE DEF b
    <3>3. P * b \in Int
      BY <1>1, <3>2
    <3> QED BY <1>1, <3>2, <3>3
  <2>3. up \in Int /\ P * up <= y /\ y < P * up + P
    <3>1. P \in Nat /\ P >= 1
      BY <1>1
    <3>2. up \in Int /\ y % P \in 0 .. P - 1 /\ y = P * up + (y % P)
      BY <2>1, <3>1, Euclid
    <3> HIDE DEF up
    <3>3. P * up \in Int
      BY <1>1, <3>2
    <3> QED BY <1>1, <3>2, <3>3
  <2> QED BY <2>1, <2>2, <2>3
<1> HIDE DEF up, b
<1>7. b >= 2^f.F
  <2>1. 2^f.F * P < P * (b + 1)
    BY <1>1, <1>2, <1>6
  <2> QED BY <1>1, <1>6, <2>1
<1>8. b < C
  <2>1. P * b < P * C
    BY <1>1, <1>2, <1>6
  <2> QED BY <1>1, <1>6, <2>1
<1>9. y >= C * P <=> up >= C
  <2>1. ASSUME y >= C * P PROVE up >= C
    <3>1. P * C < P * (up + 1)
      BY <1>1, <1>6, <2>1
    <3> QED BY <1>1, <1>6, <3>1
  <2>2. ASSUME up >= C PROVE y >= C * P
    <3>1. P * up >= P * C
      BY <1>1, <1>6, <2>2
    <3> QED BY <1>1, <1>6, <3>1
  <2> QED BY <2>1, <2>2
<1>10. C % 2 = 0 /\ C \in Nat
  BY <1>1
<1>11. m = C <=> up >= C
  <2>1. up <= C
    BY <1>1, <1>5, <1>6, <1>8
  <2>2. up % 2 = 1 => up # C
    BY <1>10
  <2> QED BY <1>1, <1>5, <1>6, <2>1, <2>2
<1>12. m \in Nat /\ m >= 1
  BY <1>1, <1>5, <1>6, <1>7
<1>13. m = C <=> y >= full
  BY <1>1, <1>9, <1>11
<1> QED BY <1>12, <1>13 DEF m, y, inc, H, C, full

LEMMA DivideDown ==
    ASSUME NEW s \in Nat, NEW D \in Nat \ {0}, NEW N \in Nat \ {0}
    PROVE  (s * D) \div (N * D) = s \div N /\ Sticky(s * D, N * D) = Sticky(s, N)
<1>1. (s * D) \div (N * D) = s \div N /\ (s * D) % (N * D) = (s % N) * D
  <2>1. s \in Int
    OBVIOUS
  <2> QED BY <2>1, ScaledDivMod, Zenon
<1>2. s % N \in Nat
  OBVIOUS
<1>3. \A m \in Nat : m * D = 0 <=> m = 0
  OBVIOUS
<1>4. (s % N) * D = 0 <=> s % N = 0
  BY <1>2, <1>3
<1> QED BY <1>1, <1>4 DEF Sticky

\* Below the smallest exponent, what is left of the significand rounds as the whole.
LEMMA Denormalised ==
    ASSUME NEW f, IsFormat(f), NEW sig, Normalised(f, sig), NEW k \in Nat, k >= 1
    PROVE  LET s == shiftRightJam(Width(f), sig, k)
               N == 2^(f.G - 1)
               H == 2^(f.G - 1 + k)
           IN  /\ s \in Nat
               /\ s \div N = sig \div H /\ Sticky(s, N) = Sticky(sig, H)
<1> DEFINE s == shiftRightJam(Width(f), sig, k)
           N == 2^(f.G - 1)
           H == 2^(f.G - 1 + k)
           D == 2^k
           K == 2^(f.G - 2)
<1>1. f.F \in Nat /\ f.G \in Nat /\ f.G >= 6 /\ Width(f) = f.F + f.G + 2
  BY FormatFacts
<1>2. D \in Nat /\ D >= 1 /\ K \in Nat /\ K >= 1
  BY <1>1, PowerOfTwo
<1>3. N = 2 * K /\ H = N * D
  <2>1. f.G - 1 \in Nat /\ f.G - 1 >= 1 /\ f.G - 1 - 1 = f.G - 2
    BY <1>1
  <2>2. N = 2 * K
    BY <2>1, PowerStep
  <2> QED BY <2>1, <2>2, PowerSum
<1>4. s \in Nat /\ Agree(s * D, sig, 2 * D)
  <2>1. Width(f) \in Nat /\ Width(f) >= 1 /\ Width(f) - 1 = f.F + f.G + 1
    BY <1>1
  <2>2. sig \in Nat /\ sig < 2^(Width(f) - 1)
    BY <2>1 DEF Normalised
  <2> QED BY <2>1, <2>2, JamAgree
<1> HIDE DEF s, D, K, N, H
<1>5. Agree(s * D, sig, H)
  <2>1. s * D \in Nat /\ sig \in Nat /\ 2 * D \in Nat \ {0} /\ K \in Nat \ {0}
    BY <1>2, <1>4 DEF Normalised
  <2>2. Agree(s * D, sig, (2 * D) * K)
    BY <1>4, <2>1, AgreeCoarser
  <2>3. (2 * D) * K = H
    <3>1. (2 * D) * K = (2 * K) * D
      BY <1>2
    <3> QED BY <1>3, <3>1
  <2> QED BY <2>2, <2>3
<1>6. (s * D) \div H = s \div N /\ Sticky(s * D, H) = Sticky(s, N)
  <2>1. D \in Nat \ {0} /\ N \in Nat \ {0}
    BY <1>2, <1>3
  <2> QED BY <1>3, <1>4, <2>1, DivideDown
<1>7. s \div N = sig \div H /\ Sticky(s, N) = Sticky(sig, H)
  BY <1>5, <1>6 DEF Agree
<1> QED BY <1>4, <1>7 DEF s, N, H

\* roundPack's increment and shifts are the rounding of the value it stands for.
LEMMA RoundPackAt ==
    ASSUME NEW f, IsFormat(f), NEW sig, Normalised(f, sig), NEW exp \in Int,
           NEW sign \in {0, 1}, NEW rm \in RoundingModes
    PROVE  roundPack(f, sign, exp, sig, rm)
             = RoundedAt(f, sign, exp + 1 - Bias(f) - f.F - f.G, f.F + f.G + 1, sig, rm)
<1> DEFINE M    == exp + 1 - Bias(f) - f.F - f.G
           N    == 2^(f.G - 1)
           P    == 2^f.G
           C    == 2^(f.F + 1)
           full == 2^(f.F + f.G + 1)
           inc  == Increment(N, sign, rm)
           lg   == exp + 1 - Bias(f)
           q    == LastPlace(f, lg)
           H    == 2^(q - 1 - M)
           s    == IF exp < 0 THEN shiftRightJam(Width(f), sig, -exp) ELSE sig
           m    == RoundM(sig \div H, Sticky(sig, H), sign, rm)
           ix   == RoundI(sig \div H, Sticky(sig, H))
           c    == RoundM(sig \div N, Sticky(sig, N), sign, rm)
           up   == (s + inc) \div P
           r    == IF s % P = N /\ rm = "RTE" THEN up - (up % 2) ELSE up
<1>1. /\ f.F \in Nat /\ f.G \in Nat /\ f.G >= 6 /\ Bias(f) \in Nat /\ Bias(f) >= 1
      /\ ExpMax(f) = 2 * Bias(f) + 1 /\ Width(f) = f.F + f.G + 2
  BY FormatFacts
<1>2. N \in Nat /\ N >= 2 /\ P = 2 * N
  BY GuardSizes
<1>3. RoundedAt(f, sign, M, f.F + f.G + 1, sig, rm) = Outcome(f, sign, lg, m, ix, c, rm)
  <2>1. M + (f.F + f.G + 1) - 1 = lg /\ (f.F + f.G + 1) - f.F - 2 = f.G - 1
    BY <1>1
  <2> QED BY <2>1 DEF RoundedAt
<1>4. roundIncrement(f, sign, rm) = inc
  BY <1>2 DEF roundIncrement, Increment
<1>5. 2^(Width(f) - 1) = full
  <2>1. Width(f) - 1 = f.F + f.G + 1
    BY <1>1
  <2> QED BY <2>1
<1>6. (c = C <=> sig + inc >= full) /\ c \in Nat /\ c >= 1
  BY Carries
<1>7. /\ exp >= 0 => q = lg - f.F /\ q - 1 - M = f.G - 1
      /\ exp < 0 => q = 1 - Bias(f) - f.F /\ q - 1 - M = f.G - 1 + (-exp)
  BY <1>1 DEF LastPlace
<1> HIDE DEF q, M
<1>8. s \in Nat /\ s \div N = sig \div H /\ Sticky(s, N) = Sticky(sig, H)
  <2>1. CASE exp >= 0
    <3>1. q - 1 - M = f.G - 1
      BY <1>7, <2>1
    <3>2. H = N
      BY <3>1
    <3>3. s = sig
      BY <2>1
    <3> HIDE DEF s, H, N
    <3> QED BY <3>2, <3>3 DEF Normalised
  <2>2. CASE exp < 0
    <3>1. -exp \in Nat /\ -exp >= 1
      BY <2>2
    <3>2. q - 1 - M = f.G - 1 + (-exp)
      BY <1>7, <2>2
    <3>3. H = 2^(f.G - 1 + (-exp))
      BY <3>2
    <3>4. s = shiftRightJam(Width(f), sig, -exp)
      BY <2>2
    <3>5. LET z == shiftRightJam(Width(f), sig, -exp)
          IN  z \in Nat /\ z \div 2^(f.G - 1) = sig \div 2^(f.G - 1 + (-exp))
              /\ Sticky(z, 2^(f.G - 1)) = Sticky(sig, 2^(f.G - 1 + (-exp)))
      BY <3>1, Denormalised
    <3> HIDE DEF s, H
    <3> QED BY <3>3, <3>4, <3>5
  <2> HIDE DEF s, H, N
  <2> QED BY <2>1, <2>2
<1>21. exp >= 0 => m = c
  <2> SUFFICES ASSUME exp >= 0 PROVE m = c
    OBVIOUS
  <2>1. q - 1 - M = f.G - 1
    BY <1>7
  <2>2. H = N
    BY <2>1
  <2> HIDE DEF H, N
  <2> QED BY <2>2
<1>9. r = m /\ (s % P # 0 <=> ix = 1)
  <2>1. IncrementRounds(s, N, sign, rm)
    <3> HIDE DEF s, N
    <3> QED BY <1>2, <1>8, IncrementForm
  <2> QED BY <1>2, <1>8, <2>1 DEF IncrementRounds
<1>10. ix \in {0, 1}
  BY DEF RoundI
<1> DEFINE over == exp > ExpMax(f) - 2 \/ (exp = ExpMax(f) - 2 /\ sig + inc >= full)
           tiny == exp < -1 \/ sig + inc < full
<1>11. roundPack(f, sign, exp, sig, rm) =
         IF over
         THEN [v |-> packToUI(f, sign, ExpMax(f), 0) - (IF inc = 0 THEN 1 ELSE 0), fl |-> {"overflow", "inexact"}]
         ELSE [v |-> packToUI(f, sign, IF exp < 0 \/ r = 0 THEN 0 ELSE exp, r),
               fl |-> {x \in {"underflow", "inexact"} : s % P # 0 /\ (x = "underflow" => exp < 0 /\ tiny)}]
  <2> DEFINE body(i, u, b) ==
               LET z == IF b = N /\ rm = "RTE" THEN ((s + i) \div P) - (((s + i) \div P) % 2) ELSE (s + i) \div P
               IN  IF exp > ExpMax(f) - 2 \/ (exp = ExpMax(f) - 2 /\ sig + i >= u)
                   THEN [v |-> packToUI(f, sign, ExpMax(f), 0) - (IF i = 0 THEN 1 ELSE 0), fl |-> {"overflow", "inexact"}]
                   ELSE [v |-> packToUI(f, sign, IF exp < 0 \/ z = 0 THEN 0 ELSE exp, z),
                         fl |-> {x \in {"underflow", "inexact"} : b # 0 /\ (x = "underflow" => exp < 0 /\ (exp < -1 \/ sig + i < u))}]
  <2>1. roundPack(f, sign, exp, sig, rm) = body(roundIncrement(f, sign, rm), 2^(Width(f) - 1), s % P)
    BY Zenon DEF roundPack
  <2>2. body(roundIncrement(f, sign, rm), 2^(Width(f) - 1), s % P) = body(inc, full, s % P)
    <3> HIDE DEF body, inc, full
    <3> QED BY <1>4, <1>5
  <2>3. body(inc, full, s % P) = IF over
         THEN [v |-> packToUI(f, sign, ExpMax(f), 0) - (IF inc = 0 THEN 1 ELSE 0), fl |-> {"overflow", "inexact"}]
         ELSE [v |-> packToUI(f, sign, IF exp < 0 \/ r = 0 THEN 0 ELSE exp, r),
               fl |-> {x \in {"underflow", "inexact"} : s % P # 0 /\ (x = "underflow" => exp < 0 /\ tiny)}]
    BY Zenon
  <2> HIDE DEF body
  <2> QED BY <2>1, <2>2, <2>3, Zenon
<1>12. sig \in Nat /\ inc \in Nat /\ full \in Nat
  <2>1. full \in Nat
    BY <1>1, PowerOfTwo
  <2>2. inc \in Nat
    BY <1>2 DEF Increment
  <2> QED BY <2>1, <2>2 DEF Normalised
<1>13. inc = 0 <=> ~(rm \in {"RTE", "RMM", IF sign = 1 THEN "RDN" ELSE "RUP"})
  BY <1>2 DEF Increment
<1> HIDE DEF inc, s, r, m, ix, c, H, N, P, C, full, up
<1>14. over <=> (q + f.F > Bias(f) \/ (q + f.F = Bias(f) /\ m = C))
  <2>1. CASE exp >= 0
    BY <1>1, <1>6, <1>7, <1>21, <2>1
  <2>2. CASE exp < 0
    BY <1>1, <1>7, <2>2
  <2> QED BY <2>1, <2>2
<1>15. exp < 0 /\ tiny <=> (lg < 1 - Bias(f) /\ ~(lg = 1 - Bias(f) - 1 /\ c = C))
  BY <1>1, <1>6, <1>12
<1>16. ~over => (IF exp < 0 \/ r = 0 THEN 0 ELSE exp) = q + f.F + Bias(f) - 1
  <2>1. CASE exp >= 0
    BY <1>1, <1>6, <1>7, <1>9, <1>21, <2>1
  <2>2. CASE exp < 0
    BY <1>1, <1>7, <2>2
  <2> QED BY <2>1, <2>2
<1> DEFINE t == exp < 0 /\ tiny
<1>17. {x \in {"underflow", "inexact"} : s % P # 0 /\ (x = "underflow" => t)}
         = IF ix = 0 THEN {} ELSE IF t THEN {"inexact", "underflow"} ELSE {"inexact"}
  <2> HIDE DEF t
  <2>1. CASE ix = 0
    BY <1>9, <2>1
  <2>2. CASE ix = 1 /\ t
    BY <1>9, <2>2
  <2>3. CASE ix = 1 /\ ~t
    BY <1>9, <2>3
  <2> QED BY <1>10, <2>1, <2>2, <2>3
<1> HIDE DEF over, q, lg
<1>18. Outcome(f, sign, lg, m, ix, c, rm) =
        IF q + f.F > Bias(f) \/ (q + f.F = Bias(f) /\ m = C)
        THEN [v |-> Infinity(f, sign) - (IF rm \in {"RTE", "RMM", IF sign = 1 THEN "RDN" ELSE "RUP"} THEN 0 ELSE 1), fl |-> {"overflow", "inexact"}]
        ELSE [v |-> packToUI(f, sign, q + f.F + Bias(f) - 1, m),
              fl |-> IF ix = 0 THEN {} ELSE IF lg < 1 - Bias(f) /\ ~(lg = 1 - Bias(f) - 1 /\ c = C) THEN {"inexact", "underflow"} ELSE {"inexact"}]
  BY DEF Outcome, q, C
<1>19. CASE over
  <2> DEFINE k == IF rm \in {"RTE", "RMM", IF sign = 1 THEN "RDN" ELSE "RUP"} THEN 0 ELSE 1
  <2>1. (IF inc = 0 THEN 1 ELSE 0) = k
    BY <1>13
  <2>2. roundPack(f, sign, exp, sig, rm) = [v |-> Infinity(f, sign) - (IF inc = 0 THEN 1 ELSE 0), fl |-> {"overflow", "inexact"}]
    BY <1>11, <1>19 DEF Infinity
  <2>3. Outcome(f, sign, lg, m, ix, c, rm) = [v |-> Infinity(f, sign) - k, fl |-> {"overflow", "inexact"}]
    BY <1>14, <1>18, <1>19
  <2> HIDE DEF k
  <2> QED BY <1>3, <2>1, <2>2, <2>3 DEF M
<1>20. CASE ~over
  <2>1. (IF exp < 0 \/ r = 0 THEN 0 ELSE exp) = q + f.F + Bias(f) - 1
    BY <1>16, <1>20
  <2>2. t <=> (lg < 1 - Bias(f) /\ ~(lg = 1 - Bias(f) - 1 /\ c = C))
    BY <1>15
  <2> HIDE DEF t
  <2>3. roundPack(f, sign, exp, sig, rm) = [v |-> packToUI(f, sign, q + f.F + Bias(f) - 1, m),
              fl |-> IF ix = 0 THEN {} ELSE IF t THEN {"inexact", "underflow"} ELSE {"inexact"}]
    <3>1. roundPack(f, sign, exp, sig, rm) = [v |-> packToUI(f, sign, IF exp < 0 \/ r = 0 THEN 0 ELSE exp, r),
              fl |-> {x \in {"underflow", "inexact"} : s % P # 0 /\ (x = "underflow" => exp < 0 /\ tiny)}]
      BY <1>11, <1>20
    <3>2. {x \in {"underflow", "inexact"} : s % P # 0 /\ (x = "underflow" => exp < 0 /\ tiny)}
           = IF ix = 0 THEN {} ELSE IF t THEN {"inexact", "underflow"} ELSE {"inexact"}
      BY <1>17 DEF t
    <3> HIDE DEF tiny
    <3> QED BY <1>9, <2>1, <3>1, <3>2, Zenon
  <2> DEFINE fl(b) == IF ix = 0 THEN {} ELSE IF b THEN {"inexact", "underflow"} ELSE {"inexact"}
             u == lg < 1 - Bias(f) /\ ~(lg = 1 - Bias(f) - 1 /\ c = C)
  <2>4. fl(t) = fl(u)
    <3> HIDE DEF u
    <3> QED BY <2>2 DEF u
  <2>5. Outcome(f, sign, lg, m, ix, c, rm) = [v |-> packToUI(f, sign, q + f.F + Bias(f) - 1, m), fl |-> fl(u)]
    BY <1>14, <1>18, <1>20
  <2>6. roundPack(f, sign, exp, sig, rm) = [v |-> packToUI(f, sign, q + f.F + Bias(f) - 1, m), fl |-> fl(t)]
    BY <2>3
  <2> HIDE DEF fl, u
  <2> QED BY <1>3, <2>4, <2>5, <2>6 DEF M
<1> QED BY <1>19, <1>20

\* X units of 2^L, rounded.
ValueRounded(f, sign, L, X, rm) ==
    RoundedAt(f, sign, L, CHOOSE B \in Nat : HasBits(X, B), X, rm)

LEMMA ValueAt ==
    ASSUME NEW f, NEW sign, NEW L, NEW X \in Nat, NEW rm, NEW B, HasBits(X, B)
    PROVE  ValueRounded(f, sign, L, X, rm) = RoundedAt(f, sign, L, B, X, rm)
<1> DEFINE Z == CHOOSE K \in Nat : HasBits(X, K)
<1>1. B \in Nat
  BY DEF HasBits
<1>2. HasBits(X, Z)
  BY <1>1
<1>3. Z = B
  <2> HIDE DEF Z
  <2> QED BY <1>2, BitsUnique
<1> QED BY <1>3 DEF ValueRounded

\* The unit in which a value is given does not matter.
LEMMA ShiftedRounding ==
    ASSUME NEW f, IsFormat(f), NEW sign, NEW rm, NEW L \in Int, NEW B \in Nat, B >= f.F + 2,
           NEW X \in Nat, NEW k \in Nat
    PROVE  RoundedAt(f, sign, L, B, X, rm) = RoundedAt(f, sign, L - k, B + k, X * 2^k, rm)
<1> DEFINE lg == L + B - 1
           q  == LastPlace(f, lg)
           D  == 2^k
           g  == q - 1 - L
           n  == B - f.F - 2
           H  == 2^g
           N  == 2^n
<1>1. f.F \in Nat /\ Bias(f) \in Nat
  BY FormatFacts
<1>2. g \in Nat /\ n \in Nat
  BY <1>1 DEF LastPlace
<1>3. /\ (L - k) + (B + k) - 1 = lg /\ q - 1 - (L - k) = g + k /\ (B + k) - f.F - 2 = n + k
  BY <1>1 DEF LastPlace
<1> HIDE DEF g, n, lg, q
<1>4. 2^(g + k) = H * D /\ 2^(n + k) = N * D
  BY <1>2, PowerSum
<1>5. D \in Nat \ {0} /\ H \in Nat \ {0} /\ N \in Nat \ {0}
  BY <1>2, PowerOfTwo
<1> HIDE DEF D, H, N
<1>6. (X * D) \div (H * D) = X \div H /\ Sticky(X * D, H * D) = Sticky(X, H)
  BY <1>5, DivideDown
<1>7. (X * D) \div (N * D) = X \div N /\ Sticky(X * D, N * D) = Sticky(X, N)
  BY <1>5, DivideDown
<1> DEFINE out(h, s, j, t) == Outcome(f, sign, lg, RoundM(h, s, sign, rm), RoundI(h, s), RoundM(j, t, sign, rm), rm)
<1>8. RoundedAt(f, sign, L, B, X, rm) = out(X \div H, Sticky(X, H), X \div N, Sticky(X, N))
  BY DEF RoundedAt, lg, q, H, N, g, n
<1>9. RoundedAt(f, sign, L - k, B + k, X * D, rm)
        = out((X * D) \div 2^(g + k), Sticky(X * D, 2^(g + k)), (X * D) \div 2^(n + k), Sticky(X * D, 2^(n + k)))
  <2> DEFINE l == (L - k) + (B + k) - 1
             z == LastPlace(f, l) - 1 - (L - k)
             y == (B + k) - f.F - 2
  <2>1. RoundedAt(f, sign, L - k, B + k, X * D, rm) =
          Outcome(f, sign, l, RoundM((X * D) \div 2^z, Sticky(X * D, 2^z), sign, rm),
                  RoundI((X * D) \div 2^z, Sticky(X * D, 2^z)),
                  RoundM((X * D) \div 2^y, Sticky(X * D, 2^y), sign, rm), rm)
    BY DEF RoundedAt
  <2>2. l = lg /\ y = n + k
    BY <1>3
  <2>3. z = g + k
    <3>1. LastPlace(f, l) = q
      BY <2>2 DEF q
    <3> HIDE DEF l
    <3> QED BY <1>3, <3>1
  <2> HIDE DEF l, z, y
  <2> QED BY <2>1, <2>2, <2>3
<1> HIDE DEF out
<1> QED BY <1>4, <1>6, <1>7, <1>8, <1>9 DEF D

\* The exponent of a significand's unit at exponent 0.
Base(f) == 1 - Bias(f) - f.F - f.G

LEMMA BaseInt == ASSUME NEW f, IsFormat(f) PROVE Base(f) \in Int
<1>1. f.F \in Int /\ f.G \in Int /\ Bias(f) \in Int
  BY FormatFacts
<1> QED BY <1>1 DEF Base

PacksAs(f, sign, exp, sig, rm, k, X) ==
    roundPack(f, sign, exp, sig, rm) = ValueRounded(f, sign, exp + Base(f) - k, X, rm)

\* A significand that agrees with a value below its last places rounds as the value.
LEMMA RoundPackBase ==
    ASSUME NEW f, IsFormat(f), NEW sig, Normalised(f, sig), NEW exp \in Int,
           NEW sign \in {0, 1}, NEW rm \in RoundingModes,
           NEW k \in Nat, NEW X \in Nat, Agree(X, sig * 2^k, 2^(k + f.G - 1))
    PROVE  PacksAs(f, sign, exp, sig, rm, k, X)
<1> DEFINE M == exp + Base(f)
           B == f.F + f.G + 1
           Y == sig * 2^k
<1>1. f.F \in Nat /\ f.G \in Nat /\ f.G >= 6 /\ Bias(f) \in Nat
  BY FormatFacts
<1>2. M \in Int /\ M - k \in Int /\ M - k = exp + Base(f) - k
  <2>1. \A c \in Int : exp + c \in Int /\ (exp + c) - k \in Int /\ (exp + c) - k = exp + c - k
    OBVIOUS
  <2> QED BY <2>1, BaseInt, Zenon
<1>10. B \in Nat /\ B + k \in Nat /\ B \in Nat \ {0} /\ B + k \in Nat \ {0}
  BY <1>1
<1>11. B >= f.F + 2 /\ B + k >= f.F + 3
  BY <1>1
<1>12. (B + k) - f.F - 2 = k + f.G - 1 /\ k + f.G - 1 \in Nat /\ k + f.G - 1 < B + k
  BY <1>1
<1>3. HasBits(sig, B) /\ sig \in Nat
  <2>1. B - 1 = f.F + f.G
    BY <1>1
  <2> QED BY <1>10, <2>1 DEF Normalised, HasBits
<1> HIDE DEF B, M
<1>4. HasBits(Y, B + k) /\ Y \in Nat
  <2>1. 2^k \in Nat
    BY PowerOfTwo
  <2> QED BY <1>3, <2>1, BitsScaled
<1> HIDE DEF Y
<1>5. HasBits(X, B + k)
  <2>1. Agree(Y, X, 2^(k + f.G - 1))
    BY AgreeSymmetric DEF Y
  <2> QED BY <1>4, <1>10, <1>12, <2>1, AgreeBits
<1>6. roundPack(f, sign, exp, sig, rm) = RoundedAt(f, sign, M, B, sig, rm)
  <2>1. M = exp + 1 - Bias(f) - f.F - f.G
    BY DEF M, Base
  <2> QED BY <2>1, RoundPackAt DEF B
<1>7. RoundedAt(f, sign, M, B, sig, rm) = RoundedAt(f, sign, M - k, B + k, Y, rm)
  <2>1. sig \in Nat
    BY <1>3
  <2>2. M \in Int /\ B \in Nat /\ B >= f.F + 2
    BY <1>2, <1>10, <1>11
  <2>3. RoundedAt(f, sign, M, B, sig, rm) = RoundedAt(f, sign, M - k, B + k, sig * 2^k, rm)
    <3> DEFINE P(l, b, x) == RoundedAt(f, sign, l, b, x, rm) = RoundedAt(f, sign, l - k, b + k, x * 2^k, rm)
    <3>1. ASSUME NEW l \in Int, NEW b \in Nat, b >= f.F + 2, NEW x \in Nat
          PROVE  P(l, b, x)
      BY <3>1, ShiftedRounding
    <3> HIDE DEF P
    <3>2. P(M, B, sig)
      BY <2>1, <2>2, <3>1
    <3> QED BY <3>2 DEF P
  <2> QED BY <2>3 DEF Y
<1>8. RoundedAt(f, sign, M - k, B + k, Y, rm) = RoundedAt(f, sign, M - k, B + k, X, rm)
  <2>1. Agree(X, Y, 2^((B + k) - f.F - 2))
    BY <1>12 DEF Y
  <2>3. RoundedAt(f, sign, M - k, B + k, X, rm) = RoundedAt(f, sign, M - k, B + k, Y, rm)
    BY <1>2, <1>4, <1>10, <1>11, <2>1, RoundedAgree
  <2> QED BY <2>3
<1>9. ValueRounded(f, sign, M - k, X, rm) = RoundedAt(f, sign, M - k, B + k, X, rm)
  BY <1>5, ValueAt
<1> QED BY <1>2, <1>6, <1>7, <1>8, <1>9 DEF PacksAs

\* A value the format holds is rounded to itself.
LEMMA RoundedExact ==
    ASSUME NEW f, IsFormat(f), NEW sign, NEW rm,
           NEW e \in Int, e >= 0, e <= ExpMax(f) - 2,
           NEW N \in Nat, N >= 1, N < 2^(f.F + 1), N >= 2^f.F \/ e = 0,
           NEW k \in Nat, k >= 2
    PROVE  ValueRounded(f, sign, e + 1 - Bias(f) - f.F - k, N * 2^k, rm) = Exact(packToUI(f, sign, e, N))
<1> DEFINE u == e + 1 - Bias(f) - f.F
           L == u - k
           X == N * 2^k
           H == 2^(k - 1)
<1>1. f.F \in Nat /\ Bias(f) \in Nat /\ Bias(f) >= 1 /\ ExpMax(f) = 2 * Bias(f) + 1
  BY FormatFacts
<1>2. PICK b \in 1 .. f.F + 1 : HasBits(N, b)
  <2>1. f.F + 1 \in Nat
    BY <1>1
  <2> QED BY <2>1, BitsExist
<1>3. N >= 2^f.F => b = f.F + 1
  <2> SUFFICES ASSUME N >= 2^f.F PROVE b = f.F + 1
    OBVIOUS
  <2>1. (f.F + 1) - 1 = f.F /\ f.F + 1 \in Nat \ {0}
    BY <1>1
  <2>2. HasBits(N, f.F + 1)
    BY <2>1 DEF HasBits
  <2> QED BY <1>2, <2>2, BitsUnique
<1>4. HasBits(X, b + k) /\ X \in Nat
  <2>1. 2^k \in Nat
    BY PowerOfTwo
  <2> QED BY <1>2, <2>1, BitsScaled
<1> DEFINE lg == L + (b + k) - 1
           q == LastPlace(f, lg)
<1>5. q = u /\ q - 1 - L = k - 1
  BY <1>1, <1>2, <1>3 DEF LastPlace
<1>6. X \div H = 2 * N /\ X % H = 0
  <2>1. 2^k = 2 * H /\ H \in Nat /\ H >= 1
    BY PowerStep, PowerOfTwo
  <2> DEFINE w == 2 * N
  <2> HIDE DEF H
  <2>2. X = H * w + 0 /\ w \in Int /\ X \in Int
    <3>1. N * (2 * H) = H * (2 * N)
      BY <2>1
    <3> QED BY <1>4, <2>1, <3>1
  <2>3. 0 \in Nat /\ 0 < H
    BY <2>1
  <2> HIDE DEF X, w
  <2>4. X \div H = w /\ X % H = 0
    BY <2>1, <2>2, <2>3, DivModUnique
  <2> QED BY <2>4 DEF w
<1>7. (2 * N) \div 2 = N /\ (2 * N) % 2 = 0
  OBVIOUS
<1>8. RoundM(X \div H, Sticky(X, H), sign, rm) = N /\ RoundI(X \div H, Sticky(X, H)) = 0
  <2> HIDE DEF X, H
  <2>1. Sticky(X, H) = 0
    BY <1>6 DEF Sticky
  <2> QED BY <1>6, <1>7, <2>1 DEF RoundM, RoundI
<1> HIDE DEF X, H
<1>9. \E c : RoundedAt(f, sign, L, b + k, X, rm) = Outcome(f, sign, lg, N, 0, c, rm)
  <2>1. H = 2^(q - 1 - L)
    BY <1>5 DEF H
  <2> HIDE DEF L, q
  <2> QED BY <1>8, <2>1 DEF RoundedAt, q
<1>10. PICK c : RoundedAt(f, sign, L, b + k, X, rm) = Outcome(f, sign, lg, N, 0, c, rm)
  BY <1>9
<1>11. ~(q + f.F > Bias(f) \/ (q + f.F = Bias(f) /\ N = 2^(f.F + 1))) /\ q + f.F + Bias(f) - 1 = e
  <2>1. N # 2^(f.F + 1)
    OBVIOUS
  <2> HIDE DEF q
  <2> QED BY <1>1, <1>5, <2>1
<1>12. Outcome(f, sign, lg, N, 0, c, rm) = Exact(packToUI(f, sign, e, N))
  <2> HIDE DEF L
  <2> QED BY <1>11 DEF Outcome, Exact
<1>13. ValueRounded(f, sign, L, X, rm) = RoundedAt(f, sign, L, b + k, X, rm)
  BY <1>4, ValueAt
<1> HIDE DEF L, lg, q
<1>14. ValueRounded(f, sign, L, X, rm) = Exact(packToUI(f, sign, e, N))
  BY <1>10, <1>12, <1>13
<1>15. L = e + 1 - Bias(f) - f.F - k
  BY <1>1 DEF L
<1> QED BY <1>14, <1>15 DEF X

LEMMA LeadingZeros ==
    ASSUME NEW w \in Nat, NEW z \in Nat, z >= 1, NEW b, HasBits(z, b), b <= w
    PROVE  countLeadingZeros(w, z) = w - b
<1> DEFINE P(n) == z < 2^(w - n) /\ (n = w \/ z >= 2^(w - n - 1))
<1>1. b \in Nat \ {0} /\ 2^(b - 1) <= z /\ z < 2^b
  BY DEF HasBits
<1>2. ASSUME NEW n \in 0 .. w PROVE P(n) <=> n = w - b
  <2>1. CASE n = w
    <3>1. w - n = 0
      BY <2>1
    <3>2. 2^(w - n) = 1
      BY <3>1, PowerZero
    <3> QED BY <1>1, <2>1, <3>2
  <2>2. CASE n # w
    <3> DEFINE c == w - n
    <3>1. c \in Nat \ {0} /\ w - n - 1 = c - 1
      BY <2>2
    <3>2. 2^c \in Nat /\ 2^(c - 1) \in Nat
      BY <3>1, PowerOfTwo
    <3>3. P(n) <=> HasBits(z, c)
      BY <2>2, <3>1, <3>2 DEF HasBits
    <3>4. HasBits(z, c) <=> c = b
      BY BitsUnique
    <3>5. c = b <=> n = w - b
      BY <1>1
    <3> QED BY <3>3, <3>4, <3>5
  <2> QED BY <2>1, <2>2
<1>3. w - b \in 0 .. w
  BY <1>1
<1>4. P(w - b)
  BY <1>2, <1>3
<1>5. countLeadingZeros(w, z) = CHOOSE n \in 0 .. w : P(n)
  BY Zenon DEF countLeadingZeros
<1> HIDE DEF P
<1>6. countLeadingZeros(w, z) \in 0 .. w /\ P(countLeadingZeros(w, z))
  BY <1>3, <1>4, <1>5, Zenon
<1> QED BY <1>2, <1>6

LEMMA AgreeSame == ASSUME NEW X, NEW H PROVE Agree(X, X, H)
BY DEF Agree

\* Bits moved within a product of powers.
LEMMA MovedBits ==
    ASSUME NEW z \in Int, NEW a \in Nat, NEW b \in Nat
    PROVE  (z * 2^a) * 2^b = z * 2^(a + b)
<1>1. 2^a \in Nat /\ 2^b \in Nat /\ 2^(a + b) = 2^a * 2^b
  BY PowerOfTwo, PowerSum
<1> DEFINE A == 2^a
           B == 2^b
<1> HIDE DEF A, B
<1>2. (z * A) * B = z * (A * B)
  BY <1>1 DEF A, B
<1> QED BY <1>1, <1>2 DEF A, B

\* Values that agree in a unit agree in a multiple of it.
LEMMA AgreeAbove ==
    ASSUME NEW X \in Nat, NEW Y \in Nat, NEW i \in Nat, NEW j \in Nat, i <= j, Agree(X, Y, 2^i)
    PROVE  Agree(X, Y, 2^j)
<1>1. 2^j = 2^i * 2^(j - i) /\ j - i \in Nat
  BY PowerDiff
<1>2. 2^i \in Nat \ {0} /\ 2^(j - i) \in Nat \ {0}
  BY <1>1, PowerOfTwo
<1> DEFINE H == 2^i
           K == 2^(j - i)
<1> HIDE DEF H, K
<1>3. Agree(X, Y, H * K)
  BY <1>2, AgreeCoarser DEF H, K
<1> QED BY <1>1, <1>3 DEF H, K

ExactAs(f, sign, e, N, rm, k) ==
    ValueRounded(f, sign, e + Base(f) - k, N * 2^(k + f.G), rm) = Exact(packToUI(f, sign, e, N))

LEMMA ExactBase ==
    ASSUME NEW f, IsFormat(f), NEW sign, NEW rm,
           NEW e \in Int, e >= 0, e <= ExpMax(f) - 2,
           NEW N \in Nat, N >= 1, N < 2^(f.F + 1), N >= 2^f.F \/ e = 0, NEW k \in Nat
    PROVE  ExactAs(f, sign, e, N, rm, k)
<1> DEFINE j == k + f.G
<1>1. f.F \in Nat /\ f.G \in Nat /\ f.G >= 6 /\ Bias(f) \in Nat
  BY FormatFacts
<1>2. j \in Nat /\ j >= 2
  BY <1>1
<1>3. e + 1 - Bias(f) - f.F - j = e + Base(f) - k
  <2>1. \A b, x, g, m \in Int : 1 - b - x - (m + g) = 1 - b - x - g - m
    OBVIOUS
  <2>2. 1 - Bias(f) - f.F - (k + f.G) = 1 - Bias(f) - f.F - f.G - k
    BY <1>1, <2>1
  <2>3. 1 - Bias(f) - f.F - j = Base(f) - k
    BY <2>2 DEF Base
  <2> QED BY <2>3
<1> HIDE DEF j
<1>4. ValueRounded(f, sign, e + 1 - Bias(f) - f.F - j, N * 2^j, rm) = Exact(packToUI(f, sign, e, N))
  BY <1>2, RoundedExact, ZenonT(40)
<1> QED BY <1>3, <1>4 DEF ExactAs, j

RebasedAs(x, y, v, c) == (x - y) + c - (v - y) = x + c - v

LEMMA Rebased == \A x, y, v, c \in Int : RebasedAs(x, y, v, c)
BY DEF RebasedAs

NormPacksAs(f, sign, exp, z, rm, k, X) ==
    normRoundPack(f, sign, exp, z, rm) = ValueRounded(f, sign, exp + Base(f) - k, X, rm)

\* normRoundPack moves the leading bit in place and rounds; its shortcut drops nothing.
LEMMA NormRoundPackBase ==
    ASSUME NEW f, IsFormat(f), NEW sign \in {0, 1}, NEW rm \in RoundingModes, NEW exp \in Int,
           NEW z \in Nat, z >= 1, z < 2^(f.F + f.G + 1), NEW k \in Nat, k >= f.F + f.G + 3, NEW X \in Nat,
           X = z * 2^k \/ (z >= 2^(f.F + f.G - 1) /\ Agree(X, z * 2^k, 2^(k + 1)))
    PROVE  NormPacksAs(f, sign, exp, z, rm, k, X)
<1> DEFINE F == f.F
           G == f.G
           w == F + G + 2
<1>1. /\ F \in Nat /\ F >= 1 /\ G \in Nat /\ G >= 6 /\ Width(f) = w
      /\ f.F = F /\ f.G = G
  BY FormatFacts
<1>10. z \in Int
  OBVIOUS
<1>0. k \in Nat /\ k >= F + G + 3 /\ exp \in Int
  OBVIOUS
<1> HIDE DEF F, G
<1>2. PICK b \in 1 .. F + G + 1 : HasBits(z, b)
  <2>1. F + G + 1 \in Nat /\ z < 2^(F + G + 1)
    BY <1>1
  <2> QED BY <2>1, BitsExist
<1> DEFINE sd == F + G + 1 - b
           e == exp - sd
<1>3. sd \in Nat /\ sd <= F + G /\ e \in Int /\ b \in Nat /\ b >= 1 /\ w \in Nat /\ b <= w /\ w - b - 1 = sd /\ b + sd = F + G + 1
  BY <1>0, <1>1, <1>2
<1>4. countLeadingZeros(Width(f), z) - 1 = sd
  <2>1. countLeadingZeros(w, z) = w - b
    BY <1>2, <1>3, LeadingZeros
  <2> QED BY <1>1, <1>3, <2>1
<1> DEFINE short == sd >= G /\ e \in 0 .. ExpMax(f) - 3
<1>5. normRoundPack(f, sign, exp, z, rm) =
        IF short THEN Exact(packToUI(f, sign, IF z # 0 THEN e ELSE 0, z * 2^(sd - G)))
        ELSE roundPack(f, sign, e, z * 2^sd, rm)
  <2> HIDE DEF sd
  <2> QED BY <1>1, <1>4 DEF normRoundPack
<1>6. z >= 2^(F + G - 1) => b >= F + G
  <2> SUFFICES ASSUME z >= 2^(F + G - 1), ~(b >= F + G) PROVE FALSE
    OBVIOUS
  <2>1. b \in 0 .. (F + G - 1) /\ F + G - 1 \in Nat
    BY <1>1, <1>3
  <2>2. 2^b <= 2^(F + G - 1) /\ 2^b \in Nat /\ 2^(F + G - 1) \in Nat
    BY <2>1, PowerMonotone, PowerOfTwo
  <2>3. z < 2^b
    BY <1>2 DEF HasBits
  <2> QED BY <2>2, <2>3
<1>7. X = z * 2^k \/ (b >= F + G /\ Agree(X, z * 2^k, 2^(k + 1)))
  <2>1. X = z * 2^k \/ (z >= 2^(F + G - 1) /\ Agree(X, z * 2^k, 2^(k + 1)))
    BY <1>1
  <2> QED BY <1>6, <2>1
<1> HIDE DEF short
<1>11. Base(f) \in Int
  BY BaseInt
<1>8. CASE short
  <2>1. sd >= G /\ e \in 0 .. ExpMax(f) - 3 /\ ExpMax(f) \in Int
    <3>1. ExpMax(f) = 2 * Bias(f) + 1 /\ Bias(f) \in Nat
      BY FormatFacts
    <3>2. ExpMax(f) \in Int
      BY <3>1
    <3>3. sd >= G /\ e \in 0 .. ExpMax(f) - 3
      BY <1>8, Zenon DEF short
    <3> QED BY <3>2, <3>3
  <2>2. X = z * 2^k
    BY <1>1, <1>3, <1>7, <2>1
  <2> DEFINE i == sd - G
             j == k - sd
             N == z * 2^i
  <2>3. i \in Nat /\ j \in Nat /\ i + (j + G) = k /\ b + i = F + 1 /\ j + G \in Nat
    BY <1>0, <1>1, <1>3, <2>1
  <2>10. e + Base(f) - j = exp + Base(f) - k
    <3> HIDE DEF sd
    <3>2. exp \in Int /\ sd \in Int /\ k \in Int
      BY <1>0, <1>3
    <3>3. RebasedAs(exp, sd, k, Base(f))
      BY <1>11, <3>2, Rebased
    <3> QED BY <3>3 DEF RebasedAs
  <2>4. HasBits(N, F + 1) /\ N \in Nat
    <3> HIDE DEF i
    <3>1. 2^i \in Nat
      BY <2>3, PowerOfTwo
    <3> QED BY <1>2, <2>3, <3>1, BitsScaled
  <2>5. N >= 1 /\ N < 2^(F + 1) /\ N >= 2^F
    <3>1. (F + 1) - 1 = F
      BY <1>1
    <3>2. 2^F \in Nat /\ 2^F >= 1
      BY <1>1, PowerOfTwo
    <3> HIDE DEF N
    <3> QED BY <2>4, <3>1, <3>2 DEF HasBits
  <2>6. X = N * 2^(j + G)
    <3> DEFINE h == j + G
    <3> HIDE DEF i, j, h
    <3>1. h \in Nat /\ i + h = k
      BY <2>3 DEF h
    <3>2. (z * 2^i) * 2^h = z * 2^(i + h)
      BY <1>10, <2>3, <3>1, MovedBits, Zenon
    <3> QED BY <2>2, <3>1, <3>2 DEF h
  <2> HIDE DEF N, j, e, i
  <2>7. ExactAs(f, sign, e, N, rm, j)
    <3>1. e \in Int /\ e >= 0 /\ e <= ExpMax(f) - 2
      BY <2>1
    <3>2. N < 2^(f.F + 1) /\ (N >= 2^f.F \/ e = 0)
      BY <1>1, <2>5
    <3>3. N \in Nat /\ N >= 1 /\ j \in Nat
      BY <2>3, <2>4, <2>5
    <3> QED BY <3>1, <3>2, <3>3, ExactBase
  <2>8. normRoundPack(f, sign, exp, z, rm) = Exact(packToUI(f, sign, e, N))
    <3>1. z # 0
      OBVIOUS
    <3> QED BY <1>5, <1>8, <3>1 DEF N, i
  <2> QED BY <1>1, <2>6, <2>7, <2>8, <2>10 DEF ExactAs, NormPacksAs
<1>9. CASE ~short
  <2> DEFINE g == k - sd
             s == z * 2^sd
             H == g + G - 1
  <2>1. g \in Nat /\ sd + g = k /\ H \in Nat /\ (b >= F + G => k + 1 <= H)
    <3> HIDE DEF sd
    <3> QED BY <1>0, <1>1, <1>3
  <2>10. e + Base(f) - g = exp + Base(f) - k
    <3> HIDE DEF sd
    <3>2. exp \in Int /\ sd \in Int /\ k \in Int
      BY <1>0, <1>3
    <3>3. RebasedAs(exp, sd, k, Base(f))
      BY <1>11, <3>2, Rebased
    <3> QED BY <3>3 DEF RebasedAs
  <2>2. HasBits(s, F + G + 1) /\ s \in Nat
    <3> HIDE DEF sd
    <3>1. 2^sd \in Nat
      BY <1>3, PowerOfTwo
    <3> QED BY <1>2, <1>3, <3>1, BitsScaled
  <2>3. Normalised(f, s)
    <3>1. (F + G + 1) - 1 = F + G
      BY <1>1
    <3> HIDE DEF s
    <3> QED BY <1>1, <2>2, <3>1 DEF Normalised, HasBits
  <2>4. s * 2^g = z * 2^k
    <3> HIDE DEF sd, g
    <3>1. (z * 2^sd) * 2^g = z * 2^(sd + g)
      BY <1>3, <1>10, <2>1, MovedBits, ZenonT(40)
    <3> QED BY <2>1, <3>1
  <2> HIDE DEF s, g, H, e, sd
  <2>5. Agree(X, s * 2^g, 2^H)
    <3>1. CASE X = z * 2^k
      BY <2>4, <3>1, AgreeSame
    <3>2. CASE b >= F + G /\ Agree(X, z * 2^k, 2^(k + 1))
      <4> DEFINE Y == z * 2^k
      <4>1. Y \in Nat
        BY PowerOfTwo
      <4>2. k + 1 \in Nat /\ k + 1 <= H
        BY <2>1, <3>2
      <4>3. Agree(X, Y, 2^(k + 1))
        BY <3>2
      <4> HIDE DEF Y
      <4>4. Agree(X, Y, 2^H)
        BY <2>1, <4>1, <4>2, <4>3, AgreeAbove
      <4> QED BY <2>4, <4>4 DEF Y
    <3> QED BY <1>7, <3>1, <3>2
  <2>6. PacksAs(f, sign, e, s, rm, g, X)
    <3>1. Agree(X, s * 2^g, 2^(g + f.G - 1)) /\ e \in Int
      BY <1>1, <1>3, <2>5 DEF H
    <3> QED BY <2>1, <2>3, <3>1, RoundPackBase
  <2>7. normRoundPack(f, sign, exp, z, rm) = roundPack(f, sign, e, s, rm)
    BY <1>5, <1>9 DEF s
  <2> QED BY <2>6, <2>7, <2>10 DEF PacksAs, NormPacksAs
<1> QED BY <1>8, <1>9

------------------------------------------------------------------------------
(* Addition and subtraction of magnitudes *)

LEMMA JamSum ==
    ASSUME NEW B \in Nat, NEW c \in Nat, NEW w \in Nat, w >= 1, c < 2^(w - 1),
           NEW d \in Nat, d >= 1, NEW K \in Nat, d <= K
    PROVE  LET J == shiftRightJam(w, c, d)
           IN  /\ Agree((2 * B + J) * 2^K, (2 * B) * 2^K + c * 2^(K - d), 2^(K + 1))
               /\ Agree((2 * B - J) * 2^K, (2 * B) * 2^K - c * 2^(K - d), 2^(K + 1))
<1> DEFINE J == shiftRightJam(w, c, d)
           D == 2^d
           U == 2^(K - d)
           H == (2 * D) * U
<1>1. J \in Nat /\ Agree(J * D, c, 2 * D)
  BY JamAgree
<1>2. D \in Nat /\ D >= 1 /\ U \in Nat /\ U >= 1 /\ 2^K = D * U /\ 2^(K + 1) = 2 * 2^K
  BY PowerOfTwo, PowerDiff, PowerDoubles
<1> HIDE DEF J, D, U
<1>3. /\ H \in Nat \ {0} /\ 2^(K + 1) = H /\ 2 * D \in Nat \ {0} /\ U \in Nat \ {0} /\ J * D \in Int /\ c \in Int
      /\ (J * D) * U \in Int /\ c * U \in Int
  <2>1. 2 * (D * U) = (2 * D) * U /\ D * U \in Nat /\ D * U >= 1
    BY <1>2
  <2> QED BY <1>1, <1>2, <2>1
<1>4. Agree((J * D) * U, c * U, H)
  BY <1>1, <1>3, AgreeScaled
<1> HIDE DEF H
<1>5. Agree(B * H + (J * D) * U, B * H + c * U, H) /\ Agree(B * H - (J * D) * U, B * H - c * U, H)
  <2> DEFINE X == (J * D) * U
             Y == c * U
  <2>1. X \in Int /\ Y \in Int /\ Agree(X, Y, H) /\ B \in Int
    BY <1>3, <1>4
  <2> HIDE DEF X, Y
  <2>2. Agree(B * H + X, B * H + Y, H) /\ Agree(B * H - X, B * H - Y, H)
    BY <1>3, <2>1, AgreeAdd, AgreeSub
  <2> QED BY <2>2 DEF X, Y
<1>6. B * H = (2 * B) * (D * U) /\ (2 * B + J) * (D * U) = (2 * B) * (D * U) + (J * D) * U
      /\ (2 * B - J) * (D * U) = (2 * B) * (D * U) - (J * D) * U
  <2>1. B * ((2 * D) * U) = (2 * B) * (D * U)
    BY <1>2
  <2>2. (2 * B + J) * (D * U) = (2 * B) * (D * U) + (J * D) * U
    BY <1>1, <1>2
  <2>3. (2 * B - J) * (D * U) = (2 * B) * (D * U) - (J * D) * U
    BY <1>1, <1>2
  <2> QED BY <2>1, <2>2, <2>3 DEF H
<1>7. Agree((2 * B + J) * 2^K, (2 * B) * 2^K + c * U, 2^(K + 1))
  BY <1>2, <1>3, <1>5, <1>6
<1>8. Agree((2 * B - J) * 2^K, (2 * B) * 2^K - c * U, 2^(K + 1))
  BY <1>2, <1>3, <1>5, <1>6
<1> QED BY <1>7, <1>8 DEF J, U

LEMMA JamBounds ==
    ASSUME NEW c \in Nat, NEW w \in Nat, w >= 1, c < 2^(w - 1), NEW d \in Nat, d >= 1
    PROVE  LET J == shiftRightJam(w, c, d)
           IN  /\ J \in Nat /\ J <= c
               /\ d >= 2 => 4 * J <= c + 4
               /\ d = 1 /\ c % 2 = 0 => 2 * J = c
<1> DEFINE J == shiftRightJam(w, c, d)
           D == 2^d
           q == c \div D
           r == c % D
<1>1. J \in Nat /\ J = Or1(q, r # 0)
  BY JamAgree
<1>2. D \in Nat /\ D >= 2 /\ (d >= 2 => D >= 4) /\ (d = 1 => D = 2)
  <2>1. D = 2 * 2^(d - 1) /\ 2^(d - 1) \in Nat /\ 2^(d - 1) >= 1
    BY PowerStep, PowerOfTwo
  <2>2. d >= 2 => 2^(d - 1) = 2 * 2^(d - 1 - 1) /\ 2^(d - 1 - 1) \in Nat /\ 2^(d - 1 - 1) >= 1
    <3> SUFFICES ASSUME d >= 2 PROVE 2^(d - 1) = 2 * 2^(d - 1 - 1) /\ 2^(d - 1 - 1) \in Nat /\ 2^(d - 1 - 1) >= 1
      OBVIOUS
    <3>1. d - 1 \in Nat /\ d - 1 >= 1 /\ d - 1 - 1 \in Nat
      OBVIOUS
    <3> QED BY <3>1, PowerStep, PowerOfTwo
  <2>3. d = 1 => 2^(d - 1) = 1
    <3> SUFFICES ASSUME d = 1 PROVE 2^(d - 1) = 1
      OBVIOUS
    <3>1. d - 1 = 0
      OBVIOUS
    <3> QED BY <3>1, PowerZero
  <2> HIDE DEF D
  <2> QED BY <2>1, <2>2, <2>3
<1> HIDE DEF D
<1>3. q \in Int /\ r \in 0 .. D - 1 /\ c = D * q + r
  <2>1. c \in Int /\ D >= 1
    BY <1>2
  <2> QED BY <1>2, <2>1, Euclid, Zenon
<1>4. q \in Nat
  BY <1>2
<1>5. J = IF r # 0 /\ q % 2 = 0 THEN q + 1 ELSE q
  BY <1>1 DEF Or1
<1> HIDE DEF J, q
<1>6. J \in {q, q + 1} /\ (r = 0 => J = q)
  BY <1>5
<1>9. d = 1 /\ c % 2 = 0 => r = 0
  BY <1>2
<1> HIDE DEF r
<1>7. D * q >= 2 * q /\ (D >= 4 => D * q >= 4 * q) /\ (D = 2 => D * q = 2 * q) /\ D * q \in Nat
  BY <1>2, <1>4
<1>8. J <= c
  <2>1. CASE c = 0
    <3>1. q = 0 /\ r = 0
      BY <1>3, <1>4, <1>7, <2>1
    <3> QED BY <1>6, <2>1, <3>1
  <2>2. CASE c >= 1
    BY <1>3, <1>4, <1>6, <1>7, <2>2
  <2> QED BY <2>1, <2>2
<1>10. d >= 2 => 4 * J <= c + 4
  BY <1>2, <1>3, <1>4, <1>6, <1>7
<1>11. d = 1 /\ c % 2 = 0 => 2 * J = c
  BY <1>2, <1>3, <1>4, <1>6, <1>7, <1>9
<1> QED BY <1>1, <1>8, <1>10, <1>11 DEF J

\* Values are held in units of 2^Floor, below any bit the operations keep.
Slack(f) == 2 * Width(f)

Floor(f) == Base(f) - Slack(f)

\* A finite value in those units: a lead of F + 1 bits at the field's exponent.
Lead(f, ui) == IF expUI(f, ui) # 0 THEN fracUI(f, ui) + 2^f.F ELSE 2 * fracUI(f, ui)

Units(f, ui) == Lead(f, ui) * 2^(expUI(f, ui) + f.G + Slack(f) - 1)

LEMMA SlackSize ==
    ASSUME NEW f, IsFormat(f)
    PROVE  Slack(f) \in Nat /\ Slack(f) = 2 * (f.F + f.G + 2) /\ Floor(f) \in Int
<1>1. Slack(f) \in Nat /\ Slack(f) = 2 * (f.F + f.G + 2)
  BY FormatFacts DEF Slack
<1> QED BY <1>1, BaseInt DEF Floor

LEMMA Leads ==
    ASSUME NEW f, IsFormat(f), NEW ui \in Word(f)
    PROVE  /\ Lead(f, ui) \in Nat /\ Lead(f, ui) < 2^(f.F + 1) /\ expUI(f, ui) \in Nat
           /\ expUI(f, ui) # 0 => Lead(f, ui) >= 2^f.F
           /\ \A j \in Nat : Aligned(f, ui, j) = Lead(f, ui) * 2^j
<1> DEFINE P == 2^f.F
           x == fracUI(f, ui)
           e == expUI(f, ui)
<1>1. P \in Nat /\ P >= 2 /\ 2^(f.F + 1) = 2 * P /\ f.F \in Nat
  BY GuardSizes, FormatFacts
<1>2. x \in 0 .. P - 1 /\ e \in Nat
  <2>1. x \in 0 .. P - 1 /\ e \in 0 .. ExpMax(f)
    BY Fields DEF Fielded
  <2>2. ExpMax(f) = 2 * Bias(f) + 1 /\ Bias(f) \in Nat
    BY FormatFacts
  <2> QED BY <2>1, <2>2
<1>3. Lead(f, ui) = IF e # 0 THEN x + P ELSE 2 * x
  BY DEF Lead
<1>4. ASSUME NEW j \in Nat PROVE Aligned(f, ui, j) = Lead(f, ui) * 2^j
  <2>1. 2^j \in Nat /\ 2^(f.F + j) = P * 2^j
    BY <1>1, PowerOfTwo, PowerSum
  <2>2. Aligned(f, ui, j) = IF e # 0 THEN x * 2^j + 2^(f.F + j) ELSE 2 * (x * 2^j)
    BY DEF Aligned
  <2> DEFINE T == 2^j
  <2> HIDE DEF T, P, x, e
  <2>3. (x + P) * T = x * T + P * T /\ (2 * x) * T = 2 * (x * T)
    BY <1>1, <1>2, <2>1 DEF T
  <2> QED BY <1>3, <2>1, <2>2, <2>3 DEF T
<1> HIDE DEF P, x, e
<1> QED BY <1>1, <1>2, <1>3, <1>4 DEF P, e

\* The units are those of the reference's magnitude.
LEMMA MagUnits ==
    ASSUME NEW f, IsFormat(f), NEW ui \in Word(f)
    PROVE  Denotes(MagOf(f, ui), Floor(f), Units(f, ui)) /\ Units(f, ui) \in Nat
<1> DEFINE P == 2^f.F
           x == fracUI(f, ui)
           e == expUI(f, ui)
           n == Significand(f, ui)
           p == (IF e = 0 THEN 1 ELSE e) - Bias(f) - f.F
           S == Slack(f)
           h == (IF e = 0 THEN 0 ELSE e - 1) + f.G + S
<1>1. P \in Nat /\ P >= 2 /\ f.F \in Nat /\ f.G \in Nat /\ f.G >= 6 /\ Bias(f) \in Nat
  BY GuardSizes, FormatFacts
<1>2. x \in 0 .. P - 1 /\ e \in Nat
  BY Fields, Leads DEF Fielded
<1>3. n = IF e # 0 THEN x + P ELSE x
  BY <1>1, <1>2 DEF Significand, Hidden
<1>4. MagOf(f, ui) = [n |-> n, d |-> 1, e |-> p]
  BY DEF MagOf, Mag
<1>5. S \in Nat
  BY SlackSize
<1> HIDE DEF n, S, x, P, e
<1>6. p \in Int /\ Floor(f) \in Int /\ h \in Nat /\ p - Floor(f) = h
  <2>1. Floor(f) \in Int /\ Floor(f) = 1 - Bias(f) - f.F - f.G - S
    BY SlackSize DEF Floor, Base, S
  <2> QED BY <1>1, <1>2, <1>5, <2>1
<1>7. n \in Nat /\ n < 2^(2 * W64)
  <2>1. n \in Nat /\ n < 2 * P
    BY <1>1, <1>2, <1>3
  <2>2. 2 * P <= 2^(2 * W64) /\ 2^(2 * W64) \in Nat
    BY FormatReach DEF P
  <2> QED BY <1>1, <2>1, <2>2
<1>8. Units(f, ui) = n * 2^h /\ n * 2^h \in Nat
  <2>1. Lead(f, ui) = IF e # 0 THEN x + P ELSE 2 * x
    BY DEF Lead, x, P, e
  <2>2. Units(f, ui) = Lead(f, ui) * 2^(e + f.G + S - 1)
    BY DEF Units, e, S
  <2>3. CASE e # 0
    <3>1. e + f.G + S - 1 = h
      BY <1>1, <1>2, <1>5, <2>3
    <3>2. Lead(f, ui) = n
      BY <1>3, <2>1, <2>3
    <3>3. 2^h \in Nat
      BY <1>6, PowerOfTwo
    <3> HIDE DEF h
    <3> QED BY <1>7, <2>2, <3>1, <3>2, <3>3
  <2>4. CASE e = 0
    <3>1. e + f.G + S - 1 = h - 1 /\ h >= 1
      BY <1>1, <1>2, <1>5, <2>4
    <3>2. Lead(f, ui) = 2 * n
      BY <1>3, <2>1, <2>4
    <3> HIDE DEF h
    <3>3. 2^h = 2 * 2^(h - 1) /\ 2^(h - 1) \in Nat
      <4>1. h - 1 \in Nat
        BY <1>6, <3>1
      <4> QED BY <1>6, <3>1, <4>1, PowerStep, PowerOfTwo
    <3> DEFINE T == 2^(h - 1)
    <3> HIDE DEF T
    <3>4. n * (2 * T) = (2 * n) * T /\ n * (2 * T) \in Nat
      BY <1>7, <3>3 DEF T
    <3> QED BY <2>2, <3>1, <3>2, <3>3, <3>4 DEF T
  <2> QED BY <2>3, <2>4
<1> DEFINE X == Units(f, ui)
<1> HIDE DEF p, h, X
<1>9. X = n * 2^(p - Floor(f)) /\ X \in Nat /\ Floor(f) <= p
  BY <1>6, <1>8 DEF X
<1>10. MagOf(f, ui).n = n /\ MagOf(f, ui).e = p
  BY <1>4
<1>11. Denotes(MagOf(f, ui), Floor(f), X)
  BY <1>4, <1>6, <1>7, <1>9, <1>10 DEF Denotes
<1> QED BY <1>9, <1>11 DEF X

FlooredAs(x, c, S) == x + c - (x + S) = c - S

LEMMA Floored == \A x, c, S \in Int : FlooredAs(x, c, S)
BY DEF FlooredAs

\* What rounding and packing at an exponent makes of a value in units of the floor.
LEMMA PacksFloor ==
    ASSUME NEW f, IsFormat(f), NEW sig \in Nat, Normalised(f, sig), NEW ex \in Nat,
           NEW sign \in {0, 1}, NEW rm \in RoundingModes, NEW X \in Nat,
           Agree(sig * 2^(ex + Slack(f)), X, 2^(ex + Slack(f) + f.G - 1))
    PROVE  roundPack(f, sign, ex, sig, rm) = ValueRounded(f, sign, Floor(f), X, rm)
<1> DEFINE k == ex + Slack(f)
<1>1. k \in Nat /\ Slack(f) \in Int /\ Base(f) \in Int /\ ex \in Int
  BY SlackSize, BaseInt
<1>2. ex + Base(f) - k = Floor(f)
  <2>1. FlooredAs(ex, Base(f), Slack(f))
    BY <1>1, Floored
  <2> QED BY <2>1 DEF FlooredAs, Floor
<1> HIDE DEF k
<1>3. Agree(X, sig * 2^k, 2^(k + f.G - 1))
  BY AgreeSymmetric DEF k
<1>4. PacksAs(f, sign, ex, sig, rm, k, X)
  BY <1>1, <1>3, RoundPackBase
<1> QED BY <1>2, <1>4 DEF PacksAs

LEMMA ExactFloor ==
    ASSUME NEW f, IsFormat(f), NEW sign, NEW rm,
           NEW e \in Nat, e <= ExpMax(f) - 2,
           NEW N \in Nat, N >= 1, N < 2^(f.F + 1), N >= 2^f.F \/ e = 0
    PROVE  ValueRounded(f, sign, Floor(f), N * 2^(e + Slack(f) + f.G), rm) = Exact(packToUI(f, sign, e, N))
<1> DEFINE k == e + Slack(f)
<1>1. k \in Nat /\ Slack(f) \in Int /\ Base(f) \in Int /\ e \in Int /\ e >= 0
  BY SlackSize, BaseInt
<1>2. e + Base(f) - k = Floor(f)
  <2>1. FlooredAs(e, Base(f), Slack(f))
    BY <1>1, Floored
  <2> QED BY <2>1 DEF FlooredAs, Floor
<1> HIDE DEF k
<1>3. ExactAs(f, sign, e, N, rm, k)
  BY <1>1, ExactBase
<1>4. k + f.G = e + Slack(f) + f.G
  BY DEF k
<1> QED BY <1>2, <1>3, <1>4 DEF ExactAs

\* The sizes of significands, in terms of the lead's.
LEMMA LeadSizes ==
    ASSUME NEW f, IsFormat(f)
    PROVE  LET P == 2^f.F
               T == 2^(f.G - 1)
           IN  /\ P \in Nat /\ P >= 2 /\ 2^(f.F + 1) = 2 * P
               /\ T \in Nat /\ T >= 32 /\ T = 2 * 2^(f.G - 2) /\ 2^(f.G - 2) \in Nat
               /\ 2^f.G = 2 * T
               /\ P * T \in Nat /\ P * T >= 64 /\ 2^(f.F + f.G - 1) = P * T
               /\ 2^(f.F + f.G) = 2 * (P * T) /\ 2^(f.F + f.G + 1) = 4 * (P * T)
               /\ Width(f) \in Nat /\ Width(f) >= 1 /\ 2^(Width(f) - 1) = 4 * (P * T)
<1> DEFINE P == 2^f.F
           T == 2^(f.G - 1)
<1>1. f.F \in Nat /\ f.G \in Nat /\ f.G >= 6 /\ f.F >= 1 /\ Width(f) = f.F + f.G + 2
  BY FormatFacts
<1>2. P \in Nat /\ P >= 2 /\ 2^(f.F + 1) = 2 * P /\ 2^f.G = 2 * T
  BY GuardSizes
<1>3. T = 2 * 2^(f.G - 2) /\ 2^(f.G - 2) \in Nat /\ T \in Nat
  <2>1. f.G - 1 \in Nat /\ f.G - 1 >= 1 /\ f.G - 1 - 1 = f.G - 2 /\ f.G - 2 \in Nat
    BY <1>1
  <2> QED BY <2>1, PowerStep, PowerOfTwo
<1>4. T >= 32
  <2>1. 2^5 = 32
    <3>1. 2^0 = 1 /\ 2^(0 + 1) = 2 * 2^0 /\ 2^(1 + 1) = 2 * 2^1 /\ 2^(2 + 1) = 2 * 2^2 /\ 2^(3 + 1) = 2 * 2^3 /\ 2^(4 + 1) = 2 * 2^4
      BY PowerZero, PowerDoubles
    <3>2. 0 + 1 = 1 /\ 1 + 1 = 2 /\ 2 + 1 = 3 /\ 3 + 1 = 4 /\ 4 + 1 = 5
      OBVIOUS
    <3> QED BY <3>1, <3>2
  <2>2. 5 \in 0 .. (f.G - 1) /\ f.G - 1 \in Nat
    BY <1>1
  <2>3. 2^5 <= T
    BY <2>2, PowerMonotone
  <2> QED BY <1>3, <2>1, <2>3
<1>5. 2^(f.F + f.G - 1) = P * T
  <2>1. f.F + f.G - 1 = f.F + (f.G - 1) /\ f.G - 1 \in Nat
    BY <1>1
  <2> QED BY <1>1, <2>1, PowerSum
<1>6. 2^(f.F + f.G) = 2 * 2^(f.F + f.G - 1) /\ 2^(f.F + f.G + 1) = 2 * 2^(f.F + f.G)
  <2> DEFINE n == f.F + f.G
  <2>1. n \in Nat /\ n >= 1 /\ n - 1 = f.F + f.G - 1 /\ n + 1 = f.F + f.G + 1
    BY <1>1
  <2> HIDE DEF n
  <2>2. 2^n = 2 * 2^(n - 1) /\ 2^(n + 1) = 2 * 2^n
    BY <2>1, PowerStep, PowerDoubles
  <2> QED BY <2>1, <2>2 DEF n
<1>7. Width(f) \in Nat /\ Width(f) >= 1 /\ Width(f) - 1 = f.F + f.G + 1
  BY <1>1
<1> HIDE DEF P, T
<1>8. P * T \in Nat /\ P * T >= 64
  BY <1>2, <1>3, <1>4
<1>9. 2^(f.F + f.G + 1) = 4 * (P * T)
  BY <1>5, <1>6, <1>8
<1>10. 2^(Width(f) - 1) = 4 * (P * T)
  BY <1>7, <1>9
<1> QED BY <1>2, <1>3, <1>4, <1>5, <1>6, <1>7, <1>8, <1>9, <1>10 DEF P, T

LEMMA UnitsAligned ==
    ASSUME NEW f, IsFormat(f), NEW ui \in Word(f), NEW j \in Nat, j <= f.G
    PROVE  /\ Aligned(f, ui, j) \in Nat
           /\ Units(f, ui) = Aligned(f, ui, j) * 2^(expUI(f, ui) + (f.G - j) + Slack(f) - 1)
           /\ expUI(f, ui) + (f.G - j) + Slack(f) - 1 \in Nat
<1> DEFINE e == expUI(f, ui)
           S == Slack(f)
           l == Lead(f, ui)
           h == e + (f.G - j) + S - 1
<1>1. f.G \in Nat /\ f.F \in Nat /\ S \in Nat /\ S = 2 * (f.F + f.G + 2)
  BY FormatFacts, SlackSize
<1>2. e \in Nat /\ l \in Nat /\ Aligned(f, ui, j) = l * 2^j /\ l \in Int
  BY Leads
<1>3. Units(f, ui) = l * 2^(e + f.G + S - 1)
  BY DEF Units
<1> HIDE DEF e, S, l
<1>4. h \in Nat /\ j + h = e + f.G + S - 1
  BY <1>1, <1>2
<1> HIDE DEF h
<1>5. (l * 2^j) * 2^h = l * 2^(j + h)
  BY <1>2, <1>4, MovedBits
<1>6. l * 2^j \in Nat
  <2>1. 2^j \in Nat
    BY PowerOfTwo
  <2> QED BY <1>2, <2>1
<1> QED BY <1>2, <1>3, <1>4, <1>5, <1>6 DEF h, e, S

\* Two exponents apart: the smaller value jammed into the larger one's place.
LEMMA AddApart ==
    ASSUME NEW f, IsFormat(f), NEW big \in Word(f), NEW low \in Word(f), expUI(f, low) < expUI(f, big),
           NEW sign \in {0, 1}, NEW rm \in RoundingModes
    PROVE  LET d    == expUI(f, big) - expUI(f, low)
               sigZ == Aligned(f, big, f.G - 1) + shiftRightJam(Width(f), Aligned(f, low, f.G - 1), d)
           IN  (IF sigZ < 2^(f.F + f.G) THEN roundPack(f, sign, expUI(f, big) - 1, 2 * sigZ, rm)
                                        ELSE roundPack(f, sign, expUI(f, big), sigZ, rm))
                 = ValueRounded(f, sign, Floor(f), Units(f, big) + Units(f, low), rm)
<1> DEFINE eb == expUI(f, big)
           el == expUI(f, low)
           d  == eb - el
           G1 == f.G - 1
           A  == Aligned(f, big, G1)
           c  == Aligned(f, low, G1)
           J  == shiftRightJam(Width(f), c, d)
           z  == A + J
           S  == Slack(f)
           K  == eb + S
           P  == 2^f.F
           T  == 2^G1
           Q  == P * T
           V  == Units(f, big) + Units(f, low)
<1>1. /\ P \in Nat /\ P >= 2 /\ 2^(f.F + 1) = 2 * P /\ T \in Nat /\ T = 2 * 2^(f.G - 2) /\ 2^(f.G - 2) \in Nat
      /\ Q \in Nat /\ Q >= 64 /\ 2^(f.F + f.G) = 2 * Q /\ 2^(f.F + f.G + 1) = 4 * Q
      /\ Width(f) \in Nat /\ Width(f) >= 1 /\ 2^(Width(f) - 1) = 4 * Q
  BY LeadSizes
<1>2. f.G \in Nat /\ f.G >= 6 /\ G1 \in Nat /\ G1 <= f.G /\ f.G - G1 = 1 /\ f.F \in Nat /\ S \in Nat
  BY FormatFacts, SlackSize
<1>3. eb \in Nat /\ el \in Nat /\ d \in Nat /\ d >= 1 /\ K \in Nat /\ d <= K /\ K - d = el + S /\ eb # 0 /\ eb - 1 \in Nat
  BY <1>2, Leads
<1>4. /\ Lead(f, big) \in Nat /\ Lead(f, big) < 2 * P /\ Lead(f, big) >= P /\ A = Lead(f, big) * T
      /\ Lead(f, low) \in Nat /\ Lead(f, low) < 2 * P /\ c = Lead(f, low) * T
  <2> HIDE DEF G1
  <2> QED BY <1>1, <1>2, <1>3, Leads
<1>5. A \in Nat /\ A >= Q /\ A < 2 * Q /\ c \in Nat /\ c < 2 * Q
  <2> DEFINE a == Lead(f, big)
             b == Lead(f, low)
  <2> HIDE DEF a, b, P, T, A, c
  <2>1. \A x \in Nat : /\ x * T \in Nat /\ (x >= P => x * T >= P * T)
                       /\ (x < 2 * P => x * T < (2 * P) * T)
    <3>1. T >= 1
      BY <1>1, LeadSizes DEF T, G1
    <3> QED BY <1>1, <3>1
  <2>2. (2 * P) * T = 2 * (P * T)
    BY <1>1
  <2> QED BY <1>4, <2>1, <2>2 DEF a, b
<1>6. Units(f, big) = A * 2^K /\ Units(f, low) = c * 2^(K - d)
  <2> DEFINE hb == eb + (f.G - G1) + S - 1
             hl == el + (f.G - G1) + S - 1
  <2>1. hb = K /\ hl = K - d
    BY <1>2, <1>3
  <2>2. Units(f, big) = A * 2^hb /\ Units(f, low) = c * 2^hl
    <3> HIDE DEF G1
    <3> QED BY <1>2, UnitsAligned
  <2> HIDE DEF hb, hl, A, c
  <2> QED BY <2>1, <2>2
<1> DEFINE B == Lead(f, big) * 2^(f.G - 2)
<1>7. B \in Nat /\ A = 2 * B
  <2> DEFINE a == Lead(f, big)
             t == 2^(f.G - 2)
  <2> HIDE DEF a, t, A
  <2>1. a * (2 * t) = 2 * (a * t) /\ a * t \in Nat
    BY <1>1, <1>4 DEF a, t
  <2> QED BY <1>1, <1>4, <2>1 DEF a, t
<1> HIDE DEF A, c, B, P, T, Q, eb, el, d, K, S
<1>15. c < 2^(Width(f) - 1)
  BY <1>1, <1>5
<1>8. J \in Nat /\ J <= c
  BY <1>1, <1>3, <1>5, <1>15, JamBounds
<1>9. Agree((2 * B + J) * 2^K, (2 * B) * 2^K + c * 2^(K - d), 2^(K + 1))
  BY <1>1, <1>3, <1>5, <1>7, <1>15, JamSum
<1> HIDE DEF J
<1>10. z \in Nat /\ z >= Q /\ z < 4 * Q
  BY <1>1, <1>5, <1>8
<1>11. Agree(z * 2^K, V, 2^(K + 1))
  BY <1>6, <1>7, <1>9
<1>12. V \in Nat /\ z * 2^K \in Nat /\ 2^K \in Nat
  BY <1>3, <1>10, MagUnits, PowerOfTwo
<1> HIDE DEF V, z
<1>13. CASE z < 2^(f.F + f.G)
  <2> DEFINE y == 2 * z
             n == eb - 1
             k == n + S
             j == k + f.G - 1
  <2>1. y \in Nat /\ Normalised(f, y)
    BY <1>1, <1>10, <1>13 DEF Normalised
  <2>2. n \in Nat /\ k \in Nat /\ K = k + 1 /\ j \in Nat /\ K + 1 <= j
    BY <1>2, <1>3 DEF K
  <2>3. y * 2^k = z * 2^K
    <3> HIDE DEF k
    <3>1. 2^K = 2 * 2^k /\ 2^k \in Nat
      BY <2>2, PowerDoubles, PowerOfTwo
    <3> DEFINE t == 2^k
    <3> HIDE DEF t
    <3>2. (2 * z) * t = z * (2 * t)
      BY <1>10, <3>1 DEF t
    <3> QED BY <3>1, <3>2 DEF t
  <2>4. Agree(y * 2^k, V, 2^j)
    <3> HIDE DEF k, j, y
    <3>1. Agree(z * 2^K, V, 2^j)
      BY <1>3, <1>11, <1>12, <2>2, AgreeAbove
    <3> QED BY <2>3, <3>1
  <2> HIDE DEF y, n
  <2>5. roundPack(f, sign, n, y, rm) = ValueRounded(f, sign, Floor(f), V, rm)
    BY <1>12, <2>1, <2>2, <2>4, PacksFloor DEF S
  <2> QED BY <1>13, <2>5 DEF y, n, z, V, eb, A, J, c, d, el
<1>14. CASE ~(z < 2^(f.F + f.G))
  <2> DEFINE j == K + f.G - 1
  <2>1. Normalised(f, z)
    BY <1>1, <1>10, <1>14 DEF Normalised
  <2>2. j \in Nat /\ K + 1 <= j
    BY <1>2, <1>3
  <2>3. Agree(z * 2^K, V, 2^j)
    <3> HIDE DEF j
    <3> QED BY <1>3, <1>11, <1>12, <2>2, AgreeAbove
  <2>4. roundPack(f, sign, eb, z, rm) = ValueRounded(f, sign, Floor(f), V, rm)
    BY <1>3, <1>10, <1>12, <2>1, <2>3, PacksFloor DEF S, K
  <2> QED BY <1>14, <2>4 DEF z, V, eb, A, J, c, d, el
<1> QED BY <1>13, <1>14

LEMMA AddMagsFinite ==
    ASSUME NEW f, IsFormat(f), NEW a \in Word(f), NEW b \in Word(f), ~IsSpecial(f, a), ~IsSpecial(f, b),
           NEW rm \in RoundingModes, Units(f, a) + Units(f, b) >= 1
    PROVE  addMags(f, a, b, signUI(f, a), rm)
             = ValueRounded(f, signUI(f, a), Floor(f), Units(f, a) + Units(f, b), rm)
<1> DEFINE ea == expUI(f, a)
           eb == expUI(f, b)
           x  == fracUI(f, a)
           y  == fracUI(f, b)
           s  == signUI(f, a)
           S  == Slack(f)
           P  == 2^f.F
           Q  == P * 2^(f.G - 1)
           V  == Units(f, a) + Units(f, b)
<1>1. ea \in Nat /\ eb \in Nat /\ s \in {0, 1} /\ x \in 0 .. P - 1 /\ y \in 0 .. P - 1 /\ ea <= ExpMax(f) /\ eb <= ExpMax(f)
  <2>1. \A v \in Word(f) : Fielded(f, v) /\ expUI(f, v) \in Nat
    BY Fields, Leads
  <2>2. ExpMax(f) \in Nat
    BY FormatFacts
  <2> QED BY <2>1, <2>2 DEF Fielded
<1>2. ea # ExpMax(f) /\ eb # ExpMax(f) /\ ~IsSpecial(f, a) /\ ~IsSpecial(f, b)
  BY DEF IsSpecial
<1>3. CASE ea > eb
  <2>1. addMags(f, a, b, s, rm) =
          LET d    == ea - eb
              sigZ == Aligned(f, a, f.G - 1) + shiftRightJam(Width(f), Aligned(f, b, f.G - 1), d)
          IN  IF sigZ < 2^(f.F + f.G) THEN roundPack(f, s, ea - 1, 2 * sigZ, rm)
                                      ELSE roundPack(f, s, ea, sigZ, rm)
    <3>1. ea - eb # 0
      BY <1>1, <1>3
    <3> HIDE DEF s
    <3> QED BY <1>2, <1>3, <3>1 DEF addMags
  <2> QED BY <1>1, <1>3, <2>1, AddApart
<1>4. CASE ea < eb
  <2>1. addMags(f, a, b, s, rm) =
          LET d    == eb - ea
              sigZ == Aligned(f, b, f.G - 1) + shiftRightJam(Width(f), Aligned(f, a, f.G - 1), d)
          IN  IF sigZ < 2^(f.F + f.G) THEN roundPack(f, s, eb - 1, 2 * sigZ, rm)
                                      ELSE roundPack(f, s, eb, sigZ, rm)
    <3>1. eb - ea # 0 /\ ~(ea > eb)
      BY <1>1, <1>4
    <3> HIDE DEF s
    <3> QED BY <1>2, <3>1 DEF addMags
  <2>2. addMags(f, a, b, s, rm) = ValueRounded(f, s, Floor(f), Units(f, b) + Units(f, a), rm)
    BY <1>1, <1>4, <2>1, AddApart
  <2>3. Units(f, b) + Units(f, a) = V
    BY MagUnits
  <2> HIDE DEF s, V
  <2> QED BY <2>2, <2>3 DEF V, s
<1>5. CASE ea = eb /\ ea = 0
  <2> DEFINE N == x + y
  <2>1. P \in Nat /\ P >= 2 /\ 2^(f.F + 1) = 2 * P
    BY LeadSizes
  <2>2. addMags(f, a, b, s, rm) = Exact(a + y)
    <3>1. IF ea > eb THEN ea - eb = 0 ELSE eb - ea = 0
      BY <1>1, <1>5
    <3> QED BY <1>5, <3>1 DEF addMags
  <2>3. V = N * 2^(0 + S + f.G)
    <3>1. S \in Nat /\ f.G \in Nat /\ f.G >= 6
      BY FormatFacts, SlackSize
    <3> DEFINE h == 0 + f.G + S - 1
               t == 2^h
    <3>2. h \in Nat /\ h + 1 = 0 + S + f.G /\ t \in Nat
      <4>1. h \in Nat /\ h + 1 = 0 + S + f.G
        BY <3>1
      <4> HIDE DEF h
      <4> QED BY <4>1, PowerOfTwo
    <3>3. Units(f, a) = (2 * x) * t /\ Units(f, b) = (2 * y) * t
      BY <1>5 DEF Units, Lead
    <3>4. 2^(0 + S + f.G) = 2 * t
      <4> HIDE DEF h
      <4>1. 2^(h + 1) = 2 * 2^h
        BY <3>2, PowerDoubles
      <4> QED BY <3>2, <4>1
    <3> HIDE DEF t, x, y
    <3>5. (2 * x) * t + (2 * y) * t = (x + y) * (2 * t)
      BY <1>1, <2>1, <3>2
    <3> QED BY <3>3, <3>4, <3>5
  <2>4. N \in Nat /\ N < 2^(f.F + 1) /\ N >= 1
    <3>1. N \in Nat /\ N < 2 * P
      BY <1>1, <2>1
    <3>2. N # 0
      <4> SUFFICES ASSUME N = 0 PROVE FALSE
        OBVIOUS
      <4>1. S \in Nat /\ f.G \in Nat /\ 0 + S + f.G \in Nat
        BY FormatFacts, SlackSize
      <4>2. 2^(0 + S + f.G) \in Nat
        BY <4>1, PowerOfTwo
      <4>3. V = 0
        BY <2>3, <4>2
      <4> QED BY <4>3
    <3> HIDE DEF N, P
    <3> QED BY <2>1, <3>1, <3>2
  <2>5. ValueRounded(f, s, Floor(f), N * 2^(0 + S + f.G), rm) = Exact(packToUI(f, s, 0, N))
    <3>1. 0 <= ExpMax(f) - 2 /\ 0 \in Nat
      BY FormatFacts
    <3> HIDE DEF N, s
    <3> QED BY <2>4, <3>1, ExactFloor DEF S
  <2>6. packToUI(f, s, 0, N) = a + y
    <3>1. a = s * 2^(f.E + f.F) + (ea * P + x)
      BY Fields DEF Fielded, Magnitude
    <3>2. 2^(f.E + f.F) \in Nat
      BY Sizes
    <3> DEFINE R == 2^(f.E + f.F)
    <3> HIDE DEF R, P, x, y, s, ea
    <3>3. packToUI(f, s, 0, N) = s * R + 0 * P + (x + y)
      BY DEF packToUI, R, P
    <3>4. s * R \in Nat /\ ea * P = 0 /\ 0 * P = 0
      BY <1>1, <1>5, <2>1, <3>2 DEF R
    <3>5. a = s * R + (0 + x)
      BY <3>1, <3>4 DEF R
    <3> QED BY <1>1, <2>1, <3>3, <3>4, <3>5
  <2> HIDE DEF V, N, s, S
  <2> QED BY <2>2, <2>3, <2>5, <2>6 DEF V, s
<1>6. CASE ea = eb /\ ea # 0
  <2> DEFINE T == 2^(f.G - 1)
             z == (2 * Hidden(f) + x + y) * T
             K == ea + S
  <2>1. /\ P \in Nat /\ P >= 2 /\ T \in Nat /\ T >= 32 /\ P * T \in Nat
        /\ 2^(f.F + f.G) = 2 * (P * T) /\ 2^(f.F + f.G + 1) = 4 * (P * T)
    BY LeadSizes
  <2>2. addMags(f, a, b, s, rm) = roundPack(f, s, ea, z, rm)
    <3>1. IF ea > eb THEN ea - eb = 0 ELSE eb - ea = 0
      BY <1>1, <1>6
    <3> QED BY <1>2, <1>6, <3>1 DEF addMags
  <2>3. z = (2 * P + x + y) * T
    BY DEF Hidden
  <2>4. z \in Nat /\ Normalised(f, z)
    <3> DEFINE l == 2 * P + x + y
    <3> HIDE DEF P, T, x, y
    <3>1. l \in Nat /\ l >= 2 * P /\ l < 4 * P
      BY <1>1, <2>1
    <3> HIDE DEF l
    <3>2. l * T \in Nat /\ l * T >= (2 * P) * T /\ l * T < (4 * P) * T /\ (2 * P) * T = 2 * (P * T) /\ (4 * P) * T = 4 * (P * T)
      BY <2>1, <3>1
    <3>3. z = l * T
      BY <2>3 DEF l
    <3> HIDE DEF z
    <3> QED BY <2>1, <3>2, <3>3 DEF Normalised
  <2>5. V = z * 2^K
    <3>1. f.G - 1 \in Nat /\ f.G - 1 <= f.G /\ f.G - (f.G - 1) = 1 /\ S \in Nat
      BY FormatFacts, SlackSize
    <3> DEFINE h == ea + (f.G - (f.G - 1)) + S - 1
    <3>2. h = K /\ K \in Nat
      BY <1>1, <3>1
    <3>3. Units(f, a) = Aligned(f, a, f.G - 1) * 2^h /\ Units(f, b) = Aligned(f, b, f.G - 1) * 2^h
      BY <1>6, <3>1, UnitsAligned
    <3>4. Aligned(f, a, f.G - 1) = (x + P) * T /\ Aligned(f, b, f.G - 1) = (y + P) * T
      BY <1>6, <3>1, Leads DEF Lead
    <3>5. 2^K \in Nat
      BY <3>2, PowerOfTwo
    <3> DEFINE U == 2^K
    <3> HIDE DEF h, K, P, T, x, y, U
    <3>6. ((x + P) * T) * U + ((y + P) * T) * U = ((2 * P + x + y) * T) * U
      <4> DEFINE m == T * U
      <4>1. m \in Nat
        BY <2>1, <3>5 DEF U
      <4>2. \A i \in Nat : (i * T) * U = i * m
        BY <2>1, <3>5 DEF U
      <4> HIDE DEF m
      <4>3. (x + P) * m + (y + P) * m = (2 * P + x + y) * m
        BY <1>1, <2>1, <4>1
      <4>4. x + P \in Nat /\ y + P \in Nat /\ 2 * P + x + y \in Nat
        BY <1>1, <2>1
      <4> QED BY <4>2, <4>3, <4>4
    <3>7. Units(f, a) = ((x + P) * T) * U /\ Units(f, b) = ((y + P) * T) * U
      BY <3>2, <3>3, <3>4 DEF U
    <3> QED BY <2>3, <3>6, <3>7 DEF U
  <2>6. V \in Nat
    BY MagUnits
  <2> HIDE DEF V, z, s
  <2>7. Agree(z * 2^K, V, 2^(K + f.G - 1))
    BY <2>5, AgreeSame
  <2>8. roundPack(f, s, ea, z, rm) = ValueRounded(f, s, Floor(f), V, rm)
    <3> HIDE DEF ea
    <3> QED BY <1>1, <2>4, <2>6, <2>7, PacksFloor DEF K, S
  <2> QED BY <2>2, <2>8 DEF V, s
<1> QED BY <1>1, <1>3, <1>4, <1>5, <1>6

LEMMA NormPacksFloor ==
    ASSUME NEW f, IsFormat(f), NEW sign \in {0, 1}, NEW rm \in RoundingModes, NEW ex \in Nat,
           NEW z \in Nat, z >= 1, z < 2^(f.F + f.G + 1), NEW X \in Nat,
           \/ X = z * 2^(ex + Slack(f))
           \/ z >= 2^(f.F + f.G - 1) /\ Agree(X, z * 2^(ex + Slack(f)), 2^(ex + Slack(f) + 1))
    PROVE  normRoundPack(f, sign, ex, z, rm) = ValueRounded(f, sign, Floor(f), X, rm)
<1> DEFINE k == ex + Slack(f)
<1>1. k \in Nat /\ Slack(f) \in Int /\ Base(f) \in Int /\ ex \in Int /\ k >= f.F + f.G + 3
  <2>1. f.F \in Nat /\ f.G \in Nat /\ Slack(f) \in Nat /\ Slack(f) = 2 * (f.F + f.G + 2) /\ Base(f) \in Int
    BY FormatFacts, SlackSize, BaseInt
  <2> QED BY <2>1
<1>2. ex + Base(f) - k = Floor(f)
  <2>1. FlooredAs(ex, Base(f), Slack(f))
    BY <1>1, Floored
  <2> QED BY <2>1 DEF FlooredAs, Floor
<1>3. X = z * 2^k \/ (z >= 2^(f.F + f.G - 1) /\ Agree(X, z * 2^k, 2^(k + 1)))
  OBVIOUS
<1> HIDE DEF k
<1>4. NormPacksAs(f, sign, ex, z, rm, k, X)
  BY <1>1, <1>3, NormRoundPackBase
<1> QED BY <1>2, <1>4 DEF NormPacksAs

LEMMA SubApart ==
    ASSUME NEW f, IsFormat(f), NEW big \in Word(f), NEW low \in Word(f), expUI(f, low) < expUI(f, big),
           NEW sign \in {0, 1}, NEW rm \in RoundingModes
    PROVE  /\ normRoundPack(f, sign, expUI(f, big) - 1,
                Aligned(f, big, f.G) - shiftRightJam(Width(f), Aligned(f, low, f.G), expUI(f, big) - expUI(f, low)), rm)
                = ValueRounded(f, sign, Floor(f), Units(f, big) - Units(f, low), rm)
           /\ Units(f, low) < Units(f, big)
<1> DEFINE eb == expUI(f, big)
           el == expUI(f, low)
           d  == eb - el
           A  == Aligned(f, big, f.G)
           c  == Aligned(f, low, f.G)
           J  == shiftRightJam(Width(f), c, d)
           z  == A - J
           S  == Slack(f)
           ex == eb - 1
           K  == ex + S
           P  == 2^f.F
           T  == 2^(f.G - 1)
           R  == 2^f.G
           Q  == P * T
           V  == Units(f, big) - Units(f, low)
           a  == Lead(f, big)
           b  == Lead(f, low)
<1>1. /\ P \in Nat /\ P >= 2 /\ 2^(f.F + 1) = 2 * P /\ T \in Nat /\ T >= 32 /\ R = 2 * T
      /\ Q \in Nat /\ Q >= 64 /\ 2^(f.F + f.G - 1) = Q /\ 2^(f.F + f.G + 1) = 4 * Q
      /\ Width(f) \in Nat /\ Width(f) >= 1 /\ 2^(Width(f) - 1) = 4 * Q
  BY LeadSizes
<1>2. f.G \in Nat /\ f.G >= 6 /\ f.F \in Nat /\ S \in Nat /\ S >= 8
  BY FormatFacts, SlackSize
<1>3. /\ eb \in Nat /\ el \in Nat /\ d \in Nat /\ d >= 1 /\ K \in Nat /\ d <= K /\ K - d = el + S - 1 /\ eb # 0
      /\ ex \in Nat /\ K = eb + S - 1 /\ K - d \in Nat
  BY <1>2, Leads
<1>4. a \in Nat /\ a < 2 * P /\ a >= P /\ A = a * R /\ b \in Nat /\ b < 2 * P /\ c = b * R
  BY <1>1, <1>2, <1>3, Leads
<1>6. Units(f, big) = A * 2^K /\ Units(f, low) = c * 2^(K - d)
  <2> DEFINE hb == eb + (f.G - f.G) + S - 1
             hl == el + (f.G - f.G) + S - 1
  <2>1. hb = K /\ hl = K - d /\ f.G \in Nat /\ f.G <= f.G
    BY <1>2, <1>3
  <2>2. Units(f, big) = A * 2^hb /\ Units(f, low) = c * 2^hl
    BY <2>1, UnitsAligned
  <2> HIDE DEF hb, hl, A, c
  <2> QED BY <2>1, <2>2
<1> HIDE DEF P, T, A, c, R, Q, eb, el, d, K, S, a, b
<1>5. /\ A \in Nat /\ A >= 2 * Q /\ A < 4 * Q /\ c \in Nat /\ c <= 4 * Q - 2 * T
      /\ A = 2 * (a * T) /\ a * T \in Nat /\ c = 2 * (b * T) /\ b * T \in Nat
  <2>1. a * R = 2 * (a * T) /\ b * R = 2 * (b * T) /\ a * T \in Nat /\ b * T \in Nat
    BY <1>1, <1>4
  <2>2. a * T >= P * T /\ a * T < (2 * P) * T /\ (2 * P) * T = 2 * (P * T)
    BY <1>1, <1>4
  <2>3. b * T <= (2 * P - 1) * T /\ (2 * P - 1) * T = 2 * (P * T) - T
    <3>1. b <= 2 * P - 1 /\ 2 * P - 1 \in Nat
      BY <1>1, <1>4
    <3>2. b * T <= (2 * P - 1) * T
      BY <1>1, <1>4, <3>1
    <3>3. (2 * P - 1) * T = 2 * (P * T) - T
      BY <1>1
    <3> QED BY <3>2, <3>3
  <2>4. A = 2 * (a * T) /\ c = 2 * (b * T) /\ Q = P * T
    BY <1>4, <2>1 DEF Q
  <2> DEFINE u == a * T
             v == b * T
  <2>5. u \in Nat /\ v \in Nat /\ u >= Q /\ u < 2 * Q /\ v <= 2 * Q - T /\ A = 2 * u /\ c = 2 * v
    BY <2>1, <2>2, <2>3, <2>4
  <2> HIDE DEF u, v
  <2>6. A \in Nat /\ A >= 2 * Q /\ A < 4 * Q /\ c \in Nat /\ c <= 4 * Q - 2 * T
    BY <1>1, <2>5
  <2> QED BY <2>1, <2>4, <2>6
<1>7. c < 2^(Width(f) - 1) /\ c % 2 = 0
  <2>1. c < 4 * Q
    BY <1>1, <1>5
  <2>2. \A m \in Nat : (2 * m) % 2 = 0
    OBVIOUS
  <2>3. c % 2 = 0
    BY <1>5, <2>2
  <2> QED BY <1>1, <2>1, <2>3
<1>8. J \in Nat /\ J <= c /\ (d >= 2 => 4 * J <= c + 4) /\ (d = 1 => 2 * J = c)
  BY <1>1, <1>3, <1>5, <1>7, JamBounds
<1>9. Agree((2 * (a * T) - J) * 2^K, (2 * (a * T)) * 2^K - c * 2^(K - d), 2^(K + 1))
  <2> DEFINE B == a * T
  <2>1. B \in Nat
    BY <1>5
  <2> HIDE DEF B
  <2>2. Agree((2 * B - J) * 2^K, (2 * B) * 2^K - c * 2^(K - d), 2^(K + 1))
    BY <1>1, <1>3, <1>5, <1>7, <2>1, JamSum
  <2> QED BY <2>2 DEF B
<1> HIDE DEF J
<1>10. z \in Nat /\ z >= 1 /\ z < 4 * Q /\ (d >= 2 => z >= Q)
  <2>1. CASE d = 1
    <3>1. 2 * J < 4 * Q
      BY <1>1, <1>5, <1>8, <2>1
    <3> QED BY <1>1, <1>5, <1>8, <2>1, <3>1
  <2>2. CASE d >= 2
    <3>1. 4 * J <= 4 * Q
      BY <1>1, <1>5, <1>8, <2>2
    <3> QED BY <1>1, <1>5, <1>8, <2>2, <3>1
  <2> QED BY <1>3, <2>1, <2>2
<1>11. Agree(z * 2^K, V, 2^(K + 1))
  BY <1>5, <1>6, <1>9
<1> DEFINE U == 2^(K - d)
           D == 2^d
<1>12. 2^K = D * U /\ U \in Nat /\ U >= 1 /\ D \in Nat /\ D >= 2 /\ (d = 1 => D = 2)
  <2>1. D = 2 * 2^(d - 1) /\ 2^(d - 1) \in Nat /\ 2^(d - 1) >= 1
    BY <1>3, PowerStep, PowerOfTwo
  <2>2. d = 1 => 2^(d - 1) = 1
    <3> SUFFICES ASSUME d = 1 PROVE 2^(d - 1) = 1
      OBVIOUS
    <3>1. d - 1 = 0
      OBVIOUS
    <3> QED BY <3>1, PowerZero
  <2>3. 2^K = D * U /\ U \in Nat /\ U >= 1
    BY <1>3, PowerDiff, PowerOfTwo
  <2> HIDE DEF D, U
  <2> QED BY <2>1, <2>2, <2>3
<1> HIDE DEF U, D
<1>13. Units(f, big) \in Nat /\ Units(f, low) \in Nat /\ Units(f, low) < Units(f, big)
  <2>1. A * (D * U) >= (2 * Q) * (2 * U)
    <3>1. D * U >= 2 * U
      BY <1>12
    <3>2. A * (D * U) >= A * (2 * U)
      BY <1>5, <1>12, <3>1
    <3>3. A * (2 * U) >= (2 * Q) * (2 * U)
      BY <1>1, <1>5, <1>12
    <3>4. A * (D * U) \in Int /\ A * (2 * U) \in Int /\ (2 * Q) * (2 * U) \in Int
      BY <1>1, <1>5, <1>12
    <3> QED BY <3>2, <3>3, <3>4
  <2>2. (2 * Q) * (2 * U) = (4 * Q) * U
    BY <1>1, <1>12
  <2>3. c * U < (4 * Q) * U
    <3>1. c < 4 * Q
      BY <1>1, <1>5
    <3> QED BY <1>1, <1>5, <1>12, <3>1
  <2>4. Units(f, big) = A * (D * U) /\ Units(f, low) = c * U
    BY <1>6, <1>12 DEF U
  <2>5. Units(f, big) \in Nat /\ Units(f, low) \in Nat /\ (4 * Q) * U \in Nat
    BY <1>1, <1>12, MagUnits
  <2> QED BY <2>1, <2>2, <2>3, <2>4, <2>5
<1>14. V \in Nat
  BY <1>13
<1>15. d = 1 => V = z * 2^K
  <2> SUFFICES ASSUME d = 1 PROVE V = z * 2^K
    OBVIOUS
  <2>1. D = 2 /\ c = 2 * J
    BY <1>8, <1>12
  <2>2. A * (2 * U) - (2 * J) * U = (A - J) * (2 * U)
    BY <1>5, <1>8, <1>12
  <2>3. V = A * (D * U) - c * U /\ 2^K = D * U
    BY <1>6, <1>12 DEF U
  <2> QED BY <2>1, <2>2, <2>3
<1> HIDE DEF z, V, ex
<1>16. V = z * 2^K \/ (z >= 2^(f.F + f.G - 1) /\ Agree(V, z * 2^K, 2^(K + 1)))
  <2>1. CASE d = 1
    BY <1>15, <2>1
  <2>2. CASE d >= 2
    <3>1. Agree(V, z * 2^K, 2^(K + 1))
      BY <1>11, AgreeSymmetric
    <3>2. z >= 2^(f.F + f.G - 1)
      BY <1>1, <1>10, <2>2
    <3> QED BY <3>1, <3>2
  <2> QED BY <1>3, <2>1, <2>2
<1>17. normRoundPack(f, sign, ex, z, rm) = ValueRounded(f, sign, Floor(f), V, rm)
  <2>1. z < 2^(f.F + f.G + 1)
    BY <1>1, <1>10
  <2>2. ex \in Nat /\ z \in Nat /\ z >= 1
    BY <1>3, <1>10
  <2> QED BY <1>14, <1>16, <2>1, <2>2, NormPacksFloor DEF K, S
<1> QED BY <1>13, <1>17 DEF z, V, ex, A, J, c, d, eb, el

LEMMA SubEqual ==
    ASSUME NEW f, IsFormat(f), NEW sign \in {0, 1}, NEW rm \in RoundingModes,
           NEW ex \in Nat, ex <= ExpMax(f) - 2, NEW diff \in Nat, diff >= 1, diff < 2^f.F
    PROVE  LET dist == countLeadingZeros(Width(f), diff) - (f.G + 1)
               s    == IF ex < dist THEN ex ELSE dist
           IN  Exact(packToUI(f, sign, ex - s, diff * 2^s))
                 = ValueRounded(f, sign, Floor(f), diff * 2^(ex + Slack(f) + f.G), rm)
<1>1. f.F \in Nat /\ f.G \in Nat /\ Width(f) = f.F + f.G + 2 /\ ExpMax(f) \in Int /\ Slack(f) \in Nat
  BY FormatFacts, SlackSize
<1>2. PICK b \in 1 .. f.F : HasBits(diff, b)
  BY <1>1, BitsExist
<1> DEFINE dist == countLeadingZeros(Width(f), diff) - (f.G + 1)
           s    == IF ex < dist THEN ex ELSE dist
           N    == diff * 2^s
           e    == ex - s
<1>3. countLeadingZeros(Width(f), diff) = Width(f) - b
  <2>1. Width(f) \in Nat /\ b <= Width(f)
    BY <1>1
  <2> QED BY <1>2, <2>1, LeadingZeros
<1>4. dist = f.F + 1 - b
  BY <1>1, <1>3
<1>5. s \in Nat /\ b + s <= f.F + 1 /\ e \in Nat /\ e <= ExpMax(f) - 2 /\ (b + s = f.F + 1 \/ e = 0) /\ b + s \in Nat /\ b + s >= 1
  BY <1>1, <1>2, <1>4
<1> HIDE DEF s, e
<1>6. HasBits(N, b + s)
  BY <1>2, <1>5, BitsScaled
<1>7. N \in Nat /\ N >= 1 /\ N < 2^(f.F + 1)
  <2>1. 2^s \in Nat /\ 2^s >= 1
    BY <1>5, PowerOfTwo
  <2>2. N \in Nat
    BY <2>1
  <2>3. 2^((b + s) - 1) \in Nat /\ 2^((b + s) - 1) >= 1
    <3>1. (b + s) - 1 \in Nat
      BY <1>5
    <3> HIDE DEF N
    <3> QED BY <3>1, PowerOfTwo
  <2>4. 2^(b + s) <= 2^(f.F + 1) /\ 2^(b + s) \in Nat /\ 2^(f.F + 1) \in Nat
    <3>1. f.F + 1 \in Nat /\ b + s \in 0 .. f.F + 1
      BY <1>1, <1>5
    <3> QED BY <3>1, PowerMonotone, PowerOfTwo
  <2> HIDE DEF N
  <2>5. N < 2^(b + s) /\ N >= 2^((b + s) - 1)
    BY <1>6 DEF HasBits
  <2> QED BY <2>2, <2>3, <2>4, <2>5
<1>8. N >= 2^f.F \/ e = 0
  <2> SUFFICES ASSUME b + s = f.F + 1 PROVE N >= 2^f.F
    BY <1>5
  <2>1. (b + s) - 1 = f.F
    BY <1>1, <1>2, <1>5
  <2> HIDE DEF N
  <2>2. 2^((b + s) - 1) <= N
    BY <1>6 DEF HasBits
  <2>3. 2^((b + s) - 1) = 2^f.F
    BY <2>1
  <2>4. 2^f.F \in Nat
    BY <1>1, PowerOfTwo
  <2> QED BY <1>7, <2>2, <2>3, <2>4
<1>9. ValueRounded(f, sign, Floor(f), N * 2^(e + Slack(f) + f.G), rm) = Exact(packToUI(f, sign, e, N))
  <2> HIDE DEF N
  <2>1. e \in Nat /\ e <= ExpMax(f) - 2 /\ N \in Nat /\ N >= 1 /\ N < 2^(f.F + 1) /\ (N >= 2^f.F \/ e = 0)
    BY <1>5, <1>7, <1>8
  <2> QED BY <2>1, ExactFloor, ZenonT(40)
<1>10. N * 2^(e + Slack(f) + f.G) = diff * 2^(ex + Slack(f) + f.G)
  <2> DEFINE k == e + Slack(f) + f.G
  <2>1. k \in Nat /\ s + k = ex + Slack(f) + f.G
    BY <1>1, <1>5 DEF e
  <2> HIDE DEF k
  <2>2. (diff * 2^s) * 2^k = diff * 2^(s + k)
    <3>1. diff \in Int /\ s \in Nat /\ k \in Nat
      BY <1>5, <2>1
    <3> QED BY <3>1, MovedBits
  <2> QED BY <2>1, <2>2 DEF k
<1> HIDE DEF N
<1>11. Exact(packToUI(f, sign, e, N)) = ValueRounded(f, sign, Floor(f), diff * 2^(ex + Slack(f) + f.G), rm)
  BY <1>9, <1>10
<1> QED BY <1>11 DEF s, e, N

\* A value at the exponent the difference of equal exponents is packed at.
LowExp(f, ui) == IF expUI(f, ui) # 0 THEN expUI(f, ui) - 1 ELSE 0

HiddenBit(f, ui) == IF expUI(f, ui) # 0 THEN 2^f.F ELSE 0

LEMMA UnitsLow ==
    ASSUME NEW f, IsFormat(f), NEW ui \in Word(f)
    PROVE  /\ Units(f, ui) = (fracUI(f, ui) + HiddenBit(f, ui)) * 2^(LowExp(f, ui) + Slack(f) + f.G)
           /\ LowExp(f, ui) \in Nat /\ HiddenBit(f, ui) \in Nat
<1> DEFINE e == expUI(f, ui)
           x == fracUI(f, ui)
           S == Slack(f)
<1>1. f.G \in Nat /\ f.G >= 6 /\ S \in Nat /\ e \in Nat /\ 2^f.F \in Nat /\ x \in Nat
  <2>1. 2^f.F \in Nat /\ Fielded(f, ui)
    BY Sizes, Fields
  <2> QED BY <2>1, FormatFacts, SlackSize, Leads DEF Fielded
<1> HIDE DEF S, e, x
<1>2. CASE e # 0
  <2>1. LowExp(f, ui) + S + f.G = e + f.G + S - 1 /\ LowExp(f, ui) \in Nat
    BY <1>1, <1>2 DEF LowExp, e
  <2>2. Units(f, ui) = (x + 2^f.F) * 2^(e + f.G + S - 1) /\ HiddenBit(f, ui) = 2^f.F
    BY <1>2 DEF Units, Lead, HiddenBit, e, x, S
  <2> QED BY <1>1, <2>1, <2>2 DEF x, S
<1>3. CASE e = 0
  <2> DEFINE h == 0 + f.G + S - 1
             t == 2^h
  <2>1. h \in Nat /\ h + 1 = 0 + S + f.G /\ LowExp(f, ui) = 0 /\ HiddenBit(f, ui) = 0
    BY <1>1, <1>3 DEF LowExp, HiddenBit, e
  <2>2. Units(f, ui) = (2 * x) * t
    BY <1>3 DEF Units, Lead, e, x, S
  <2>3. t \in Nat /\ 2^(0 + S + f.G) = 2 * t
    <3> HIDE DEF h
    <3>1. 2^(h + 1) = 2 * 2^h /\ 2^h \in Nat
      BY <2>1, PowerDoubles, PowerOfTwo
    <3> QED BY <2>1, <3>1
  <2> HIDE DEF t, h
  <2>4. (2 * x) * t = (x + 0) * (2 * t)
    BY <1>1, <2>3
  <2> QED BY <2>1, <2>2, <2>3, <2>4 DEF x, S
<1> QED BY <1>2, <1>3

\* The outcome of a difference of magnitudes.
Difference(f, U, V, sign, rm, r) ==
    /\ U > V => r = ValueRounded(f, sign, Floor(f), U - V, rm)
    /\ U < V => r = ValueRounded(f, 1 - sign, Floor(f), V - U, rm)
    /\ U = V => r = Exact(ZeroOf(f, IF rm = "RDN" THEN 1 ELSE 0))

LEMMA ScaledOrder ==
    ASSUME NEW x \in Nat, NEW y \in Nat, NEW h \in Nat, NEW t \in Nat, t >= 1
    PROVE  /\ (x + h) * t > (y + h) * t <=> x > y
           /\ (x + h) * t < (y + h) * t <=> x < y
           /\ x >= y => (x + h) * t - (y + h) * t = (x - y) * t
<1>1. x > y => (x + h) * t > (y + h) * t
  BY SMT
<1>2. x < y => (x + h) * t < (y + h) * t
  BY SMT
<1>3. x = y => (x + h) * t = (y + h) * t
  OBVIOUS
<1>4. (x + h) * t \in Int /\ (y + h) * t \in Int
  OBVIOUS
<1>5. (x + h) * t - (y + h) * t = (x - y) * t
  BY SMT
<1> QED BY <1>1, <1>2, <1>3, <1>4, <1>5

LEMMA SubMagsFinite ==
    ASSUME NEW f, IsFormat(f), NEW a \in Word(f), NEW b \in Word(f), ~IsSpecial(f, a), ~IsSpecial(f, b),
           NEW rm \in RoundingModes
    PROVE  Difference(f, Units(f, a), Units(f, b), signUI(f, a), rm, subMags(f, a, b, signUI(f, a), rm))
<1> DEFINE ea == expUI(f, a)
           eb == expUI(f, b)
           x  == fracUI(f, a)
           y  == fracUI(f, b)
           s  == signUI(f, a)
           P  == 2^f.F
<1>1. ea \in Nat /\ eb \in Nat /\ s \in {0, 1} /\ x \in 0 .. P - 1 /\ y \in 0 .. P - 1 /\ ea <= ExpMax(f) /\ eb <= ExpMax(f)
      /\ P \in Nat /\ ExpMax(f) \in Nat /\ ExpMax(f) >= 3
  <2>1. \A v \in Word(f) : Fielded(f, v) /\ expUI(f, v) \in Nat
    BY Fields, Leads
  <2>2. ExpMax(f) \in Nat /\ ExpMax(f) >= 3 /\ P \in Nat
    BY FormatFacts, Sizes
  <2> QED BY <2>1, <2>2 DEF Fielded
<1>2. ea # ExpMax(f) /\ eb # ExpMax(f) /\ ~IsSpecial(f, a) /\ ~IsSpecial(f, b)
  BY DEF IsSpecial
<1>0. 1 - s \in {0, 1} /\ Units(f, a) \in Nat /\ Units(f, b) \in Nat
  BY <1>1, MagUnits
<1>3. CASE ea > eb
  <2>1. subMags(f, a, b, s, rm) = normRoundPack(f, s, ea - 1,
                Aligned(f, a, f.G) - shiftRightJam(Width(f), Aligned(f, b, f.G), ea - eb), rm)
    <3>1. ea - eb # 0
      BY <1>1, <1>3
    <3> HIDE DEF s
    <3> QED BY <1>2, <1>3, <3>1 DEF subMags
  <2>2. /\ subMags(f, a, b, s, rm) = ValueRounded(f, s, Floor(f), Units(f, a) - Units(f, b), rm)
        /\ Units(f, b) < Units(f, a)
    <3> HIDE DEF s
    <3> QED BY <1>1, <1>3, <2>1, SubApart
  <2> HIDE DEF s
  <2> QED BY <1>0, <2>2 DEF Difference, s
<1>4. CASE ea < eb
  <2>1. subMags(f, a, b, s, rm) = normRoundPack(f, 1 - s, eb - 1,
                Aligned(f, b, f.G) - shiftRightJam(Width(f), Aligned(f, a, f.G), eb - ea), rm)
    <3>1. eb - ea # 0 /\ ~(ea > eb)
      BY <1>1, <1>4
    <3> HIDE DEF s
    <3> QED BY <1>2, <3>1 DEF subMags
  <2>2. /\ subMags(f, a, b, s, rm) = ValueRounded(f, 1 - s, Floor(f), Units(f, b) - Units(f, a), rm)
        /\ Units(f, a) < Units(f, b)
    <3> HIDE DEF s
    <3> QED BY <1>0, <1>1, <1>4, <2>1, SubApart
  <2> HIDE DEF s
  <2> QED BY <1>0, <2>2 DEF Difference, s
<1>5. CASE ea = eb
  <2> DEFINE ex   == LowExp(f, a)
             h    == HiddenBit(f, a)
             t    == 2^(ex + Slack(f) + f.G)
             diff == IF x < y THEN y - x ELSE x - y
             sn   == IF x >= y THEN s ELSE 1 - s
             dist == countLeadingZeros(Width(f), diff) - (f.G + 1)
             m    == IF ex < dist THEN ex ELSE dist
  <2>1. LowExp(f, b) = ex /\ HiddenBit(f, b) = h /\ ex \in Nat /\ ex <= ExpMax(f) - 2
    BY <1>1, <1>2, <1>5 DEF LowExp, HiddenBit
  <2>2. Units(f, a) = (x + h) * t /\ Units(f, b) = (y + h) * t /\ h \in Nat
    BY <2>1, UnitsLow
  <2>3. t \in Nat /\ t >= 1
    <3>1. ex + Slack(f) + f.G \in Nat
      BY <2>1, FormatFacts, SlackSize
    <3> HIDE DEF ex
    <3> QED BY <3>1, PowerOfTwo
  <2>4. subMags(f, a, b, s, rm) =
          IF diff = 0 THEN Exact(ZeroOf(f, IF rm = "RDN" THEN 1 ELSE 0))
          ELSE Exact(packToUI(f, sn, ex - m, diff * 2^m))
    <3>1. (IF ea > eb THEN ea - eb ELSE eb - ea) = 0 /\ ~(ea > eb)
      BY <1>1, <1>5
    <3> QED BY <1>2, <3>1 DEF subMags, LowExp
  <2>5. diff \in Nat /\ diff < P /\ sn \in {0, 1}
    <3> HIDE DEF P, x, y
    <3> QED BY <1>0, <1>1
  <2>6. x \in Nat /\ y \in Nat
    BY <1>1
  <2>7. /\ Units(f, a) > Units(f, b) <=> x > y
        /\ Units(f, a) < Units(f, b) <=> x < y
        /\ x >= y => Units(f, a) - Units(f, b) = (x - y) * t
        /\ y >= x => Units(f, b) - Units(f, a) = (y - x) * t
    <3> HIDE DEF x, y, h, t
    <3> QED BY <2>2, <2>3, <2>6, ScaledOrder
  <2> HIDE DEF t
  <2>8. diff >= 1 => subMags(f, a, b, s, rm) = ValueRounded(f, sn, Floor(f), diff * t, rm)
    <3> SUFFICES ASSUME diff >= 1 PROVE subMags(f, a, b, s, rm) = ValueRounded(f, sn, Floor(f), diff * t, rm)
      OBVIOUS
    <3>1. diff # 0
      BY <2>5
    <3>2. Exact(packToUI(f, sn, ex - m, diff * 2^m)) = ValueRounded(f, sn, Floor(f), diff * 2^(ex + Slack(f) + f.G), rm)
      <4> HIDE DEF diff, sn, ex
      <4> QED BY <2>1, <2>5, SubEqual
    <3> HIDE DEF diff, sn, ex, m, s
    <3> QED BY <2>4, <3>1, <3>2 DEF t
  <2> DEFINE U == Units(f, a)
             W == Units(f, b)
             r == subMags(f, a, b, s, rm)
             zero == Exact(ZeroOf(f, IF rm = "RDN" THEN 1 ELSE 0))
  <2>9. diff = 0 => r = zero
    BY <2>4
  <2>10. CASE x > y
    <3>1. diff = x - y /\ sn = s /\ diff >= 1 /\ U > W /\ U - W = diff * t /\ ~(U < W) /\ U # W
      BY <1>0, <2>6, <2>7, <2>10
    <3> HIDE DEF diff, sn, U, W, r, s
    <3> QED BY <2>8, <3>1 DEF Difference, r, U, W, s
  <2>11. CASE x < y
    <3>1. diff = y - x /\ sn = 1 - s /\ diff >= 1 /\ U < W /\ W - U = diff * t /\ ~(U > W) /\ U # W
      BY <1>0, <2>6, <2>7, <2>11
    <3> HIDE DEF diff, sn, U, W, r, s
    <3> QED BY <2>8, <3>1 DEF Difference, r, U, W, s
  <2>12. CASE x = y
    <3>1. diff = 0 /\ ~(U > W) /\ ~(U < W)
      BY <1>0, <2>6, <2>7, <2>12
    <3> HIDE DEF diff, U, W, r, zero, s
    <3> QED BY <2>9, <3>1 DEF Difference, zero, r, U, W, s
  <2> QED BY <2>6, <2>10, <2>11, <2>12
<1> QED BY <1>1, <1>3, <1>4, <1>5

LEMMA AddEven ==
    ASSUME NEW f, IsFormat(f), NEW a \in Word(f), NEW b \in Word(f), expUI(f, a) = expUI(f, b),
           expUI(f, a) \in 1 .. ExpMax(f) - 2, NEW sign \in {0, 1}, NEW rm \in RoundingModes,
           (2 * Hidden(f) + fracUI(f, a) + fracUI(f, b)) % 2 = 0
    PROVE  /\ Exact(packToUI(f, sign, expUI(f, a), (2 * Hidden(f) + fracUI(f, a) + fracUI(f, b)) \div 2))
                = ValueRounded(f, sign, Floor(f), Units(f, a) + Units(f, b), rm)
           /\ Units(f, a) + Units(f, b) >= 1
<1> DEFINE e == expUI(f, a)
           x == fracUI(f, a)
           y == fracUI(f, b)
           P == 2^f.F
           z == 2 * Hidden(f) + x + y
           N == z \div 2
           h == LowExp(f, a) + Slack(f) + f.G
           t == 2^h
<1>1. x \in 0 .. P - 1 /\ y \in 0 .. P - 1 /\ P \in Nat /\ P >= 2 /\ 2^(f.F + 1) = 2 * P /\ ExpMax(f) \in Int
  <2>1. \A v \in Word(f) : Fielded(f, v)
    BY Fields
  <2>2. P \in Nat /\ P >= 2 /\ ExpMax(f) \in Int /\ 2^(f.F + 1) = 2 * P
    BY FormatFacts, GuardSizes
  <2> QED BY <2>1, <2>2 DEF Fielded
<1>2. e \in Nat /\ e >= 1 /\ e <= ExpMax(f) - 2
  BY <1>1
<1>3. h \in Nat /\ h + 1 = e + Slack(f) + f.G
  <2>1. f.G \in Nat /\ Slack(f) \in Nat /\ LowExp(f, a) = e - 1
    BY <1>2, FormatFacts, SlackSize DEF LowExp
  <2> QED BY <1>2, <2>1
<1>4. Units(f, a) = (x + P) * t /\ Units(f, b) = (y + P) * t
  <2>1. LowExp(f, b) = LowExp(f, a) /\ HiddenBit(f, a) = P /\ HiddenBit(f, b) = P
    BY <1>2 DEF LowExp, HiddenBit
  <2> QED BY <2>1, UnitsLow
<1>5. t \in Nat /\ t >= 1 /\ 2^(e + Slack(f) + f.G) = 2 * t
  <2> HIDE DEF h
  <2>1. 2^(h + 1) = 2 * 2^h /\ 2^h \in Nat /\ 2^h >= 1
    BY <1>3, PowerDoubles, PowerOfTwo
  <2> QED BY <1>3, <2>1
<1>6. z % 2 = 0 /\ z = 2 * P + x + y
  BY DEF Hidden
<1> HIDE DEF x, y, t, h, P, z
<1>7. z \in Nat /\ z >= 2 * P /\ z < 4 * P
  BY <1>1, <1>6
<1>8. z = 2 * N /\ N \in Nat
  BY <1>6, <1>7
<1> HIDE DEF N
<1>9. N >= 1 /\ N < 2^(f.F + 1) /\ N >= 2^f.F
  BY <1>1, <1>7, <1>8 DEF P
<1>10. ValueRounded(f, sign, Floor(f), N * 2^(e + Slack(f) + f.G), rm) = Exact(packToUI(f, sign, e, N))
  <2> HIDE DEF e
  <2> QED BY <1>2, <1>8, <1>9, ExactFloor
<1>11. (x + P) * t + (y + P) * t = N * (2 * t)
  <2>1. (x + P) * t + (y + P) * t = (2 * P + x + y) * t
    BY <1>1, <1>5
  <2>2. (2 * N) * t = N * (2 * t)
    BY <1>5, <1>8
  <2>3. (2 * P + x + y) * t = (2 * N) * t
    BY <1>6, <1>8
  <2> QED BY <2>1, <2>2, <2>3
<1>12. Units(f, a) + Units(f, b) = N * 2^(e + Slack(f) + f.G)
  BY <1>4, <1>5, <1>11
<1>13. N * (2 * t) >= 1
  BY <1>5, <1>8, <1>9
<1>14. Units(f, a) + Units(f, b) >= 1
  BY <1>5, <1>12, <1>13
<1>15. Exact(packToUI(f, sign, e, N)) = ValueRounded(f, sign, Floor(f), Units(f, a) + Units(f, b), rm)
  BY <1>10, <1>12
<1> QED BY <1>14, <1>15 DEF N, z, x, y

\* The outcome of a sum of magnitudes.
Total(f, U, V, sign, rm, r) ==
    /\ U + V # 0 => r = ValueRounded(f, sign, Floor(f), U + V, rm)
    /\ U + V = 0 => r = Exact(ZeroOf(f, sign))

LEMMA UnitsZero ==
    ASSUME NEW f, IsFormat(f), NEW a \in Word(f), Units(f, a) = 0
    PROVE  expUI(f, a) = 0 /\ fracUI(f, a) = 0 /\ a = ZeroOf(f, signUI(f, a))
<1> DEFINE x == fracUI(f, a)
           h == LowExp(f, a) + Slack(f) + f.G
           t == 2^h
           H == HiddenBit(f, a)
<1>1. x \in 0 .. 2^f.F - 1 /\ 2^f.F \in Nat /\ 2^f.F >= 2 /\ a = signUI(f, a) * 2^(f.E + f.F) + Magnitude(f, a)
      /\ signUI(f, a) \in {0, 1} /\ 2^(f.E + f.F) \in Nat
  <2>1. Fielded(f, a) /\ 2^f.F \in Nat /\ 2^f.F >= 2 /\ 2^(f.E + f.F) \in Nat
    BY Fields, Sizes
  <2> QED BY <2>1 DEF Fielded
<1>2. Units(f, a) = (x + H) * t /\ H \in Nat /\ LowExp(f, a) \in Nat
  BY UnitsLow
<1>3. t \in Nat /\ t >= 1
  <2>1. h \in Nat
    BY <1>2, FormatFacts, SlackSize
  <2> HIDE DEF h
  <2> QED BY <2>1, PowerOfTwo
<1> HIDE DEF t, x, H
<1>4. x + H = 0
  <2>1. x + H \in Nat
    BY <1>1, <1>2
  <2> DEFINE k == x + H
  <2> HIDE DEF k
  <2>2. k \in Nat /\ k * t = 0
    BY <1>2, <2>1 DEF k
  <2>3. k = 0
    BY <1>3, <2>2
  <2> QED BY <2>3 DEF k
<1>5. x = 0 /\ H = 0
  BY <1>1, <1>2, <1>4
<1>6. expUI(f, a) = 0
  BY <1>1, <1>5 DEF HiddenBit, H
<1> DEFINE s == signUI(f, a)
           R == 2^(f.E + f.F)
           P == 2^f.F
<1>7. a = s * R + (0 * P + 0)
  BY <1>1, <1>5, <1>6 DEF Magnitude, x
<1>8. ZeroOf(f, s) = s * R + 0 * P + 0
  BY DEF ZeroOf, packToUI
<1> HIDE DEF s, R, P
<1>9. a = ZeroOf(f, s)
  <2>1. s * R \in Nat /\ 0 * P = 0
    BY <1>1 DEF s, R, P
  <2> QED BY <1>7, <1>8, <2>1
<1> QED BY <1>5, <1>6, <1>9 DEF x, s

LEMMA AddMagsTotal ==
    ASSUME NEW f, IsFormat(f), NEW a \in Word(f), NEW b \in Word(f), ~IsSpecial(f, a), ~IsSpecial(f, b),
           NEW rm \in RoundingModes
    PROVE  Total(f, Units(f, a), Units(f, b), signUI(f, a), rm, addMags(f, a, b, signUI(f, a), rm))
<1>1. Units(f, a) \in Nat /\ Units(f, b) \in Nat
  BY MagUnits
<1>2. CASE Units(f, a) + Units(f, b) # 0
  <2>1. Units(f, a) + Units(f, b) >= 1
    BY <1>1, <1>2
  <2>2. addMags(f, a, b, signUI(f, a), rm) = ValueRounded(f, signUI(f, a), Floor(f), Units(f, a) + Units(f, b), rm)
    BY <2>1, AddMagsFinite
  <2> QED BY <1>2, <2>2 DEF Total
<1>3. CASE Units(f, a) + Units(f, b) = 0
  <2>1. Units(f, a) = 0 /\ Units(f, b) = 0
    BY <1>1, <1>3
  <2>2. expUI(f, a) = 0 /\ expUI(f, b) = 0 /\ fracUI(f, b) = 0 /\ a = ZeroOf(f, signUI(f, a))
    BY <2>1, UnitsZero
  <2>3. addMags(f, a, b, signUI(f, a), rm) = Exact(a + fracUI(f, b))
    BY <2>2 DEF addMags
  <2>4. a + fracUI(f, b) = a
    <3>1. a \in Int
      BY Sizes, FormatFacts DEF Word
    <3> QED BY <2>2, <3>1
  <2>5. addMags(f, a, b, signUI(f, a), rm) = Exact(ZeroOf(f, signUI(f, a)))
    BY <2>2, <2>3, <2>4
  <2> QED BY <1>3, <2>5 DEF Total
<1> QED BY <1>2, <1>3

LEMMA AddMagsF32Total ==
    ASSUME NEW a \in Word(F32), NEW b \in Word(F32), ~IsSpecial(F32, a), ~IsSpecial(F32, b),
           NEW rm \in RoundingModes
    PROVE  Total(F32, Units(F32, a), Units(F32, b), signUI(F32, a), rm, softfloat_addMagsF32(a, b, rm))
<1>1. IsFormat(F32) /\ signUI(F32, a) \in {0, 1}
  BY Formats, Fields DEF Fielded
<1> DEFINE e == expUI(F32, a)
           z == 2 * Hidden(F32) + fracUI(F32, a) + fracUI(F32, b)
<1>2. CASE e = expUI(F32, b) /\ e \in 1 .. ExpMax(F32) - 2 /\ z % 2 = 0
  <2>1. softfloat_addMagsF32(a, b, rm) = Exact(packToUI(F32, signUI(F32, a), e, z \div 2))
    BY <1>2 DEF softfloat_addMagsF32
  <2>2. /\ Exact(packToUI(F32, signUI(F32, a), e, z \div 2))
             = ValueRounded(F32, signUI(F32, a), Floor(F32), Units(F32, a) + Units(F32, b), rm)
        /\ Units(F32, a) + Units(F32, b) >= 1
    BY <1>1, <1>2, AddEven
  <2>3. Units(F32, a) + Units(F32, b) # 0
    BY <1>1, <2>2, MagUnits
  <2> QED BY <2>1, <2>2, <2>3 DEF Total
<1>3. CASE ~(e = expUI(F32, b) /\ e \in 1 .. ExpMax(F32) - 2 /\ z % 2 = 0)
  <2>1. softfloat_addMagsF32(a, b, rm) = addMags(F32, a, b, signUI(F32, a), rm)
    BY <1>3 DEF softfloat_addMagsF32
  <2> QED BY <1>1, <2>1, AddMagsTotal
<1> QED BY <1>2, <1>3

------------------------------------------------------------------------------
(* The reference sum: trimmed, filled and combined magnitudes *)

\* 2^k is the largest power of two that divides n.
TrailsAt(n, k) == n % 2^k = 0 /\ (n \div 2^k) % 2 = 1

LEMMA TrailingZeros ==
    ASSUME NEW w \in Nat, NEW n \in Nat, n >= 1, n < 2^w
    PROVE  \E k \in 0 .. w : TrailsAt(n, k)
<1> DEFINE T == {k \in Nat : n % 2^(k + 1) # 0}
<1>1. w \in T
  <2>1. 2^(w + 1) = 2 * 2^w /\ 2^w \in Nat
    BY PowerDoubles, PowerOfTwo
  <2> DEFINE t == 2^(w + 1)
  <2>2. t \in Nat /\ n < t /\ t >= 1
    BY <2>1
  <2> HIDE DEF t
  <2>3. n = t * 0 + n
    BY <2>2
  <2>4. n % t = n
    BY <2>2, <2>3, DivModUnique
  <2> QED BY <2>4 DEF t
<1>2. PICK k \in T : \A y \in T : k <= y
  BY <1>1, LeastElement
<1>3. k \in Nat /\ k <= w /\ n % 2^(k + 1) # 0
  BY <1>1, <1>2
<1>4. n % 2^k = 0
  <2>1. CASE k = 0
    <3>1. 2^k = 1
      BY <2>1, PowerZero
    <3>2. \A m \in Nat : m % 1 = 0
      OBVIOUS
    <3> QED BY <3>1, <3>2
  <2>2. CASE k # 0
    <3>1. k - 1 \in Nat /\ (k - 1) + 1 = k /\ ~(k <= k - 1)
      BY <1>3, <2>2
    <3>2. k - 1 \notin T
      BY <1>2, <3>1
    <3>3. n % 2^((k - 1) + 1) = 0
      BY <3>1, <3>2
    <3> QED BY <3>1, <3>3
  <2> QED BY <2>1, <2>2
<1>5. (n \div 2^k) % 2 = 1
  <2> DEFINE t == 2^k
             u == (n \div t) % 2
  <2>1. t \in Nat \ {0} /\ 2^(k + 1) = 2 * t
    BY <1>3, PowerOfTwo, PowerDoubles
  <2>2. t * 2 = 2 * t
    BY <2>1
  <2> HIDE DEF t
  <2>3. n % (t * 2) = t * ((n \div t) % 2) + (n % t)
    <3>1. t \in Nat \ {0} /\ 2 \in Nat \ {0} /\ n \in Nat
      BY <2>1
    <3> QED BY <3>1, NestedMod
  <2>4. n % t = 0 /\ n % (t * 2) # 0
    BY <1>3, <1>4, <2>1, <2>2 DEF t
  <2>5. n \div t \in Int
    BY <2>1, Euclid
  <2>6. u \in {0, 1}
    BY <2>5
  <2>7. u # 0
    <3> SUFFICES ASSUME u = 0 PROVE FALSE
      OBVIOUS
    <3>1. t * 0 + 0 = 0
      BY <2>1
    <3> QED BY <2>3, <2>4, <3>1
  <2> QED BY <2>6, <2>7 DEF t
<1> QED BY <1>2, <1>3, <1>4, <1>5 DEF TrailsAt

\* y holds the value of x with an exponent no lower and no more bits.
Shortened(x, y, L, X) ==
    Denotes(y, L, X) /\ y.n >= 1 /\ y.n <= x.n /\ y.e >= x.e

LEMMA TrimmedShort ==
    ASSUME Reach, NEW x, NEW L, NEW X, Denotes(x, L, X), x.n >= 1
    PROVE  Shortened(x, Trimmed(x), L, X)
<1> DEFINE n == x.n
           w == 2 * W64
           k == CHOOSE i \in 0 .. w : TrailsAt(n, i)
           t == 2^k
           m == n \div t
           g == x.e - L
<1>1. n \in Nat /\ n >= 1 /\ w \in Nat /\ n < 2^w /\ x.e \in Int /\ L \in Int /\ g \in Nat /\ 2^w \in Nat
  BY DEF Denotes, Reach
<1>2. k \in 0 .. w /\ TrailsAt(n, k)
  <2> HIDE DEF n, w
  <2>1. \E i \in 0 .. w : TrailsAt(n, i)
    BY <1>1, TrailingZeros
  <2> QED BY <2>1
<1>3. Trimmed(x) = [n |-> m, d |-> 1, e |-> x.e + k]
  BY DEF Trimmed, Mag, TrailsAt
<1> HIDE DEF k
<1>4. k \in Nat /\ t \in Nat /\ t >= 1 /\ n % t = 0
  <2>1. k \in Nat
    BY <1>1, <1>2
  <2> QED BY <1>2, <2>1, PowerOfTwo DEF TrailsAt
<1> HIDE DEF t, n
<1>5. m \in Int /\ n = t * m
  <2>1. n \div t \in Int /\ n = t * (n \div t) + (n % t)
    BY <1>1, <1>4, Euclid
  <2> QED BY <1>4, <2>1
<1> HIDE DEF m
<1>6. m \in Nat /\ m >= 1 /\ m <= n
  BY <1>1, <1>4, <1>5
<1>7. (x.e + k) - L = k + g /\ L <= x.e + k /\ x.e + k \in Int /\ x.e + k >= x.e
  BY <1>1, <1>4
<1>8. X = m * 2^((x.e + k) - L)
  <2> HIDE DEF g
  <2>1. X = n * 2^g
    BY DEF Denotes, g, n
  <2>2. (m * 2^k) * 2^g = m * 2^(k + g)
    <3>1. m \in Int /\ k \in Nat /\ g \in Nat
      BY <1>1, <1>4, <1>5 DEF g
    <3> QED BY <3>1, MovedBits
  <2>3. n = m * 2^k
    BY <1>4, <1>5 DEF t
  <2> QED BY <1>7, <2>1, <2>2, <2>3
<1>9. m < 2^w
  BY <1>1, <1>6
<1> DEFINE y == [n |-> m, d |-> 1, e |-> x.e + k]
<1>10. y.n = m /\ y.d = 1 /\ y.e = x.e + k /\ y = [n |-> y.n, d |-> 1, e |-> y.e]
  OBVIOUS
<1> HIDE DEF y
<1>11. Denotes(y, L, X)
  BY <1>1, <1>6, <1>7, <1>8, <1>9, <1>10 DEF Denotes
<1> QED BY <1>3, <1>6, <1>7, <1>10, <1>11 DEF Shortened, y, n

\* y holds the value of x in F + 3 bits.
FilledOut(f, x, y, L, X) ==
    Denotes(y, L, X) /\ HasBits(y.n, f.F + 3) /\ y.e >= x.e - (f.F + 2)

LEMMA FilledFills ==
    ASSUME NEW f, IsFormat(f), NEW x, NEW L, NEW X, Denotes(x, L, X), x.n >= 1, x.n < 2^(f.F + 1),
           L <= x.e - (f.F + 2)
    PROVE  FilledOut(f, x, Filled(f, x), L, X)
<1> DEFINE n == x.n
           b == BitLen(n)
           k == f.F + 3 - b
           g == x.e - L
<1>1. Reach /\ f.F \in Nat /\ f.F + 3 <= 2 * W64 /\ 2 * W64 \in Nat
  <2>1. Reach /\ f.F \in Nat /\ f.G \in Nat /\ f.G >= 6 /\ f.F + f.G + 2 <= W64 /\ W64 \in Nat
    BY FormatFacts DEF Reach
  <2> QED BY <2>1
<1>2. n \in Nat /\ x.e \in Int /\ L \in Int /\ g \in Nat /\ n < 2^(2 * W64)
  BY DEF Denotes
<1>3. HasBits(n, b)
  BY <1>1, <1>2, BitLenReach
<1>4. b \in Nat /\ b >= 1 /\ b <= f.F + 1
  <2>1. b \in Nat /\ b >= 1
    BY <1>3 DEF HasBits
  <2>2. 2^(b - 1) <= n
    BY <1>3 DEF HasBits
  <2>3. ~(b > f.F + 1)
    <3> SUFFICES ASSUME b > f.F + 1 PROVE FALSE
      OBVIOUS
    <3> HIDE DEF b
    <3>1. b - 1 \in Nat /\ f.F + 1 \in 0 .. b - 1
      BY <1>1, <2>1
    <3>2. 2^(f.F + 1) <= 2^(b - 1) /\ 2^(f.F + 1) \in Nat /\ 2^(b - 1) \in Nat
      BY <1>1, <3>1, PowerMonotone, PowerOfTwo
    <3> QED BY <1>2, <2>2, <3>2
  <2> HIDE DEF b
  <2> QED BY <1>1, <2>1, <2>3
<1>5. k \in Nat /\ k > 0 /\ b + k = f.F + 3 /\ k <= f.F + 2
  <2> HIDE DEF b
  <2> QED BY <1>1, <1>4
<1>6. Filled(f, x) = [n |-> n * 2^k, d |-> 1, e |-> x.e - k]
  BY <1>5 DEF Filled, Mag
<1> HIDE DEF b, k, n
<1>7. HasBits(n * 2^k, f.F + 3)
  <2>1. HasBits(n * 2^k, b + k)
    BY <1>2, <1>3, <1>5, BitsScaled
  <2> QED BY <1>5, <2>1
<1> DEFINE m == n * 2^k
<1>8. m \in Nat
  BY <1>2, <1>5, PowerOfTwo
<1>9. (x.e - k) - L = g - k /\ g - k \in Nat /\ k + (g - k) = g /\ L <= x.e - k /\ x.e - k \in Int /\ x.e - k >= x.e - (f.F + 2)
  BY <1>1, <1>2, <1>5
<1>10. X = m * 2^((x.e - k) - L)
  <2> HIDE DEF g
  <2>1. X = n * 2^g
    BY DEF Denotes, g, n
  <2> DEFINE j == g - k
  <2>3. j \in Nat /\ k + j = g /\ (x.e - k) - L = j
    BY <1>9
  <2> HIDE DEF j
  <2>2. (n * 2^k) * 2^j = n * 2^(k + j)
    <3>1. n \in Int /\ k \in Nat /\ j \in Nat
      BY <1>2, <1>5, <2>3
    <3> QED BY <3>1, MovedBits
  <2> QED BY <2>1, <2>2, <2>3
<1>11. m < 2^(2 * W64)
  <2>1. m < 2^(f.F + 3)
    BY <1>7 DEF HasBits
  <2>2. 2^(f.F + 3) <= 2^(2 * W64) /\ 2^(f.F + 3) \in Nat /\ 2^(2 * W64) \in Nat
    <3>1. f.F + 3 \in 0 .. 2 * W64 /\ f.F + 3 \in Nat
      BY <1>1
    <3> QED BY <1>1, <3>1, PowerMonotone, PowerOfTwo
  <2> HIDE DEF m
  <2> QED BY <1>8, <2>1, <2>2
<1> HIDE DEF m
<1> DEFINE y == [n |-> m, d |-> 1, e |-> x.e - k]
<1>12. y.n = m /\ y.d = 1 /\ y.e = x.e - k /\ y = [n |-> y.n, d |-> 1, e |-> y.e]
  OBVIOUS
<1> HIDE DEF y
<1>13. Denotes(y, L, X)
  BY <1>2, <1>8, <1>9, <1>10, <1>11, <1>12 DEF Denotes
<1>14. FilledOut(f, x, y, L, X)
  BY <1>7, <1>9, <1>12, <1>13 DEF FilledOut, m
<1> QED BY <1>6, <1>14 DEF y, m

LEMMA RoundedDenotes ==
    ASSUME NEW f, IsFormat(f), NEW c, NEW L, NEW C \in Nat, Denotes(c, L, C), c.n >= 1, L + (f.F + 3) <= c.e,
           NEW sign \in {0, 1}, NEW rm \in RoundingModes, NEW V \in Nat,
           V = C \/ (c.n >= 2^(f.F + 2) /\ Agree(C, V, 2^((c.e - L) + 1)))
    PROVE  Rounded(f, sign, c, rm) = ValueRounded(f, sign, L, V, rm)
<1> DEFINE g == c.e - L
           n == c.n
<1>1. Reach /\ f.F \in Nat /\ n \in Nat /\ n < 2^(2 * W64) /\ c.e \in Int /\ L \in Int /\ g \in Nat /\ g >= f.F + 3 /\ C = n * 2^g
  BY FormatFacts DEF Denotes
<1> HIDE DEF g, n
<1>2. HasBits(n, BitLen(n))
  BY <1>1, BitLenReach DEF n
<1> DEFINE b == BitLen(n)
           B == b + g
<1>3. HasBits(C, B) /\ b \in Nat /\ b >= 1 /\ B \in Nat /\ B >= f.F + 3
  <2>1. b \in Nat /\ b >= 1
    BY <1>2 DEF HasBits
  <2> HIDE DEF b
  <2>2. HasBits(n * 2^g, b + g)
    BY <1>1, <1>2, BitsScaled DEF b
  <2> QED BY <1>1, <2>1, <2>2
<1> HIDE DEF b
<1>4. Rounded(f, sign, c, rm) = RoundedAt(f, sign, L, B, C, rm)
  <2> HIDE DEF B
  <2> QED BY <1>3, RoundedIsAt
<1>5. CASE V = C
  <2> HIDE DEF B
  <2>1. ValueRounded(f, sign, L, C, rm) = RoundedAt(f, sign, L, B, C, rm)
    BY <1>3, ValueAt
  <2> QED BY <1>4, <1>5, <2>1
<1>6. CASE n >= 2^(f.F + 2) /\ Agree(C, V, 2^(g + 1))
  <2>1. b >= f.F + 3
    <3> SUFFICES ASSUME ~(b >= f.F + 3) PROVE FALSE
      OBVIOUS
    <3>1. f.F + 2 \in Nat /\ b \in 0 .. f.F + 2
      BY <1>1, <1>3
    <3>2. 2^b <= 2^(f.F + 2) /\ 2^b \in Nat /\ 2^(f.F + 2) \in Nat
      BY <1>3, <3>1, PowerMonotone, PowerOfTwo
    <3>3. n < 2^b
      BY <1>2 DEF HasBits, b
    <3> QED BY <1>1, <1>6, <3>2, <3>3
  <2>2. g + 1 \in Nat /\ B - f.F - 2 \in Nat /\ g + 1 <= B - f.F - 2 /\ g + 1 < B /\ B \in Nat \ {0}
    BY <1>1, <1>3, <2>1
  <2> DEFINE i == g + 1
             j == B - f.F - 2
  <2> HIDE DEF i, j, B
  <2>3. i \in Nat /\ j \in Nat /\ i <= j /\ i < B /\ Agree(C, V, 2^i)
    BY <1>6, <2>2 DEF i, j
  <2>4. Agree(C, V, 2^j)
    BY <2>3, AgreeAbove
  <2>5. HasBits(V, B)
    BY <1>3, <2>2, <2>3, AgreeBits
  <2>6. RoundedAt(f, sign, L, B, C, rm) = RoundedAt(f, sign, L, B, V, rm)
    BY <1>1, <1>3, <2>4, RoundedAgree DEF j
  <2>7. ValueRounded(f, sign, L, V, rm) = RoundedAt(f, sign, L, B, V, rm)
    BY <2>5, ValueAt
  <2> QED BY <1>4, <2>6, <2>7
<1> QED BY <1>5, <1>6 DEF g, n

\* c stands for the value V: it holds V, or an amount that rounds as V.
StandsFor(f, c, L, V) ==
    \E C \in Nat : /\ Denotes(c, L, C) /\ L + (f.F + 3) <= c.e /\ V \in Nat
                   /\ \/ V = C
                      \/ c.n >= 2^(f.F + 2) /\ Agree(C, V, 2^((c.e - L) + 1)) /\ V >= 1

LEMMA StandingRounds ==
    ASSUME NEW f, IsFormat(f), NEW c, NEW L, NEW V, StandsFor(f, c, L, V), NEW sign \in {0, 1}, NEW rm \in RoundingModes
    PROVE  /\ c.n = 0 <=> V = 0
           /\ V # 0 => Rounded(f, sign, c, rm) = ValueRounded(f, sign, L, V, rm)
<1>1. PICK C \in Nat : /\ Denotes(c, L, C) /\ L + (f.F + 3) <= c.e /\ V \in Nat
                       /\ \/ V = C
                          \/ c.n >= 2^(f.F + 2) /\ Agree(C, V, 2^((c.e - L) + 1)) /\ V >= 1
  BY DEF StandsFor
<1> DEFINE n == c.n
           t == 2^(c.e - L)
<1>2. n \in Nat /\ C = n * t /\ t \in Nat /\ t >= 1
  <2>1. n \in Nat /\ C = n * t /\ c.e - L \in Nat
    BY <1>1 DEF Denotes
  <2> QED BY <2>1, PowerOfTwo
<1>3. c.n = 0 <=> V = 0
  <2> HIDE DEF t
  <2>1. CASE V = C
    <3> HIDE DEF n
    <3>1. n = 0 => n * t = 0
      BY <1>2
    <3>2. n >= 1 => n * t >= 1
      BY <1>2
    <3>3. n = 0 <=> V = 0
      BY <1>2, <2>1, <3>1, <3>2
    <3> QED BY <3>3 DEF n
  <2>2. CASE n >= 2^(f.F + 2) /\ V >= 1
    <3>1. 2^(f.F + 2) \in Nat /\ 2^(f.F + 2) >= 1
      <4>1. f.F + 2 \in Nat
        BY FormatFacts
      <4> QED BY <4>1, PowerOfTwo
    <3> HIDE DEF n
    <3>2. n # 0 /\ V # 0
      BY <1>1, <1>2, <2>2, <3>1
    <3> QED BY <3>2 DEF n
  <2> QED BY <1>1, <2>1, <2>2
<1>4. ASSUME V # 0 PROVE Rounded(f, sign, c, rm) = ValueRounded(f, sign, L, V, rm)
  <2>1. c.n >= 1
    BY <1>2, <1>3, <1>4
  <2> QED BY <1>1, <2>1, RoundedDenotes
<1> QED BY <1>3, <1>4

\* The parts of a combination: x the larger and filled, y trimmed.
Parts(f, x, y, L, X, Y) ==
    /\ Denotes(x, L, X) /\ HasBits(x.n, f.F + 3) /\ L + (f.F + 4) <= x.e /\ X \in Nat
    /\ Denotes(y, L, Y) /\ y.n >= 1 /\ y.n < 2^(f.F + 1) /\ L + (f.F + 4) <= y.e /\ Y \in Nat
    /\ Y <= X

\* A combination of two numbers of a power's multiples.
LEMMA MakeDenotes ==
    ASSUME NEW n \in Nat, NEW e \in Int, NEW L \in Int, L <= e, n < 2^(2 * W64)
    PROVE  Denotes(Mag(n, 1, e), L, n * 2^(e - L))
<1> DEFINE y == [n |-> n, d |-> 1, e |-> e]
<1>1. y.n = n /\ y.d = 1 /\ y.e = e /\ y = [n |-> y.n, d |-> 1, e |-> y.e]
  OBVIOUS
<1> HIDE DEF y
<1>2. Denotes(y, L, n * 2^(e - L))
  BY <1>1 DEF Denotes
<1> QED BY <1>2 DEF y, Mag

LEMMA StandsExactly ==
    ASSUME NEW f, IsFormat(f), NEW n \in Nat, NEW e \in Int, NEW L \in Int, L + (f.F + 3) <= e,
           NEW k \in Nat, k <= 2 * W64, n < 2^k, NEW V, V = n * 2^(e - L)
    PROVE  StandsFor(f, Mag(n, 1, e), L, V)
<1>1. f.F \in Nat /\ W64 \in Nat /\ L <= e /\ e - L \in Nat /\ 2 * W64 \in Nat
  BY FormatFacts DEF Reach
<1>2. n < 2^(2 * W64)
  <2>1. 2^k <= 2^(2 * W64) /\ 2^k \in Nat /\ 2^(2 * W64) \in Nat
    <3>1. k \in 0 .. 2 * W64
      BY <1>1
    <3> QED BY <1>1, <3>1, PowerMonotone, PowerOfTwo
  <2> QED BY <2>1
<1>3. Denotes(Mag(n, 1, e), L, V)
  BY <1>1, <1>2, MakeDenotes
<1>4. V \in Nat
  <2>1. 2^(e - L) \in Nat
    BY <1>1, PowerOfTwo
  <2> QED BY <2>1
<1>5. Mag(n, 1, e).e = e
  BY DEF Mag
<1> QED BY <1>3, <1>4, <1>5 DEF StandsFor

LEMMA CommonUnit ==
    ASSUME NEW p \in Nat, NEW q \in Nat, NEW t \in Nat, t >= 1, q * t <= p * t
    PROVE  q <= p /\ (p + q) * t = p * t + q * t /\ (p - q) * t = p * t - q * t
<1>1. (p + q) * t = p * t + q * t /\ (p - q) * t = p * t - q * t
  OBVIOUS
<1>2. q <= p
  <2> SUFFICES ASSUME q > p PROVE FALSE
    OBVIOUS
  <2>1. q * t >= (p + 1) * t
    OBVIOUS
  <2>2. (p + 1) * t = p * t + t
    OBVIOUS
  <2>3. p * t \in Int /\ q * t \in Int
    OBVIOUS
  <2> QED BY <2>1, <2>2, <2>3
<1> QED BY <1>1, <1>2

\* Two magnitudes of one unit combine exactly.
LEMMA CombinedExactly ==
    ASSUME NEW f, IsFormat(f), NEW p \in Nat, NEW q \in Nat, NEW e \in Int, NEW L \in Int, L + (f.F + 3) <= e,
           NEW k \in Nat, k + 1 <= 2 * W64, p < 2^k, q < 2^k,
           NEW X, NEW Y, X = p * 2^(e - L), Y = q * 2^(e - L), Y <= X
    PROVE  StandsFor(f, Mag(p + q, 1, e), L, X + Y) /\ StandsFor(f, Mag(p - q, 1, e), L, X - Y)
<1> DEFINE t == 2^(e - L)
<1>1. t \in Nat /\ t >= 1
  <2>1. e - L \in Nat
    BY FormatFacts
  <2> QED BY <2>1, PowerOfTwo
<1>2. q <= p /\ (p + q) * t = X + Y /\ (p - q) * t = X - Y
  <2> HIDE DEF t
  <2>1. q * t <= p * t /\ X = p * t /\ Y = q * t
    BY DEF t
  <2> QED BY <1>1, <2>1, CommonUnit
<1>3. 2^(k + 1) = 2 * 2^k /\ 2^k \in Nat /\ k + 1 \in Nat
  BY PowerDoubles, PowerOfTwo
<1>4. p + q \in Nat /\ p - q \in Nat /\ p + q < 2^(k + 1) /\ p - q < 2^(k + 1)
  BY <1>2, <1>3
<1>5. StandsFor(f, Mag(p + q, 1, e), L, X + Y)
  <2> DEFINE n == p + q
             V == X + Y
  <2>1. n \in Nat /\ n < 2^(k + 1) /\ V = n * 2^(e - L)
    BY <1>2, <1>4
  <2> HIDE DEF n, V
  <2>2. StandsFor(f, Mag(n, 1, e), L, V)
    BY <1>3, <2>1, StandsExactly
  <2> QED BY <2>2 DEF n, V
<1>6. StandsFor(f, Mag(p - q, 1, e), L, X - Y)
  <2> DEFINE n == p - q
             V == X - Y
  <2>1. n \in Nat /\ n < 2^(k + 1) /\ V = n * 2^(e - L)
    BY <1>2, <1>4
  <2> HIDE DEF n, V
  <2>2. StandsFor(f, Mag(n, 1, e), L, V)
    BY <1>3, <2>1, StandsExactly
  <2> QED BY <2>2 DEF n, V
<1> QED BY <1>5, <1>6

\* Half a unit and any other part of a unit cannot be told apart.
LEMMA PartOfUnit ==
    ASSUME NEW n \in Nat, NEW h \in Nat, h >= 1, NEW U, U = 2 * h, NEW Y \in Nat, Y >= 1, Y < U
    PROVE  Agree(n * U + h, n * U + Y, U) /\ Agree(n * U - h, n * U - Y, U)
<1>1. U \in Nat \ {0} /\ U \in Nat /\ h < U /\ n \in Int /\ Y \in Int /\ h \in Int /\ 0 \in Int
  OBVIOUS
<1>2. \A r \in Nat : r >= 1 /\ r < U => r \div U = 0 /\ r % U = r
  <2> SUFFICES ASSUME NEW r \in Nat, r >= 1, r < U PROVE r \div U = 0 /\ r % U = r
    OBVIOUS
  <2>1. r = U * 0 + r /\ r \in Int
    BY <1>1
  <2> QED BY <1>1, <2>1, DivModUnique
<1>3. h \div U = 0 /\ h % U = h /\ Y \div U = 0 /\ Y % U = Y
  BY <1>1, <1>2
<1>4. Sticky(h, U) = 1 /\ Sticky(Y, U) = 1
  <2>1. h % U # 0 /\ Y % U # 0
    BY <1>3
  <2> QED BY <2>1 DEF Sticky
<1>5. Agree(h, Y, U)
  BY <1>3, <1>4 DEF Agree
<1> QED BY <1>1, <1>5, AgreeAdd, AgreeSub

LEMMA CombinedFar ==
    ASSUME NEW f, IsFormat(f), NEW n \in Nat, HasBits(n, f.F + 3), NEW e \in Int, NEW L \in Int, L + (f.F + 4) <= e,
           NEW X, NEW Y \in Nat, X = n * 2^(e - L), Y >= 1, Y < 2^(e - L)
    PROVE  StandsFor(f, Mag(2 * n + 1, 1, e - 1), L, X + Y) /\ StandsFor(f, Mag(2 * n - 1, 1, e - 1), L, X - Y)
<1> DEFINE U == 2^(e - L)
           h == 2^((e - 1) - L)
<1>1. f.F \in Nat /\ e - L \in Nat /\ (e - 1) - L \in Nat /\ ((e - 1) - L) + 1 = e - L /\ e - 1 \in Int /\ L + (f.F + 3) <= e - 1
      /\ L <= e - 1 /\ (e - L) - 1 = (e - 1) - L /\ e - L >= 1
  BY FormatFacts
<1>2. U = 2 * h /\ h \in Nat /\ h >= 1
  <2> DEFINE j == (e - 1) - L
  <2> HIDE DEF j
  <2>1. 2^(j + 1) = 2 * 2^j /\ 2^j \in Nat /\ 2^j >= 1
    BY <1>1, PowerDoubles, PowerOfTwo DEF j
  <2> QED BY <1>1, <2>1 DEF j
<1> DEFINE Q == 2^(f.F + 2)
<1>3. Q \in Nat /\ Q >= 4 /\ n >= Q /\ n < 2 * Q /\ 2^(f.F + 4) = 4 * Q
  <2>1. 2^(f.F + 3) = 2 * Q
    <3>0. f.F + 2 \in Nat /\ (f.F + 2) + 1 = f.F + 3
      BY <1>1
    <3>1. 2^((f.F + 2) + 1) = 2 * 2^(f.F + 2) /\ (f.F + 2) + 1 = f.F + 3
      BY <3>0, PowerDoubles
    <3> QED BY <3>1
  <2>2. 2^(f.F + 4) = 2 * 2^(f.F + 3)
    <3>0. f.F + 3 \in Nat /\ (f.F + 3) + 1 = f.F + 4
      BY <1>1
    <3>1. 2^((f.F + 3) + 1) = 2 * 2^(f.F + 3) /\ (f.F + 3) + 1 = f.F + 4
      BY <3>0, PowerDoubles
    <3> QED BY <3>1
  <2>3. Q = 2 * 2^(f.F + 1) /\ 2^(f.F + 1) = 2 * 2^f.F /\ 2^f.F \in Nat /\ 2^f.F >= 1
    <3>0. f.F + 1 \in Nat /\ (f.F + 1) + 1 = f.F + 2
      BY <1>1
    <3>1. 2^((f.F + 1) + 1) = 2 * 2^(f.F + 1) /\ (f.F + 1) + 1 = f.F + 2
      BY <3>0, PowerDoubles
    <3>2. 2^(f.F + 1) = 2 * 2^f.F /\ 2^f.F \in Nat /\ 2^f.F >= 1
      BY <1>1, PowerDoubles, PowerOfTwo
    <3> QED BY <3>1, <3>2
  <2>4. 2^((f.F + 3) - 1) <= n /\ n < 2^(f.F + 3) /\ (f.F + 3) - 1 = f.F + 2
    BY <1>1 DEF HasBits
  <2>5. Q \in Nat /\ Q >= 4
    BY <2>3
  <2>6. Q <= n
    BY <2>4
  <2> HIDE DEF Q
  <2> QED BY <2>1, <2>2, <2>4, <2>5, <2>6
<1>4. f.F + 4 \in Nat /\ f.F + 4 <= 2 * W64 /\ 2 * W64 \in Nat
  <2>1. Reach /\ f.F \in Nat /\ f.G \in Nat /\ f.G >= 6 /\ f.F + f.G + 2 <= W64 /\ W64 \in Nat
    BY FormatFacts DEF Reach
  <2> QED BY <2>1
<1>5. 4 * Q <= 2^(2 * W64) /\ 2^(2 * W64) \in Nat
  <2>1. f.F + 4 \in 0 .. 2 * W64
    BY <1>4
  <2>2. 2^(f.F + 4) <= 2^(2 * W64) /\ 2^(2 * W64) \in Nat
    BY <1>4, <2>1, PowerMonotone, PowerOfTwo
  <2> QED BY <1>3, <2>2
<1> HIDE DEF U, h, Q
<1>6. Agree(n * U + h, n * U + Y, U) /\ Agree(n * U - h, n * U - Y, U)
  <2>1. Y < U
    BY DEF U
  <2> QED BY <1>2, <2>1, PartOfUnit
<1>7. X = n * U /\ X \in Nat /\ X >= U /\ Y < U
  <2>1. X = n * U /\ Y < U
    BY DEF U
  <2>2. n >= 1
    BY <1>3
  <2> QED BY <1>2, <2>1, <2>2
<1> DEFINE p == 2 * n + 1
           m == 2 * n - 1
<1>8. p \in Nat /\ m \in Nat /\ p < 2^(2 * W64) /\ m < 2^(2 * W64) /\ p >= Q /\ m >= Q
  BY <1>3, <1>5
<1>9. p * h = n * U + h /\ m * h = n * U - h
  <2>1. (2 * n + 1) * h = n * (2 * h) + h /\ (2 * n - 1) * h = n * (2 * h) - h
    BY <1>2
  <2> QED BY <1>2, <2>1
<1>10. p * h \in Nat /\ m * h \in Nat
  BY <1>2, <1>8
<1> HIDE DEF p, m
<1>11. /\ Denotes(Mag(p, 1, e - 1), L, p * h) /\ Denotes(Mag(m, 1, e - 1), L, m * h)
       /\ Mag(p, 1, e - 1).e = e - 1 /\ Mag(m, 1, e - 1).e = e - 1 /\ Mag(p, 1, e - 1).n = p /\ Mag(m, 1, e - 1).n = m
  <2>1. Denotes(Mag(p, 1, e - 1), L, p * 2^((e - 1) - L)) /\ Denotes(Mag(m, 1, e - 1), L, m * 2^((e - 1) - L))
    BY <1>1, <1>8, MakeDenotes
  <2> QED BY <2>1 DEF Mag, h
<1>12. X + Y \in Nat /\ X - Y \in Nat /\ X + Y >= 1 /\ X - Y >= 1
  BY <1>2, <1>7
<1>13. 2^(((e - 1) - L) + 1) = U
  BY <1>1 DEF U
<1>14. Agree(p * h, X + Y, U) /\ Agree(m * h, X - Y, U)
  BY <1>6, <1>7, <1>9
<1>15. StandsFor(f, Mag(p, 1, e - 1), L, X + Y)
  <2> DEFINE c == Mag(p, 1, e - 1)
             C == p * h
             V == X + Y
  <2>1. C \in Nat /\ Denotes(c, L, C) /\ c.e = e - 1 /\ c.n = p /\ V \in Nat /\ V >= 1 /\ Agree(C, V, U)
    BY <1>10, <1>11, <1>12, <1>14
  <2> HIDE DEF c, C, V
  <2>2. Agree(C, V, 2^((c.e - L) + 1)) /\ c.n >= 2^(f.F + 2) /\ L + (f.F + 3) <= c.e
    BY <1>1, <1>8, <1>13, <2>1 DEF Q
  <2>3. StandsFor(f, c, L, V)
    BY <2>1, <2>2 DEF StandsFor
  <2> QED BY <2>3 DEF c, V
<1>16. StandsFor(f, Mag(m, 1, e - 1), L, X - Y)
  <2> DEFINE c == Mag(m, 1, e - 1)
             C == m * h
             V == X - Y
  <2>1. C \in Nat /\ Denotes(c, L, C) /\ c.e = e - 1 /\ c.n = m /\ V \in Nat /\ V >= 1 /\ Agree(C, V, U)
    BY <1>10, <1>11, <1>12, <1>14
  <2> HIDE DEF c, C, V
  <2>2. Agree(C, V, 2^((c.e - L) + 1)) /\ c.n >= 2^(f.F + 2) /\ L + (f.F + 3) <= c.e
    BY <1>1, <1>8, <1>13, <2>1 DEF Q
  <2>3. StandsFor(f, c, L, V)
    BY <2>1, <2>2 DEF StandsFor
  <2> QED BY <2>3 DEF c, V
<1> QED BY <1>15, <1>16 DEF p, m

\* What Combined returns for two parts.
CombinedParts(plus, x, y) ==
    LET d == x.e - y.e
        s(a, b) == IF plus THEN a + b ELSE a - b
    IN  IF d >= BitLen(y.n) THEN Mag(s(2 * x.n, 1), 1, x.e - 1)
        ELSE IF d >= 0 THEN Mag(s(x.n * 2^d, y.n), 1, y.e)
        ELSE Mag(s(x.n, y.n * 2^(-d)), 1, x.e)

LEMMA PartsStand ==
    ASSUME NEW f, IsFormat(f), NEW x, NEW y, NEW L, NEW X, NEW Y, Parts(f, x, y, L, X, Y), NEW plus \in BOOLEAN
    PROVE  StandsFor(f, CombinedParts(plus, x, y), L, IF plus THEN X + Y ELSE X - Y)
<1> DEFINE n == x.n
           m == y.n
           e == x.e
           v == y.e
           d == e - v
           b == BitLen(m)
<1>1. /\ n \in Nat /\ m \in Nat /\ e \in Int /\ v \in Int /\ L \in Int /\ L + (f.F + 4) <= e /\ L + (f.F + 4) <= v
      /\ X = n * 2^(e - L) /\ Y = m * 2^(v - L) /\ X \in Nat /\ Y \in Nat /\ Y <= X
      /\ HasBits(n, f.F + 3) /\ m >= 1 /\ m < 2^(f.F + 1) /\ m < 2^(2 * W64) /\ d \in Int
  BY DEF Parts, Denotes
<1>2. f.F \in Nat /\ W64 \in Nat /\ 2 * f.F + 6 <= 2 * W64 /\ Reach
  <2>1. Reach /\ f.F \in Nat /\ f.G \in Nat /\ f.G >= 6 /\ f.F + f.G + 2 <= W64 /\ W64 \in Nat
    BY FormatFacts DEF Reach
  <2> QED BY <2>1
<1> HIDE DEF n, m, e, v
<1>3. HasBits(m, b) /\ b \in Nat /\ b >= 1 /\ m < 2^b
  <2>1. HasBits(m, b)
    BY <1>1, <1>2, BitLenReach
  <2> QED BY <2>1 DEF HasBits
<1>4. b <= f.F + 1
  <2> SUFFICES ASSUME ~(b <= f.F + 1) PROVE FALSE
    OBVIOUS
  <2> HIDE DEF b
  <2>1. b - 1 \in Nat /\ f.F + 1 \in 0 .. b - 1
    BY <1>2, <1>3
  <2>2. 2^(f.F + 1) <= 2^(b - 1) /\ 2^(f.F + 1) \in Nat /\ 2^(b - 1) \in Nat
    BY <1>2, <2>1, PowerMonotone, PowerOfTwo
  <2>3. 2^(b - 1) <= m
    BY <1>3 DEF HasBits
  <2> QED BY <1>1, <2>2, <2>3
<1>5. n < 2^(f.F + 3) /\ 2^(f.F + 3) \in Nat /\ n >= 1
  <2>1. n < 2^(f.F + 3) /\ 2^((f.F + 3) - 1) <= n
    BY <1>1 DEF HasBits
  <2>2. (f.F + 3) - 1 \in Nat /\ f.F + 3 \in Nat
    BY <1>2
  <2>3. 2^((f.F + 3) - 1) \in Nat /\ 2^((f.F + 3) - 1) >= 1 /\ 2^(f.F + 3) \in Nat
    BY <2>2, PowerOfTwo
  <2> QED BY <1>1, <2>1, <2>3
<1> HIDE DEF b
<1>6. CASE d >= b
  <2>1. Y >= 1 /\ Y < 2^(e - L)
    <3> DEFINE g == v - L
               t == 2^g
    <3>1. g \in Nat /\ b + g \in Nat /\ b + g <= e - L /\ e - L \in Nat
      BY <1>1, <1>2, <1>3, <1>6 DEF d
    <3> HIDE DEF g, d
    <3>2. t \in Nat /\ t >= 1 /\ 2^(b + g) = 2^b * t /\ 2^(b + g) <= 2^(e - L) /\ 2^(e - L) \in Nat /\ 2^b \in Nat /\ 2^(b + g) \in Nat
      <4>1. b + g \in 0 .. (e - L)
        BY <3>1
      <4> QED BY <1>3, <3>1, <4>1, PowerOfTwo, PowerSum, PowerMonotone
    <3>3. Y = m * t
      BY <1>1 DEF g
    <3> HIDE DEF t
    <3> DEFINE T == 2^b
    <3> HIDE DEF T
    <3>4. T \in Nat /\ m < T
      BY <1>3, <3>2 DEF T
    <3>5. m * t < T * t /\ m * t >= 1
      BY <1>1, <3>2, <3>4
    <3> QED BY <1>1, <3>2, <3>3, <3>5 DEF T
  <2>2. StandsFor(f, Mag(2 * n + 1, 1, e - 1), L, X + Y) /\ StandsFor(f, Mag(2 * n - 1, 1, e - 1), L, X - Y)
    BY <1>1, <2>1, CombinedFar
  <2>3. CombinedParts(plus, x, y) = IF plus THEN Mag(2 * n + 1, 1, e - 1) ELSE Mag(2 * n - 1, 1, e - 1)
    BY <1>6 DEF CombinedParts, n, e, d, b, m, v
  <2> QED BY <2>2, <2>3
<1>7. CASE d >= 0 /\ ~(d >= b)
  <2> DEFINE p == n * 2^d
             g == v - L
             k == 2 * f.F + 4
  <2>1. d \in Nat /\ d <= f.F /\ g \in Nat /\ d + g = e - L /\ k \in Nat /\ k + 1 <= 2 * W64 /\ L + (f.F + 3) <= v
    BY <1>1, <1>2, <1>3, <1>4, <1>7
  <2>2. CombinedParts(plus, x, y) = IF plus THEN Mag(p + m, 1, v) ELSE Mag(p - m, 1, v)
    BY <1>7 DEF CombinedParts, n, e, d, b, m, v
  <2> HIDE DEF d
  <2>3. X = p * 2^(v - L)
    <3>1. n \in Int /\ d \in Nat /\ g \in Nat
      BY <1>1, <2>1
    <3> HIDE DEF g
    <3>2. (n * 2^d) * 2^g = n * 2^(d + g)
      BY <3>1, MovedBits
    <3> QED BY <1>1, <2>1, <3>2 DEF g
  <2>4. p \in Nat /\ p < 2^k
    <3> DEFINE T == 2^d
               R == 2^(f.F + 3)
    <3>1. T \in Nat /\ T >= 1 /\ R \in Nat /\ 2^((f.F + 3) + d) = R * T
      <4>1. f.F + 3 \in Nat
        BY <1>2
      <4> QED BY <2>1, <4>1, PowerOfTwo, PowerSum
    <3>2. (f.F + 3) + d \in 0 .. k
      BY <1>2, <2>1
    <3> DEFINE j == (f.F + 3) + d
    <3> HIDE DEF k, j
    <3>3. 2^j <= 2^k /\ 2^j \in Nat /\ 2^k \in Nat
      <4>1. j \in 0 .. k /\ j \in Nat
        BY <2>1, <3>2 DEF j
      <4> QED BY <2>1, <4>1, PowerMonotone, PowerOfTwo
    <3>4. n < R
      BY <1>5
    <3> HIDE DEF T, R
    <3>5. n * T < R * T /\ n * T \in Nat
      BY <1>1, <3>1, <3>4
    <3> QED BY <3>1, <3>3, <3>5 DEF T, j
  <2>5. m < 2^k
    <3>1. f.F + 1 \in 0 .. k /\ f.F + 1 \in Nat
      BY <1>2
    <3> HIDE DEF k
    <3>2. 2^(f.F + 1) <= 2^k /\ 2^(f.F + 1) \in Nat /\ 2^k \in Nat
      BY <2>1, <3>1, PowerMonotone, PowerOfTwo
    <3> QED BY <1>1, <3>2
  <2> HIDE DEF k, p
  <2>6. StandsFor(f, Mag(p + m, 1, v), L, X + Y) /\ StandsFor(f, Mag(p - m, 1, v), L, X - Y)
    BY <1>1, <2>1, <2>3, <2>4, <2>5, CombinedExactly
  <2> QED BY <2>2, <2>6
<1>8. CASE ~(d >= 0)
  <2> DEFINE q == m * 2^(-d)
             g == e - L
             k == f.F + 3
  <2>1. -d \in Nat /\ g \in Nat /\ (-d) + g = v - L /\ k \in Nat /\ k + 1 <= 2 * W64 /\ L + (f.F + 3) <= e /\ ~(d >= b)
    BY <1>1, <1>2, <1>3, <1>8
  <2>2. CombinedParts(plus, x, y) = IF plus THEN Mag(n + q, 1, e) ELSE Mag(n - q, 1, e)
    BY <1>8, <2>1 DEF CombinedParts, n, e, d, b, m, v
  <2>3. Y = q * 2^(e - L)
    <3> DEFINE i == -d
    <3>1. m \in Int /\ i \in Nat /\ g \in Nat /\ i + g = v - L
      BY <1>1, <2>1
    <3> HIDE DEF g, i, d
    <3>2. (m * 2^i) * 2^g = m * 2^(i + g)
      BY <3>1, MovedBits
    <3> QED BY <1>1, <3>1, <3>2 DEF g, i
  <2>4. q \in Nat
    <3> DEFINE i == -d
    <3>1. i \in Nat
      BY <2>1
    <3> HIDE DEF i, d
    <3>2. 2^i \in Nat
      BY <3>1, PowerOfTwo
    <3> QED BY <1>1, <3>2 DEF i
  <2> DEFINE t == 2^(e - L)
  <2>5. t \in Nat /\ t >= 1
    <3> HIDE DEF d
    <3> QED BY <2>1, PowerOfTwo
  <2> HIDE DEF d, q, t
  <2>6. q <= n
    <3>1. q * t <= n * t
      BY <1>1, <2>3 DEF t
    <3> QED BY <1>1, <2>4, <2>5, <3>1, CommonUnit
  <2>7. q < 2^k
    BY <1>1, <1>5, <2>4, <2>6
  <2>8. n < 2^k
    BY <1>5
  <2> HIDE DEF k
  <2>9. StandsFor(f, Mag(n + q, 1, e), L, X + Y) /\ StandsFor(f, Mag(n - q, 1, e), L, X - Y)
    BY <1>1, <2>1, <2>3, <2>4, <2>7, <2>8, CombinedExactly
  <2> QED BY <2>2, <2>9
<1> QED BY <1>6, <1>7, <1>8

LEMMA MagReach ==
    ASSUME NEW f, IsFormat(f), NEW ui \in Word(f)
    PROVE  LET x == MagOf(f, ui)
           IN  /\ x.n \in Nat /\ x.n < 2^(f.F + 1) /\ x.e \in Int /\ Floor(f) + (2 * f.F + 6) <= x.e
               /\ x.n = 0 <=> Units(f, ui) = 0
<1> DEFINE x == MagOf(f, ui)
           L == Floor(f)
           t == 2^(x.e - L)
<1>1. Denotes(x, L, Units(f, ui))
  BY MagUnits
<1>2. x.n \in Nat /\ x.e \in Int /\ L \in Int /\ Units(f, ui) = x.n * t /\ x.e - L \in Nat
  BY <1>1 DEF Denotes
<1>3. t \in Nat /\ t >= 1
  <2> HIDE DEF x, L
  <2> QED BY <1>2, PowerOfTwo
<1>4. x.n = 0 <=> Units(f, ui) = 0
  <2> DEFINE n == x.n
  <2>1. n \in Nat /\ Units(f, ui) = n * t
    BY <1>2
  <2> HIDE DEF t, x, n
  <2>2. n >= 1 => n * t >= 1
    BY <1>3, <2>1
  <2>3. n = 0 <=> Units(f, ui) = 0
    BY <1>3, <2>1, <2>2
  <2> QED BY <2>3 DEF n
<1>5. x = [n |-> Significand(f, ui), d |-> 1, e |-> Exponent(f, ui) - Bias(f) - f.F]
  BY MagOfFields
<1>6. x.n = Significand(f, ui) /\ x.e = Exponent(f, ui) - Bias(f) - f.F
  BY <1>5
<1>7. x.n < 2^(f.F + 1)
  <2>1. SignificandLength(f, ui) /\ Fielded(f, ui)
    BY SignificandBits, Fields
  <2>2. 2^f.F \in Nat /\ 2^(f.F + 1) = 2 * 2^f.F
    BY GuardSizes
  <2>3. fracUI(f, ui) \in 0 .. 2^f.F - 1
    BY <2>1 DEF Fielded
  <2>4. Significand(f, ui) = fracUI(f, ui) + 2^f.F \/ Significand(f, ui) = fracUI(f, ui)
    BY <2>1 DEF SignificandLength
  <2> DEFINE P == 2^f.F
             y == fracUI(f, ui)
             g == Significand(f, ui)
  <2> HIDE DEF P, y, g, x
  <2>5. g < 2 * P
    BY <2>2, <2>3, <2>4 DEF P, y, g
  <2> QED BY <1>6, <2>2, <2>5 DEF P, g
<1>8. L + (2 * f.F + 6) <= x.e
  <2>1. L = (1 - Bias(f) - f.F - f.G) - (2 * (f.F + f.G + 2))
    BY SlackSize DEF Floor, Base
  <2>2. f.F \in Nat /\ f.G \in Nat /\ f.G >= 6 /\ Bias(f) \in Int
    BY FormatFacts
  <2>3. Exponent(f, ui) \in Int /\ Exponent(f, ui) >= 1
    <3>1. expUI(f, ui) \in Nat
      BY Leads
    <3> QED BY <3>1 DEF Exponent
  <2> HIDE DEF L, x
  <2> QED BY <1>6, <2>1, <2>2, <2>3
<1> QED BY <1>2, <1>4, <1>7, <1>8

LEMMA CombinedStands ==
    ASSUME NEW f, IsFormat(f), NEW a \in Word(f), NEW b \in Word(f), NEW plus \in BOOLEAN,
           Units(f, b) # 0, Units(f, b) <= Units(f, a)
    PROVE  StandsFor(f, Combined(f, plus, MagOf(f, a), MagOf(f, b)), Floor(f),
                     IF plus THEN Units(f, a) + Units(f, b) ELSE Units(f, a) - Units(f, b))
<1> DEFINE x0 == MagOf(f, a)
           y0 == MagOf(f, b)
           x1 == Trimmed(x0)
           x  == Filled(f, x1)
           y  == Trimmed(y0)
           L  == Floor(f)
           X  == Units(f, a)
           Y  == Units(f, b)
<1>1. Reach /\ f.F \in Nat
  BY FormatFacts
<1>2. Denotes(x0, L, X) /\ Denotes(y0, L, Y) /\ X \in Nat /\ Y \in Nat
  BY MagUnits
<1>3. /\ x0.n \in Nat /\ x0.n < 2^(f.F + 1) /\ x0.e \in Int /\ L + (2 * f.F + 6) <= x0.e
      /\ y0.n \in Nat /\ y0.n < 2^(f.F + 1) /\ y0.e \in Int /\ L + (2 * f.F + 6) <= y0.e
      /\ x0.n = 0 <=> X = 0
      /\ y0.n = 0 <=> Y = 0
  BY MagReach
<1>4. x0.n >= 1 /\ y0.n >= 1 /\ L \in Int
  <2>1. X # 0 /\ Y # 0
    BY <1>2
  <2>2. x0.n # 0 /\ y0.n # 0 /\ L \in Int
    BY <1>3, <2>1, SlackSize
  <2> HIDE DEF x0, y0, L
  <2> QED BY <1>3, <2>2
<1>9. 2^(f.F + 1) \in Nat
  BY GuardSizes
<1> HIDE DEF x0, y0, L, X, Y
<1>5. Shortened(x0, x1, L, X) /\ Shortened(y0, y, L, Y)
  BY <1>1, <1>2, <1>4, TrimmedShort
<1>6. /\ Denotes(x1, L, X) /\ x1.n >= 1 /\ x1.n < 2^(f.F + 1) /\ L <= x1.e - (f.F + 2) /\ x1.e \in Int /\ L + (2 * f.F + 6) <= x1.e
      /\ Denotes(y, L, Y) /\ y.n >= 1 /\ y.n < 2^(f.F + 1) /\ L + (f.F + 4) <= y.e
  <2> HIDE DEF x1, y
  <2>1. /\ Denotes(x1, L, X) /\ x1.n >= 1 /\ x1.n <= x0.n /\ x1.e >= x0.e
        /\ Denotes(y, L, Y) /\ y.n >= 1 /\ y.n <= y0.n /\ y.e >= y0.e
    BY <1>5 DEF Shortened
  <2>2. x1.n \in Nat /\ x1.e \in Int /\ y.n \in Nat /\ y.e \in Int
    BY <2>1 DEF Denotes
  <2> QED BY <1>1, <1>3, <1>4, <1>9, <2>1, <2>2
<1> HIDE DEF x1, y
<1>7. FilledOut(f, x1, x, L, X)
  BY <1>6, FilledFills
<1> HIDE DEF x
<1>8. Parts(f, x, y, L, X, Y)
  <2>1. Denotes(x, L, X) /\ HasBits(x.n, f.F + 3) /\ x.e >= x1.e - (f.F + 2)
    BY <1>7 DEF FilledOut
  <2>2. x.e \in Int
    BY <2>1 DEF Denotes
  <2>3. L + (f.F + 4) <= x.e
    BY <1>1, <1>4, <1>6, <2>1, <2>2
  <2>4. Y <= X
    BY DEF X, Y
  <2> QED BY <1>2, <1>6, <2>1, <2>3, <2>4 DEF Parts
<1>10. StandsFor(f, CombinedParts(plus, x, y), L, IF plus THEN X + Y ELSE X - Y)
  BY <1>8, PartsStand
<1>11. Combined(f, plus, x0, y0) = CombinedParts(plus, x, y)
  BY DEF Combined, CombinedParts, x, y, x1
<1>12. StandsFor(f, Combined(f, plus, x0, y0), L, IF plus THEN X + Y ELSE X - Y)
  BY <1>10, <1>11
<1> QED BY <1>12 DEF x0, y0, L, X, Y

LEMMA LargerUnits ==
    ASSUME NEW f, IsFormat(f), NEW a \in Word(f), NEW b \in Word(f)
    PROVE  Larger(MagOf(f, a), MagOf(f, b)) <=> Units(f, b) <= Units(f, a)
<1> DEFINE P  == 2^f.F
           ea == expUI(f, a)
           eb == expUI(f, b)
           x  == fracUI(f, a)
           y  == fracUI(f, b)
<1>1. Larger(MagOf(f, a), MagOf(f, b)) <=> Magnitude(f, a) >= Magnitude(f, b)
  BY LargerIsAbove
<1>2. /\ P \in Nat /\ P >= 2 /\ ea \in Nat /\ eb \in Nat /\ x \in 0 .. P - 1 /\ y \in 0 .. P - 1
      /\ Units(f, a) \in Nat /\ Units(f, b) \in Nat
      /\ Magnitude(f, a) = ea * P + x /\ Magnitude(f, b) = eb * P + y
  <2>1. Fielded(f, a) /\ Fielded(f, b) /\ P \in Nat /\ P >= 2 /\ ea \in Nat /\ eb \in Nat
    BY Fields, Sizes, Leads
  <2> QED BY <2>1, MagUnits DEF Fielded, Magnitude
<1>3. \A i, j \in Nat, u, v \in 0 .. P - 1 : i > j => i * P + u > j * P + v
  <2> HIDE DEF P
  <2> SUFFICES ASSUME NEW i \in Nat, NEW j \in Nat, NEW u \in 0 .. P - 1, NEW v \in 0 .. P - 1, i > j
               PROVE  i * P + u > j * P + v
    OBVIOUS
  <2>1. i * P >= (j + 1) * P
    BY <1>2
  <2>2. (j + 1) * P = j * P + P /\ j * P \in Int /\ i * P \in Int
    BY <1>2
  <2> QED BY <1>2, <2>1, <2>2
<1>4. CASE ea > eb
  <2>1. Magnitude(f, a) > Magnitude(f, b)
    <3> HIDE DEF ea, eb, x, y, P
    <3> QED BY <1>2, <1>3, <1>4
  <2>2. Units(f, b) < Units(f, a)
    <3>1. 0 \in {0, 1} /\ "RTE" \in RoundingModes
      BY DEF RoundingModes
    <3> QED BY <1>4, <3>1, SubApart
  <2>3. Magnitude(f, a) \in Int /\ Magnitude(f, b) \in Int
    <3> HIDE DEF ea, eb, x, y, P
    <3> QED BY <1>2
  <2> QED BY <1>1, <1>2, <2>1, <2>2, <2>3
<1>5. CASE ea < eb
  <2>1. Magnitude(f, a) < Magnitude(f, b)
    <3> HIDE DEF ea, eb, x, y, P
    <3> QED BY <1>2, <1>3, <1>5
  <2>2. Units(f, a) < Units(f, b)
    <3>1. 0 \in {0, 1} /\ "RTE" \in RoundingModes
      BY DEF RoundingModes
    <3> QED BY <1>5, <3>1, SubApart
  <2>3. Magnitude(f, a) \in Int /\ Magnitude(f, b) \in Int
    <3> HIDE DEF ea, eb, x, y, P
    <3> QED BY <1>2
  <2> QED BY <1>1, <1>2, <2>1, <2>2, <2>3
<1>6. CASE ea = eb
  <2>1. Magnitude(f, a) >= Magnitude(f, b) <=> x >= y
    <3> DEFINE z == ea * P
    <3> HIDE DEF ea, eb, x, y, P
    <3>1. z \in Int /\ eb * P = z
      BY <1>2, <1>6
    <3> QED BY <1>2, <3>1
  <2> DEFINE h == HiddenBit(f, a)
             j == LowExp(f, a) + Slack(f) + f.G
             t == 2^j
  <2>2. Units(f, a) = (x + h) * t /\ Units(f, b) = (y + h) * t /\ h \in Nat /\ j \in Nat
    <3>1. LowExp(f, b) = LowExp(f, a) /\ HiddenBit(f, b) = h
      BY <1>6 DEF LowExp, HiddenBit
    <3> QED BY <3>1, UnitsLow, FormatFacts, SlackSize
  <2>3. t \in Nat /\ t >= 1
    <3> HIDE DEF j
    <3> QED BY <2>2, PowerOfTwo
  <2>4. x \in Nat /\ y \in Nat
    BY <1>2
  <2> HIDE DEF t, h, x, y
  <2>5. (x + h) * t < (y + h) * t <=> x < y
    BY <2>2, <2>3, <2>4, ScaledOrder
  <2> QED BY <1>1, <1>2, <2>1, <2>2, <2>4, <2>5
<1> QED BY <1>2, <1>4, <1>5, <1>6

LEMMA SumSpecFinite ==
    ASSUME NEW f, IsFormat(f), NEW a \in Word(f), NEW b \in Word(f),
           NEW sx \in {0, 1}, NEW sy \in {0, 1}, NEW rm \in RoundingModes
    PROVE  /\ sx = sy => Total(f, Units(f, a), Units(f, b), sx, rm,
                               SumSpec(f, sx, MagOf(f, a), sy, MagOf(f, b), rm))
           /\ sx # sy => Difference(f, Units(f, a), Units(f, b), sx, rm,
                                    SumSpec(f, sx, MagOf(f, a), sy, MagOf(f, b), rm))
<1> DEFINE x == MagOf(f, a)
           y == MagOf(f, b)
           L == Floor(f)
           X == Units(f, a)
           Y == Units(f, b)
           plus == sx = sy
           down == IF rm = "RDN" THEN 1 ELSE 0
           r == SumSpec(f, sx, x, sy, y, rm)
<1>1. X \in Nat /\ Y \in Nat /\ Denotes(x, L, X) /\ Denotes(y, L, Y)
  BY MagUnits
<1>2. /\ x.n = 0 <=> X = 0
      /\ y.n = 0 <=> Y = 0
      /\ x.n \in Nat /\ y.n \in Nat /\ L + (f.F + 3) <= x.e /\ L + (f.F + 3) <= y.e
  <2>1. /\ x.n = 0 <=> X = 0
        /\ y.n = 0 <=> Y = 0
        /\ x.n \in Nat /\ y.n \in Nat /\ L + (2 * f.F + 6) <= x.e /\ L + (2 * f.F + 6) <= y.e
        /\ x.e \in Int /\ y.e \in Int
    BY MagReach
  <2>2. L \in Int /\ f.F \in Nat
    BY SlackSize, FormatFacts
  <2> HIDE DEF x, y, L, X, Y
  <2> QED BY <2>1, <2>2
<1>3. plus \in BOOLEAN /\ (~plus => sy = 1 - sx) /\ (plus => sx = sy)
  OBVIOUS
<1>4. Larger(x, y) <=> Y <= X
  BY LargerUnits
<1>5. X # 0 => Rounded(f, sx, x, rm) = ValueRounded(f, sx, L, X, rm)
  <2> SUFFICES ASSUME X # 0 PROVE Rounded(f, sx, x, rm) = ValueRounded(f, sx, L, X, rm)
    OBVIOUS
  <2> HIDE DEF x, L, X, Y, y
  <2>1. x.n >= 1
    BY <1>2
  <2> QED BY <1>1, <1>2, <2>1, RoundedDenotes
<1>6. Y # 0 => Rounded(f, sy, y, rm) = ValueRounded(f, sy, L, Y, rm)
  <2> SUFFICES ASSUME Y # 0 PROVE Rounded(f, sy, y, rm) = ValueRounded(f, sy, L, Y, rm)
    OBVIOUS
  <2> HIDE DEF x, L, X, Y, y
  <2>1. y.n >= 1
    BY <1>2
  <2> QED BY <1>1, <1>2, <2>1, RoundedDenotes
<1> DEFINE c == Combined(f, plus, x, y)
           k == Combined(f, plus, y, x)
<1>7. Y # 0 /\ Y <= X => StandsFor(f, c, L, IF plus THEN X + Y ELSE X - Y)
  <2> HIDE DEF plus
  <2> QED BY <1>3, CombinedStands
<1>8. X # 0 /\ X <= Y => StandsFor(f, k, L, IF plus THEN Y + X ELSE Y - X)
  <2> HIDE DEF plus
  <2> QED BY <1>3, CombinedStands
<1>9. /\ X = 0 /\ Y = 0 => r = Exact(ZeroOf(f, IF plus THEN sx ELSE down))
      /\ X # 0 /\ Y = 0 => r = Rounded(f, sx, x, rm)
      /\ X = 0 /\ Y # 0 => r = Rounded(f, sy, y, rm)
      /\ X # 0 /\ Y # 0 /\ Y <= X => r = IF c.n = 0 THEN Exact(ZeroOf(f, down)) ELSE Rounded(f, sx, c, rm)
      /\ X # 0 /\ Y # 0 /\ ~(Y <= X) => r = IF k.n = 0 THEN Exact(ZeroOf(f, down)) ELSE Rounded(f, sy, k, rm)
  <2> HIDE DEF x, y, X, Y
  <2> QED BY <1>2, <1>4 DEF SumSpec
<1> HIDE DEF x, y, L, X, Y, r, c, k, plus
<1>10. CASE plus
  <2>1. Total(f, X, Y, sx, rm, r)
    <3>1. CASE X = 0 /\ Y = 0
      <4>1. X + Y = 0 /\ r = Exact(ZeroOf(f, sx))
        BY <1>9, <1>10, <3>1
      <4> QED BY <4>1 DEF Total
    <3>2. CASE X # 0 /\ Y = 0
      <4>1. X + Y = X /\ r = ValueRounded(f, sx, L, X, rm)
        BY <1>1, <1>5, <1>9, <3>2
      <4> QED BY <3>2, <4>1 DEF Total, L
    <3>3. CASE X = 0 /\ Y # 0
      <4>1. X + Y = Y /\ r = ValueRounded(f, sx, L, Y, rm)
        BY <1>1, <1>3, <1>6, <1>9, <1>10, <3>3
      <4> QED BY <3>3, <4>1 DEF Total, L
    <3>4. CASE X # 0 /\ Y # 0 /\ Y <= X
      <4> DEFINE V == X + Y
      <4>1. V # 0 /\ V \in Nat
        BY <1>1, <3>4
      <4>2. StandsFor(f, c, L, V)
        BY <1>7, <1>10, <3>4
      <4> HIDE DEF V
      <4>3. c.n # 0 /\ Rounded(f, sx, c, rm) = ValueRounded(f, sx, L, V, rm)
        BY <4>1, <4>2, StandingRounds
      <4>4. r = ValueRounded(f, sx, L, V, rm)
        BY <1>9, <3>4, <4>3
      <4> QED BY <4>1, <4>4 DEF Total, L, V
    <3>5. CASE X # 0 /\ Y # 0 /\ ~(Y <= X)
      <4> DEFINE V == Y + X
      <4>1. V # 0 /\ V \in Nat /\ X <= Y /\ V = X + Y
        BY <1>1, <3>5
      <4>2. StandsFor(f, k, L, V)
        BY <1>8, <1>10, <3>5, <4>1
      <4> HIDE DEF V
      <4>3. k.n # 0 /\ Rounded(f, sy, k, rm) = ValueRounded(f, sy, L, V, rm)
        BY <4>1, <4>2, StandingRounds
      <4>4. r = ValueRounded(f, sx, L, V, rm)
        BY <1>3, <1>9, <1>10, <3>5, <4>3
      <4> QED BY <4>1, <4>4 DEF Total, L
    <3> QED BY <3>1, <3>2, <3>3, <3>4, <3>5
  <2> QED BY <1>10, <2>1 DEF plus, r, X, Y, x, y
<1>11. CASE ~plus
  <2>1. Difference(f, X, Y, sx, rm, r)
    <3>1. CASE X = 0 /\ Y = 0
      <4>1. X = Y /\ r = Exact(ZeroOf(f, down)) /\ ~(X > Y) /\ ~(X < Y)
        BY <1>1, <1>9, <1>11, <3>1
      <4> QED BY <4>1 DEF Difference
    <3>2. CASE X # 0 /\ Y = 0
      <4>1. X - Y = X /\ r = ValueRounded(f, sx, L, X, rm) /\ ~(X < Y) /\ X # Y
        BY <1>1, <1>5, <1>9, <3>2
      <4> QED BY <4>1 DEF Difference, L
    <3>3. CASE X = 0 /\ Y # 0
      <4>1. Y - X = Y /\ r = ValueRounded(f, 1 - sx, L, Y, rm) /\ ~(X > Y) /\ X # Y
        BY <1>1, <1>3, <1>6, <1>9, <1>11, <3>3
      <4> QED BY <4>1 DEF Difference, L
    <3>4. CASE X # 0 /\ Y # 0 /\ Y <= X
      <4> DEFINE V == X - Y
      <4>1. V \in Nat /\ (V = 0 <=> X = Y) /\ ~(X < Y) /\ (X > Y => V # 0)
        BY <1>1, <3>4
      <4>2. StandsFor(f, c, L, V)
        BY <1>7, <1>11, <3>4
      <4> HIDE DEF V
      <4>3. /\ c.n = 0 <=> V = 0
            /\ V # 0 => Rounded(f, sx, c, rm) = ValueRounded(f, sx, L, V, rm)
        BY <4>1, <4>2, StandingRounds
      <4>4. r = IF V = 0 THEN Exact(ZeroOf(f, down)) ELSE ValueRounded(f, sx, L, V, rm)
        BY <1>9, <3>4, <4>3
      <4> QED BY <4>1, <4>4 DEF Difference, L, V
    <3>5. CASE X # 0 /\ Y # 0 /\ ~(Y <= X)
      <4> DEFINE V == Y - X
      <4>1. V # 0 /\ V \in Nat /\ X <= Y /\ X < Y /\ ~(X > Y) /\ X # Y
        BY <1>1, <3>5
      <4>2. StandsFor(f, k, L, V)
        BY <1>8, <1>11, <3>5, <4>1
      <4> HIDE DEF V
      <4>3. k.n # 0 /\ Rounded(f, sy, k, rm) = ValueRounded(f, sy, L, V, rm)
        BY <4>1, <4>2, StandingRounds
      <4>4. r = ValueRounded(f, 1 - sx, L, V, rm)
        BY <1>3, <1>9, <1>11, <3>5, <4>3
      <4> QED BY <4>1, <4>4 DEF Difference, L, V
    <3> QED BY <3>1, <3>2, <3>3, <3>4, <3>5
  <2> QED BY <1>11, <2>1 DEF plus, r, X, Y, x, y
<1> QED BY <1>10, <1>11

\* A sum and a difference of magnitudes have one outcome.
LEMMA OneTotal ==
    ASSUME NEW f, NEW U, NEW V, NEW sign, NEW rm, NEW r, NEW q,
           Total(f, U, V, sign, rm, r), Total(f, U, V, sign, rm, q)
    PROVE  r = q
BY DEF Total

LEMMA OneDifference ==
    ASSUME NEW f, NEW U \in Nat, NEW V \in Nat, NEW sign, NEW rm, NEW r, NEW q,
           Difference(f, U, V, sign, rm, r), Difference(f, U, V, sign, rm, q)
    PROVE  r = q
<1>1. U > V \/ U < V \/ U = V
  OBVIOUS
<1> QED BY <1>1 DEF Difference

------------------------------------------------------------------------------
(* Infinities, NaNs and the four operations *)

LEMMA NaNsPropagate ==
    ASSUME NEW f, NEW a, NEW b
    PROVE  NaNOf(f, {a, b}) = propagateNaN(f, a, b)
<1>1. (\E ui \in {a, b} : isSigNaN(f, ui)) <=> isSigNaN(f, a) \/ isSigNaN(f, b)
  OBVIOUS
<1> QED BY <1>1 DEF NaNOf, propagateNaN, Invalid, Exact

LEMMA InfinityWord ==
    ASSUME NEW f, IsFormat(f), NEW a \in Word(f), IsInf(f, a)
    PROVE  a = Infinity(f, signUI(f, a))
<1> DEFINE s == signUI(f, a)
           R == 2^(f.E + f.F)
           P == 2^f.F
           M == ExpMax(f)
<1>1. s \in {0, 1} /\ R \in Nat /\ P \in Nat /\ M \in Nat /\ a = s * R + (M * P + 0)
  <2>1. Fielded(f, a) /\ R \in Nat /\ P \in Nat /\ M \in Nat
    BY Fields, Sizes, FormatFacts
  <2> QED BY <2>1 DEF Fielded, Magnitude, IsInf, IsSpecial
<1>2. Infinity(f, s) = s * R + M * P + 0
  BY DEF Infinity, packToUI
<1> HIDE DEF s, R, P, M
<1>3. s * R \in Nat /\ M * P \in Nat
  BY <1>1
<1>4. a = Infinity(f, s)
  BY <1>1, <1>2, <1>3
<1> QED BY <1>4 DEF s

\* The exponents of two operands, one of them special.
LEMMA SpecialExponents ==
    ASSUME NEW f, IsFormat(f), NEW a \in Word(f), NEW b \in Word(f)
    PROVE  /\ expUI(f, a) \in Nat /\ expUI(f, b) \in Nat /\ ExpMax(f) \in Nat /\ ExpMax(f) # 0
           /\ IsSpecial(f, a) /\ ~IsSpecial(f, b) => expUI(f, a) > expUI(f, b) /\ expUI(f, a) - expUI(f, b) # 0
           /\ ~IsSpecial(f, a) /\ IsSpecial(f, b) => /\ ~(expUI(f, a) > expUI(f, b))
                                                     /\ expUI(f, b) - expUI(f, a) # 0
           /\ IsSpecial(f, a) /\ IsSpecial(f, b) => /\ ~(expUI(f, a) > expUI(f, b))
                                                    /\ expUI(f, b) - expUI(f, a) = 0
<1>1. ExpMax(f) \in Nat /\ ExpMax(f) >= 3
  BY FormatFacts
<1>2. expUI(f, a) \in 0 .. ExpMax(f) /\ expUI(f, b) \in 0 .. ExpMax(f)
  BY Fields DEF Fielded
<1> QED BY <1>1, <1>2 DEF IsSpecial

LEMMA AddSpecial ==
    ASSUME NEW f, IsFormat(f), NEW a \in Word(f), NEW b \in Word(f), NEW rm,
           signUI(f, a) = signUI(f, b), IsSpecial(f, a) \/ IsSpecial(f, b)
    PROVE  addMags(f, a, b, signUI(f, a), rm) = AddSpec(f, a, b, rm)
<1> DEFINE ea == expUI(f, a)
           eb == expUI(f, b)
           x  == fracUI(f, a)
           y  == fracUI(f, b)
           s  == signUI(f, a)
           M  == ExpMax(f)
<1>0. NaNOf(f, {a, b}) = propagateNaN(f, a, b)
  BY NaNsPropagate
<1>1. CASE IsSpecial(f, a) /\ IsSpecial(f, b)
  <2>1. ~(ea > eb) /\ eb - ea = 0 /\ ea = M /\ M # 0
    BY <1>1, SpecialExponents DEF IsSpecial
  <2>2. addMags(f, a, b, s, rm) = IF x # 0 \/ y # 0 THEN propagateNaN(f, a, b) ELSE Exact(a)
    BY <2>1 DEF addMags
  <2>3. AddSpec(f, a, b, rm) = IF x # 0 \/ y # 0 THEN NaNOf(f, {a, b}) ELSE Exact(a)
    BY <1>1 DEF AddSpec, IsNaN, IsInf
  <2> QED BY <1>0, <2>2, <2>3
<1>2. CASE IsSpecial(f, a) /\ ~IsSpecial(f, b)
  <2>1. ea > eb /\ ea - eb # 0
    BY <1>2, SpecialExponents
  <2>2. addMags(f, a, b, s, rm) = IF x # 0 THEN propagateNaN(f, a, b) ELSE Exact(Infinity(f, s))
    <3> HIDE DEF s
    <3> QED BY <1>2, <2>1 DEF addMags
  <2>3. AddSpec(f, a, b, rm) = IF x # 0 THEN NaNOf(f, {a, b}) ELSE Exact(a)
    BY <1>2 DEF AddSpec, IsNaN, IsInf
  <2>4. x = 0 => a = Infinity(f, s)
    BY <1>2, InfinityWord DEF IsInf
  <2> QED BY <1>0, <2>2, <2>3, <2>4
<1>3. CASE ~IsSpecial(f, a) /\ IsSpecial(f, b)
  <2>1. ~(ea > eb) /\ eb - ea # 0
    BY <1>3, SpecialExponents
  <2>2. addMags(f, a, b, s, rm) = IF y # 0 THEN propagateNaN(f, a, b) ELSE Exact(Infinity(f, s))
    <3> HIDE DEF s
    <3> QED BY <1>3, <2>1 DEF addMags
  <2>3. AddSpec(f, a, b, rm) = IF y # 0 THEN NaNOf(f, {a, b}) ELSE Exact(b)
    BY <1>3 DEF AddSpec, IsNaN, IsInf
  <2>4. y = 0 => b = Infinity(f, s)
    BY <1>3, InfinityWord DEF IsInf
  <2> QED BY <1>0, <2>2, <2>3, <2>4
<1> QED BY <1>1, <1>2, <1>3

LEMMA SubSpecial ==
    ASSUME NEW f, IsFormat(f), NEW a \in Word(f), NEW b \in Word(f), NEW rm,
           signUI(f, a) # signUI(f, b), IsSpecial(f, a) \/ IsSpecial(f, b)
    PROVE  subMags(f, a, b, signUI(f, a), rm) = AddSpec(f, a, b, rm)
<1> DEFINE ea == expUI(f, a)
           eb == expUI(f, b)
           x  == fracUI(f, a)
           y  == fracUI(f, b)
           s  == signUI(f, a)
           M  == ExpMax(f)
<1>0. NaNOf(f, {a, b}) = propagateNaN(f, a, b)
  BY NaNsPropagate
<1>9. signUI(f, b) = 1 - s
  BY Fields DEF Fielded
<1>1. CASE IsSpecial(f, a) /\ IsSpecial(f, b)
  <2>1. ~(ea > eb) /\ eb - ea = 0 /\ ea = M
    BY <1>1, SpecialExponents DEF IsSpecial
  <2>2. subMags(f, a, b, s, rm) = IF x # 0 \/ y # 0 THEN propagateNaN(f, a, b) ELSE Invalid(f)
    BY <2>1 DEF subMags
  <2>3. AddSpec(f, a, b, rm) = IF x # 0 \/ y # 0 THEN NaNOf(f, {a, b}) ELSE Invalid(f)
    BY <1>1 DEF AddSpec, IsNaN, IsInf
  <2> QED BY <1>0, <2>2, <2>3
<1>2. CASE IsSpecial(f, a) /\ ~IsSpecial(f, b)
  <2>1. ea > eb /\ ea - eb # 0
    BY <1>2, SpecialExponents
  <2>2. subMags(f, a, b, s, rm) = IF x # 0 THEN propagateNaN(f, a, b) ELSE Exact(Infinity(f, s))
    <3> HIDE DEF s
    <3> QED BY <1>2, <2>1 DEF subMags
  <2>3. AddSpec(f, a, b, rm) = IF x # 0 THEN NaNOf(f, {a, b}) ELSE Exact(a)
    BY <1>2 DEF AddSpec, IsNaN, IsInf
  <2>4. x = 0 => a = Infinity(f, s)
    BY <1>2, InfinityWord DEF IsInf
  <2> QED BY <1>0, <2>2, <2>3, <2>4
<1>3. CASE ~IsSpecial(f, a) /\ IsSpecial(f, b)
  <2>1. ~(ea > eb) /\ eb - ea # 0
    BY <1>3, SpecialExponents
  <2>2. subMags(f, a, b, s, rm) = IF y # 0 THEN propagateNaN(f, a, b) ELSE Exact(Infinity(f, 1 - s))
    <3> HIDE DEF s
    <3> QED BY <1>3, <2>1 DEF subMags
  <2>3. AddSpec(f, a, b, rm) = IF y # 0 THEN NaNOf(f, {a, b}) ELSE Exact(b)
    BY <1>3 DEF AddSpec, IsNaN, IsInf
  <2>4. y = 0 => b = Infinity(f, 1 - s)
    BY <1>3, <1>9, InfinityWord DEF IsInf
  <2> QED BY <1>0, <2>2, <2>3, <2>4
<1> QED BY <1>1, <1>2, <1>3

LEMMA AddSpecFinite ==
    ASSUME NEW f, NEW a, NEW b, NEW rm, ~IsSpecial(f, a), ~IsSpecial(f, b)
    PROVE  AddSpec(f, a, b, rm) = SumSpec(f, signUI(f, a), MagOf(f, a), signUI(f, b), MagOf(f, b), rm)
BY DEF AddSpec, IsNaN, IsInf

\* softfloat_addMags* of operands of one sign, and softfloat_subMags* of
\* operands of different signs, are the sum.
LEMMA AddMagsCorrect ==
    ASSUME NEW f, IsFormat(f), NEW a \in Word(f), NEW b \in Word(f), NEW rm \in RoundingModes,
           signUI(f, a) = signUI(f, b)
    PROVE  addMags(f, a, b, signUI(f, a), rm) = AddSpec(f, a, b, rm)
<1>1. CASE IsSpecial(f, a) \/ IsSpecial(f, b)
  BY <1>1, AddSpecial
<1>2. CASE ~IsSpecial(f, a) /\ ~IsSpecial(f, b)
  <2> DEFINE s == signUI(f, a)
             r == addMags(f, a, b, s, rm)
             q == SumSpec(f, s, MagOf(f, a), s, MagOf(f, b), rm)
  <2>1. s \in {0, 1}
    BY Fields DEF Fielded
  <2>2. Total(f, Units(f, a), Units(f, b), s, rm, r)
    BY <1>2, AddMagsTotal
  <2>3. Total(f, Units(f, a), Units(f, b), s, rm, q)
    <3> HIDE DEF s
    <3> QED BY <2>1, SumSpecFinite
  <2>4. AddSpec(f, a, b, rm) = q
    BY <1>2, AddSpecFinite
  <2> HIDE DEF r, q, s
  <2>5. r = q
    BY <2>2, <2>3, OneTotal
  <2> QED BY <2>4, <2>5 DEF r, s
<1> QED BY <1>1, <1>2

LEMMA AddMagsF32Correct ==
    ASSUME NEW a \in Word(F32), NEW b \in Word(F32), NEW rm \in RoundingModes, signUI(F32, a) = signUI(F32, b)
    PROVE  softfloat_addMagsF32(a, b, rm) = AddSpec(F32, a, b, rm)
<1>0. IsFormat(F32)
  BY Formats
<1>1. CASE IsSpecial(F32, a) \/ IsSpecial(F32, b)
  <2>1. ExpMax(F32) \in Nat /\ ~(ExpMax(F32) \in 1 .. ExpMax(F32) - 2)
    BY <1>0, FormatFacts
  <2>2. ~(expUI(F32, a) = expUI(F32, b) /\ expUI(F32, a) \in 1 .. ExpMax(F32) - 2)
    BY <1>1, <2>1 DEF IsSpecial
  <2>3. softfloat_addMagsF32(a, b, rm) = addMags(F32, a, b, signUI(F32, a), rm)
    BY <2>2 DEF softfloat_addMagsF32
  <2> QED BY <1>0, <2>3, AddMagsCorrect
<1>2. CASE ~IsSpecial(F32, a) /\ ~IsSpecial(F32, b)
  <2> DEFINE s == signUI(F32, a)
             r == softfloat_addMagsF32(a, b, rm)
             q == SumSpec(F32, s, MagOf(F32, a), s, MagOf(F32, b), rm)
  <2>1. s \in {0, 1}
    BY <1>0, Fields DEF Fielded
  <2>2. Total(F32, Units(F32, a), Units(F32, b), s, rm, r)
    BY <1>2, AddMagsF32Total
  <2>3. Total(F32, Units(F32, a), Units(F32, b), s, rm, q)
    <3> HIDE DEF s
    <3> QED BY <1>0, <2>1, SumSpecFinite
  <2>4. AddSpec(F32, a, b, rm) = q
    BY <1>2, AddSpecFinite
  <2> HIDE DEF r, q, s
  <2>5. r = q
    BY <2>2, <2>3, OneTotal
  <2> QED BY <2>4, <2>5 DEF r, s
<1> QED BY <1>1, <1>2

LEMMA SubMagsCorrect ==
    ASSUME NEW f, IsFormat(f), NEW a \in Word(f), NEW b \in Word(f), NEW rm \in RoundingModes,
           signUI(f, a) # signUI(f, b)
    PROVE  subMags(f, a, b, signUI(f, a), rm) = AddSpec(f, a, b, rm)
<1>1. CASE IsSpecial(f, a) \/ IsSpecial(f, b)
  BY <1>1, SubSpecial
<1>2. CASE ~IsSpecial(f, a) /\ ~IsSpecial(f, b)
  <2> DEFINE s == signUI(f, a)
             v == signUI(f, b)
             r == subMags(f, a, b, s, rm)
             q == SumSpec(f, s, MagOf(f, a), v, MagOf(f, b), rm)
  <2>1. s \in {0, 1} /\ v \in {0, 1} /\ s # v
    BY Fields DEF Fielded
  <2>2. Difference(f, Units(f, a), Units(f, b), s, rm, r)
    BY <1>2, SubMagsFinite
  <2>3. Difference(f, Units(f, a), Units(f, b), s, rm, q)
    <3> HIDE DEF s, v
    <3> QED BY <2>1, SumSpecFinite
  <2>4. AddSpec(f, a, b, rm) = q
    BY <1>2, AddSpecFinite
  <2>6. Units(f, a) \in Nat /\ Units(f, b) \in Nat
    BY MagUnits
  <2> HIDE DEF r, q, s
  <2>5. r = q
    BY <2>2, <2>3, <2>6, OneDifference
  <2> QED BY <2>4, <2>5 DEF r, s
<1> QED BY <1>1, <1>2

LEMMA SameFields ==
    ASSUME NEW f, NEW a, NEW b, NEW c, NEW s, NEW rm, expUI(f, b) = expUI(f, c), fracUI(f, b) = fracUI(f, c)
    PROVE  /\ addMags(f, a, b, s, rm) = addMags(f, a, c, s, rm)
           /\ subMags(f, a, b, s, rm) = subMags(f, a, c, s, rm)
<1>1. propagateNaN(f, a, b) = propagateNaN(f, a, c)
  BY DEF propagateNaN, isSigNaN
<1>2. IsSpecial(f, b) <=> IsSpecial(f, c)
  BY DEF IsSpecial
<1>3. Aligned(f, b, f.G - 1) = Aligned(f, c, f.G - 1) /\ Aligned(f, b, f.G) = Aligned(f, c, f.G)
  BY DEF Aligned
<1>4. CASE expUI(f, a) > expUI(f, b)
  BY <1>1, <1>2, <1>3, <1>4 DEF addMags, subMags
<1>5. CASE ~(expUI(f, a) > expUI(f, b))
  BY <1>1, <1>2, <1>3, <1>5 DEF addMags, subMags
<1> QED BY <1>4, <1>5

LEMMA SameFieldsF32 ==
    ASSUME NEW a, NEW b, NEW c, NEW rm, expUI(F32, b) = expUI(F32, c), fracUI(F32, b) = fracUI(F32, c)
    PROVE  softfloat_addMagsF32(a, b, rm) = softfloat_addMagsF32(a, c, rm)
<1>1. addMags(F32, a, b, signUI(F32, a), rm) = addMags(F32, a, c, signUI(F32, a), rm)
  BY SameFields
<1> QED BY <1>1 DEF softfloat_addMagsF32

LEMMA SubIsAdd ==
    ASSUME NEW f, IsFormat(f), NEW a \in Word(f), NEW b \in Word(f), NEW rm
    PROVE  SubSpec(f, a, b, rm) = AddSpec(f, a, Negated(f, b), rm)
<1>1. IsNaN(f, Negated(f, b)) <=> IsNaN(f, b)
  BY NegatedKind
<1>2. isSigNaN(f, Negated(f, b)) <=> isSigNaN(f, b)
  BY NegatedKind
<1>3. NaNOf(f, {a, b}) = NaNOf(f, {a, Negated(f, b)})
  <2>1. NaNOf(f, {a, b}) = propagateNaN(f, a, b) /\ NaNOf(f, {a, Negated(f, b)}) = propagateNaN(f, a, Negated(f, b))
    BY NaNsPropagate
  <2> QED BY <1>2, <2>1 DEF propagateNaN
<1>4. CASE IsNaN(f, b)
  BY <1>1, <1>3, <1>4 DEF SubSpec, AddSpec
<1>5. CASE ~IsNaN(f, b)
  BY <1>5 DEF SubSpec
<1> QED BY <1>4, <1>5

\* The four operations are the sum and the difference, rounded once.
LEMMA AddSubOperations ==
    ASSUME NEW rm \in RoundingModes
    PROVE  /\ \A a, b \in Word(F32) : f32_add(a, b, rm) = AddSpec(F32, a, b, rm)
           /\ \A a, b \in Word(F64) : f64_add(a, b, rm) = AddSpec(F64, a, b, rm)
           /\ \A a, b \in Word(F32) : f32_sub(a, b, rm) = SubSpec(F32, a, b, rm)
           /\ \A a, b \in Word(F64) : f64_sub(a, b, rm) = SubSpec(F64, a, b, rm)
<1>0. IsFormat(F32) /\ IsFormat(F64)
  BY Formats
<1>1. ASSUME NEW a \in Word(F32), NEW b \in Word(F32) PROVE f32_add(a, b, rm) = AddSpec(F32, a, b, rm)
  <2>1. CASE signUI(F32, a) = signUI(F32, b)
    BY <2>1, AddMagsF32Correct DEF f32_add
  <2>2. CASE signUI(F32, a) # signUI(F32, b)
    BY <1>0, <2>2, SubMagsCorrect DEF f32_add, softfloat_subMagsF32
  <2> QED BY <2>1, <2>2
<1>2. ASSUME NEW a \in Word(F64), NEW b \in Word(F64) PROVE f64_add(a, b, rm) = AddSpec(F64, a, b, rm)
  <2>1. CASE signUI(F64, a) = signUI(F64, b)
    BY <1>0, <2>1, AddMagsCorrect DEF f64_add, softfloat_addMagsF64
  <2>2. CASE signUI(F64, a) # signUI(F64, b)
    BY <1>0, <2>2, SubMagsCorrect DEF f64_add, softfloat_subMagsF64
  <2> QED BY <2>1, <2>2
<1>3. ASSUME NEW a \in Word(F32), NEW b \in Word(F32) PROVE f32_sub(a, b, rm) = SubSpec(F32, a, b, rm)
  <2> DEFINE c == Negated(F32, b)
  <2>1. /\ c \in Word(F32) /\ signUI(F32, c) = 1 - signUI(F32, b)
        /\ expUI(F32, b) = expUI(F32, c) /\ fracUI(F32, b) = fracUI(F32, c)
    BY <1>0, NegatedSign DEF Resigned
  <2>2. signUI(F32, a) \in {0, 1} /\ signUI(F32, b) \in {0, 1}
    BY <1>0, Fields DEF Fielded
  <2>3. SubSpec(F32, a, b, rm) = f32_add(a, c, rm)
    <3>1. SubSpec(F32, a, b, rm) = AddSpec(F32, a, c, rm)
      BY <1>0, SubIsAdd
    <3> HIDE DEF c
    <3> QED BY <1>1, <2>1, <3>1
  <2> HIDE DEF c
  <2>4. (signUI(F32, a) = signUI(F32, c)) <=> signUI(F32, a) # signUI(F32, b)
    BY <2>1, <2>2
  <2>5. softfloat_addMagsF32(a, b, rm) = softfloat_addMagsF32(a, c, rm)
    BY <2>1, SameFieldsF32
  <2>6. softfloat_subMagsF32(a, b, rm) = softfloat_subMagsF32(a, c, rm)
    BY <2>1, SameFields DEF softfloat_subMagsF32
  <2>7. f32_sub(a, b, rm) = f32_add(a, c, rm)
    BY <2>4, <2>5, <2>6 DEF f32_sub, f32_add
  <2> QED BY <2>3, <2>7
<1>4. ASSUME NEW a \in Word(F64), NEW b \in Word(F64) PROVE f64_sub(a, b, rm) = SubSpec(F64, a, b, rm)
  <2> DEFINE c == Negated(F64, b)
  <2>1. /\ c \in Word(F64) /\ signUI(F64, c) = 1 - signUI(F64, b)
        /\ expUI(F64, b) = expUI(F64, c) /\ fracUI(F64, b) = fracUI(F64, c)
    BY <1>0, NegatedSign DEF Resigned
  <2>2. signUI(F64, a) \in {0, 1} /\ signUI(F64, b) \in {0, 1}
    BY <1>0, Fields DEF Fielded
  <2>3. SubSpec(F64, a, b, rm) = f64_add(a, c, rm)
    <3>1. SubSpec(F64, a, b, rm) = AddSpec(F64, a, c, rm)
      BY <1>0, SubIsAdd
    <3> HIDE DEF c
    <3> QED BY <1>2, <2>1, <3>1
  <2> HIDE DEF c
  <2>4. (signUI(F64, a) = signUI(F64, c)) <=> signUI(F64, a) # signUI(F64, b)
    BY <2>1, <2>2
  <2>5. softfloat_addMagsF64(a, b, signUI(F64, a), rm) = softfloat_addMagsF64(a, c, signUI(F64, a), rm)
    BY <2>1, SameFields DEF softfloat_addMagsF64
  <2>6. softfloat_subMagsF64(a, b, signUI(F64, a), rm) = softfloat_subMagsF64(a, c, signUI(F64, a), rm)
    BY <2>1, SameFields DEF softfloat_subMagsF64
  <2>7. f64_sub(a, b, rm) = f64_add(a, c, rm)
    BY <2>4, <2>5, <2>6 DEF f64_sub, f64_add
  <2> QED BY <2>3, <2>7
<1> QED BY <1>1, <1>2, <1>3, <1>4

------------------------------------------------------------------------------
(* The steps *)

\* Which action performed an operation; no action changes the rounding mode.
Performed ==
    /\ UNCHANGED <<frm, fpActiveRM>>
    /\ op' = "none" => setFlags' = {}
    /\ op' = "FADD32" => riscvFADD32
    /\ op' = "FADD64" => riscvFADD64
    /\ op' = "FSUB32" => riscvFSUB32
    /\ op' = "FSUB64" => riscvFSUB64
    /\ op' = "F32F64" => riscvFCVTF32F64
    /\ op' = "F32I32" => riscvFCVTF32I32
    /\ op' = "F32I64" => riscvFCVTF32I64
    /\ op' = "F32U32" => riscvFCVTF32U32
    /\ op' = "F32U64" => riscvFCVTF32U64
    /\ op' = "F64I64" => riscvFCVTF64I64
    /\ op' = "F64U64" => riscvFCVTF64U64
    /\ op' = "I32F32" => riscvFCVTI32F32
    /\ op' = "I64F32" => riscvFCVTI64F32
    /\ op' = "U32F32" => riscvFCVTU32F32
    /\ op' = "U64F32" => riscvFCVTU64F32
    /\ op' = "I32F64" => riscvFCVTI32F64
    /\ op' = "I64F64" => riscvFCVTI64F64
    /\ op' = "U32F64" => riscvFCVTU32F64
    /\ op' = "U64F64" => riscvFCVTU64F64
    /\ op' \in {"CVT32F32", "CVT64F32", "CVT32F64", "CVT64F64"} => hostConvert

LEMMA Steps ==
    ASSUME Next
    PROVE  Performed
<1> USE DEF Call, Performed
<1>1. ASSUME riscvFADD32 PROVE Performed
  BY <1>1 DEF riscvFADD32
<1>2. ASSUME riscvFADD64 PROVE Performed
  BY <1>2 DEF riscvFADD64
<1>3. ASSUME riscvFSUB32 PROVE Performed
  BY <1>3 DEF riscvFSUB32
<1>4. ASSUME riscvFSUB64 PROVE Performed
  BY <1>4 DEF riscvFSUB64
<1>5. ASSUME riscvFMUL32 PROVE Performed
  BY <1>5 DEF riscvFMUL32
<1>6. ASSUME riscvFMUL64 PROVE Performed
  BY <1>6 DEF riscvFMUL64
<1>7. ASSUME riscvFDIV32 PROVE Performed
  BY <1>7 DEF riscvFDIV32
<1>8. ASSUME riscvFDIV64 PROVE Performed
  BY <1>8 DEF riscvFDIV64
<1>9. ASSUME riscvFSQRT32 PROVE Performed
  BY <1>9 DEF riscvFSQRT32
<1>10. ASSUME riscvFSQRT64 PROVE Performed
  BY <1>10 DEF riscvFSQRT64
<1>11. ASSUME riscvFMADD32 PROVE Performed
  BY <1>11 DEF riscvFMADD32
<1>12. ASSUME riscvFMADD64 PROVE Performed
  BY <1>12 DEF riscvFMADD64
<1>13. ASSUME riscvFMSUB32 PROVE Performed
  BY <1>13 DEF riscvFMSUB32
<1>14. ASSUME riscvFMSUB64 PROVE Performed
  BY <1>14 DEF riscvFMSUB64
<1>15. ASSUME riscvFNMADD32 PROVE Performed
  BY <1>15 DEF riscvFNMADD32
<1>16. ASSUME riscvFNMADD64 PROVE Performed
  BY <1>16 DEF riscvFNMADD64
<1>17. ASSUME riscvFNMSUB32 PROVE Performed
  BY <1>17 DEF riscvFNMSUB32
<1>18. ASSUME riscvFNMSUB64 PROVE Performed
  BY <1>18 DEF riscvFNMSUB64
<1>19. ASSUME riscvFCVTF32F64 PROVE Performed
  BY <1>19 DEF riscvFCVTF32F64
<1>20. ASSUME riscvFCVTF32I32 PROVE Performed
  BY <1>20 DEF riscvFCVTF32I32
<1>21. ASSUME riscvFCVTF32I64 PROVE Performed
  BY <1>21 DEF riscvFCVTF32I64
<1>22. ASSUME riscvFCVTF32U32 PROVE Performed
  BY <1>22 DEF riscvFCVTF32U32
<1>23. ASSUME riscvFCVTF32U64 PROVE Performed
  BY <1>23 DEF riscvFCVTF32U64
<1>24. ASSUME riscvFCVTF64I64 PROVE Performed
  BY <1>24 DEF riscvFCVTF64I64
<1>25. ASSUME riscvFCVTF64U64 PROVE Performed
  BY <1>25 DEF riscvFCVTF64U64
<1>26. ASSUME riscvFCVTI32F32 PROVE Performed
  BY <1>26 DEF riscvFCVTI32F32
<1>27. ASSUME riscvFCVTI64F32 PROVE Performed
  BY <1>27 DEF riscvFCVTI64F32
<1>28. ASSUME riscvFCVTU32F32 PROVE Performed
  BY <1>28 DEF riscvFCVTU32F32
<1>29. ASSUME riscvFCVTU64F32 PROVE Performed
  BY <1>29 DEF riscvFCVTU64F32
<1>30. ASSUME riscvFCVTI32F64 PROVE Performed
  BY <1>30 DEF riscvFCVTI32F64
<1>31. ASSUME riscvFCVTI64F64 PROVE Performed
  BY <1>31 DEF riscvFCVTI64F64
<1>32. ASSUME riscvFCVTU32F64 PROVE Performed
  BY <1>32 DEF riscvFCVTU32F64
<1>33. ASSUME riscvFCVTU64F64 PROVE Performed
  BY <1>33 DEF riscvFCVTU64F64
<1>34. ASSUME emitFMinMax PROVE Performed
  BY <1>34 DEF emitFMinMax
<1>35. ASSUME hostConvert PROVE Performed
  BY <1>35 DEF hostConvert
<1>36. ASSUME emitFSgn PROVE Performed
  BY <1>36 DEF emitFSgn
<1>37. ASSUME emitFClass PROVE Performed
  BY <1>37 DEF emitFClass
<1>38. ASSUME Return PROVE Performed
  BY <1>38 DEF Return
<1> HIDE DEF Call, Performed
<1> QED BY <1>1, <1>2, <1>3, <1>4, <1>5, <1>6, <1>7, <1>8, <1>9, <1>10, <1>11, <1>12, <1>13, <1>14, <1>15, <1>16, <1>17, <1>18, <1>19, <1>20, <1>21, <1>22, <1>23, <1>24, <1>25, <1>26, <1>27, <1>28, <1>29, <1>30, <1>31, <1>32, <1>33, <1>34, <1>35, <1>36, <1>37, <1>38 DEF Next

\* The rounding modes of an instruction.
ModeChosen == (fpActiveRM = "CURRENT" /\ frm \in 0 .. 4) \/ (fpActiveRM = "RMM" /\ frm = 0)

LEMMA ModeFacts ==
    ASSUME ModeChosen
    PROVE  /\ beforeFP = RequiredRM /\ RequiredRM \in RoundingModes
           /\ \A rc \in RC : beforeFPCVT(rc) \in RoundingModes
                             /\ beforeFPCVT(rc) = IF rc = "AWAY" THEN "RMM" ELSE mapRM[frm + 1]
<1>1. mapRM[frm + 1] \in RoundingModes
  <2>1. frm \in 0 .. 4
    BY DEF ModeChosen
  <2>2. frm = 0 \/ frm = 1 \/ frm = 2 \/ frm = 3 \/ frm = 4
    BY <2>1
  <2>3. mapRM[1] = "RTE" /\ mapRM[2] = "RTZ" /\ mapRM[3] = "RDN" /\ mapRM[4] = "RUP" /\ mapRM[5] = "RMM"
    BY DEF mapRM
  <2>4. 0 + 1 = 1 /\ 1 + 1 = 2 /\ 2 + 1 = 3 /\ 3 + 1 = 4 /\ 4 + 1 = 5
    OBVIOUS
  <2>5. mapRM[frm + 1] \in {"RTE", "RTZ", "RDN", "RUP", "RMM"}
    <3> HIDE DEF mapRM
    <3> QED BY <2>2, <2>3, <2>4
  <2> QED BY <2>5 DEF RoundingModes
<1>2. "RMM" \in RoundingModes
  BY DEF RoundingModes
<1>3. beforeFP = RequiredRM
  BY DEF beforeFP, beforeFPInt, RequiredRM
<1>4. RequiredRM \in RoundingModes
  BY <1>1, <1>2 DEF RequiredRM, ModeChosen
<1>5. mapRC["AWAY"] = "RMM" /\ mapRC["CURRENT"] = "CURRENT"
  BY DEF mapRC
<1>6. ASSUME NEW rc \in RC
      PROVE  beforeFPCVT(rc) = IF rc = "AWAY" THEN "RMM" ELSE mapRM[frm + 1]
  <2>1. rc = "AWAY" \/ rc = "CURRENT"
    BY DEF RC
  <2>2. CASE rc = "AWAY"
    BY <1>5, <2>2 DEF beforeFPCVT, beforeFPInt
  <2>3. CASE rc = "CURRENT"
    BY <1>5, <2>3 DEF beforeFPCVT, beforeFPInt
  <2> QED BY <2>1, <2>2, <2>3
<1> QED BY <1>1, <1>2, <1>3, <1>4, <1>6

\* A value and its flags.
IsResult(r) == \E v, fl : r = [v |-> v, fl |-> fl]

LEMMA SpecResults ==
    /\ \A v : IsResult(Exact(v))
    /\ \A f : IsResult(Invalid(f))
    /\ \A f, sign, x, rm : IsResult(Rounded(f, sign, x, rm))
    /\ \A f, S : IsResult(NaNOf(f, S))
<1>1. \A v : IsResult(Exact(v))
  BY DEF IsResult, Exact
<1>2. \A f : IsResult(Invalid(f))
  BY DEF IsResult, Invalid
<1>3. ASSUME NEW f, NEW sign, NEW x, NEW rm PROVE IsResult(Rounded(f, sign, x, rm))
  <2>1. \E v, fl, w, gl : \E over \in BOOLEAN :
          Rounded(f, sign, x, rm) = IF over THEN [v |-> v, fl |-> fl] ELSE [v |-> w, fl |-> gl]
    BY Zenon DEF Rounded
  <2> QED BY <2>1 DEF IsResult
<1>4. \A f, S : IsResult(NaNOf(f, S))
  BY <1>1, <1>2 DEF NaNOf
<1> QED BY <1>1, <1>2, <1>3, <1>4

LEMMA AddSpecResult ==
    ASSUME NEW f, NEW a, NEW b, NEW rm
    PROVE  IsResult(AddSpec(f, a, b, rm)) /\ IsResult(SubSpec(f, a, b, rm))
<1>1. \A sx, x, sy, y : IsResult(SumSpec(f, sx, x, sy, y, rm))
  BY SpecResults DEF SumSpec
<1>2. \A c : IsResult(AddSpec(f, a, c, rm))
  BY <1>1, SpecResults DEF AddSpec
<1> QED BY <1>2, SpecResults DEF SubSpec

LEMMA CallGives ==
    ASSUME setFlags = {}, NEW name, NEW in, NEW r, IsResult(r), Call(name, in, r)
    PROVE  op' = name /\ args' = in /\ Got' = r
<1>1. PICK v, fl : r = [v |-> v, fl |-> fl]
  BY DEF IsResult
<1>2. op' = name /\ args' = in /\ result' = v /\ setFlags' = fl
  BY <1>1 DEF Call, afterFP
<1> QED BY <1>1, <1>2 DEF Got

LEMMA AddSubStep ==
    ASSUME ModeChosen, setFlags = {}, Next, op' \in {"FADD32", "FADD64", "FSUB32", "FSUB64"}
    PROVE  AddSubCorrect'
<1> DEFINE m == RequiredRM
<1>1. m \in RoundingModes /\ beforeFP = m /\ RequiredRM' = m
  <2>1. UNCHANGED <<frm, fpActiveRM>>
    BY Steps DEF Performed
  <2>2. RequiredRM' = m
    BY <2>1 DEF RequiredRM, mapRM
  <2> QED BY <2>2, ModeFacts
<1> HIDE DEF m
<1>2. /\ \A a, b \in Word(F32) : f32_add(a, b, m) = AddSpec(F32, a, b, m)
      /\ \A a, b \in Word(F64) : f64_add(a, b, m) = AddSpec(F64, a, b, m)
      /\ \A a, b \in Word(F32) : f32_sub(a, b, m) = SubSpec(F32, a, b, m)
      /\ \A a, b \in Word(F64) : f64_sub(a, b, m) = SubSpec(F64, a, b, m)
  BY <1>1, AddSubOperations
<1>3. \A f, a, b : IsResult(AddSpec(f, a, b, m)) /\ IsResult(SubSpec(f, a, b, m))
  BY AddSpecResult
<1>4. CASE op' = "FADD32"
  <2>1. riscvFADD32
    BY <1>4, Steps DEF Performed
  <2>2. PICK a \in V32, b \in V32 : Call("FADD32", <<a, b>>, f32_add(a, b, m))
    BY <1>1, <2>1 DEF riscvFADD32
  <2>3. f32_add(a, b, m) = AddSpec(F32, a, b, m)
    BY <1>2, Operands
  <2>4. args' = <<a, b>> /\ Got' = AddSpec(F32, a, b, m)
    BY <1>3, <2>2, <2>3, CallGives
  <2>5. args'[1] = a /\ args'[2] = b
    BY <2>4
  <2> QED BY <1>1, <1>4, <2>4, <2>5 DEF AddSubCorrect
<1>5. CASE op' = "FADD64"
  <2>1. riscvFADD64
    BY <1>5, Steps DEF Performed
  <2>2. PICK a \in V64, b \in V64 : Call("FADD64", <<a, b>>, f64_add(a, b, m))
    BY <1>1, <2>1 DEF riscvFADD64
  <2>3. f64_add(a, b, m) = AddSpec(F64, a, b, m)
    BY <1>2, Operands
  <2>4. args' = <<a, b>> /\ Got' = AddSpec(F64, a, b, m)
    BY <1>3, <2>2, <2>3, CallGives
  <2>5. args'[1] = a /\ args'[2] = b
    BY <2>4
  <2> QED BY <1>1, <1>5, <2>4, <2>5 DEF AddSubCorrect
<1>6. CASE op' = "FSUB32"
  <2>1. riscvFSUB32
    BY <1>6, Steps DEF Performed
  <2>2. PICK a \in V32, b \in V32 : Call("FSUB32", <<a, b>>, f32_sub(a, b, m))
    BY <1>1, <2>1 DEF riscvFSUB32
  <2>3. f32_sub(a, b, m) = SubSpec(F32, a, b, m)
    BY <1>2, Operands
  <2>4. args' = <<a, b>> /\ Got' = SubSpec(F32, a, b, m)
    BY <1>3, <2>2, <2>3, CallGives
  <2>5. args'[1] = a /\ args'[2] = b
    BY <2>4
  <2> QED BY <1>1, <1>6, <2>4, <2>5 DEF AddSubCorrect
<1>7. CASE op' = "FSUB64"
  <2>1. riscvFSUB64
    BY <1>7, Steps DEF Performed
  <2>2. PICK a \in V64, b \in V64 : Call("FSUB64", <<a, b>>, f64_sub(a, b, m))
    BY <1>1, <2>1 DEF riscvFSUB64
  <2>3. f64_sub(a, b, m) = SubSpec(F64, a, b, m)
    BY <1>2, Operands
  <2>4. args' = <<a, b>> /\ Got' = SubSpec(F64, a, b, m)
    BY <1>3, <2>2, <2>3, CallGives
  <2>5. args'[1] = a /\ args'[2] = b
    BY <2>4
  <2> QED BY <1>1, <1>7, <2>4, <2>5 DEF AddSubCorrect
<1> QED BY <1>4, <1>5, <1>6, <1>7

\* riscvFADD*, riscvFSUB* and softfloat_addMags*, softfloat_subMags*: for
\* every two formats, operands and rounding modes the sum and the difference
\* are the exact ones rounded once, with the flags of that rounding.
THEOREM AddSub == Spec => []AddSubCorrect
<1> DEFINE Inv == FlagsCleared /\ ModeChosen /\ AddSubCorrect
<1>1. Init => Inv
  BY DEF Init, FlagsCleared, ModeChosen, AddSubCorrect
<1>2. Inv /\ [Next]_vars => Inv'
  <2> SUFFICES ASSUME Inv, [Next]_vars PROVE Inv'
    OBVIOUS
  <2>1. CASE Next
    <3>1. FlagsCleared' /\ ModeChosen'
      BY <2>1, Steps DEF Performed, FlagsCleared, ModeChosen
    <3>2. CASE op' \in {"FADD32", "FADD64", "FSUB32", "FSUB64"}
      <4>1. op = "none"
        BY <2>1, <3>2, Steps DEF Performed, riscvFADD32, riscvFADD64, riscvFSUB32, riscvFSUB64
      <4>2. setFlags = {}
        BY <4>1 DEF FlagsCleared
      <4> QED BY <2>1, <3>1, <3>2, <4>2, AddSubStep
    <3>3. CASE op' \notin {"FADD32", "FADD64", "FSUB32", "FSUB64"}
      BY <3>1, <3>3 DEF AddSubCorrect
    <3> QED BY <3>2, <3>3
  <2>2. CASE UNCHANGED vars
    <3>1. FlagsCleared' /\ ModeChosen'
      BY <2>2 DEF vars, FlagsCleared, ModeChosen
    <3>2. AddSubCorrect'
      BY <2>2, Zenon DEF vars, AddSubCorrect, Got, RequiredRM, mapRM
    <3> QED BY <3>1, <3>2
  <2> QED BY <2>1, <2>2
<1>3. Inv => AddSubCorrect
  OBVIOUS
<1> QED BY <1>1, <1>2, <1>3, PTL DEF Spec


------------------------------------------------------------------------------
(* Conversions from integers *)

\* An integer is held as units of 2^-Depth.
Depth == 2 * W64

Apart(a, b, c) == a + b - c

LEMMA DepthSize ==
    ASSUME NEW f, IsFormat(f)
    PROVE  Depth \in Nat /\ W64 \in Nat /\ Depth >= f.F + f.G + 4 /\ -Depth \in Int
<1>1. W64 \in Nat /\ f.F \in Nat /\ f.G \in Nat /\ f.F + f.G + 2 <= W64
  BY FormatFacts DEF Reach
<1> QED BY <1>1 DEF Depth

LEMMA PacksValue ==
    ASSUME NEW f, IsFormat(f), NEW sig \in Nat, Normalised(f, sig), NEW ex \in Int,
           NEW sign \in {0, 1}, NEW rm \in RoundingModes, NEW X \in Nat, NEW k \in Nat, NEW L,
           L = Apart(ex, Base(f), k), Agree(sig * 2^k, X, 2^(k + f.G - 1))
    PROVE  roundPack(f, sign, ex, sig, rm) = ValueRounded(f, sign, L, X, rm)
<1>1. Agree(X, sig * 2^k, 2^(k + f.G - 1))
  BY AgreeSymmetric
<1>2. PacksAs(f, sign, ex, sig, rm, k, X)
  BY <1>1, RoundPackBase
<1> QED BY <1>2 DEF PacksAs, Apart

LEMMA IntegerRounded ==
    ASSUME NEW f, IsFormat(f), NEW n \in Nat, n >= 1, n < 2^(2 * W64),
           NEW sign \in {0, 1}, NEW rm \in RoundingModes
    PROVE  Rounded(f, sign, Mag(n, 1, 0), rm) = ValueRounded(f, sign, -Depth, n * 2^Depth, rm)
<1> DEFINE c == Mag(n, 1, 0)
           L == -Depth
<1>1. Depth \in Nat /\ L \in Int /\ L <= 0 /\ 0 - L = Depth /\ f.F \in Nat /\ L + (f.F + 3) <= 0
  BY DepthSize, FormatFacts
<1> HIDE DEF L
<1>2. Denotes(c, L, n * 2^(0 - L))
  BY <1>1, MakeDenotes
<1>3. Denotes(c, L, n * 2^Depth) /\ c.n = n /\ c.e = 0
  BY <1>1, <1>2 DEF Mag
<1>4. n * 2^Depth \in Nat
  BY <1>1, PowerOfTwo
<1> HIDE DEF c
<1>5. L + (f.F + 3) <= c.e /\ c.n >= 1
  BY <1>1, <1>3
<1>6. Rounded(f, sign, c, rm) = ValueRounded(f, sign, L, n * 2^Depth, rm)
  BY <1>3, <1>4, <1>5, RoundedDenotes
<1> QED BY <1>6 DEF c, L

\* i32_to_f32, i64_to_f64: a magnitude of less than a word.
LEMMA NormPacksInteger ==
    ASSUME NEW f, IsFormat(f), NEW sign \in {0, 1}, NEW rm \in RoundingModes,
           NEW z \in Nat, z >= 1, z < 2^(f.F + f.G + 1)
    PROVE  normRoundPack(f, sign, Bias(f) + Width(f) - 3, z, rm)
             = ValueRounded(f, sign, -Depth, z * 2^Depth, rm)
<1> DEFINE ex == Bias(f) + Width(f) - 3
<1>1. /\ f.F \in Nat /\ f.G \in Nat /\ Bias(f) \in Nat /\ Width(f) = f.F + f.G + 2
      /\ Depth \in Nat /\ Depth >= f.F + f.G + 3
  BY FormatFacts, DepthSize
<1>2. ex \in Int /\ ex + Base(f) - Depth = -Depth
  BY <1>1 DEF Base
<1> HIDE DEF ex
<1>3. z * 2^Depth \in Nat
  BY <1>1, PowerOfTwo
<1>4. NormPacksAs(f, sign, ex, z, rm, Depth, z * 2^Depth)
  BY <1>1, <1>2, <1>3, NormRoundPackBase
<1>5. normRoundPack(f, sign, ex, z, rm) = ValueRounded(f, sign, -Depth, z * 2^Depth, rm)
  BY <1>2, <1>4 DEF NormPacksAs
<1> QED BY <1>5 DEF ex

\* The integer of least value: a power of two.
LEMMA LeastInteger ==
    ASSUME NEW f, IsFormat(f), W64 <= Bias(f), NEW sign \in {0, 1}, NEW rm \in RoundingModes
    PROVE  Exact(packToUI(f, sign, Bias(f) + Width(f) - 1, 0))
             = ValueRounded(f, sign, -Depth, 2^(Width(f) - 1) * 2^Depth, rm)
<1> DEFINE e == Bias(f) + Width(f) - 2
           k == Depth + 1
           N == 2^f.F
<1>1. /\ f.F \in Nat /\ f.G \in Nat /\ Bias(f) \in Nat /\ Width(f) = f.F + f.G + 2 /\ W64 \in Nat
      /\ Width(f) <= W64 /\ ExpMax(f) = 2 * Bias(f) + 1 /\ Depth \in Nat
  BY FormatFacts, DepthSize DEF Reach
<1>2. e \in Int /\ e >= 0 /\ e <= ExpMax(f) - 2 /\ k \in Nat /\ e + Base(f) - k = -Depth
  BY <1>1 DEF Base
<1>3. N \in Nat /\ N >= 1 /\ 2^(f.F + 1) = 2 * N
  BY <1>1, PowerOfTwo, PowerDoubles
<1>4. packToUI(f, sign, Bias(f) + Width(f) - 1, 0) = packToUI(f, sign, e, N)
  <2> DEFINE P == 2^f.F
             R == 2^(f.E + f.F)
  <2>1. P \in Nat /\ R \in Nat
    BY Sizes
  <2>2. Bias(f) + Width(f) - 1 = e + 1
    BY <1>1
  <2> HIDE DEF e, P, R
  <2>3. sign * R \in Int
    BY <2>1
  <2>4. e * P \in Int /\ (e + 1) * P = e * P + P
    BY <1>2, <2>1
  <2>5. \A x, y \in Int : x + (y + P) + 0 = x + y + P
    BY <2>1
  <2>6. sign * R + (e + 1) * P + 0 = sign * R + e * P + P
    BY <2>3, <2>4, <2>5
  <2> QED BY <2>2, <2>6 DEF packToUI, P, R, N
<1>5. N * 2^(k + f.G) = 2^(Width(f) - 1) * 2^Depth
  <2>1. k + f.G \in Nat /\ f.F + (k + f.G) = (Width(f) - 1) + Depth /\ Width(f) - 1 \in Nat
    BY <1>1
  <2>2. 2^(f.F + (k + f.G)) = 2^f.F * 2^(k + f.G)
    BY <1>1, <2>1, PowerSum
  <2>3. 2^((Width(f) - 1) + Depth) = 2^(Width(f) - 1) * 2^Depth
    BY <1>1, <2>1, PowerSum
  <2> QED BY <2>1, <2>2, <2>3
<1> HIDE DEF e, k, N
<1>6. ExactAs(f, sign, e, N, rm, k)
  <2>1. N < 2^(f.F + 1) /\ (N >= 2^f.F \/ e = 0)
    BY <1>3 DEF N
  <2> QED BY <1>2, <1>3, <2>1, ExactBase
<1> QED BY <1>2, <1>4, <1>5, <1>6 DEF ExactAs

LEMMA SignedToFloat ==
    ASSUME NEW f, IsFormat(f), W64 <= Bias(f), NEW rm \in RoundingModes,
           NEW a \in -(2^(Width(f) - 1)) .. 2^(Width(f) - 1) - 1
    PROVE  intToFloat(f, a, rm) = FromIntSpec(f, a, rm)
<1> DEFINE T == 2^(Width(f) - 1)
           n == Abs(a)
<1>1. /\ f.F \in Nat /\ f.G \in Nat /\ Width(f) = f.F + f.G + 2 /\ Width(f) - 1 = f.F + f.G + 1
      /\ W64 \in Nat /\ Width(f) <= W64
  BY FormatFacts DEF Reach
<1>2. T \in Nat /\ T >= 1 /\ 2 * T <= 2^(2 * W64) /\ 2^(2 * W64) \in Nat
  <2>1. Width(f) - 1 \in Nat /\ 2 * W64 \in Nat /\ Width(f) - 1 < 2 * W64
    BY <1>1
  <2> QED BY <2>1, PowerOfTwo, PowerStrict
<1> HIDE DEF T
<1>3. a \in Int /\ -T <= a /\ a < T
  BY <1>2 DEF T
<1>4. n \in Nat /\ n <= T /\ (a # 0 => n >= 1) /\ (a # 0 /\ a # -T => n < T) /\ (a = -T => n = T /\ Sign(a) = 1)
  BY <1>2, <1>3 DEF Abs, Sign
<1>5. Sign(a) \in {0, 1}
  BY DEF Sign
<1>6. CASE a = 0
  BY <1>6 DEF intToFloat, FromIntSpec
<1>7. CASE a # 0
  <2>1. FromIntSpec(f, a, rm) = ValueRounded(f, Sign(a), -Depth, n * 2^Depth, rm)
    <3> HIDE DEF n
    <3>1. n < 2^(2 * W64) /\ n >= 1
      BY <1>2, <1>4, <1>7
    <3>2. Rounded(f, Sign(a), Mag(n, 1, 0), rm) = ValueRounded(f, Sign(a), -Depth, n * 2^Depth, rm)
      BY <1>4, <1>5, <3>1, IntegerRounded
    <3>3. FromIntSpec(f, a, rm) = Rounded(f, Sign(a), Mag(n, 1, 0), rm)
      BY <1>7 DEF FromIntSpec, n
    <3> QED BY <3>2, <3>3
  <2>2. CASE a = -T
    <3>1. intToFloat(f, a, rm) = Exact(packToUI(f, 1, Bias(f) + Width(f) - 1, 0))
      BY <1>7, <2>2 DEF intToFloat, T
    <3>2. Exact(packToUI(f, 1, Bias(f) + Width(f) - 1, 0)) = ValueRounded(f, 1, -Depth, T * 2^Depth, rm)
      BY LeastInteger DEF T
    <3> QED BY <1>4, <2>1, <2>2, <3>1, <3>2
  <2>3. CASE a # -T
    <3>1. intToFloat(f, a, rm) = normRoundPack(f, Sign(a), Bias(f) + Width(f) - 3, n, rm)
      BY <1>7, <2>3 DEF intToFloat, T, n
    <3>2. n < 2^(f.F + f.G + 1) /\ n >= 1
      BY <1>1, <1>4, <1>7, <2>3 DEF T
    <3> HIDE DEF n
    <3>3. normRoundPack(f, Sign(a), Bias(f) + Width(f) - 3, n, rm)
            = ValueRounded(f, Sign(a), -Depth, n * 2^Depth, rm)
      BY <1>4, <1>5, <3>2, NormPacksInteger
    <3> QED BY <2>1, <3>1, <3>3
  <2> QED BY <2>2, <2>3
<1> QED BY <1>6, <1>7


\* What is left of a when it is shifted by d places and the rest jammed: no
\* different, K places lower, in units of the G-th place above.
Jam(a, d) == Or1(a \div 2^d, a % 2^d # 0)

JamsTo(a, d, K, G) ==
    /\ Jam(a, d) \in Nat /\ Agree(Jam(a, d) * 2^(K + d), a * 2^K, 2^(K + d + G - 1))
    /\ Jam(a, d) >= a \div 2^d /\ Jam(a, d) <= (a \div 2^d) + 1
    /\ (a \div 2^d) % 2 # 0 => Jam(a, d) = a \div 2^d

LEMMA JamScaled ==
    ASSUME NEW a \in Nat, NEW w \in Nat, NEW d \in Nat, d >= 1, w >= 1, a < 2^(w - 1), NEW K \in Nat,
           NEW G \in Nat, G >= 3
    PROVE  JamsTo(a, d, K, G)
<1> DEFINE J == Or1(a \div 2^d, a % 2^d # 0)
           D == 2^d
           T == 2^K
<1>1. J \in Nat /\ Agree(J * D, a, 2 * D)
  BY JamAgree, ZenonT(40)
<1>2. D \in Nat \ {0} /\ T \in Nat \ {0} /\ K + d \in Nat
  BY PowerOfTwo
<1>3. J >= a \div D /\ J <= (a \div D) + 1 /\ ((a \div D) % 2 # 0 => J = a \div D)
  <2> DEFINE q == a \div D
  <2>1. q \in Nat
    BY <1>2
  <2> HIDE DEF q
  <2> QED BY <2>1 DEF Or1, q
<1>4. D * T = 2^(K + d) /\ 2 * (D * T) = 2^(K + d + 1)
  <2>1. D * T = T * D
    <3> HIDE DEF D, T
    <3> QED BY <1>2
  <2>2. 2^(K + d) = T * D
    BY PowerSum
  <2>3. 2^((K + d) + 1) = 2 * 2^(K + d)
    BY <1>2, PowerDoubles
  <2>4. D * T = 2^(K + d)
    BY <2>1, <2>2
  <2> QED BY <2>3, <2>4
<1> HIDE DEF J
<1>5. Agree((J * D) * T, a * T, (2 * D) * T)
  <2>1. J * D \in Int /\ 2 * D \in Nat \ {0} /\ a \in Int
    BY <1>1, <1>2
  <2> HIDE DEF D, T
  <2> QED BY <1>1, <1>2, <2>1, AgreeScaled
<1>6. (J * D) * T = J * (D * T) /\ (2 * D) * T = 2 * (D * T)
  <2> HIDE DEF D, T
  <2> QED BY <1>1, <1>2
<1>7. Agree(J * 2^(K + d), a * T, 2^(K + d + 1))
  BY <1>4, <1>5, <1>6
<1>8. Agree(J * 2^(K + d), a * T, 2^(K + d + G - 1))
  <2>1. K + d + 1 \in Nat /\ K + d + G - 1 \in Nat /\ K + d + 1 <= K + d + G - 1
    OBVIOUS
  <2>2. J * 2^(K + d) \in Nat /\ a * T \in Nat
    BY <1>1, <1>2, PowerOfTwo
  <2> QED BY <1>7, <2>1, <2>2, AgreeAbove
<1> QED BY <1>1, <1>3, <1>8 DEF J, Jam, JamsTo

\* ui32_to_f32, ui64_to_f64.
LEMMA UnsignedToFloat ==
    ASSUME NEW f, IsFormat(f), NEW rm \in RoundingModes, NEW a \in 0 .. 2^Width(f) - 1
    PROVE  uintToFloat(f, a, rm) = FromIntSpec(f, a, rm)
<1> DEFINE T == 2^(Width(f) - 1)
<1>1. /\ f.F \in Nat /\ f.G \in Nat /\ f.G >= 6 /\ Width(f) = f.F + f.G + 2 /\ Width(f) - 1 = f.F + f.G + 1
      /\ W64 \in Nat /\ Width(f) <= W64 /\ Depth \in Nat /\ Bias(f) \in Nat
  BY FormatFacts, DepthSize DEF Reach
<1>2. T \in Nat /\ T >= 2 /\ 2^Width(f) = 2 * T /\ 2 * T <= 2^(2 * W64) /\ 2^(2 * W64) \in Nat
      /\ T = 2 * 2^(f.F + f.G) /\ 2^(f.F + f.G) \in Nat /\ 2^(f.F + f.G) >= 1
  <2>1. /\ Width(f) - 1 \in Nat /\ 2 * W64 \in Nat /\ Width(f) - 1 < 2 * W64
        /\ Width(f) \in Nat /\ Width(f) >= 1 /\ f.F + f.G \in Nat
    BY <1>1
  <2>2. 2^(f.F + f.G + 1) = 2 * 2^(f.F + f.G)
    BY <2>1, PowerDoubles
  <2>3. 2^Width(f) = 2 * T
    BY <2>1, PowerStep
  <2> QED BY <1>1, <2>1, <2>2, <2>3, PowerOfTwo, PowerStrict
<1> HIDE DEF T
<1>3. a \in Nat /\ a < 2 * T /\ a < 2^(2 * W64)
  BY <1>2
<1>4. Sign(a) = 0 /\ Abs(a) = a
  BY <1>3 DEF Sign, Abs
<1>5. CASE a = 0
  BY <1>5 DEF uintToFloat, FromIntSpec
<1>6. CASE a # 0
  <2>1. FromIntSpec(f, a, rm) = ValueRounded(f, 0, -Depth, a * 2^Depth, rm)
    <3>1. Rounded(f, 0, Mag(a, 1, 0), rm) = ValueRounded(f, 0, -Depth, a * 2^Depth, rm)
      BY <1>3, <1>6, IntegerRounded
    <3> QED BY <1>4, <1>6, <3>1 DEF FromIntSpec
  <2>2. CASE a < T
    <3>1. uintToFloat(f, a, rm) = normRoundPack(f, 0, Bias(f) + Width(f) - 3, a, rm)
      BY <1>2, <1>3, <1>6, <2>2 DEF uintToFloat, T
    <3>2. normRoundPack(f, 0, Bias(f) + Width(f) - 3, a, rm) = ValueRounded(f, 0, -Depth, a * 2^Depth, rm)
      <4>1. a < 2^(f.F + f.G + 1)
        BY <1>1, <2>2 DEF T
      <4> QED BY <1>3, <1>6, <4>1, NormPacksInteger
    <3> QED BY <2>1, <3>1, <3>2
  <2>3. CASE a >= T
    <3> DEFINE sig == Or1(a \div 2, a % 2 = 1)
               ex  == Bias(f) + Width(f) - 2
    <3>1. uintToFloat(f, a, rm) = roundPack(f, 0, ex, sig, rm)
      BY <1>2, <1>3, <1>6, <2>3 DEF uintToFloat, T
    <3>2. sig = Or1(a \div 2^1, a % 2^1 # 0) /\ 2^1 = 2
      <4>1. 2^(0 + 1) = 2 * 2^0 /\ 2^0 = 1
        BY PowerDoubles, PowerZero
      <4>2. a % 2 = 1 <=> a % 2 # 0
        BY <1>3
      <4>3. 2^1 = 2
        BY <4>1
      <4> QED BY <4>2, <4>3
    <3>3. sig \in Nat /\ Agree(sig * 2^(Depth + 1), a * 2^Depth, 2^(Depth + 1 + f.G - 1))
      <4>1. a < 2^((2 * W64 + 1) - 1) /\ 2 * W64 + 1 \in Nat /\ 2 * W64 + 1 >= 1
        BY <1>1, <1>3
      <4>2. f.G >= 3 /\ 1 \in Nat /\ 1 >= 1
        BY <1>1
      <4>3. JamsTo(a, 1, Depth, f.G)
        BY <1>1, <1>3, <4>1, <4>2, JamScaled
      <4> QED BY <3>2, <4>3 DEF JamsTo, Jam
    <3>4. Normalised(f, sig)
      <4>1. a \div 2 \in Nat /\ 2^(f.F + f.G) <= a \div 2 /\ a \div 2 < T
        BY <1>2, <1>3, <2>3
      <4>2. sig <= T - 1
        BY <1>2, <4>1 DEF Or1
      <4>3. sig >= a \div 2
        BY <4>1 DEF Or1
      <4> QED BY <1>1, <1>2, <3>3, <4>1, <4>2, <4>3 DEF Normalised, T
    <3>5. ex \in Int /\ Depth + 1 \in Nat /\ -Depth = Apart(ex, Base(f), Depth + 1)
      BY <1>1 DEF Apart, Base
    <3>6. a * 2^Depth \in Nat
      BY <1>1, <1>3, PowerOfTwo
    <3> HIDE DEF sig, ex
    <3>7. roundPack(f, 0, ex, sig, rm) = ValueRounded(f, 0, -Depth, a * 2^Depth, rm)
      BY <3>3, <3>4, <3>5, <3>6, PacksValue
    <3> QED BY <2>1, <3>1, <3>7
  <2> QED BY <1>2, <1>3, <2>2, <2>3
<1> QED BY <1>5, <1>6


LEMMA BitsShifted ==
    ASSUME NEW n \in Nat, NEW b, HasBits(n, b), NEW m \in Nat, m < b
    PROVE  HasBits(n \div 2^m, b - m) /\ n \div 2^m \in Nat
<1> DEFINE M == 2^m
           T == 2^(b - 1 - m)
           q == n \div M
<1>1. b \in Nat /\ b >= 1 /\ b - 1 \in Nat /\ b - 1 - m \in Nat /\ b - m \in Nat \ {0} /\ (b - m) - 1 = b - 1 - m
  BY DEF HasBits
<1>2. M \in Nat /\ M >= 1 /\ T \in Nat /\ T >= 1
  BY <1>1, PowerOfTwo
<1>3. 2^(b - 1) = T * M /\ 2^b = 2 * (T * M) /\ 2^(b - m) = 2 * T
  <2>1. 2^b = 2 * 2^(b - 1)
    BY <1>1, PowerStep
  <2>2. 2^(b - m) = 2 * 2^((b - m) - 1)
    BY <1>1, PowerStep
  <2>3. 2^(b - 1) = 2^((b - 1) - m) * 2^m
    BY <1>1, PowerDiff
  <2> QED BY <1>1, <2>1, <2>2, <2>3
<1>4. T * M <= n /\ n < 2 * (T * M)
  BY <1>3 DEF HasBits
<1> HIDE DEF M, T
<1>5. q \in Int /\ n % M \in 0 .. M - 1 /\ n = M * q + (n % M)
  BY <1>2, Euclid
<1>6. q \in Nat
  BY <1>2
<1> HIDE DEF q
<1>7. q >= T
  <2> SUFFICES ASSUME q < T PROVE FALSE
    BY <1>2, <1>6
  <2>1. M * (q + 1) <= M * T
    BY <1>2, <1>6
  <2>2. M * (q + 1) = M * q + M /\ M * T = T * M
    BY <1>2, <1>6
  <2>3. M * q \in Int /\ T * M \in Int
    BY <1>2, <1>6
  <2> QED BY <1>2, <1>4, <1>5, <2>1, <2>2, <2>3
<1>8. q < 2 * T
  <2> SUFFICES ASSUME q >= 2 * T PROVE FALSE
    BY <1>2, <1>6
  <2>1. M * q >= M * (2 * T)
    BY <1>2, <1>6
  <2>2. M * (2 * T) = 2 * (T * M)
    BY <1>2
  <2>3. M * q \in Int /\ T * M \in Int
    BY <1>2, <1>6
  <2> QED BY <1>2, <1>4, <1>5, <2>1, <2>2, <2>3
<1>9. q >= 2^((b - m) - 1) /\ q < 2^(b - m)
  BY <1>1, <1>3, <1>7, <1>8 DEF T
<1> QED BY <1>1, <1>6, <1>9 DEF HasBits, q, M

\* A shifted and jammed significand has the bits of the shifted one.
LEMMA JamBits ==
    ASSUME NEW a \in Nat, NEW d \in Nat, NEW B \in Nat \ {0}, HasBits(a \div 2^d, B), a \div 2^d \in Nat
    PROVE  HasBits(Jam(a, d), B) /\ Jam(a, d) \in Nat
<1> DEFINE q == a \div 2^d
           T == 2^(B - 1)
<1>1. T \in Nat /\ T >= 1 /\ 2^B = 2 * T
  BY PowerOfTwo, PowerStep
<1>2. q \in Nat /\ T <= q /\ q < 2 * T
  BY <1>1 DEF HasBits
<1>3. Jam(a, d) = Or1(q, a % 2^d # 0)
  BY DEF Jam
<1> HIDE DEF q, T
<1>4. Jam(a, d) \in Nat /\ T <= Jam(a, d) /\ Jam(a, d) < 2 * T
  BY <1>1, <1>2, <1>3 DEF Or1
<1> QED BY <1>1, <1>4 DEF HasBits, T

LEMMA NoLeadingOne ==
    ASSUME NEW w \in Nat
    PROVE  countLeadingZeros(w, 0) = w
<1>1. \A n \in 0 .. w : 0 < 2^(w - n) /\ (n # w => ~(0 >= 2^(w - n - 1)))
  <2> TAKE n \in 0 .. w
  <2>1. 2^(w - n) >= 1 /\ 2^(w - n) \in Nat
    BY PowerOfTwo
  <2>2. n # w => 2^(w - n - 1) \in Nat /\ 2^(w - n - 1) >= 1
    BY PowerOfTwo
  <2> QED BY <2>1, <2>2
<1>2. \A n \in 0 .. w : 0 < 2^(w - n) /\ (n = w \/ 0 >= 2^(w - n - 1)) <=> n = w
  BY <1>1
<1>3. w \in 0 .. w
  OBVIOUS
<1> DEFINE P(n) == 0 < 2^(w - n) /\ (n = w \/ 0 >= 2^(w - n - 1))
<1>4. \A n \in 0 .. w : P(n) <=> n = w
  BY <1>2
<1>5. countLeadingZeros(w, 0) = CHOOSE n \in 0 .. w : P(n)
  BY DEF countLeadingZeros
<1> HIDE DEF P
<1> QED BY <1>3, <1>4, <1>5, Zenon

\* i64_to_f32, ui64_to_f32.
LEMMA LongToFloat ==
    ASSUME NEW sign \in {0, 1}, NEW rm \in RoundingModes, NEW mag \in Nat, mag < 2^W64
    PROVE  /\ mag = 0 => longToF32(sign, mag, rm) = Exact(0)
           /\ mag # 0 => longToF32(sign, mag, rm) = ValueRounded(F32, sign, -Depth, mag * 2^Depth, rm)
<1> DEFINE f == F32
           dist == softfloat_countLeadingZeros64(mag) - (W64 - (f.F + 1))
           d    == dist + f.G
<1>0. IsFormat(f)
  BY Formats
<1>1. /\ f.F \in Nat /\ f.G \in Nat /\ f.G >= 6 /\ W64 \in Nat /\ f.F + f.G + 2 <= W64
      /\ Bias(f) \in Nat /\ W64 <= Bias(f) /\ Depth \in Nat /\ Depth = 2 * W64 /\ ExpMax(f) = 2 * Bias(f) + 1
  BY <1>0, FormatFacts, DepthSize, ConversionAssumption DEF Reach, Depth
<1>2. CASE mag = 0
  <2>1. softfloat_countLeadingZeros64(mag) = W64
    BY <1>1, <1>2, NoLeadingOne DEF softfloat_countLeadingZeros64
  <2>2. dist >= 0
    BY <1>1, <2>1
  <2> QED BY <1>2, <2>2 DEF longToF32
<1>3. CASE mag # 0
  <2>1. PICK b \in 1 .. W64 : HasBits(mag, b)
    BY <1>1, <1>3, BitsExist
  <2>2. b \in Nat /\ 1 <= b /\ b <= W64
    BY <1>1
  <2>3. dist = f.F + 1 - b /\ d = f.F + f.G + 1 - b
    <3>1. softfloat_countLeadingZeros64(mag) = W64 - b
      BY <1>1, <1>3, <2>1, <2>2, LeadingZeros DEF softfloat_countLeadingZeros64
    <3> QED BY <1>1, <2>2, <3>1
  <2>4. CASE dist >= 0
    <3> DEFINE e == Bias(f) + f.F - 1 - dist
               k == Depth - dist - f.G
               N == mag * 2^dist
    <3>1. longToF32(sign, mag, rm) = Exact(packToUI(f, sign, e, N))
      BY <1>3, <2>4 DEF longToF32
    <3> HIDE DEF f, dist, d
    <3>2. dist \in Nat /\ dist <= f.F
      BY <1>1, <2>2, <2>3, <2>4
    <3>3. e \in Int /\ e >= 0 /\ e <= ExpMax(f) - 2 /\ k \in Nat /\ e + Base(f) - k = -Depth
          /\ dist + (k + f.G) = Depth /\ k + f.G \in Nat
      BY <1>1, <3>2 DEF Base
    <3>4. HasBits(N, f.F + 1) /\ N \in Nat
      <4>1. HasBits(N, b + dist)
        BY <2>1, <3>2, BitsScaled
      <4>2. b + dist = f.F + 1
        BY <1>1, <2>2, <2>3
      <4>3. N \in Nat
        BY <3>2, PowerOfTwo
      <4> QED BY <4>1, <4>2, <4>3
    <3>5. N * 2^(k + f.G) = mag * 2^Depth
      <4> DEFINE g == k + f.G
      <4>0. mag \in Int /\ dist \in Nat /\ g \in Nat /\ dist + g = Depth
        BY <3>2, <3>3
      <4> HIDE DEF g
      <4>1. (mag * 2^dist) * 2^g = mag * 2^(dist + g)
        BY <4>0, MovedBits
      <4> QED BY <4>0, <4>1 DEF g
    <3> HIDE DEF N, e, k
    <3>6. N >= 1 /\ N < 2^(f.F + 1) /\ (N >= 2^f.F \/ e = 0)
      <4>1. (f.F + 1) - 1 = f.F
        BY <1>1
      <4>2. 2^f.F >= 1 /\ 2^f.F \in Nat
        BY <1>1, PowerOfTwo
      <4> QED BY <3>4, <4>1, <4>2 DEF HasBits
    <3>7. ExactAs(f, sign, e, N, rm, k)
      BY <1>0, <3>3, <3>4, <3>6, ExactBase
    <3>8. ValueRounded(f, sign, -Depth, mag * 2^Depth, rm) = Exact(packToUI(f, sign, e, N))
      BY <3>3, <3>5, <3>7 DEF ExactAs
    <3> QED BY <1>3, <3>1, <3>8 DEF f
  <2>5. CASE dist < 0
    <3> DEFINE ex == Bias(f) + f.F + f.G - 1 - d
    <3>0. d \in Int /\ ex \in Int /\ ~(dist >= 0)
      BY <1>1, <2>2, <2>3, <2>5
    <3>1. HasBits(mag, b) /\ f.F + f.G + 1 \in Nat \ {0}
      BY <1>1, <2>1
    <3>2. ASSUME NEW sig \in Nat, HasBits(sig, f.F + f.G + 1) PROVE Normalised(f, sig)
      <4>1. (f.F + f.G + 1) - 1 = f.F + f.G
        BY <1>1
      <4> QED BY <3>2, <4>1 DEF HasBits, Normalised
    <3>3. mag * 2^Depth \in Nat
      BY <1>1, PowerOfTwo
    <3>4. CASE d < 0
      <4> DEFINE m == -d
                 sig == Jam(mag, m)
                 k == Depth + m
      <4>1. longToF32(sign, mag, rm) = roundPack(f, sign, ex, sig, rm)
        BY <2>5, <3>0, <3>4 DEF longToF32, softfloat_roundPackToF32, softfloat_shortShiftRightJam64, Jam
      <4> HIDE DEF f, dist, d
      <4>2. m \in Nat /\ m >= 1 /\ m < b /\ b - m = f.F + f.G + 1 /\ k \in Nat /\ -Depth = Apart(ex, Base(f), k)
        BY <1>1, <2>2, <2>3, <3>0, <3>4 DEF Base, Apart
      <4> HIDE DEF m, ex
      <4>3. HasBits(mag \div 2^m, f.F + f.G + 1) /\ mag \div 2^m \in Nat
        BY <3>1, <4>2, BitsShifted
      <4>4. HasBits(sig, f.F + f.G + 1) /\ sig \in Nat
        BY <3>1, <4>2, <4>3, JamBits
      <4>5. JamsTo(mag, m, Depth, f.G)
        <5>1. W64 + 1 \in Nat /\ W64 + 1 >= 1 /\ mag < 2^((W64 + 1) - 1) /\ f.G >= 3
          BY <1>1
        <5> QED BY <1>1, <4>2, <5>1, JamScaled
      <4>6. Agree(sig * 2^k, mag * 2^Depth, 2^(k + f.G - 1))
        BY <4>5 DEF JamsTo
      <4> HIDE DEF sig, k
      <4>7. roundPack(f, sign, ex, sig, rm) = ValueRounded(f, sign, -Depth, mag * 2^Depth, rm)
        BY <1>0, <3>0, <3>2, <3>3, <4>2, <4>4, <4>6, PacksValue
      <4> QED BY <1>3, <4>1, <4>7 DEF f
    <3>5. CASE d >= 0
      <4> DEFINE sig == mag * 2^d
                 k == Depth - d
      <4>1. longToF32(sign, mag, rm) = roundPack(f, sign, ex, sig, rm)
        BY <2>5, <3>0, <3>5 DEF longToF32, softfloat_roundPackToF32
      <4> HIDE DEF f, dist, d
      <4>2. d \in Nat /\ b + d = f.F + f.G + 1 /\ k \in Nat /\ -Depth = Apart(ex, Base(f), k) /\ d + k = Depth
        BY <1>1, <2>2, <2>3, <3>0, <3>5 DEF Base, Apart
      <4> HIDE DEF ex
      <4>3. HasBits(sig, f.F + f.G + 1) /\ sig \in Nat
        <5>1. HasBits(sig, b + d)
          BY <3>1, <4>2, BitsScaled
        <5> QED BY <4>2, <5>1, PowerOfTwo
      <4>4. sig * 2^k = mag * 2^Depth
        <5>0. mag \in Int /\ d \in Nat /\ k \in Nat
          BY <4>2
        <5> HIDE DEF k
        <5>1. (mag * 2^d) * 2^k = mag * 2^(d + k)
          BY <5>0, MovedBits
        <5> QED BY <4>2, <5>1
      <4>5. Agree(sig * 2^k, mag * 2^Depth, 2^(k + f.G - 1))
        BY <4>4, AgreeSame
      <4> HIDE DEF sig, k
      <4>6. roundPack(f, sign, ex, sig, rm) = ValueRounded(f, sign, -Depth, mag * 2^Depth, rm)
        BY <1>0, <3>0, <3>2, <3>3, <4>2, <4>3, <4>5, PacksValue
      <4> QED BY <1>3, <4>1, <4>6 DEF f
    <3> QED BY <3>0, <3>4, <3>5
  <2> QED BY <1>1, <2>2, <2>3, <2>4, <2>5
<1> QED BY <1>2, <1>3


------------------------------------------------------------------------------
(* Conversion between formats *)

\* A value of less than half of the least that the format holds.
Vanishing(f, sign, rm) ==
    [v |-> packToUI(f, sign, 0, RoundM(0, 1, sign, rm)), fl |-> {"inexact", "underflow"}]

LEMMA BelowHalf ==
    ASSUME NEW X \in Nat, X >= 1, NEW H \in Nat, X < H
    PROVE  X \div H = 0 /\ Sticky(X, H) = 1
<1>1. X = H * 0 + X
  OBVIOUS
<1>2. X \div H = 0 /\ X % H = X
  BY <1>1, DivModUnique
<1> QED BY <1>2 DEF Sticky

LEMMA TinyRounds ==
    ASSUME NEW f, IsFormat(f), NEW L \in Int, NEW X \in Nat, NEW B, HasBits(X, B), L + B + Bias(f) + f.F <= 0,
           NEW sign \in {0, 1}, NEW rm \in RoundingModes
    PROVE  ValueRounded(f, sign, L, X, rm) = Vanishing(f, sign, rm)
<1> DEFINE lg == L + B - 1
           q == LastPlace(f, lg)
           H == 2^(q - 1 - L)
           m == RoundM(X \div H, Sticky(X, H), sign, rm)
           i == RoundI(X \div H, Sticky(X, H))
           c == RoundM(X \div 2^(B - f.F - 2), Sticky(X, 2^(B - f.F - 2)), sign, rm)
<1>1. f.F \in Nat /\ f.F >= 1 /\ Bias(f) \in Nat /\ Bias(f) >= 1 /\ B \in Nat /\ B >= 1
  BY FormatFacts DEF HasBits
<1>2. lg \in Int /\ lg < 1 - Bias(f) /\ lg # 1 - Bias(f) - 1 /\ q = 1 - Bias(f) - f.F
  BY <1>1 DEF LastPlace
<1>3. /\ q - 1 - L \in Nat /\ B \in 0 .. q - 1 - L
      /\ q + f.F + Bias(f) - 1 = 0 /\ ~(q + f.F > Bias(f)) /\ q + f.F # Bias(f)
  <2> HIDE DEF q
  <2> QED BY <1>1, <1>2
<1> HIDE DEF lg
<1>4. X >= 1 /\ X < H /\ H \in Nat
  <2>1. 2^B <= H /\ 2^B \in Nat /\ H \in Nat /\ X < 2^B /\ 2^(B - 1) <= X /\ 2^(B - 1) \in Nat /\ 2^(B - 1) >= 1
    BY <1>1, <1>3, PowerMonotone, PowerOfTwo DEF HasBits
  <2> QED BY <2>1
<1>5. X \div H = 0 /\ Sticky(X, H) = 1
  <2> HIDE DEF H
  <2> QED BY <1>4, BelowHalf
<1>6. m = RoundM(0, 1, sign, rm) /\ i = 1
  BY <1>5 DEF RoundI
<1>7. ValueRounded(f, sign, L, X, rm) = Outcome(f, sign, lg, m, i, c, rm)
  <2>1. ValueRounded(f, sign, L, X, rm) = RoundedAt(f, sign, L, B, X, rm)
    BY ValueAt
  <2> QED BY <2>1 DEF RoundedAt, lg
<1> HIDE DEF H, m, i, c
<1>8. Outcome(f, sign, lg, m, i, c, rm) = [v |-> packToUI(f, sign, 0, m), fl |-> {"inexact", "underflow"}]
  <2> DEFINE Q == LastPlace(f, lg)
  <2>1. /\ Q + f.F + Bias(f) - 1 = 0 /\ ~(Q + f.F > Bias(f)) /\ Q + f.F # Bias(f)
    BY <1>3
  <2>2. ~(Q + f.F > Bias(f) \/ (Q + f.F = Bias(f) /\ m = 2^(f.F + 1)))
    BY <2>1
  <2>3. lg < 1 - Bias(f) /\ ~(lg = 1 - Bias(f) - 1 /\ c = 2^(f.F + 1))
    BY <1>2
  <2>4. i # 0
    BY <1>6
  <2> HIDE DEF Q
  <2>5. Outcome(f, sign, lg, m, i, c, rm)
          = [v |-> packToUI(f, sign, Q + f.F + Bias(f) - 1, m), fl |-> {"inexact", "underflow"}]
    BY <2>2, <2>3, <2>4, Zenon DEF Outcome, Q
  <2> QED BY <2>1, <2>5
<1> QED BY <1>6, <1>7, <1>8 DEF Vanishing

\* The place where the significand of F64 is cut.
Cut == F64.F - (F32.F + F32.G)

LEMMA NarrowFinite ==
    ASSUME NEW a \in Word(F64), ~IsSpecial(F64, a), ~IsZero(F64, a), NEW rm \in RoundingModes
    PROVE  f64_to_f32(a, rm) = Rounded(F32, signUI(F64, a), MagOf(F64, a), rm)
<1> DEFINE f == F32
           g == F64
           s == signUI(g, a)
           e == expUI(g, a)
           fr == fracUI(g, a)
           n == Significand(g, a)
           c == MagOf(g, a)
           ex == e - (Bias(g) - Bias(f) + 1)
           sig == Jam(fr, Cut) + 2^(f.F + f.G)
           K == Depth
           L == c.e - K
           X == n * 2^K
<1>0. IsFormat(f) /\ IsFormat(g)
  BY Formats
<1>1. /\ f.F \in Nat /\ f.F >= 1 /\ f.G \in Nat /\ f.G >= 6 /\ Bias(f) \in Nat /\ Bias(f) >= 1
      /\ g.F \in Nat /\ Bias(g) \in Nat /\ W64 \in Nat /\ g.F + 2 <= W64 /\ f.F + f.G + 2 <= W64
      /\ f.F + f.G < g.F /\ Bias(f) + f.F < Bias(g) /\ K \in Nat /\ K = 2 * W64 /\ g.G \in Nat
      /\ ExpMax(g) = 2 * Bias(g) + 1
  BY <1>0, FormatFacts, DepthSize, FormatAssumption, ConversionAssumption DEF Reach, Depth
<1>2. Cut \in Nat /\ Cut >= 1 /\ Cut + (f.F + f.G) = g.F
  BY <1>1 DEF Cut
<1>3. /\ s \in {0, 1} /\ e \in Nat /\ fr \in Nat /\ fr < 2^g.F /\ 2^g.F \in Nat /\ 2^g.F >= 1
  <2>1. Fielded(g, a)
    BY <1>0, Fields
  <2>2. 2^g.F \in Nat /\ 2^g.F >= 1
    BY <1>1, PowerOfTwo
  <2>3. e \in Nat
    BY <1>1, <2>1 DEF Fielded
  <2> QED BY <2>1, <2>2, <2>3 DEF Fielded
<1>4. /\ c = [n |-> n, d |-> 1, e |-> Exponent(g, a) - Bias(g) - g.F]
      /\ Exponent(g, a) = (IF e = 0 THEN 1 ELSE e)
      /\ n = fr + (IF e # 0 THEN 2^g.F ELSE 0)
  BY <1>0, MagOfFields DEF Exponent, Significand, Hidden
<1>5. /\ c.n = n /\ c.e = (IF e = 0 THEN 1 ELSE e) - Bias(g) - g.F /\ c.e \in Int /\ n \in Nat /\ n >= 1
      /\ n < 2 * 2^g.F /\ (e # 0 => n >= 2^g.F) /\ (e = 0 => n = fr)
  <2>1. e = 0 => fr # 0
    BY DEF IsZero
  <2> QED BY <1>1, <1>3, <1>4, <2>1
<1>6. n < 2^(2 * W64) /\ n < 2^(g.F + 1) /\ 2^(g.F + 1) \in Nat
  <2>1. g.F + 1 \in 0 .. 2 * W64 /\ 2 * W64 \in Nat
    BY <1>1
  <2>2. 2^(g.F + 1) = 2 * 2^g.F /\ 2^(g.F + 1) <= 2^(2 * W64) /\ 2^(2 * W64) \in Nat
    BY <1>1, <2>1, PowerDoubles, PowerMonotone, PowerOfTwo
  <2> QED BY <1>3, <1>5, <2>2
<1>7. f64_to_f32(a, rm) = roundPack(f, s, ex, sig, rm)
  <2>1. ~(IsSpecial(F64, a))
    OBVIOUS
  <2>2. Jam(fr, Cut) = softfloat_shortShiftRightJam64(fr, g.F - (f.F + f.G))
    BY DEF Jam, softfloat_shortShiftRightJam64, Cut
  <2>3. ~(e = 0 /\ Jam(fr, Cut) = 0)
    <3> SUFFICES ASSUME e = 0, Jam(fr, Cut) = 0 PROVE FALSE
      OBVIOUS
    <3> DEFINE D == 2^Cut
    <3>1. D \in Nat /\ D >= 1
      BY <1>2, PowerOfTwo
    <3>2. Or1(fr \div D, fr % D # 0) = 0
      BY DEF Jam
    <3> HIDE DEF D, fr
    <3>0. fr \in Int /\ D \in Nat /\ D >= 1
      BY <1>3, <3>1
    <3>3. fr \div D \in Int /\ fr % D \in 0 .. (D - 1) /\ fr = D * (fr \div D) + (fr % D)
      BY <3>0, Euclid
    <3>4. fr \div D \in Nat
      BY <1>3, <3>1
    <3>5. fr \div D = 0 /\ fr % D = 0
      BY <3>2, <3>4 DEF Or1
    <3>6. fr = 0
      BY <3>1, <3>3, <3>5
    <3> QED BY <1>5, <3>6
  <2> QED BY <2>1, <2>2, <2>3 DEF f64_to_f32, softfloat_roundPackToF32
<1> HIDE DEF f, g, s, e, fr, n, c
<1>8. Rounded(f, s, c, rm) = ValueRounded(f, s, L, X, rm)
  <2>1. L \in Int /\ L <= c.e /\ c.e - L = K /\ L + (f.F + 3) <= c.e
    BY <1>1, <1>5
  <2>2. X \in Nat
    BY <1>1, <1>5, PowerOfTwo
  <2>3. Denotes(c, L, X)
    BY <1>4, <1>5, <1>6, <2>1 DEF Denotes
  <2> HIDE DEF L, X
  <2> QED BY <1>0, <1>3, <1>5, <2>1, <2>2, <2>3, RoundedDenotes
<1>9. ex \in Int
  BY <1>1, <1>3
<1> HIDE DEF ex
<1>10. 2^(f.F + f.G) \in Nat /\ 2^g.F = 2^(f.F + f.G) * 2^Cut /\ 2^Cut \in Nat \ {0}
  <2>1. f.F + f.G \in Nat /\ (f.F + f.G) + Cut = g.F
    BY <1>1, <1>2
  <2>2. 2^((f.F + f.G) + Cut) = 2^(f.F + f.G) * 2^Cut
    BY <1>2, <2>1, PowerSum
  <2> QED BY <1>2, <2>1, <2>2, PowerOfTwo
<1>11. CASE e # 0
  <2>1. n = fr + 2^g.F
    BY <1>4, <1>11
  <2>2. Jam(n, Cut) = sig
    <3> DEFINE D == 2^Cut
               P == 2^(f.F + f.G)
               q == fr \div D
    <3>1. n = P * D + fr
      BY <1>3, <1>10, <2>1
    <3>2. P % 2 = 0
      <4>1. f.F + f.G - 1 \in Nat /\ f.F + f.G \in Nat /\ f.F + f.G >= 1
        BY <1>1
      <4>2. P = 2 * 2^((f.F + f.G) - 1) /\ 2^((f.F + f.G) - 1) \in Nat
        BY <4>1, PowerStep, PowerOfTwo
      <4> DEFINE h == 2^((f.F + f.G) - 1)
      <4> HIDE DEF h, P
      <4> QED BY <4>2 DEF h
    <3> HIDE DEF D, P
    <3>0. P \in Int /\ fr \in Int /\ D \in Nat \ {0} /\ P \in Nat
      BY <1>3, <1>10 DEF D, P
    <3>3. n \div D = P + q /\ n % D = fr % D
      BY <3>0, <3>1, ShiftedDivMod
    <3>4. q \in Nat
      BY <1>3, <1>10 DEF D
    <3>5. Jam(n, Cut) = Or1(P + q, fr % D # 0) /\ Jam(fr, Cut) = Or1(q, fr % D # 0)
      BY <3>3 DEF Jam, D
    <3> HIDE DEF q
    <3>6. P \in Nat /\ (P + q) % 2 = q % 2
      BY <3>0, <3>2, <3>4
    <3>7. Or1(P + q, fr % D # 0) = Or1(q, fr % D # 0) + P
      BY <3>4, <3>6 DEF Or1
    <3> QED BY <3>5, <3>7 DEF P
  <2>3. HasBits(n, g.F + 1)
    <3>1. (g.F + 1) - 1 = g.F /\ g.F + 1 \in Nat \ {0}
      BY <1>1
    <3> QED BY <1>5, <1>6, <1>11, <3>1 DEF HasBits
  <2>4. HasBits(sig, f.F + f.G + 1) /\ sig \in Nat
    <3>1. Cut < g.F + 1 /\ (g.F + 1) - Cut = f.F + f.G + 1 /\ f.F + f.G + 1 \in Nat \ {0}
      BY <1>1, <1>2
    <3>2. HasBits(n \div 2^Cut, f.F + f.G + 1) /\ n \div 2^Cut \in Nat
      BY <1>2, <1>5, <2>3, <3>1, BitsShifted
    <3>3. HasBits(Jam(n, Cut), f.F + f.G + 1) /\ Jam(n, Cut) \in Nat
      BY <1>2, <1>5, <3>1, <3>2, JamBits
    <3> QED BY <2>2, <3>3
  <2>5. Normalised(f, sig)
    <3>1. (f.F + f.G + 1) - 1 = f.F + f.G
      BY <1>1
    <3> QED BY <2>4, <3>1 DEF HasBits, Normalised
  <2>6. JamsTo(n, Cut, K, f.G)
    <3>1. 2 * W64 + 1 \in Nat /\ 2 * W64 + 1 >= 1 /\ n < 2^((2 * W64 + 1) - 1) /\ f.G >= 3 /\ f.G \in Nat
      BY <1>1, <1>6
    <3> QED BY <1>1, <1>2, <1>5, <3>1, JamScaled
  <2>7. Agree(sig * 2^(K + Cut), X, 2^(K + Cut + f.G - 1))
    BY <2>2, <2>6 DEF JamsTo
  <2>8. K + Cut \in Nat /\ L = Apart(ex, Base(f), K + Cut)
    BY <1>1, <1>2, <1>3, <1>5, <1>11 DEF Apart, Base, ex
  <2>9. X \in Nat
    BY <1>1, <1>5, PowerOfTwo
  <2> HIDE DEF sig, X, L
  <2>10. roundPack(f, s, ex, sig, rm) = ValueRounded(f, s, L, X, rm)
    BY <1>0, <1>3, <1>9, <2>4, <2>5, <2>7, <2>8, <2>9, PacksValue
  <2> QED BY <1>7, <1>8, <2>10 DEF f, g, s, c
<1>12. CASE e = 0
  <2>1. ValueRounded(f, s, L, X, rm) = Vanishing(f, s, rm)
    <3>1. n < 2^g.F /\ n >= 1
      BY <1>3, <1>5, <1>12
    <3>2. PICK b \in 1 .. g.F : HasBits(n, b)
      BY <1>1, <1>5, <3>1, BitsExist
    <3>3. HasBits(X, b + K) /\ X \in Nat
      <4>1. K \in Nat /\ n \in Nat
        BY <1>1, <1>5
      <4> HIDE DEF K
      <4>2. HasBits(n * 2^K, b + K)
        BY <3>2, <4>1, BitsScaled
      <4>3. 2^K \in Nat
        BY <4>1, PowerOfTwo
      <4> QED BY <4>1, <4>2, <4>3
    <3>4. L \in Int /\ L + (b + K) + Bias(f) + f.F <= 0
      BY <1>1, <1>5, <1>12, <3>2
    <3> HIDE DEF L, X
    <3> QED BY <1>0, <1>3, <3>3, <3>4, TinyRounds
  <2>2. HasBits(sig, f.F + f.G + 1) /\ sig \in Nat
    <3> DEFINE D == 2^Cut
               P == 2^(f.F + f.G)
               q == fr \div D
    <3>1. q \in Nat /\ q < P
      <4>1. D \in Nat /\ D >= 1 /\ P \in Nat /\ fr < P * D
        BY <1>3, <1>10
      <4> HIDE DEF D, P
      <4>0. fr \in Int /\ D \in Nat /\ D >= 1
        BY <1>3, <4>1
      <4>2. q \in Int /\ fr % D \in 0 .. (D - 1) /\ fr = D * q + (fr % D)
        BY <4>0, Euclid
      <4>3. q \in Nat
        BY <1>3, <4>1
      <4> HIDE DEF q
      <4>4. D * q \in Nat /\ D * q <= fr
        BY <4>1, <4>2, <4>3
      <4>5. q >= P => D * q >= D * P
        BY <4>1, <4>3
      <4>6. D * P = P * D /\ D * P \in Nat
        BY <4>1
      <4> QED BY <1>3, <4>1, <4>3, <4>4, <4>5, <4>6
    <3>2. P \in Nat /\ P >= 2 /\ P % 2 = 0 /\ 2^(f.F + f.G + 1) = 2 * P
      <4>1. f.F + f.G \in Nat /\ f.F + f.G >= 1 /\ (f.F + f.G) - 1 \in Nat
        BY <1>1
      <4>2. P = 2 * 2^((f.F + f.G) - 1) /\ 2^((f.F + f.G) - 1) \in Nat /\ 2^((f.F + f.G) - 1) >= 1
        BY <4>1, PowerStep, PowerOfTwo
      <4>3. 2^(f.F + f.G + 1) = 2 * P
        BY <4>1, PowerDoubles
      <4> DEFINE h == 2^((f.F + f.G) - 1)
      <4> HIDE DEF h, P
      <4> QED BY <4>2, <4>3 DEF h
    <3>3. Jam(fr, Cut) = Or1(q, fr % D # 0)
      BY DEF Jam
    <3> HIDE DEF q, P
    <3>4. Jam(fr, Cut) \in Nat /\ Jam(fr, Cut) < P
      BY <3>1, <3>2, <3>3 DEF Or1
    <3>5. (f.F + f.G + 1) - 1 = f.F + f.G /\ f.F + f.G + 1 \in Nat \ {0}
      BY <1>1
    <3>6. sig = Jam(fr, Cut) + P
      BY DEF P
    <3>7. sig \in Nat /\ P <= sig /\ sig < 2 * P
      BY <3>2, <3>4, <3>6
    <3> HIDE DEF sig
    <3>8. sig >= 2^((f.F + f.G + 1) - 1) /\ sig < 2^(f.F + f.G + 1)
      BY <3>2, <3>5, <3>7 DEF P
    <3> QED BY <3>5, <3>7, <3>8 DEF HasBits
  <2>3. Normalised(f, sig)
    <3>1. (f.F + f.G + 1) - 1 = f.F + f.G
      BY <1>1
    <3> QED BY <2>2, <3>1 DEF HasBits, Normalised
  <2>4. roundPack(f, s, ex, sig, rm) = ValueRounded(f, s, ex + Base(f), sig, rm)
    <3>1. PICK z \in Nat : z = 0
      OBVIOUS
    <3> DEFINE l == ex + Base(f)
    <3>2. l = Apart(ex, Base(f), z) /\ sig * 2^z = sig
      <4>1. 2^z = 1
        BY <3>1, PowerZero
      <4>2. Base(f) \in Int
        BY <1>0, BaseInt
      <4> HIDE DEF sig
      <4> QED BY <1>9, <2>2, <3>1, <4>1, <4>2 DEF Apart
    <3>3. Agree(sig * 2^z, sig, 2^(z + f.G - 1))
      BY <3>2, AgreeSame
    <3> HIDE DEF sig, l
    <3>4. roundPack(f, s, ex, sig, rm) = ValueRounded(f, s, l, sig, rm)
      BY <1>0, <1>3, <1>9, <2>2, <2>3, <3>2, <3>3, PacksValue
    <3> QED BY <3>4 DEF l
  <2>5. ValueRounded(f, s, ex + Base(f), sig, rm) = Vanishing(f, s, rm)
    <3>1. ex + Base(f) \in Int /\ (ex + Base(f)) + (f.F + f.G + 1) + Bias(f) + f.F <= 0
      BY <1>1, <1>12 DEF Base, ex
    <3> DEFINE l == ex + Base(f)
               b == f.F + f.G + 1
    <3>2. l \in Int /\ l + b + Bias(f) + f.F <= 0
      BY <3>1
    <3>3. HasBits(sig, b)
      BY <2>2
    <3> HIDE DEF sig, l, b
    <3>4. ValueRounded(f, s, l, sig, rm) = Vanishing(f, s, rm)
      BY <1>0, <1>3, <2>2, <3>2, <3>3, TinyRounds
    <3> QED BY <3>4 DEF l
  <2> QED BY <1>7, <1>8, <2>1, <2>4, <2>5 DEF f, g, s, c
<1> QED BY <1>11, <1>12


------------------------------------------------------------------------------
(* Conversions to integers: rounding *)

\* The result for a magnitude rounded to m (ix = 1 when not exactly).
IntResult(w, signed, s, m, ix) ==
    LET lo == IF signed THEN -(2^(w - 1)) ELSE 0
        hi == IF signed THEN 2^(w - 1) - 1 ELSE 2^w - 1
        i  == IF s = 1 THEN -m ELSE m
    IN  IF i \in lo .. hi THEN [v |-> i, fl |-> IF ix = 1 THEN {"inexact"} ELSE {}]
        ELSE Saturated(w, signed, s)

Saturates(w, signed, s, m, ix) == IntResult(w, signed, s, m, ix) = Saturated(w, signed, s)

LEMMA TooLarge ==
    ASSUME NEW w \in Nat, w >= 1, NEW signed \in BOOLEAN, NEW s \in {0, 1}, NEW m \in Nat, m >= 2^w, NEW ix
    PROVE  Saturates(w, signed, s, m, ix)
<1>1. 2^w = 2 * 2^(w - 1) /\ 2^(w - 1) \in Nat /\ 2^(w - 1) >= 1
  BY PowerStep, PowerOfTwo
<1> DEFINE T == 2^(w - 1)
<1>2. T \in Nat /\ T >= 1 /\ 2^w = 2 * T /\ m >= 2 * T
  BY <1>1
<1> HIDE DEF T
<1>3. (IF s = 1 THEN -m ELSE m) \notin (IF signed THEN -T ELSE 0) .. (IF signed THEN T - 1 ELSE 2 * T - 1)
  BY <1>2
<1> QED BY <1>2, <1>3 DEF Saturates, IntResult, T

\* Reading a signed magnitude of less than a word as a signed integer.
SignedAs(w, s, m, ix, z) ==
    IntResult(w, TRUE, s, m, ix)
      = IF z # 0 /\ (z < 0) # (s = 1) THEN Saturated(w, TRUE, s) ELSE Inexact(z, ix = 1)

LEMMA SignedWord ==
    ASSUME NEW w \in Nat, w >= 1, NEW s \in {0, 1}, NEW m \in Nat, m < 2^w, NEW ix \in {0, 1}, NEW z,
           z = ToSigned(w, (IF s = 1 THEN -m ELSE m) % 2^w)
    PROVE  SignedAs(w, s, m, ix, z)
<1> DEFINE T == 2^(w - 1)
           W == 2^w
<1>1. T \in Nat /\ T >= 1 /\ W = 2 * T /\ W \in Nat
  BY PowerStep, PowerOfTwo
<1>2. m < W
  OBVIOUS
<1>3. z = IF (IF s = 1 THEN -m ELSE m) % W >= T THEN ((IF s = 1 THEN -m ELSE m) % W) - W ELSE (IF s = 1 THEN -m ELSE m) % W
  BY DEF ToSigned
<1>4. IntResult(w, TRUE, s, m, ix)
        = IF (IF s = 1 THEN -m ELSE m) \in (-T) .. (T - 1)
          THEN [v |-> (IF s = 1 THEN -m ELSE m), fl |-> IF ix = 1 THEN {"inexact"} ELSE {}]
          ELSE Saturated(w, TRUE, s)
  BY DEF IntResult
<1> HIDE DEF T, W
<1> USE DEF SignedAs
<1>5. CASE s = 0
  <2>1. m % W = m
    <3>1. m = W * 0 + m
      BY <1>1
    <3> QED BY <1>1, <1>2, <3>1, DivModUnique
  <2>2. z = IF m >= T THEN m - W ELSE m
    BY <1>3, <1>5, <2>1
  <2>3. (m \in (-T) .. (T - 1)) <=> ~(z # 0 /\ (z < 0) # (s = 1))
    BY <1>1, <1>2, <1>5, <2>2
  <2>4. m \in (-T) .. (T - 1) => z = m
    BY <1>1, <2>2
  <2>5. (IF s = 1 THEN -m ELSE m) = m
    BY <1>5
  <2>6. CASE m \in (-T) .. (T - 1)
    BY <1>4, <2>3, <2>4, <2>5, <2>6 DEF Inexact
  <2>7. CASE m \notin (-T) .. (T - 1)
    BY <1>4, <2>3, <2>5, <2>7
  <2> QED BY <2>6, <2>7
<1>6. CASE s = 1 /\ m = 0
  <2>1. (-m) % W = 0
    <3>1. -m = W * 0 + 0
      BY <1>1, <1>6
    <3> QED BY <1>1, <3>1, DivModUnique
  <2>2. z = 0
    BY <1>1, <1>3, <1>6, <2>1
  <2>3. -m \in (-T) .. (T - 1) /\ -m = z
    BY <1>1, <1>6, <2>2
  <2> QED BY <1>4, <1>6, <2>2, <2>3 DEF Inexact
<1>7. CASE s = 1 /\ m # 0
  <2>1. (-m) % W = W - m
    <3>1. -m = W * (-1) + (W - m) /\ W - m \in Nat /\ W - m < W
      BY <1>1, <1>2, <1>7
    <3> QED BY <1>1, <3>1, DivModUnique
  <2>2. z = IF W - m >= T THEN -m ELSE W - m
    BY <1>1, <1>3, <1>7, <2>1
  <2>3. (-m \in (-T) .. (T - 1)) <=> ~(z # 0 /\ (z < 0) # (s = 1))
    BY <1>1, <1>2, <1>7, <2>2
  <2>4. -m \in (-T) .. (T - 1) => z = -m
    BY <1>1, <1>2, <2>2
  <2> QED BY <1>4, <1>7, <2>3, <2>4 DEF Inexact
<1> QED BY <1>5, <1>6, <1>7

LEMMA IntSizes ==
    /\ IntGuard \in Nat /\ IntGuard >= 2 /\ IntGuard - 1 \in Nat /\ IntBits \in Nat /\ IntBits >= 1
    /\ 2^(IntGuard - 1) \in Nat /\ 2^(IntGuard - 1) >= 2 /\ 2^IntGuard = 2 * 2^(IntGuard - 1)
    /\ 2^IntBits \in Nat /\ 2^IntBits >= 1 /\ 2^IntBits % 2 = 0
    /\ IntGuard <= F32.F /\ IntBits <= W32 /\ IntBits + IntGuard <= F64.F
<1>1. /\ IntGuard \in Nat /\ IntGuard >= 2 /\ IntGuard - 1 \in Nat /\ IntBits \in Nat /\ IntBits >= 1
      /\ IntGuard <= F32.F /\ IntBits <= W32 /\ IntBits + IntGuard <= F64.F
  <2>1. F32.F \in Nat /\ F32.G \in Nat
    BY Formats DEF IsFormat
  <2> QED BY <2>1, FormatAssumption, ConversionAssumption DEF W32, Width
<1>2. 2^IntGuard = 2 * 2^(IntGuard - 1) /\ 2^IntBits = 2 * 2^(IntBits - 1)
  BY <1>1, PowerStep
<1>3. 2^(IntGuard - 1) = 2 * 2^((IntGuard - 1) - 1) /\ 2^((IntGuard - 1) - 1) \in Nat /\ 2^((IntGuard - 1) - 1) >= 1
  <2>1. IntGuard - 1 \in Nat /\ IntGuard - 1 >= 1 /\ (IntGuard - 1) - 1 \in Nat
    BY <1>1
  <2> QED BY <2>1, PowerStep, PowerOfTwo
<1>4. 2^(IntBits - 1) \in Nat /\ 2^(IntBits - 1) >= 1
  BY <1>1, PowerOfTwo
<1> DEFINE h == 2^(IntBits - 1)
           k == 2^((IntGuard - 1) - 1)
<1>5. h \in Nat /\ h >= 1 /\ 2^IntBits = 2 * h /\ k \in Nat /\ k >= 1 /\ 2^(IntGuard - 1) = 2 * k
  BY <1>2, <1>3, <1>4
<1> HIDE DEF h, k
<1>6. 2^IntBits \in Nat /\ 2^IntBits >= 1 /\ 2^IntBits % 2 = 0
  BY <1>5
<1>7. 2^(IntGuard - 1) \in Nat /\ 2^(IntGuard - 1) >= 2
  BY <1>5
<1> QED BY <1>1, <1>2, <1>6, <1>7

LEMMA RoundParts ==
    ASSUME NEW w \in Nat, NEW st \in {0, 1}, NEW sign, NEW rm
    PROVE  /\ RoundM(w, st, sign, rm) \in Nat /\ RoundI(w, st) \in {0, 1}
           /\ RoundM(w, st, sign, rm) \in {w \div 2, (w \div 2) + 1}
<1>1. w \div 2 \in Nat
  OBVIOUS
<1> QED BY <1>1 DEF RoundM, RoundI

LEMMA RoundParity ==
    ASSUME NEW up \in Nat, NEW r \in Nat, NEW W \in Nat, W % 2 = 0,
           r # up => up % 2 = 1 /\ r = up - 1
    PROVE  up >= W <=> r >= W
OBVIOUS

\* What a word's rounding computes, by the rounding of the halves it drops.
LEMMA RoundWord ==
    ASSUME NEW sign \in {0, 1}, NEW sig \in Nat, NEW rm \in RoundingModes
    PROVE  LET H    == 2^(IntGuard - 1)
               m    == RoundM(sig \div H, Sticky(sig, H), sign, rm)
               ix   == RoundI(sig \div H, Sticky(sig, H))
               up   == (sig + Increment(H, sign, rm)) \div 2^IntGuard
               bits == sig % 2^IntGuard
           IN  /\ m \in Nat /\ ix \in {0, 1} /\ (bits # 0 <=> ix = 1)
               /\ m = IF bits = H /\ rm = "RTE" THEN up - (up % 2) ELSE up
               /\ up >= 2^IntBits <=> m >= 2^IntBits
<1> DEFINE H == 2^(IntGuard - 1)
           w == sig \div H
           st == Sticky(sig, H)
           m == RoundM(w, st, sign, rm)
           ix == RoundI(w, st)
           up == (sig + Increment(H, sign, rm)) \div (2 * H)
           r  == IF sig % (2 * H) = H /\ rm = "RTE" THEN up - (up % 2) ELSE up
<1>1. H \in Nat /\ H >= 2 /\ 2^IntGuard = 2 * H
  BY IntSizes
<1>2. IncrementRounds(sig, H, sign, rm)
  <2> HIDE DEF H
  <2> QED BY <1>1, IncrementForm
<1> HIDE DEF H
<1>3. w \in Nat /\ st \in {0, 1}
  BY <1>1 DEF Sticky
<1>4. m \in Nat /\ ix \in {0, 1}
  <2> HIDE DEF w, st
  <2> QED BY <1>3, RoundParts
<1>5. /\ r = m /\ (sig % (2 * H) # 0 <=> ix = 1) /\ (r # up => up % 2 = 1 /\ r = up - 1)
      /\ up \in {sig \div (2 * H), (sig \div (2 * H)) + 1}
  BY <1>2 DEF IncrementRounds
<1>6. up \in Nat
  <2>1. sig \div (2 * H) \in Nat
    BY <1>1
  <2> QED BY <1>5, <2>1
<1>7. up >= 2^IntBits <=> m >= 2^IntBits
  <2>1. m # up => up % 2 = 1 /\ m = up - 1
    BY <1>5
  <2> HIDE DEF up, m
  <2> QED BY <1>4, <1>6, <2>1, IntSizes, RoundParity
<1> QED BY <1>1, <1>4, <1>5, <1>7 DEF H


\* The word sig, in units of 2^-IntGuard, rounded to an integer of IntBits.
WordRounded(signed, sign, sig, rm) ==
    LET H == 2^(IntGuard - 1)
    IN  IntResult(IntBits, signed, sign, RoundM(sig \div H, Sticky(sig, H), sign, rm), RoundI(sig \div H, Sticky(sig, H)))

LEMMA RoundToI32 ==
    ASSUME NEW sign \in {0, 1}, NEW sig \in Nat, NEW rm \in RoundingModes
    PROVE  softfloat_roundToI32(sign, sig, rm) = WordRounded(TRUE, sign, sig, rm)
<1> DEFINE H == 2^(IntGuard - 1)
           m    == RoundM(sig \div H, Sticky(sig, H), sign, rm)
           ix   == RoundI(sig \div H, Sticky(sig, H))
           inc  == IF rm \in {"RMM", "RTE"} THEN 2^(IntGuard - 1)
                   ELSE IF RoundedUp(sign, rm) THEN 2^IntGuard - 1 ELSE 0
           bits == sig % 2^IntGuard
           up   == (sig + inc) \div 2^IntGuard
           s32  == IF bits = 2^(IntGuard - 1) /\ rm = "RTE" THEN up - (up % 2) ELSE up
           z    == ToSigned(IntBits, (IF sign = 1 THEN -s32 ELSE s32) % 2^IntBits)
<1>1. inc = Increment(H, sign, rm)
  BY IntSizes DEF Increment, RoundedUp, RoundingModes
<1>2. /\ m \in Nat /\ ix \in {0, 1} /\ (bits # 0 <=> ix = 1)
      /\ m = s32 /\ (up >= 2^IntBits <=> m >= 2^IntBits)
  BY <1>1, RoundWord
<1>3. softfloat_roundToI32(sign, sig, rm) = IF \/ up >= 2^IntBits
                                               \/ z # 0 /\ (z < 0) # (sign = 1)
                                            THEN Saturated(IntBits, TRUE, sign)
                                            ELSE Inexact(z, bits # 0)
  BY DEF softfloat_roundToI32
<1>4. WordRounded(TRUE, sign, sig, rm) = IntResult(IntBits, TRUE, sign, m, ix)
  BY DEF WordRounded
<1>5. z = ToSigned(IntBits, (IF sign = 1 THEN -m ELSE m) % 2^IntBits)
  BY <1>2
<1>6. Inexact(z, bits # 0) = Inexact(z, ix = 1)
  BY <1>2 DEF Inexact
<1>7. IntBits \in Nat /\ IntBits >= 1 /\ 2^IntBits \in Nat
  BY IntSizes
<1> HIDE DEF H, m, ix, inc, bits, up, s32, z
<1>8. CASE up >= 2^IntBits
  <2>1. IntResult(IntBits, TRUE, sign, m, ix) = Saturated(IntBits, TRUE, sign)
    <3>1. m >= 2^IntBits /\ TRUE \in BOOLEAN
      BY <1>2, <1>8
    <3>2. Saturates(IntBits, TRUE, sign, m, ix)
      BY <1>2, <1>7, <3>1, TooLarge
    <3> QED BY <3>2 DEF Saturates
  <2> QED BY <1>3, <1>4, <1>8, <2>1
<1>9. CASE ~(up >= 2^IntBits)
  <2>1. m < 2^IntBits
    BY <1>2, <1>7, <1>9
  <2>2. IntResult(IntBits, TRUE, sign, m, ix)
          = IF z # 0 /\ (z < 0) # (sign = 1) THEN Saturated(IntBits, TRUE, sign) ELSE Inexact(z, ix = 1)
    <3>1. SignedAs(IntBits, sign, m, ix, z)
      BY <1>2, <1>5, <1>7, <2>1, SignedWord
    <3> QED BY <3>1 DEF SignedAs
  <2> QED BY <1>3, <1>4, <1>6, <1>9, <2>2
<1> QED BY <1>8, <1>9

UnsignedAs(w, s, m, ix) ==
    IntResult(w, FALSE, s, m, ix)
      = IF m >= 2^w \/ (s = 1 /\ m # 0) THEN Saturated(w, FALSE, s) ELSE Inexact(m, ix = 1)

LEMMA UnsignedResult ==
    ASSUME NEW w \in Nat, w >= 1, NEW s \in {0, 1}, NEW m \in Nat, NEW ix \in {0, 1}
    PROVE  UnsignedAs(w, s, m, ix)
<1> DEFINE W == 2^w
<1>1. W \in Nat /\ W >= 1
  BY PowerOfTwo
<1>2. IntResult(w, FALSE, s, m, ix)
        = IF (IF s = 1 THEN -m ELSE m) \in 0 .. (W - 1)
          THEN [v |-> (IF s = 1 THEN -m ELSE m), fl |-> IF ix = 1 THEN {"inexact"} ELSE {}]
          ELSE Saturated(w, FALSE, s)
  BY DEF IntResult
<1> HIDE DEF W
<1>3. ((IF s = 1 THEN -m ELSE m) \in 0 .. (W - 1)) <=> ~(m >= W \/ (s = 1 /\ m # 0))
  BY <1>1
<1>4. ~(m >= W \/ (s = 1 /\ m # 0)) => (IF s = 1 THEN -m ELSE m) = m
  OBVIOUS
<1>5. CASE m >= W \/ (s = 1 /\ m # 0)
  BY <1>2, <1>3, <1>5 DEF W, UnsignedAs
<1>6. CASE ~(m >= W \/ (s = 1 /\ m # 0))
  BY <1>2, <1>3, <1>4, <1>6 DEF W, Inexact, UnsignedAs
<1> QED BY <1>5, <1>6

LEMMA ZeroHalves ==
    ASSUME NEW H \in Nat, H >= 1, NEW sign, NEW rm
    PROVE  /\ 0 \div H = 0 /\ Sticky(0, H) = 0 /\ RoundM(0, 0, sign, rm) = 0 /\ RoundI(0, 0) = 0
<1>1. 0 \div H = 0 /\ 0 % H = 0
  <2>1. 0 = H * 0 + 0
    OBVIOUS
  <2> QED BY <2>1, DivModUnique
<1>2. 0 \div 2 = 0 /\ 0 % 2 = 0
  OBVIOUS
<1> QED BY <1>1, <1>2 DEF Sticky, RoundM, RoundI

\* Anything at all is rounded down from zero to an integer below it.
LEMMA RoundedBelow ==
    ASSUME NEW s \in Nat, s >= 1, NEW H \in Nat, H >= 1
    PROVE  RoundM(s \div H, Sticky(s, H), 1, "RDN") >= 1
<1> DEFINE w == s \div H
           r == s % H
<1>1. w \in Nat
  OBVIOUS
<1>2. w \in Int /\ r \in 0 .. (H - 1) /\ s = H * w + r
  <2>1. s \in Int
    OBVIOUS
  <2> QED BY <2>1, Euclid
<1>3. w = 0 => r # 0
  <2> HIDE DEF w, r
  <2> QED BY <1>2
<1>4. w \div 2 \in Nat /\ (w >= 2 => w \div 2 >= 1) /\ (w = 1 => w % 2 = 1)
  <2> HIDE DEF w
  <2> QED BY <1>1
<1>5. Sticky(s, H) = IF r = 0 THEN 0 ELSE 1
  BY DEF Sticky
<1> HIDE DEF w, r
<1>6. RoundM(w, Sticky(s, H), 1, "RDN") >= 1
  <2>1. CASE w = 0
    BY <1>3, <1>4, <1>5, <2>1 DEF RoundM
  <2>2. CASE w = 1
    BY <1>4, <2>2 DEF RoundM
  <2>3. CASE w >= 2
    BY <1>4, <2>3 DEF RoundM
  <2> QED BY <1>1, <2>1, <2>2, <2>3
<1> QED BY <1>6 DEF w

LEMMA RoundToUI32 ==
    ASSUME NEW sign \in {0, 1}, NEW sig \in Nat, NEW rm \in RoundingModes
    PROVE  softfloat_roundToUI32(sign, sig, rm) = WordRounded(FALSE, sign, sig, rm)
<1> DEFINE H == 2^(IntGuard - 1)
           m    == RoundM(sig \div H, Sticky(sig, H), sign, rm)
           ix   == RoundI(sig \div H, Sticky(sig, H))
           inc  == IF rm \in {"RMM", "RTE"} THEN 2^(IntGuard - 1)
                   ELSE IF sign = 0 /\ rm = "RUP" THEN 2^IntGuard - 1 ELSE 0
           bits == sig % 2^IntGuard
           up   == (sig + inc) \div 2^IntGuard
           z    == IF bits = 2^(IntGuard - 1) /\ rm = "RTE" THEN up - (up % 2) ELSE up
           up0  == (sig + Increment(H, sign, rm)) \div 2^IntGuard
           z0   == IF bits = 2^(IntGuard - 1) /\ rm = "RTE" THEN up0 - (up0 % 2) ELSE up0
<1>1. ~(sign = 1 /\ rm = "RDN") => inc = Increment(H, sign, rm)
  BY IntSizes DEF Increment, RoundingModes
<1>2. /\ m \in Nat /\ ix \in {0, 1} /\ (bits # 0 <=> ix = 1)
      /\ m = z0 /\ (up0 >= 2^IntBits <=> m >= 2^IntBits)
  BY RoundWord
<1>3. softfloat_roundToUI32(sign, sig, rm)
        = IF rm \notin {"RMM", "RTE"} /\ sign = 1 /\ sig = 0 THEN Exact(0)
          ELSE IF (sign = 1 /\ rm = "RDN") \/ up >= 2^IntBits \/ (sign = 1 /\ z # 0)
          THEN Saturated(IntBits, FALSE, sign) ELSE Inexact(z, bits # 0)
  BY DEF softfloat_roundToUI32
<1>4. WordRounded(FALSE, sign, sig, rm) = IntResult(IntBits, FALSE, sign, m, ix)
  BY DEF WordRounded
<1>5. IntBits \in Nat /\ IntBits >= 1 /\ 2^IntBits \in Nat /\ 2^IntBits >= 1 /\ H \in Nat /\ H >= 1
  BY IntSizes
<1>6. IntResult(IntBits, FALSE, sign, m, ix)
        = IF m >= 2^IntBits \/ (sign = 1 /\ m # 0) THEN Saturated(IntBits, FALSE, sign) ELSE Inexact(m, ix = 1)
  <2> HIDE DEF m, ix
  <2>1. UnsignedAs(IntBits, sign, m, ix)
    BY <1>2, <1>5, UnsignedResult
  <2> QED BY <2>1 DEF UnsignedAs
<1>7. sig = 0 => m = 0 /\ ix = 0
  BY <1>5, ZeroHalves
<1>8. sign = 1 /\ rm = "RDN" /\ sig # 0 => m >= 1
  <2> SUFFICES ASSUME sign = 1, rm = "RDN", sig # 0 PROVE m >= 1
    OBVIOUS
  <2>1. sig >= 1
    OBVIOUS
  <2> HIDE DEF H
  <2>2. RoundM(sig \div H, Sticky(sig, H), 1, "RDN") >= 1
    BY <1>5, <2>1, RoundedBelow
  <2> QED BY <2>2
<1>9. Inexact(m, bits # 0) = Inexact(m, ix = 1)
  BY <1>2 DEF Inexact
<1>10. sig = 0 => Inexact(m, ix = 1) = Exact(0)
  BY <1>7 DEF Inexact, Exact
<1>11. ~(sign = 1 /\ rm = "RDN") => up = up0 /\ z = z0
  BY <1>1
<1> HIDE DEF H, m, ix, inc, bits, up, z, up0, z0
<1>14. sig = 0 => WordRounded(FALSE, sign, sig, rm) = Exact(0)
  <2> SUFFICES ASSUME sig = 0 PROVE WordRounded(FALSE, sign, sig, rm) = Exact(0)
    OBVIOUS
  <2>1. ~(m >= 2^IntBits \/ (sign = 1 /\ m # 0))
    BY <1>5, <1>7
  <2>2. IntResult(IntBits, FALSE, sign, m, ix) = Inexact(m, ix = 1)
    BY <1>6, <2>1
  <2> QED BY <1>4, <1>10, <2>2
<1>12. CASE sign = 1 /\ rm = "RDN"
  <2>0. rm \notin {"RMM", "RTE"}
    BY <1>12
  <2>1. CASE sig = 0
    BY <1>3, <1>12, <1>14, <2>0, <2>1
  <2>2. CASE sig # 0
    <3>1. softfloat_roundToUI32(sign, sig, rm) = Saturated(IntBits, FALSE, sign)
      BY <1>3, <1>12, <2>2
    <3>2. m >= 2^IntBits \/ (sign = 1 /\ m # 0)
      BY <1>2, <1>8, <1>12, <2>2
    <3>3. IntResult(IntBits, FALSE, sign, m, ix) = Saturated(IntBits, FALSE, sign)
      BY <1>6, <3>2
    <3> QED BY <1>4, <3>1, <3>3
  <2> QED BY <2>1, <2>2
<1>13. CASE ~(sign = 1 /\ rm = "RDN")
  <2>1. CASE rm \notin {"RMM", "RTE"} /\ sign = 1 /\ sig = 0
    BY <1>3, <1>14, <2>1
  <2>2. CASE ~(rm \notin {"RMM", "RTE"} /\ sign = 1 /\ sig = 0)
    <3>1. softfloat_roundToUI32(sign, sig, rm)
            = IF m >= 2^IntBits \/ (sign = 1 /\ m # 0) THEN Saturated(IntBits, FALSE, sign) ELSE Inexact(m, bits # 0)
      BY <1>2, <1>3, <1>11, <1>13, <2>2
    <3> QED BY <1>4, <1>6, <1>9, <3>1
  <2> QED BY <2>1, <2>2
<1> QED BY <1>12, <1>13


\* X units, of which 2 * H make one, rounded to an integer of w bits.
IntRounded(w, signed, s, X, H, rm) ==
    IntResult(w, signed, s, RoundM(X \div H, Sticky(X, H), s, rm), RoundI(X \div H, Sticky(X, H)))

RoundsAlike(w, signed, s, X, H, Y, K, rm) ==
    IntRounded(w, signed, s, X, H, rm) = IntRounded(w, signed, s, Y, K, rm)

LEMMA AlikeAgreeing ==
    ASSUME NEW w, NEW signed, NEW s, NEW rm, NEW X, NEW Y, NEW H, Agree(X, Y, H)
    PROVE  RoundsAlike(w, signed, s, X, H, Y, H, rm)
BY DEF RoundsAlike, IntRounded, Agree

LEMMA AlikeScaled ==
    ASSUME NEW w, NEW signed, NEW s, NEW rm, NEW X \in Nat, NEW H \in Nat \ {0}, NEW K \in Nat \ {0}
    PROVE  RoundsAlike(w, signed, s, X, H, X * K, H * K, rm)
<1>0. X \in Int
  OBVIOUS
<1>1. (X * K) \div (H * K) = X \div H /\ (X * K) % (H * K) = (X % H) * K
  BY <1>0, ScaledDivMod
<1>2. X % H \in Nat
  OBVIOUS
<1>3. (X % H) * K = 0 <=> X % H = 0
  <2> DEFINE r == X % H
  <2> HIDE DEF r
  <2>1. r * K = 0 <=> r = 0
    BY <1>2 DEF r
  <2> QED BY <2>1 DEF r
<1>4. Sticky(X * K, H * K) = Sticky(X, H)
  BY <1>1, <1>3 DEF Sticky
<1> QED BY <1>1, <1>4 DEF RoundsAlike, IntRounded

\* Less than a half in either unit.
LEMMA AlikeBelow ==
    ASSUME NEW w, NEW signed, NEW s, NEW rm, NEW X \in Nat, X >= 1, NEW H \in Nat, X < H,
           NEW Y \in Nat, Y >= 1, NEW K \in Nat, Y < K
    PROVE  RoundsAlike(w, signed, s, X, H, Y, K, rm)
<1>1. X \div H = 0 /\ Sticky(X, H) = 1 /\ Y \div K = 0 /\ Sticky(Y, K) = 1
  BY BelowHalf
<1> QED BY <1>1 DEF RoundsAlike, IntRounded

LEMMA AlikeZero ==
    ASSUME NEW w, NEW signed, NEW s, NEW rm, NEW H \in Nat, H >= 1, NEW K \in Nat, K >= 1
    PROVE  RoundsAlike(w, signed, s, 0, H, 0, K, rm)
<1>1. 0 \div H = 0 /\ Sticky(0, H) = 0 /\ 0 \div K = 0 /\ Sticky(0, K) = 0
  BY ZeroHalves
<1> QED BY <1>1 DEF RoundsAlike, IntRounded

Overflows(w, signed, s, X, H, rm) == IntRounded(w, signed, s, X, H, rm) = Saturated(w, signed, s)

LEMMA LargeOverflows ==
    ASSUME NEW w \in Nat, w >= 1, NEW signed \in BOOLEAN, NEW s \in {0, 1}, NEW rm, NEW X \in Nat, NEW H \in Nat, H >= 1,
           X >= (2 * 2^w) * H
    PROVE  Overflows(w, signed, s, X, H, rm)
<1> DEFINE W == 2^w
           q == X \div H
           st == Sticky(X, H)
           m == RoundM(q, st, s, rm)
<1>1. W \in Nat
  BY PowerOfTwo
<1>2. q \in Nat /\ st \in {0, 1}
  BY DEF Sticky
<1>3. q >= 2 * W
  <2>1. X \in Int /\ H \in Nat /\ H >= 1
    OBVIOUS
  <2>2. q \in Int /\ X % H \in 0 .. (H - 1) /\ X = H * q + (X % H)
    BY <2>1, Euclid
  <2>3. X >= (2 * W) * H
    OBVIOUS
  <2> DEFINE V == 2 * W
             r == X % H
  <2>4. V \in Nat /\ X >= V * H /\ r < H /\ X = H * q + r /\ r \in Nat
    BY <1>1, <2>2, <2>3
  <2> HIDE DEF V, q, r
  <2>5. H * q + H > V * H
    BY <1>2, <2>4
  <2>6. H * (q + 1) > H * V
    BY <1>2, <2>4, <2>5
  <2>7. q + 1 > V
    BY <1>2, <2>4, <2>6
  <2> QED BY <1>2, <2>4, <2>7 DEF V
<1>4. m \in Nat /\ m \in {q \div 2, (q \div 2) + 1}
  <2> HIDE DEF q, st
  <2> QED BY <1>2, RoundParts
<1>5. q \div 2 >= W
  <2> HIDE DEF q, W
  <2> QED BY <1>1, <1>2, <1>3
<1>6. m >= 2^w
  <2>1. q \div 2 \in Nat
    <3> HIDE DEF q
    <3> QED BY <1>2
  <2> DEFINE h == q \div 2
  <2> HIDE DEF h, m, W
  <2>2. m >= W
    BY <1>1, <1>4, <1>5, <2>1 DEF h
  <2> QED BY <2>2 DEF W
<1> HIDE DEF m
<1>7. Saturates(w, signed, s, m, RoundI(q, st))
  BY <1>4, <1>6, TooLarge
<1> QED BY <1>7 DEF Saturates, Overflows, IntRounded, m

LEMMA LongHalves ==
    ASSUME NEW T \in Nat, T >= 1, NEW sig \in Nat, NEW extra \in Nat, extra < 2 * T
    PROVE  LET S == sig * (2 * T) + extra
           IN  /\ S \in Nat /\ S \div T \in Nat /\ (S \div T) \div 2 = sig
               /\ (S \div T) % 2 = (IF extra >= T THEN 1 ELSE 0)
               /\ Sticky(S, T) = (IF extra = 0 \/ extra = T THEN 0 ELSE 1)
<1> DEFINE S == sig * (2 * T) + extra
<1>1. sig * (2 * T) = T * (2 * sig) /\ T * (2 * sig) \in Nat /\ S \in Nat
  BY DEF S
<1>2. CASE extra < T
  <2>1. S = T * (2 * sig) + extra
    BY <1>1
  <2> DEFINE u == 2 * sig
  <2>2. S \in Int /\ u \in Int /\ extra \in Nat /\ S = T * u + extra
    BY <1>1, <2>1
  <2> HIDE DEF S, u
  <2>3. S \div T = u /\ S % T = extra
    BY <1>2, <2>2, DivModUnique
  <2>4. u \div 2 = sig /\ u % 2 = 0 /\ u \in Nat
    BY DEF u
  <2> QED BY <1>1, <1>2, <2>3, <2>4 DEF Sticky, S
<1>3. CASE extra >= T
  <2> DEFINE u == 2 * sig + 1
             r == extra - T
  <2>1. T * u = T * (2 * sig) + T
    BY <1>1
  <2>2. S \in Int /\ u \in Int /\ r \in Nat /\ r < T /\ S = T * u + r
    BY <1>1, <1>3, <2>1
  <2>3. (r = 0 <=> extra = T) /\ extra # 0
    BY <1>3
  <2> HIDE DEF S, u, r
  <2>4. S \div T = u /\ S % T = r
    BY <2>2, DivModUnique
  <2>5. u \div 2 = sig /\ u % 2 = 1 /\ u \in Nat
    BY DEF u
  <2> QED BY <1>1, <1>3, <2>3, <2>4, <2>5 DEF Sticky, S
<1> QED BY <1>2, <1>3

LEMMA LongSize ==
    /\ W64 \in Nat /\ W64 >= 2 /\ W64 - 1 \in Nat /\ 2^W64 \in Nat /\ 2^(W64 - 1) \in Nat
    /\ 2^(W64 - 1) >= 2 /\ 2^W64 = 2 * 2^(W64 - 1)
<1>1. W64 \in Nat /\ W64 >= 2
  BY Formats, FormatFacts, FormatAssumption DEF W64, Width, IsFormat
<1>2. W64 - 1 \in Nat /\ W64 - 1 >= 1 /\ (W64 - 1) - 1 \in Nat
  BY <1>1
<1>3. 2^(W64 - 1) = 2 * 2^((W64 - 1) - 1) /\ 2^((W64 - 1) - 1) \in Nat /\ 2^((W64 - 1) - 1) >= 1
  BY <1>2, PowerStep, PowerOfTwo
<1>4. 2^W64 = 2 * 2^(W64 - 1) /\ 2^(W64 - 1) \in Nat /\ 2^W64 \in Nat
  BY <1>1, <1>2, PowerStep, PowerOfTwo
<1> DEFINE k == 2^((W64 - 1) - 1)
           T == 2^(W64 - 1)
<1>5. T >= 2
  <2> HIDE DEF k, T
  <2>1. T = 2 * k /\ k \in Nat /\ k >= 1
    BY <1>3 DEF T, k
  <2> QED BY <2>1
<1> QED BY <1>1, <1>2, <1>4, <1>5


\* A word and its fraction word, in units of 2^-W64.
LongRounded(signed, sign, sig, extra, rm) ==
    IntRounded(W64, signed, sign, sig * 2^W64 + extra, 2^(W64 - 1), rm)

LEMMA RoundLong ==
    ASSUME NEW sign \in {0, 1}, NEW sig \in Nat, sig < 2^W64, NEW extra \in Nat, extra < 2^W64, NEW rm \in RoundingModes
    PROVE  LET T   == 2^(W64 - 1)
               S   == sig * 2^W64 + extra
               m   == RoundM(S \div T, Sticky(S, T), sign, rm)
               ix  == RoundI(S \div T, Sticky(S, T))
               inc == IF rm \in {"RMM", "RTE"} THEN extra >= T ELSE extra # 0 /\ RoundedUp(sign, rm)
           IN  /\ m \in Nat /\ ix \in {0, 1} /\ (extra # 0 <=> ix = 1)
               /\ m = IF inc THEN Increment64(sig, extra, rm) ELSE sig
               /\ (inc /\ sig + 1 = 2^W64) <=> m >= 2^W64
<1> DEFINE T   == 2^(W64 - 1)
           S   == sig * 2^W64 + extra
           w   == S \div T
           st  == Sticky(S, T)
           m   == RoundM(w, st, sign, rm)
           ix  == RoundI(w, st)
           inc == IF rm \in {"RMM", "RTE"} THEN extra >= T ELSE extra # 0 /\ RoundedUp(sign, rm)
<1>1. T \in Nat /\ T >= 2 /\ 2^W64 = 2 * T /\ sig < 2 * T /\ extra < 2 * T /\ T >= 1
  BY LongSize
<1>2. Increment64(sig, extra, rm) = IF extra = T /\ rm = "RTE" THEN (sig + 1) - ((sig + 1) % 2) ELSE sig + 1
  BY DEF Increment64
<1>3. S = sig * (2 * T) + extra
  BY <1>1
<1>4. /\ w \in Nat /\ w \div 2 = sig /\ w % 2 = (IF extra >= T THEN 1 ELSE 0)
      /\ st = (IF extra = 0 \/ extra = T THEN 0 ELSE 1)
  <2> HIDE DEF T
  <2>1. LET R == sig * (2 * T) + extra
        IN  /\ R \in Nat /\ R \div T \in Nat /\ (R \div T) \div 2 = sig
            /\ (R \div T) % 2 = (IF extra >= T THEN 1 ELSE 0)
            /\ Sticky(R, T) = (IF extra = 0 \/ extra = T THEN 0 ELSE 1)
    BY <1>1, LongHalves
  <2> HIDE DEF S
  <2> QED BY <1>3, <2>1
<1> DEFINE h == w % 2
<1> HIDE DEF w, st
<1> DEFINE up == \/ rm = "RTE" /\ h = 1 /\ (st = 1 \/ sig % 2 = 1)
                 \/ rm = "RMM" /\ h = 1
                 \/ rm = "RDN" /\ (h = 1 \/ st = 1) /\ sign = 1
                 \/ rm = "RUP" /\ (h = 1 \/ st = 1) /\ sign = 0
<1>5. m = IF up THEN sig + 1 ELSE sig
  <2> DEFINE k == w \div 2
  <2>1. m = IF \/ rm = "RTE" /\ h = 1 /\ (st = 1 \/ k % 2 = 1)
               \/ rm = "RMM" /\ h = 1
               \/ rm = "RDN" /\ (h = 1 \/ st = 1) /\ sign = 1
               \/ rm = "RUP" /\ (h = 1 \/ st = 1) /\ sign = 0
            THEN k + 1 ELSE k
    BY Zenon DEF RoundM
  <2>2. k = sig
    BY <1>4
  <2> HIDE DEF k, h, m
  <2> QED BY <2>1, <2>2
<1>6. ix = IF h = 0 /\ st = 0 THEN 0 ELSE 1
  BY DEF RoundI
<1>10. h = IF extra >= T THEN 1 ELSE 0
  BY <1>4
<1>11. st = (IF extra = 0 \/ extra = T THEN 0 ELSE 1)
  BY <1>4
<1> HIDE DEF T, S, m, ix, h
<1>7. ix \in {0, 1} /\ (extra # 0 <=> ix = 1) /\ m \in Nat
  BY <1>1, <1>5, <1>6, <1>10, <1>11
<1>8. m = IF inc THEN Increment64(sig, extra, rm) ELSE sig
  <2> DEFINE p == sig % 2
  <2>1. (sig + 1) % 2 = 1 - p /\ p \in {0, 1}
    OBVIOUS
  <2>5. up <=> \/ rm = "RTE" /\ h = 1 /\ (st = 1 \/ p = 1)
               \/ rm = "RMM" /\ h = 1
               \/ rm = "RDN" /\ (h = 1 \/ st = 1) /\ sign = 1
               \/ rm = "RUP" /\ (h = 1 \/ st = 1) /\ sign = 0
    BY Zenon
  <2> HIDE DEF p, up
  <2>2. CASE rm = "RTE"
    <3>1. inc <=> extra >= T
      BY <2>2
    <3>5. up <=> h = 1 /\ (st = 1 \/ p = 1)
      BY <2>2, <2>5
    <3>2. CASE extra = T
      <4>1. h = 1 /\ st = 0 /\ inc
        BY <1>1, <1>10, <1>11, <3>1, <3>2
      <4>2. Increment64(sig, extra, rm) = (sig + 1) - (1 - p)
        BY <1>2, <2>1, <2>2, <3>2
      <4>3. up <=> p = 1
        BY <3>5, <4>1
      <4>4. m = (sig + 1) - (1 - p)
        BY <1>5, <2>1, <4>3
      <4> QED BY <4>1, <4>2, <4>4
    <3>3. CASE extra # T /\ extra >= T
      <4>1. h = 1 /\ st = 1 /\ inc
        BY <1>1, <1>10, <1>11, <3>1, <3>3
      <4>2. Increment64(sig, extra, rm) = sig + 1
        BY <1>2, <3>3
      <4> QED BY <1>5, <3>5, <4>1, <4>2
    <3>4. CASE ~(extra >= T)
      BY <1>5, <1>10, <3>1, <3>4, <3>5
    <3> QED BY <3>2, <3>3, <3>4
  <2>3. CASE rm = "RMM"
    <3>1. inc <=> extra >= T
      BY <2>3
    <3>2. Increment64(sig, extra, rm) = sig + 1
      BY <1>2, <2>3
    <3>3. up <=> h = 1
      BY <2>3, <2>5
    <3> HIDE DEF inc
    <3> QED BY <1>5, <1>10, <3>1, <3>2, <3>3
  <2>4. CASE rm \in {"RDN", "RUP", "RTZ"}
    <3>1. inc <=> extra # 0 /\ RoundedUp(sign, rm)
      BY <2>4
    <3>2. Increment64(sig, extra, rm) = sig + 1
      BY <1>2, <2>4
    <3>3. (h = 1 \/ st = 1) <=> extra # 0
      BY <1>1, <1>10, <1>11
    <3>4. up <=> extra # 0 /\ RoundedUp(sign, rm)
      BY <2>4, <2>5, <3>3 DEF RoundedUp
    <3> HIDE DEF inc
    <3> QED BY <1>5, <3>1, <3>2, <3>4
  <2> QED BY <2>2, <2>3, <2>4 DEF RoundingModes
<1> HIDE DEF inc, up
<1>9. (inc /\ sig + 1 = 2 * T) <=> m >= 2 * T
  <2>1. CASE inc /\ sig + 1 = 2 * T
    <3>1. (sig + 1) % 2 = 0
      BY <1>1, <2>1
    <3>2. m = sig + 1
      BY <1>2, <1>8, <2>1, <3>1
    <3> QED BY <1>1, <2>1, <3>2
  <2>2. CASE ~(inc /\ sig + 1 = 2 * T)
    <3>1. CASE ~inc
      BY <1>1, <1>8, <3>1
    <3>2. CASE sig + 1 # 2 * T
      <4>1. m <= sig + 1
        BY <1>5
      <4> QED BY <1>1, <1>7, <3>2, <4>1
    <3> QED BY <2>2, <3>1, <3>2
  <2> QED BY <2>1, <2>2
<1> QED BY <1>1, <1>7, <1>8, <1>9 DEF T, S, w, st, m, ix, inc

LEMMA RoundToI64 ==
    ASSUME NEW sign \in {0, 1}, NEW sig \in Nat, sig < 2^W64, NEW extra \in Nat, extra < 2^W64, NEW rm \in RoundingModes
    PROVE  softfloat_roundToI64(sign, sig, extra, rm) = LongRounded(TRUE, sign, sig, extra, rm)
<1> DEFINE T   == 2^(W64 - 1)
           S   == sig * 2^W64 + extra
           m   == RoundM(S \div T, Sticky(S, T), sign, rm)
           ix  == RoundI(S \div T, Sticky(S, T))
           inc == IF rm \in {"RMM", "RTE"} THEN extra >= 2^(W64 - 1) ELSE extra # 0 /\ RoundedUp(sign, rm)
           s   == IF inc THEN Increment64(sig, extra, rm) ELSE sig
           z   == ToSigned(W64, (IF sign = 1 THEN -s ELSE s) % 2^W64)
<1>2. /\ m \in Nat /\ ix \in {0, 1} /\ (extra # 0 <=> ix = 1)
      /\ m = s /\ ((inc /\ sig + 1 = 2^W64) <=> m >= 2^W64)
  BY RoundLong
<1>3. softfloat_roundToI64(sign, sig, extra, rm) = IF \/ inc /\ sig + 1 = 2^W64
                                                      \/ z # 0 /\ (z < 0) # (sign = 1)
                                                   THEN Saturated(W64, TRUE, sign)
                                                   ELSE Inexact(z, extra # 0)
  BY DEF softfloat_roundToI64
<1>4. LongRounded(TRUE, sign, sig, extra, rm) = IntResult(W64, TRUE, sign, m, ix)
  BY DEF LongRounded, IntRounded
<1>5. z = ToSigned(W64, (IF sign = 1 THEN -m ELSE m) % 2^W64)
  BY <1>2
<1>6. Inexact(z, extra # 0) = Inexact(z, ix = 1)
  BY <1>2 DEF Inexact
<1>7. W64 \in Nat /\ W64 >= 1 /\ 2^W64 \in Nat
  BY LongSize
<1> HIDE DEF T, S, m, ix, inc, s, z
<1>8. CASE inc /\ sig + 1 = 2^W64
  <2>1. IntResult(W64, TRUE, sign, m, ix) = Saturated(W64, TRUE, sign)
    <3>1. m >= 2^W64 /\ TRUE \in BOOLEAN
      BY <1>2, <1>8
    <3>2. Saturates(W64, TRUE, sign, m, ix)
      BY <1>2, <1>7, <3>1, TooLarge
    <3> QED BY <3>2 DEF Saturates
  <2> QED BY <1>3, <1>4, <1>8, <2>1
<1>9. CASE ~(inc /\ sig + 1 = 2^W64)
  <2>1. m < 2^W64
    BY <1>2, <1>7, <1>9
  <2>2. IntResult(W64, TRUE, sign, m, ix)
          = IF z # 0 /\ (z < 0) # (sign = 1) THEN Saturated(W64, TRUE, sign) ELSE Inexact(z, ix = 1)
    <3>1. SignedAs(W64, sign, m, ix, z)
      BY <1>2, <1>5, <1>7, <2>1, SignedWord
    <3> QED BY <3>1 DEF SignedAs
  <2> QED BY <1>3, <1>4, <1>6, <1>9, <2>2
<1> QED BY <1>8, <1>9

LEMMA RoundToUI64 ==
    ASSUME NEW sign \in {0, 1}, NEW sig \in Nat, sig < 2^W64, NEW extra \in Nat, extra < 2^W64, NEW rm \in RoundingModes
    PROVE  softfloat_roundToUI64(sign, sig, extra, rm) = LongRounded(FALSE, sign, sig, extra, rm)
<1> DEFINE T   == 2^(W64 - 1)
           S   == sig * 2^W64 + extra
           m   == RoundM(S \div T, Sticky(S, T), sign, rm)
           ix  == RoundI(S \div T, Sticky(S, T))
           near == rm \in {"RMM", "RTE"}
           inc == IF near THEN extra >= 2^(W64 - 1) ELSE sign = 0 /\ rm = "RUP" /\ extra # 0
           s   == IF inc THEN Increment64(sig, extra, rm) ELSE sig
           in0 == IF rm \in {"RMM", "RTE"} THEN extra >= 2^(W64 - 1) ELSE extra # 0 /\ RoundedUp(sign, rm)
           s0  == IF in0 THEN Increment64(sig, extra, rm) ELSE sig
<1>1. ~(sign = 1 /\ rm = "RDN") => (inc <=> in0)
  BY DEF RoundedUp, RoundingModes
<1>2. /\ m \in Nat /\ ix \in {0, 1} /\ (extra # 0 <=> ix = 1)
      /\ m = s0 /\ ((in0 /\ sig + 1 = 2^W64) <=> m >= 2^W64)
  BY RoundLong
<1>3. softfloat_roundToUI64(sign, sig, extra, rm)
        = IF ~near /\ sign = 1 /\ sig = 0 /\ extra = 0 THEN Exact(0)
          ELSE IF (~near /\ sign = 1 /\ rm = "RDN") \/ (inc /\ sig + 1 = 2^W64) \/ (sign = 1 /\ s # 0)
          THEN Saturated(W64, FALSE, sign) ELSE Inexact(s, extra # 0)
  BY DEF softfloat_roundToUI64
<1>4. LongRounded(FALSE, sign, sig, extra, rm) = IntResult(W64, FALSE, sign, m, ix)
  BY DEF LongRounded, IntRounded
<1>5. W64 \in Nat /\ W64 >= 1 /\ 2^W64 \in Nat /\ 2^W64 >= 1 /\ T \in Nat /\ T >= 1 /\ S \in Nat
  BY LongSize
<1>6. IntResult(W64, FALSE, sign, m, ix)
        = IF m >= 2^W64 \/ (sign = 1 /\ m # 0) THEN Saturated(W64, FALSE, sign) ELSE Inexact(m, ix = 1)
  <2> HIDE DEF m, ix
  <2>1. UnsignedAs(W64, sign, m, ix)
    BY <1>2, <1>5, UnsignedResult
  <2> QED BY <2>1 DEF UnsignedAs
<1>7. sig = 0 /\ extra = 0 => m = 0 /\ ix = 0
  <2> SUFFICES ASSUME sig = 0, extra = 0 PROVE m = 0 /\ ix = 0
    OBVIOUS
  <2>1. S = 0
    BY <1>5
  <2> HIDE DEF S, T
  <2> QED BY <1>5, <2>1, ZeroHalves
<1>8. sign = 1 /\ rm = "RDN" /\ ~(sig = 0 /\ extra = 0) => m >= 1
  <2> SUFFICES ASSUME sign = 1, rm = "RDN", ~(sig = 0 /\ extra = 0) PROVE m >= 1
    OBVIOUS
  <2>1. S >= 1
    <3> DEFINE V == 2^W64
    <3>1. V \in Nat /\ V >= 1
      BY <1>5
    <3> HIDE DEF V
    <3>2. sig * V \in Nat /\ (sig >= 1 => sig * V >= 1)
      BY <3>1
    <3>3. S = sig * V + extra
      BY DEF V
    <3> HIDE DEF S
    <3> QED BY <3>2, <3>3
  <2> HIDE DEF T, S
  <2>2. RoundM(S \div T, Sticky(S, T), 1, "RDN") >= 1
    BY <1>5, <2>1, RoundedBelow
  <2> QED BY <2>2
<1>9. Inexact(m, extra # 0) = Inexact(m, ix = 1)
  BY <1>2 DEF Inexact
<1>10. sig = 0 /\ extra = 0 => Inexact(m, ix = 1) = Exact(0)
  BY <1>7 DEF Inexact, Exact
<1>11. ~(sign = 1 /\ rm = "RDN") => s = s0
  BY <1>1
<1> HIDE DEF T, S, m, ix, inc, s, in0, s0
<1>14. sig = 0 /\ extra = 0 => LongRounded(FALSE, sign, sig, extra, rm) = Exact(0)
  <2> SUFFICES ASSUME sig = 0 /\ extra = 0 PROVE LongRounded(FALSE, sign, sig, extra, rm) = Exact(0)
    OBVIOUS
  <2>1. ~(m >= 2^W64 \/ (sign = 1 /\ m # 0))
    BY <1>5, <1>7
  <2>2. IntResult(W64, FALSE, sign, m, ix) = Inexact(m, ix = 1)
    BY <1>6, <2>1
  <2> QED BY <1>4, <1>10, <2>2
<1>12. CASE sign = 1 /\ rm = "RDN"
  <2>0. ~near
    BY <1>12
  <2>1. CASE sig = 0 /\ extra = 0
    BY <1>3, <1>12, <1>14, <2>0, <2>1
  <2>2. CASE ~(sig = 0 /\ extra = 0)
    <3>1. softfloat_roundToUI64(sign, sig, extra, rm) = Saturated(W64, FALSE, sign)
      BY <1>3, <1>12, <2>0, <2>2
    <3>2. m >= 2^W64 \/ (sign = 1 /\ m # 0)
      BY <1>2, <1>8, <1>12, <2>2
    <3>3. IntResult(W64, FALSE, sign, m, ix) = Saturated(W64, FALSE, sign)
      BY <1>6, <3>2
    <3> QED BY <1>4, <3>1, <3>3
  <2> QED BY <2>1, <2>2
<1>13. CASE ~(sign = 1 /\ rm = "RDN")
  <2>1. CASE ~near /\ sign = 1 /\ sig = 0 /\ extra = 0
    BY <1>3, <1>14, <2>1
  <2>2. CASE ~(~near /\ sign = 1 /\ sig = 0 /\ extra = 0)
    <3>1. softfloat_roundToUI64(sign, sig, extra, rm)
            = IF m >= 2^W64 \/ (sign = 1 /\ m # 0) THEN Saturated(W64, FALSE, sign) ELSE Inexact(m, extra # 0)
      BY <1>1, <1>2, <1>3, <1>11, <1>13, <2>2
    <3> QED BY <1>4, <1>6, <1>9, <3>1
  <2> QED BY <2>1, <2>2
<1> QED BY <1>12, <1>13


------------------------------------------------------------------------------
(* Conversions to integers: the values *)

\* The exponent of a half of one, in units.
HalfPlace(f) == Bias(f) + f.F + f.G + Slack(f) - 2

\* The place of the significand, in units.
Raised(f, ui) == (IF expUI(f, ui) = 0 THEN 0 ELSE expUI(f, ui) - 1) + f.G + Slack(f)

LEMMA HalfSize ==
    ASSUME NEW f, IsFormat(f)
    PROVE  /\ HalfPlace(f) \in Nat /\ Floor(f) \in Int /\ 0 - 1 - Floor(f) = HalfPlace(f)
           /\ Floor(f) <= 0 - 2 /\ 2^HalfPlace(f) \in Nat /\ 2^HalfPlace(f) >= 1
<1>1. f.F \in Nat /\ f.F >= 1 /\ f.G \in Nat /\ f.G >= 6 /\ Bias(f) \in Nat /\ Bias(f) >= 1 /\ Slack(f) \in Nat
  BY FormatFacts, SlackSize
<1>2. Floor(f) = 1 - Bias(f) - f.F - f.G - Slack(f)
  BY <1>1 DEF Floor, Base
<1>3. HalfPlace(f) \in Nat /\ Floor(f) \in Int /\ 0 - 1 - Floor(f) = HalfPlace(f) /\ Floor(f) <= 0 - 2
  BY <1>1, <1>2 DEF HalfPlace
<1> QED BY <1>3, PowerOfTwo

LEMMA UnitsParts ==
    ASSUME NEW f, IsFormat(f), NEW ui \in Word(f)
    PROVE  /\ Significand(f, ui) \in Nat /\ Significand(f, ui) < 2^(f.F + 1) /\ expUI(f, ui) \in Nat
           /\ expUI(f, ui) # 0 => Significand(f, ui) >= 2^f.F
           /\ expUI(f, ui) = 0 => Significand(f, ui) < 2^f.F
           /\ Raised(f, ui) \in Nat /\ Units(f, ui) = Significand(f, ui) * 2^Raised(f, ui)
           /\ Units(f, ui) \in Nat
<1> DEFINE P == 2^f.F
           x == fracUI(f, ui)
           e == expUI(f, ui)
           n == Significand(f, ui)
<1>1. P \in Nat /\ P >= 2 /\ f.F \in Nat /\ f.G \in Nat /\ Bias(f) \in Nat /\ 2^(f.F + 1) = 2 * P /\ Slack(f) \in Nat
  BY GuardSizes, FormatFacts, SlackSize
<1>2. x \in 0 .. P - 1 /\ e \in Nat
  BY Fields, Leads DEF Fielded
<1>3. n = IF e # 0 THEN x + P ELSE x
  BY <1>1, <1>2 DEF Significand, Hidden
<1>4. MagOf(f, ui) = [n |-> n, d |-> 1, e |-> (IF e = 0 THEN 1 ELSE e) - Bias(f) - f.F]
  BY DEF MagOf, Mag
<1>5. Denotes(MagOf(f, ui), Floor(f), Units(f, ui)) /\ Units(f, ui) \in Nat
  BY MagUnits
<1> HIDE DEF P, x, e, n
<1>6. Units(f, ui) = n * 2^(((IF e = 0 THEN 1 ELSE e) - Bias(f) - f.F) - Floor(f))
  BY <1>4, <1>5 DEF Denotes
<1>7. Floor(f) = 1 - Bias(f) - f.F - f.G - Slack(f)
  BY <1>1 DEF Floor, Base
<1>8. /\ ((IF e = 0 THEN 1 ELSE e) - Bias(f) - f.F) - Floor(f) = Raised(f, ui)
      /\ Raised(f, ui) \in Nat
  BY <1>1, <1>2, <1>7 DEF Raised, e
<1>9. Units(f, ui) = n * 2^Raised(f, ui)
  BY <1>6, <1>8
<1>10. n \in Nat /\ n < 2 * P /\ (e # 0 => n >= P) /\ (e = 0 => n < P)
  BY <1>1, <1>2, <1>3
<1> QED BY <1>1, <1>2, <1>5, <1>8, <1>9, <1>10 DEF P, e, n

\* A value of 2^w or more.
LEMMA UnitsLarge ==
    ASSUME NEW f, IsFormat(f), NEW ui \in Word(f), NEW w \in Nat, expUI(f, ui) >= Bias(f) + w
    PROVE  Units(f, ui) >= (2 * 2^w) * 2^HalfPlace(f)
<1> DEFINE n == Significand(f, ui)
           e == expUI(f, ui)
           h == Raised(f, ui)
           p == HalfPlace(f)
<1>1. f.F \in Nat /\ f.G \in Nat /\ Bias(f) \in Nat /\ Bias(f) >= 1 /\ Slack(f) \in Nat /\ p \in Nat
  BY FormatFacts, SlackSize, HalfSize
<1>2. n \in Nat /\ e \in Nat /\ e # 0 /\ n >= 2^f.F /\ h \in Nat /\ Units(f, ui) = n * 2^h
  <2>1. e \in Nat /\ e # 0
    BY <1>1, UnitsParts
  <2> QED BY <2>1, UnitsParts
<1>3. h = e - 1 + f.G + Slack(f) /\ e >= Bias(f) + w
  BY <1>1, <1>2 DEF Raised
<1>4. (w + 1) + p \in 0 .. f.F + h /\ f.F + h \in Nat /\ w + 1 \in Nat
  BY <1>1, <1>2, <1>3 DEF HalfPlace
<1> HIDE DEF n, e, h, p
<1>5. 2^((w + 1) + p) <= 2^(f.F + h) /\ 2^((w + 1) + p) = 2^(w + 1) * 2^p /\ 2^(w + 1) = 2 * 2^w
  BY <1>1, <1>4, PowerMonotone, PowerSum, PowerDoubles
<1>6. 2^(f.F + h) = 2^f.F * 2^h /\ 2^f.F \in Nat /\ 2^h \in Nat
  BY <1>1, <1>2, PowerSum, PowerOfTwo
<1>7. 2^p \in Nat /\ 2^w \in Nat
  BY <1>1, PowerOfTwo
<1> DEFINE A == 2^f.F
           B == 2^h
           C == (2 * 2^w) * 2^p
<1>8. A \in Nat /\ B \in Nat /\ C <= A * B /\ n >= A /\ C \in Nat
  BY <1>2, <1>5, <1>6, <1>7
<1> HIDE DEF A, B, C
<1>9. n * B >= A * B
  BY <1>2, <1>8
<1>10. n * B \in Nat /\ A * B \in Nat
  BY <1>2, <1>8
<1>11. n * B >= C
  BY <1>8, <1>9, <1>10
<1> QED BY <1>2, <1>11 DEF B, C, p

\* A NaN has no sign.
IntSign(f, ui) == IF IsNaN(f, ui) THEN 0 ELSE signUI(f, ui)

ConvertsTo(f, w, signed, a, rm, z) == z = IntRounded(w, signed, IntSign(f, a), Units(f, a), 2^HalfPlace(f), rm)

LEMMA ToIntUnits ==
    ASSUME NEW f, IsFormat(f), NEW a \in Word(f), NEW w \in Nat, w >= 1, w <= Bias(f), NEW signed \in BOOLEAN,
           NEW rm \in RoundingModes
    PROVE  ConvertsTo(f, w, signed, a, rm, ToIntSpec(f, w, signed, a, rm))
<1> DEFINE s == signUI(f, a)
           lo == IF signed THEN -(2^(w - 1)) ELSE 0
           hi == IF signed THEN 2^(w - 1) - 1 ELSE 2^w - 1
           x == MagOf(f, a)
           z == RoundTo(x, 0, s, rm)
           i == IF s = 1 THEN -z.m ELSE z.m
           L == Floor(f)
           X == Units(f, a)
           H == 2^HalfPlace(f)
<1>1. /\ Bias(f) \in Nat /\ Reach /\ s \in {0, 1} /\ ExpMax(f) = 2 * Bias(f) + 1
      /\ X \in Nat /\ Denotes(x, L, X) /\ H \in Nat /\ H >= 1 /\ L \in Int /\ HalfPlace(f) \in Nat
      /\ 0 - 1 - L = HalfPlace(f) /\ L <= 0 - 2
  <2>1. Fielded(f, a)
    BY Fields
  <2> QED BY <2>1, FormatFacts, MagUnits, HalfSize DEF Fielded
<1>2. ToIntSpec(f, w, signed, a, rm)
        = IF IsNaN(f, a) THEN [v |-> hi, fl |-> {"invalid"}]
          ELSE IF IsInf(f, a) \/ (x.n # 0 /\ Log2(x) > w) \/ i \notin lo .. hi
          THEN [v |-> IF s = 1 THEN lo ELSE hi, fl |-> {"invalid"}]
          ELSE [v |-> i, fl |-> IF z.inexact THEN {"inexact"} ELSE {}]
  BY DEF ToIntSpec
<1>3. /\ Saturated(w, signed, 0) = [v |-> hi, fl |-> {"invalid"}]
      /\ Saturated(w, signed, s) = [v |-> IF s = 1 THEN lo ELSE hi, fl |-> {"invalid"}]
  <2> HIDE DEF s
  <2>1. CASE s = 0
    BY <2>1 DEF Saturated
  <2>2. CASE s = 1
    BY <2>2 DEF Saturated
  <2> QED BY <1>1, <2>1, <2>2
<1> DEFINE m == RoundM(X \div H, Sticky(X, H), s, rm)
           ix == RoundI(X \div H, Sticky(X, H))
<1>4. z.m = m /\ (z.inexact <=> ix = 1)
  <2>1. PICK q \in Int : q = 0
    OBVIOUS
  <2>2. q - 1 - L = HalfPlace(f) /\ L <= q - 2
    BY <1>1, <2>1
  <2> HIDE DEF s, x, L, X
  <2>3. /\ RoundTo(x, q, s, rm).m = RoundM(X \div 2^(q - 1 - L), Sticky(X, 2^(q - 1 - L)), s, rm)
        /\ RoundTo(x, q, s, rm).inexact <=> RoundI(X \div 2^(q - 1 - L), Sticky(X, 2^(q - 1 - L))) = 1
    BY <1>1, <2>2, RoundToAt
  <2> QED BY <2>1, <2>2, <2>3
<1>5. IntRounded(w, signed, s, X, H, rm)
        = IF i \in lo .. hi THEN [v |-> i, fl |-> IF z.inexact THEN {"inexact"} ELSE {}] ELSE Saturated(w, signed, s)
  <2>1. IntRounded(w, signed, s, X, H, rm)
          = IF (IF s = 1 THEN -m ELSE m) \in lo .. hi
            THEN [v |-> (IF s = 1 THEN -m ELSE m), fl |-> IF ix = 1 THEN {"inexact"} ELSE {}] ELSE Saturated(w, signed, s)
    BY DEF IntRounded, IntResult
  <2> HIDE DEF m, ix, lo, hi, z
  <2>2. (IF s = 1 THEN -m ELSE m) = i
    BY <1>4
  <2>3. (IF ix = 1 THEN {"inexact"} ELSE {}) = (IF z.inexact THEN {"inexact"} ELSE {})
    BY <1>4
  <2> HIDE DEF i
  <2> QED BY <2>1, <2>2, <2>3
<1>6. IsSpecial(f, a) => X >= (2 * 2^w) * H
  <2> SUFFICES ASSUME IsSpecial(f, a) PROVE X >= (2 * 2^w) * H
    OBVIOUS
  <2>1. expUI(f, a) >= Bias(f) + w
    BY <1>1 DEF IsSpecial
  <2> QED BY <2>1, UnitsLarge
<1>7. x.n # 0 /\ Log2(x) > w => X >= (2 * 2^w) * H
  <2> SUFFICES ASSUME x.n # 0, Log2(x) > w PROVE X >= (2 * 2^w) * H
    OBVIOUS
  <2>1. x.n \in Nat /\ x.e \in Int /\ L <= x.e /\ X = x.n * 2^(x.e - L)
    BY <1>1 DEF Denotes
  <2> DEFINE n == x.n
             d == x.e - L
  <2>2. n \in Nat /\ n >= 1 /\ d \in Nat /\ X = n * 2^d /\ n < 2^(2 * W64) /\ 2 * W64 \in Nat
    BY <1>1, <2>1 DEF Denotes, Reach
  <2> HIDE DEF n, d, x, X
  <2>3. PICK b \in 1 .. 2 * W64 : HasBits(n, b)
    BY <2>2, BitsExist
  <2>4. HasBits(n * 2^d, b + d)
    BY <2>2, <2>3, BitsScaled
  <2>5. HasBits(X, b + d)
    BY <2>2, <2>4
  <2>6. Log2(x) = L + (b + d) - 1
    BY <1>1, <2>5, Log2At
  <2> DEFINE B == b + d
  <2>7. B \in Nat /\ (w + 1) + HalfPlace(f) \in 0 .. B - 1 /\ B - 1 \in Nat
    <3> HIDE DEF L
    <3>1. b \in Nat /\ b >= 1
      BY <2>2, <2>3
    <3> QED BY <1>1, <2>2, <2>6, <3>1
  <2>8. 2^(B - 1) <= X
    BY <2>5 DEF HasBits
  <2> HIDE DEF B
  <2>9. 2^((w + 1) + HalfPlace(f)) <= 2^(B - 1) /\ 2^(B - 1) \in Nat /\ w + 1 \in Nat
    BY <2>7, PowerMonotone, PowerOfTwo
  <2>10. 2^((w + 1) + HalfPlace(f)) = 2^(w + 1) * H /\ 2^(w + 1) = 2 * 2^w /\ 2^((w + 1) + HalfPlace(f)) \in Nat
    <3>1. (w + 1) + HalfPlace(f) \in Nat
      BY <1>1
    <3> QED BY <1>1, <2>9, <3>1, PowerSum, PowerDoubles, PowerOfTwo
  <2> DEFINE C == (2 * 2^w) * H
  <2>11. C \in Nat /\ C <= 2^(B - 1)
    BY <2>9, <2>10
  <2> HIDE DEF C
  <2>12. C <= X
    BY <1>1, <2>8, <2>9, <2>11
  <2> QED BY <2>12 DEF C
<1>8. ASSUME NEW t \in {0, 1}, X >= (2 * 2^w) * H PROVE IntRounded(w, signed, t, X, H, rm) = Saturated(w, signed, t)
  <2> HIDE DEF X, H
  <2>1. Overflows(w, signed, t, X, H, rm)
    BY <1>1, <1>8, LargeOverflows
  <2> QED BY <2>1 DEF Overflows
<1> HIDE DEF s, lo, hi, x, z, i, X, H
<1>9. CASE IsNaN(f, a)
  <2>1. IntSign(f, a) = 0 /\ 0 \in {0, 1} /\ IsSpecial(f, a)
    BY <1>9 DEF IntSign, IsNaN
  <2>2. IntRounded(w, signed, 0, X, H, rm) = Saturated(w, signed, 0)
    BY <1>6, <1>8, <2>1
  <2>3. ToIntSpec(f, w, signed, a, rm) = Saturated(w, signed, 0)
    BY <1>2, <1>3, <1>9
  <2> QED BY <2>1, <2>2, <2>3 DEF ConvertsTo, X, H
<1>10. CASE ~IsNaN(f, a)
  <2>1. IntSign(f, a) = s
    BY <1>10 DEF IntSign, s
  <2>2. CASE IsInf(f, a) \/ (x.n # 0 /\ Log2(x) > w)
    <3>1. X >= (2 * 2^w) * H
      BY <1>6, <1>7, <2>2 DEF IsInf
    <3>2. IntRounded(w, signed, s, X, H, rm) = Saturated(w, signed, s)
      BY <1>1, <1>8, <3>1
    <3>3. ToIntSpec(f, w, signed, a, rm) = Saturated(w, signed, s)
      BY <1>2, <1>3, <1>10, <2>2
    <3> QED BY <2>1, <3>2, <3>3 DEF ConvertsTo, X, H
  <2>3. CASE ~(IsInf(f, a) \/ (x.n # 0 /\ Log2(x) > w))
    <3>1. ToIntSpec(f, w, signed, a, rm)
            = IF i \in lo .. hi THEN [v |-> i, fl |-> IF z.inexact THEN {"inexact"} ELSE {}] ELSE Saturated(w, signed, s)
      BY <1>2, <1>3, <1>10, <2>3
    <3>2. ToIntSpec(f, w, signed, a, rm) = IntRounded(w, signed, s, X, H, rm)
      BY <1>5, <3>1
    <3> QED BY <2>1, <3>2 DEF ConvertsTo, X, H
  <2> QED BY <2>2, <2>3
<1> QED BY <1>9, <1>10


\* The significand moved up by place; dist is how far below it the integer's last guard bit is.
PlacedAt(f, place) ==
    /\ place \in Nat /\ place <= f.G + Slack(f) /\ f.F + 1 + place <= W64

RoundsAsValue(f, w, signed, a, rm, X, K) == RoundsAlike(w, signed, IntSign(f, a), X, K, Units(f, a), 2^HalfPlace(f), rm)

\* A significand of a normal value, in units where the half of one is 2^k.
LEMMA NormalUnits ==
    ASSUME NEW f, IsFormat(f), NEW a \in Word(f), NEW place, PlacedAt(f, place), expUI(f, a) # 0,
           NEW k \in Nat, k = Bias(f) + f.F + place - 1 - expUI(f, a),
           NEW w, NEW signed, NEW rm
    PROVE  RoundsAsValue(f, w, signed, a, rm, Significand(f, a) * 2^place, 2^k)
<1> DEFINE n == Significand(f, a)
           e == expUI(f, a)
           h == Raised(f, a)
           p == HalfPlace(f)
           t == h - place
           X == n * 2^place
<1>1. f.F \in Nat /\ f.G \in Nat /\ Bias(f) \in Nat /\ Slack(f) \in Nat /\ p \in Nat
  BY FormatFacts, SlackSize, HalfSize
<1>2. n \in Nat /\ e \in Nat /\ h \in Nat /\ Units(f, a) = n * 2^h /\ place \in Nat
  BY UnitsParts DEF PlacedAt
<1>3. h = e - 1 + f.G + Slack(f) /\ e # 0
  BY <1>1, <1>2 DEF Raised
<1>4. t \in Nat /\ place + t = h /\ k + t = p
  <2>1. place <= f.G + Slack(f)
    BY DEF PlacedAt
  <2>2. p = Bias(f) + f.F + f.G + Slack(f) - 2 /\ k = Bias(f) + f.F + place - 1 - e
    BY DEF HalfPlace
  <2> HIDE DEF e, h, p
  <2> QED BY <1>1, <1>2, <1>3, <2>1, <2>2
<1> HIDE DEF n, e, h, p, t
<1>5. 2^(place + t) = 2^place * 2^t /\ 2^(k + t) = 2^k * 2^t /\ 2^place \in Nat /\ 2^t \in Nat /\ 2^t >= 1 /\ 2^k \in Nat /\ 2^k >= 1
  BY <1>2, <1>4, PowerSum, PowerOfTwo
<1> DEFINE A == 2^place
           T == 2^t
           D == 2^k
<1>6. n * (A * T) = (n * A) * T /\ n * A \in Nat /\ T \in Nat \ {0} /\ D \in Nat \ {0}
  <2>1. A \in Nat /\ T \in Nat /\ T >= 1 /\ D \in Nat /\ D >= 1
    BY <1>5
  <2> HIDE DEF A, T, D
  <2> QED BY <1>2, <2>1
<1>7. Units(f, a) = X * T /\ 2^p = D * T /\ X \in Nat
  BY <1>2, <1>4, <1>5, <1>6
<1> HIDE DEF T, D, X
<1>8. RoundsAlike(w, signed, IntSign(f, a), X, D, X * T, D * T, rm)
  BY <1>6, <1>7, AlikeScaled
<1> QED BY <1>7, <1>8 DEF RoundsAsValue, X, D, n, p

\* A subnormal value is less than half, and so is its significand far enough down.
LEMMA SubnormalUnits ==
    ASSUME NEW f, IsFormat(f), NEW a \in Word(f), expUI(f, a) = 0, Bias(f) >= 2, NEW w, NEW signed, NEW rm,
           NEW X \in Nat, NEW K \in Nat, K >= 1, X = 0 <=> Significand(f, a) = 0, X < K
    PROVE  RoundsAsValue(f, w, signed, a, rm, X, K)
<1> DEFINE n == Significand(f, a)
           h == Raised(f, a)
           p == HalfPlace(f)
           U == Units(f, a)
           H == 2^p
<1>1. f.F \in Nat /\ f.G \in Nat /\ Bias(f) \in Nat /\ Slack(f) \in Nat /\ p \in Nat /\ H \in Nat /\ H >= 1
  BY FormatFacts, SlackSize, HalfSize
<1>2. n \in Nat /\ n < 2^f.F /\ h \in Nat /\ U = n * 2^h /\ U \in Nat
  BY UnitsParts
<1>3. h = f.G + Slack(f)
  BY <1>1 DEF Raised
<1>4. f.F + h \in 0 .. p
  BY <1>1, <1>2, <1>3 DEF HalfPlace
<1> HIDE DEF n, h, p
<1>5. 2^(f.F + h) <= H /\ 2^(f.F + h) = 2^f.F * 2^h /\ 2^f.F \in Nat /\ 2^h \in Nat /\ 2^h >= 1
  <2>1. 2^(f.F + h) <= 2^p
    BY <1>1, <1>4, PowerMonotone
  <2>2. 2^(f.F + h) = 2^f.F * 2^h
    BY <1>1, <1>2, PowerSum
  <2>3. 2^f.F \in Nat /\ 2^h \in Nat /\ 2^h >= 1
    BY <1>1, <1>2, PowerOfTwo
  <2> QED BY <2>1, <2>2, <2>3
<1> DEFINE A == 2^f.F
           B == 2^h
<1>6. A \in Nat /\ B \in Nat /\ B >= 1 /\ A * B <= H /\ n < A /\ U = n * B
  BY <1>2, <1>5
<1> HIDE DEF A, B, H, U
<1>7. (n = 0 => U = 0) /\ (n # 0 => U >= 1) /\ U < H
  <2>1. n = 0 => U = 0
    BY <1>6
  <2>2. n # 0 => U >= 1
    BY <1>2, <1>6
  <2>3. n * B < A * B /\ A * B \in Nat
    BY <1>2, <1>6
  <2> QED BY <1>1, <1>2, <1>6, <2>1, <2>2, <2>3
<1>8. CASE n = 0
  <2>1. X = 0 /\ U = 0
    BY <1>7, <1>8 DEF n
  <2>2. RoundsAlike(w, signed, IntSign(f, a), 0, K, 0, H, rm)
    BY <1>1, AlikeZero
  <2> QED BY <2>1, <2>2 DEF RoundsAsValue, U, H, p
<1>9. CASE n # 0
  <2>1. X >= 1 /\ U >= 1
    BY <1>7, <1>9 DEF n
  <2>2. RoundsAlike(w, signed, IntSign(f, a), X, K, U, H, rm)
    BY <1>1, <1>2, <1>7, <2>1, AlikeBelow
  <2> QED BY <2>2 DEF RoundsAsValue, U, H, p
<1> QED BY <1>8, <1>9

\* Both too large for the word.
LEMMA BothOverflow ==
    ASSUME NEW f, IsFormat(f), NEW a \in Word(f), NEW w \in Nat, w >= 1, NEW signed \in BOOLEAN, NEW rm,
           expUI(f, a) >= Bias(f) + w, NEW X \in Nat, NEW K \in Nat, K >= 1, X >= (2 * 2^w) * K
    PROVE  RoundsAsValue(f, w, signed, a, rm, X, K)
<1> DEFINE s == IntSign(f, a)
           U == Units(f, a)
           H == 2^HalfPlace(f)
<1>1. s \in {0, 1} /\ U \in Nat /\ H \in Nat /\ H >= 1 /\ U >= (2 * 2^w) * H
  <2>1. Fielded(f, a)
    BY Fields
  <2> QED BY <2>1, UnitsParts, HalfSize, UnitsLarge DEF Fielded, IntSign
<1> HIDE DEF s, U, H
<1>2. Overflows(w, signed, s, U, H, rm)
  BY <1>1, LargeOverflows
<1>3. Overflows(w, signed, s, X, K, rm)
  BY <1>1, LargeOverflows
<1> QED BY <1>2, <1>3 DEF Overflows, RoundsAsValue, RoundsAlike, s, U, H

\* The word that toWord rounds.
WordPart(f, place, a) ==
    LET sig  == Significand(f, a) * 2^place
        dist == Bias(f) + f.F + place - IntGuard - expUI(f, a)
    IN  IF 0 < dist THEN softfloat_shiftRightJam64(sig, dist) ELSE sig

LEMMA WordValue ==
    ASSUME NEW f, IsFormat(f), NEW a \in Word(f), NEW place, PlacedAt(f, place), f.F + 1 + place <= W64 - 1,
           IntBits + IntGuard <= f.F + place, Bias(f) >= 2, NEW signed \in BOOLEAN, NEW rm
    PROVE  /\ WordPart(f, place, a) \in Nat
           /\ RoundsAsValue(f, IntBits, signed, a, rm, WordPart(f, place, a), 2^(IntGuard - 1))
<1> DEFINE n == Significand(f, a)
           e == expUI(f, a)
           c == n * 2^place
           dist == Bias(f) + f.F + place - IntGuard - e
           G == 2^(IntGuard - 1)
           J == WordPart(f, place, a)
<1>1. /\ f.F \in Nat /\ f.F >= 1 /\ f.G \in Nat /\ Bias(f) \in Nat /\ W64 \in Nat /\ W64 >= 2 /\ place \in Nat
      /\ IntGuard \in Nat /\ IntGuard >= 2 /\ IntBits \in Nat /\ IntBits >= 1 /\ G \in Nat /\ G >= 2
  BY FormatFacts, LongSize, IntSizes DEF PlacedAt
<1>2. n \in Nat /\ n < 2^(f.F + 1) /\ e \in Nat /\ (e # 0 => n >= 2^f.F) /\ (e = 0 => n < 2^f.F)
  BY UnitsParts
<1>3. /\ c \in Nat /\ c < 2^(W64 - 1) /\ (n = 0 <=> c = 0)
      /\ (e # 0 => c >= 2^(f.F + place)) /\ (e = 0 => c < 2^(f.F + place)) /\ 2^(f.F + place) \in Nat
  <2>1. /\ 2^((f.F + 1) + place) = 2^(f.F + 1) * 2^place /\ 2^(f.F + place) = 2^f.F * 2^place
        /\ 2^(f.F + 1) \in Nat /\ 2^f.F \in Nat /\ 2^place \in Nat /\ 2^place >= 1
    <3>1. f.F + 1 \in Nat
      BY <1>1
    <3> QED BY <1>1, <3>1, PowerSum, PowerOfTwo
  <2>2. (f.F + 1) + place \in 0 .. W64 - 1 /\ W64 - 1 \in Nat
    BY <1>1
  <2>3. 2^((f.F + 1) + place) <= 2^(W64 - 1) /\ 2^(W64 - 1) \in Nat
    BY <2>2, PowerMonotone, PowerOfTwo
  <2> DEFINE A == 2^(f.F + 1)
             B == 2^place
             C == 2^f.F
  <2>4. /\ A \in Nat /\ B \in Nat /\ B >= 1 /\ C \in Nat /\ A * B <= 2^(W64 - 1) /\ c = n * B
        /\ 2^(f.F + place) = C * B /\ n < A /\ (e # 0 => n >= C) /\ (e = 0 => n < C)
    BY <1>2, <2>1, <2>3
  <2> HIDE DEF A, B, C, n, c
  <2>5. n * B < A * B /\ n * B \in Nat /\ A * B \in Nat /\ C * B \in Nat
    BY <1>2, <2>4
  <2>6. (n >= C => n * B >= C * B) /\ (n < C => n * B < C * B)
    BY <1>2, <2>4
  <2>7. n = 0 <=> n * B = 0
    BY <1>2, <2>4
  <2> QED BY <2>3, <2>4, <2>5, <2>6, <2>7
<1>4. J = IF 0 < dist THEN shiftRightJam(W64, c, dist) ELSE c
  BY DEF WordPart, softfloat_shiftRightJam64
<1>5. dist \in Int
  BY <1>1, <1>2
<1> HIDE DEF J, n, c
<1>6. CASE 0 < dist
  <2> DEFINE D == 2^dist
             K == G * D
  <2>1. dist \in Nat /\ dist >= 1 /\ W64 >= 1
    BY <1>1, <1>5, <1>6
  <2> HIDE DEF dist
  <2>2. J \in Nat /\ J = Or1(c \div D, c % D # 0) /\ Agree(J * D, c, 2 * D)
    BY <1>1, <1>3, <1>4, <1>6, <2>1, JamAgree
  <2>3. D \in Nat /\ D >= 1
    BY <2>1, PowerOfTwo
  <2>4. RoundsAlike(IntBits, signed, IntSign(f, a), J, G, J * D, K, rm)
    <3>1. G \in Nat \ {0} /\ D \in Nat \ {0}
      BY <1>1, <2>3
    <3> HIDE DEF G, D
    <3> QED BY <2>2, <3>1, AlikeScaled
  <2>5. RoundsAlike(IntBits, signed, IntSign(f, a), J * D, K, c, K, rm)
    <3>1. IntGuard - 1 \in Nat /\ IntGuard - 1 >= 1 /\ (IntGuard - 1) - 1 \in Nat
      BY <1>1
    <3> DEFINE N == 2^((IntGuard - 1) - 1)
    <3>2. G = 2 * N /\ N \in Nat /\ N >= 1
      BY <3>1, PowerStep, PowerOfTwo
    <3> HIDE DEF D, N, G
    <3>3. (2 * D) * N = K
      <4>1. (2 * D) * N = (2 * N) * D
        BY <2>3, <3>2
      <4> QED BY <3>2, <4>1
    <3>4. J * D \in Nat /\ 2 * D \in Nat \ {0} /\ N \in Nat \ {0}
      BY <2>2, <2>3, <3>2
    <3> DEFINE Y == J * D
               M == 2 * D
    <3>5. Y \in Nat /\ M \in Nat \ {0} /\ N \in Nat \ {0} /\ Agree(Y, c, M)
      BY <2>2, <3>4
    <3> HIDE DEF Y, M
    <3>6. Agree(Y, c, M * N)
      BY <1>3, <3>5, AgreeCoarser
    <3>7. Agree(J * D, c, K)
      BY <3>3, <3>6 DEF Y, M
    <3> QED BY <3>7, AlikeAgreeing
  <2>6. RoundsAsValue(f, IntBits, signed, a, rm, c, K)
    <3>1. CASE e # 0
      <4> DEFINE k == Bias(f) + f.F + place - 1 - e
      <4>1. k \in Nat /\ (IntGuard - 1) + dist = k /\ IntGuard - 1 \in Nat
        BY <1>1, <1>2, <2>1, <3>1 DEF dist
      <4>2. 2^((IntGuard - 1) + dist) = K
        BY <2>1, <4>1, PowerSum
      <4>3. expUI(f, a) # 0
        BY <3>1
      <4>4. k = Bias(f) + f.F + place - 1 - expUI(f, a)
        OBVIOUS
      <4> HIDE DEF k
      <4>5. RoundsAsValue(f, IntBits, signed, a, rm, Significand(f, a) * 2^place, 2^k)
        BY <4>1, <4>3, <4>4, NormalUnits
      <4> QED BY <4>1, <4>2, <4>5 DEF c, n
    <3>2. CASE e = 0
      <4>1. (IntGuard - 1) + dist \in Nat /\ f.F + place \in 0 .. (IntGuard - 1) + dist /\ IntGuard - 1 \in Nat
        BY <1>1, <2>1, <3>2 DEF dist
      <4>2. 2^((IntGuard - 1) + dist) = K /\ 2^(f.F + place) <= K /\ K \in Nat
        <5>1. 2^((IntGuard - 1) + dist) = K
          BY <2>1, <4>1, PowerSum
        <5> QED BY <4>1, <5>1, PowerMonotone, PowerOfTwo
      <4> HIDE DEF K
      <4>3. c < K /\ K >= 1
        BY <1>3, <3>2, <4>2
      <4>4. expUI(f, a) = 0 /\ (c = 0 <=> Significand(f, a) = 0)
        BY <1>3, <3>2 DEF n
      <4> QED BY <1>3, <4>2, <4>3, <4>4, SubnormalUnits
    <3> QED BY <3>1, <3>2
  <2>7. RoundsAsValue(f, IntBits, signed, a, rm, J, G)
    BY <2>4, <2>5, <2>6 DEF RoundsAsValue, RoundsAlike
  <2> QED BY <2>2, <2>7 DEF J
<1>7. CASE ~(0 < dist)
  <2>1. J = c
    BY <1>4, <1>7
  <2>2. e >= Bias(f) + IntBits /\ e # 0
    BY <1>1, <1>2, <1>5, <1>7
  <2>3. c >= (2 * 2^IntBits) * G
    <3>1. IntBits + IntGuard \in 0 .. f.F + place /\ f.F + place \in Nat
      BY <1>1
    <3>2. 2^(IntBits + IntGuard) <= 2^(f.F + place) /\ 2^(IntBits + IntGuard) = 2^IntBits * 2^IntGuard
      BY <1>1, <3>1, PowerMonotone, PowerSum
    <3>3. 2^IntGuard = 2 * G /\ 2^IntBits \in Nat
      BY IntSizes
    <3> DEFINE B == 2^IntBits
    <3>4. B * (2 * G) = (2 * B) * G /\ (2 * B) * G \in Nat
      <4> HIDE DEF G, B
      <4> QED BY <1>1, <3>3 DEF B
    <3>5. c >= 2^(f.F + place)
      BY <1>3, <2>2
    <3> DEFINE Z == (2 * B) * G
    <3>6. Z <= 2^(f.F + place) /\ Z \in Nat
      BY <3>2, <3>3, <3>4
    <3> HIDE DEF Z
    <3>7. c >= Z
      BY <1>3, <3>5, <3>6
    <3> QED BY <3>7 DEF Z
  <2>4. expUI(f, a) >= Bias(f) + IntBits /\ G >= 1
    BY <1>1, <2>2
  <2>5. RoundsAsValue(f, IntBits, signed, a, rm, c, G)
    <3> HIDE DEF G
    <3> QED BY <1>1, <1>3, <2>3, <2>4, BothOverflow
  <2> QED BY <1>3, <2>1, <2>5 DEF J
<1> QED BY <1>6, <1>7 DEF J


\* The word and its fraction word hold the significand, or whether it is zero.
ShiftedLong(c, dist, x) ==
    /\ x.v \in Nat /\ x.v < 2^W64 /\ x.extra \in Nat /\ x.extra < 2^W64
    /\ dist <= W64 => (x.v * 2^W64 + x.extra) * 2^dist = c * 2^W64
    /\ dist > W64 => x.v = 0 /\ x.extra = (IF c # 0 THEN 1 ELSE 0)

LEMMA ShiftLong ==
    ASSUME NEW c \in Nat, c < 2^W64, NEW dist \in Nat, dist >= 1
    PROVE  ShiftedLong(c, dist, softfloat_shiftRightJam64Extra(c, dist))
<1> DEFINE x == softfloat_shiftRightJam64Extra(c, dist)
           V == 2^W64
           D == 2^dist
<1>1. W64 \in Nat /\ W64 >= 2 /\ V \in Nat /\ V >= 2 /\ D \in Nat /\ D >= 1
  BY LongSize, PowerOfTwo
<1>2. CASE dist < W64
  <2> DEFINE q == c \div D
             r == c % D
             B == 2^(W64 - dist)
  <2>1. x.v = q /\ x.extra = r * B
    BY <1>2 DEF softfloat_shiftRightJam64Extra
  <2>2. V = D * B /\ B \in Nat /\ B >= 1
    <3>1. W64 - dist \in Nat /\ dist <= W64
      BY <1>1, <1>2
    <3> QED BY <1>1, <3>1, PowerDiff, PowerOfTwo
  <2> HIDE DEF D, B, V, x
  <2>3. q \in Int /\ r \in 0 .. (D - 1) /\ c = D * q + r
    <3>1. c \in Int /\ D \in Nat /\ D >= 1
      BY <1>1
    <3> QED BY <3>1, Euclid
  <2>4. q \in Nat
    BY <1>1
  <2> HIDE DEF q, r
  <2>5. q < V
    <3>1. D * q >= q /\ D * q \in Nat
      BY <1>1, <2>4
    <3>2. c < V
      BY DEF V
    <3> QED BY <1>1, <2>3, <2>4, <3>1, <3>2
  <2>6. r * B \in Nat /\ r * B < V
    <3>1. r * B < D * B /\ r * B \in Nat
      BY <1>1, <2>2, <2>3
    <3> QED BY <2>2, <3>1
  <2>7. (q * V + r * B) * D = c * V
    <3>1. c * V = (D * q) * V + r * V
      BY <1>1, <2>3, <2>4
    <3>2. (q * V + r * B) * D = (D * q) * V + (r * (D * B))
      BY <1>1, <2>2, <2>3, <2>4
    <3> QED BY <2>2, <3>1, <3>2
  <2>8. x.v \in Nat /\ x.v < V /\ x.extra \in Nat /\ x.extra < V /\ (x.v * V + x.extra) * D = c * V /\ ~(dist > W64)
    BY <1>1, <1>2, <2>1, <2>4, <2>5, <2>6, <2>7
  <2> QED BY <2>8 DEF ShiftedLong, x, V, D
<1>3. CASE dist = W64
  <2>1. x.v = 0 /\ x.extra = c
    BY <1>1, <1>3 DEF softfloat_shiftRightJam64Extra
  <2>2. D = V /\ c < V
    BY <1>3
  <2> HIDE DEF D, V, x
  <2>3. (0 * V + c) * D = c * V
    BY <1>1, <2>2
  <2>4. x.v \in Nat /\ x.v < V /\ x.extra \in Nat /\ x.extra < V /\ (x.v * V + x.extra) * D = c * V /\ ~(dist > W64)
    BY <1>1, <1>3, <2>1, <2>2, <2>3
  <2> QED BY <2>4 DEF ShiftedLong, x, V, D
<1>4. CASE dist > W64
  <2>1. x.v = 0 /\ x.extra = IF c # 0 THEN 1 ELSE 0
    BY <1>1, <1>4 DEF softfloat_shiftRightJam64Extra
  <2> HIDE DEF x
  <2>2. x.v \in Nat /\ x.v < V /\ x.extra \in Nat /\ x.extra < V /\ ~(dist <= W64)
    BY <1>1, <1>4, <2>1
  <2> QED BY <2>1, <2>2 DEF ShiftedLong, x
<1> QED BY <1>1, <1>2, <1>3, <1>4

LEMMA LongAlike ==
    ASSUME NEW c \in Nat, c < 2^W64, NEW dist \in Nat, dist >= 1, NEW x, ShiftedLong(c, dist, x),
           NEW signed, NEW s, NEW rm
    PROVE  RoundsAlike(W64, signed, s, x.v * 2^W64 + x.extra, 2^(W64 - 1), c, 2^(dist - 1), rm)
<1> DEFINE V == 2^W64
           T == 2^(W64 - 1)
           D == 2^dist
           E == 2^(dist - 1)
           S == x.v * V + x.extra
<1>1. /\ W64 \in Nat /\ W64 >= 2 /\ V \in Nat /\ T \in Nat /\ T >= 2 /\ V = 2 * T
      /\ D \in Nat /\ D >= 1 /\ E \in Nat /\ E >= 1 /\ D = 2 * E
  BY LongSize, PowerOfTwo, PowerStep
<1>2. x.v \in Nat /\ x.extra \in Nat
  BY DEF ShiftedLong
<1>3. S \in Nat
  <2> HIDE DEF V
  <2> QED BY <1>1, <1>2
<1>4. CASE dist <= W64
  <2>1. S * D = c * V
    BY <1>4 DEF ShiftedLong
  <2> HIDE DEF V, T, D, E, S
  <2>2. T * D = E * V /\ T \in Nat \ {0} /\ D \in Nat \ {0} /\ E \in Nat \ {0} /\ V \in Nat \ {0}
    BY <1>1
  <2>3. RoundsAlike(W64, signed, s, S, T, S * D, T * D, rm)
    BY <1>3, <2>2, AlikeScaled
  <2>4. RoundsAlike(W64, signed, s, c, E, c * V, E * V, rm)
    BY <2>2, AlikeScaled
  <2>5. RoundsAlike(W64, signed, s, S, T, c, E, rm)
    BY <2>1, <2>2, <2>3, <2>4 DEF RoundsAlike
  <2> QED BY <2>5 DEF S, T, E, V
<1>5. CASE dist > W64
  <2>1. x.v = 0 /\ x.extra = IF c # 0 THEN 1 ELSE 0
    BY <1>5 DEF ShiftedLong
  <2>2. S = IF c # 0 THEN 1 ELSE 0
    <3> HIDE DEF V
    <3> QED BY <1>1, <2>1
  <2>3. c < E
    <3>1. W64 \in 0 .. dist - 1 /\ dist - 1 \in Nat
      BY <1>1, <1>5
    <3>2. V <= E
      BY <3>1, PowerMonotone
    <3>3. c < V
      OBVIOUS
    <3> HIDE DEF V, E
    <3> QED BY <1>1, <3>2, <3>3
  <2> HIDE DEF V, T, D, E, S
  <2>4. RoundsAlike(W64, signed, s, S, T, c, E, rm)
    <3>1. CASE c = 0
      <4>1. RoundsAlike(W64, signed, s, 0, T, 0, E, rm)
        BY <1>1, AlikeZero
      <4> QED BY <2>2, <3>1, <4>1
    <3>2. CASE c # 0
      <4>1. S >= 1 /\ S < T /\ c >= 1
        BY <1>1, <2>2, <3>2
      <4> QED BY <1>1, <1>3, <2>3, <4>1, AlikeBelow
    <3> QED BY <3>1, <3>2
  <2> QED BY <2>4 DEF S, T, E, V
<1> QED BY <1>1, <1>4, <1>5

\* The two words that f32ToLong and f64ToLong round.
LongPart(f, place, a) ==
    LET sig  == Significand(f, a) * 2^place
        dist == Bias(f) + f.F + place - expUI(f, a)
    IN  IF dist <= 0 THEN [v |-> sig * 2^(-dist), extra |-> 0] ELSE softfloat_shiftRightJam64Extra(sig, dist)

LEMMA LongValue ==
    ASSUME NEW f, IsFormat(f), NEW a \in Word(f), NEW place, PlacedAt(f, place), W64 <= Bias(f), expUI(f, a) < Bias(f) + W64,
           NEW signed \in BOOLEAN, NEW rm
    PROVE  LET x == LongPart(f, place, a)
           IN  /\ x.v \in Nat /\ x.v < 2^W64 /\ x.extra \in Nat /\ x.extra < 2^W64 /\ IntSign(f, a) = signUI(f, a)
               /\ RoundsAsValue(f, W64, signed, a, rm, x.v * 2^W64 + x.extra, 2^(W64 - 1))
<1> DEFINE n == Significand(f, a)
           e == expUI(f, a)
           c == n * 2^place
           dist == Bias(f) + f.F + place - e
           V == 2^W64
           T == 2^(W64 - 1)
           x == LongPart(f, place, a)
<1>1. /\ f.F \in Nat /\ f.F >= 1 /\ f.G \in Nat /\ Bias(f) \in Nat /\ W64 \in Nat /\ W64 >= 2 /\ place \in Nat
      /\ Bias(f) >= 2 /\ V \in Nat /\ T \in Nat /\ T >= 2 /\ V = 2 * T /\ ExpMax(f) = 2 * Bias(f) + 1
  BY FormatFacts, LongSize DEF PlacedAt
<1>2. n \in Nat /\ n < 2^(f.F + 1) /\ e \in Nat
  BY UnitsParts
<1>3. c \in Nat /\ c < V /\ (n = 0 <=> c = 0)
  <2>0. f.F + 1 \in Nat
    BY <1>1
  <2>1. /\ 2^((f.F + 1) + place) = 2^(f.F + 1) * 2^place
        /\ 2^(f.F + 1) \in Nat /\ 2^place \in Nat /\ 2^place >= 1
    BY <1>1, <2>0, PowerSum, PowerOfTwo
  <2>2. (f.F + 1) + place \in 0 .. W64
    BY <1>1 DEF PlacedAt
  <2>3. 2^((f.F + 1) + place) <= V
    BY <1>1, <2>2, PowerMonotone
  <2> DEFINE A == 2^(f.F + 1)
             B == 2^place
  <2>4. A \in Nat /\ B \in Nat /\ B >= 1 /\ A * B <= V /\ c = n * B /\ n < A
    BY <1>2, <2>1, <2>3
  <2> HIDE DEF A, B, n, c, V
  <2>5. n * B < A * B /\ n * B \in Nat /\ A * B \in Nat
    BY <1>2, <2>4
  <2>6. n = 0 <=> n * B = 0
    BY <1>2, <2>4
  <2> QED BY <1>1, <2>4, <2>5, <2>6
<1>4. x = IF dist <= 0 THEN [v |-> c * 2^(-dist), extra |-> 0] ELSE softfloat_shiftRightJam64Extra(c, dist)
  BY DEF LongPart
<1>5. dist \in Int
  BY <1>1, <1>2
<1>6. IntSign(f, a) = signUI(f, a)
  <2>1. e # ExpMax(f)
    BY <1>1, <1>2
  <2> QED BY <2>1 DEF IntSign, IsNaN, IsSpecial
<1> HIDE DEF x, n
<1>7. CASE ~(dist <= 0)
  <2>1. dist \in Nat /\ dist >= 1
    BY <1>5, <1>7
  <2>2. ShiftedLong(c, dist, x)
    <3> HIDE DEF c, dist
    <3>1. ShiftedLong(c, dist, softfloat_shiftRightJam64Extra(c, dist))
      BY <1>3, <2>1, ShiftLong
    <3> QED BY <1>4, <1>7, <3>1
  <2> DEFINE S == x.v * 2^W64 + x.extra
  <2>3. x.v \in Nat /\ x.v < 2^W64 /\ x.extra \in Nat /\ x.extra < 2^W64
    BY <2>2 DEF ShiftedLong
  <2>4. RoundsAlike(W64, signed, IntSign(f, a), S, T, c, 2^(dist - 1), rm)
    <3> HIDE DEF c, dist
    <3> QED BY <1>3, <2>1, <2>2, LongAlike
  <2>5. RoundsAsValue(f, W64, signed, a, rm, S, T)
    <3>1. CASE e # 0
      <4> DEFINE k == dist - 1
      <4>1. k \in Nat /\ k = Bias(f) + f.F + place - 1 - e
        BY <1>1, <1>2, <2>1
      <4>2. expUI(f, a) # 0 /\ k = Bias(f) + f.F + place - 1 - expUI(f, a)
        BY <3>1, <4>1
      <4> HIDE DEF k
      <4>3. RoundsAsValue(f, W64, signed, a, rm, Significand(f, a) * 2^place, 2^k)
        BY <4>1, <4>2, NormalUnits
      <4> QED BY <2>4, <4>3 DEF k, c, n, RoundsAlike, RoundsAsValue
    <3>2. CASE e = 0
      <4>1. dist > W64
        BY <1>1, <3>2
      <4>2. x.v = 0 /\ x.extra = IF c # 0 THEN 1 ELSE 0
        BY <2>2, <4>1 DEF ShiftedLong
      <4>3. S = IF c # 0 THEN 1 ELSE 0
        BY <1>1, <4>2
      <4> HIDE DEF S, T, c
      <4>4. S \in Nat /\ (S = 0 <=> Significand(f, a) = 0) /\ S < T /\ T >= 1 /\ expUI(f, a) = 0
        BY <1>1, <1>3, <3>2, <4>3 DEF n
      <4> QED BY <1>1, <4>4, SubnormalUnits
    <3> QED BY <3>1, <3>2
  <2> QED BY <1>6, <2>3, <2>5 DEF x
<1>8. CASE dist <= 0
  <2> DEFINE u == -dist
             N == c * 2^u
             S == N * V
             p == HalfPlace(f)
             h == Raised(f, a)
             t == p - (W64 - 1)
  <2>1. x.v = N /\ x.extra = 0
    BY <1>4, <1>8
  <2>2. u \in Nat /\ place + u + (f.F + 1) <= W64 /\ e # 0
    BY <1>1, <1>2, <1>5, <1>8
  <2>3. /\ h = e - 1 + f.G + Slack(f) /\ p = Bias(f) + f.F + f.G + Slack(f) - 2 /\ Slack(f) \in Nat
        /\ p \in Nat /\ h \in Nat /\ Units(f, a) = n * 2^h
    BY <2>2, SlackSize, HalfSize, UnitsParts DEF Raised, HalfPlace, n
  <2>4. t \in Nat /\ (W64 - 1) + t = p /\ ((place + u) + W64) + t = h /\ W64 - 1 \in Nat
    <3>1. u = (e - place) - (Bias(f) + f.F)
      BY <1>1, <1>2
    <3> HIDE DEF p, h, u, e
    <3>2. t \in Nat /\ (W64 - 1) + t = p /\ W64 - 1 \in Nat
      BY <1>1, <2>3
    <3>3. t = Bias(f) + f.F + f.G + Slack(f) - 1 - W64
      BY <1>1, <2>3
    <3> HIDE DEF t
    <3>4. ((place + u) + W64) + t = h
      BY <1>1, <1>2, <2>2, <2>3, <3>1, <3>2, <3>3
    <3> QED BY <3>2, <3>4
  <2> HIDE DEF u, t, p, h, dist
  <2>5. /\ 2^(place + u) = 2^place * 2^u /\ 2^((place + u) + W64) = 2^(place + u) * V
        /\ 2^(((place + u) + W64) + t) = 2^((place + u) + W64) * 2^t
        /\ 2^((W64 - 1) + t) = T * 2^t /\ 2^place \in Nat /\ 2^u \in Nat /\ 2^t \in Nat /\ 2^t >= 1
    <3>1. place + u \in Nat /\ (place + u) + W64 \in Nat
      BY <1>1, <2>2
    <3> QED BY <1>1, <2>2, <2>4, <3>1, PowerSum, PowerOfTwo
  <2> DEFINE A == 2^place
             B == 2^u
             C == 2^t
  <2>6. Units(f, a) = n * (((A * B) * V) * C) /\ 2^p = T * C /\ A \in Nat /\ B \in Nat /\ C \in Nat /\ C >= 1 /\ c = n * A /\ N = c * B
    BY <2>3, <2>4, <2>5
  <2>7. N \in Nat /\ N < V
    <3>1. (place + u) + (f.F + 1) \in 0 .. W64 /\ place + u \in Nat /\ f.F + 1 \in Nat
      BY <1>1, <2>2
    <3>2. 2^((place + u) + (f.F + 1)) <= V /\ 2^((place + u) + (f.F + 1)) = 2^(place + u) * 2^(f.F + 1) /\ 2^(f.F + 1) \in Nat
                     /\ 2^(place + u) \in Nat /\ 2^(place + u) >= 1
      BY <1>1, <3>1, PowerMonotone, PowerSum, PowerOfTwo
    <3> DEFINE M == 2^(f.F + 1)
               Q == 2^(place + u)
    <3>3. Q = A * B /\ Q \in Nat /\ Q >= 1 /\ M \in Nat /\ Q * M <= V /\ n < M
      BY <1>2, <2>5, <3>2
    <3> HIDE DEF A, B, c, N, M, Q, V
    <3>4. N = Q * n
      BY <1>2, <2>6, <3>3
    <3>5. Q * n < Q * M /\ Q * n \in Nat /\ Q * M \in Nat
      BY <1>2, <3>3
    <3> QED BY <1>1, <3>3, <3>4, <3>5
  <2>8. Units(f, a) = S * C
    <3> HIDE DEF A, B, C, c, N, V
    <3>1. S = ((n * A) * B) * V
      BY <2>6
    <3>2. (((n * A) * B) * V) * C = n * (((A * B) * V) * C)
      <4> DEFINE Z == A * B
      <4>1. (n * A) * B = n * Z /\ Z \in Nat
        BY <1>2, <2>6
      <4> HIDE DEF Z
      <4> DEFINE Y == Z * V
      <4>2. (n * Z) * V = n * Y /\ Y \in Nat
        BY <1>1, <1>2, <4>1
      <4> HIDE DEF Y
      <4>3. (n * Y) * C = n * (Y * C)
        BY <1>2, <2>6, <4>2
      <4> QED BY <4>1, <4>2, <4>3 DEF Z, Y
    <3> QED BY <2>6, <3>1, <3>2
  <2>9. S \in Nat /\ T \in Nat \ {0} /\ C \in Nat \ {0}
    <3> HIDE DEF N, V, T, C
    <3> QED BY <1>1, <2>6, <2>7
  <2> HIDE DEF S, T, C, N
  <2>10. RoundsAlike(W64, signed, IntSign(f, a), S, T, S * C, T * C, rm)
    BY <2>9, AlikeScaled
  <2>11. RoundsAsValue(f, W64, signed, a, rm, S, T)
    BY <2>6, <2>8, <2>10 DEF RoundsAsValue, p
  <2>12. x.v * 2^W64 + x.extra = S
    <3>1. x.v * V + x.extra = S + 0
      BY <2>1 DEF S
    <3>2. S + 0 = S
      BY <2>9
    <3> QED BY <3>1, <3>2
  <2>13. x.v \in Nat /\ x.v < 2^W64 /\ x.extra \in Nat /\ x.extra < 2^W64
    BY <1>1, <2>1, <2>7
  <2>14. RoundsAsValue(f, W64, signed, a, rm, x.v * 2^W64 + x.extra, T)
    BY <2>11, <2>12
  <2> QED BY <1>6, <2>13, <2>14 DEF x, T
<1> QED BY <1>7, <1>8


------------------------------------------------------------------------------
(* The conversions *)

\* The two formats and the places their significands are moved to.
LEMMA ConversionSizes ==
    /\ IsFormat(F32) /\ IsFormat(F64) /\ W64 <= Bias(F32) /\ W64 <= Bias(F64)
    /\ Bias(F32) >= 2 /\ Bias(F64) >= 2 /\ IntBits <= Bias(F32) /\ IntBits <= Bias(F64)
    /\ PlacedAt(F32, IntBits) /\ F32.F + 1 + IntBits <= W64 - 1 /\ IntBits + IntGuard <= F32.F + IntBits
    /\ PlacedAt(F64, 0) /\ F64.F + 1 + 0 <= W64 - 1 /\ IntBits + IntGuard <= F64.F + 0
    /\ PlacedAt(F32, W64 - (F32.F + 1))
<1>1. IsFormat(F32) /\ IsFormat(F64)
  BY Formats
<1>2. /\ F32.F \in Nat /\ F32.G \in Nat /\ F64.F \in Nat /\ F64.G \in Nat /\ F64.G >= 6 /\ F32.G >= 6
      /\ Bias(F32) \in Nat /\ Bias(F64) \in Nat /\ Slack(F32) = 2 * (F32.F + F32.G + 2) /\ Slack(F64) \in Nat
      /\ W64 \in Nat /\ F64.F + F64.G + 2 <= W64
  BY <1>1, FormatFacts, SlackSize DEF Reach
<1>3. W64 = 2 * (F32.F + F32.G + 2) /\ W32 = F32.F + F32.G + 2
  BY FormatAssumption DEF W32, Width
<1>4. W64 <= Bias(F32) /\ W64 <= Bias(F64)
  BY ConversionAssumption
<1>5. /\ IntGuard \in Nat /\ IntBits \in Nat /\ IntBits >= 1 /\ IntGuard <= F32.F /\ IntBits <= W32
      /\ IntBits + IntGuard <= F64.F
  BY IntSizes
<1>6. Bias(F32) >= 2 /\ Bias(F64) >= 2 /\ IntBits <= Bias(F32) /\ IntBits <= Bias(F64)
  BY <1>2, <1>3, <1>4, <1>5
<1>7. F32.F + 1 + IntBits <= W64 - 1 /\ IntBits + IntGuard <= F32.F + IntBits
  BY <1>2, <1>3, <1>5
<1>8. F64.F + 1 + 0 <= W64 - 1 /\ IntBits + IntGuard <= F64.F + 0
  BY <1>2, <1>5
<1>9. PlacedAt(F32, IntBits)
  BY <1>2, <1>3, <1>5 DEF PlacedAt
<1>10. PlacedAt(F64, 0)
  BY <1>2 DEF PlacedAt
<1>11. PlacedAt(F32, W64 - (F32.F + 1))
  BY <1>2, <1>3 DEF PlacedAt
<1> QED BY <1>1, <1>4, <1>6, <1>7, <1>8, <1>9, <1>10, <1>11

LEMMA WordForms ==
    ASSUME NEW f, NEW place, NEW a, NEW rm
    PROVE  /\ toWord(f, place, softfloat_roundToI32, a, rm) = softfloat_roundToI32(IntSign(f, a), WordPart(f, place, a), rm)
           /\ toWord(f, place, softfloat_roundToUI32, a, rm) = softfloat_roundToUI32(IntSign(f, a), WordPart(f, place, a), rm)
BY DEF toWord, WordPart, IntSign, IsNaN

LEMMA SignRange ==
    ASSUME NEW f, IsFormat(f), NEW a \in Word(f)
    PROVE  IntSign(f, a) \in {0, 1} /\ signUI(f, a) \in {0, 1}
<1>1. Fielded(f, a)
  BY Fields
<1> QED BY <1>1 DEF Fielded, IntSign

LEMMA ToWordCorrect ==
    ASSUME NEW f, IsFormat(f), NEW a \in Word(f), NEW place, PlacedAt(f, place), f.F + 1 + place <= W64 - 1,
           IntBits + IntGuard <= f.F + place, Bias(f) >= 2, IntBits <= Bias(f), NEW rm \in RoundingModes
    PROVE  /\ toWord(f, place, softfloat_roundToI32, a, rm) = ToIntSpec(f, IntBits, TRUE, a, rm)
           /\ toWord(f, place, softfloat_roundToUI32, a, rm) = ToIntSpec(f, IntBits, FALSE, a, rm)
<1> DEFINE J == WordPart(f, place, a)
           s == IntSign(f, a)
<1>1. s \in {0, 1} /\ IntBits \in Nat /\ IntBits >= 1
  BY SignRange, IntSizes
<1>2. ASSUME NEW signed \in BOOLEAN
      PROVE  J \in Nat /\ WordRounded(signed, s, J, rm) = ToIntSpec(f, IntBits, signed, a, rm)
  <2>1. J \in Nat /\ RoundsAsValue(f, IntBits, signed, a, rm, J, 2^(IntGuard - 1))
    BY WordValue
  <2>2. ConvertsTo(f, IntBits, signed, a, rm, ToIntSpec(f, IntBits, signed, a, rm))
    BY <1>1, ToIntUnits
  <2> QED BY <2>1, <2>2 DEF RoundsAsValue, RoundsAlike, ConvertsTo, WordRounded, IntRounded
<1>3. TRUE \in BOOLEAN /\ FALSE \in BOOLEAN
  OBVIOUS
<1> HIDE DEF J, s
<1>4. softfloat_roundToI32(s, J, rm) = WordRounded(TRUE, s, J, rm)
  BY <1>1, <1>2, <1>3, RoundToI32
<1>5. softfloat_roundToUI32(s, J, rm) = WordRounded(FALSE, s, J, rm)
  BY <1>1, <1>2, <1>3, RoundToUI32
<1>6. WordRounded(TRUE, s, J, rm) = ToIntSpec(f, IntBits, TRUE, a, rm)
  BY <1>2, <1>3
<1>7. WordRounded(FALSE, s, J, rm) = ToIntSpec(f, IntBits, FALSE, a, rm)
  BY <1>2, <1>3
<1>8. /\ toWord(f, place, softfloat_roundToI32, a, rm) = softfloat_roundToI32(s, J, rm)
      /\ toWord(f, place, softfloat_roundToUI32, a, rm) = softfloat_roundToUI32(s, J, rm)
  BY WordForms DEF J, s
<1> QED BY <1>4, <1>5, <1>6, <1>7, <1>8

\* A value of 2^W64 or more, an infinity or a NaN.
LEMMA LongOutOfRange ==
    ASSUME NEW f, IsFormat(f), NEW a \in Word(f), W64 <= Bias(f), expUI(f, a) >= Bias(f) + W64,
           NEW signed \in BOOLEAN, NEW rm \in RoundingModes
    PROVE  OutOfRange(f, signed, a) = ToIntSpec(f, W64, signed, a, rm)
<1> DEFINE s == IntSign(f, a)
           U == Units(f, a)
           H == 2^HalfPlace(f)
<1>1. s \in {0, 1} /\ W64 \in Nat /\ W64 >= 1 /\ U \in Nat /\ H \in Nat /\ H >= 1 /\ U >= (2 * 2^W64) * H
  BY SignRange, LongSize, UnitsParts, HalfSize, UnitsLarge
<1>2. ConvertsTo(f, W64, signed, a, rm, ToIntSpec(f, W64, signed, a, rm))
  BY <1>1, ToIntUnits
<1>3. OutOfRange(f, signed, a) = Saturated(W64, signed, s)
  BY DEF OutOfRange, IntSign, IsNaN
<1> HIDE DEF s, U, H
<1>4. Overflows(W64, signed, s, U, H, rm)
  BY <1>1, LargeOverflows
<1> QED BY <1>2, <1>3, <1>4 DEF ConvertsTo, Overflows, s, U, H

\* Everything else.
LEMMA LongInRange ==
    ASSUME NEW f, IsFormat(f), NEW a \in Word(f), NEW place, PlacedAt(f, place), W64 <= Bias(f),
           expUI(f, a) < Bias(f) + W64, NEW rm \in RoundingModes
    PROVE  LET x == LongPart(f, place, a)
           IN  /\ softfloat_roundToI64(signUI(f, a), x.v, x.extra, rm) = ToIntSpec(f, W64, TRUE, a, rm)
               /\ softfloat_roundToUI64(signUI(f, a), x.v, x.extra, rm) = ToIntSpec(f, W64, FALSE, a, rm)
<1> DEFINE x == LongPart(f, place, a)
           s == signUI(f, a)
<1>1. s \in {0, 1} /\ W64 \in Nat /\ W64 >= 1
  BY SignRange, LongSize
<1>2. ASSUME NEW signed \in BOOLEAN
      PROVE  /\ x.v \in Nat /\ x.v < 2^W64 /\ x.extra \in Nat /\ x.extra < 2^W64
             /\ LongRounded(signed, s, x.v, x.extra, rm) = ToIntSpec(f, W64, signed, a, rm)
  <2>1. /\ x.v \in Nat /\ x.v < 2^W64 /\ x.extra \in Nat /\ x.extra < 2^W64 /\ IntSign(f, a) = s
        /\ RoundsAsValue(f, W64, signed, a, rm, x.v * 2^W64 + x.extra, 2^(W64 - 1))
    BY LongValue
  <2>2. ConvertsTo(f, W64, signed, a, rm, ToIntSpec(f, W64, signed, a, rm))
    BY <1>1, ToIntUnits
  <2> HIDE DEF x, s
  <2> QED BY <2>1, <2>2 DEF RoundsAsValue, RoundsAlike, ConvertsTo, LongRounded
<1>3. TRUE \in BOOLEAN /\ FALSE \in BOOLEAN
  OBVIOUS
<1> HIDE DEF x, s
<1>4. softfloat_roundToI64(s, x.v, x.extra, rm) = LongRounded(TRUE, s, x.v, x.extra, rm)
  BY <1>1, <1>2, <1>3, RoundToI64
<1>5. softfloat_roundToUI64(s, x.v, x.extra, rm) = LongRounded(FALSE, s, x.v, x.extra, rm)
  BY <1>1, <1>2, <1>3, RoundToUI64
<1> QED BY <1>2, <1>3, <1>4, <1>5 DEF x, s

LEMMA F32ToLongCorrect ==
    ASSUME NEW a \in Word(F32), NEW rm \in RoundingModes
    PROVE  /\ f32_to_i64(a, rm) = ToIntSpec(F32, W64, TRUE, a, rm)
           /\ f32_to_ui64(a, rm) = ToIntSpec(F32, W64, FALSE, a, rm)
<1> DEFINE f == F32
           place == W64 - (f.F + 1)
           sig == Significand(f, a) * 2^(W64 - (f.F + 1))
           dist == Bias(f) + W64 - 1 - expUI(f, a)
           x == softfloat_shiftRightJam64Extra(sig, dist)
           y == LongPart(f, place, a)
           s == signUI(f, a)
<1>1. IsFormat(f) /\ W64 <= Bias(f) /\ PlacedAt(f, place)
  BY ConversionSizes
<1>2. /\ f.F \in Nat /\ Bias(f) \in Nat /\ W64 \in Nat /\ place \in Nat /\ expUI(f, a) \in Nat /\ sig \in Nat
      /\ dist \in Int /\ dist = Bias(f) + f.F + place - expUI(f, a)
  <2>1. f.F \in Nat /\ Bias(f) \in Nat /\ W64 \in Nat /\ place \in Nat /\ expUI(f, a) \in Nat /\ Significand(f, a) \in Nat
    BY <1>1, FormatFacts, UnitsParts DEF PlacedAt, Reach
  <2>2. 2^place \in Nat
    BY <2>1, PowerOfTwo
  <2> QED BY <2>1, <2>2
<1>3. y = IF dist <= 0 THEN [v |-> sig * 2^(-dist), extra |-> 0] ELSE x
  BY <1>2 DEF LongPart
<1>4. f32_to_i64(a, rm) = IF dist < 0 THEN OutOfRange(f, TRUE, a)
                          ELSE IF dist = 0 THEN softfloat_roundToI64(s, sig, 0, rm)
                          ELSE softfloat_roundToI64(s, x.v, x.extra, rm)
  BY DEF f32_to_i64, f32ToLong
<1>5. f32_to_ui64(a, rm) = IF dist < 0 THEN OutOfRange(f, FALSE, a)
                           ELSE IF dist = 0 THEN softfloat_roundToUI64(s, sig, 0, rm)
                           ELSE softfloat_roundToUI64(s, x.v, x.extra, rm)
  BY DEF f32_to_ui64, f32ToLong
<1> HIDE DEF f, sig, x
<1>6. CASE dist < 0
  <2>1. expUI(f, a) >= Bias(f) + W64 /\ TRUE \in BOOLEAN /\ FALSE \in BOOLEAN
    BY <1>2, <1>6
  <2>2. a \in Word(f)
    BY DEF f
  <2>3. /\ OutOfRange(f, TRUE, a) = ToIntSpec(f, W64, TRUE, a, rm)
        /\ OutOfRange(f, FALSE, a) = ToIntSpec(f, W64, FALSE, a, rm)
    BY <1>1, <2>1, <2>2, LongOutOfRange
  <2> QED BY <1>4, <1>5, <1>6, <2>3 DEF f
<1>7. CASE ~(dist < 0)
  <2>1. expUI(f, a) < Bias(f) + W64
    BY <1>2, <1>7
  <2>2. a \in Word(f)
    BY DEF f
  <2>3. /\ softfloat_roundToI64(s, y.v, y.extra, rm) = ToIntSpec(f, W64, TRUE, a, rm)
        /\ softfloat_roundToUI64(s, y.v, y.extra, rm) = ToIntSpec(f, W64, FALSE, a, rm)
    <3> HIDE DEF place
    <3> QED BY <1>1, <2>1, <2>2, LongInRange
  <2> HIDE DEF y, s
  <2>4. CASE dist = 0
    <3> DEFINE z == -dist
    <3>1. z = 0
      BY <2>4
    <3>2. 2^z = 1
      BY <3>1, PowerZero
    <3>3. y.v = sig * 2^z /\ y.extra = 0
      BY <1>3, <2>4
    <3>4. sig * 2^z = sig
      BY <1>2, <3>2
    <3> HIDE DEF dist, z
    <3>5. y.v = sig /\ y.extra = 0 /\ ~(dist < 0)
      BY <1>7, <3>3, <3>4
    <3>6. /\ f32_to_i64(a, rm) = softfloat_roundToI64(s, sig, 0, rm)
          /\ f32_to_ui64(a, rm) = softfloat_roundToUI64(s, sig, 0, rm)
      BY <1>4, <1>5, <2>4, <3>5
    <3> QED BY <2>3, <3>5, <3>6 DEF f
  <2>5. CASE dist # 0
    <3>1. ~(dist <= 0)
      BY <1>2, <1>7, <2>5
    <3>2. y = x
      BY <1>3, <3>1
    <3> HIDE DEF dist
    <3> QED BY <1>4, <1>5, <1>7, <2>3, <2>5, <3>2 DEF f
  <2> QED BY <2>4, <2>5
<1> QED BY <1>6, <1>7

LEMMA F64ToLongCorrect ==
    ASSUME NEW a \in Word(F64), NEW rm \in RoundingModes
    PROVE  /\ f64_to_i64(a, rm) = ToIntSpec(F64, W64, TRUE, a, rm)
           /\ f64_to_ui64(a, rm) = ToIntSpec(F64, W64, FALSE, a, rm)
<1> DEFINE f == F64
           sig == Significand(f, a)
           dist == Bias(f) + f.F - expUI(f, a)
           x == softfloat_shiftRightJam64Extra(sig, dist)
           s == signUI(f, a)
<1>0. PICK place \in Nat : place = 0
  OBVIOUS
<1> DEFINE y == LongPart(f, place, a)
<1>1. IsFormat(f) /\ W64 <= Bias(f) /\ PlacedAt(f, place)
  BY <1>0, ConversionSizes
<1>2. /\ f.F \in Nat /\ Bias(f) \in Nat /\ W64 \in Nat /\ expUI(f, a) \in Nat /\ sig \in Nat
      /\ dist \in Int /\ dist = Bias(f) + f.F + place - expUI(f, a)
  <2>1. f.F \in Nat /\ Bias(f) \in Nat /\ W64 \in Nat /\ expUI(f, a) \in Nat /\ sig \in Nat
    BY <1>1, FormatFacts, UnitsParts DEF Reach
  <2> QED BY <1>0, <2>1
<1>3. y = IF dist <= 0 THEN [v |-> sig * 2^(-dist), extra |-> 0] ELSE x
  <2>1. 2^place = 1
    BY <1>0, PowerZero
  <2>2. sig * 2^place = sig
    <3> HIDE DEF sig
    <3> QED BY <1>2, <2>1
  <2>3. y = IF Bias(f) + f.F + place - expUI(f, a) <= 0
            THEN [v |-> (sig * 2^place) * 2^(-(Bias(f) + f.F + place - expUI(f, a))), extra |-> 0]
            ELSE softfloat_shiftRightJam64Extra(sig * 2^place, Bias(f) + f.F + place - expUI(f, a))
    BY DEF LongPart
  <2> HIDE DEF dist, sig, y
  <2> QED BY <1>2, <2>2, <2>3 DEF x
<1>4. f64_to_i64(a, rm) = IF dist < -(W64 - (f.F + 1)) THEN OutOfRange(f, TRUE, a)
                          ELSE IF dist <= 0 THEN softfloat_roundToI64(s, sig * 2^(-dist), 0, rm)
                          ELSE softfloat_roundToI64(s, x.v, x.extra, rm)
  BY DEF f64_to_i64, f64ToLong
<1>5. f64_to_ui64(a, rm) = IF dist < -(W64 - (f.F + 1)) THEN OutOfRange(f, FALSE, a)
                           ELSE IF dist <= 0 THEN softfloat_roundToUI64(s, sig * 2^(-dist), 0, rm)
                           ELSE softfloat_roundToUI64(s, x.v, x.extra, rm)
  BY DEF f64_to_ui64, f64ToLong
<1> HIDE DEF f, sig, x
<1>9. a \in Word(f)
  BY DEF f
<1>6. CASE dist < -(W64 - (f.F + 1))
  <2>1. expUI(f, a) >= Bias(f) + W64 /\ TRUE \in BOOLEAN /\ FALSE \in BOOLEAN
    BY <1>2, <1>6
  <2>3. /\ OutOfRange(f, TRUE, a) = ToIntSpec(f, W64, TRUE, a, rm)
        /\ OutOfRange(f, FALSE, a) = ToIntSpec(f, W64, FALSE, a, rm)
    BY <1>1, <1>9, <2>1, LongOutOfRange
  <2> QED BY <1>4, <1>5, <1>6, <2>3 DEF f
<1>7. CASE ~(dist < -(W64 - (f.F + 1)))
  <2>1. expUI(f, a) < Bias(f) + W64
    BY <1>2, <1>7
  <2>3. /\ softfloat_roundToI64(s, y.v, y.extra, rm) = ToIntSpec(f, W64, TRUE, a, rm)
        /\ softfloat_roundToUI64(s, y.v, y.extra, rm) = ToIntSpec(f, W64, FALSE, a, rm)
    BY <1>1, <1>9, <2>1, LongInRange
  <2> HIDE DEF y, s, dist
  <2>4. CASE dist <= 0
    <3>3. y.v = sig * 2^(-dist) /\ y.extra = 0
      BY <1>3, <2>4
    <3> QED BY <1>4, <1>5, <1>7, <2>3, <2>4, <3>3 DEF f
  <2>5. CASE ~(dist <= 0)
    <3>2. y = x
      BY <1>3, <2>5
    <3> QED BY <1>4, <1>5, <1>7, <2>3, <2>5, <3>2 DEF f
  <2> QED BY <2>4, <2>5
<1> QED BY <1>6, <1>7


LEMMA NarrowCorrect ==
    ASSUME NEW a \in Word(F64), NEW rm \in RoundingModes
    PROVE  f64_to_f32(a, rm) = NarrowSpec(a, rm)
<1> DEFINE s == signUI(F64, a)
           x == fracUI(F64, a)
<1>1. x \in Nat /\ 2^(F64.F - 1) \in Nat /\ (x \in 1 .. 2^(F64.F - 1) - 1 <=> x # 0 /\ x < 2^(F64.F - 1))
  <2>1. Fielded(F64, a) /\ 2^(F64.F - 1) \in Nat /\ 2^F64.F \in Nat
    BY Formats, Fields, Sizes
  <2>2. x \in Nat
    BY <2>1 DEF Fielded
  <2> HIDE DEF x
  <2> QED BY <2>1, <2>2
<1>2. CASE IsSpecial(F64, a) /\ x = 0
  BY <1>2 DEF f64_to_f32, NarrowSpec, IsNaN, IsInf
<1>3. CASE IsSpecial(F64, a) /\ x # 0
  <2>1. isSigNaN(F64, a) <=> x < 2^(F64.F - 1)
    BY <1>1, <1>3 DEF isSigNaN, IsSpecial
  <2>2. f64_to_f32(a, rm) = [v |-> defaultNaN(F32), fl |-> IF x < 2^(F64.F - 1) THEN {"invalid"} ELSE {}]
    BY <1>3 DEF f64_to_f32
  <2>3. NarrowSpec(a, rm) = IF isSigNaN(F64, a) THEN Invalid(F32) ELSE Exact(defaultNaN(F32))
    BY <1>3 DEF NarrowSpec, IsNaN
  <2> HIDE DEF x
  <2>4. CASE x < 2^(F64.F - 1)
    BY <2>1, <2>2, <2>3, <2>4 DEF Invalid
  <2>5. CASE ~(x < 2^(F64.F - 1))
    BY <2>1, <2>2, <2>3, <2>5 DEF Exact
  <2> QED BY <2>4, <2>5
<1>4. CASE ~IsSpecial(F64, a) /\ IsZero(F64, a)
  <2>1. NarrowSpec(a, rm) = Exact(ZeroOf(F32, s))
    BY <1>4 DEF NarrowSpec, IsNaN, IsInf
  <2>2. softfloat_shortShiftRightJam64(x, F64.F - (F32.F + F32.G)) = 0
    <3> DEFINE D == 2^Cut
    <3>0. Cut \in Nat /\ Cut = F64.F - (F32.F + F32.G)
      <4>1. F32.F \in Nat /\ F32.G \in Nat /\ F64.F \in Nat /\ F32.F + F32.G < F64.F
        BY FormatAssumption
      <4> QED BY <4>1 DEF Cut
    <3>1. D \in Nat /\ D >= 1 /\ x = 0
      BY <1>4, <3>0, PowerOfTwo DEF IsZero
    <3> HIDE DEF D, x
    <3>2. 0 = D * 0 + 0
      BY <3>1
    <3>3. x \div D = 0 /\ x % D = 0
      BY <3>1, <3>2, DivModUnique
    <3> QED BY <3>0, <3>3 DEF D, softfloat_shortShiftRightJam64, Or1
  <2> QED BY <1>4, <2>1, <2>2 DEF f64_to_f32, IsZero
<1>5. CASE ~IsSpecial(F64, a) /\ ~IsZero(F64, a)
  <2>1. NarrowSpec(a, rm) = Rounded(F32, s, MagOf(F64, a), rm)
    BY <1>5 DEF NarrowSpec, IsNaN, IsInf
  <2> QED BY <1>5, <2>1, NarrowFinite
<1> QED BY <1>2, <1>3, <1>4, <1>5

LEMMA LongToFloatCorrect ==
    ASSUME NEW a \in Int, NEW rm \in RoundingModes, Abs(a) < 2^W64
    PROVE  longToF32(Sign(a), Abs(a), rm) = FromIntSpec(F32, a, rm)
<1> DEFINE n == Abs(a)
           s == Sign(a)
<1>1. n \in Nat /\ s \in {0, 1} /\ (n = 0 <=> a = 0)
  BY DEF Abs, Sign
<1>2. IsFormat(F32) /\ n < 2^(2 * W64)
  <2>1. W64 \in 0 .. 2 * W64 /\ 2 * W64 \in Nat
    BY LongSize
  <2>2. 2^W64 <= 2^(2 * W64) /\ 2^W64 \in Nat /\ 2^(2 * W64) \in Nat
    BY <2>1, LongSize, PowerMonotone, PowerOfTwo
  <2>3. n < 2^W64
    OBVIOUS
  <2> HIDE DEF n
  <2> QED BY <1>1, <2>2, <2>3, Formats
<1>3. FromIntSpec(F32, a, rm) = IF a = 0 THEN Exact(0) ELSE Rounded(F32, s, Mag(n, 1, 0), rm)
  BY DEF FromIntSpec
<1>6. n < 2^W64
  OBVIOUS
<1> HIDE DEF n, s
<1>4. CASE n = 0
  BY <1>1, <1>3, <1>4, <1>6, LongToFloat DEF n, s
<1>5. CASE n # 0
  <2>1. longToF32(s, n, rm) = ValueRounded(F32, s, -Depth, n * 2^Depth, rm)
    BY <1>1, <1>5, <1>6, LongToFloat
  <2>2. n >= 1
    BY <1>1, <1>5
  <2>3. Rounded(F32, s, Mag(n, 1, 0), rm) = ValueRounded(F32, s, -Depth, n * 2^Depth, rm)
    BY <1>1, <1>2, <2>2, IntegerRounded
  <2> QED BY <1>1, <1>3, <1>5, <2>1, <2>3 DEF n, s
<1> QED BY <1>4, <1>5

\* Every conversion is the one required.
LEMMA ConvertOperations ==
    ASSUME NEW rm \in RoundingModes
    PROVE  /\ \A a \in C64 : f64_to_f32(a, rm) = NarrowSpec(a, rm)
           /\ \A a \in I32 : i32_to_f32(a, rm) = FromIntSpec(F32, a, rm)
           /\ \A a \in I64 : i64_to_f32(a, rm) = FromIntSpec(F32, a, rm)
           /\ \A a \in U32 : ui32_to_f32(a, rm) = FromIntSpec(F32, a, rm)
           /\ \A a \in U64 : ui64_to_f32(a, rm) = FromIntSpec(F32, a, rm)
           /\ \A a \in I64 : i64_to_f64(a, rm) = FromIntSpec(F64, a, rm)
           /\ \A a \in U64 : ui64_to_f64(a, rm) = FromIntSpec(F64, a, rm)
           /\ \A a \in C32 : f32_to_i32(a, rm) = ToIntSpec(F32, IntBits, TRUE, a, rm)
           /\ \A a \in C32 : f32_to_i64(a, rm) = ToIntSpec(F32, W64, TRUE, a, rm)
           /\ \A a \in C32 : f32_to_ui32(a, rm) = ToIntSpec(F32, IntBits, FALSE, a, rm)
           /\ \A a \in C32 : f32_to_ui64(a, rm) = ToIntSpec(F32, W64, FALSE, a, rm)
           /\ \A a \in C64 : f64_to_i32(a, rm) = ToIntSpec(F64, IntBits, TRUE, a, rm)
           /\ \A a \in C64 : f64_to_i64(a, rm) = ToIntSpec(F64, W64, TRUE, a, rm)
           /\ \A a \in C64 : f64_to_ui32(a, rm) = ToIntSpec(F64, IntBits, FALSE, a, rm)
           /\ \A a \in C64 : f64_to_ui64(a, rm) = ToIntSpec(F64, W64, FALSE, a, rm)
<1>1. IsFormat(F32) /\ IsFormat(F64) /\ W64 <= Bias(F32) /\ W64 <= Bias(F64)
  BY ConversionSizes
<1>2. /\ I32 \subseteq -(2^(Width(F32) - 1)) .. 2^(Width(F32) - 1) - 1 /\ U32 \subseteq 0 .. 2^Width(F32) - 1
      /\ I64 \subseteq -(2^(Width(F64) - 1)) .. 2^(Width(F64) - 1) - 1 /\ U64 \subseteq 0 .. 2^Width(F64) - 1
  BY OperandAssumption DEF W32, W64
<1>3. ASSUME NEW a \in C64 PROVE f64_to_f32(a, rm) = NarrowSpec(a, rm)
  BY Operands, NarrowCorrect
<1>4. ASSUME NEW a \in I32 PROVE i32_to_f32(a, rm) = FromIntSpec(F32, a, rm)
  BY <1>1, <1>2, SignedToFloat DEF i32_to_f32
<1>5. ASSUME NEW a \in I64 PROVE i64_to_f64(a, rm) = FromIntSpec(F64, a, rm)
  BY <1>1, <1>2, SignedToFloat DEF i64_to_f64
<1>6. ASSUME NEW a \in U32 PROVE ui32_to_f32(a, rm) = FromIntSpec(F32, a, rm)
  BY <1>1, <1>2, UnsignedToFloat DEF ui32_to_f32
<1>7. ASSUME NEW a \in U64 PROVE ui64_to_f64(a, rm) = FromIntSpec(F64, a, rm)
  BY <1>1, <1>2, UnsignedToFloat DEF ui64_to_f64
<1>8. ASSUME NEW a \in I64 PROVE i64_to_f32(a, rm) = FromIntSpec(F32, a, rm)
  <2> DEFINE T == 2^(W64 - 1)
  <2>1. a \in -T .. T - 1 /\ T \in Nat /\ T >= 2 /\ 2^W64 = 2 * T
    BY OperandAssumption, LongSize
  <2> HIDE DEF T
  <2>2. a \in Int /\ Abs(a) < 2^W64
    BY <2>1 DEF Abs
  <2> QED BY <2>2, LongToFloatCorrect DEF i64_to_f32
<1>9. ASSUME NEW a \in U64 PROVE ui64_to_f32(a, rm) = FromIntSpec(F32, a, rm)
  <2> DEFINE V == 2^W64
  <2>1. a \in 0 .. V - 1 /\ V \in Nat
    BY OperandAssumption, LongSize
  <2> HIDE DEF V
  <2>2. a \in Int /\ a < V /\ Abs(a) = a /\ Sign(a) = 0
    BY <2>1 DEF Abs, Sign
  <2>3. longToF32(Sign(a), Abs(a), rm) = FromIntSpec(F32, a, rm)
    BY <2>2, LongToFloatCorrect DEF V
  <2> QED BY <2>2, <2>3 DEF ui64_to_f32
<1>10. ASSUME NEW a \in C32
       PROVE  /\ f32_to_i32(a, rm) = ToIntSpec(F32, IntBits, TRUE, a, rm)
              /\ f32_to_ui32(a, rm) = ToIntSpec(F32, IntBits, FALSE, a, rm)
              /\ f32_to_i64(a, rm) = ToIntSpec(F32, W64, TRUE, a, rm)
              /\ f32_to_ui64(a, rm) = ToIntSpec(F32, W64, FALSE, a, rm)
  <2>1. a \in Word(F32)
    BY Operands
  <2>2. /\ toWord(F32, IntBits, softfloat_roundToI32, a, rm) = ToIntSpec(F32, IntBits, TRUE, a, rm)
        /\ toWord(F32, IntBits, softfloat_roundToUI32, a, rm) = ToIntSpec(F32, IntBits, FALSE, a, rm)
    BY <2>1, ConversionSizes, ToWordCorrect
  <2> QED BY <2>1, <2>2, F32ToLongCorrect DEF f32_to_i32, f32_to_ui32
<1>11. ASSUME NEW a \in C64
       PROVE  /\ f64_to_i32(a, rm) = ToIntSpec(F64, IntBits, TRUE, a, rm)
              /\ f64_to_ui32(a, rm) = ToIntSpec(F64, IntBits, FALSE, a, rm)
              /\ f64_to_i64(a, rm) = ToIntSpec(F64, W64, TRUE, a, rm)
              /\ f64_to_ui64(a, rm) = ToIntSpec(F64, W64, FALSE, a, rm)
  <2>1. a \in Word(F64)
    BY Operands
  <2>2. /\ toWord(F64, 0, softfloat_roundToI32, a, rm) = ToIntSpec(F64, IntBits, TRUE, a, rm)
        /\ toWord(F64, 0, softfloat_roundToUI32, a, rm) = ToIntSpec(F64, IntBits, FALSE, a, rm)
    BY <2>1, ConversionSizes, ToWordCorrect
  <2> QED BY <2>1, <2>2, F64ToLongCorrect DEF f64_to_i32, f64_to_ui32
<1> QED BY <1>3, <1>4, <1>5, <1>6, <1>7, <1>8, <1>9, <1>10, <1>11

LEMMA ConvertResults ==
    /\ \A a, rm : IsResult(NarrowSpec(a, rm))
    /\ \A f, a, rm : IsResult(FromIntSpec(f, a, rm))
    /\ \A f, w, signed, a, rm : IsResult(ToIntSpec(f, w, signed, a, rm))
<1>1. \A a, rm : IsResult(NarrowSpec(a, rm))
  BY SpecResults DEF NarrowSpec
<1>2. \A f, a, rm : IsResult(FromIntSpec(f, a, rm))
  BY SpecResults DEF FromIntSpec
<1>3. ASSUME NEW f, NEW w, NEW signed, NEW a, NEW rm PROVE IsResult(ToIntSpec(f, w, signed, a, rm))
  <2>1. \E h, l, i, fl : \E p, q \in BOOLEAN :
          ToIntSpec(f, w, signed, a, rm) = IF p THEN [v |-> h, fl |-> {"invalid"}]
                                           ELSE IF q THEN [v |-> l, fl |-> {"invalid"}] ELSE [v |-> i, fl |-> fl]
    BY Zenon DEF ToIntSpec
  <2> QED BY <2>1 DEF IsResult
<1> QED BY <1>1, <1>2, <1>3

\* The value the handler puts in place of the host's is the required one.
LEMMA HostCorrected ==
    ASSUME NEW f, IsFormat(f), NEW a \in Word(f), NEW w, NEW signed \in BOOLEAN, OutOfIntRange(f, w, signed, a)
    PROVE  [v |-> handleIndeterminate(f, w, signed, a), fl |-> {"invalid"}] = ToIntSpec(f, w, signed, a, "RTZ")
<1> DEFINE s == signUI(f, a)
           lo == IF signed THEN -(2^(w - 1)) ELSE 0
           hi == IF signed THEN 2^(w - 1) - 1 ELSE 2^w - 1
           x == MagOf(f, a)
           z == RoundTo(x, 0, s, "RTZ")
           i == IF s = 1 THEN -z.m ELSE z.m
           out == IsInf(f, a) \/ (x.n # 0 /\ Log2(x) > w) \/ i \notin lo .. hi
<1>1. ToIntSpec(f, w, signed, a, "RTZ")
        = IF IsNaN(f, a) THEN [v |-> hi, fl |-> {"invalid"}]
          ELSE IF out THEN [v |-> IF s = 1 THEN lo ELSE hi, fl |-> {"invalid"}]
          ELSE [v |-> i, fl |-> IF z.inexact THEN {"inexact"} ELSE {}]
  BY DEF ToIntSpec
<1>2. handleIndeterminate(f, w, signed, a) = IF s = 1 /\ ~IsNaN(f, a) THEN lo ELSE hi
  BY DEF handleIndeterminate, isNaN, isNaNorInf, IsNaN, IsSpecial
<1>3. "invalid" \in ToIntSpec(f, w, signed, a, "RTZ").fl
  BY DEF OutOfIntRange
<1> HIDE DEF s, lo, hi, x, z, i, out
<1>4. CASE IsNaN(f, a)
  BY <1>1, <1>2, <1>4
<1>5. CASE ~IsNaN(f, a) /\ out
  BY <1>1, <1>2, <1>5
<1>6. CASE ~IsNaN(f, a) /\ ~out
  <2>1. ToIntSpec(f, w, signed, a, "RTZ").fl = IF z.inexact THEN {"inexact"} ELSE {}
    BY <1>1, <1>6
  <2> QED BY <1>3, <2>1
<1> QED BY <1>4, <1>5, <1>6


\* The mode of a conversion.
CvtMode(rc) == IF rc = "AWAY" THEN "RMM" ELSE mapRM[frm + 1]

\* The result of a conversion, by its operand and its mode.
ConvertedAs(name, a, m, got) ==
    /\ name = "F32F64" => got = NarrowSpec(a, m)
    /\ name = "F32I32" => got = FromIntSpec(F32, a, m)
    /\ name = "F32I64" => got = FromIntSpec(F32, a, m)
    /\ name = "F32U32" => got = FromIntSpec(F32, a, m)
    /\ name = "F32U64" => got = FromIntSpec(F32, a, m)
    /\ name = "F64I64" => got = FromIntSpec(F64, a, m)
    /\ name = "F64U64" => got = FromIntSpec(F64, a, m)
    /\ name = "I32F32" => got = ToIntSpec(F32, IntBits, TRUE, a, m)
    /\ name = "I64F32" => got = ToIntSpec(F32, W64, TRUE, a, m)
    /\ name = "U32F32" => got = ToIntSpec(F32, IntBits, FALSE, a, m)
    /\ name = "U64F32" => got = ToIntSpec(F32, W64, FALSE, a, m)
    /\ name = "I32F64" => got = ToIntSpec(F64, IntBits, TRUE, a, m)
    /\ name = "I64F64" => got = ToIntSpec(F64, W64, TRUE, a, m)
    /\ name = "U32F64" => got = ToIntSpec(F64, IntBits, FALSE, a, m)
    /\ name = "U64F64" => got = ToIntSpec(F64, W64, FALSE, a, m)

LEMMA ConvertModes ==
    ASSUME ModeChosen
    PROVE  \A rc \in RC : beforeFPCVT(rc) = CvtMode(rc) /\ CvtMode(rc) \in RoundingModes
<1> TAKE rc \in RC
<1>1. beforeFPCVT(rc) \in RoundingModes /\ beforeFPCVT(rc) = IF rc = "AWAY" THEN "RMM" ELSE mapRM[frm + 1]
  BY ModeFacts
<1> QED BY <1>1 DEF CvtMode

ConvertOps ==
    {"F32F64", "F32I32", "F32I64", "F32U32", "F32U64", "F64I64", "F64U64", "I32F32", "I64F32", "U32F32", "U64F32",
     "I32F64", "I64F64", "U32F64", "U64F64"}

HostOps == {"CVT32F32", "CVT64F32", "CVT32F64", "CVT64F64"}

\* What a step that converted gives.
ConvertGives == \E a, rc : rc \in RC /\ args' = <<a, rc>> /\ ConvertedAs(op', a, CvtMode(rc), Got')

LEMMA Emulated ==
    ASSUME ModeChosen, setFlags = {}, Next, op' \in ConvertOps
    PROVE  ConvertGives
<1> USE DEF ConvertGives
<1>1. CASE op' = "F32F64"
  <2>1. riscvFCVTF32F64
    BY <1>1, Steps DEF Performed
  <2>2. PICK a \in C64, rc \in RC : Call("F32F64", <<a, rc>>, f64_to_f32(a, beforeFPCVT(rc)))
    BY <2>1 DEF riscvFCVTF32F64
  <2> DEFINE m == CvtMode(rc)
  <2>3. m \in RoundingModes /\ beforeFPCVT(rc) = m
    BY ConvertModes
  <2> HIDE DEF m
  <2>4. f64_to_f32(a, m) = NarrowSpec(a, m)
    BY <2>3, ConvertOperations
  <2>5. IsResult(NarrowSpec(a, m)) /\ Call("F32F64", <<a, rc>>, NarrowSpec(a, m))
    BY <2>2, <2>3, <2>4, ConvertResults
  <2>6. args' = <<a, rc>> /\ Got' = NarrowSpec(a, m)
    BY <2>5, CallGives
  <2>7. ConvertedAs(op', a, m, Got')
    BY <1>1, <2>6 DEF ConvertedAs
  <2> QED BY <2>6, <2>7 DEF m
<1>2. CASE op' = "F32I32"
  <2>1. riscvFCVTF32I32
    BY <1>2, Steps DEF Performed
  <2>2. PICK a \in I32, rc \in RC : Call("F32I32", <<a, rc>>, i32_to_f32(a, beforeFPCVT(rc)))
    BY <2>1 DEF riscvFCVTF32I32
  <2> DEFINE m == CvtMode(rc)
  <2>3. m \in RoundingModes /\ beforeFPCVT(rc) = m
    BY ConvertModes
  <2> HIDE DEF m
  <2>4. i32_to_f32(a, m) = FromIntSpec(F32, a, m)
    BY <2>3, ConvertOperations
  <2>5. IsResult(FromIntSpec(F32, a, m)) /\ Call("F32I32", <<a, rc>>, FromIntSpec(F32, a, m))
    BY <2>2, <2>3, <2>4, ConvertResults
  <2>6. args' = <<a, rc>> /\ Got' = FromIntSpec(F32, a, m)
    BY <2>5, CallGives
  <2>7. ConvertedAs(op', a, m, Got')
    BY <1>2, <2>6 DEF ConvertedAs
  <2> QED BY <2>6, <2>7 DEF m
<1>3. CASE op' = "F32I64"
  <2>1. riscvFCVTF32I64
    BY <1>3, Steps DEF Performed
  <2>2. PICK a \in I64, rc \in RC : Call("F32I64", <<a, rc>>, i64_to_f32(a, beforeFPCVT(rc)))
    BY <2>1 DEF riscvFCVTF32I64
  <2> DEFINE m == CvtMode(rc)
  <2>3. m \in RoundingModes /\ beforeFPCVT(rc) = m
    BY ConvertModes
  <2> HIDE DEF m
  <2>4. i64_to_f32(a, m) = FromIntSpec(F32, a, m)
    BY <2>3, ConvertOperations
  <2>5. IsResult(FromIntSpec(F32, a, m)) /\ Call("F32I64", <<a, rc>>, FromIntSpec(F32, a, m))
    BY <2>2, <2>3, <2>4, ConvertResults
  <2>6. args' = <<a, rc>> /\ Got' = FromIntSpec(F32, a, m)
    BY <2>5, CallGives
  <2>7. ConvertedAs(op', a, m, Got')
    BY <1>3, <2>6 DEF ConvertedAs
  <2> QED BY <2>6, <2>7 DEF m
<1>4. CASE op' = "F32U32"
  <2>1. riscvFCVTF32U32
    BY <1>4, Steps DEF Performed
  <2>2. PICK a \in U32, rc \in RC : Call("F32U32", <<a, rc>>, ui32_to_f32(a, beforeFPCVT(rc)))
    BY <2>1 DEF riscvFCVTF32U32
  <2> DEFINE m == CvtMode(rc)
  <2>3. m \in RoundingModes /\ beforeFPCVT(rc) = m
    BY ConvertModes
  <2> HIDE DEF m
  <2>4. ui32_to_f32(a, m) = FromIntSpec(F32, a, m)
    BY <2>3, ConvertOperations
  <2>5. IsResult(FromIntSpec(F32, a, m)) /\ Call("F32U32", <<a, rc>>, FromIntSpec(F32, a, m))
    BY <2>2, <2>3, <2>4, ConvertResults
  <2>6. args' = <<a, rc>> /\ Got' = FromIntSpec(F32, a, m)
    BY <2>5, CallGives
  <2>7. ConvertedAs(op', a, m, Got')
    BY <1>4, <2>6 DEF ConvertedAs
  <2> QED BY <2>6, <2>7 DEF m
<1>5. CASE op' = "F32U64"
  <2>1. riscvFCVTF32U64
    BY <1>5, Steps DEF Performed
  <2>2. PICK a \in U64, rc \in RC : Call("F32U64", <<a, rc>>, ui64_to_f32(a, beforeFPCVT(rc)))
    BY <2>1 DEF riscvFCVTF32U64
  <2> DEFINE m == CvtMode(rc)
  <2>3. m \in RoundingModes /\ beforeFPCVT(rc) = m
    BY ConvertModes
  <2> HIDE DEF m
  <2>4. ui64_to_f32(a, m) = FromIntSpec(F32, a, m)
    BY <2>3, ConvertOperations
  <2>5. IsResult(FromIntSpec(F32, a, m)) /\ Call("F32U64", <<a, rc>>, FromIntSpec(F32, a, m))
    BY <2>2, <2>3, <2>4, ConvertResults
  <2>6. args' = <<a, rc>> /\ Got' = FromIntSpec(F32, a, m)
    BY <2>5, CallGives
  <2>7. ConvertedAs(op', a, m, Got')
    BY <1>5, <2>6 DEF ConvertedAs
  <2> QED BY <2>6, <2>7 DEF m
<1>6. CASE op' = "F64I64"
  <2>1. riscvFCVTF64I64
    BY <1>6, Steps DEF Performed
  <2>2. PICK a \in I64, rc \in RC : Call("F64I64", <<a, rc>>, i64_to_f64(a, beforeFPCVT(rc)))
    BY <2>1 DEF riscvFCVTF64I64
  <2> DEFINE m == CvtMode(rc)
  <2>3. m \in RoundingModes /\ beforeFPCVT(rc) = m
    BY ConvertModes
  <2> HIDE DEF m
  <2>4. i64_to_f64(a, m) = FromIntSpec(F64, a, m)
    BY <2>3, ConvertOperations
  <2>5. IsResult(FromIntSpec(F64, a, m)) /\ Call("F64I64", <<a, rc>>, FromIntSpec(F64, a, m))
    BY <2>2, <2>3, <2>4, ConvertResults
  <2>6. args' = <<a, rc>> /\ Got' = FromIntSpec(F64, a, m)
    BY <2>5, CallGives
  <2>7. ConvertedAs(op', a, m, Got')
    BY <1>6, <2>6 DEF ConvertedAs
  <2> QED BY <2>6, <2>7 DEF m
<1>7. CASE op' = "F64U64"
  <2>1. riscvFCVTF64U64
    BY <1>7, Steps DEF Performed
  <2>2. PICK a \in U64, rc \in RC : Call("F64U64", <<a, rc>>, ui64_to_f64(a, beforeFPCVT(rc)))
    BY <2>1 DEF riscvFCVTF64U64
  <2> DEFINE m == CvtMode(rc)
  <2>3. m \in RoundingModes /\ beforeFPCVT(rc) = m
    BY ConvertModes
  <2> HIDE DEF m
  <2>4. ui64_to_f64(a, m) = FromIntSpec(F64, a, m)
    BY <2>3, ConvertOperations
  <2>5. IsResult(FromIntSpec(F64, a, m)) /\ Call("F64U64", <<a, rc>>, FromIntSpec(F64, a, m))
    BY <2>2, <2>3, <2>4, ConvertResults
  <2>6. args' = <<a, rc>> /\ Got' = FromIntSpec(F64, a, m)
    BY <2>5, CallGives
  <2>7. ConvertedAs(op', a, m, Got')
    BY <1>7, <2>6 DEF ConvertedAs
  <2> QED BY <2>6, <2>7 DEF m
<1>8. CASE op' = "I32F32"
  <2>1. riscvFCVTI32F32
    BY <1>8, Steps DEF Performed
  <2>2. PICK a \in C32, rc \in RC : Call("I32F32", <<a, rc>>, f32_to_i32(a, beforeFPCVT(rc)))
    BY <2>1 DEF riscvFCVTI32F32
  <2> DEFINE m == CvtMode(rc)
  <2>3. m \in RoundingModes /\ beforeFPCVT(rc) = m
    BY ConvertModes
  <2> HIDE DEF m
  <2>4. f32_to_i32(a, m) = ToIntSpec(F32, IntBits, TRUE, a, m)
    BY <2>3, ConvertOperations
  <2>5. IsResult(ToIntSpec(F32, IntBits, TRUE, a, m)) /\ Call("I32F32", <<a, rc>>, ToIntSpec(F32, IntBits, TRUE, a, m))
    BY <2>2, <2>3, <2>4, ConvertResults
  <2>6. args' = <<a, rc>> /\ Got' = ToIntSpec(F32, IntBits, TRUE, a, m)
    BY <2>5, CallGives
  <2>7. ConvertedAs(op', a, m, Got')
    BY <1>8, <2>6 DEF ConvertedAs
  <2> QED BY <2>6, <2>7 DEF m
<1>9. CASE op' = "I64F32"
  <2>1. riscvFCVTI64F32
    BY <1>9, Steps DEF Performed
  <2>2. PICK a \in C32, rc \in RC : Call("I64F32", <<a, rc>>, f32_to_i64(a, beforeFPCVT(rc)))
    BY <2>1 DEF riscvFCVTI64F32
  <2> DEFINE m == CvtMode(rc)
  <2>3. m \in RoundingModes /\ beforeFPCVT(rc) = m
    BY ConvertModes
  <2> HIDE DEF m
  <2>4. f32_to_i64(a, m) = ToIntSpec(F32, W64, TRUE, a, m)
    BY <2>3, ConvertOperations
  <2>5. IsResult(ToIntSpec(F32, W64, TRUE, a, m)) /\ Call("I64F32", <<a, rc>>, ToIntSpec(F32, W64, TRUE, a, m))
    BY <2>2, <2>3, <2>4, ConvertResults
  <2>6. args' = <<a, rc>> /\ Got' = ToIntSpec(F32, W64, TRUE, a, m)
    BY <2>5, CallGives
  <2>7. ConvertedAs(op', a, m, Got')
    BY <1>9, <2>6 DEF ConvertedAs
  <2> QED BY <2>6, <2>7 DEF m
<1>10. CASE op' = "U32F32"
  <2>1. riscvFCVTU32F32
    BY <1>10, Steps DEF Performed
  <2>2. PICK a \in C32, rc \in RC : Call("U32F32", <<a, rc>>, f32_to_ui32(a, beforeFPCVT(rc)))
    BY <2>1 DEF riscvFCVTU32F32
  <2> DEFINE m == CvtMode(rc)
  <2>3. m \in RoundingModes /\ beforeFPCVT(rc) = m
    BY ConvertModes
  <2> HIDE DEF m
  <2>4. f32_to_ui32(a, m) = ToIntSpec(F32, IntBits, FALSE, a, m)
    BY <2>3, ConvertOperations
  <2>5. IsResult(ToIntSpec(F32, IntBits, FALSE, a, m)) /\ Call("U32F32", <<a, rc>>, ToIntSpec(F32, IntBits, FALSE, a, m))
    BY <2>2, <2>3, <2>4, ConvertResults
  <2>6. args' = <<a, rc>> /\ Got' = ToIntSpec(F32, IntBits, FALSE, a, m)
    BY <2>5, CallGives
  <2>7. ConvertedAs(op', a, m, Got')
    BY <1>10, <2>6 DEF ConvertedAs
  <2> QED BY <2>6, <2>7 DEF m
<1>11. CASE op' = "U64F32"
  <2>1. riscvFCVTU64F32
    BY <1>11, Steps DEF Performed
  <2>2. PICK a \in C32, rc \in RC : Call("U64F32", <<a, rc>>, f32_to_ui64(a, beforeFPCVT(rc)))
    BY <2>1 DEF riscvFCVTU64F32
  <2> DEFINE m == CvtMode(rc)
  <2>3. m \in RoundingModes /\ beforeFPCVT(rc) = m
    BY ConvertModes
  <2> HIDE DEF m
  <2>4. f32_to_ui64(a, m) = ToIntSpec(F32, W64, FALSE, a, m)
    BY <2>3, ConvertOperations
  <2>5. IsResult(ToIntSpec(F32, W64, FALSE, a, m)) /\ Call("U64F32", <<a, rc>>, ToIntSpec(F32, W64, FALSE, a, m))
    BY <2>2, <2>3, <2>4, ConvertResults
  <2>6. args' = <<a, rc>> /\ Got' = ToIntSpec(F32, W64, FALSE, a, m)
    BY <2>5, CallGives
  <2>7. ConvertedAs(op', a, m, Got')
    BY <1>11, <2>6 DEF ConvertedAs
  <2> QED BY <2>6, <2>7 DEF m
<1>12. CASE op' = "I32F64"
  <2>1. riscvFCVTI32F64
    BY <1>12, Steps DEF Performed
  <2>2. PICK a \in C64, rc \in RC : Call("I32F64", <<a, rc>>, f64_to_i32(a, beforeFPCVT(rc)))
    BY <2>1 DEF riscvFCVTI32F64
  <2> DEFINE m == CvtMode(rc)
  <2>3. m \in RoundingModes /\ beforeFPCVT(rc) = m
    BY ConvertModes
  <2> HIDE DEF m
  <2>4. f64_to_i32(a, m) = ToIntSpec(F64, IntBits, TRUE, a, m)
    BY <2>3, ConvertOperations
  <2>5. IsResult(ToIntSpec(F64, IntBits, TRUE, a, m)) /\ Call("I32F64", <<a, rc>>, ToIntSpec(F64, IntBits, TRUE, a, m))
    BY <2>2, <2>3, <2>4, ConvertResults
  <2>6. args' = <<a, rc>> /\ Got' = ToIntSpec(F64, IntBits, TRUE, a, m)
    BY <2>5, CallGives
  <2>7. ConvertedAs(op', a, m, Got')
    BY <1>12, <2>6 DEF ConvertedAs
  <2> QED BY <2>6, <2>7 DEF m
<1>13. CASE op' = "I64F64"
  <2>1. riscvFCVTI64F64
    BY <1>13, Steps DEF Performed
  <2>2. PICK a \in C64, rc \in RC : Call("I64F64", <<a, rc>>, f64_to_i64(a, beforeFPCVT(rc)))
    BY <2>1 DEF riscvFCVTI64F64
  <2> DEFINE m == CvtMode(rc)
  <2>3. m \in RoundingModes /\ beforeFPCVT(rc) = m
    BY ConvertModes
  <2> HIDE DEF m
  <2>4. f64_to_i64(a, m) = ToIntSpec(F64, W64, TRUE, a, m)
    BY <2>3, ConvertOperations
  <2>5. IsResult(ToIntSpec(F64, W64, TRUE, a, m)) /\ Call("I64F64", <<a, rc>>, ToIntSpec(F64, W64, TRUE, a, m))
    BY <2>2, <2>3, <2>4, ConvertResults
  <2>6. args' = <<a, rc>> /\ Got' = ToIntSpec(F64, W64, TRUE, a, m)
    BY <2>5, CallGives
  <2>7. ConvertedAs(op', a, m, Got')
    BY <1>13, <2>6 DEF ConvertedAs
  <2> QED BY <2>6, <2>7 DEF m
<1>14. CASE op' = "U32F64"
  <2>1. riscvFCVTU32F64
    BY <1>14, Steps DEF Performed
  <2>2. PICK a \in C64, rc \in RC : Call("U32F64", <<a, rc>>, f64_to_ui32(a, beforeFPCVT(rc)))
    BY <2>1 DEF riscvFCVTU32F64
  <2> DEFINE m == CvtMode(rc)
  <2>3. m \in RoundingModes /\ beforeFPCVT(rc) = m
    BY ConvertModes
  <2> HIDE DEF m
  <2>4. f64_to_ui32(a, m) = ToIntSpec(F64, IntBits, FALSE, a, m)
    BY <2>3, ConvertOperations
  <2>5. IsResult(ToIntSpec(F64, IntBits, FALSE, a, m)) /\ Call("U32F64", <<a, rc>>, ToIntSpec(F64, IntBits, FALSE, a, m))
    BY <2>2, <2>3, <2>4, ConvertResults
  <2>6. args' = <<a, rc>> /\ Got' = ToIntSpec(F64, IntBits, FALSE, a, m)
    BY <2>5, CallGives
  <2>7. ConvertedAs(op', a, m, Got')
    BY <1>14, <2>6 DEF ConvertedAs
  <2> QED BY <2>6, <2>7 DEF m
<1>15. CASE op' = "U64F64"
  <2>1. riscvFCVTU64F64
    BY <1>15, Steps DEF Performed
  <2>2. PICK a \in C64, rc \in RC : Call("U64F64", <<a, rc>>, f64_to_ui64(a, beforeFPCVT(rc)))
    BY <2>1 DEF riscvFCVTU64F64
  <2> DEFINE m == CvtMode(rc)
  <2>3. m \in RoundingModes /\ beforeFPCVT(rc) = m
    BY ConvertModes
  <2> HIDE DEF m
  <2>4. f64_to_ui64(a, m) = ToIntSpec(F64, W64, FALSE, a, m)
    BY <2>3, ConvertOperations
  <2>5. IsResult(ToIntSpec(F64, W64, FALSE, a, m)) /\ Call("U64F64", <<a, rc>>, ToIntSpec(F64, W64, FALSE, a, m))
    BY <2>2, <2>3, <2>4, ConvertResults
  <2>6. args' = <<a, rc>> /\ Got' = ToIntSpec(F64, W64, FALSE, a, m)
    BY <2>5, CallGives
  <2>7. ConvertedAs(op', a, m, Got')
    BY <1>15, <2>6 DEF ConvertedAs
  <2> QED BY <2>6, <2>7 DEF m
<1> QED BY <1>1, <1>2, <1>3, <1>4, <1>5, <1>6, <1>7, <1>8, <1>9, <1>10, <1>11, <1>12, <1>13, <1>14, <1>15 DEF ConvertOps

\* The host's conversions.
HostGives ==
    \E a, signed :
      /\ args' = <<a, signed>>
      /\ op' = "CVT32F32" => Got' = ToIntSpec(F32, IntBits, signed, a, "RTZ")
      /\ op' = "CVT64F32" => Got' = ToIntSpec(F32, W64, signed, a, "RTZ")
      /\ op' = "CVT32F64" => Got' = ToIntSpec(F64, IntBits, signed, a, "RTZ")
      /\ op' = "CVT64F64" => Got' = ToIntSpec(F64, W64, signed, a, "RTZ")

LEMMA ByHost ==
    ASSUME setFlags = {}, Next, op' \in HostOps
    PROVE  HostGives
<1> USE DEF HostGives
<1>1. hostConvert
  BY Steps DEF Performed, HostOps
<1>2. PICK signed \in BOOLEAN :
        \/ \E a \in C32 :
            \/ /\ OutOfIntRange(F32, IntBits, signed, a)
               /\ Call("CVT32F32", <<a, signed>>, [v |-> handleIndeterminate32(F32, signed, a), fl |-> {"invalid"}])
            \/ /\ OutOfIntRange(F32, W64, signed, a)
               /\ Call("CVT64F32", <<a, signed>>, [v |-> handleIndeterminate64(F32, signed, a), fl |-> {"invalid"}])
        \/ \E a \in C64 :
            \/ /\ OutOfIntRange(F64, IntBits, signed, a)
               /\ Call("CVT32F64", <<a, signed>>, [v |-> handleIndeterminate32(F64, signed, a), fl |-> {"invalid"}])
            \/ /\ OutOfIntRange(F64, W64, signed, a)
               /\ Call("CVT64F64", <<a, signed>>, [v |-> handleIndeterminate64(F64, signed, a), fl |-> {"invalid"}])
  BY <1>1 DEF hostConvert
<1>3. \A r, name, in : IsResult(r) /\ Call(name, in, r) => op' = name /\ args' = in /\ Got' = r
  BY CallGives
<1>4. \A f, w, a : IsResult(ToIntSpec(f, w, signed, a, "RTZ"))
  BY ConvertResults
<1>5. ASSUME NEW f, IsFormat(f), NEW a \in Word(f), NEW w, OutOfIntRange(f, w, signed, a), NEW name,
             Call(name, <<a, signed>>, [v |-> handleIndeterminate(f, w, signed, a), fl |-> {"invalid"}])
      PROVE  op' = name /\ args' = <<a, signed>> /\ Got' = ToIntSpec(f, w, signed, a, "RTZ")
  <2>1. [v |-> handleIndeterminate(f, w, signed, a), fl |-> {"invalid"}] = ToIntSpec(f, w, signed, a, "RTZ")
    BY <1>5, HostCorrected
  <2>2. Call(name, <<a, signed>>, ToIntSpec(f, w, signed, a, "RTZ"))
    BY <1>5, <2>1
  <2> QED BY <1>3, <1>4, <2>2
<1>6. ASSUME NEW a \in C32, OutOfIntRange(F32, IntBits, signed, a),
             Call("CVT32F32", <<a, signed>>, [v |-> handleIndeterminate32(F32, signed, a), fl |-> {"invalid"}])
      PROVE  HostGives
  <2>1. op' = "CVT32F32" /\ args' = <<a, signed>> /\ Got' = ToIntSpec(F32, IntBits, signed, a, "RTZ")
    BY <1>5, <1>6, Formats, Operands DEF handleIndeterminate32
  <2> QED BY <2>1
<1>7. ASSUME NEW a \in C32, OutOfIntRange(F32, W64, signed, a),
             Call("CVT64F32", <<a, signed>>, [v |-> handleIndeterminate64(F32, signed, a), fl |-> {"invalid"}])
      PROVE  HostGives
  <2>1. op' = "CVT64F32" /\ args' = <<a, signed>> /\ Got' = ToIntSpec(F32, W64, signed, a, "RTZ")
    BY <1>5, <1>7, Formats, Operands DEF handleIndeterminate64
  <2> QED BY <2>1
<1>8. ASSUME NEW a \in C64, OutOfIntRange(F64, IntBits, signed, a),
             Call("CVT32F64", <<a, signed>>, [v |-> handleIndeterminate32(F64, signed, a), fl |-> {"invalid"}])
      PROVE  HostGives
  <2>1. op' = "CVT32F64" /\ args' = <<a, signed>> /\ Got' = ToIntSpec(F64, IntBits, signed, a, "RTZ")
    BY <1>5, <1>8, Formats, Operands DEF handleIndeterminate32
  <2> QED BY <2>1
<1>9. ASSUME NEW a \in C64, OutOfIntRange(F64, W64, signed, a),
             Call("CVT64F64", <<a, signed>>, [v |-> handleIndeterminate64(F64, signed, a), fl |-> {"invalid"}])
      PROVE  HostGives
  <2>1. op' = "CVT64F64" /\ args' = <<a, signed>> /\ Got' = ToIntSpec(F64, W64, signed, a, "RTZ")
    BY <1>5, <1>9, Formats, Operands DEF handleIndeterminate64
  <2> QED BY <2>1
<1> HIDE DEF HostGives
<1> QED BY <1>2, <1>6, <1>7, <1>8, <1>9

LEMMA ConvertStep ==
    ASSUME ModeChosen, setFlags = {}, Next, op' \in ConvertOps \cup HostOps
    PROVE  ConvertCorrect'
<1>1. CASE op' \in ConvertOps
  <2>1. PICK a, rc : rc \in RC /\ args' = <<a, rc>> /\ ConvertedAs(op', a, CvtMode(rc), Got')
    BY <1>1, Emulated DEF ConvertGives
  <2>2. args'[1] = a /\ args'[2] = rc
    BY <2>1
  <2>3. CvtRM' = CvtMode(rc)
    <3>1. UNCHANGED frm
      BY Steps DEF Performed
    <3> QED BY <2>2, <3>1 DEF CvtRM, CvtMode, mapRM
  <2>4. ConvertedAs(op', args'[1], CvtRM', Got')
    BY <2>1, <2>2, <2>3
  <2>5. CASE op' = "F32F64"
    BY <2>4, <2>5 DEF ConvertedAs, ConvertCorrect
  <2>6. CASE op' = "F32I32"
    BY <2>4, <2>6 DEF ConvertedAs, ConvertCorrect
  <2>7. CASE op' = "F32I64"
    BY <2>4, <2>7 DEF ConvertedAs, ConvertCorrect
  <2>8. CASE op' = "F32U32"
    BY <2>4, <2>8 DEF ConvertedAs, ConvertCorrect
  <2>9. CASE op' = "F32U64"
    BY <2>4, <2>9 DEF ConvertedAs, ConvertCorrect
  <2>10. CASE op' = "F64I64"
    BY <2>4, <2>10 DEF ConvertedAs, ConvertCorrect
  <2>11. CASE op' = "F64U64"
    BY <2>4, <2>11 DEF ConvertedAs, ConvertCorrect
  <2>12. CASE op' = "I32F32"
    BY <2>4, <2>12 DEF ConvertedAs, ConvertCorrect
  <2>13. CASE op' = "I64F32"
    BY <2>4, <2>13 DEF ConvertedAs, ConvertCorrect
  <2>14. CASE op' = "U32F32"
    BY <2>4, <2>14 DEF ConvertedAs, ConvertCorrect
  <2>15. CASE op' = "U64F32"
    BY <2>4, <2>15 DEF ConvertedAs, ConvertCorrect
  <2>16. CASE op' = "I32F64"
    BY <2>4, <2>16 DEF ConvertedAs, ConvertCorrect
  <2>17. CASE op' = "I64F64"
    BY <2>4, <2>17 DEF ConvertedAs, ConvertCorrect
  <2>18. CASE op' = "U32F64"
    BY <2>4, <2>18 DEF ConvertedAs, ConvertCorrect
  <2>19. CASE op' = "U64F64"
    BY <2>4, <2>19 DEF ConvertedAs, ConvertCorrect
  <2> QED BY <1>1, <2>5, <2>6, <2>7, <2>8, <2>9, <2>10, <2>11, <2>12, <2>13, <2>14, <2>15, <2>16, <2>17, <2>18, <2>19 DEF ConvertOps
<1>2. CASE op' \in HostOps
  <2>1. PICK a, signed :
          /\ args' = <<a, signed>>
          /\ op' = "CVT32F32" => Got' = ToIntSpec(F32, IntBits, signed, a, "RTZ")
          /\ op' = "CVT64F32" => Got' = ToIntSpec(F32, W64, signed, a, "RTZ")
          /\ op' = "CVT32F64" => Got' = ToIntSpec(F64, IntBits, signed, a, "RTZ")
          /\ op' = "CVT64F64" => Got' = ToIntSpec(F64, W64, signed, a, "RTZ")
    BY <1>2, ByHost DEF HostGives
  <2>2. args'[1] = a /\ args'[2] = signed
    BY <2>1
  <2>3. CASE op' = "CVT32F32"
    BY <2>1, <2>2, <2>3 DEF ConvertCorrect
  <2>4. CASE op' = "CVT64F32"
    BY <2>1, <2>2, <2>4 DEF ConvertCorrect
  <2>5. CASE op' = "CVT32F64"
    BY <2>1, <2>2, <2>5 DEF ConvertCorrect
  <2>6. CASE op' = "CVT64F64"
    BY <2>1, <2>2, <2>6 DEF ConvertCorrect
  <2> QED BY <1>2, <2>3, <2>4, <2>5, <2>6 DEF HostOps
<1> QED BY <1>1, <1>2

\* riscvFCVT*, handleIndeterminate* and the conversions of riscvSoftFloat.c:
\* for every two formats, operands and rounding modes a conversion is the
\* exact value rounded once with the flags of that rounding, or saturated
\* with invalid alone, and what the host converts is corrected to the same.
THEOREM Convert == Spec => []ConvertCorrect
<1> DEFINE Inv == FlagsCleared /\ ModeChosen /\ ConvertCorrect
<1>1. Init => Inv
  BY DEF Init, FlagsCleared, ModeChosen, ConvertCorrect
<1>2. Inv /\ [Next]_vars => Inv'
  <2> SUFFICES ASSUME Inv, [Next]_vars PROVE Inv'
    OBVIOUS
  <2>1. CASE Next
    <3>1. FlagsCleared' /\ ModeChosen'
      BY <2>1, Steps DEF Performed, FlagsCleared, ModeChosen
    <3>2. CASE op' \in ConvertOps \cup HostOps
      <4>1. op = "none"
        <5>1. Performed
          BY <2>1, Steps
        <5>2. CASE op' \in HostOps
          BY <5>1, <5>2 DEF Performed, hostConvert, HostOps
        <5>3. CASE op' = "F32F64"
          BY <5>1, <5>3 DEF Performed, riscvFCVTF32F64
        <5>4. CASE op' = "F32I32"
          BY <5>1, <5>4 DEF Performed, riscvFCVTF32I32
        <5>5. CASE op' = "F32I64"
          BY <5>1, <5>5 DEF Performed, riscvFCVTF32I64
        <5>6. CASE op' = "F32U32"
          BY <5>1, <5>6 DEF Performed, riscvFCVTF32U32
        <5>7. CASE op' = "F32U64"
          BY <5>1, <5>7 DEF Performed, riscvFCVTF32U64
        <5>8. CASE op' = "F64I64"
          BY <5>1, <5>8 DEF Performed, riscvFCVTF64I64
        <5>9. CASE op' = "F64U64"
          BY <5>1, <5>9 DEF Performed, riscvFCVTF64U64
        <5>10. CASE op' = "I32F32"
          BY <5>1, <5>10 DEF Performed, riscvFCVTI32F32
        <5>11. CASE op' = "I64F32"
          BY <5>1, <5>11 DEF Performed, riscvFCVTI64F32
        <5>12. CASE op' = "U32F32"
          BY <5>1, <5>12 DEF Performed, riscvFCVTU32F32
        <5>13. CASE op' = "U64F32"
          BY <5>1, <5>13 DEF Performed, riscvFCVTU64F32
        <5>14. CASE op' = "I32F64"
          BY <5>1, <5>14 DEF Performed, riscvFCVTI32F64
        <5>15. CASE op' = "I64F64"
          BY <5>1, <5>15 DEF Performed, riscvFCVTI64F64
        <5>16. CASE op' = "U32F64"
          BY <5>1, <5>16 DEF Performed, riscvFCVTU32F64
        <5>17. CASE op' = "U64F64"
          BY <5>1, <5>17 DEF Performed, riscvFCVTU64F64
        <5> QED BY <3>2, <5>2, <5>3, <5>4, <5>5, <5>6, <5>7, <5>8, <5>9, <5>10, <5>11, <5>12, <5>13, <5>14, <5>15, <5>16, <5>17 DEF ConvertOps
      <4>2. setFlags = {}
        BY <4>1 DEF FlagsCleared
      <4> QED BY <2>1, <3>1, <3>2, <4>2, ConvertStep
    <3>3. CASE op' \notin ConvertOps \cup HostOps
      <4>1. ConvertCorrect'
        BY <3>3, Zenon DEF ConvertCorrect, ConvertOps, HostOps
      <4> QED BY <3>1, <4>1
    <3> QED BY <3>2, <3>3
  <2>2. CASE UNCHANGED vars
    <3>1. FlagsCleared' /\ ModeChosen'
      BY <2>2 DEF vars, FlagsCleared, ModeChosen
    <3>2. ConvertCorrect'
      BY <2>2, Zenon DEF vars, ConvertCorrect, Got, CvtRM, mapRM
    <3> QED BY <3>1, <3>2
  <2> QED BY <2>1, <2>2
<1>3. Inv => ConvertCorrect
  OBVIOUS
<1> QED BY <1>1, <1>2, <1>3, PTL DEF Spec

==============================================================================
