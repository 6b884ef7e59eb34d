-------------------------- MODULE IterationTheorems --------------------------
(***************************************************************************)
(* Induction for the loops of the model.  A loop is a function defined by  *)
(* recursion on the number of iterations.  That there is such a function,  *)
(* and that what every iteration preserves holds after the last, follows   *)
(* from the least number principle.  The step of a loop is here a function *)
(* F[k][s], the state after iteration k that began in state s, so that     *)
(* these facts have no operator for a parameter.  Powers of two, which the *)
(* provers know nothing of, are treated here too.                          *)
(***************************************************************************)
EXTENDS Integers, FiniteSets, FiniteSetTheorems, WellFoundedInduction, TLAPS

\* A set of naturals that is not empty has a least element.
LEMMA LeastElement ==
    ASSUME NEW T, T \subseteq Nat, T # {}
    PROVE  \E x \in T : \A y \in T : x <= y
<1> DEFINE R == OpToRel(<, Nat)
<1>1. IsWellFoundedOn(R, Nat)
  BY NatLessThanWellFounded DEF OpToRel
<1>2. \A x, y \in Nat : y < x => <<y, x>> \in R
  BY DEF OpToRel
<1> HIDE DEF R
<1>3. PICK x \in T : \A y \in T : ~(<<y, x>> \in R)
  BY <1>1, WFMin
<1>4. \A y \in T : ~(y < x)
  BY <1>2, <1>3
<1>5. \A y \in T : x <= y
  BY <1>4
<1> QED BY <1>5

\* What holds before the first iteration and is preserved by each holds after
\* every number of iterations: G is the set of the numbers for which it holds.
LEMMA LoopInduction ==
    ASSUME NEW n \in Nat, NEW G, 0 \in G, \A k \in 1..n : k - 1 \in G => k \in G
    PROVE  \A k \in 0..n : k \in G
<1> DEFINE T == {k \in 0..n : k \notin G}
<1> SUFFICES ASSUME T # {} PROVE FALSE
  OBVIOUS
<1>0. T \subseteq Nat
  OBVIOUS
<1> HIDE DEF T
<1>1. PICK x \in T : \A y \in T : x <= y
  BY <1>0, LeastElement
<1> USE DEF T
<1>2. x \in 1..n /\ x \notin G
  OBVIOUS
<1>3. x - 1 \in 0..n /\ x - 1 \notin T
  BY <1>1, <1>2
<1> QED BY <1>2, <1>3

\* The state stays in a set that every iteration maps to itself.
LEMMA LoopType ==
    ASSUME NEW n \in Nat, NEW S, NEW f, f[0] \in S, \A k \in 1..n : f[k-1] \in S => f[k] \in S
    PROVE  \A k \in 0..n : f[k] \in S
<1> DEFINE T == {k \in 0..n : f[k] \in S}
<1>1. 0 \in T /\ \A k \in 1..n : k - 1 \in T => k \in T
  OBVIOUS
<1> HIDE DEF T
<1>2. \A k \in 0..n : k \in T
  BY <1>1, LoopInduction
<1> QED BY <1>2 DEF T

\* The bodies of a loop of n iterations with states in S.
Bodies(n, S) == [1..n -> [S -> S]]

\* f gives the states of the loop with body F that begins in state s.
IsLoop(f, n, S, s, F) ==
    f \in [0..n -> S] /\ f[0] = s /\ \A k \in 1..n : f[k] = F[k][f[k-1]]

LEMMA LoopExists ==
    ASSUME NEW n \in Nat, NEW S, NEW s \in S, NEW F \in Bodies(n, S)
    PROVE  \E f : IsLoop(f, n, S, s, F)
<1> USE DEF Bodies
<1> DEFINE Loop(m) == \E f \in [0..m -> S] : /\ f[0] = s
                                             /\ \A k \in 1..m : f[k] = F[k][f[k-1]]
           G == {m \in 0..n : Loop(m)}
<1>1. 0 \in G
  <2> DEFINE f == [k \in 0..0 |-> s]
  <2>1. f \in [0..0 -> S] /\ f[0] = s /\ \A k \in 1..0 : f[k] = F[k][f[k-1]]
    OBVIOUS
  <2> HIDE DEF f
  <2>2. Loop(0)
    BY <2>1
  <2> QED BY <2>2
<1>2. ASSUME NEW m \in 1..n, m - 1 \in G PROVE m \in G
  <2>1. PICK f \in [0..(m-1) -> S] : /\ f[0] = s
                                     /\ \A k \in 1..(m-1) : f[k] = F[k][f[k-1]]
    BY <1>2
  <2> DEFINE g == [k \in 0..m |-> IF k = m THEN F[m][f[m-1]] ELSE f[k]]
  <2>2. g \in [0..m -> S]
    <3>1. m - 1 \in 0..(m-1) /\ \A k \in 0..m : k # m => k \in 0..(m-1)
      OBVIOUS
    <3> QED BY <3>1
  <2>3. g[0] = s
    BY <2>1
  <2>4. ASSUME NEW k \in 1..m PROVE g[k] = F[k][g[k-1]]
    <3>1. k - 1 \in 0..m /\ k - 1 # m /\ g[k-1] = f[k-1]
      OBVIOUS
    <3>2. CASE k = m
      BY <3>1, <3>2
    <3>3. CASE k # m
      <4>1. k \in 1..(m-1) /\ g[k] = f[k]
        BY <3>3
      <4> QED BY <2>1, <3>1, <4>1
    <3> QED BY <3>2, <3>3
  <2> HIDE DEF g
  <2>5. Loop(m)
    BY <2>2, <2>3, <2>4
  <2> HIDE DEF Loop
  <2> QED BY <2>5
<1> HIDE DEF G
<1>3. \A k \in 0..n : k \in G
  BY <1>1, <1>2, LoopInduction
<1>4. PICK f \in [0..n -> S] : f[0] = s /\ \A k \in 1..n : f[k] = F[k][f[k-1]]
  BY <1>3 DEF G
<1> QED BY <1>4 DEF IsLoop

------------------------------------------------------------------------------
(* Powers of two *)

\* A power of two is the number of subsets of a finite set.
LEMMA PowerOfTwo == ASSUME NEW n \in Nat PROVE 2^n \in Nat /\ 2^n >= 1
<1>1. IsFiniteSet(1..n) /\ Cardinality(1..n) = n
  BY FS_Interval
<1>2. IsFiniteSet(SUBSET (1..n)) /\ Cardinality(SUBSET (1..n)) = 2^n
  BY <1>1, FS_SUBSET
<1>3. Cardinality(SUBSET (1..n)) \in Nat
  BY <1>2, FS_CardinalityType
<1>4. Cardinality(SUBSET (1..n)) # 0
  BY <1>2, FS_EmptySet
<1> QED BY <1>2, <1>3, <1>4

LEMMA PowerDoubles == ASSUME NEW n \in Nat PROVE 2^(n+1) = 2 * 2^n
<1> DEFINE A == SUBSET (1..n)
           B == {X \cup {n+1} : X \in A}
<1>1. /\ IsFiniteSet(1..n) /\ Cardinality(1..n) = n
      /\ IsFiniteSet(1..(n+1)) /\ Cardinality(1..(n+1)) = n + 1
  BY FS_Interval
<1>2. /\ IsFiniteSet(A) /\ Cardinality(A) = 2^n
      /\ Cardinality(SUBSET (1..(n+1))) = 2^(n+1)
  BY <1>1, FS_SUBSET
<1>3. ExistsBijection(A, B)
  <2> DEFINE f == [X \in A |-> X \cup {n+1}]
  <2>1. f \in [A -> B]
    OBVIOUS
  <2>2. \A X, Y \in A : f[X] = f[Y] => X = Y
    <3>1. \A X \in A : X = (X \cup {n+1}) \ {n+1}
      OBVIOUS
    <3> QED BY <3>1
  <2>3. \A Y \in B : \E X \in A : f[X] = Y
    OBVIOUS
  <2> HIDE DEF A, B, f
  <2>4. f \in Bijection(A, B)
    BY <2>1, <2>2, <2>3 DEF Bijection, Injection, Surjection, IsInjective
  <2> QED BY <2>4 DEF ExistsBijection
<1>4. SUBSET (1..(n+1)) = A \cup B
  <2>1. ASSUME NEW X \in SUBSET (1..(n+1)) PROVE X \in A \cup B
    <3>1. CASE n + 1 \in X
      <4>1. X \ {n+1} \in A /\ X = (X \ {n+1}) \cup {n+1}
        BY <3>1
      <4> QED BY <4>1
    <3>2. CASE n + 1 \notin X
      BY <3>2
    <3> QED BY <3>1, <3>2
  <2>2. ASSUME NEW X \in A PROVE X \subseteq 1..(n+1) /\ X \cup {n+1} \subseteq 1..(n+1)
    <3>1. 1..n \subseteq 1..(n+1) /\ n + 1 \in 1..(n+1)
      OBVIOUS
    <3> QED BY <3>1
  <2>3. \A Y \in B : \E X \in A : Y = X \cup {n+1}
    OBVIOUS
  <2> HIDE DEF A, B
  <2>4. \A X \in A \cup B : X \in SUBSET (1..(n+1))
    BY <2>2, <2>3
  <2>5. \A X \in SUBSET (1..(n+1)) : X \in A \cup B
    BY <2>1
  <2> QED BY <2>4, <2>5, Zenon
<1>5. A \cap B = {}
  <2>1. \A X \in A : n + 1 \notin X
    OBVIOUS
  <2>2. \A X \in B : n + 1 \in X
    OBVIOUS
  <2> QED BY <2>1, <2>2
<1> HIDE DEF A, B
<1>6. IsFiniteSet(B) /\ Cardinality(B) = Cardinality(A)
  BY <1>2, <1>3, FS_Bijection
<1>7. Cardinality(A \cup B) = Cardinality(A) + Cardinality(B) - Cardinality(A \cap B)
  BY <1>2, <1>6, FS_Union
<1>8. Cardinality(A \cap B) = 0
  BY <1>5, FS_EmptySet
<1>9. Cardinality(A) \in Nat
  BY <1>2, FS_CardinalityType
<1>10. 2^(n+1) = Cardinality(A \cup B)
  BY <1>2, <1>4
<1>11. Cardinality(A \cup B) = Cardinality(A) + Cardinality(A)
  BY <1>6, <1>7, <1>8, <1>9
<1> QED BY <1>2, <1>9, <1>10, <1>11

LEMMA PowerZero == 2^0 = 1
<1>1. IsFiniteSet({}) /\ Cardinality({}) = 0
  BY FS_EmptySet
<1>2. Cardinality(SUBSET {}) = 2^0
  BY <1>1, FS_SUBSET
<1>3. SUBSET {} = {{}}
  OBVIOUS
<1> QED BY <1>2, <1>3, FS_Singleton

LEMMA PowerSum == ASSUME NEW a \in Nat, NEW b \in Nat PROVE 2^(a+b) = 2^a * 2^b
<1> DEFINE G == {k \in 0..b : 2^(a+k) = 2^a * 2^k}
<1>1. 0 \in G
  <2>1. 2^0 = 1
    BY PowerZero
  <2> QED BY <2>1, PowerOfTwo
<1>2. ASSUME NEW k \in 1..b, k - 1 \in G PROVE k \in G
  <2>1. 2^(a+(k-1)) = 2^a * 2^(k-1)
    BY <1>2
  <2>2. 2^((a+(k-1))+1) = 2 * 2^(a+(k-1))
    BY PowerDoubles
  <2>3. 2^((k-1)+1) = 2 * 2^(k-1)
    BY PowerDoubles
  <2>4. (a+(k-1))+1 = a+k /\ (k-1)+1 = k
    OBVIOUS
  <2>5. 2^a \in Nat /\ 2^(k-1) \in Nat
    BY PowerOfTwo
  <2>6. 2^(a+k) = 2 * (2^a * 2^(k-1)) /\ 2^k = 2 * 2^(k-1)
    BY <2>1, <2>2, <2>3, <2>4
  <2>7. \A x, y \in Nat : 2 * (x * y) = x * (2 * y)
    OBVIOUS
  <2> QED BY <2>5, <2>6, <2>7
<1> HIDE DEF G
<1>3. \A k \in 0..b : k \in G
  BY <1>1, <1>2, LoopInduction
<1> QED BY <1>3 DEF G

LEMMA PowerMonotone == ASSUME NEW n \in Nat, NEW m \in 0..n PROVE 2^m <= 2^n
<1>1. /\ IsFiniteSet(1..n) /\ Cardinality(1..n) = n
      /\ IsFiniteSet(1..m) /\ Cardinality(1..m) = m
  BY FS_Interval
<1>2. /\ IsFiniteSet(SUBSET (1..n)) /\ Cardinality(SUBSET (1..n)) = 2^n
      /\ Cardinality(SUBSET (1..m)) = 2^m
  BY <1>1, FS_SUBSET
<1>3. SUBSET (1..m) \in SUBSET (SUBSET (1..n))
  OBVIOUS
<1> QED BY <1>2, <1>3, FS_Subset

LEMMA PowerStep == ASSUME NEW n \in Nat, n >= 1 PROVE 2^n = 2 * 2^(n - 1)
<1>1. n - 1 \in Nat /\ (n - 1) + 1 = n
  OBVIOUS
<1> QED BY <1>1, PowerDoubles

LEMMA PowerStrict == ASSUME NEW n \in Nat, NEW m \in Nat, m < n PROVE 2 * 2^m <= 2^n
<1>1. m + 1 \in 0..n
  OBVIOUS
<1>2. 2^(m + 1) <= 2^n
  BY <1>1, PowerMonotone
<1> QED BY <1>2, PowerDoubles

LEMMA PowerDiff ==
    ASSUME NEW a \in Nat, NEW b \in Nat, b <= a
    PROVE  2^a = 2^(a - b) * 2^b /\ 2^a = 2^b * 2^(a - b)
<1>1. a - b \in Nat /\ (a - b) + b = a
  OBVIOUS
<1>2. 2^a = 2^(a - b) * 2^b
  BY <1>1, PowerSum
<1>3. 2^(a - b) \in Nat /\ 2^b \in Nat
  BY <1>1, PowerOfTwo
<1>4. \A x, y \in Nat : x * y = y * x
  OBVIOUS
<1> QED BY <1>2, <1>3, <1>4

------------------------------------------------------------------------------
(* Division *)

LEMMA Euclid ==
    ASSUME NEW x \in Int, NEW d \in Nat, d >= 1
    PROVE  x \div d \in Int /\ x % d \in 0..(d - 1) /\ x = d * (x \div d) + (x % d)
OBVIOUS

LEMMA DivUnique ==
    ASSUME NEW x \in Int, NEW d \in Nat, NEW q \in Int, d >= 1, d * q <= x, x < d * q + d
    PROVE  x \div d = q
<1> DEFINE r == x \div d
           s == x % d
<1>1. r \in Int /\ s \in 0..(d-1) /\ x = d * r + s
  OBVIOUS
<1> HIDE DEF r, s
<1>2. d * (r - q) < d /\ d * (r - q) > -d
  BY <1>1
<1>3. r - q < 1
  BY <1>1, <1>2
<1>4. r - q > -1
  BY <1>1, <1>2
<1>5. r = q
  BY <1>1, <1>3, <1>4
<1> QED BY <1>5 DEF r

LEMMA NestedDiv ==
    ASSUME NEW x \in Nat, NEW a \in Nat \ {0}, NEW b \in Nat \ {0}
    PROVE  x \div (a * b) = (x \div a) \div b
<1> DEFINE u == x \div a
           s == x % a
           v == u \div b
           r == u % b
<1>1. u \in Int /\ s \in 0..(a-1) /\ x = a * u + s
  OBVIOUS
<1>2. v \in Int /\ r \in 0..(b-1) /\ u = b * v + r
  <2> HIDE DEF u
  <2> QED BY <1>1
<1> HIDE DEF u, s, v, r
<1>3. a * b \in Nat /\ a * b >= 1
  OBVIOUS
<1>4. x = (a * b) * v + (a * r + s)
  <2>1. a * u = a * (b * v + r)
    BY <1>2
  <2>2. a * (b * v + r) = (a * b) * v + a * r
    BY <1>2
  <2>3. a * r \in Int /\ (a * b) * v \in Int
    BY <1>2
  <2> QED BY <1>1, <2>1, <2>2, <2>3
<1>5. a * r >= 0 /\ a * r <= a * (b - 1)
  BY <1>2
<1>6. a * (b - 1) = a * b - a
  OBVIOUS
<1> DEFINE c == a * b
           t == a * r + s
<1>7. t \in Int /\ t >= 0 /\ t < c
  BY <1>1, <1>2, <1>5, <1>6
<1>8. c \in Nat /\ c >= 1 /\ x = c * v + t
  BY <1>3, <1>4
<1> HIDE DEF c, t
<1>9. c * v \in Int
  BY <1>2, <1>8
<1>10. c * v <= x /\ x < c * v + c
  BY <1>7, <1>8, <1>9
<1>11. x \div c = v
  BY <1>2, <1>8, <1>10, DivUnique
<1> QED BY <1>3, <1>11 DEF c, u, v

\* Quotient and remainder are determined by their product and range.
LEMMA DivModUnique ==
    ASSUME NEW x \in Int, NEW d \in Nat, NEW q \in Int, NEW r \in Nat, r < d, x = d * q + r
    PROVE  x \div d = q /\ x % d = r
<1>0. d * q \in Int /\ d >= 1
  OBVIOUS
<1>1. d * q <= x /\ x < d * q + d
  BY <1>0
<1>2. x \div d = q
  BY <1>0, <1>1, DivUnique
<1>3. x = d * (x \div d) + (x % d) /\ x % d \in Int
  BY <1>0, Euclid
<1>4. x = d * q + (x % d)
  BY <1>2, <1>3
<1> QED BY <1>0, <1>2, <1>3, <1>4

LEMMA NestedMod ==
    ASSUME NEW x \in Nat, NEW a \in Nat \ {0}, NEW b \in Nat \ {0}
    PROVE  x % (a * b) = a * ((x \div a) % b) + (x % a)
<1> DEFINE u == x \div a
           s == x % a
           v == u \div b
           r == u % b
           c == a * b
           t == a * r + s
<1>1. u \in Int /\ s \in 0..(a-1) /\ x = a * u + s
  OBVIOUS
<1>2. v \in Int /\ r \in 0..(b-1) /\ u = b * v + r
  <2> HIDE DEF u
  <2> QED BY <1>1
<1> HIDE DEF u, s, v, r
<1>3. x = c * v + t
  <2>1. a * u = a * (b * v + r)
    BY <1>2
  <2>2. a * (b * v + r) = (a * b) * v + a * r
    BY <1>2
  <2>3. a * r \in Int /\ (a * b) * v \in Int
    BY <1>2
  <2> QED BY <1>1, <2>1, <2>2, <2>3
<1>4. t \in Nat /\ t < c /\ c \in Nat
  <2>1. a * r >= 0 /\ a * r <= a * (b - 1) /\ a * r \in Int
    BY <1>2
  <2>2. a * (b - 1) = a * b - a /\ a * b \in Nat
    OBVIOUS
  <2> QED BY <1>1, <2>1, <2>2
<1> HIDE DEF c, t
<1>5. x % c = t
  BY <1>2, <1>3, <1>4, DivModUnique
<1> QED BY <1>5 DEF c, t, u, r, s

LEMMA ScaledDivMod ==
    ASSUME NEW x \in Int, NEW h \in Nat \ {0}, NEW k \in Nat \ {0}
    PROVE  (x * k) \div (h * k) = x \div h /\ (x * k) % (h * k) = (x % h) * k
<1> DEFINE q == x \div h
           r == x % h
           y == x * k
           c == h * k
           t == r * k
<1>1. q \in Int /\ r \in 0..(h-1) /\ x = h * q + r
  OBVIOUS
<1> HIDE DEF q, r
<1>2. y = c * q + t
  <2>1. x * k = (h * q + r) * k
    BY <1>1
  <2>2. (h * q + r) * k = (h * k) * q + r * k
    BY <1>1
  <2> QED BY <2>1, <2>2
<1>3. t \in Nat /\ t < c /\ c \in Nat /\ y \in Int
  <2>1. r * k <= (h - 1) * k /\ r * k >= 0 /\ r * k \in Int
    BY <1>1
  <2>2. (h - 1) * k = h * k - k /\ h * k \in Nat
    OBVIOUS
  <2> QED BY <1>1, <2>1, <2>2
<1> HIDE DEF y, c, t
<1>4. y \div c = q /\ y % c = t
  BY <1>1, <1>2, <1>3, DivModUnique
<1> QED BY <1>4 DEF y, c, t, q, r

LEMMA ShiftedDivMod ==
    ASSUME NEW a \in Int, NEW x \in Int, NEW h \in Nat \ {0}
    PROVE  (a * h + x) \div h = a + (x \div h) /\ (a * h + x) % h = x % h
<1> DEFINE q == x \div h
           r == x % h
           y == a * h + x
           p == a + q
<1>1. q \in Int /\ r \in 0..(h-1) /\ x = h * q + r
  OBVIOUS
<1> HIDE DEF q, r
<1>2. y = h * p + r /\ y \in Int /\ p \in Int /\ r \in Nat /\ r < h
  <2>1. h * (a + q) = a * h + h * q /\ a * h \in Int /\ h * q \in Int
    BY <1>1
  <2> QED BY <1>1, <2>1
<1> HIDE DEF y, p
<1>3. y \div h = p /\ y % h = r
  BY <1>2, DivModUnique
<1> QED BY <1>3 DEF y, p, q, r

LEMMA MirroredDivMod ==
    ASSUME NEW a \in Int, NEW x \in Int, NEW h \in Nat \ {0}
    PROVE  /\ x % h = 0 => (a * h - x) \div h = a - (x \div h) /\ (a * h - x) % h = 0
           /\ x % h # 0 => (a * h - x) \div h = a - (x \div h) - 1 /\ (a * h - x) % h = h - (x % h)
<1> DEFINE q == x \div h
           r == x % h
           y == a * h - x
           p == IF r = 0 THEN a - q ELSE a - q - 1
           t == IF r = 0 THEN 0 ELSE h - r
<1>1. q \in Int /\ r \in 0..(h-1) /\ x = h * q + r
  OBVIOUS
<1> HIDE DEF q, r
<1>2. y = h * p + t /\ y \in Int /\ p \in Int /\ t \in Nat /\ t < h
  <2>1. /\ h * (a - q) = a * h - h * q /\ h * (a - q - 1) = a * h - h * q - h
        /\ a * h \in Int /\ h * q \in Int
    BY <1>1
  <2>2. CASE r = 0
    BY <1>1, <2>1, <2>2
  <2>3. CASE r # 0
    BY <1>1, <2>1, <2>3
  <2> QED BY <2>2, <2>3
<1>3. (r = 0 => p = a - q /\ t = 0) /\ (r # 0 => p = a - q - 1 /\ t = h - r)
  OBVIOUS
<1> HIDE DEF y, p, t
<1>4. y \div h = p /\ y % h = t
  BY <1>2, DivModUnique
<1> QED BY <1>3, <1>4 DEF y, q, r

==============================================================================
