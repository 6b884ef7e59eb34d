---------------------------- MODULE RiscvPMPProofs ----------------------------
(***************************************************************************)
(* Theorems about RiscvPMP, for every number of entries, every grain and   *)
(* width of addresses and every set of bytes that software writes.         *)
(***************************************************************************)
EXTENDS RiscvPMP, IterationTheorems, FiniteSetTheorems

------------------------------------------------------------------------------
(* Arithmetic *)

\* Division with remainder.
LEMMA Remainder ==
    ASSUME NEW e \in Nat, NEW h \in Nat, h >= 1
    PROVE  /\ e % h \in 0..(h-1)
           /\ e % (2*h) = e % h \/ e % (2*h) = (e % h) + h
<1> DEFINE r == e % h
           q == e \div h
           s == e % (2*h)
           p == e \div (2*h)
<1>1. r \in 0..(h-1) /\ q \in Int /\ s \in 0..(2*h-1) /\ p \in Int
  OBVIOUS
<1>2. e = h*q + r /\ e = (2*h)*p + s
  OBVIOUS
<1> HIDE DEF r, q, s, p
<1>3. h * (q - 2*p) = s - r
  BY <1>1, <1>2
<1> DEFINE d == q - 2*p
<1>4. d \in Int /\ h * d = s - r
  BY <1>1, <1>3
<1> HIDE DEF d
<1>5. h * d < 2*h /\ h * d > -h
  BY <1>1, <1>4
<1>6. d < 2
  BY <1>4, <1>5
<1>7. d > -1
  BY <1>4, <1>5
<1>8. d = 0 \/ d = 1
  BY <1>4, <1>6, <1>7
<1>9. s = r \/ s = r + h
  BY <1>1, <1>4, <1>8
<1> QED BY <1>1, <1>9 DEF r, s

LEMMA RoundDownBounds ==
    ASSUME NEW x \in Nat, NEW unit \in Nat, unit >= 1
    PROVE  /\ RoundDown(x, unit) \in 0..x
           /\ x - RoundDown(x, unit) \in 0..(unit-1)
           /\ RoundDown(0, unit) = 0
<1>1. x % unit \in 0..(unit-1) /\ 0 % unit = 0
  OBVIOUS
<1>2. x % unit <= x
  BY <1>1
<1> QED BY <1>1, <1>2 DEF RoundDown

------------------------------------------------------------------------------
(* Types *)

TypeOK ==
    /\ config \in Configs
    /\ pmpcfg \in [Entries -> Elem]
    /\ pmpaddr \in [Entries -> Addr]
    /\ priv \in [PMPModes -> [Addr -> Privs]]

LEMMA ConfigType ==
    ASSUME config \in Configs
    PROVE  /\ G \in 0..29 /\ AddrBits \in Nat /\ ElemVals \subseteq Elem
           /\ 2^G \in Nat /\ 2^G >= 1 /\ MaxAddr \in Nat
           /\ N \in 1..16
<1>1. G \in 0..29 /\ AddrBits \in Nat /\ ElemVals \subseteq Elem /\ N \in 1..16
  BY PMPAssumption DEF G, AddrBits, ElemVals
<1>2. 2^G \in Nat /\ 2^G >= 1 /\ 2^AddrBits \in Nat /\ 2^AddrBits >= 1
  BY <1>1, PowerOfTwo
<1> QED BY <1>1, <1>2 DEF MaxAddr

\* The effective address of an entry is small enough for NapotSize.
LEMMA EffectiveAddrType ==
    ASSUME config \in Configs, NEW c, NEW a, NEW i, a[i] \in Addr
    PROVE  EffectiveAddr(c, a, i) \in Nat /\ EffectiveAddr(c, a, i) < 2^(AddrBits+G+1) - 1
<1> DEFINE K == AddrBits + G
<1>1. G \in 0..29 /\ AddrBits \in Nat /\ K \in Nat /\ MaxAddr \in Nat /\ a[i] \in 0..MaxAddr
  BY ConfigType DEF Addr
<1>2. 2^(K+1) = 2 * 2^K /\ 2^K \in Nat /\ 2^K >= 1
  BY <1>1, PowerDoubles, PowerOfTwo
<1>3. 2^AddrBits \in Nat /\ 2^AddrBits <= 2^K /\ 2^G \in Nat /\ 2^G >= 1 /\ 2^G <= 2^K
  BY <1>1, PowerMonotone, PowerOfTwo
<1>4. G >= 1 => 2^(G-1) \in Nat /\ 2^(G-1) >= 1 /\ 2^(G-1) <= 2^K
  BY <1>1, PowerMonotone, PowerOfTwo
<1>5. a[i] \in Nat /\ a[i] <= 2^AddrBits - 1
  BY <1>1, <1>3 DEF MaxAddr
<1>6. CASE G >= 2 /\ c[i].mode = "NAPOT"
  <2>1. RoundDown(a[i], 2^(G-1)) \in 0..a[i]
    BY <1>1, <1>4, <1>5, <1>6, RoundDownBounds
  <2>2. EffectiveAddr(c, a, i) = RoundDown(a[i], 2^(G-1)) + 2^(G-1) - 1
    BY <1>6 DEF EffectiveAddr
  <2> HIDE DEF K
  <2>3. EffectiveAddr(c, a, i) \in Nat /\ EffectiveAddr(c, a, i) < 2^(K+1) - 1
    BY <1>1, <1>2, <1>3, <1>4, <1>5, <1>6, <2>1, <2>2
  <2> QED BY <2>3 DEF K
<1>7. CASE G >= 1 /\ c[i].mode # "NAPOT"
  <2>1. RoundDown(a[i], 2^G) \in 0..a[i]
    BY <1>3, <1>5, RoundDownBounds
  <2>2. EffectiveAddr(c, a, i) = RoundDown(a[i], 2^G)
    BY <1>7 DEF EffectiveAddr
  <2> HIDE DEF K
  <2>3. EffectiveAddr(c, a, i) \in Nat /\ EffectiveAddr(c, a, i) < 2^(K+1) - 1
    BY <1>1, <1>2, <1>3, <1>5, <2>1, <2>2
  <2> QED BY <2>3 DEF K
<1>8. CASE ~(G >= 2 /\ c[i].mode = "NAPOT") /\ ~(G >= 1 /\ c[i].mode # "NAPOT")
  <2>1. EffectiveAddr(c, a, i) = a[i]
    BY <1>8 DEF EffectiveAddr
  <2> HIDE DEF K
  <2>2. EffectiveAddr(c, a, i) \in Nat /\ EffectiveAddr(c, a, i) < 2^(K+1) - 1
    BY <1>1, <1>2, <1>3, <1>5, <2>1
  <2> QED BY <2>2 DEF K
<1> QED BY <1>6, <1>7, <1>8

\* An address that is not all ones encodes a size: its lowest zero bit ends
\* the trailing ones.
LEMMA NapotSizeType ==
    ASSUME config \in Configs, NEW e \in Nat, e < 2^(AddrBits+G+1) - 1
    PROVE  /\ NapotSize(e) \in Nat /\ NapotSize(e) >= 1
           /\ e % NapotSize(e) = (NapotSize(e) \div 2) - 1
<1> DEFINE K == AddrBits + G + 1
           T == {k \in 1..K : e % 2^k # 2^k - 1}
<1>1. K \in Nat /\ K >= 1 /\ e < 2^K - 1
  BY ConfigType
<1>2. \A k \in Nat : 2^k \in Nat /\ 2^k >= 1 /\ 2^(k+1) = 2 * 2^k
  BY PowerOfTwo, PowerDoubles
<1>3. e % 2^K = e
  <2>1. 2^K \in Nat /\ 2^K >= 1
    BY <1>1, <1>2
  <2> QED BY <1>1, <2>1
<1>4. K \in T
  BY <1>1, <1>2, <1>3
<1>5. T \subseteq Nat
  OBVIOUS
<1> HIDE DEF T
<1>6. PICK k \in T : \A j \in T : k <= j
  BY <1>4, <1>5, LeastElement
<1> USE DEF T
<1>7. k \in 1..K /\ k - 1 \in Nat /\ e % 2^k # 2^k - 1
  BY <1>6
<1> DEFINE h == 2^(k-1)
<1>8. h \in Nat /\ h >= 1 /\ 2^k = 2 * h
  <2>1. (k - 1) + 1 = k
    BY <1>7
  <2> QED BY <1>2, <1>7, <2>1
<1>9. e % h = h - 1
  <2>1. CASE k = 1
    <3>1. h = 1
      BY <2>1
    <3> QED BY <3>1
  <2>2. CASE k > 1
    <3>1. k - 1 \in 1..K /\ k - 1 < k
      BY <1>1, <1>7, <2>2
    <3>2. k - 1 \notin T
      BY ONLY <1>6, <1>7, <3>1, k - 1 \in Nat
    <3> QED BY <3>1, <3>2
  <2> QED BY <1>7, <2>1, <2>2
<1> HIDE DEF h, T
<1>10. e % 2^k = h - 1
  <2>1. e % (2*h) = e % h \/ e % (2*h) = (e % h) + h
    BY <1>8, Remainder
  <2> QED BY <1>7, <1>8, <1>9, <2>1
<1>11. 2^k \div 2 = h
  BY <1>8
<1> DEFINE S == {2^j : j \in 1..K}
<1>12. 2^k \in S
  BY <1>7
<1>13. \A s \in S : s \in Nat /\ s >= 1
  BY <1>1, <1>2
<1>14. NapotSize(e) = CHOOSE s \in S : e % s = (s \div 2) - 1
  BY DEF NapotSize
<1> HIDE DEF S
<1>15. NapotSize(e) \in S /\ e % NapotSize(e) = (NapotSize(e) \div 2) - 1
  BY <1>10, <1>11, <1>12, <1>14
<1> QED BY <1>13, <1>15

LEMMA BoundsType ==
    ASSUME config \in Configs, NEW c, NEW a \in [Entries -> Addr], NEW i \in Entries
    PROVE  EntryBounds(c, a, i)[1] \in Nat /\ EntryBounds(c, a, i)[2] \in Int
<1> DEFINE e == EffectiveAddr(c, a, i)
<1>1. e \in Nat /\ NapotSize(e) \in Nat /\ NapotSize(e) >= 1
  BY EffectiveAddrType, NapotSizeType
<1>2. RoundDown(e, NapotSize(e)) \in Nat
  BY <1>1, RoundDownBounds
<1>3. ASSUME i # 0 PROVE RoundDown(a[i-1], 2^G) \in Nat
  <2>1. i - 1 \in Entries
    <3>1. N \in Nat
      BY PMPAssumption
    <3> QED BY <1>3, <3>1 DEF Entries
  <2>2. a[i-1] \in Nat
    BY <2>1, ConfigType DEF Addr
  <2>3. 2^G \in Nat /\ 2^G >= 1
    BY ConfigType
  <2>4. RoundDown(a[i-1], 2^G) \in 0..a[i-1]
    BY <2>2, <2>3, RoundDownBounds
  <2> QED BY <2>2, <2>4
<1> HIDE DEF e
<1>4. CASE c[i].mode = "NA4"
  BY <1>1, <1>4 DEF EntryBounds, e
<1>5. CASE c[i].mode = "NAPOT"
  BY <1>1, <1>2, <1>5 DEF EntryBounds, e
<1>6. CASE c[i].mode # "NA4" /\ c[i].mode # "NAPOT"
  BY <1>1, <1>3, <1>6 DEF EntryBounds, e
<1> QED BY <1>4, <1>5, <1>6

\* Taking privileges away leaves a function from modes and addresses to
\* privileges, in which each is as before or empty.
LEMMA InvalidateType ==
    ASSUME NEW c, NEW a, NEW i, NEW p \in [PMPModes -> [Addr -> Privs]]
    PROVE  /\ Invalidate(c, a, p, i) \in [PMPModes -> [Addr -> Privs]]
           /\ \A m \in PMPModes, x \in Addr :
                Invalidate(c, a, p, i)[m][x] =
                  IF x \in Region(c, a, i) /\ (m = SMode \/ c[i].L \/ LowerPriorityLocked(c, i))
                  THEN {} ELSE p[m][x]
  BY DEF Invalidate, Privs

LEMMA NewByteType ==
    ASSUME NEW old \in Elem, NEW new \in Elem
    PROVE  /\ NewByte(old, new) \in Elem
           /\ NewByte(old, new).L = new.L
           /\ new.mode = "OFF" => NewByte(old, new).mode = "OFF"
  BY DEF NewByte, Elem

------------------------------------------------------------------------------
(* What the registers say depends on the lowest matching entry *)

\* The region of an entry depends on its own byte, its own address and, for a
\* TOR entry, on the address before.
LEMMA RegionLocal ==
    ASSUME NEW c, NEW d, NEW a, NEW b, NEW i, c[i] \in Elem, c[i] = d[i], a[i] = b[i],
           c[i].mode = "TOR" => i = 0 \/ a[i-1] = b[i-1]
    PROVE  Region(c, a, i) = Region(d, b, i)
<1>1. EffectiveAddr(c, a, i) = EffectiveAddr(d, b, i)
  BY DEF EffectiveAddr
<1>2. RegionActive(c, a, i) = RegionActive(d, b, i)
  BY <1>1 DEF RegionActive
<1>3. c[i].mode # "OFF" => EntryBounds(c, a, i) = EntryBounds(d, b, i)
  <2>1. c[i].mode \in {"OFF", "TOR", "NA4", "NAPOT"}
    BY DEF Elem
  <2> QED BY <1>1, <2>1 DEF EntryBounds
<1> QED BY <1>2, <1>3 DEF Region, RegionActive

\* Entry i is the one that decides for address x.
Decides(c, a, x, i) == i \in Matching(c, a, x) /\ \A k \in Matching(c, a, x) : i <= k

\* The privileges that entry e gives to mode m.
PrivBy(m, e) == IF m = MMode /\ ~e.L THEN RWX ELSE e.priv

LEMMA PrivOfLowest ==
    ASSUME NEW c, NEW a, NEW m, NEW x, NEW i, Decides(c, a, x, i)
    PROVE  PrivOf(c, a, m, x) = PrivBy(m, c[i])
<1> DEFINE M == Matching(c, a, x)
           j == CHOOSE h \in M : \A k \in M : h <= k
<1>1. M \subseteq Int
  BY PMPAssumption DEF Matching, Entries
<1>2. j \in M /\ \A k \in M : j <= k
  BY DEF Decides
<1>3. i = j
  BY <1>1, <1>2 DEF Decides
<1> QED BY <1>3 DEF PrivOf, PrivBy, Decides

LEMMA LowestMatch ==
    ASSUME NEW c, NEW a, NEW x, Matching(c, a, x) # {}
    PROVE  \E i : Decides(c, a, x, i)
<1>1. Matching(c, a, x) \subseteq Nat
  BY PMPAssumption DEF Matching, Entries
<1> QED BY <1>1, LeastElement DEF Decides

\* Where two settings of the registers have the same entries, with the same
\* bytes, at an address, they say the same.
LEMMA PrivOfSame ==
    ASSUME NEW c, NEW a, NEW d, NEW b, NEW m, NEW x,
           Matching(c, a, x) = Matching(d, b, x),
           \A i \in Matching(c, a, x) : c[i] = d[i]
    PROVE  PrivOf(c, a, m, x) = PrivOf(d, b, m, x)
<1>1. CASE Matching(c, a, x) = {}
  BY <1>1 DEF PrivOf
<1>2. CASE Matching(c, a, x) # {}
  <2>1. PICK i : Decides(c, a, x, i) /\ Decides(d, b, x, i) /\ c[i] = d[i]
    BY <1>2, LowestMatch DEF Decides
  <2>2. PrivOf(c, a, m, x) = PrivBy(m, c[i]) /\ PrivOf(d, b, m, x) = PrivBy(m, d[i])
    BY <2>1, PrivOfLowest
  <2> QED BY <2>1, <2>2
<1> QED BY <1>1, <1>2

------------------------------------------------------------------------------
(* Installing privileges *)

\* What mapPMPInt works with: a range of addresses and its privileges.
Span == [low : Int, high : Int, priv : Privs]

\* The privileges of mode m where no entry matches.
Default(m) == IF m = MMode THEN RWX ELSE {}

LEMMA RefineType ==
    ASSUME config \in Configs, NEW c \in [Entries -> Elem], NEW a \in [Entries -> Addr],
           NEW m, NEW x \in Int, NEW i \in Entries, NEW r \in Span
    PROVE  RefineRange(c, a, m, x, i, r) \in Span
<1> DEFINE low == EntryBounds(c, a, i)[1]
           high == EntryBounds(c, a, i)[2]
<1>1. low \in Int /\ high \in Int
  BY BoundsType
<1>2. c[i].priv \in Privs /\ RWX \in Privs
  BY DEF Elem, Privs
<1>3. \A z \in Int : [r EXCEPT !.high = z] \in Span /\ [r EXCEPT !.low = z] \in Span
  BY DEF Span
<1>4. \A p \in Privs : [low |-> low, high |-> high, priv |-> p] \in Span
  BY <1>1 DEF Span
<1>5. \/ RefineRange(c, a, m, x, i, r) = r
      \/ RefineRange(c, a, m, x, i, r) = [low |-> low, high |-> high, priv |-> c[i].priv]
      \/ RefineRange(c, a, m, x, i, r) = [low |-> low, high |-> high, priv |-> RWX]
      \/ RefineRange(c, a, m, x, i, r) = [r EXCEPT !.high = low - 1]
      \/ RefineRange(c, a, m, x, i, r) = [r EXCEPT !.low = high + 1]
  BY DEF RefineRange
<1> HIDE DEF low, high
<1>6. low - 1 \in Int /\ high + 1 \in Int
  BY <1>1
<1> QED BY <1>2, <1>3, <1>4, <1>5, <1>6

\* f[k] is what mapPMPInt has found when k entries are applied.
MapRangeStates(f, c, a, m, x) ==
    /\ f \in [0..N -> Span]
    /\ f[0] = [low |-> 0, high |-> MaxAddr, priv |-> Default(m)]
    /\ \A k \in 1..N : f[k] = RefineRange(c, a, m, x, N - k, f[k-1])
    /\ MapRange(c, a, m, x) = f[N]

LEMMA MapRangeLoop ==
    ASSUME config \in Configs, NEW c \in [Entries -> Elem], NEW a \in [Entries -> Addr],
           NEW m, NEW x \in Int
    PROVE  \E f : MapRangeStates(f, c, a, m, x)
<1> DEFINE s == [low |-> 0, high |-> MaxAddr, priv |-> IF m = MMode THEN RWX ELSE {}]
           F == [k \in 1..N |-> [r \in Span |-> RefineRange(c, a, m, x, N - k, r)]]
           refined[k \in 0..N] ==
               IF k = 0 THEN s ELSE RefineRange(c, a, m, x, N - k, refined[k-1])
<1>1. N \in Nat
  BY PMPAssumption
<1>2. s \in Span
  BY ConfigType DEF Span, Privs
<1>3. F \in Bodies(N, Span)
  <2>1. ASSUME NEW k \in 1..N, NEW r \in Span PROVE RefineRange(c, a, m, x, N - k, r) \in Span
    <3>1. N - k \in Entries
      BY <1>1 DEF Entries
    <3> QED BY <3>1, RefineType
  <2> QED BY <2>1 DEF Bodies
<1> HIDE DEF s
<1>4. PICK f : IsLoop(f, N, Span, s, F)
  <2> HIDE DEF F
  <2> QED BY <1>1, <1>2, <1>3, LoopExists
<1>5. f = [k \in 0..N |-> IF k = 0 THEN s ELSE RefineRange(c, a, m, x, N - k, f[k-1])]
  <2>1. ASSUME NEW k \in 0..N, k # 0 PROVE f[k] = RefineRange(c, a, m, x, N - k, f[k-1])
    <3>1. k \in 1..N /\ k - 1 \in 0..N
      BY <1>1, <2>1
    <3> QED BY <1>4, <3>1 DEF IsLoop
  <2> QED BY <1>4, <2>1 DEF IsLoop
<1>6. refined = [k \in 0..N |-> IF k = 0 THEN s ELSE RefineRange(c, a, m, x, N - k, refined[k-1])]
  BY <1>5
<1>7. MapRange(c, a, m, x) = refined[N]
  BY DEF MapRange, s
<1> HIDE DEF F, refined
<1>8. refined[0] = s /\ \A k \in 1..N : refined[k] = RefineRange(c, a, m, x, N - k, refined[k-1])
  <2>1. ASSUME NEW k \in 0..N
        PROVE  refined[k] = IF k = 0 THEN s ELSE RefineRange(c, a, m, x, N - k, refined[k-1])
    BY <1>6, Zenon
  <2>2. ASSUME NEW k \in 1..N PROVE k \in 0..N /\ k # 0
    OBVIOUS
  <2>3. 0 \in 0..N
    BY <1>1
  <2> QED BY <2>1, <2>2, <2>3, Zenon
<1>9. \A k \in 0..N : refined[k] \in Span
  <2>1. ASSUME NEW k \in 1..N, refined[k-1] \in Span PROVE refined[k] \in Span
    <3>1. N - k \in Entries
      BY <1>1 DEF Entries
    <3> QED BY <1>8, <2>1, <3>1, RefineType
  <2> QED BY <1>1, <1>2, <1>8, <2>1, LoopType
<1>10. refined \in [0..N -> Span]
  BY <1>6, <1>9
<1>11. MapRangeStates(refined, c, a, m, x)
  BY <1>7, <1>8, <1>10 DEF s, Default, MapRangeStates
<1> QED BY <1>11

\* Of the entries from h on, j is the one that decides for address y.
DecidesFrom(c, a, y, h, j) ==
    j \in Matching(c, a, y) /\ j >= h /\ \A k \in Matching(c, a, y) : k >= h => j <= k

\* The privileges that the entries from h on give at address y are q.
GivenFrom(c, a, m, y, h, q) ==
    \/ q = Default(m) /\ \A k \in Matching(c, a, y) : k < h
    \/ \E j : DecidesFrom(c, a, y, h, j) /\ q = PrivBy(m, c[j])

\* Loop invariant of mapPMPInt: the entries from h on give the same
\* privileges in the whole range, which is around x.
SpanOK(c, a, m, x, h, r) ==
    /\ r.low <= x /\ x <= r.high
    /\ \A y \in Int : r.low <= y /\ y <= r.high => GivenFrom(c, a, m, y, h, r.priv)

\* An entry that does not match leaves what is given as it was.
LEMMA GivenSkip ==
    ASSUME NEW c, NEW a, NEW m, NEW y, NEW h \in Entries, NEW q,
           h \notin Matching(c, a, y), GivenFrom(c, a, m, y, h + 1, q)
    PROVE  GivenFrom(c, a, m, y, h, q)
<1>1. Matching(c, a, y) \subseteq Int /\ h \in Int
  BY PMPAssumption DEF Matching, Entries
<1>2. \A k \in Matching(c, a, y) : k >= h => k >= h + 1
  BY <1>1
<1>3. \A k \in Matching(c, a, y) : k < h + 1 => k < h
  BY <1>1
<1>4. CASE q = Default(m) /\ \A k \in Matching(c, a, y) : k < h + 1
  BY <1>3, <1>4 DEF GivenFrom
<1>5. CASE \E j : DecidesFrom(c, a, y, h + 1, j) /\ q = PrivBy(m, c[j])
  <2>1. PICK j : DecidesFrom(c, a, y, h + 1, j) /\ q = PrivBy(m, c[j])
    BY <1>5
  <2>2. j \in Matching(c, a, y) /\ j >= h
    BY <1>1, <2>1 DEF DecidesFrom
  <2>3. DecidesFrom(c, a, y, h, j)
    BY <1>2, <2>1, <2>2 DEF DecidesFrom
  <2> QED BY <2>1, <2>3 DEF GivenFrom
<1> QED BY <1>4, <1>5 DEF GivenFrom

\* refinePMPRegionRange preserves the loop invariant.
LEMMA RefineSound ==
    ASSUME config \in Configs, NEW c \in [Entries -> Elem], NEW a \in [Entries -> Addr],
           NEW m, NEW x \in Int, NEW i \in Entries, NEW r \in Span,
           SpanOK(c, a, m, x, i + 1, r)
    PROVE  SpanOK(c, a, m, x, i, RefineRange(c, a, m, x, i, r))
<1> DEFINE low == EntryBounds(c, a, i)[1]
           high == EntryBounds(c, a, i)[2]
           R == RefineRange(c, a, m, x, i, r)
<1>1. low \in Int /\ high \in Int /\ r.low \in Int /\ r.high \in Int /\ r.low <= x /\ x <= r.high
  BY BoundsType DEF Span, SpanOK
<1>2. \A y \in Int : i \in Matching(c, a, y)
                       <=> RegionActive(c, a, i) /\ low <= y /\ y <= high
  BY <1>1 DEF Matching, Region
<1>3. ASSUME NEW t \in Span, t.priv = r.priv, r.low <= t.low, t.high <= r.high,
             t.low <= x, x <= t.high,
             \A y \in Int : t.low <= y /\ y <= t.high => i \notin Matching(c, a, y)
      PROVE  SpanOK(c, a, m, x, i, t)
  <2>1. ASSUME NEW y \in Int, t.low <= y, y <= t.high PROVE GivenFrom(c, a, m, y, i, t.priv)
    <3>1. t.low \in Int /\ t.high \in Int
      BY DEF Span
    <3>2. r.low <= y /\ y <= r.high
      BY <1>1, <1>3, <2>1, <3>1
    <3>3. GivenFrom(c, a, m, y, i + 1, t.priv)
      BY <1>3, <3>2 DEF SpanOK
    <3> QED BY <1>3, <2>1, <3>3, GivenSkip
  <2> QED BY <1>3, <2>1 DEF SpanOK
<1>4. CASE ~RegionActive(c, a, i) \/ low > high
  <2>1. R = r
    BY <1>4 DEF RefineRange
  <2>2. \A y \in Int : i \notin Matching(c, a, y)
    BY <1>1, <1>2, <1>4
  <2> QED BY <1>1, <1>3, <2>1, <2>2
<1>5. CASE RegionActive(c, a, i) /\ ~(low > high) /\ low <= x /\ x <= high
  <2> DEFINE q == IF m # MMode \/ c[i].L THEN c[i].priv ELSE RWX
  <2>1. R = [low |-> low, high |-> high, priv |-> q]
    BY <1>5 DEF RefineRange
  <2>2. q = PrivBy(m, c[i])
    BY DEF PrivBy
  <2>3. ASSUME NEW y \in Int, low <= y, y <= high PROVE GivenFrom(c, a, m, y, i, q)
    <3>1. i \in Matching(c, a, y)
      BY <1>2, <1>5, <2>3
    <3>2. i \in Int
      BY PMPAssumption DEF Entries
    <3>3. DecidesFrom(c, a, y, i, i)
      BY <3>1, <3>2 DEF DecidesFrom
    <3> QED BY <2>2, <3>3 DEF GivenFrom
  <2>4. R.low = low /\ R.high = high /\ R.priv = q
    BY <2>1
  <2> HIDE DEF low, high, q, R
  <2>5. SpanOK(c, a, m, x, i, R)
    BY <1>5, <2>3, <2>4 DEF SpanOK
  <2> QED BY <2>5 DEF R
<1>6. CASE RegionActive(c, a, i) /\ ~(low > high) /\ low > x /\ low <= r.high
  <2>1. R = [r EXCEPT !.high = low - 1]
    BY <1>1, <1>6 DEF RefineRange
  <2>2. R \in Span /\ R.low = r.low /\ R.high = low - 1 /\ R.priv = r.priv
    BY <1>1, <2>1 DEF Span
  <2> HIDE DEF low, high, R
  <2>3. \A y \in Int : R.low <= y /\ y <= R.high => i \notin Matching(c, a, y)
    BY <1>1, <1>2, <2>2
  <2>4. r.low <= R.low /\ R.high <= r.high /\ R.low <= x /\ x <= R.high
    BY <1>1, <1>6, <2>2
  <2>5. SpanOK(c, a, m, x, i, R)
    BY <1>3, <2>2, <2>3, <2>4
  <2> QED BY <2>5 DEF R
<1>7. CASE RegionActive(c, a, i) /\ ~(low > high) /\ high < x /\ high >= r.low
  <2>1. R = [r EXCEPT !.low = high + 1]
    BY <1>1, <1>7 DEF RefineRange
  <2>2. R \in Span /\ R.low = high + 1 /\ R.high = r.high /\ R.priv = r.priv
    BY <1>1, <2>1 DEF Span
  <2> HIDE DEF low, high, R
  <2>3. \A y \in Int : R.low <= y /\ y <= R.high => i \notin Matching(c, a, y)
    BY <1>1, <1>2, <2>2
  <2>4. r.low <= R.low /\ R.high <= r.high /\ R.low <= x /\ x <= R.high
    BY <1>1, <1>7, <2>2
  <2>5. SpanOK(c, a, m, x, i, R)
    BY <1>3, <2>2, <2>3, <2>4
  <2> QED BY <2>5 DEF R
<1>8. CASE \/ RegionActive(c, a, i) /\ ~(low > high) /\ low > x /\ ~(low <= r.high)
           \/ RegionActive(c, a, i) /\ ~(low > high) /\ high < x /\ ~(high >= r.low)
  <2>1. R = r
    BY <1>1, <1>8 DEF RefineRange
  <2>2. \A y \in Int : r.low <= y /\ y <= r.high => i \notin Matching(c, a, y)
    BY <1>1, <1>2, <1>8
  <2> QED BY <1>1, <1>3, <2>1, <2>2
<1> HIDE DEF low, high, R
<1>9. RegionActive(c, a, i) \in BOOLEAN
  BY DEF RegionActive
<1>10. SpanOK(c, a, m, x, i, R)
  BY <1>1, <1>4, <1>5, <1>6, <1>7, <1>8, <1>9 DEF R
<1> QED BY <1>10 DEF R

\* What all entries give is what the registers say.
LEMMA GivenIsPrivOf ==
    ASSUME NEW c, NEW a, NEW m, NEW y, NEW q, GivenFrom(c, a, m, y, 0, q)
    PROVE  q = PrivOf(c, a, m, y)
<1>1. Matching(c, a, y) \subseteq Int /\ \A k \in Matching(c, a, y) : k >= 0
  BY PMPAssumption DEF Matching, Entries
<1>2. CASE q = Default(m) /\ \A k \in Matching(c, a, y) : k < 0
  <2>1. Matching(c, a, y) = {}
    BY <1>1, <1>2
  <2> QED BY <1>2, <2>1 DEF PrivOf, Default
<1>3. CASE \E j : DecidesFrom(c, a, y, 0, j) /\ q = PrivBy(m, c[j])
  <2>1. PICK j : DecidesFrom(c, a, y, 0, j) /\ q = PrivBy(m, c[j])
    BY <1>3
  <2>2. Decides(c, a, y, j)
    BY <1>1, <2>1 DEF DecidesFrom, Decides
  <2> QED BY <2>1, <2>2, PrivOfLowest
<1> QED BY <1>2, <1>3 DEF GivenFrom

\* mapPMPInt finds a range around x in which the registers give the same
\* privileges.
LEMMA MapRangeSound ==
    ASSUME config \in Configs, NEW c \in [Entries -> Elem], NEW a \in [Entries -> Addr],
           NEW m, NEW x \in Addr
    PROVE  /\ MapRange(c, a, m, x) \in Span
           /\ MapRange(c, a, m, x).low <= x /\ x <= MapRange(c, a, m, x).high
           /\ \A y \in Int :
                MapRange(c, a, m, x).low <= y /\ y <= MapRange(c, a, m, x).high
                  => PrivOf(c, a, m, y) = MapRange(c, a, m, x).priv
<1>1. N \in Nat /\ MaxAddr \in Nat /\ x \in Int /\ 0 <= x /\ x <= MaxAddr
  BY ConfigType DEF Addr
<1>2. PICK f : MapRangeStates(f, c, a, m, x)
  BY <1>1, MapRangeLoop
<1> USE DEF MapRangeStates
<1> DEFINE T == {k \in 0..N : SpanOK(c, a, m, x, N - k, f[k])}
<1>3. 0 \in T
  <2>1. f[0].low = 0 /\ f[0].high = MaxAddr /\ f[0].priv = Default(m)
    BY <1>2
  <2>2. \A y \in Int : \A k \in Matching(c, a, y) : k < N
    BY <1>1 DEF Matching, Entries
  <2>3. SpanOK(c, a, m, x, N, f[0])
    BY <1>1, <2>1, <2>2 DEF SpanOK, GivenFrom
  <2>4. N - 0 = N /\ 0 \in 0..N
    BY <1>1
  <2> QED BY <2>3, <2>4
<1>4. ASSUME NEW k \in 1..N, k - 1 \in T PROVE k \in T
  <2>1. N - k \in Entries /\ (N - k) + 1 = N - (k - 1) /\ k \in 0..N /\ k - 1 \in 0..N
    BY <1>1 DEF Entries
  <2>2. SpanOK(c, a, m, x, (N - k) + 1, f[k-1]) /\ f[k-1] \in Span
    BY <1>2, <1>4, <2>1
  <2>3. SpanOK(c, a, m, x, N - k, RefineRange(c, a, m, x, N - k, f[k-1]))
    BY <1>1, <2>1, <2>2, RefineSound
  <2>4. SpanOK(c, a, m, x, N - k, f[k])
    BY <1>2, <2>3
  <2> QED BY <2>1, <2>4
<1> HIDE DEF T
<1>5. N \in T
  <2>1. \A k \in 0..N : k \in T
    BY <1>1, <1>3, <1>4, LoopInduction
  <2> QED BY <1>1, <2>1
<1>6. SpanOK(c, a, m, x, 0, MapRange(c, a, m, x))
  <2>1. N - N = 0
    BY <1>1
  <2> QED BY <1>2, <1>5, <2>1 DEF T
<1>7. MapRange(c, a, m, x) \in Span
  BY <1>1, <1>2
<1> QED BY <1>6, <1>7, GivenIsPrivOf DEF SpanOK

LEMMA MapRangeType ==
    ASSUME config \in Configs, NEW c \in [Entries -> Elem], NEW a \in [Entries -> Addr],
           NEW m, NEW x \in Int
    PROVE  MapRange(c, a, m, x) \in Span
<1>1. PICK f : MapRangeStates(f, c, a, m, x)
  BY MapRangeLoop
<1>2. N \in 0..N
  BY PMPAssumption
<1> QED BY <1>1, <1>2 DEF MapRangeStates

\* One iteration of the loop in mapPMP, and the states it works with.
MapStep(c, a, m, high, s) ==
    LET r == MapRange(c, a, m, s.next)
    IN  IF s.next > high THEN s
        ELSE [next |-> r.high + 1,
              priv |-> [x \in Addr |-> IF r.low <= x /\ x <= r.high THEN r.priv ELSE s.priv[x]]]

MapState == [next : Int, priv : [Addr -> Privs]]

MapPMPStates(f, c, a, p, m, low, high) ==
    /\ f \in [0..(high - low + 1) -> MapState]
    /\ f[0] = [next |-> low, priv |-> p[m]]
    /\ \A k \in 1..(high - low + 1) : f[k] = MapStep(c, a, m, high, f[k-1])
    /\ MapPMP(c, a, p, m, low, high) = [p EXCEPT ![m] = f[high - low + 1].priv]

LEMMA MapStepType ==
    ASSUME config \in Configs, NEW c \in [Entries -> Elem], NEW a \in [Entries -> Addr],
           NEW m, NEW high \in Int, NEW s \in MapState
    PROVE  MapStep(c, a, m, high, s) \in MapState
<1> DEFINE r == MapRange(c, a, m, s.next)
           q == [x \in Addr |-> IF r.low <= x /\ x <= r.high THEN r.priv ELSE s.priv[x]]
<1>1. s.next \in Int /\ s.priv \in [Addr -> Privs]
  BY DEF MapState
<1>2. r \in Span
  BY <1>1, MapRangeType
<1>3. \/ MapStep(c, a, m, high, s) = s
      \/ MapStep(c, a, m, high, s) = [next |-> r.high + 1, priv |-> q]
  BY DEF MapStep
<1> HIDE DEF r
<1>4. r.high + 1 \in Int /\ r.priv \in Privs
  BY <1>2 DEF Span
<1>5. q \in [Addr -> Privs]
  BY <1>1, <1>4
<1> HIDE DEF q
<1> QED BY <1>3, <1>4, <1>5 DEF MapState

LEMMA MapPMPLoop ==
    ASSUME config \in Configs, NEW c \in [Entries -> Elem], NEW a \in [Entries -> Addr],
           NEW p \in [PMPModes -> [Addr -> Privs]], NEW m \in PMPModes,
           NEW low \in Nat, NEW high \in Nat, low <= high
    PROVE  \E f : MapPMPStates(f, c, a, p, m, low, high)
<1> DEFINE n == high - low + 1
           s == [next |-> low, priv |-> p[m]]
           F == [k \in 1..n |-> [t \in MapState |-> MapStep(c, a, m, high, t)]]
           mapped[k \in 0..n] == IF k = 0 THEN s ELSE MapStep(c, a, m, high, mapped[k-1])
<1>1. n \in Nat
  OBVIOUS
<1>2. s \in MapState
  BY DEF MapState
<1>3. F \in Bodies(n, MapState)
  BY MapStepType DEF Bodies
<1>4. MapPMP(c, a, p, m, low, high) = [p EXCEPT ![m] = mapped[n].priv]
  BY Zenon DEF MapPMP, MapStep
<1> HIDE DEF s, n
<1>5. PICK f : IsLoop(f, n, MapState, s, F)
  <2> HIDE DEF F
  <2> QED BY <1>1, <1>2, <1>3, LoopExists
<1>6. f = [k \in 0..n |-> IF k = 0 THEN s ELSE MapStep(c, a, m, high, f[k-1])]
  <2>1. ASSUME NEW k \in 0..n, k # 0 PROVE f[k] = MapStep(c, a, m, high, f[k-1])
    <3>1. k \in 1..n /\ k - 1 \in 0..n
      BY <1>1, <2>1
    <3> QED BY <1>5, <3>1 DEF IsLoop
  <2> QED BY <1>5, <2>1 DEF IsLoop
<1>7. mapped = [k \in 0..n |-> IF k = 0 THEN s ELSE MapStep(c, a, m, high, mapped[k-1])]
  BY <1>6
<1> HIDE DEF F, mapped
<1>8. mapped[0] = s /\ \A k \in 1..n : mapped[k] = MapStep(c, a, m, high, mapped[k-1])
  <2>1. ASSUME NEW k \in 0..n
        PROVE  mapped[k] = IF k = 0 THEN s ELSE MapStep(c, a, m, high, mapped[k-1])
    BY <1>7, Zenon
  <2>2. ASSUME NEW k \in 1..n PROVE k \in 0..n /\ k # 0
    BY <1>1
  <2>3. 0 \in 0..n
    BY <1>1
  <2> QED BY <2>1, <2>2, <2>3, Zenon
<1>9. \A k \in 0..n : mapped[k] \in MapState
  <2>1. ASSUME NEW k \in 1..n, mapped[k-1] \in MapState PROVE mapped[k] \in MapState
    BY <1>8, <2>1, MapStepType
  <2> QED BY <1>1, <1>2, <1>8, <2>1, LoopType
<1>10. mapped \in [0..n -> MapState]
  BY <1>7, <1>9
<1>11. MapPMPStates(mapped, c, a, p, m, low, high)
  BY <1>4, <1>8, <1>10 DEF s, n, MapPMPStates
<1> QED BY <1>11

\* Loop invariant of mapPMP after k iterations: what it passed, and whatever
\* else it changed, is as the registers say.
MapInv(c, a, p, m, low, high, k, s) ==
    /\ s.next >= low /\ (s.next >= low + k \/ s.next > high)
    /\ \A y \in Addr : s.priv[y] = p[m][y] \/ s.priv[y] = PrivOf(c, a, m, y)
    /\ \A y \in Addr : low <= y /\ y < s.next /\ y <= high => s.priv[y] = PrivOf(c, a, m, y)

LEMMA MapStepSound ==
    ASSUME config \in Configs, NEW c \in [Entries -> Elem], NEW a \in [Entries -> Addr],
           NEW p, NEW m, NEW low \in Addr, NEW high \in Addr, NEW k \in Nat,
           NEW s \in MapState, MapInv(c, a, p, m, low, high, k, s)
    PROVE  MapInv(c, a, p, m, low, high, k + 1, MapStep(c, a, m, high, s))
<1> DEFINE r == MapRange(c, a, m, s.next)
           q == [x \in Addr |-> IF r.low <= x /\ x <= r.high THEN r.priv ELSE s.priv[x]]
           t == MapStep(c, a, m, high, s)
<1>1. s.next \in Int /\ MaxAddr \in Nat /\ Addr \subseteq Int
  BY ConfigType DEF MapState, Addr
<1>2. CASE s.next > high
  <2>1. t = s
    BY <1>2 DEF MapStep
  <2> HIDE DEF t
  <2>2. MapInv(c, a, p, m, low, high, k + 1, t)
    BY <1>2, <2>1 DEF MapInv
  <2> QED BY <2>2 DEF t
<1>3. CASE ~(s.next > high)
  <2>1. s.next \in Addr
    BY <1>1, <1>3 DEF MapInv, Addr
  <2>2. /\ r \in Span /\ r.low <= s.next /\ s.next <= r.high
        /\ \A y \in Int : r.low <= y /\ y <= r.high => PrivOf(c, a, m, y) = r.priv
    BY <2>1, MapRangeSound
  <2>3. t = [next |-> r.high + 1, priv |-> q]
    BY <1>3 DEF MapStep
  <2> HIDE DEF r, t
  <2>4. r.low \in Int /\ r.high \in Int
    BY <2>2 DEF Span
  <2>5. t.next = r.high + 1 /\ t.priv = q
    BY <2>3
  <2>6. \A y \in Addr : t.priv[y] = IF r.low <= y /\ y <= r.high THEN r.priv ELSE s.priv[y]
    BY <2>5
  <2> HIDE DEF q
  <2>7. t.next >= low /\ t.next >= low + (k + 1)
    <3>1. s.next >= low + k
      BY <1>3 DEF MapInv
    <3> QED BY <1>1, <2>2, <2>4, <2>5, <3>1
  <2>8. ASSUME NEW y \in Addr PROVE t.priv[y] = p[m][y] \/ t.priv[y] = PrivOf(c, a, m, y)
    <3>1. CASE r.low <= y /\ y <= r.high
      BY <1>1, <2>2, <2>6, <3>1
    <3>2. CASE ~(r.low <= y /\ y <= r.high)
      BY <2>6, <3>2 DEF MapInv
    <3> QED BY <3>1, <3>2
  <2>9. ASSUME NEW y \in Addr, low <= y, y < t.next, y <= high
        PROVE  t.priv[y] = PrivOf(c, a, m, y)
    <3>1. CASE r.low <= y /\ y <= r.high
      BY <1>1, <2>2, <2>6, <3>1
    <3>2. CASE ~(r.low <= y /\ y <= r.high)
      <4>1. y < s.next
        BY <1>1, <2>2, <2>4, <2>5, <2>9, <3>2
      <4> QED BY <2>6, <2>9, <3>2, <4>1 DEF MapInv
    <3> QED BY <3>1, <3>2
  <2>10. MapInv(c, a, p, m, low, high, k + 1, t)
    BY <2>7, <2>8, <2>9 DEF MapInv
  <2> QED BY <2>10 DEF t
<1> QED BY <1>2, <1>3

\* P differs from p only in the domain of mode m.  There each address keeps its
\* privileges or gets those the registers say, and the addresses low..high get
\* them.
Mapped(c, a, p, m, low, high, P) ==
    /\ P \in [PMPModes -> [Addr -> Privs]]
    /\ \A n \in PMPModes : n # m => P[n] = p[n]
    /\ \A x \in Addr : P[m][x] = p[m][x] \/ P[m][x] = PrivOf(c, a, m, x)
    /\ \A x \in low..high : P[m][x] = PrivOf(c, a, m, x)

LEMMA MapPMPSound ==
    ASSUME config \in Configs, NEW c \in [Entries -> Elem], NEW a \in [Entries -> Addr],
           NEW p \in [PMPModes -> [Addr -> Privs]], NEW m \in PMPModes,
           NEW low \in Addr, NEW high \in Addr, low <= high
    PROVE  Mapped(c, a, p, m, low, high, MapPMP(c, a, p, m, low, high))
<1> DEFINE n == high - low + 1
<1>1. low \in Nat /\ high \in Nat /\ n \in Nat /\ low + n = high + 1 /\ low..high \subseteq Addr
  BY ConfigType DEF Addr
<1>2. PICK f : MapPMPStates(f, c, a, p, m, low, high)
  BY <1>1, MapPMPLoop
<1>3. /\ f \in [0..n -> MapState] /\ f[0] = [next |-> low, priv |-> p[m]]
      /\ \A k \in 1..n : f[k] = MapStep(c, a, m, high, f[k-1])
      /\ MapPMP(c, a, p, m, low, high) = [p EXCEPT ![m] = f[n].priv]
  BY <1>2 DEF MapPMPStates
<1> HIDE DEF n
<1> DEFINE T == {k \in 0..n : MapInv(c, a, p, m, low, high, k, f[k])}
<1>4. 0 \in T
  <2>1. f[0].next = low /\ f[0].priv = p[m]
    BY <1>3
  <2>2. \A y \in Addr : ~(low <= y /\ y < low)
    BY <1>1, ConfigType DEF Addr
  <2>3. low >= low /\ low >= low + 0
    BY <1>1
  <2>4. MapInv(c, a, p, m, low, high, 0, f[0])
    BY <2>1, <2>2, <2>3 DEF MapInv
  <2> QED BY <1>1, <2>4
<1>5. ASSUME NEW k \in 1..n, k - 1 \in T PROVE k \in T
  <2>1. k - 1 \in Nat /\ (k - 1) + 1 = k /\ k \in 0..n /\ k - 1 \in 0..n
    BY <1>1
  <2>2. MapInv(c, a, p, m, low, high, k - 1, f[k-1]) /\ f[k-1] \in MapState
    BY <1>3, <1>5, <2>1
  <2>3. MapInv(c, a, p, m, low, high, (k - 1) + 1, MapStep(c, a, m, high, f[k-1]))
    BY <2>1, <2>2, MapStepSound
  <2>4. MapInv(c, a, p, m, low, high, k, f[k])
    BY <1>3, <2>1, <2>3
  <2> QED BY <2>1, <2>4
<1> HIDE DEF T
<1>6. \A k \in 0..n : k \in T
  BY <1>1, <1>4, <1>5, LoopInduction
<1>7. MapInv(c, a, p, m, low, high, n, f[n]) /\ f[n] \in MapState
  <2>1. n \in 0..n
    BY <1>1
  <2> QED BY <1>3, <1>6, <2>1 DEF T
<1> DEFINE P == MapPMP(c, a, p, m, low, high)
<1>8. /\ P \in [PMPModes -> [Addr -> Privs]] /\ P[m] = f[n].priv
      /\ \A h \in PMPModes : h # m => P[h] = p[h]
  BY <1>3, <1>7 DEF MapState
<1> HIDE DEF P
<1>9. ASSUME NEW x \in low..high PROVE P[m][x] = PrivOf(c, a, m, x)
  <2>1. x \in Addr /\ x \in Int /\ low <= x /\ x <= high /\ f[n].next \in Int
    BY <1>1, <1>7 DEF MapState
  <2>2. x < f[n].next
    BY <1>1, <1>7, <2>1 DEF MapInv
  <2> QED BY <1>7, <1>8, <2>1, <2>2 DEF MapInv
<1>10. \A x \in Addr : P[m][x] = p[m][x] \/ P[m][x] = PrivOf(c, a, m, x)
  BY <1>7, <1>8 DEF MapInv
<1>11. Mapped(c, a, p, m, low, high, P)
  BY <1>8, <1>9, <1>10 DEF Mapped
<1> QED BY <1>11 DEF P

------------------------------------------------------------------------------
(* Changing registers *)

\* p gives no mode a privilege that registers c and a do not give.
NoStale(c, a, p) == \A m \in PMPModes, x \in Addr : p[m][x] \subseteq PrivOf(c, a, m, x)

\* When a register write changes the entries in D, from c and a to d and b,
\* these invalidations, that turn p into q, are enough.
EnoughInvalidated(c, a, d, b, p, q, D) ==
    /\ \A m \in PMPModes, x \in Addr : q[m][x] = p[m][x] \/ q[m][x] = {}
    /\ \A i \in D, x \in Addr :
         x \in Region(c, a, i) \/ x \in Region(d, b, i) => q[SMode][x] = {}
    /\ \A i \in D, x \in Addr : x \in Region(d, b, i) /\ d[i].L => q[MMode][x] = {}
    /\ \A i \in D, j \in Entries \ D, x \in Addr :
         j > i /\ d[j].L /\ d[j].mode # "OFF" /\ x \in Region(c, a, i) => q[MMode][x] = {}

\* In Machine mode an entry may stop to hide a locked entry of lower priority:
\* the last conjunct of EnoughInvalidated is for that.
LEMMA EnoughSound ==
    ASSUME NEW c, NEW a, NEW d \in [Entries -> Elem], NEW b,
           NEW p \in [PMPModes -> [Addr -> Privs]], NEW q, NEW D \in SUBSET Entries,
           \A i \in Entries \ D : c[i] = d[i] /\ Region(c, a, i) = Region(d, b, i),
           EnoughInvalidated(c, a, d, b, p, q, D), NoStale(c, a, p)
    PROVE  NoStale(d, b, q)
<1> SUFFICES ASSUME NEW m \in PMPModes, NEW x \in Addr, q[m][x] # {}
             PROVE  q[m][x] \subseteq PrivOf(d, b, m, x)
  BY DEF NoStale
<1>1. q[m][x] = p[m][x] /\ p[m][x] \subseteq PrivOf(c, a, m, x) /\ p[m][x] \subseteq RWX
  BY DEF EnoughInvalidated, NoStale, Privs
<1>2. Matching(c, a, x) \subseteq Entries /\ Matching(d, b, x) \subseteq Entries /\ Entries \subseteq Int
  BY PMPAssumption DEF Matching, Entries
<1>3. \A i \in Entries \ D : i \in Matching(c, a, x) <=> i \in Matching(d, b, x)
  BY DEF Matching
<1>4. CASE m = SMode
  <2>1. \A i \in D : i \notin Matching(c, a, x) /\ i \notin Matching(d, b, x)
    BY <1>4 DEF EnoughInvalidated, Matching
  <2>2. \A i \in Entries : i \in Matching(c, a, x) <=> i \in Matching(d, b, x)
    BY <1>3, <2>1
  <2>3. Matching(c, a, x) = Matching(d, b, x)
    BY <1>2, <2>2
  <2>4. \A i \in Matching(c, a, x) : c[i] = d[i]
    BY <1>2, <2>1
  <2> QED BY <1>1, <2>3, <2>4, PrivOfSame
<1>5. CASE m = MMode
  <2>1. CASE Matching(d, b, x) = {}
    BY <1>1, <1>5, <2>1 DEF PrivOf
  <2>2. CASE Matching(d, b, x) # {}
    <3>1. PICK j : Decides(d, b, x, j)
      BY <2>2, LowestMatch
    <3>2. j \in Matching(d, b, x) /\ j \in Entries /\ x \in Region(d, b, j)
      BY <3>1 DEF Decides, Matching
    <3>3. PrivOf(d, b, m, x) = PrivBy(m, d[j])
      BY <3>1, PrivOfLowest
    <3>4. CASE ~d[j].L
      BY <1>1, <1>5, <3>3, <3>4 DEF PrivBy
    <3>5. CASE d[j].L
      <4>1. j \notin D
        BY <1>5, <3>2, <3>5 DEF EnoughInvalidated
      <4>2. j \in Matching(c, a, x) /\ c[j] = d[j]
        BY <1>3, <3>2, <4>1
      <4>3. PICK o : Decides(c, a, x, o)
        BY <4>2, LowestMatch
      <4>4. o \in Matching(c, a, x) /\ o \in Entries /\ o <= j /\ x \in Region(c, a, o)
        BY <4>2, <4>3 DEF Decides, Matching
      <4>5. PrivOf(c, a, m, x) = PrivBy(m, c[o])
        BY <4>3, PrivOfLowest
      <4>6. CASE o = j
        BY <1>1, <3>3, <4>2, <4>5, <4>6
      <4>7. CASE o # j
        <5>1. j > o
          <6>1. j \in Int /\ o \in Int
            BY <3>2, <4>4, PMPAssumption DEF Entries
          <6> QED BY <4>4, <4>7, <6>1
        <5>2. o \notin Matching(d, b, x)
          BY <1>2, <3>1, <3>2, <4>4, <5>1 DEF Decides
        <5>3. o \in D
          BY <1>3, <4>4, <5>2
        <5>4. d[j].mode # "OFF"
          BY <3>2 DEF Region, RegionActive
        <5>5. j \in Entries \ D
          BY <3>2, <4>1
        <5>6. q[MMode][x] = {}
          BY <3>5, <4>4, <5>1, <5>3, <5>4, <5>5 DEF EnoughInvalidated
        <5> QED BY <1>5, <5>6
      <4> QED BY <4>6, <4>7
    <3> QED BY <3>4, <3>5
  <2> QED BY <2>1, <2>2
<1> QED BY <1>4, <1>5 DEF PMPModes

\* The loop of riscvVMWritePMPCFG works with bytes and privileges.
WriteState == [cfg : [Entries -> Elem], priv : [PMPModes -> [Addr -> Privs]]]

\* The byte of entry i after value v was written.
FinalByte(v, artifact, i) ==
    IF NewByte(pmpcfg[i], v[i]) # pmpcfg[i] /\ PmpLocked(pmpcfg, i, artifact)
    THEN pmpcfg[i] ELSE NewByte(pmpcfg[i], v[i])

\* The bytes when the first k entries are processed.
BytesAt(v, artifact, k) ==
    [j \in Entries |-> IF j < k THEN FinalByte(v, artifact, j) ELSE v[j]]

\* A lower-priority entry of v is locked.
LowLocked(v, i) == \E j \in Entries : j > i /\ v[j].L /\ v[j].mode # "OFF"

\* Loop invariant of riscvVMWritePMPCFG: the privileges of all processed
\* entries that changed are taken away.
WriteInv(v, artifact, k, s) ==
    /\ s.cfg = BytesAt(v, artifact, k)
    /\ \A m \in PMPModes, x \in Addr : s.priv[m][x] = priv[m][x] \/ s.priv[m][x] = {}
    /\ \A i \in Entries, m \in PMPModes, x \in Addr :
         i < k /\ FinalByte(v, artifact, i) # pmpcfg[i] =>
           /\ x \in Region(pmpcfg, pmpaddr, i) /\ (m = SMode \/ LowLocked(v, i))
                => s.priv[m][x] = {}
           /\ x \in Region(BytesAt(v, artifact, N), pmpaddr, i)
                /\ (m = SMode \/ FinalByte(v, artifact, i).L)
                => s.priv[m][x] = {}

LEMMA FinalByteType ==
    ASSUME TypeOK, NEW v \in [Entries -> Elem], NEW artifact, NEW i \in Entries
    PROVE  FinalByte(v, artifact, i) \in Elem
<1>1. NewByte(pmpcfg[i], v[i]) \in Elem /\ pmpcfg[i] \in Elem
  BY NewByteType DEF TypeOK
<1> QED BY <1>1 DEF FinalByte

LEMMA BytesAtType ==
    ASSUME TypeOK, NEW v \in [Entries -> Elem], NEW artifact, NEW k \in Int
    PROVE  /\ BytesAt(v, artifact, k) \in [Entries -> Elem]
           /\ \A j \in Entries :
                BytesAt(v, artifact, k)[j] = IF j < k THEN FinalByte(v, artifact, j) ELSE v[j]
  BY FinalByteType DEF BytesAt

LEMMA WriteElemType ==
    ASSUME TypeOK, NEW s \in WriteState, NEW i \in Entries, NEW artifact
    PROVE  WriteElem(pmpcfg, s, i, artifact) \in WriteState
<1> DEFINE new == NewByte(pmpcfg[i], s.cfg[i])
           oldCfg == [s.cfg EXCEPT ![i] = pmpcfg[i]]
           newCfg == [s.cfg EXCEPT ![i] = new]
           q == Invalidate(newCfg, pmpaddr, Invalidate(oldCfg, pmpaddr, s.priv, i), i)
<1>1. s.cfg \in [Entries -> Elem] /\ s.priv \in [PMPModes -> [Addr -> Privs]] /\ pmpcfg[i] \in Elem
  BY DEF WriteState, TypeOK
<1>2. new \in Elem
  BY <1>1, NewByteType
<1> HIDE DEF new
<1>3. oldCfg \in [Entries -> Elem] /\ newCfg \in [Entries -> Elem]
  BY <1>1, <1>2
<1> HIDE DEF oldCfg, newCfg
<1>4. q \in [PMPModes -> [Addr -> Privs]]
  BY <1>1, InvalidateType
<1>5. \/ WriteElem(pmpcfg, s, i, artifact) = [s EXCEPT !.cfg = oldCfg]
      \/ WriteElem(pmpcfg, s, i, artifact) = [s EXCEPT !.cfg = newCfg]
      \/ WriteElem(pmpcfg, s, i, artifact) = [cfg |-> newCfg, priv |-> q]
  BY DEF WriteElem, oldCfg, newCfg, new
<1> HIDE DEF q
<1> QED BY <1>3, <1>4, <1>5 DEF WriteState

LEMMA WriteElemSound ==
    ASSUME TypeOK, NEW v \in [Entries -> Elem], NEW artifact, NEW i \in Entries,
           NEW s \in WriteState, WriteInv(v, artifact, i, s)
    PROVE  WriteInv(v, artifact, i + 1, WriteElem(pmpcfg, s, i, artifact))
<1> DEFINE new == NewByte(pmpcfg[i], s.cfg[i])
           oldCfg == [s.cfg EXCEPT ![i] = pmpcfg[i]]
           newCfg == [s.cfg EXCEPT ![i] = new]
           q1 == Invalidate(oldCfg, pmpaddr, s.priv, i)
           q == Invalidate(newCfg, pmpaddr, q1, i)
           t == WriteElem(pmpcfg, s, i, artifact)
           B(k) == BytesAt(v, artifact, k)
           fin == FinalByte(v, artifact, i)
<1>1. i \in Int /\ i < N /\ N \in Int /\ Entries \subseteq Int
  BY PMPAssumption DEF Entries
<1>2. s.cfg = B(i) /\ s.cfg[i] = v[i] /\ s.cfg \in [Entries -> Elem]
  BY <1>1, BytesAtType DEF WriteInv, WriteState
<1>3. new = NewByte(pmpcfg[i], v[i])
  BY <1>2
<1>4. /\ pmpcfg[i] \in Elem /\ pmpaddr \in [Entries -> Addr] /\ s.priv \in [PMPModes -> [Addr -> Privs]]
      /\ new \in Elem /\ fin \in Elem
  BY <1>2, NewByteType, FinalByteType DEF TypeOK, WriteState
<1> HIDE DEF new
<1>5. B(i + 1) = [s.cfg EXCEPT ![i] = fin]
  <2>1. \A j \in Entries : j # i => (j < i + 1 <=> j < i)
    BY <1>1
  <2>2. \A j \in Entries : B(i + 1)[j] = IF j = i THEN fin ELSE B(i)[j]
    BY <1>1, <2>1, BytesAtType
  <2>3. B(i) \in [Entries -> Elem] /\ B(i + 1) \in [Entries -> Elem]
    BY <1>1, BytesAtType
  <2> HIDE DEF B, fin
  <2> QED BY <1>2, <2>2, <2>3
<1>6. fin = IF new # pmpcfg[i] /\ PmpLocked(pmpcfg, i, artifact) THEN pmpcfg[i] ELSE new
  BY <1>3 DEF FinalByte
<1> HIDE DEF B, fin
<1>7. \A j \in Entries : j < i + 1 <=> j < i \/ j = i
  BY <1>1
<1>8. CASE fin = pmpcfg[i] /\ t.cfg = B(i + 1) /\ t.priv = s.priv
  <2>1. FinalByte(v, artifact, i) = pmpcfg[i]
    BY <1>8 DEF fin
  <2> HIDE DEF t
  <2>2. WriteInv(v, artifact, i + 1, t)
    BY <1>7, <1>8, <2>1 DEF WriteInv, B
  <2> QED BY <2>2 DEF t
<1>9. CASE new # pmpcfg[i] /\ PmpLocked(pmpcfg, i, artifact)
  <2>1. t = [s EXCEPT !.cfg = oldCfg] /\ fin = pmpcfg[i]
    BY <1>6, <1>9 DEF WriteElem, new
  <2>2. t.cfg = B(i + 1) /\ t.priv = s.priv
    BY <1>5, <2>1 DEF WriteState
  <2> QED BY <1>8, <2>1, <2>2
<1>10. CASE new = pmpcfg[i]
  <2>1. t = [s EXCEPT !.cfg = newCfg] /\ fin = pmpcfg[i]
    BY <1>6, <1>10 DEF WriteElem, new
  <2>2. t.cfg = B(i + 1) /\ t.priv = s.priv
    BY <1>5, <1>10, <2>1 DEF WriteState
  <2> QED BY <1>8, <2>1, <2>2
<1>11. CASE new # pmpcfg[i] /\ ~PmpLocked(pmpcfg, i, artifact)
  <2>1. t = [cfg |-> newCfg, priv |-> q] /\ fin = new
    BY <1>6, <1>11 DEF WriteElem, new
  <2>2. t.cfg = B(i + 1) /\ t.priv = q
    BY <1>5, <2>1
  <2>3. /\ oldCfg \in [Entries -> Elem] /\ oldCfg[i] = pmpcfg[i]
        /\ newCfg \in [Entries -> Elem] /\ newCfg[i] = fin
        /\ \A j \in Entries : j > i => oldCfg[j] = v[j] /\ newCfg[j] = v[j]
    <3>1. \A j \in Entries : j > i => s.cfg[j] = v[j]
      <4>1. \A j \in Entries : j > i => ~(j < i)
        BY <1>1
      <4> QED BY <1>1, <1>2, <4>1, BytesAtType DEF B
    <3> QED BY <1>1, <1>2, <1>4, <2>1, <3>1
  <2> HIDE DEF t, oldCfg, newCfg
  <2>4. q1 \in [PMPModes -> [Addr -> Privs]]
    BY <1>4, InvalidateType
  <2>5. \A m \in PMPModes, x \in Addr :
          q1[m][x] = IF x \in Region(oldCfg, pmpaddr, i)
                          /\ (m = SMode \/ oldCfg[i].L \/ LowerPriorityLocked(oldCfg, i))
                     THEN {} ELSE s.priv[m][x]
    BY <1>4, InvalidateType
  <2> HIDE DEF q1
  <2>6. \A m \in PMPModes, x \in Addr :
          q[m][x] = IF x \in Region(newCfg, pmpaddr, i)
                          /\ (m = SMode \/ newCfg[i].L \/ LowerPriorityLocked(newCfg, i))
                     THEN {} ELSE q1[m][x]
    BY <2>4, InvalidateType
  <2> HIDE DEF q
  <2>7. LowerPriorityLocked(oldCfg, i) <=> LowLocked(v, i)
    BY <2>3 DEF LowerPriorityLocked, LowLocked
  <2>8. Region(oldCfg, pmpaddr, i) = Region(pmpcfg, pmpaddr, i)
    BY <1>4, <2>3, RegionLocal
  <2>9. Region(newCfg, pmpaddr, i) = Region(B(N), pmpaddr, i)
    <3>1. B(N)[i] = fin
      BY <1>1, BytesAtType DEF B, fin
    <3> QED BY <1>4, <2>3, <3>1, RegionLocal
  <2>10. ASSUME NEW m \in PMPModes, NEW x \in Addr, s.priv[m][x] = {} PROVE q[m][x] = {}
    BY <2>5, <2>6, <2>10
  <2>11. \A m \in PMPModes, x \in Addr : q[m][x] = priv[m][x] \/ q[m][x] = {}
    <3>1. \A m \in PMPModes, x \in Addr : q[m][x] = s.priv[m][x] \/ q[m][x] = {}
      BY <2>5, <2>6
    <3> QED BY <3>1 DEF WriteInv
  <2>12. ASSUME NEW m \in PMPModes, NEW x \in Addr, x \in Region(pmpcfg, pmpaddr, i),
                m = SMode \/ LowLocked(v, i)
         PROVE  q[m][x] = {}
    BY <2>5, <2>6, <2>7, <2>8, <2>12
  <2>13. ASSUME NEW m \in PMPModes, NEW x \in Addr, x \in Region(B(N), pmpaddr, i),
                m = SMode \/ fin.L
         PROVE  q[m][x] = {}
    BY <2>3, <2>6, <2>9, <2>13
  <2>14. ASSUME NEW j \in Entries, NEW m \in PMPModes, NEW x \in Addr, j < i + 1,
                FinalByte(v, artifact, j) # pmpcfg[j]
         PROVE  /\ x \in Region(pmpcfg, pmpaddr, j) /\ (m = SMode \/ LowLocked(v, j)) => q[m][x] = {}
                /\ x \in Region(B(N), pmpaddr, j) /\ (m = SMode \/ FinalByte(v, artifact, j).L)
                     => q[m][x] = {}
    <3>1. CASE j < i
      BY <2>10, <2>14, <3>1 DEF WriteInv, B
    <3>2. CASE j = i
      BY <2>12, <2>13, <3>2 DEF fin
    <3> QED BY <1>7, <2>14, <3>1, <3>2
  <2>15. WriteInv(v, artifact, i + 1, t)
    BY <2>2, <2>11, <2>14 DEF WriteInv, B
  <2> QED BY <2>15 DEF t
<1> QED BY <1>9, <1>10, <1>11 DEF PmpLocked

\* What riscvVMWritePMPCFG leaves behind.
LEMMA WrittenState ==
    ASSUME TypeOK, NEW v \in [Entries -> Elem], NEW artifact, WritePMPCFG(v, artifact)
    PROVE  \E s : s \in WriteState /\ WriteInv(v, artifact, N, s) /\ pmpcfg' = s.cfg /\ priv' = s.priv
<1> DEFINE s0 == [cfg |-> v, priv |-> priv]
           F == [k \in 1..N |-> [t \in WriteState |-> WriteElem(pmpcfg, t, k - 1, artifact)]]
           written[k \in 0..N] ==
               IF k = 0 THEN s0 ELSE WriteElem(pmpcfg, written[k-1], k - 1, artifact)
<1>1. N \in Nat /\ \A k \in 1..N : k - 1 \in Entries
  BY PMPAssumption DEF Entries
<1>2. s0 \in WriteState
  BY DEF WriteState, TypeOK
<1>3. F \in Bodies(N, WriteState)
  <2>1. ASSUME NEW k \in 1..N, NEW t \in WriteState
        PROVE  WriteElem(pmpcfg, t, k - 1, artifact) \in WriteState
    BY <1>1, WriteElemType
  <2> QED BY <2>1 DEF Bodies
<1>4. pmpcfg' = written[N].cfg /\ priv' = written[N].priv
  BY DEF WritePMPCFG
<1> HIDE DEF s0
<1>5. PICK f : IsLoop(f, N, WriteState, s0, F)
  <2> HIDE DEF F
  <2> QED BY <1>1, <1>2, <1>3, LoopExists
<1>6. f = [k \in 0..N |-> IF k = 0 THEN s0 ELSE WriteElem(pmpcfg, f[k-1], k - 1, artifact)]
  <2>1. ASSUME NEW k \in 0..N, k # 0 PROVE f[k] = WriteElem(pmpcfg, f[k-1], k - 1, artifact)
    <3>1. k \in 1..N /\ k - 1 \in 0..N
      BY <1>1, <2>1
    <3> QED BY <1>5, <3>1 DEF IsLoop
  <2> QED BY <1>5, <2>1 DEF IsLoop
<1>7. written = [k \in 0..N |->
                   IF k = 0 THEN s0 ELSE WriteElem(pmpcfg, written[k-1], k - 1, artifact)]
  BY <1>6
<1> HIDE DEF F, written
<1>8. written[0] = s0 /\ \A k \in 1..N : written[k] = WriteElem(pmpcfg, written[k-1], k - 1, artifact)
  <2>1. ASSUME NEW k \in 0..N
        PROVE  written[k] = IF k = 0 THEN s0 ELSE WriteElem(pmpcfg, written[k-1], k - 1, artifact)
    BY <1>7, Zenon
  <2>2. ASSUME NEW k \in 1..N PROVE k \in 0..N /\ k # 0
    BY <1>1
  <2>3. 0 \in 0..N
    BY <1>1
  <2> QED BY <2>1, <2>2, <2>3, Zenon
<1> DEFINE T == {k \in 0..N : written[k] \in WriteState /\ WriteInv(v, artifact, k, written[k])}
<1>9. 0 \in T
  <2>1. s0.cfg = v /\ s0.priv = priv
    BY DEF s0
  <2>2. \A j \in Entries : ~(j < 0)
    BY <1>1 DEF Entries
  <2>3. BytesAt(v, artifact, 0) = v
    BY <2>2 DEF BytesAt
  <2>4. WriteInv(v, artifact, 0, s0)
    BY <2>1, <2>2, <2>3 DEF WriteInv
  <2> QED BY <1>1, <1>2, <1>8, <2>4
<1>10. ASSUME NEW k \in 1..N, k - 1 \in T PROVE k \in T
  <2>1. k - 1 \in Entries /\ (k - 1) + 1 = k /\ k \in 0..N
    BY <1>1
  <2>2. written[k-1] \in WriteState /\ WriteInv(v, artifact, k - 1, written[k-1])
    BY <1>10
  <2>3. /\ written[k] \in WriteState
        /\ WriteInv(v, artifact, (k - 1) + 1, WriteElem(pmpcfg, written[k-1], k - 1, artifact))
    BY <1>8, <2>1, <2>2, WriteElemType, WriteElemSound
  <2>4. WriteInv(v, artifact, k, written[k])
    BY <1>8, <2>1, <2>3
  <2> QED BY <2>1, <2>3, <2>4
<1> HIDE DEF T
<1>11. N \in T
  <2>1. \A k \in 0..N : k \in T
    BY <1>1, <1>9, <1>10, LoopInduction
  <2> QED BY <1>1, <2>1
<1> QED BY <1>4, <1>11 DEF T

\* Software that leaves the bytes of locked entries alone.
LEMMA WriteCFGSound ==
    ASSUME TypeOK, NEW v \in [Entries -> Elem], NEW artifact \in BOOLEAN,
           WritePMPCFG(v, artifact)
    PROVE  /\ pmpcfg' \in [Entries -> Elem] /\ priv' \in [PMPModes -> [Addr -> Privs]]
           /\ \A i \in Entries : pmpcfg'[i] = FinalByte(v, artifact, i)
           /\ ~RewriteLocked /\ NoStale(pmpcfg, pmpaddr, priv) => NoStale(pmpcfg', pmpaddr, priv')
<1>1. PICK s : s \in WriteState /\ WriteInv(v, artifact, N, s) /\ pmpcfg' = s.cfg /\ priv' = s.priv
  BY WrittenState
<1>2. pmpcfg' \in [Entries -> Elem] /\ priv' \in [PMPModes -> [Addr -> Privs]]
  BY <1>1 DEF WriteState
<1>3. N \in Int /\ \A i \in Entries : i < N
  BY PMPAssumption DEF Entries
<1>4. pmpcfg' = BytesAt(v, artifact, N)
  BY <1>1 DEF WriteInv
<1>5. \A i \in Entries : pmpcfg'[i] = FinalByte(v, artifact, i)
  BY <1>3, <1>4, BytesAtType
<1>6. ASSUME ~RewriteLocked, NoStale(pmpcfg, pmpaddr, priv) PROVE NoStale(pmpcfg', pmpaddr, priv')
  <2> DEFINE D == {i \in Entries : FinalByte(v, artifact, i) # pmpcfg[i]}
  <2>1. D \in SUBSET Entries
    OBVIOUS
  <2>2. ASSUME NEW i \in Entries \ D
        PROVE  pmpcfg[i] = pmpcfg'[i] /\ Region(pmpcfg, pmpaddr, i) = Region(pmpcfg', pmpaddr, i)
    <3>1. pmpcfg[i] = pmpcfg'[i] /\ pmpcfg[i] \in Elem
      BY <1>5 DEF TypeOK
    <3> QED BY <3>1, RegionLocal
  <2>3. ASSUME NEW j \in Entries \ D, pmpcfg'[j].L, pmpcfg'[j].mode # "OFF"
        PROVE  v[j].L /\ v[j].mode # "OFF"
    <3>1. pmpcfg'[j] = pmpcfg[j] /\ FinalByte(v, artifact, j) = pmpcfg[j] /\ pmpcfg[j] \in Elem /\ v[j] \in Elem
      BY <1>5 DEF TypeOK
    <3>2. CASE artifact
      <4>1. FinalByte(v, artifact, j) = NewByte(pmpcfg[j], v[j])
        BY <3>2 DEF FinalByte, PmpLocked
      <4>2. /\ NewByte(pmpcfg[j], v[j]).L = v[j].L
            /\ v[j].mode = "OFF" => NewByte(pmpcfg[j], v[j]).mode = "OFF"
        BY <3>1, NewByteType
      <4> QED BY <2>3, <3>1, <4>1, <4>2
    <3>3. CASE ~artifact
      <4>1. PmpLocked(pmpcfg, j, artifact)
        BY <2>3, <3>1, <3>3 DEF PmpLocked
      <4>2. v[j] = pmpcfg[j]
        BY <1>6, <4>1 DEF WritePMPCFG
      <4> QED BY <2>3, <3>1, <4>2
    <3> QED BY <3>2, <3>3
  <2>4. \A m \in PMPModes, x \in Addr : priv'[m][x] = priv[m][x] \/ priv'[m][x] = {}
    BY <1>1 DEF WriteInv
  <2>5. ASSUME NEW i \in D, NEW m \in PMPModes, NEW x \in Addr
        PROVE  /\ x \in Region(pmpcfg, pmpaddr, i) /\ (m = SMode \/ LowLocked(v, i)) => priv'[m][x] = {}
               /\ x \in Region(pmpcfg', pmpaddr, i) /\ (m = SMode \/ pmpcfg'[i].L) => priv'[m][x] = {}
    BY <1>1, <1>3, <1>4, <1>5, <2>5 DEF WriteInv
  <2>6. SMode \in PMPModes /\ MMode \in PMPModes
    BY DEF PMPModes
  <2>7. ASSUME NEW i \in D, NEW j \in Entries \ D, NEW x \in Addr,
               j > i, pmpcfg'[j].L, pmpcfg'[j].mode # "OFF", x \in Region(pmpcfg, pmpaddr, i)
        PROVE  priv'[MMode][x] = {}
    <3>1. LowLocked(v, i)
      BY <2>3, <2>7 DEF LowLocked
    <3> QED BY <2>5, <2>6, <2>7, <3>1
  <2>8. ASSUME NEW i \in D, NEW x \in Addr
        PROVE  /\ x \in Region(pmpcfg, pmpaddr, i) \/ x \in Region(pmpcfg', pmpaddr, i)
                    => priv'[SMode][x] = {}
               /\ x \in Region(pmpcfg', pmpaddr, i) /\ pmpcfg'[i].L => priv'[MMode][x] = {}
    BY <2>5, <2>6
  <2> HIDE DEF D
  <2>9. EnoughInvalidated(pmpcfg, pmpaddr, pmpcfg', pmpaddr, priv, priv', D)
    BY <2>4, <2>7, <2>8 DEF EnoughInvalidated
  <2> QED BY <1>2, <1>6, <2>1, <2>2, <2>9, EnoughSound DEF TypeOK
<1> QED BY <1>2, <1>5, <1>6

LEMMA WritableAddrType ==
    ASSUME config \in Configs, NEW value \in Addr
    PROVE  WritableAddr(value) \in Addr
<1>1. G \in 0..29 /\ MaxAddr \in Nat /\ value \in Nat /\ value <= MaxAddr
  BY ConfigType DEF Addr
<1>2. CASE G >= 1
  <2>1. 2^(G-1) \in Nat /\ 2^(G-1) >= 1
    BY <1>1, <1>2, PowerOfTwo
  <2>2. RoundDown(value, 2^(G-1)) \in 0..value
    BY <1>1, <2>1, RoundDownBounds
  <2>3. WritableAddr(value) = RoundDown(value, 2^(G-1))
    BY <1>2 DEF WritableAddr
  <2> QED BY <1>1, <2>2, <2>3 DEF Addr
<1>3. CASE ~(G >= 1)
  BY <1>3 DEF WritableAddr
<1> QED BY <1>2, <1>3

\* Software that does not move the base of an unlocked TOR entry.
LEMMA WriteAddrSound ==
    ASSUME TypeOK, NEW i \in Entries, NEW value \in Addr, NEW artifact \in BOOLEAN,
           WritePMPAddr(i, value, artifact)
    PROVE  /\ pmpaddr' \in [Entries -> Addr] /\ priv' \in [PMPModes -> [Addr -> Privs]]
           /\ \A j \in Entries : j # i => pmpaddr'[j] = pmpaddr[j]
           /\ ~MoveTORBase /\ NoStale(pmpcfg, pmpaddr, priv) => NoStale(pmpcfg, pmpaddr', priv')
<1> DEFINE newAddr == [pmpaddr EXCEPT ![i] = WritableAddr(value)]
           q == Invalidate(pmpcfg, pmpaddr, priv, i)
<1>1. /\ pmpaddr' = newAddr /\ priv' = Invalidate(pmpcfg, newAddr, q, i)
      /\ ~AddrLocked(i, artifact)
      /\ ~MoveTORBase => ~(i + 1 \in Entries /\ pmpcfg[i+1].mode = "TOR"
                                           /\ ~PmpLocked(pmpcfg, i + 1, artifact))
  BY DEF WritePMPAddr
<1>2. /\ config \in Configs /\ pmpcfg \in [Entries -> Elem] /\ pmpaddr \in [Entries -> Addr]
      /\ priv \in [PMPModes -> [Addr -> Privs]]
  BY DEF TypeOK
<1>3. newAddr \in [Entries -> Addr] /\ \A j \in Entries : j # i => newAddr[j] = pmpaddr[j]
  BY <1>2, WritableAddrType
<1> HIDE DEF newAddr
<1>4. q \in [PMPModes -> [Addr -> Privs]]
  BY <1>2, InvalidateType
<1>5. \A m \in PMPModes, x \in Addr :
        q[m][x] = IF x \in Region(pmpcfg, pmpaddr, i)
                     /\ (m = SMode \/ pmpcfg[i].L \/ LowerPriorityLocked(pmpcfg, i))
                  THEN {} ELSE priv[m][x]
  BY <1>2, InvalidateType
<1> HIDE DEF q
<1>6. /\ priv' \in [PMPModes -> [Addr -> Privs]]
      /\ \A m \in PMPModes, x \in Addr :
        priv'[m][x] = IF x \in Region(pmpcfg, newAddr, i)
                         /\ (m = SMode \/ pmpcfg[i].L \/ LowerPriorityLocked(pmpcfg, i))
                      THEN {} ELSE q[m][x]
  BY <1>1, <1>4, InvalidateType
<1>7. ASSUME ~MoveTORBase, NoStale(pmpcfg, pmpaddr, priv) PROVE NoStale(pmpcfg, newAddr, priv')
  <2>1. i + 1 \in Entries => pmpcfg[i+1].mode # "TOR"
    BY <1>1, <1>7 DEF AddrLocked, PmpLockedTOR
  <2>2. ASSUME NEW j \in Entries \ {i}
        PROVE  Region(pmpcfg, pmpaddr, j) = Region(pmpcfg, newAddr, j)
    <3>1. pmpcfg[j] \in Elem /\ pmpaddr[j] = newAddr[j]
      BY <1>2, <1>3
    <3>2. pmpcfg[j].mode = "TOR" => j = 0 \/ pmpaddr[j-1] = newAddr[j-1]
      <4>1. j # 0 => j - 1 \in Entries /\ (j - 1) + 1 = j
        BY PMPAssumption DEF Entries
      <4>2. pmpcfg[j].mode = "TOR" /\ j # 0 => j - 1 # i
        BY <2>1, <4>1
      <4> QED BY <1>3, <4>1, <4>2
    <3> QED BY <3>1, <3>2, RegionLocal
  <2>3. SMode \in PMPModes /\ MMode \in PMPModes
    BY DEF PMPModes
  <2>4. \A m \in PMPModes, x \in Addr : priv'[m][x] = priv[m][x] \/ priv'[m][x] = {}
    BY <1>5, <1>6
  <2>5. \A x \in Addr : /\ x \in Region(pmpcfg, pmpaddr, i) \/ x \in Region(pmpcfg, newAddr, i)
                             => priv'[SMode][x] = {}
                        /\ x \in Region(pmpcfg, newAddr, i) /\ pmpcfg[i].L => priv'[MMode][x] = {}
    BY <1>5, <1>6, <2>3
  <2>6. ASSUME NEW j \in Entries, NEW x \in Addr, j > i, pmpcfg[j].L, pmpcfg[j].mode # "OFF",
               x \in Region(pmpcfg, pmpaddr, i)
        PROVE  priv'[MMode][x] = {}
    <3>1. LowerPriorityLocked(pmpcfg, i)
      BY <2>6 DEF LowerPriorityLocked
    <3> QED BY <1>5, <1>6, <2>3, <2>6, <3>1
  <2>7. EnoughInvalidated(pmpcfg, pmpaddr, pmpcfg, newAddr, priv, priv', {i})
    BY <2>4, <2>5, <2>6 DEF EnoughInvalidated
  <2>8. {i} \in SUBSET Entries
    OBVIOUS
  <2> QED BY <1>2, <1>7, <2>2, <2>7, <2>8, EnoughSound
<1> QED BY <1>1, <1>3, <1>6, <1>7

LEMMA RangesType ==
    ASSUME config \in Configs, NEW r \in Ranges
    PROVE  r[1] \in Addr /\ r[2] \in Addr /\ r[1] <= r[2]
<1>1. r[1] \in Addr /\ r[2] \in Addr /\ r[2] \in {r[1], r[1] + 1}
  BY DEF Ranges
<1>2. MaxAddr \in Nat
  BY ConfigType
<1> QED BY <1>1, <1>2 DEF Addr

\* riscvVMMiss and mapPMP: an access that lacks a privilege installs what the
\* registers say.
LEMMA AccessSound ==
    ASSUME TypeOK, NEW m \in PMPModes, NEW low \in Addr, NEW high \in Addr, low <= high,
           NEW q
    PROVE  /\ AfterAccess(m, low, high, q) \in [PMPModes -> [Addr -> Privs]]
           /\ NoStale(pmpcfg, pmpaddr, priv)
                => NoStale(pmpcfg, pmpaddr, AfterAccess(m, low, high, q))
           /\ \/ AfterAccess(m, low, high, q) = priv /\ Grants(priv, m, low, high, q)
              \/ \A x \in low..high :
                    AfterAccess(m, low, high, q)[m][x] = PrivOf(pmpcfg, pmpaddr, m, x)
<1>1. /\ config \in Configs /\ pmpcfg \in [Entries -> Elem] /\ pmpaddr \in [Entries -> Addr]
      /\ priv \in [PMPModes -> [Addr -> Privs]]
  BY DEF TypeOK
<1>2. CASE Grants(priv, m, low, high, q)
  BY <1>1, <1>2 DEF AfterAccess
<1>3. CASE ~Grants(priv, m, low, high, q)
  <2> DEFINE P == MapPMP(pmpcfg, pmpaddr, priv, m, low, high)
  <2>1. AfterAccess(m, low, high, q) = P
    BY <1>3 DEF AfterAccess
  <2>2. Mapped(pmpcfg, pmpaddr, priv, m, low, high, P)
    BY <1>1, MapPMPSound
  <2> HIDE DEF P
  <2>3. NoStale(pmpcfg, pmpaddr, priv) => NoStale(pmpcfg, pmpaddr, P)
    BY <2>2 DEF NoStale, Mapped
  <2> QED BY <2>1, <2>2, <2>3 DEF Mapped
<1> QED BY <1>2, <1>3

\* An entry covers no less when the address before it is 0.
LEMMA RegionGrows ==
    ASSUME config \in Configs, NEW c \in [Entries -> Elem], NEW a \in [Entries -> Addr],
           NEW d, NEW b, NEW i \in Entries, d[i] = c[i], b[i] = a[i], i # 0 => b[i-1] = 0
    PROVE  Region(c, a, i) \subseteq Region(d, b, i)
<1>1. c[i] \in Elem
  OBVIOUS
<1>2. CASE c[i].mode # "TOR" \/ i = 0
  <2>1. Region(c, a, i) = Region(d, b, i)
    BY <1>1, <1>2, RegionLocal
  <2> QED BY <2>1
<1>3. CASE c[i].mode = "TOR" /\ i # 0
  <2> DEFINE e == EffectiveAddr(c, a, i)
  <2>1. EffectiveAddr(d, b, i) = e
    BY DEF EffectiveAddr
  <2>2. RegionActive(d, b, i) = RegionActive(c, a, i)
    BY <2>1 DEF RegionActive
  <2>3. EntryBounds(c, a, i) = <<RoundDown(a[i-1], 2^G), e - 1>>
    BY <1>3 DEF EntryBounds
  <2>4. EntryBounds(d, b, i) = <<RoundDown(0, 2^G), e - 1>>
    BY <1>3, <2>1 DEF EntryBounds
  <2>5. 2^G \in Nat /\ 2^G >= 1 /\ e \in Nat
    BY ConfigType, EffectiveAddrType
  <2>6. EntryBounds(c, a, i)[1] \in Nat
    BY BoundsType
  <2>7. RoundDown(0, 2^G) = 0
    BY <2>5, RoundDownBounds
  <2> HIDE DEF e
  <2>8. EntryBounds(c, a, i)[1]..(e - 1) \subseteq 0..(e - 1)
    BY <2>5, <2>6
  <2> QED BY <2>2, <2>3, <2>4, <2>7, <2>8 DEF Region
<1> QED BY <1>2, <1>3

Off == [mode |-> "OFF", L |-> FALSE, priv |-> {}]

ResetState == [cfg : [Entries -> Elem], addr : [Entries -> Addr],
               priv : [PMPModes -> [Addr -> Privs]]]

\* Loop invariant of riscvVMResetPMP after k iterations.
ResetInv(k, s) ==
    /\ \A j \in Entries : /\ s.cfg[j] = IF j < k THEN Off ELSE pmpcfg[j]
                          /\ s.addr[j] = IF j < k THEN 0 ELSE pmpaddr[j]
    /\ \A m \in PMPModes, x \in Addr : s.priv[m][x] = priv[m][x] \/ s.priv[m][x] = {}
    /\ \A i \in Entries, x \in Addr :
         i < k /\ x \in Region(pmpcfg, pmpaddr, i) => s.priv[SMode][x] = {}

LEMMA ResetElemType ==
    ASSUME config \in Configs, NEW s \in ResetState, NEW i \in Entries
    PROVE  ResetElem(s, i) \in ResetState
<1>1. /\ s.cfg \in [Entries -> Elem] /\ s.addr \in [Entries -> Addr]
      /\ s.priv \in [PMPModes -> [Addr -> Privs]]
  BY DEF ResetState
<1>2. Off \in Elem /\ 0 \in Addr
  BY ConfigType DEF Off, Elem, Privs, Addr
<1>3. Invalidate(s.cfg, s.addr, s.priv, i) \in [PMPModes -> [Addr -> Privs]]
  BY <1>1, InvalidateType
<1>4. [s.cfg EXCEPT ![i] = Off] \in [Entries -> Elem] /\ [s.addr EXCEPT ![i] = 0] \in [Entries -> Addr]
  BY <1>1, <1>2
<1> QED BY <1>3, <1>4 DEF ResetElem, ResetState, Off

LEMMA ResetElemSound ==
    ASSUME TypeOK, NEW s \in ResetState, NEW i \in Entries, ResetInv(i, s)
    PROVE  ResetInv(i + 1, ResetElem(s, i))
<1> DEFINE t == ResetElem(s, i)
           q == Invalidate(s.cfg, s.addr, s.priv, i)
<1>1. /\ s.cfg \in [Entries -> Elem] /\ s.addr \in [Entries -> Addr]
      /\ s.priv \in [PMPModes -> [Addr -> Privs]]
      /\ config \in Configs /\ pmpcfg \in [Entries -> Elem] /\ pmpaddr \in [Entries -> Addr]
  BY DEF ResetState, TypeOK
<1>2. /\ i \in Int /\ ~(i < i) /\ \A j \in Entries : j < i + 1 <=> j < i \/ j = i
      /\ i # 0 => i - 1 \in Entries /\ i - 1 < i
  BY PMPAssumption DEF Entries
<1>3. t.cfg = [s.cfg EXCEPT ![i] = Off] /\ t.addr = [s.addr EXCEPT ![i] = 0] /\ t.priv = q
  BY DEF ResetElem, Off
<1>4. \A m \in PMPModes, x \in Addr :
        q[m][x] = IF x \in Region(s.cfg, s.addr, i)
                     /\ (m = SMode \/ s.cfg[i].L \/ LowerPriorityLocked(s.cfg, i))
                  THEN {} ELSE s.priv[m][x]
  BY <1>1, InvalidateType
<1>5. Region(pmpcfg, pmpaddr, i) \subseteq Region(s.cfg, s.addr, i)
  <2>1. s.cfg[i] = pmpcfg[i] /\ s.addr[i] = pmpaddr[i] /\ (i # 0 => s.addr[i-1] = 0)
    BY <1>2 DEF ResetInv
  <2> QED BY <1>1, <2>1, RegionGrows
<1> HIDE DEF t, q
<1>6. \A j \in Entries : /\ t.cfg[j] = IF j < i + 1 THEN Off ELSE pmpcfg[j]
                         /\ t.addr[j] = IF j < i + 1 THEN 0 ELSE pmpaddr[j]
  BY <1>1, <1>2, <1>3 DEF ResetInv
<1>7. \A m \in PMPModes, x \in Addr : t.priv[m][x] = priv[m][x] \/ t.priv[m][x] = {}
  BY <1>3, <1>4 DEF ResetInv
<1>8. SMode \in PMPModes
  BY DEF PMPModes
<1>9. ASSUME NEW j \in Entries, NEW x \in Addr, j < i + 1, x \in Region(pmpcfg, pmpaddr, j)
      PROVE  t.priv[SMode][x] = {}
  <2>1. CASE j = i
    BY <1>3, <1>4, <1>5, <1>8, <1>9, <2>1
  <2>2. CASE j < i
    <3>1. s.priv[SMode][x] = {}
      BY <1>9, <2>2 DEF ResetInv
    <3> QED BY <1>3, <1>4, <1>8, <3>1
  <2> QED BY <1>2, <1>9, <2>1, <2>2
<1>10. ResetInv(i + 1, t)
  BY <1>6, <1>7, <1>9 DEF ResetInv
<1> QED BY <1>10 DEF t

LEMMA ResetSound ==
    ASSUME TypeOK, ResetPMP
    PROVE  /\ pmpcfg' \in [Entries -> Elem] /\ pmpaddr' \in [Entries -> Addr]
           /\ priv' \in [PMPModes -> [Addr -> Privs]]
           /\ \A j \in Entries : pmpcfg'[j] = Off /\ pmpaddr'[j] = 0
           /\ NoStale(pmpcfg, pmpaddr, priv) => NoStale(pmpcfg', pmpaddr', priv')
<1> DEFINE s0 == [cfg |-> pmpcfg, addr |-> pmpaddr, priv |-> priv]
           F == [k \in 1..N |-> [t \in ResetState |-> ResetElem(t, k - 1)]]
           reset[k \in 0..N] == IF k = 0 THEN s0 ELSE ResetElem(reset[k-1], k - 1)
<1>0. config \in Configs
  BY DEF TypeOK
<1>1. N \in Nat /\ \A k \in 1..N : k - 1 \in Entries
  BY PMPAssumption DEF Entries
<1>2. s0 \in ResetState
  BY DEF ResetState, TypeOK
<1>3. F \in Bodies(N, ResetState)
  <2>1. ASSUME NEW k \in 1..N, NEW t \in ResetState PROVE ResetElem(t, k - 1) \in ResetState
    BY <1>0, <1>1, ResetElemType
  <2> QED BY <2>1 DEF Bodies
<1>4. pmpcfg' = reset[N].cfg /\ pmpaddr' = reset[N].addr /\ priv' = reset[N].priv
  BY DEF ResetPMP
<1> HIDE DEF s0
<1>5. PICK f : IsLoop(f, N, ResetState, s0, F)
  <2> HIDE DEF F
  <2> QED BY <1>1, <1>2, <1>3, LoopExists
<1>6. f = [k \in 0..N |-> IF k = 0 THEN s0 ELSE ResetElem(f[k-1], k - 1)]
  <2>1. ASSUME NEW k \in 0..N, k # 0 PROVE f[k] = ResetElem(f[k-1], k - 1)
    <3>1. k \in 1..N /\ k - 1 \in 0..N
      BY <1>1, <2>1
    <3> QED BY <1>5, <3>1 DEF IsLoop
  <2> QED BY <1>5, <2>1 DEF IsLoop
<1>7. reset = [k \in 0..N |-> IF k = 0 THEN s0 ELSE ResetElem(reset[k-1], k - 1)]
  BY <1>6
<1> HIDE DEF F, reset
<1>8. reset[0] = s0 /\ \A k \in 1..N : reset[k] = ResetElem(reset[k-1], k - 1)
  <2>1. ASSUME NEW k \in 0..N
        PROVE  reset[k] = IF k = 0 THEN s0 ELSE ResetElem(reset[k-1], k - 1)
    BY <1>7, Zenon
  <2>2. ASSUME NEW k \in 1..N PROVE k \in 0..N /\ k # 0
    BY <1>1
  <2>3. 0 \in 0..N
    BY <1>1
  <2> QED BY <2>1, <2>2, <2>3, Zenon
<1> DEFINE T == {k \in 0..N : reset[k] \in ResetState /\ ResetInv(k, reset[k])}
<1>9. 0 \in T
  <2>1. s0.cfg = pmpcfg /\ s0.addr = pmpaddr /\ s0.priv = priv
    BY DEF s0
  <2>2. \A j \in Entries : ~(j < 0)
    BY <1>1 DEF Entries
  <2>3. ResetInv(0, s0)
    BY <2>1, <2>2 DEF ResetInv
  <2> QED BY <1>1, <1>2, <1>8, <2>3
<1>10. ASSUME NEW k \in 1..N, k - 1 \in T PROVE k \in T
  <2>1. k - 1 \in Entries /\ (k - 1) + 1 = k /\ k \in 0..N
    BY <1>1
  <2>2. reset[k-1] \in ResetState /\ ResetInv(k - 1, reset[k-1])
    BY <1>10
  <2>3. reset[k] \in ResetState /\ ResetInv((k - 1) + 1, ResetElem(reset[k-1], k - 1))
    BY <1>0, <1>8, <2>1, <2>2, ResetElemType, ResetElemSound
  <2>4. ResetInv(k, reset[k])
    BY <1>8, <2>1, <2>3
  <2> QED BY <2>1, <2>3, <2>4
<1> HIDE DEF T
<1>11. reset[N] \in ResetState /\ ResetInv(N, reset[N])
  <2>1. \A k \in 0..N : k \in T
    BY <1>1, <1>9, <1>10, LoopInduction
  <2> QED BY <1>1, <2>1 DEF T
<1>12. /\ pmpcfg' \in [Entries -> Elem] /\ pmpaddr' \in [Entries -> Addr]
       /\ priv' \in [PMPModes -> [Addr -> Privs]]
  BY <1>4, <1>11 DEF ResetState
<1>13. \A j \in Entries : j < N
  BY <1>1 DEF Entries
<1>14. \A j \in Entries : pmpcfg'[j] = Off /\ pmpaddr'[j] = 0
  BY <1>4, <1>11, <1>13 DEF ResetInv
<1>15. ASSUME NoStale(pmpcfg, pmpaddr, priv) PROVE NoStale(pmpcfg', pmpaddr', priv')
  <2> SUFFICES ASSUME NEW m \in PMPModes, NEW x \in Addr
               PROVE  priv'[m][x] \subseteq PrivOf(pmpcfg', pmpaddr', m, x)
    BY DEF NoStale
  <2>1. Matching(pmpcfg', pmpaddr', x) = {}
    BY <1>14 DEF Matching, Region, RegionActive, Off
  <2>2. CASE m = MMode
    BY <1>12, <2>1, <2>2 DEF PrivOf, Privs
  <2>3. CASE m = SMode
    <3>1. priv'[SMode][x] = priv[SMode][x] \/ priv'[SMode][x] = {}
      BY <1>4, <1>11, <2>3 DEF ResetInv
    <3>2. priv[SMode][x] \subseteq PrivOf(pmpcfg, pmpaddr, SMode, x)
      BY <1>15, <2>3 DEF NoStale
    <3>3. CASE Matching(pmpcfg, pmpaddr, x) = {}
      BY <2>3, <3>1, <3>2, <3>3 DEF PrivOf, SMode, MMode
    <3>4. CASE Matching(pmpcfg, pmpaddr, x) # {}
      <4>1. PICK i \in Entries : x \in Region(pmpcfg, pmpaddr, i)
        BY <3>4 DEF Matching
      <4>2. priv'[SMode][x] = {}
        BY <1>4, <1>11, <1>13, <4>1 DEF ResetInv
      <4> QED BY <2>3, <4>2
    <3> QED BY <3>3, <3>4
  <2> QED BY <2>2, <2>3 DEF PMPModes
<1> QED BY <1>12, <1>14, <1>15

------------------------------------------------------------------------------
(* Theorems *)

\* The privileges that the lowest of entries M gives to mode m.
LowestPriv(M, c, m) ==
    IF M = {} THEN IF m = MMode THEN RWX ELSE {}
    ELSE LET i == CHOOSE j \in M : \A k \in M : j <= k
         IN  IF m = MMode /\ ~c[i].L THEN RWX ELSE c[i].priv

\* The configuration never changes, so that the registers after a step mean
\* what they meant before.
LEMMA MeaningKept ==
    ASSUME config' = config
    PROVE  /\ Addr' = Addr
           /\ NoStalePrivilege' <=> NoStale(pmpcfg', pmpaddr', priv')
<1>1. G' = G /\ AddrBits' = AddrBits
  BY DEF G, AddrBits
<1>2. Addr' = Addr
  BY <1>1 DEF Addr, MaxAddr
<1>3. ASSUME NEW e PROVE NapotSize(e)' = NapotSize(e)
  BY <1>1 DEF NapotSize
<1>4. ASSUME NEW i PROVE EffectiveAddr(pmpcfg, pmpaddr, i)' = EffectiveAddr(pmpcfg', pmpaddr', i)
  BY <1>1 DEF EffectiveAddr
<1>5. ASSUME NEW i PROVE RegionActive(pmpcfg, pmpaddr, i)' = RegionActive(pmpcfg', pmpaddr', i)
  BY <1>4 DEF RegionActive
<1>6. ASSUME NEW i PROVE EntryBounds(pmpcfg, pmpaddr, i)' = EntryBounds(pmpcfg', pmpaddr', i)
  BY <1>1, <1>3, <1>4, Zenon DEF EntryBounds
<1>7. ASSUME NEW i PROVE Region(pmpcfg, pmpaddr, i)' = Region(pmpcfg', pmpaddr', i)
  BY <1>5, <1>6 DEF Region
<1>8. ASSUME NEW x PROVE Matching(pmpcfg, pmpaddr, x)' = Matching(pmpcfg', pmpaddr', x)
  BY <1>7 DEF Matching
<1>9. ASSUME NEW m, NEW x PROVE PrivOf(pmpcfg, pmpaddr, m, x)' = PrivOf(pmpcfg', pmpaddr', m, x)
  <2>1. PrivOf(pmpcfg, pmpaddr, m, x)' = LowestPriv(Matching(pmpcfg, pmpaddr, x)', pmpcfg', m)
    BY Zenon DEF PrivOf, LowestPriv
  <2>2. PrivOf(pmpcfg', pmpaddr', m, x) = LowestPriv(Matching(pmpcfg', pmpaddr', x), pmpcfg', m)
    BY Zenon DEF PrivOf, LowestPriv
  <2> QED BY <1>8, <2>1, <2>2, Zenon
<1>10. NoStalePrivilege' <=> NoStale(pmpcfg', pmpaddr', priv')
  BY <1>2, <1>9 DEF NoStalePrivilege, NoStale
<1> QED BY <1>2, <1>10

\* What a step of the specification is, with the types of its parameters.
LEMMA NextCases ==
    ASSUME TypeOK, Next
    PROVE  \/ \E m \in PMPModes, r \in Ranges : \E q : Access(m, r[1], r[2], q)
           \/ \E artifact \in Accesses : \E v \in [Entries -> Elem] : WritePMPCFG(v, artifact)
           \/ \E artifact \in Accesses : \E i \in Entries, value \in Addr : WritePMPAddr(i, value, artifact)
           \/ ResetPMP
<1>1. ElemVals \subseteq Elem
  BY ConfigType DEF TypeOK
<1>2. [Entries -> ElemVals] \subseteq [Entries -> Elem]
  BY <1>1
<1> QED BY <1>2 DEF Next

LEMMA AccessesType == Accesses \subseteq BOOLEAN /\ (~Debugger => Accesses = {FALSE})
  BY DEF Accesses

\* One step keeps the types and, if the software is careful, the domains right.
LEMMA PMPStep ==
    ASSUME TypeOK, [Next]_vars
    PROVE  /\ TypeOK'
           /\ ~RewriteLocked /\ ~MoveTORBase /\ NoStalePrivilege => NoStalePrivilege'
<1>1. /\ config \in Configs /\ pmpcfg \in [Entries -> Elem] /\ pmpaddr \in [Entries -> Addr]
      /\ priv \in [PMPModes -> [Addr -> Privs]]
  BY DEF TypeOK
<1>2. NoStalePrivilege => NoStale(pmpcfg, pmpaddr, priv)
  BY DEF NoStalePrivilege, NoStale
<1>3. ASSUME config' = config, pmpcfg' \in [Entries -> Elem], pmpaddr' \in [Entries -> Addr],
             priv' \in [PMPModes -> [Addr -> Privs]],
             ~RewriteLocked /\ ~MoveTORBase /\ NoStale(pmpcfg, pmpaddr, priv)
               => NoStale(pmpcfg', pmpaddr', priv')
      PROVE  /\ TypeOK'
             /\ ~RewriteLocked /\ ~MoveTORBase /\ NoStalePrivilege => NoStalePrivilege'
  BY <1>1, <1>2, <1>3, MeaningKept DEF TypeOK
<1>4. CASE \E m \in PMPModes, r \in Ranges : \E q : Access(m, r[1], r[2], q)
  <2>1. PICK m \in PMPModes, r \in Ranges : \E q : Access(m, r[1], r[2], q)
    BY <1>4
  <2> PICK q : Access(m, r[1], r[2], q)
    BY <2>1
  <2>2. r[1] \in Addr /\ r[2] \in Addr /\ r[1] <= r[2]
    BY <1>1, RangesType
  <2>3. /\ priv' = AfterAccess(m, r[1], r[2], q)
        /\ config' = config /\ pmpcfg' = pmpcfg /\ pmpaddr' = pmpaddr
    BY DEF Access
  <2>4. /\ priv' \in [PMPModes -> [Addr -> Privs]]
        /\ NoStale(pmpcfg, pmpaddr, priv) => NoStale(pmpcfg, pmpaddr, priv')
    BY <2>2, <2>3, AccessSound
  <2> QED BY <1>1, <1>3, <2>3, <2>4
<1>5. CASE \E artifact \in Accesses : \E v \in [Entries -> Elem] : WritePMPCFG(v, artifact)
  <2>1. PICK artifact \in Accesses : \E v \in [Entries -> Elem] : WritePMPCFG(v, artifact)
    BY <1>5
  <2>2. PICK v \in [Entries -> Elem] : WritePMPCFG(v, artifact)
    BY <2>1
  <2>3. config' = config /\ pmpaddr' = pmpaddr /\ artifact \in BOOLEAN
    BY <2>2, AccessesType DEF WritePMPCFG
  <2> QED BY <1>1, <1>3, <2>2, <2>3, WriteCFGSound
<1>6. CASE \E artifact \in Accesses : \E i \in Entries, value \in Addr : WritePMPAddr(i, value, artifact)
  <2>1. PICK artifact \in Accesses : \E i \in Entries, value \in Addr : WritePMPAddr(i, value, artifact)
    BY <1>6
  <2>2. PICK i \in Entries, value \in Addr : WritePMPAddr(i, value, artifact)
    BY <2>1
  <2>3. config' = config /\ pmpcfg' = pmpcfg /\ artifact \in BOOLEAN
    BY <2>2, AccessesType DEF WritePMPAddr
  <2> QED BY <1>1, <1>3, <2>2, <2>3, WriteAddrSound
<1>7. CASE ResetPMP
  <2>1. config' = config
    BY <1>7 DEF ResetPMP
  <2> QED BY <1>1, <1>3, <1>7, <2>1, ResetSound
<1>8. CASE UNCHANGED vars
  BY <1>1, <1>3, <1>8 DEF vars
<1> QED BY <1>4, <1>5, <1>6, <1>7, <1>8, NextCases

\* The domains hold privileges at addresses, the registers hold bytes and
\* addresses, however often they are written.
THEOREM PMPTypeCorrect == Spec => []TypeOK
<1>1. Init => TypeOK
  <2> SUFFICES ASSUME Init PROVE TypeOK
    OBVIOUS
  <2>1. MaxAddr \in Nat
    BY ConfigType DEF Init
  <2> QED BY <2>1 DEF Init, TypeOK, Elem, Privs, Addr
<1>2. TypeOK /\ [Next]_vars => TypeOK'
  BY PMPStep
<1> QED BY <1>1, <1>2, PTL DEF Spec

\* Software that writes no other byte to a locked entry and does not move the
\* lower bound of an unlocked TOR entry.
CarefulSoftware == \A c \in Configs : ~c.rewriteLocked /\ ~c.moveTORBase

\* With such software, and with or without a debugger that ignores locks, no
\* mode keeps a privilege that the registers do not grant: each write of
\* pmpcfg, of pmpaddr and each reset invalidates enough (invalidatePMPEntry).
THEOREM PrivilegesNeverStale ==
    ASSUME CarefulSoftware
    PROVE  Spec => []NoStalePrivilege
<1>1. Init => NoStalePrivilege
  BY DEF Init, NoStalePrivilege
<1>2. TypeOK /\ NoStalePrivilege /\ [Next]_vars => NoStalePrivilege'
  <2>1. TypeOK => ~RewriteLocked /\ ~MoveTORBase
    BY DEF CarefulSoftware, TypeOK, RewriteLocked, MoveTORBase
  <2> QED BY <2>1, PMPStep
<1> QED BY <1>1, <1>2, PMPTypeCorrect, PTL DEF Spec

\* The lazily filled domains decide every access as the registers do: by the
\* lowest-numbered entry that matches each unit (mapPMP, mapPMPInt).
THEOREM AccessesDecided ==
    ASSUME CarefulSoftware
    PROVE  Spec => []AccessDecision
<1>1. TypeOK /\ NoStalePrivilege => AccessDecision
  <2> SUFFICES ASSUME TypeOK, NoStalePrivilege,
                      NEW m \in PMPModes, NEW r \in Ranges, NEW q \in Privs \ {{}}
               PROVE  Grants(AfterAccess(m, r[1], r[2], q), m, r[1], r[2], q)
                        <=> \A x \in r[1]..r[2] : q \subseteq PrivOf(pmpcfg, pmpaddr, m, x)
    BY DEF AccessDecision
  <2>1. config \in Configs
    BY DEF TypeOK
  <2>2. r[1] \in Addr /\ r[2] \in Addr /\ r[1] <= r[2]
    BY <2>1, RangesType
  <2>3. \A x \in r[1]..r[2] : x \in Addr
    BY <2>1, <2>2, ConfigType DEF Addr
  <2>4. \/ AfterAccess(m, r[1], r[2], q) = priv /\ Grants(priv, m, r[1], r[2], q)
        \/ \A x \in r[1]..r[2] :
              AfterAccess(m, r[1], r[2], q)[m][x] = PrivOf(pmpcfg, pmpaddr, m, x)
    BY <2>2, AccessSound
  <2>5. CASE AfterAccess(m, r[1], r[2], q) = priv /\ Grants(priv, m, r[1], r[2], q)
    BY <2>3, <2>5 DEF Grants, NoStalePrivilege
  <2>6. CASE \A x \in r[1]..r[2] :
               AfterAccess(m, r[1], r[2], q)[m][x] = PrivOf(pmpcfg, pmpaddr, m, x)
    BY <2>6 DEF Grants
  <2> QED BY <2>4, <2>5, <2>6
<1> QED BY <1>1, PMPTypeCorrect, PrivilegesNeverStale, PTL

\* Whatever software writes, a locked entry keeps its byte, its address and
\* its lower bound until a reset, if no debugger ignores the lock.
THEOREM LocksHold == Spec => LockedUntilReset
<1> DEFINE Kept == \A i \in Entries : pmpcfg[i].L /\ ~Debugger =>
                     \/ \A j \in Entries : pmpaddr'[j] = 0 /\ pmpcfg'[j].mode = "OFF"
                     \/ /\ pmpcfg'[i] = pmpcfg[i]
                        /\ pmpaddr'[i] = pmpaddr[i]
                        /\ pmpcfg[i].mode = "TOR" /\ i > 0 => pmpaddr'[i-1] = pmpaddr[i-1]
<1>1. ASSUME TypeOK, [Next]_vars PROVE [Kept]_vars
  <2> SUFFICES ASSUME Next PROVE Kept
    BY <1>1
  <2> SUFFICES ASSUME NEW i \in Entries, pmpcfg[i].L, ~Debugger
               PROVE  \/ \A j \in Entries : pmpaddr'[j] = 0 /\ pmpcfg'[j].mode = "OFF"
                      \/ /\ pmpcfg'[i] = pmpcfg[i]
                         /\ pmpaddr'[i] = pmpaddr[i]
                         /\ pmpcfg[i].mode = "TOR" /\ i > 0 => pmpaddr'[i-1] = pmpaddr[i-1]
    OBVIOUS
  <2>1. PmpLocked(pmpcfg, i, FALSE)
    BY DEF PmpLocked
  <2>2. CASE \E m \in PMPModes, r \in Ranges : \E q : Access(m, r[1], r[2], q)
    BY <2>2 DEF Access
  <2>3. CASE \E artifact \in Accesses : \E v \in [Entries -> Elem] : WritePMPCFG(v, artifact)
    <3>1. PICK v \in [Entries -> Elem] : WritePMPCFG(v, FALSE)
      BY <2>3, AccessesType
    <3>2. pmpcfg'[i] = FinalByte(v, FALSE, i) /\ pmpaddr' = pmpaddr
      BY <1>1, <3>1, WriteCFGSound DEF WritePMPCFG
    <3>3. FinalByte(v, FALSE, i) = pmpcfg[i]
      BY <2>1 DEF FinalByte
    <3> QED BY <3>2, <3>3
  <2>4. CASE \E artifact \in Accesses : \E h \in Entries, value \in Addr : WritePMPAddr(h, value, artifact)
    <3>1. PICK h \in Entries, value \in Addr : WritePMPAddr(h, value, FALSE)
      BY <2>4, AccessesType
    <3>2. ~AddrLocked(h, FALSE) /\ pmpcfg' = pmpcfg
      BY <3>1 DEF WritePMPAddr
    <3>3. \A j \in Entries : j # h => pmpaddr'[j] = pmpaddr[j]
      BY <1>1, <3>1, WriteAddrSound
    <3>4. i # h
      BY <2>1, <3>2 DEF AddrLocked
    <3>5. pmpcfg[i].mode = "TOR" /\ i > 0 => i - 1 \in Entries /\ i - 1 # h
      <4>1. i > 0 => i - 1 \in Entries /\ (i - 1) + 1 = i
        BY PMPAssumption DEF Entries
      <4> QED BY <2>1, <3>2, <4>1 DEF AddrLocked, PmpLockedTOR
    <3> QED BY <3>2, <3>3, <3>4, <3>5
  <2>5. CASE ResetPMP
    BY <1>1, <2>5, ResetSound DEF Off
  <2> QED BY <1>1, <2>2, <2>3, <2>4, <2>5, NextCases
<1> HIDE DEF Kept
<1>2. TypeOK /\ [Next]_vars => [Kept]_vars
  BY <1>1
<1>3. Spec => [][Kept]_vars
  BY <1>2, PMPTypeCorrect, PTL DEF Spec
<1> QED BY <1>3 DEF LockedUntilReset, Kept

==============================================================================
