--------------------------- MODULE RiscvLRSCProofs ---------------------------
(* Theorems about RiscvLRSC, for any number of harts and domains and every   *)
(* grain.                                                                    *)
EXTENDS RiscvLRSC, TLAPS

------------------------------------------------------------------------------
(* Arithmetic of tags *)

LEMMA GrainPositive == Grain \in Nat /\ Grain >= 1 /\ Size \in Nat /\ Size > 1 /\ LastAddr \in Nat
  BY LRSCAssumption

\* The span is a multiple of the access, and memory is one of the span.
LEMMA SpanFacts ==
    /\ Span \in Nat /\ Span > 1
    /\ \E k \in Nat : Span = k * Size
    /\ \E k \in Nat : LastAddr + 1 = k * Span
<1>1. CASE Multiple(Grain, Size)
  <2>1. Span = Grain
    BY <1>1 DEF Span
  <2>2. PICK k \in 1..Grain : Grain = k * Size
    BY <1>1 DEF Multiple
  <2>3. k \in Nat /\ k >= 1 /\ Size \in Nat /\ Size > 1 /\ Grain \in Nat
    BY GrainPositive
  <2>4. k * Size >= Size
    BY <2>3
  <2>5. PICK m \in 1..LastAddr+1 : LastAddr + 1 = m * Grain
    BY LRSCAssumption DEF Multiple
  <2>6. m \in Nat
    BY <2>5, GrainPositive
  <2> QED BY <2>1, <2>2, <2>3, <2>4, <2>5, <2>6
<1>2. CASE ~Multiple(Grain, Size)
  <2>1. Span = Size
    BY <1>2 DEF Span
  <2>2. PICK m \in 1..LastAddr+1 : LastAddr + 1 = m * Size
    BY LRSCAssumption DEF Multiple
  <2>3. m \in Nat /\ Size = 1 * Size /\ 1 \in Nat
    BY <2>2, GrainPositive
  <2> QED BY <2>1, <2>2, <2>3, GrainPositive
<1> QED BY <1>1, <1>2

\* A multiple of n that is at least 0 and less than m * n is at most
\* (m - 1) * n.
LEMMA MultipleBelow ==
    ASSUME NEW n \in Nat, n > 0, NEW j \in Int, NEW m \in Int, j * n < m * n
    PROVE  j * n + n <= m * n
<1>1. CASE j >= m
  <2>1. j * n >= m * n
    BY <1>1
  <2> QED BY <2>1
<1>2. CASE j + 1 <= m
  <2>1. (j + 1) * n <= m * n
    BY <1>2
  <2>2. (j + 1) * n = j * n + n
    OBVIOUS
  <2> QED BY <2>1, <2>2
<1> QED BY <1>1, <1>2

LEMMA Remainder ==
    ASSUME NEW a \in Nat, NEW n \in Nat, n > 0
    PROVE  /\ a % n \in Nat /\ a % n < n /\ a % n <= a
           /\ a = n * (a \div n) + (a % n) /\ a \div n \in Nat
<1>1. a % n \in Nat /\ a % n < n
  OBVIOUS
<1>2. a = n * (a \div n) + (a % n) /\ a \div n \in Nat
  OBVIOUS
<1>3. n * (a \div n) \in Nat
  BY <1>2
<1> DEFINE r == a % n
           p == n * (a \div n)
<1>4. r <= a
  <2>1. r \in Nat /\ p \in Nat /\ a = p + r
    BY <1>1, <1>2, <1>3
  <2> HIDE DEF r, p
  <2> QED BY <2>1
<1> QED BY <1>1, <1>2, <1>4

LEMMA SpanPositive == Span \in Nat /\ Span > 0
  BY SpanFacts

LEMMA SpanRemainder ==
    ASSUME NEW a \in Nat
    PROVE  /\ a % Span \in Nat /\ a % Span < Span /\ a % Span <= a
           /\ a = Span * (a \div Span) + (a % Span) /\ a \div Span \in Nat
  BY SpanPositive, Remainder

\* An aligned access does not leave its span.
LEMMA AlignedFits ==
    ASSUME NEW a \in Nat, a % Size = 0
    PROVE  (a % Span) + Size <= Span
<1>1. PICK k \in Nat : Span = k * Size
  BY SpanFacts
<1> DEFINE m == a \div Size
           q == a \div Span
           r == a % Span
<1>2. k \in Int /\ m \in Int /\ q \in Int /\ r \in Int /\ r < Span
  BY SpanRemainder, SpanPositive, GrainPositive
<1>3. a = Size * m
  BY GrainPositive
<1>4. a = Span * q + r
  BY SpanRemainder
<1> HIDE DEF m, q, r
<1>5. r = (m - k * q) * Size
  <2>1. Span * q = (k * q) * Size
    BY <1>1, <1>2, GrainPositive
  <2>2. (m - k * q) * Size = Size * m - (k * q) * Size
    BY <1>2, GrainPositive
  <2> QED BY <1>2, <1>3, <1>4, <2>1, <2>2, GrainPositive
<1>6. (m - k * q) \in Int
  BY <1>2
<1> DEFINE j == m - k * q
<1> HIDE DEF j
<1>7. j \in Int /\ r = j * Size
  BY <1>5, <1>6 DEF j
<1>8. j * Size + Size <= k * Size
  BY <1>1, <1>2, <1>7, MultipleBelow, GrainPositive
<1> QED BY <1>1, <1>7, <1>8 DEF r

\* The tag of an aligned access is the address of its span: it is the address
\* itself when the granule is the smaller of the two.
LEMMA TagOfAligned ==
    ASSUME NEW a \in Nat, a % Size = 0
    PROVE  TagOf(a) = a - (a % Span)
<1>1. CASE Multiple(Grain, Size)
  BY <1>1 DEF Span, TagOf
<1>2. CASE ~Multiple(Grain, Size)
  <2>1. Span = Size
    BY <1>2 DEF Span
  <2>2. PICK k \in 1..Size : Size = k * Grain
    BY <1>2, LRSCAssumption DEF Multiple
  <2> DEFINE m == a \div Size
  <2>3. a = Size * m /\ m \in Nat /\ k \in Nat
    BY GrainPositive
  <2> HIDE DEF m
  <2>4. a = Grain * (k * m) /\ k * m \in Nat
    BY <2>2, <2>3, GrainPositive
  <2>5. \A j \in Nat : (Grain * j) % Grain = 0
    BY GrainPositive
  <2>6. a % Grain = 0
    BY <2>4, <2>5
  <2> QED BY <2>1, <2>6 DEF TagOf
<1> QED BY <1>1, <1>2

\* Tags are addresses of spans, and none of them is RISCV_NO_TAG.
LEMMA TagOfType ==
    ASSUME NEW a \in Addr, a % Size = 0
    PROVE  TagOf(a) \in Tags /\ TagOf(a) # NoTag
<1>1. a \in Nat /\ a <= LastAddr
  BY GrainPositive DEF Addr
<1> DEFINE r == a % Span
           q == a \div Span
<1>2. r \in Nat /\ r < Span /\ r <= a /\ a = Span * q + r /\ q \in Nat
  BY <1>1, SpanRemainder, SpanPositive
<1>3. a - r = Span * q
  BY <1>1, <1>2, SpanPositive
<1>4. a - r \in Addr
  <2> HIDE DEF q, r
  <2> QED BY <1>1, <1>2, GrainPositive DEF Addr
<1>5. (Span * q) % Span = 0
  BY <1>2, SpanPositive
<1>6. PICK k \in Nat : LastAddr + 1 = k * Span
  BY SpanFacts
<1>7. k \in Int /\ Span \in Nat /\ Span > 1 /\ LastAddr \in Nat
  BY <1>6, GrainPositive, SpanFacts
<1>8. a - r # LastAddr
  <2> SUFFICES ASSUME a - r = LastAddr PROVE FALSE
    OBVIOUS
  <2>1. q * Span = LastAddr /\ k * Span = LastAddr + 1
    BY <1>2, <1>3, <1>6, <1>7
  <2> HIDE DEF q, r
  <2>2. q * Span < k * Span
    BY <1>7, <2>1
  <2>3. q * Span + Span <= k * Span
    BY <1>2, <1>7, <2>2, MultipleBelow
  <2> QED BY <1>7, <2>1, <2>3
<1>9. TagOf(a) = a - r
  BY <1>1, TagOfAligned
<1> QED BY <1>3, <1>4, <1>5, <1>8, <1>9 DEF Tags, NoTag

\* What a tag reserves is a set of addresses.
LEMMA ReservedType ==
    ASSUME NEW t \in Tags
    PROVE  Reserved(t) \subseteq Addr
<1> SUFFICES ASSUME t # NoTag PROVE Bytes(t, Span) \subseteq Addr
  BY DEF Reserved
<1> DEFINE q == t \div Span
<1>1. t \in Nat /\ t <= LastAddr /\ t % Span = 0
  BY GrainPositive DEF Tags, Addr
<1>2. t = Span * q /\ q \in Nat
  BY <1>1, SpanRemainder, SpanPositive
<1>3. PICK k \in Nat : LastAddr + 1 = k * Span
  BY SpanFacts
<1>4. k \in Int /\ Span \in Nat /\ Span > 1 /\ LastAddr \in Nat
  BY <1>3, GrainPositive, SpanFacts
<1> HIDE DEF q
<1>5. q * Span < k * Span
  BY <1>1, <1>2, <1>3, <1>4
<1>6. q * Span + Span <= k * Span
  BY <1>2, <1>4, <1>5, MultipleBelow
<1>7. t + Span <= LastAddr + 1
  BY <1>2, <1>3, <1>4, <1>6
<1> QED BY <1>1, <1>4, <1>7 DEF Bytes, Addr

\* What SC stores to is reserved by its tag.
LEMMA AccessReserved ==
    ASSUME NEW a \in Addr, a % Size = 0
    PROVE  Bytes(a, Size) \subseteq Reserved(TagOf(a))
<1> DEFINE r == a % Span
<1>1. a \in Nat
  BY GrainPositive DEF Addr
<1>2. r \in Nat /\ r <= a /\ r + Size <= Span
  BY <1>1, SpanRemainder, AlignedFits
<1>3. TagOf(a) = a - r /\ TagOf(a) # NoTag
  BY <1>1, TagOfType, TagOfAligned
<1> HIDE DEF r
<1>4. a .. (a + Size - 1) \subseteq (a - r) .. (a - r + Span - 1)
  BY <1>1, <1>2, GrainPositive, SpanFacts
<1> QED BY <1>3, <1>4 DEF Bytes, Reserved

\* An aligned store that misses the granule misses all that is reserved, if
\* the granule holds the access or the store is as wide as the access: then
\* a store to any reserved byte is a store to the first one.
LEMMA StoreMeetsGranule ==
    ASSUME NEW t \in Tags, NEW b \in Addr, NEW n \in Nat \ {0}, b % n = 0,
           Multiple(Grain, Size) \/ Multiple(n, Size),
           Bytes(b, n) \cap Granule(t) = {}
    PROVE  Bytes(b, n) \cap Reserved(t) = {}
<1>1. CASE t = NoTag \/ Multiple(Grain, Size)
  BY <1>1 DEF Granule, Reserved, Span
<1>2. CASE t # NoTag /\ ~Multiple(Grain, Size)
  <2>1. Span = Size /\ t \in Nat /\ t % Size = 0 /\ b \in Nat
    BY <1>2, GrainPositive DEF Span, Tags, Addr
  <2>2. PICK k \in 1..n : n = k * Size
    BY <1>2 DEF Multiple
  <2> DEFINE q == t \div Size
             m == b \div n
  <2>3. t = q * Size /\ q \in Nat
    BY <2>1, GrainPositive
  <2>4. b = n * m /\ m \in Nat /\ k \in Nat
    BY <2>1, <2>2
  <2> HIDE DEF q, m
  <2>5. b = (m * k) * Size /\ m * k \in Nat
    BY <2>2, <2>4, GrainPositive
  <2> SUFFICES ASSUME NEW x \in Bytes(b, n), x \in Bytes(t, Size) PROVE FALSE
    BY <1>2, <2>1 DEF Reserved
  <2>6. x \in Int /\ b <= x /\ x < b + n /\ t <= x /\ x < t + Size
    BY <2>1, GrainPositive DEF Bytes
  <2>7. (m * k) * Size < (q + 1) * Size
    <3>1. (q + 1) * Size = t + Size
      BY <2>3, GrainPositive
    <3> QED BY <2>1, <2>5, <2>6, <3>1, GrainPositive
  <2>8. (m * k) * Size + Size <= (q + 1) * Size
    BY <2>3, <2>5, <2>7, MultipleBelow, GrainPositive
  <2>9. b <= t
    <3>1. (q + 1) * Size = t + Size
      BY <2>3, GrainPositive
    <3> QED BY <2>1, <2>5, <2>8, <3>1, GrainPositive
  <2>10. t \in Bytes(b, n) /\ t \in Bytes(t, Grain)
    BY <2>1, <2>6, <2>9, GrainPositive DEF Bytes
  <2> QED BY <1>2, <2>10 DEF Granule
<1> QED BY <1>1, <1>2

------------------------------------------------------------------------------
(* The inductive invariant *)

\* An active reservation was not written to by another hart.
ReservationIntact == \A h \in Harts : tag[h] # NoTag => intact[h] = Reserved(tag[h])

LRSCInv == TypeOK /\ SuspendedReservationWatched /\ (StoresMeetGranule => ReservationIntact)

LEMMA WatchType ==
    ASSUME NEW h \in Harts, NEW t \in Tags, NEW d \in Domains
    PROVE  WatchOf(h, t, d) \subseteq [hart : Harts, domain : Domains, low : Addr \ {NoTag}]
<1>1. t \in Addr
  BY GrainPositive DEF Tags, NoTag, Addr
<1> QED BY <1>1 DEF WatchOf

\* The common part of SC and of other stores: K is the set of harts whose
\* reservation the store ends.
LEMMA StoreStep ==
    ASSUME LRSCInv, NEW h \in Harts, current = h, NEW bytes, NEW K, Hit(bytes) \subseteq K,
           tag' = [g \in Harts |-> IF g \in K THEN NoTag ELSE tag[g]],
           watches' = watches \ UNION {WatchOf(g, tag[g], domain[g]) : g \in Hit(bytes)},
           intact' \in [Harts -> SUBSET Addr],
           h \notin K => intact'[h] = intact[h],
           \A g \in Harts \ {h} : intact[g] \cap bytes = {} => intact'[g] = intact[g],
           StoresMeetGranule =>
               \A t \in Tags : bytes \cap Granule(t) = {} => bytes \cap Reserved(t) = {},
           UNCHANGED <<current, domain>>
    PROVE  LRSCInv'
<1>1. TypeOK'
  BY DEF LRSCInv, TypeOK, Tags
<1>2. ASSUME NEW g \in Harts, g # h, tag'[g] # NoTag
      PROVE  /\ \E d \in Domains : WatchOf(g, tag'[g], d) \subseteq watches'
             /\ StoresMeetGranule => intact'[g] = Reserved(tag'[g])
  <2>1. g \notin K /\ tag'[g] = tag[g] /\ g \notin Hit(bytes)
    BY <1>2
  <2>2. PICK d \in Domains : WatchOf(g, tag[g], d) \subseteq watches
    BY <1>2, <2>1 DEF LRSCInv, SuspendedReservationWatched
  <2> DEFINE w == [hart |-> g, domain |-> d, low |-> tag[g]]
  <2>3. w \in watches /\ w.hart = g /\ w.low = tag[g]
    BY <1>2, <2>1, <2>2 DEF WatchOf
  <2>4. \A f : w \in WatchOf(f, tag[f], domain[f]) => f = g
    BY DEF WatchOf
  <2>5. w \in watches'
    BY <2>1, <2>3, <2>4
  <2>6. bytes \cap Granule(tag[g]) = {}
    BY <2>1, <2>3 DEF Hit
  <2>7. ASSUME StoresMeetGranule PROVE intact'[g] = Reserved(tag'[g])
    <3>1. intact[g] = Reserved(tag[g])
      BY <1>2, <2>1, <2>7 DEF LRSCInv, ReservationIntact
    <3>2. bytes \cap Reserved(tag[g]) = {}
      BY <2>6, <2>7 DEF LRSCInv, TypeOK
    <3> QED BY <1>2, <2>1, <3>1, <3>2
  <2> QED BY <1>2, <2>1, <2>5, <2>7 DEF WatchOf
<1>3. SuspendedReservationWatched'
  BY <1>2 DEF SuspendedReservationWatched
<1>4. StoresMeetGranule /\ tag'[h] # NoTag => intact'[h] = Reserved(tag'[h])
  BY DEF LRSCInv, ReservationIntact
<1>5. StoresMeetGranule => ReservationIntact'
  BY <1>2, <1>4 DEF ReservationIntact
<1> QED BY <1>1, <1>3, <1>5 DEF LRSCInv, StoresMeetGranule

LEMMA LRSCInit == Init => LRSCInv
  BY DEF Init, LRSCInv, TypeOK, Tags, SuspendedReservationWatched, ReservationIntact

\* One hart h loses its reservation, or nothing happens to any tag, and no
\* watch is removed.
LEMMA EndOrKeep ==
    ASSUME LRSCInv, NEW h \in Harts,
           \/ /\ tag' = [tag EXCEPT ![h] = NoTag]
              /\ intact' = [intact EXCEPT ![h] = {}]
           \/ tag' = tag /\ intact' = intact,
           domain' \in [Harts -> Domains],
           UNCHANGED <<current, watches>>
    PROVE  LRSCInv'
<1>1. TypeOK'
  BY DEF LRSCInv, TypeOK, Tags
<1>2. \A g \in Harts : tag'[g] # NoTag => tag'[g] = tag[g] /\ intact'[g] = intact[g]
  BY DEF LRSCInv, TypeOK
<1>3. SuspendedReservationWatched'
  BY <1>2 DEF LRSCInv, SuspendedReservationWatched
<1>4. StoresMeetGranule => ReservationIntact'
  BY <1>2 DEF LRSCInv, ReservationIntact
<1> QED BY <1>1, <1>3, <1>4 DEF LRSCInv, StoresMeetGranule

LEMMA LRSCStep == LRSCInv /\ [Next]_vars => LRSCInv'
<1> SUFFICES ASSUME LRSCInv, [Next]_vars PROVE LRSCInv'
  OBVIOUS
<1>0. TypeOK
  BY DEF LRSCInv
<1>1. ASSUME NEW h \in Harts, NEW a \in Addr, LR(h, a) PROVE LRSCInv'
  <2>0. a \in Nat /\ a % Size = 0
    BY <1>1, GrainPositive DEF LR, Addr
  <2>1. TagOf(a) \in Tags /\ Reserved(TagOf(a)) \subseteq Addr
    BY <2>0, TagOfType, ReservedType
  <2>2. tag' = [tag EXCEPT ![h] = TagOf(a)] /\ intact' = [intact EXCEPT ![h] = Reserved(TagOf(a))]
    BY <1>1, <2>0, TagOfAligned DEF LR
  <2>3. current' = h /\ current = h /\ watches' = watches /\ domain' = domain
    BY <1>1 DEF LR
  <2>4. TypeOK'
    BY <1>0, <2>1, <2>2, <2>3 DEF TypeOK
  <2>5. SuspendedReservationWatched'
    BY <1>0, <2>2, <2>3 DEF TypeOK, LRSCInv, SuspendedReservationWatched
  <2>6. StoresMeetGranule => ReservationIntact'
    BY <1>0, <2>2 DEF TypeOK, LRSCInv, ReservationIntact
  <2> QED BY <2>4, <2>5, <2>6 DEF LRSCInv, StoresMeetGranule
<1>2. ASSUME NEW h \in Harts, NEW a \in Addr, SCSuccess(h, a) PROVE LRSCInv'
  <2> DEFINE bytes == Bytes(a, Size)
             K == Hit(bytes) \cup {h}
  <2>1. current = h /\ UNCHANGED <<current, domain>>
    BY <1>2 DEF SCSuccess
  <2>2. /\ tag' = [g \in Harts |-> IF g \in K THEN NoTag ELSE tag[g]]
        /\ watches' = watches \ UNION {WatchOf(g, tag[g], domain[g]) : g \in Hit(bytes)}
        /\ intact' = [g \in Harts |-> IF g = h \/ intact[g] \cap bytes # {} THEN {} ELSE intact[g]]
    BY <1>2 DEF SCSuccess
  <2>3. intact' \in [Harts -> SUBSET Addr]
    BY <1>0, <2>2 DEF TypeOK
  <2>4. \A g \in Harts \ {h} : intact[g] \cap bytes = {} => intact'[g] = intact[g]
    BY <2>2
  <2>5. Hit(bytes) \subseteq K /\ h \in K
    OBVIOUS
  <2>6. \A t \in Tags : bytes \cap Granule(t) = {} => bytes \cap Reserved(t) = {}
    <3>1. a % Size = 0 /\ Multiple(Size, Size) /\ Size \in Nat \ {0}
      BY <1>2, GrainPositive DEF SCSuccess, Multiple
    <3> QED BY <3>1, StoreMeetsGranule
  <2> HIDE DEF bytes, K
  <2> QED BY <2>1, <2>2, <2>3, <2>4, <2>5, <2>6, StoreStep
<1>3. ASSUME NEW h \in Harts, NEW a, SCFail(h, a) PROVE LRSCInv'
  BY <1>0, <1>3, EndOrKeep DEF SCFail, TypeOK
<1>4. ASSUME NEW h \in Harts, NEW a \in Addr, NEW n \in StoreSizes, OtherStore(h, a, n) PROVE LRSCInv'
  <2> DEFINE bytes == Bytes(a, n)
             K == Hit(bytes)
  <2>1. current = h /\ UNCHANGED <<current, domain>>
    BY <1>4 DEF OtherStore
  <2>2. /\ tag' = [g \in Harts |-> IF g \in K THEN NoTag ELSE tag[g]]
        /\ watches' = watches \ UNION {WatchOf(g, tag[g], domain[g]) : g \in Hit(bytes)}
        /\ intact' = [g \in Harts |-> IF g # h /\ intact[g] \cap bytes # {} THEN {} ELSE intact[g]]
    BY <1>4 DEF OtherStore, Store
  <2>3. intact' \in [Harts -> SUBSET Addr]
    BY <1>0, <2>2 DEF TypeOK
  <2>4. StoresMeetGranule =>
            \A t \in Tags : bytes \cap Granule(t) = {} => bytes \cap Reserved(t) = {}
    <3>1. a % n = 0 /\ n \in Nat \ {0}
      BY <1>4, LRSCAssumption DEF OtherStore
    <3> QED BY <3>1, StoreMeetsGranule DEF StoresMeetGranule
  <2> HIDE DEF bytes
  <2>5. /\ \A g \in Harts \ {h} : intact[g] \cap bytes = {} => intact'[g] = intact[g]
        /\ intact'[h] = intact[h]
    BY <2>2
  <2> QED BY <2>1, <2>2, <2>3, <2>4, <2>5, StoreStep
<1>5. ASSUME NEW h \in Harts, NEW d \in Domains, Trap(h, d) \/ CSRWrite(h, d) PROVE LRSCInv'
  BY <1>0, <1>5, EndOrKeep DEF Trap, CSRWrite, TypeOK
<1>6. ASSUME NEW h \in Harts, NEW d \in Domains, Reset(h, d) \/ NMI(h, d) PROVE LRSCInv'
  BY <1>0, <1>6, EndOrKeep DEF Reset, NMI, TypeOK
<1>7. ASSUME NEW h \in Harts, Suspend(h) PROVE LRSCInv'
  <2>1. current = h /\ current' = NoHart /\ UNCHANGED <<tag, domain, intact>>
    BY <1>7 DEF Suspend
  <2>2. watches' = watches \cup WatchOf(h, tag[h], domain[h])
    BY <1>7 DEF Suspend
  <2>3. TypeOK'
    <3>1. WatchOf(h, tag[h], domain[h]) \subseteq [hart : Harts, domain : Domains, low : Addr \ {NoTag}]
      BY <1>0, WatchType DEF TypeOK
    <3> QED BY <1>0, <2>1, <2>2, <3>1 DEF TypeOK
  <2>4. SuspendedReservationWatched'
    BY <1>0, <2>1, <2>2 DEF LRSCInv, SuspendedReservationWatched, TypeOK
  <2> QED BY <2>1, <2>3, <2>4 DEF LRSCInv, ReservationIntact, StoresMeetGranule
<1>8. ASSUME NEW h \in Harts, Run(h) PROVE LRSCInv'
  <2>1. current' = h /\ current = NoHart /\ UNCHANGED <<tag, domain, intact>>
    BY <1>8 DEF Run
  <2>2. watches' = watches \ WatchOf(h, tag[h], domain[h])
    BY <1>8 DEF Run
  <2>3. ASSUME NEW g \in Harts, g # h, NEW d, WatchOf(g, tag[g], d) \subseteq watches
        PROVE  WatchOf(g, tag[g], d) \subseteq watches'
    BY <2>2, <2>3 DEF WatchOf
  <2>4. SuspendedReservationWatched'
    BY <2>1, <2>3, LRSCAssumption DEF LRSCInv, SuspendedReservationWatched
  <2> QED BY <1>0, <2>1, <2>2, <2>4 DEF LRSCInv, TypeOK, ReservationIntact, StoresMeetGranule
<1>9. ASSUME NEW t \in [Harts -> Tags], NEW d \in [Harts -> Domains], Restore(t, d) PROVE LRSCInv'
  <2>1. current' = current /\ tag' = t /\ domain' = d /\ intact' = [h \in Harts |-> Reserved(t[h])]
    BY <1>9 DEF Restore
  <2>2. watches' = (watches \ AllWatches(tag, domain)) \cup AllWatches(t, d)
    BY <1>9 DEF Restore
  <2>3. AllWatches(t, d) \subseteq [hart : Harts, domain : Domains, low : Addr \ {NoTag}]
    BY WatchType DEF AllWatches
  <2>4. TypeOK'
    BY <1>0, <2>1, <2>2, <2>3, ReservedType DEF TypeOK
  <2>5. SuspendedReservationWatched'
    BY <2>1, <2>2 DEF SuspendedReservationWatched, AllWatches
  <2> QED BY <2>1, <2>4, <2>5 DEF LRSCInv, ReservationIntact, StoresMeetGranule
<1>10. CASE UNCHANGED vars
  BY <1>10 DEF vars, LRSCInv, TypeOK, SuspendedReservationWatched, ReservationIntact, StoresMeetGranule
<1> QED BY <1>1, <1>2, <1>3, <1>4, <1>5, <1>6, <1>7, <1>8, <1>9, <1>10 DEF Next, Instruction

LEMMA LRSCInvariant == Spec => []LRSCInv
  BY LRSCInit, LRSCStep, PTL DEF Spec

\* Whatever context switches, resets, NMIs and restores come between, the
\* reservation of a hart that is not running has its write callback installed.
THEOREM SuspendedWatched == Spec => []SuspendedReservationWatched
  BY LRSCInvariant, PTL DEF LRSCInv

\* An SC that succeeds stores to bytes that no other hart has written since the
\* matching LR, for any number of harts.  With a grain of at least the access
\* size the other stores may be of any size.  With a smaller one, the default
\* of 1 included, they must not be narrower than the access.
THEOREM SCAtomicity ==
    ASSUME StoresMeetGranule
    PROVE  Spec => []SCIsAtomic
<1>1. LRSCInv => SCIsAtomic
  <2> SUFFICES ASSUME LRSCInv, NEW h \in Harts, NEW a \in Addr, a % Size = 0, tag[h] = TagOf(a)
               PROVE  Bytes(a, Size) \subseteq intact[h]
    BY DEF SCIsAtomic
  <2>1. intact[h] = Reserved(TagOf(a))
    BY TagOfType DEF LRSCInv, ReservationIntact
  <2> QED BY <2>1, AccessReserved
<1> QED BY <1>1, LRSCInvariant, PTL

==============================================================================
