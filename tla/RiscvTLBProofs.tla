--------------------------- MODULE RiscvTLBProofs ----------------------------
(***************************************************************************)
(* Theorems about RiscvTLB, for every number of levels and entries of a    *)
(* page table, every set of tables, pages and ASIDs, and every program.    *)
(***************************************************************************)
EXTENDS RiscvTLB, IterationTheorems

------------------------------------------------------------------------------
(* Arithmetic of pages *)

LEMMA PageSizes ==
    ASSUME NEW i \in Nat
    PROVE  PageSize(i) \in Nat /\ PageSize(i) >= 1
<1>1. VPNShift * i \in Nat
  BY TLBAssumption
<1> QED BY <1>1, PowerOfTwo DEF PageSize

LEMMA Widths == Width \in Nat /\ Width >= 1
  BY TLBAssumption, PowerOfTwo DEF Width

LEMMA VPNType ==
    ASSUME NEW va \in Nat, NEW i \in Nat
    PROVE  VPN(va, i) \in Indices
<1>1. va \div PageSize(i) \in Int
  BY PageSizes
<1> QED BY <1>1, Widths DEF VPN, Indices

\* The page of level i that holds va holds x.
SamePage(va, x, i) ==
    va - (va % PageSize(i)) <= x /\ x < (va - (va % PageSize(i))) + PageSize(i)

\* Two addresses of one page have the same indices above its level.
LEMMA SamePageIndices ==
    ASSUME NEW va \in Nat, NEW x \in Nat, NEW i \in Nat, NEW j \in Nat, i <= j,
           SamePage(va, x, i)
    PROVE  /\ x \div PageSize(j) = va \div PageSize(j)
           /\ VPN(x, j) = VPN(va, j)
           /\ x - (x % PageSize(i)) = va - (va % PageSize(i))
<1> DEFINE P == PageSize(i)
           Q == 2^(VPNShift * (j - i))
           u == va \div P
           r == va % P
           v == x \div P
           s == x % P
<1>1. P \in Nat /\ P >= 1
  BY PageSizes
<1>2. Q \in Nat /\ Q >= 1
  <2>1. VPNShift * (j - i) \in Nat
    BY TLBAssumption
  <2> QED BY <2>1, PowerOfTwo
<1>3. PageSize(j) = P * Q
  <2>1. VPNShift * i \in Nat /\ VPNShift * (j - i) \in Nat
    BY TLBAssumption
  <2>2. VPNShift * j = VPNShift * i + VPNShift * (j - i)
    BY TLBAssumption
  <2> QED BY <2>1, <2>2, PowerSum DEF PageSize
<1>4. va - r <= x /\ x < (va - r) + P
  BY DEF SamePage
<1> HIDE DEF P, Q
<1>5. u \in Int /\ r \in 0..(P-1) /\ va = P * u + r /\ v \in Int /\ s \in 0..(P-1) /\ x = P * v + s
  BY <1>1
<1> HIDE DEF u, r, s, v
<1>6. P * u \in Int /\ P * u <= x /\ x < P * u + P
  BY <1>1, <1>4, <1>5
<1>7. x \div P = u
  BY <1>1, <1>5, <1>6, DivUnique
<1>8. v = u
  BY <1>7 DEF v
<1>9. x - s = va - r
  BY <1>1, <1>5, <1>8
<1>10. x \div PageSize(j) = va \div PageSize(j)
  <2>1. x \div (P * Q) = (x \div P) \div Q /\ va \div (P * Q) = (va \div P) \div Q
    <3>1. P \in Nat \ {0} /\ Q \in Nat \ {0}
      BY <1>1, <1>2
    <3> QED BY <3>1, NestedDiv, Zenon
  <2>2. x \div P = va \div P
    BY <1>8 DEF u, v
  <2>3. x \div PageSize(j) = (x \div P) \div Q /\ va \div PageSize(j) = (va \div P) \div Q
    BY <1>3, <2>1, Zenon
  <2> QED BY <2>2, <2>3, Zenon
<1>11. VPN(x, j) = VPN(va, j)
  BY <1>10, Zenon DEF VPN
<1> QED BY <1>9, <1>10, <1>11 DEF P, r, s

------------------------------------------------------------------------------
(* The page table walk *)

PageTables == [Tables -> [Indices -> Pte]]
Found == [err : {"none"}, t : Tables, i : 0..(Levels-1), pte : Pte]
WalkErrors == {WalkError(e) : e \in {"READ", "V0", "R0W1", "LEAF", "ALIGN", "VAEXTEND"}}
Results == Found \cup WalkErrors

\* One iteration of the walk: level i, table t; next gives the rest of the walk.
Visit(p, va, i, t, next) ==
    IF t \notin Tables THEN WalkError("READ")
    ELSE LET e == p[t][VPN(va, i)] IN
         IF ~e.V THEN WalkError("V0")
         ELSE IF "W" \in e.priv /\ "R" \notin e.priv THEN WalkError("R0W1")
         ELSE IF e.priv # {} THEN [err |-> "none", t |-> t, i |-> i, pte |-> e]
         ELSE IF i = 0 THEN WalkError("LEAF")
         ELSE next[e.ppn]

LEMMA VisitType ==
    ASSUME NEW p \in PageTables, NEW va \in Nat, NEW i \in 0..(Levels-1), NEW t \in Nat,
           NEW next, i # 0 => next \in [Nat -> Results]
    PROVE  Visit(p, va, i, t, next) \in Results
<1> DEFINE e == p[t][VPN(va, i)]
<1>0. \A x \in {"READ", "V0", "R0W1", "LEAF"} : WalkError(x) \in Results
  BY DEF Results, WalkErrors
<1>1. CASE t \notin Tables
  BY <1>0, <1>1 DEF Visit
<1>2. CASE t \in Tables
  <2>1. e \in Pte
    BY <1>2, VPNType DEF PageTables
  <2>2. \/ Visit(p, va, i, t, next) \in {WalkError(x) : x \in {"V0", "R0W1", "LEAF"}}
        \/ Visit(p, va, i, t, next) = [err |-> "none", t |-> t, i |-> i, pte |-> e]
        \/ i # 0 /\ Visit(p, va, i, t, next) = next[e.ppn]
    BY <1>2 DEF Visit
  <2> HIDE DEF e
  <2>3. [err |-> "none", t |-> t, i |-> i, pte |-> e] \in Results
    BY <1>2, <2>1 DEF Results, Found
  <2>4. i # 0 => next[e.ppn] \in Results
    BY <2>1 DEF Pte
  <2> QED BY <1>0, <2>2, <2>3, <2>4
<1> QED BY <1>1, <1>2

LEMMA WalkSteps ==
    ASSUME NEW p \in PageTables, NEW va \in Nat
    PROVE  /\ WalkFrom(p, va) \in [0..(Levels-1) -> [Nat -> Results]]
           /\ \A i \in 0..(Levels-1), t \in Nat :
                WalkFrom(p, va)[i][t] = Visit(p, va, i, t, WalkFrom(p, va)[i-1])
<1> DEFINE n == Levels - 1
           S == [Nat -> Results]
           s == [t \in Nat |-> Visit(p, va, 0, t, {})]
           F == [k \in 1..n |-> [g \in S |-> [t \in Nat |-> Visit(p, va, k, t, g)]]]
           walk[i \in 0..n] == [t \in Nat |-> Visit(p, va, i, t, walk[i-1])]
<1>1. n \in Nat
  BY TLBAssumption
<1>2. s \in S
  BY <1>1, VisitType
<1>3. F \in Bodies(n, S)
  <2>1. ASSUME NEW k \in 1..n, NEW g \in S PROVE [t \in Nat |-> Visit(p, va, k, t, g)] \in S
    <3>1. k \in 0..(Levels-1)
      OBVIOUS
    <3> QED BY <3>1, VisitType
  <2> QED BY <2>1 DEF Bodies
<1>4. WalkFrom(p, va) = walk
  BY Zenon DEF WalkFrom, Visit
<1> HIDE DEF s, n
<1>5. PICK f : IsLoop(f, n, S, s, F)
  <2> HIDE DEF F, S
  <2> QED BY <1>1, <1>2, <1>3, LoopExists
<1>6. f = [i \in 0..n |-> [t \in Nat |-> Visit(p, va, i, t, f[i-1])]]
  <2>1. ASSUME NEW k \in 0..n PROVE f[k] = [t \in Nat |-> Visit(p, va, k, t, f[k-1])]
    <3>1. CASE k = 0
      <4>1. f[k] = s
        BY <1>5, <3>1 DEF IsLoop
      <4>2. \A t \in Nat : Visit(p, va, 0, t, {}) = Visit(p, va, 0, t, f[0-1])
        BY DEF Visit
      <4> QED BY <3>1, <4>1, <4>2 DEF s
    <3>2. CASE k # 0
      <4>1. k \in 1..n /\ k - 1 \in 0..n
        BY <1>1, <3>2
      <4>2. f[k] = F[k][f[k-1]] /\ f[k-1] \in S
        BY <1>5, <4>1 DEF IsLoop
      <4> QED BY <4>1, <4>2
    <3> QED BY <3>1, <3>2
  <2> QED BY <1>5, <2>1 DEF IsLoop
<1>7. walk = [i \in 0..n |-> [t \in Nat |-> Visit(p, va, i, t, walk[i-1])]]
  BY <1>6
<1> HIDE DEF F, walk
<1>8. ASSUME NEW i \in 0..n PROVE walk[i] = [t \in Nat |-> Visit(p, va, i, t, walk[i-1])]
  BY <1>7, Zenon
<1>9. \A i \in 0..n : walk[i] \in S
  <2>1. walk[0] \in S
    <3>1. 0 \in 0..n
      BY <1>1
    <3>2. walk[0] = [t \in Nat |-> Visit(p, va, 0, t, walk[0-1])]
      BY <1>8, <3>1
    <3>3. ASSUME NEW t \in Nat PROVE Visit(p, va, 0, t, walk[0-1]) \in Results
      BY <3>1, VisitType DEF n
    <3> QED BY <3>2, <3>3
  <2>2. ASSUME NEW k \in 1..n, walk[k-1] \in S PROVE walk[k] \in S
    <3>1. k \in 0..n
      BY <1>1
    <3>2. walk[k] = [t \in Nat |-> Visit(p, va, k, t, walk[k-1])]
      BY <1>8, <3>1
    <3>3. ASSUME NEW t \in Nat PROVE Visit(p, va, k, t, walk[k-1]) \in Results
      BY <2>2, <3>1, VisitType DEF n
    <3> QED BY <3>2, <3>3
  <2> HIDE DEF S
  <2> QED BY <1>1, <2>1, <2>2, LoopType
<1>10. walk \in [0..n -> S]
  BY <1>7, <1>9
<1>11. \A i \in 0..n, t \in Nat : walk[i][t] = Visit(p, va, i, t, walk[i-1])
  BY <1>8
<1> QED BY <1>4, <1>10, <1>11 DEF n

\* An iteration that does not fail ends at a leaf or goes down one level.
LEMMA VisitCases ==
    ASSUME NEW p, NEW va, NEW i, NEW t, NEW next, Visit(p, va, i, t, next).err = "none"
    PROVE  /\ t \in Tables /\ p[t][VPN(va, i)].V
           /\ \/ /\ p[t][VPN(va, i)].priv # {}
                 /\ ~("W" \in p[t][VPN(va, i)].priv /\ "R" \notin p[t][VPN(va, i)].priv)
                 /\ Visit(p, va, i, t, next) =
                      [err |-> "none", t |-> t, i |-> i, pte |-> p[t][VPN(va, i)]]
              \/ /\ p[t][VPN(va, i)].priv = {} /\ i # 0
                 /\ Visit(p, va, i, t, next) = next[p[t][VPN(va, i)].ppn]
<1>1. \A x \in {"READ", "V0", "R0W1", "LEAF"} : WalkError(x).err # "none"
  BY DEF WalkError
<1>2. t \in Tables
  BY <1>1 DEF Visit
<1> QED BY <1>1, <1>2 DEF Visit

\* Walk result w is a leaf, found at level i or below.
Reached(p, va, w, i) ==
    /\ w \in Found /\ w.i <= i /\ w.pte = p[w.t][VPN(va, w.i)]
    /\ w.pte.V /\ w.pte.priv # {} /\ ~("W" \in w.pte.priv /\ "R" \notin w.pte.priv)

LEMMA WalkReaches ==
    ASSUME NEW p \in PageTables, NEW va \in Nat, NEW i \in 0..(Levels-1), NEW t \in Nat,
           WalkFrom(p, va)[i][t].err = "none"
    PROVE  Reached(p, va, WalkFrom(p, va)[i][t], i)
<1> DEFINE n == Levels - 1
           W == WalkFrom(p, va)
           T == {k \in 0..n : \A u \in Nat : W[k][u].err = "none" => Reached(p, va, W[k][u], k)}
<1>1. n \in Nat
  BY TLBAssumption
<1>2. \A k \in 0..n, u \in Nat : W[k][u] = Visit(p, va, k, u, W[k-1])
  BY WalkSteps
<1> HIDE DEF W
<1>3. ASSUME NEW k \in 0..n, NEW u \in Nat, W[k][u].err = "none",
             k # 0 => k - 1 \in T
      PROVE  Reached(p, va, W[k][u], k)
  <2> DEFINE e == p[u][VPN(va, k)]
  <2>1. /\ u \in Tables /\ e.V
        /\ \/ e.priv # {} /\ ~("W" \in e.priv /\ "R" \notin e.priv)
              /\ W[k][u] = [err |-> "none", t |-> u, i |-> k, pte |-> e]
           \/ e.priv = {} /\ k # 0 /\ W[k][u] = W[k-1][e.ppn]
    <3>1. Visit(p, va, k, u, W[k-1]).err = "none"
      BY <1>2, <1>3
    <3> QED BY <1>2, <3>1, VisitCases
  <2>2. e \in Pte
    <3>1. VPN(va, k) \in Indices
      BY <1>1, VPNType
    <3> QED BY <2>1, <3>1 DEF PageTables
  <2>3. CASE e.priv # {}
    <3> DEFINE w == [err |-> "none", t |-> u, i |-> k, pte |-> e]
    <3>1. w.t = u /\ w.i = k /\ w.pte = e /\ w \in Found
      BY <2>1, <2>2 DEF Found
    <3>2. W[k][u] = w
      BY <2>1, <2>3
    <3> HIDE DEF w
    <3>3. Reached(p, va, w, k)
      BY <1>1, <2>1, <2>3, <3>1 DEF Reached
    <3> QED BY <3>2, <3>3
  <2>4. CASE e.priv = {}
    <3>1. k # 0 /\ W[k][u] = W[k-1][e.ppn] /\ e.ppn \in Nat
      BY <2>1, <2>2, <2>4 DEF Pte
    <3> HIDE DEF e
    <3>2. Reached(p, va, W[k][u], k-1)
      BY <1>3, <3>1
    <3>3. W[k][u] \in Found /\ W[k][u].i \in Int /\ W[k][u].i <= k
      BY <1>1, <3>2 DEF Reached, Found
    <3> QED BY <3>2, <3>3 DEF Reached
  <2> QED BY <2>3, <2>4
<1>4. 0 \in T
  BY <1>1, <1>3
<1>5. ASSUME NEW k \in 1..n, k - 1 \in T PROVE k \in T
  BY <1>1, <1>3, <1>5
<1> HIDE DEF T
<1>6. \A k \in 0..n : k \in T
  BY <1>1, <1>4, <1>5, LoopInduction
<1> QED BY <1>6 DEF T, W

\* Page tables p after a walk wrote new for leaf w of va.
WriteBack(p, va, w, new) == [p EXCEPT ![w.t][VPN(va, w.i)] = new]

\* A walk that found leaf w sets its A and D bits.
Updated(w, new) == new \in Pte /\ new.V = w.pte.V /\ new.priv = w.pte.priv /\ new.ppn = w.pte.ppn

\* After the write back, a walk for any page x that leaf w maps finds the
\* leaf again, as it was written.  Tables may refer to each other in any way.
LEMMA WalkKept ==
    ASSUME NEW p \in PageTables, NEW va \in Nat, NEW x \in Nat, NEW w, NEW new,
           NEW i \in 0..(Levels-1), NEW t \in Nat,
           WalkFrom(p, va)[i][t] = w, w.err = "none", Updated(w, new), SamePage(va, x, w.i)
    PROVE  /\ WriteBack(p, va, w, new) \in PageTables
           /\ WalkFrom(WriteBack(p, va, w, new), x)[i][t] =
                [err |-> "none", t |-> w.t, i |-> w.i, pte |-> new]
<1> DEFINE n == Levels - 1
           q == WriteBack(p, va, w, new)
           z == [err |-> "none", t |-> w.t, i |-> w.i, pte |-> new]
           W == WalkFrom(p, va)
           X == WalkFrom(q, x)
           T == {k \in 0..n : \A u \in Nat : W[k][u] = w => X[k][u] = z}
<1>1. n \in Nat
  BY TLBAssumption
<1>2. \A k \in 0..n, u \in Nat : W[k][u] = Visit(p, va, k, u, W[k-1])
  BY WalkSteps
<1>3. Reached(p, va, w, i) /\ w.t \in Tables /\ w.i \in 0..n
  BY WalkReaches DEF Reached, Found
<1>4. VPN(va, w.i) \in Indices
  BY <1>3, VPNType
<1>5. /\ q \in PageTables
      /\ q[w.t][VPN(va, w.i)] = new
      /\ \A u \in Tables, v \in Indices : <<u, v>> # <<w.t, VPN(va, w.i)>> => q[u][v] = p[u][v]
  BY <1>3, <1>4 DEF WriteBack, PageTables, Updated
<1> HIDE DEF q
<1>6. \A k \in 0..n, u \in Nat : X[k][u] = Visit(q, x, k, u, X[k-1])
  BY <1>5, WalkSteps
<1>7. ASSUME NEW k \in 0..n, NEW u \in Nat, W[k][u] = w PROVE w.i <= k
  BY <1>7, WalkReaches DEF Reached
<1> HIDE DEF W, X, z
<1>8. ASSUME NEW k \in 0..n, NEW u \in Nat, W[k][u] = w, k # 0 => k - 1 \in T
      PROVE  X[k][u] = z
  <2> DEFINE v == VPN(va, k)
             e == p[u][v]
  <2>1. /\ u \in Tables /\ e.V
        /\ \/ e.priv # {} /\ ~("W" \in e.priv /\ "R" \notin e.priv)
              /\ w = [err |-> "none", t |-> u, i |-> k, pte |-> e]
           \/ e.priv = {} /\ k # 0 /\ w = W[k-1][e.ppn]
    <3>1. Visit(p, va, k, u, W[k-1]).err = "none" /\ Visit(p, va, k, u, W[k-1]) = w
      BY <1>2, <1>8
    <3> QED BY <3>1, VisitCases
  <2>2. VPN(x, k) = v
    <3>1. w.i <= k /\ w.i \in Nat /\ k \in Nat
      BY <1>1, <1>3, <1>7, <1>8
    <3> QED BY <3>1, SamePageIndices
  <2>3. v \in Indices /\ e \in Pte
    <3>1. VPN(va, k) \in Indices
      BY <1>1, VPNType
    <3> QED BY <2>1, <3>1 DEF PageTables
  <2>4. CASE e.priv # {}
    <3>1. w.t = u /\ w.i = k /\ w.pte = e
      BY <2>1, <2>4
    <3>2. q[u][v] = new /\ new.V /\ new.priv = e.priv
      BY <1>5, <2>1, <3>1 DEF Updated
    <3>3. Visit(q, x, k, u, X[k-1]) = [err |-> "none", t |-> u, i |-> k, pte |-> new]
      BY <2>1, <2>2, <2>4, <3>2 DEF Visit
    <3> QED BY <1>6, <3>1, <3>3 DEF z
  <2>5. CASE e.priv = {}
    <3>1. k # 0 /\ w = W[k-1][e.ppn] /\ e.ppn \in Nat
      BY <2>1, <2>3, <2>5 DEF Pte
    <3>2. q[u][v] = e
      <4>1. <<u, v>> # <<w.t, VPN(va, w.i)>>
        <5>1. p[w.t][VPN(va, w.i)].priv # {}
          BY <1>3 DEF Reached
        <5> QED BY <2>5, <5>1
      <4> QED BY <1>5, <2>1, <2>3, <4>1
    <3> HIDE DEF e
    <3>3. X[k-1][e.ppn] = z
      BY <1>8, <3>1
    <3>4. Visit(q, x, k, u, X[k-1]) = X[k-1][e.ppn]
      BY <2>1, <2>2, <2>5, <3>1, <3>2 DEF Visit
    <3> QED BY <1>6, <3>3, <3>4
  <2> QED BY <2>4, <2>5
<1>9. 0 \in T
  BY <1>1, <1>8
<1>10. ASSUME NEW k \in 1..n, k - 1 \in T PROVE k \in T
  BY <1>1, <1>8, <1>10
<1> HIDE DEF T
<1>11. \A k \in 0..n : k \in T
  BY <1>1, <1>9, <1>10, LoopInduction
<1>12. X[i][t] = z
  BY <1>11 DEF T, W
<1> QED BY <1>5, <1>12 DEF q, X, z

LEMMA FindLeafCases ==
    ASSUME NEW p, NEW root, NEW va, FindLeaf(p, root, va).err = "none"
    PROVE  /\ ~(va >= PageSize(Levels))
           /\ FindLeaf(p, root, va) = WalkFrom(p, va)[Levels-1][root]
           /\ ~(FindLeaf(p, root, va).pte.ppn % PageSize(FindLeaf(p, root, va).i) # 0)
<1> DEFINE w == WalkFrom(p, va)[Levels-1][root]
<1>1. WalkError("VAEXTEND").err # "none" /\ WalkError("ALIGN").err # "none"
  BY DEF WalkError
<1>2. ~(va >= PageSize(Levels))
  BY <1>1 DEF FindLeaf
<1>3. FindLeaf(p, root, va) =
        IF w.err = "none" /\ w.pte.ppn % PageSize(w.i) # 0 THEN WalkError("ALIGN") ELSE w
  BY <1>2 DEF FindLeaf
<1> HIDE DEF w
<1>4. FindLeaf(p, root, va) = w /\ ~(w.err = "none" /\ w.pte.ppn % PageSize(w.i) # 0)
  BY <1>1, <1>3
<1> QED BY <1>2, <1>4 DEF w

LEMMA FindLeafType ==
    ASSUME NEW p \in PageTables, NEW root \in Nat, NEW va \in Nat,
           FindLeaf(p, root, va).err = "none"
    PROVE  FindLeaf(p, root, va) \in Found
<1>1. Levels - 1 \in 0..(Levels-1)
  BY TLBAssumption
<1> QED BY <1>1, FindLeafCases, WalkReaches DEF Reached

\* What WalkKept says, for the whole lookup.
LEMMA FindLeafKept ==
    ASSUME NEW p \in PageTables, NEW root \in Nat, NEW va \in Nat, NEW x \in Nat, NEW w, NEW new,
           FindLeaf(p, root, va) = w, w.err = "none", Updated(w, new), SamePage(va, x, w.i)
    PROVE  /\ WriteBack(p, va, w, new) \in PageTables
           /\ FindLeaf(WriteBack(p, va, w, new), root, x) =
                [err |-> "none", t |-> w.t, i |-> w.i, pte |-> new]
<1> DEFINE q == WriteBack(p, va, w, new)
           z == [err |-> "none", t |-> w.t, i |-> w.i, pte |-> new]
           L == PageSize(Levels)
<1>1. Levels - 1 \in 0..(Levels-1) /\ Levels \in Nat
  BY TLBAssumption
<1>2. ~(va >= L) /\ w = WalkFrom(p, va)[Levels-1][root] /\ ~(w.pte.ppn % PageSize(w.i) # 0)
  BY FindLeafCases
<1>3. w \in Found /\ w.i \in Nat /\ w.i <= Levels
  BY <1>1, FindLeafType DEF Found
<1>4. q \in PageTables /\ WalkFrom(q, x)[Levels-1][root] = z
  BY <1>1, <1>2, WalkKept
<1>5. L \in Nat /\ L >= 1
  BY <1>1, PageSizes
<1>6. x \div L = va \div L
  BY <1>1, <1>3, SamePageIndices
<1> HIDE DEF L
<1>7. va \div L = 0
  <2>1. L * 0 <= va /\ va < L * 0 + L
    BY <1>2, <1>5
  <2> QED BY <1>5, <2>1, DivUnique
<1>8. ~(x >= L)
  <2>1. x = L * (x \div L) + (x % L) /\ x % L \in 0..(L-1)
    BY <1>5
  <2>2. x = x % L
    BY <1>5, <1>6, <1>7, <2>1
  <2> QED BY <1>5, <2>1, <2>2
<1>9. z.err = "none" /\ z.i = w.i /\ z.pte = new /\ new.ppn = w.pte.ppn
  BY DEF Updated
<1>10. FindLeaf(q, root, x) = z
  <2> HIDE DEF q, z
  <2>1. ~(z.err = "none" /\ z.pte.ppn % PageSize(z.i) # 0)
    BY <1>2, <1>9
  <2>2. ~(x >= PageSize(Levels))
    BY <1>8 DEF L
  <2> QED BY <1>4, <2>1, <2>2 DEF FindLeaf
<1> QED BY <1>4, <1>10 DEF q, z

------------------------------------------------------------------------------
(* The type invariant *)

SimASIDs == [asid : Nat, mxr : BOOLEAN, sum : BOOLEAN]
Leaves == [low : Nat, size : Nat, ppn : Nat, priv : SUBSET Access,
           U : BOOLEAN, G : BOOLEAN, A : BOOLEAN, D : BOOLEAN]
TLBEntries == [leaf : Leaves, mapped : SUBSET VMModes, simASID : SimASIDs]
Keys == [mask : [asid : BOOLEAN, sum : BOOLEAN], asid : SimASIDs]
Mappings == [key : Keys, ppn : Nat, priv : SUBSET Access]
Domains == [VMModes -> [VAs -> SUBSET Mappings]]

TypeOK ==
    /\ config \in Configs
    /\ pt \in PageTables
    /\ satp \in Satps
    /\ mxr \in BOOLEAN /\ sum \in BOOLEAN
    /\ tlb \subseteq TLBEntries
    /\ maps \in Domains
    /\ simASID \in SimASIDs
    /\ recent \subseteq Nat \X VAs \X Leaves

LEMMA ConfigType ==
    ASSUME config \in Configs
    PROVE  /\ VAs \subseteq Nat /\ Tables \subseteq Nat
           /\ HasASID \in BOOLEAN /\ UserExec \in BOOLEAN
           /\ \A s \in Satps : s.asid \in Nat /\ s.root \in Nat
           /\ \A w \in PteWrites : w[1] \in Tables /\ w[2] \in Indices /\ w[3] \in Pte
  BY TLBAssumption DEF VAs, HasASID, UserExec, Satps, PteWrites

LEMMA LeafType ==
    ASSUME config \in Configs, NEW w \in Found, NEW va \in Nat
    PROVE  /\ Leaf(w, va) \in Leaves
           /\ Leaf(w, va).low = va - (va % PageSize(w.i)) /\ Leaf(w, va).size = PageSize(w.i)
           /\ Leaf(w, va).D = w.pte.D
<1>1. w.i \in Nat /\ w.pte \in Pte
  BY DEF Found
<1>2. PageSize(w.i) \in Nat /\ PageSize(w.i) >= 1
  BY <1>1, PageSizes
<1> DEFINE P == PageSize(w.i)
<1> HIDE DEF P
<1>3. va % P \in 0..(P-1) /\ va % P <= va
  BY <1>2 DEF P
<1>4. va - (va % P) \in Nat
  BY <1>3, <1>2 DEF P
<1>5. (w.pte.G \/ ~HasASID) \in BOOLEAN
  BY <1>1, ConfigType DEF Pte
<1> QED BY <1>1, <1>2, <1>4, <1>5 DEF P, Leaf, Leaves, Pte

LEMMA EntryPrivType ==
    ASSUME NEW m, NEW e, NEW x, NEW s, e.priv \subseteq Access
    PROVE  EntryPriv(m, e, x, s) \subseteq Access
  BY DEF EntryPriv, Access

\* Two addresses of one page have the same leaf.
LEMMA SameLeaf ==
    ASSUME NEW w \in Found, NEW va \in Nat, NEW x \in Nat, SamePage(va, x, w.i)
    PROVE  Leaf(w, x) = Leaf(w, va)
<1>1. w.i \in Nat /\ w.i <= w.i
  BY DEF Found
<1>2. x - (x % PageSize(w.i)) = va - (va % PageSize(w.i))
  BY <1>1, SamePageIndices
<1> QED BY <1>2 DEF Leaf

LEMMA KeyType ==
    ASSUME NEW e \in TLBEntries, NEW m
    PROVE  Key(e, m) \in Keys
<1>1. e.leaf \in Leaves /\ e.simASID \in SimASIDs /\ e.leaf.G \in BOOLEAN /\ e.leaf.U \in BOOLEAN
  BY DEF TLBEntries, Leaves
<1>2. EntryASIDMask(e.leaf, m) \in [asid : BOOLEAN, sum : BOOLEAN]
  BY <1>1 DEF EntryASIDMask
<1>3. EffectiveASID(e.leaf, m, e.simASID) \in SimASIDs
  BY <1>1, <1>2 DEF EffectiveASID, MaskASID, SimASIDs
<1> QED BY <1>2, <1>3 DEF Key, Keys

------------------------------------------------------------------------------
(* TLB entries and their mappings *)

\* The mapping k of page va in mode m is one that entry e made.
Owns(e, m, va, k) ==
    /\ Covers(e, va) /\ m \in e.mapped /\ Key(e, m) = k.key
    /\ e.leaf.ppn + (va - e.leaf.low) = k.ppn
    /\ "W" \in k.priv => e.leaf.D
    /\ k.priv \subseteq EntryPriv(m, e.leaf, e.simASID.mxr, e.simASID.sum)

Owned(es, ps) ==
    \A m \in VMModes, va \in VAs : \A k \in ps[m][va] : \E e \in es : Owns(e, m, va, k)

\* The translation of va by leaf l under an ASID is one in r.
Witnessed(l, asid, va, r) == \E t \in r : t[2] = va /\ t[3] = l /\ (l.G \/ t[1] = asid)

Backed(es, r) ==
    \A e \in es, va \in VAs : Covers(e, va) => Witnessed(e.leaf, e.simASID.asid, va, r)

\* TLB and mappings s, against the translations r.
Consistent(s, r) ==
    /\ s \in [tlb : SUBSET TLBEntries, maps : Domains]
    /\ Owned(s.tlb, s.maps)
    /\ Backed(s.tlb, r)

LEMMA DeleteSound ==
    ASSUME NEW s, NEW r, NEW es, Consistent(s, r)
    PROVE  Consistent(DeleteEntries(s, es), r)
<1> DEFINE ps == DeleteMappings(s.maps, es, VMModes)
<1>1. s.tlb \subseteq TLBEntries /\ s.maps \in Domains /\ Owned(s.tlb, s.maps) /\ Backed(s.tlb, r)
  BY DEF Consistent
<1>2. \A m \in VMModes, va \in VAs : ps[m][va] = {k \in s.maps[m][va] : ~\E e \in es :
            m \in VMModes \cap e.mapped /\ Covers(e, va) /\ k.key = Key(e, m)}
  BY DEF DeleteMappings
<1>3. ps \in Domains
  BY <1>1 DEF Domains, DeleteMappings
<1> HIDE DEF ps
<1>4. ASSUME NEW m \in VMModes, NEW va \in VAs, NEW k \in ps[m][va]
      PROVE  \E e \in s.tlb \ es : Owns(e, m, va, k)
  <2>1. k \in s.maps[m][va] /\ ~\E e \in es :
            m \in VMModes \cap e.mapped /\ Covers(e, va) /\ k.key = Key(e, m)
    BY <1>2
  <2>2. PICK e \in s.tlb : Owns(e, m, va, k)
    BY <1>1, <2>1 DEF Owned
  <2>3. e \notin es
    BY <2>1, <2>2 DEF Owns
  <2> QED BY <2>2, <2>3
<1>5. Owned(s.tlb \ es, ps) /\ Backed(s.tlb \ es, r)
  BY <1>1, <1>4 DEF Owned, Backed
<1> DEFINE d == [tlb |-> s.tlb \ es, maps |-> ps]
<1>6. DeleteEntries(s, es) = d /\ d.tlb = s.tlb \ es /\ d.maps = ps
  BY DEF DeleteEntries, ps
<1>7. d \in [tlb : SUBSET TLBEntries, maps : Domains]
  BY <1>1, <1>3
<1> HIDE DEF d
<1> QED BY <1>5, <1>6, <1>7 DEF Consistent

\* What a mapping grants depends on the simulated ASID only through its
\* effective ASID (getEntryASIDMask).
LEMMA EffectivePriv ==
    ASSUME NEW l \in Leaves, NEW m \in VMModes, NEW s \in SimASIDs, NEW u \in SimASIDs,
           EffectiveASID(l, m, s) = EffectiveASID(l, m, u)
    PROVE  EntryPriv(m, l, s.mxr, s.sum) = EntryPriv(m, l, u.mxr, u.sum)
<1>0. /\ l.U \in BOOLEAN /\ l.G \in BOOLEAN /\ s.mxr \in BOOLEAN /\ u.mxr \in BOOLEAN
      /\ s.sum \in BOOLEAN /\ u.sum \in BOOLEAN
  BY DEF Leaves, SimASIDs
<1>1. s.mxr = u.mxr /\ ((l.U /\ m = SMode) /\ s.sum) = ((l.U /\ m = SMode) /\ u.sum)
  <2>1. EffectiveASID(l, m, s).mxr = s.mxr /\ EffectiveASID(l, m, u).mxr = u.mxr
    BY DEF EffectiveASID, MaskASID
  <2>2. /\ EffectiveASID(l, m, s).sum = ((l.U /\ m = SMode) /\ s.sum)
        /\ EffectiveASID(l, m, u).sum = ((l.U /\ m = SMode) /\ u.sum)
    BY DEF EffectiveASID, MaskASID, EntryASIDMask
  <2> QED BY <2>1, <2>2
<1>2. CASE l.U /\ m = SMode
  <2>1. s.sum = u.sum
    BY <1>0, <1>1, <1>2
  <2> QED BY <1>1, <2>1
<1>3. CASE ~(l.U /\ m = SMode)
  <2>1. m = UMode \/ ~l.U
    BY <1>3 DEF VMModes
  <2> QED BY <1>1, <2>1 DEF EntryPriv
<1> QED BY <1>2, <1>3

\* The entry is unmapped in every mode in which its mappings would no longer
\* carry its key, before the simulated ASID changes.
LEMMA MapSound ==
    ASSUME TypeOK, NEW s, NEW r, NEW e \in TLBEntries, NEW m \in VMModes, Consistent(s, r),
           e \in s.tlb \/ e.mapped = {},
           \A va \in VAs : Covers(e, va) => Witnessed(e.leaf, satp.asid, va, r)
    PROVE  Consistent(MapEntry(s, e, m), r)
<1> DEFINE now == [asid |-> satp.asid, mxr |-> mxr, sum |-> sum]
           changed == ChangedModes(e, now)
           new == [e EXCEPT !.simASID = now, !.mapped = (@ \ changed) \cup {m}]
           priv == MappedPriv(m, e.leaf)
           ds == DeleteMappings(s.maps, {e}, changed)
           ps == Alias(ds, new, m, priv)
           es == (s.tlb \ {e}) \cup {new}
           d == [tlb |-> es, maps |-> ps]
           page(va) == [key |-> Key(new, m), ppn |-> new.leaf.ppn + (va - new.leaf.low), priv |-> priv]
<1>1. MapEntry(s, e, m) = d
  BY DEF MapEntry
<1>2. /\ config \in Configs /\ satp \in Satps /\ mxr \in BOOLEAN /\ sum \in BOOLEAN
      /\ VAs \subseteq Nat
  BY ConfigType DEF TypeOK
<1>3. now \in SimASIDs /\ now.asid = satp.asid /\ now.mxr = mxr /\ now.sum = sum
  BY <1>2, ConfigType DEF SimASIDs
<1>4. s.tlb \subseteq TLBEntries /\ s.maps \in Domains /\ Owned(s.tlb, s.maps) /\ Backed(s.tlb, r)
  BY DEF Consistent
<1>5. /\ e.leaf \in Leaves /\ e.mapped \subseteq VMModes /\ e.simASID \in SimASIDs
      /\ e.leaf.low \in Nat /\ e.leaf.ppn \in Nat /\ e.leaf.priv \subseteq Access
  BY DEF TLBEntries, Leaves
<1>6. \A h \in VMModes : h \notin changed =>
            EffectiveASID(e.leaf, h, now) = EffectiveASID(e.leaf, h, e.simASID)
  BY DEF ChangedModes
<1> HIDE DEF now, changed
<1>7. /\ new \in TLBEntries /\ new.leaf = e.leaf /\ new.simASID = now
      /\ new.mapped = (e.mapped \ changed) \cup {m}
  BY <1>3, <1>5 DEF TLBEntries
<1> HIDE DEF new
<1>8. \A h \in VMModes, va \in VAs : ds[h][va] = {k \in s.maps[h][va] : ~\E y \in {e} :
            h \in changed \cap y.mapped /\ Covers(y, va) /\ k.key = Key(y, h)}
  BY DEF DeleteMappings
<1>9. ds \in Domains
  BY <1>4 DEF Domains, DeleteMappings
<1>10. priv \subseteq EntryPriv(m, e.leaf, mxr, sum) /\ priv \subseteq Access
       /\ ("W" \in priv => e.leaf.D)
  BY <1>5, EntryPrivType DEF MappedPriv
<1> HIDE DEF ds, priv
<1>11. \A h \in VMModes, va \in VAs : ps[h][va] =
         IF h = m /\ Covers(new, va)
         THEN {k \in ds[m][va] : k.key # Key(new, m)} \cup {page(va)} ELSE ds[h][va]
  BY <1>9 DEF Alias, Domains
<1>12. \A va \in VAs : Covers(new, va) => page(va) \in Mappings
  <2> SUFFICES ASSUME NEW va \in VAs, Covers(new, va) PROVE page(va) \in Mappings
    OBVIOUS
  <2>1. va \in Nat /\ new.leaf.ppn + (va - new.leaf.low) \in Nat
    BY <1>2, <1>5, <1>7 DEF Covers
  <2> QED BY <1>7, <1>10, <2>1, KeyType DEF Mappings
<1>13. ps \in Domains
  <2>1. \A h \in VMModes, va \in VAs : ps[h][va] \subseteq Mappings
    BY <1>9, <1>11, <1>12 DEF Domains
  <2>2. ps = [ds EXCEPT ![m] = [va \in VAs |->
            IF Covers(new, va) THEN {k \in ds[m][va] : k.key # Key(new, m)} \cup {page(va)}
            ELSE ds[m][va]]]
    BY DEF Alias
  <2>3. \A va \in VAs : (IF Covers(new, va) THEN {k \in ds[m][va] : k.key # Key(new, m)} \cup {page(va)}
            ELSE ds[m][va]) \subseteq Mappings
    BY <1>9, <1>12 DEF Domains
  <2> HIDE DEF page, ps
  <2> QED BY <1>9, <2>2, <2>3 DEF Domains
<1> HIDE DEF ps
<1>14. ASSUME NEW h \in VMModes, NEW va \in VAs, NEW k \in ds[h][va]
       PROVE  \E y \in es : Owns(y, h, va, k)
  <2>1. /\ k \in s.maps[h][va]
        /\ ~(h \in changed \cap e.mapped /\ Covers(e, va) /\ k.key = Key(e, h))
    BY <1>8
  <2>2. PICK y \in s.tlb : Owns(y, h, va, k)
    BY <1>4, <2>1 DEF Owned
  <2>3. CASE y # e
    BY <2>2, <2>3
  <2>4. CASE y = e
    <3>1. h \in e.mapped /\ h \notin changed /\ h \in new.mapped
      BY <1>7, <2>1, <2>2, <2>4 DEF Owns
    <3>2. EffectiveASID(e.leaf, h, now) = EffectiveASID(e.leaf, h, e.simASID)
      BY <1>6, <3>1
    <3>3. Key(new, h) = Key(e, h)
      BY <1>7, <3>2 DEF Key
    <3>4. EntryPriv(h, e.leaf, now.mxr, now.sum) = EntryPriv(h, e.leaf, e.simASID.mxr, e.simASID.sum)
      BY <1>3, <1>5, <3>2, EffectivePriv
    <3>5. Covers(new, va)
      BY <1>7, <2>2, <2>4 DEF Owns, Covers
    <3>6. Owns(new, h, va, k)
      BY <1>7, <2>2, <2>4, <3>1, <3>3, <3>4, <3>5 DEF Owns
    <3> QED BY <3>6
  <2> QED BY <2>3, <2>4
<1>15. ASSUME NEW va \in VAs, Covers(new, va) PROVE Owns(new, m, va, page(va))
  <2>1. page(va).key = Key(new, m) /\ page(va).ppn = new.leaf.ppn + (va - new.leaf.low)
        /\ page(va).priv = priv
    OBVIOUS
  <2>2. m \in new.mapped /\ priv \subseteq EntryPriv(m, new.leaf, new.simASID.mxr, new.simASID.sum)
    BY <1>3, <1>7, <1>10
  <2> HIDE DEF page
  <2> QED BY <1>7, <1>10, <1>15, <2>1, <2>2 DEF Owns
<1>16. Owned(es, ps)
  <2> SUFFICES ASSUME NEW h \in VMModes, NEW va \in VAs, NEW k \in ps[h][va]
               PROVE  \E y \in es : Owns(y, h, va, k)
    BY DEF Owned
  <2>1. k \in ds[h][va] \/ (h = m /\ Covers(new, va) /\ k = page(va))
    <3> HIDE DEF page
    <3> QED BY <1>11
  <2> HIDE DEF page
  <2> QED BY <1>14, <1>15, <2>1
<1>17. Backed(es, r)
  <2> SUFFICES ASSUME NEW y \in es, NEW va \in VAs, Covers(y, va)
               PROVE  Witnessed(y.leaf, y.simASID.asid, va, r)
    BY DEF Backed
  <2>1. CASE y = new
    BY <1>3, <1>7, <2>1 DEF Covers
  <2>2. CASE y # new
    BY <1>4, <2>2 DEF Backed
  <2> QED BY <2>1, <2>2
<1>18. es \subseteq TLBEntries
  BY <1>4, <1>7
<1>19. d.tlb = es /\ d.maps = ps /\ d \in [tlb : SUBSET TLBEntries, maps : Domains]
  BY <1>13, <1>18
<1> HIDE DEF d, es
<1> QED BY <1>1, <1>16, <1>17, <1>19 DEF Consistent

------------------------------------------------------------------------------
(* The operations *)

LEMMA MoreTranslations ==
    ASSUME NEW s, NEW r, NEW z, r \subseteq z, Consistent(s, r)
    PROVE  Consistent(s, z)
  BY DEF Consistent, Backed, Witnessed

LEMMA CurrentType ==
    ASSUME config \in Configs, NEW p \in PageTables, NEW s \in Satps
    PROVE  Current(p, s) \subseteq Nat \X VAs \X Leaves
<1> SUFFICES ASSUME NEW x \in VAs, FindLeaf(p, s.root, x).err = "none"
             PROVE  <<s.asid, x, Leaf(FindLeaf(p, s.root, x), x)>> \in Nat \X VAs \X Leaves
  BY DEF Current
<1>1. x \in Nat /\ s.asid \in Nat /\ s.root \in Nat
  BY ConfigType
<1>2. FindLeaf(p, s.root, x) \in Found
  BY <1>1, FindLeafType
<1>3. Leaf(FindLeaf(p, s.root, x), x) \in Leaves
  BY <1>1, <1>2, LeafType
<1> QED BY <1>1, <1>3

\* A walk that succeeds returns the leaf with its A and D bits updated.
LEMMA LookupFound ==
    ASSUME TypeOK, NEW m, NEW va \in VAs, NEW q, TlbLookup(m, va, q).err = "none"
    PROVE  LET w == FindLeaf(pt, satp.root, va)
               v == TlbLookup(m, va, q)
           IN  /\ w.err = "none" /\ w \in Found /\ Updated(w, v.pte)
               /\ v = [err |-> "none", t |-> w.t, i |-> w.i, pte |-> v.pte]
<1> DEFINE w == FindLeaf(pt, satp.root, va)
           v == TlbLookup(m, va, q)
           new == [w.pte EXCEPT !.A = TRUE, !.D = NewD(w.pte, q)]
<1>1. \A e \in {"PRIV", "A0", "D0", "WRITE"} : WalkError(e).err # "none"
  BY DEF WalkError
<1>2. w.err = "none" /\ v = [w EXCEPT !.pte = new]
  BY <1>1 DEF TlbLookup
<1>3. w \in Found
  <2>1. va \in Nat /\ satp.root \in Nat /\ pt \in PageTables
    BY ConfigType DEF TypeOK
  <2> QED BY <1>2, <2>1, FindLeafType
<1> HIDE DEF w
<1>4. NewD(w.pte, q) \in BOOLEAN
  BY <1>3 DEF NewD, Found, Pte
<1>5. Updated(w, new)
  BY <1>3, <1>4 DEF Updated, Found, Pte
<1> HIDE DEF new
<1>6. v = [err |-> "none", t |-> w.t, i |-> w.i, pte |-> new] /\ v.pte = new
  BY <1>2, <1>3 DEF Found
<1> HIDE DEF v
<1>7. /\ w.err = "none" /\ w \in Found /\ Updated(w, v.pte)
      /\ v = [err |-> "none", t |-> w.t, i |-> w.i, pte |-> v.pte]
  BY <1>2, <1>3, <1>5, <1>6
<1> QED BY <1>7 DEF v, w

\* The page tables translate every page of a new entry as the entry does.
LEMMA WalkSound ==
    ASSUME TypeOK, NEW s, NEW m \in VMModes, NEW va \in VAs, NEW q \in Access,
           Consistent(s, recent), Walk(s, m, va, q)
    PROVE  /\ pt' \in PageTables
           /\ Consistent([tlb |-> tlb', maps |-> maps'], recent \cup Current(pt', satp))
<1> DEFINE w == FindLeaf(pt, satp.root, va)
           v == TlbLookup(m, va, q)
           z == recent \cup Current(pt', satp)
           e == [leaf |-> Leaf(v, va), mapped |-> {}, simASID |-> NoSimASID]
           done == MapEntry(s, e, m)
<1>0. config \in Configs /\ pt \in PageTables /\ satp \in Satps
  BY DEF TypeOK
<1>1. va \in Nat /\ VAs \subseteq Nat /\ satp.root \in Nat /\ satp.asid \in Nat
  BY <1>0, ConfigType
<1>2. Consistent(s, z)
  BY MoreTranslations
<1>3. CASE v.err # "none"
  <2>1. pt' = pt /\ tlb' = s.tlb /\ maps' = s.maps
    BY <1>3 DEF Walk
  <2>2. s = [tlb |-> s.tlb, maps |-> s.maps]
    BY DEF Consistent
  <2> QED BY <1>0, <1>2, <2>1, <2>2
<1>4. CASE v.err = "none"
  <2>1. /\ w.err = "none" /\ w \in Found /\ Updated(w, v.pte)
        /\ v = [err |-> "none", t |-> w.t, i |-> w.i, pte |-> v.pte]
    BY <1>4, LookupFound
  <2>2. /\ pt' = [pt EXCEPT ![v.t][VPN(va, v.i)] = v.pte]
        /\ tlb' = done.tlb /\ maps' = done.maps
    BY <1>4 DEF Walk
  <2> HIDE DEF w, v
  <2>3. v.t = w.t /\ v.i = w.i /\ v \in Found
    BY <2>1 DEF Found, Updated
  <2>4. pt' = WriteBack(pt, va, w, v.pte)
    BY <2>2, <2>3 DEF WriteBack
  <2>5. w.i \in Nat /\ PageSize(w.i) \in Nat /\ PageSize(w.i) >= 1
    BY <2>1, PageSizes DEF Found
  <2>6. ASSUME NEW x \in VAs, SamePage(va, x, w.i)
        PROVE  pt' \in PageTables /\ FindLeaf(pt', satp.root, x) = v
    BY <1>0, <1>1, <2>1, <2>4, <2>6, FindLeafKept DEF w
  <2>7. pt' \in PageTables
    <3> DEFINE P == PageSize(w.i)
    <3>1. P \in Nat /\ P >= 1
      BY <2>5
    <3> HIDE DEF P
    <3>2. va % P \in 0..(P-1)
      BY <1>1, <3>1
    <3>3. va - (va % P) <= va /\ va < (va - (va % P)) + P
      BY <1>1, <3>1, <3>2
    <3> QED BY <2>6, <3>3 DEF SamePage, P
  <2>8. /\ Leaf(v, va) \in Leaves /\ Leaf(v, va).low = va - (va % PageSize(w.i))
        /\ Leaf(v, va).size = PageSize(w.i)
    BY <1>0, <1>1, <2>3, LeafType
  <2>9. /\ e \in TLBEntries /\ e.mapped = {} /\ e.leaf = Leaf(v, va)
    BY <2>8 DEF TLBEntries, NoSimASID, SimASIDs
  <2> HIDE DEF e
  <2>10. ASSUME NEW x \in VAs, Covers(e, x) PROVE Witnessed(e.leaf, satp.asid, x, z)
    <3>1. SamePage(va, x, w.i)
      BY <2>8, <2>9, <2>10 DEF Covers, SamePage
    <3>2. FindLeaf(pt', satp.root, x) = v /\ v.err = "none"
      BY <1>4, <2>6, <3>1
    <3>3. <<satp.asid, x, Leaf(v, x)>> \in z
      BY <3>2 DEF Current
    <3>4. Leaf(v, x) = Leaf(v, va)
      BY <1>1, <2>3, <3>1, SameLeaf
    <3> HIDE DEF z
    <3> DEFINE t == <<satp.asid, x, Leaf(v, va)>>
    <3>5. t \in z /\ t[2] = x /\ t[3] = e.leaf /\ t[1] = satp.asid
      BY <2>9, <3>3, <3>4
    <3> HIDE DEF t
    <3> QED BY <3>5 DEF Witnessed
  <2> HIDE DEF z
  <2>11. Consistent(done, z)
    BY <1>2, <2>9, <2>10, MapSound
  <2>12. done = [tlb |-> done.tlb, maps |-> done.maps]
    BY <2>11 DEF Consistent
  <2> QED BY <2>2, <2>7, <2>11, <2>12 DEF z
<1> QED BY <1>3, <1>4

\* The inductive invariant.
IInv == TypeOK /\ Consistent([tlb |-> tlb, maps |-> maps], recent)

LEMMA MissSound ==
    ASSUME IInv, NEW m \in VMModes, NEW va \in VAs, NEW q \in Access, Miss(m, va, q)
    PROVE  /\ pt' \in PageTables
           /\ Consistent([tlb |-> tlb', maps |-> maps'], recent')
<1> DEFINE start == [tlb |-> tlb, maps |-> maps]
           fits == {e \in tlb : Covers(e, va) /\ MatchASID(satp.asid, e)}
           z == recent \cup Current(pt', satp)
<1>1. TypeOK /\ Consistent(start, recent) /\ recent' = z
  BY DEF IInv, Miss
<1>2. \/ Walk(start, m, va, q)
      \/ \E e \in fits : Walk(DeleteEntries(start, {e}), m, va, q)
      \/ \E e \in fits : /\ pt' = pt
                         /\ tlb' = MapEntry(start, e, m).tlb /\ maps' = MapEntry(start, e, m).maps
  BY DEF Miss
<1> HIDE DEF z
<1>3. CASE Walk(start, m, va, q)
  <2> HIDE DEF start
  <2> QED BY <1>1, <1>3, WalkSound DEF z
<1>4. ASSUME NEW e \in fits, Walk(DeleteEntries(start, {e}), m, va, q)
      PROVE  pt' \in PageTables /\ Consistent([tlb |-> tlb', maps |-> maps'], z)
  <2> HIDE DEF start
  <2>1. Consistent(DeleteEntries(start, {e}), recent)
    BY <1>1, DeleteSound
  <2> DEFINE s == DeleteEntries(start, {e})
  <2> HIDE DEF s
  <2>2. Consistent(s, recent) /\ Walk(s, m, va, q)
    BY <1>4, <2>1 DEF s
  <2> QED BY <1>1, <2>2, WalkSound DEF z
<1>5. ASSUME NEW e \in fits, pt' = pt, tlb' = MapEntry(start, e, m).tlb,
             maps' = MapEntry(start, e, m).maps
      PROVE  pt' \in PageTables /\ Consistent([tlb |-> tlb', maps |-> maps'], z)
  <2>1. e \in start.tlb /\ e \in TLBEntries /\ (e.leaf.G \/ e.simASID.asid = satp.asid)
    BY <1>1 DEF TypeOK, MatchASID
  <2>2. Backed(start.tlb, recent)
    BY <1>1 DEF Consistent
  <2> HIDE DEF start
  <2>3. \A x \in VAs : Covers(e, x) => Witnessed(e.leaf, satp.asid, x, recent)
    BY <2>1, <2>2 DEF Backed, Witnessed
  <2>4. Consistent(MapEntry(start, e, m), recent)
    BY <1>1, <2>1, <2>3, MapSound
  <2> DEFINE d == MapEntry(start, e, m)
  <2>5. Consistent(d, z) /\ tlb' = d.tlb /\ maps' = d.maps
    BY <1>5, <2>4, MoreTranslations DEF z
  <2> HIDE DEF d
  <2>6. d = [tlb |-> d.tlb, maps |-> d.maps]
    BY <2>5 DEF Consistent
  <2> QED BY <1>1, <1>5, <2>5, <2>6 DEF TypeOK
<1> HIDE DEF fits, start
<1> QED BY <1>1, <1>2, <1>3, <1>4, <1>5

\* An entry that a fence leaves alone was seen after the last fence that
\* covers it.
LEMMA FenceSound ==
    ASSUME IInv, NEW vas \in SUBSET VAs, NEW any \in BOOLEAN, NEW asids, Fence(vas, any, asids)
    PROVE  Consistent([tlb |-> tlb', maps |-> maps'], recent')
<1> DEFINE start == [tlb |-> tlb, maps |-> maps]
           gone == {e \in tlb : /\ \E va \in vas : Covers(e, va)
                                /\ any \/ Deleted(asids, e.simASID.asid, e.leaf.G)}
           left == DeleteEntries(start, gone)
           covered == {t \in recent : /\ t[2] \in vas
                                      /\ any \/ ~HasASID \/ (~t[3].G /\ t[1] \in asids)}
<1>1. TypeOK /\ Consistent(start, recent)
  BY DEF IInv
<1>2. tlb' = left.tlb /\ maps' = left.maps /\ recent' = (recent \ covered) \cup Current(pt, satp)
  BY DEF Fence
<1>3. Consistent(left, recent) /\ left.tlb = tlb \ gone
  <2>1. left.tlb = start.tlb \ gone /\ start.tlb = tlb
    BY DEF DeleteEntries
  <2> HIDE DEF gone, start
  <2> QED BY <1>1, <2>1, DeleteSound
<1> HIDE DEF left
<1>4. ASSUME NEW e \in tlb \ gone, NEW va \in VAs, Covers(e, va)
      PROVE  Witnessed(e.leaf, e.simASID.asid, va, recent \ covered)
  <2>1. PICK t \in recent : t[2] = va /\ t[3] = e.leaf /\ (e.leaf.G \/ t[1] = e.simASID.asid)
    BY <1>3, <1>4 DEF Consistent, Backed, Witnessed
  <2>2. t \notin covered
    BY <1>4, <2>1 DEF Deleted
  <2> HIDE DEF covered
  <2> QED BY <2>1, <2>2 DEF Witnessed
<1> HIDE DEF gone, covered
<1>5. Backed(left.tlb, recent \ covered)
  BY <1>3, <1>4 DEF Backed
<1>6. Consistent(left, recent \ covered)
  BY <1>3, <1>5 DEF Consistent
<1>7. Consistent(left, recent')
  BY <1>2, <1>6, MoreTranslations
<1>8. left = [tlb |-> left.tlb, maps |-> left.maps]
  BY <1>3 DEF Consistent
<1> QED BY <1>2, <1>7, <1>8

\* The configuration does not change, and with it neither the pages nor the
\* rules that Consistent depends on.
LEMMA ConsistentNext ==
    ASSUME config' = config, Consistent([tlb |-> tlb', maps |-> maps'], recent')
    PROVE  Consistent([tlb |-> tlb, maps |-> maps], recent)'
<1>1. VAs' = VAs /\ Domains' = Domains /\ UserExec' = UserExec
  BY DEF VAs, Domains, UserExec
<1>2. ASSUME NEW m, NEW l, NEW x, NEW s PROVE EntryPriv(m, l, x, s)' = EntryPriv(m, l, x, s)
  BY <1>1, Zenon DEF EntryPriv
<1> QED BY <1>1, <1>2 DEF Consistent, Owned, Owns, Backed, Witnessed, Covers

LEMMA InitIInv == Init => IInv
<1> SUFFICES ASSUME Init PROVE IInv
  OBVIOUS
<1> USE DEF Init
<1>1. config \in Configs /\ satp \in Satps /\ satp.asid \in Nat
  BY ConfigType
<1>2. InvalidPte \in Pte
  BY DEF InvalidPte, Pte
<1>3. pt \in PageTables
  BY <1>2 DEF PageTables
<1>4. maps \in Domains /\ simASID \in SimASIDs
  BY <1>1 DEF Domains, SimASIDs
<1>5. TypeOK
  BY <1>1, <1>3, <1>4 DEF TypeOK
<1> DEFINE s == [tlb |-> tlb, maps |-> maps]
<1>6. s.tlb = {} /\ s.maps = maps /\ s \in [tlb : SUBSET TLBEntries, maps : Domains]
  BY <1>4
<1>7. \A m \in VMModes, va \in VAs : maps[m][va] = {}
  OBVIOUS
<1> HIDE DEF s
<1>8. Consistent(s, recent)
  BY <1>6, <1>7 DEF Consistent, Owned, Backed
<1> QED BY <1>5, <1>8 DEF IInv, s

\* TypeOK after a step, from what each action shows.
LEMMA TypeNext ==
    ASSUME TypeOK, config' = config, pt' \in PageTables, satp' \in Satps,
           mxr' \in BOOLEAN, sum' \in BOOLEAN, simASID' \in SimASIDs,
           recent' \subseteq Nat \X VAs \X Leaves,
           Consistent([tlb |-> tlb', maps |-> maps'], recent')
    PROVE  IInv'
<1>1. VAs' = VAs /\ Satps' = Satps /\ Domains' = Domains
  BY DEF VAs, Satps, Domains
<1>2. tlb' \subseteq TLBEntries /\ maps' \in Domains
  BY DEF Consistent
<1>3. Consistent([tlb |-> tlb, maps |-> maps], recent)'
  BY ConsistentNext
<1>4. TypeOK'
  BY <1>1, <1>2 DEF TypeOK
<1> QED BY <1>3, <1>4 DEF IInv

LEMMA NextIInv == IInv /\ [Next]_vars => IInv'
<1> SUFFICES ASSUME IInv, [Next]_vars PROVE IInv'
  OBVIOUS
<1>1. TypeOK /\ Consistent([tlb |-> tlb, maps |-> maps], recent)
  BY DEF IInv
<1>2. /\ config \in Configs /\ pt \in PageTables /\ satp \in Satps
      /\ mxr \in BOOLEAN /\ sum \in BOOLEAN
      /\ simASID \in SimASIDs /\ recent \subseteq Nat \X VAs \X Leaves
  BY <1>1 DEF TypeOK
<1>3. ASSUME NEW m \in VMModes, NEW va \in VAs, NEW q \in Access, Miss(m, va, q) PROVE IInv'
  <2>1. pt' \in PageTables /\ Consistent([tlb |-> tlb', maps |-> maps'], recent')
    BY <1>3, MissSound
  <2>2. recent' = recent \cup Current(pt', satp) /\ UNCHANGED <<config, satp, mxr, sum, simASID>>
    BY <1>3 DEF Miss
  <2>3. recent' \subseteq Nat \X VAs \X Leaves
    BY <1>2, <2>1, <2>2, CurrentType
  <2> QED BY <1>1, <1>2, <2>1, <2>2, <2>3, TypeNext
<1>4. ASSUME NEW vas \in SUBSET VAs, NEW any \in BOOLEAN, NEW asids, Fence(vas, any, asids)
      PROVE  IInv'
  <2>1. Consistent([tlb |-> tlb', maps |-> maps'], recent')
    BY <1>4, FenceSound
  <2>2. /\ recent' \subseteq recent \cup Current(pt, satp)
        /\ UNCHANGED <<config, pt, satp, mxr, sum, simASID>>
    BY <1>4 DEF Fence
  <2>3. recent' \subseteq Nat \X VAs \X Leaves
    BY <1>2, <2>2, CurrentType
  <2> QED BY <1>1, <1>2, <2>1, <2>2, <2>3, TypeNext
<1>5. CASE SFENCE_VMA
  <2>1. VAs \in SUBSET VAs /\ \A va \in VAs : {va} \in SUBSET VAs
    OBVIOUS
  <2>2. PICK vas \in {VAs} \cup {{va} : va \in VAs} :
          Fence(vas, TRUE, {}) \/ \E s \in Satps : Fence(vas, FALSE, {s.asid})
    BY <1>5 DEF SFENCE_VMA
  <2>3. vas \in SUBSET VAs
    BY <2>1, <2>2
  <2> QED BY <1>4, <2>2, <2>3
<1>6. CASE WritePte
  <2>1. PICK w \in PteWrites : /\ pt' = [pt EXCEPT ![w[1]][w[2]] = w[3]]
                               /\ recent' = recent \cup Current(pt', satp)
                               /\ UNCHANGED <<config, satp, mxr, sum, tlb, maps, simASID>>
    BY <1>6 DEF WritePte
  <2>2. w[1] \in Tables /\ w[2] \in Indices /\ w[3] \in Pte
    BY <1>2, ConfigType
  <2>3. pt' \in PageTables
    BY <1>2, <2>1, <2>2 DEF PageTables
  <2>4. recent' \subseteq Nat \X VAs \X Leaves
    BY <1>2, <2>1, <2>3, CurrentType
  <2>5. Consistent([tlb |-> tlb', maps |-> maps'], recent')
    BY <1>1, <2>1, MoreTranslations
  <2> QED BY <1>1, <1>2, <2>1, <2>3, <2>4, <2>5, TypeNext
<1>7. ASSUME NEW x \in BOOLEAN, NEW s \in BOOLEAN, StatusW(x, s) PROVE IInv'
  <2>1. mxr' = x /\ sum' = s /\ UNCHANGED <<config, pt, satp, tlb, maps, recent>>
    BY <1>7 DEF StatusW
  <2>2. simASID' \in SimASIDs
    BY <1>2, <1>7, ConfigType DEF StatusW, SimASIDs
  <2> QED BY <1>1, <1>2, <2>1, <2>2, TypeNext
<1>8. ASSUME NEW s \in Satps, SatpW(s) PROVE IInv'
  <2>1. /\ satp' = s /\ recent' = recent \cup Current(pt, s)
        /\ UNCHANGED <<config, pt, mxr, sum, tlb, maps>>
    BY <1>8 DEF SatpW
  <2>2. simASID' \in SimASIDs
    BY <1>2, <1>8, ConfigType DEF SatpW, SimASIDs
  <2>3. recent' \subseteq Nat \X VAs \X Leaves
    BY <1>2, <2>1, CurrentType
  <2>4. Consistent([tlb |-> tlb', maps |-> maps'], recent')
    BY <1>1, <2>1, MoreTranslations
  <2> QED BY <1>1, <1>2, <2>1, <2>2, <2>3, <2>4, TypeNext
<1>9. CASE Reset
  <2>1. mxr' = FALSE /\ sum' = FALSE /\ UNCHANGED <<config, pt, satp, tlb, maps, simASID, recent>>
    BY <1>9 DEF Reset
  <2> QED BY <1>1, <1>2, <2>1, TypeNext
<1>10. CASE UNCHANGED vars
  <2>1. UNCHANGED <<config, pt, satp, mxr, sum, tlb, maps, simASID, recent>>
    BY <1>10 DEF vars
  <2> QED BY <1>1, <1>2, <2>1, TypeNext
<1> QED BY <1>3, <1>5, <1>6, <1>7, <1>8, <1>9, <1>10 DEF Next

------------------------------------------------------------------------------
(* The theorems *)

LEMMA Invariance == Spec => []IInv
  BY InitIInv, NextIInv, PTL DEF Spec

\* Every state of the translation has the types of riscvVM.c: page tables hold
\* page table entries, and every TLB entry and every mapping of a domain has
\* addresses and privileges within bounds, whatever tables software writes.
THEOREM TranslationTypeCorrect == Spec => []TypeOK
<1>1. IInv => TypeOK
  BY DEF IInv
<1> QED BY Invariance, <1>1, PTL

\* Every mapping in a virtual domain has the key of a TLB entry that is marked
\* as mapped in that mode (isMapped), so that deleteTLBEntry finds it.
THEOREM MappingsOwned == Spec => []MappingOwned
<1>1. IInv => MappingOwned
  <2> SUFFICES ASSUME IInv, NEW m \in VMModes, NEW va \in VAs, NEW k \in maps[m][va]
               PROVE  \E e \in tlb : Covers(e, va) /\ m \in e.mapped /\ Key(e, m) = k.key
    BY DEF MappingOwned
  <2> QED BY DEF IInv, Consistent, Owned, Owns
<1> QED BY Invariance, <1>1, PTL

\* No access uses a translation older than the last SFENCE.VMA that covers its
\* page and ASID, whether the access is translated by the TLB or by a domain;
\* and a page is writable without a miss only if its dirty bit was set.
THEOREM FencesRespected == Spec => []FenceRespected
<1>1. IInv => FenceRespected
  <2> SUFFICES ASSUME IInv PROVE FenceRespected
    OBVIOUS
  <2>1. Owned(tlb, maps) /\ Backed(tlb, recent) /\ tlb \subseteq TLBEntries
    BY DEF IInv, Consistent
  <2>2. ASSUME NEW m \in VMModes, NEW va \in VAs, NEW k \in maps[m][va]
        PROVE  \E t \in recent : /\ t[2] = va /\ t[3].ppn + (va - t[3].low) = k.ppn
                                 /\ k.key.mask.asid => t[1] = k.key.asid.asid
                                 /\ "W" \in k.priv => t[3].D
    <3>1. PICK e \in tlb : Owns(e, m, va, k)
      BY <2>1 DEF Owned
    <3>2. PICK t \in recent : t[2] = va /\ t[3] = e.leaf /\ (e.leaf.G \/ t[1] = e.simASID.asid)
      BY <2>1, <3>1 DEF Backed, Owns, Witnessed
    <3>3. k.key.mask.asid => ~e.leaf.G /\ k.key.asid.asid = e.simASID.asid
      <4>1. k.key = Key(e, m)
        BY <3>1 DEF Owns
      <4>2. k.key.mask = EntryASIDMask(e.leaf, m)
        BY <4>1 DEF Key
      <4>3. EntryASIDMask(e.leaf, m).asid = ~e.leaf.G
        BY DEF EntryASIDMask
      <4>4. k.key.asid = MaskASID(EntryASIDMask(e.leaf, m), e.simASID)
        BY <4>1 DEF Key, EffectiveASID
      <4>5. EntryASIDMask(e.leaf, m).asid =>
              MaskASID(EntryASIDMask(e.leaf, m), e.simASID).asid = e.simASID.asid
        BY DEF MaskASID
      <4> QED BY <4>2, <4>3, <4>4, <4>5, Zenon
    <3> QED BY <3>1, <3>2, <3>3 DEF Owns
  <2> QED BY <2>1, <2>2 DEF FenceRespected, Backed, Witnessed
<1> QED BY Invariance, <1>1, PTL

\* A mapping that the simulator may use grants only what the page table entry
\* grants under the current mstatus.SUM and mstatus.MXR, while the simulated
\* ASID is up to date with them (riscvVMSetASID).
THEOREM OnlyAllowed == Spec => []AllowedNow
<1>1. IInv => AllowedNow
  <2> SUFFICES ASSUME IInv, simASID.sum = sum, simASID.mxr = mxr,
                      NEW m \in VMModes, NEW va \in VAs, NEW k \in maps[m][va],
                      Usable(k.key, simASID)
               PROVE  \E e \in tlb : /\ Covers(e, va) /\ e.leaf.ppn + (va - e.leaf.low) = k.ppn
                                     /\ k.priv \subseteq EntryPriv(m, e.leaf, mxr, sum)
    BY DEF AllowedNow
  <2>1. Owned(tlb, maps) /\ tlb \subseteq TLBEntries /\ simASID \in SimASIDs
    BY DEF IInv, TypeOK, Consistent
  <2>2. PICK e \in tlb : Owns(e, m, va, k)
    BY <2>1 DEF Owned
  <2>3. e.leaf \in Leaves /\ e.simASID \in SimASIDs
    BY <2>1 DEF TLBEntries
  <2>4. EffectiveASID(e.leaf, m, simASID) = EffectiveASID(e.leaf, m, e.simASID)
    <3>1. k.key = Key(e, m)
      BY <2>2 DEF Owns
    <3> QED BY <3>1 DEF Key, Usable, EffectiveASID
  <2>5. EntryPriv(m, e.leaf, mxr, sum) = EntryPriv(m, e.leaf, e.simASID.mxr, e.simASID.sum)
    BY <2>1, <2>3, <2>4, EffectivePriv
  <2> QED BY <2>2, <2>5 DEF Owns
<1> QED BY Invariance, <1>1, PTL

==============================================================================
