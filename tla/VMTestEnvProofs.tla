--------------------------- MODULE VMTestEnvProofs ---------------------------
(***************************************************************************)
(* Theorems about VMTestEnv, for every width of the generator that goes    *)
(* through all its values, and with that every number of pages, for every  *)
(* set of registers and words and every image of the test.                 *)
(***************************************************************************)
EXTENDS VMTestEnv, IterationTheorems

------------------------------------------------------------------------------
(* The invariant *)

Pages == 0..(MAX_TEST_PAGES - 1)
Pte == [frame : Frames, A : BOOLEAN, D : BOOLEAN]
Nodes == {FreeNode(n) : n \in Pages} \cup {UserNode(p) : p \in Pages}
Faults == {"FETCH_PAGE_FAULT", "LOAD_PAGE_FAULT", "STORE_PAGE_FAULT"}
Trapframes == [gpr : [Registers -> Words], badvaddr : Pages, cause : Faults \cup {"USER_ECALL"}]
Handling == {"handle_fault", "flush", "mapped", "fill", "filled", "protected"}

TypeOK ==
    /\ pc \in {"user", "evict", "exit"} \cup Handling
    /\ IF pc = "user" THEN regs \in [Registers -> Words] ELSE tf \in Trapframes
    /\ instr \in Instructions \cup {None}
    /\ user_l3pt \in [Pages -> Pte \cup {None}] /\ user_l3pt[0] = None
    /\ user_mapping \in [Pages -> [addr : Nat, next : Nodes \cup {None}]]
    /\ freelist_nodes \in [Pages -> [addr : Nat, next : Nodes \cup {None}]]
    /\ freelist_head \in Nodes \cup {None} /\ freelist_tail \in Nodes \cup {None}
    /\ memory \in [Frames -> Words] /\ home \in [UserPages -> Words]
    /\ tlb \in [Pages -> Pte \cup {None}] /\ hardwareAD \in BOOLEAN
    /\ i \in 1..MAX_TEST_PAGES

\* The page whose entry was changed and is not fenced yet.
InFlight == IF pc \in {"flush", "protected"} THEN {tf.badvaddr} ELSE {}

\* TLB t holds entries of page table u, as they are but for the pages in x.
\* A hart that sets the bits itself may hold an entry with fewer of them.
Coherent(t, u, x) ==
    \A p \in Pages : t[p] # None =>
        /\ u[p] # None /\ t[p].frame = u[p].frame
        /\ p \notin x => /\ t[p].A => u[p].A
                         /\ t[p].D => u[p].D
                         /\ ~hardwareAD => t[p] = u[p]

\* No two pages have the same frame.
Distinct(u) ==
    \A p, q \in UserPages : u[p] # None /\ u[q] # None /\ p # q => u[p].frame # u[q].frame

\* The pages an instruction accesses.
Touched(in) == {in.fetch} \cup (IF in.op \in {"load", "store"} THEN {in.page} ELSE {})

\* While a fault is handled: why it was raised, and what was done about it.
FaultInv ==
    /\ pc \in Handling => instr # None /\ tf.badvaddr \in Touched(instr) /\ tf.cause \in Faults
    /\ pc = "handle_fault" =>
         LET e == user_l3pt[tf.badvaddr] IN
         e = None \/ (~hardwareAD /\ (~e.A \/ (~e.D /\ tf.cause = "STORE_PAGE_FAULT")))
    /\ pc \in Handling \ {"handle_fault"} =>
         tf.badvaddr \in UserPages /\ user_l3pt[tf.badvaddr] # None
    /\ pc \in {"mapped", "fill"} => user_l3pt[tf.badvaddr].A /\ user_l3pt[tf.badvaddr].D
    /\ pc = "filled" => memory[user_l3pt[tf.badvaddr].frame] = home[tf.badvaddr]
    /\ pc = "evict" => tf.cause = "USER_ECALL"

\* Every page the test has was accessed, or will be by the instruction that
\* faulted on it; and it is dirty if it was changed.
Accessed(p) == user_l3pt[p].A \/ (pc # "evict" /\ instr # None /\ p \in Touched(instr))
Unchanged(p) ==
    \/ memory[user_l3pt[p].frame] = home[p]
    \/ user_l3pt[p].D
    \/ pc \in {"mapped", "fill"} /\ tf.badvaddr = p

PagesInv ==
    pc # "exit" => \A p \in UserPages : user_l3pt[p] # None /\ (pc = "evict" => p >= i) =>
                      Accessed(p) /\ Unchanged(p)

\* The nodes n below j have been taken from the free list as vm_boot made it.
Taken(j) ==
    /\ j \in Pages /\ freelist_head = FreeNode(j)
    /\ j = Cardinality({p \in UserPages : user_l3pt[p] # None})
    /\ \A p \in UserPages : user_l3pt[p] # None =>
         \E n \in 0..(j - 1) : freelist_nodes[n].addr = user_l3pt[p].frame
    /\ \A n \in 0..(j - 1) : \E p \in UserPages :
         user_l3pt[p] # None /\ user_l3pt[p].frame = freelist_nodes[n].addr

ListInv ==
    /\ pc \notin {"evict", "exit"} =>
         /\ \A n \in Pages : freelist_nodes[n].next = IF n = MAX_TEST_PAGES - 1 THEN None ELSE FreeNode(n + 1)
         /\ \A n \in Pages : freelist_nodes[n].addr \in Frames
         /\ \A n, k \in Pages : freelist_nodes[n].addr = freelist_nodes[k].addr => n = k
         /\ \A f \in Frames : \E n \in Pages : freelist_nodes[n].addr = f
         /\ \E j \in Pages : Taken(j)
         /\ \A p \in UserPages :
              user_mapping[p].addr = IF user_l3pt[p] # None THEN user_l3pt[p].frame ELSE 0
    /\ pc = "evict" =>
         \A p \in UserPages : p >= i /\ user_mapping[p].addr # 0 => user_l3pt[p] # None

ExitInv ==
    /\ pc # "exit" => tohost = 0
    /\ tohost = 3 => IF tf.cause = "USER_ECALL" THEN i = MAX_TEST_PAGES /\ tf.gpr["a0"] = 3
                     ELSE tf.badvaddr = 0

Inv == /\ TypeOK
       /\ Coherent(tlb, user_l3pt, InFlight)
       /\ Distinct(user_l3pt)
       /\ FaultInv
       /\ PagesInv
       /\ ListInv
       /\ ExitInv

------------------------------------------------------------------------------
(* Facts about the constants, the instructions and the hart *)

LEMMA Sizes ==
    /\ MAX_TEST_PAGES \in Nat /\ MAX_TEST_PAGES >= 1
    /\ UserPages \subseteq Pages /\ Pages \subseteq Nat
    /\ 0 \in Pages /\ 0 \notin UserPages /\ \A p \in Pages : p # 0 => p \in UserPages
    /\ Frames \subseteq Nat /\ 0 \notin Frames
<1>1. LFSRBits - 1 \in Nat /\ (LFSRBits - 1) + 1 = LFSRBits
  BY LFSRAssumption
<1>2. 2^LFSRBits = 2 * 2^(LFSRBits - 1) /\ 2^(LFSRBits - 1) \in Nat /\ 2^(LFSRBits - 1) >= 1
  BY <1>1, PowerDoubles, PowerOfTwo
<1>3. MAX_TEST_PAGES \in Nat /\ MAX_TEST_PAGES >= 1
  BY <1>2 DEF MAX_TEST_PAGES
<1> QED BY <1>3 DEF Pages, UserPages, Frames

LEMMA PteNotNone == \A e \in Pte : e # None
  BY DEF Pte, None

LEMMA NodeNotNone == \A n : FreeNode(n) # None /\ UserNode(n) # None
  BY DEF FreeNode, UserNode, None

LEMMA InstructionType ==
    ASSUME NEW in \in Instructions
    PROVE  /\ in # None /\ in.fetch \in UserPages /\ in.op \in {"load", "store", "li", "ecall"}
           /\ in.op \in {"load", "store"} => in.page \in Pages /\ in.reg \in Registers
           /\ in.op = "li" => in.reg \in Registers /\ in.word \in Words
           /\ Touched(in) \subseteq Pages
<1>1. /\ in # None /\ in.fetch \in UserPages /\ in.op \in {"load", "store", "li", "ecall"}
      /\ in.op \in {"load", "store"} => in.page \in {0} \cup UserPages /\ in.reg \in Registers
      /\ in.op = "li" => in.reg \in Registers /\ in.word \in Words
  BY DEF Instructions, None
<1> QED BY <1>1, Sizes DEF Touched

LEMMA Pair ==
    ASSUME NEW x, NEW y
    PROVE  LET s == <<x>> \o <<y>> IN DOMAIN s = {1, 2} /\ s[1] = x /\ s[2] = y
<1> DEFINE s == <<x>> \o <<y>>
<1>1. <<x>> \in Seq({x, y}) /\ <<y>> \in Seq({x, y}) /\ Len(<<x>>) = 1 /\ Len(<<y>>) = 1
  OBVIOUS
<1>2. s \in Seq({x, y}) /\ Len(s) = 2
  BY <1>1
<1>3. s[1] = x /\ s[2] = y
  BY <1>1
<1> HIDE DEF s
<1>4. DOMAIN s = 1..2
  BY <1>2
<1> QED BY <1>3, <1>4 DEF s

\* The accesses of an instruction: the fetch, and a load or a store.
LEMMA AccessesOf ==
    ASSUME NEW in \in Instructions
    PROVE  LET as == Accesses(in) IN
           /\ 1 \in DOMAIN as /\ as[1].page = in.fetch /\ as[1].cause = "FETCH_PAGE_FAULT"
           /\ \A k \in DOMAIN as : /\ as[k].page \in Touched(in) /\ as[k].cause \in Faults
                                   /\ as[k].cause = "STORE_PAGE_FAULT" <=> k = 2 /\ in.op = "store"
           /\ in.op \in {"load", "store"} => 2 \in DOMAIN as /\ as[2].page = in.page
           /\ in.op \notin {"load", "store"} => DOMAIN as = {1}
           /\ DOMAIN as \subseteq {1, 2}
<1> DEFINE as == Accesses(in)
           f == [page |-> in.fetch, cause |-> "FETCH_PAGE_FAULT"]
           g == [page |-> in.page, cause |-> "LOAD_PAGE_FAULT"]
           h == [page |-> in.page, cause |-> "STORE_PAGE_FAULT"]
<1>0. as = <<f>> \o (CASE in.op = "load"  -> <<g>>
                       [] in.op = "store" -> <<h>>
                       [] OTHER -> <<>>)
  BY DEF Accesses
<1> HIDE DEF as, f, g, h
<1>1. CASE in.op = "load"
  <2>1. as = <<f>> \o <<g>>
    BY <1>0, <1>1
  <2>2. DOMAIN as = {1, 2} /\ as[1] = f /\ as[2] = g
    BY <2>1, Pair
  <2> QED BY <1>1, <2>2 DEF Touched, Faults, as, f, g
<1>2. CASE in.op = "store"
  <2>1. as = <<f>> \o <<h>>
    BY <1>0, <1>2
  <2>2. DOMAIN as = {1, 2} /\ as[1] = f /\ as[2] = h
    BY <2>1, Pair
  <2> QED BY <1>2, <2>2 DEF Touched, Faults, as, f, h
<1>3. CASE in.op \notin {"load", "store"}
  <2>1. as = <<f>> \o <<>>
    BY <1>0, <1>3
  <2>2. as = <<f>>
    BY <2>1
  <2>3. DOMAIN as = {1} /\ as[1] = f
    BY <2>2
  <2> QED BY <1>3, <2>3 DEF Touched, Faults, as, f
<1> QED BY <1>1, <1>2, <1>3

\* The pages with entries, and their frames, are the same in u and v.
SameFrames(u, v) ==
    \A p \in Pages : (u[p] = None <=> v[p] = None) /\ (u[p] # None => u[p].frame = v[p].frame)

\* What the hart's accesses to the pages in loads and stores do to TLB and
\* page table.
AfterWalk(loads, stores) ==
    /\ user_l3pt' \in [Pages -> Pte \cup {None}] /\ user_l3pt'[0] = None
    /\ tlb' \in [Pages -> Pte \cup {None}]
    /\ SameFrames(user_l3pt, user_l3pt')
    /\ \A p \in Pages : user_l3pt[p] # None => /\ user_l3pt[p].A => user_l3pt'[p].A
                                               /\ user_l3pt[p].D => user_l3pt'[p].D
    /\ ~hardwareAD => user_l3pt' = user_l3pt
    /\ \A p \in Pages : p \notin loads \cup stores => user_l3pt'[p] = user_l3pt[p]
    /\ \A p \in loads \cup stores :
         /\ user_l3pt[p] # None /\ Entry(p).frame = user_l3pt[p].frame
         /\ p \notin InFlight => user_l3pt'[p].A /\ (p \in stores => user_l3pt'[p].D)
    /\ Coherent(tlb', user_l3pt', InFlight)

LEMMA WalkedSound ==
    ASSUME TypeOK, Coherent(tlb, user_l3pt, InFlight),
           NEW loads \in SUBSET Pages, NEW stores \in SUBSET Pages,
           \A p \in loads \cup stores : Translates(p, p \in stores), Walked(loads, stores)
    PROVE  AfterWalk(loads, stores)
<1> DEFINE touched == loads \cup stores
           e(p) == Entry(p)
           n(p) == WithBits(Entry(p), p \in stores)
<1>1. /\ user_l3pt \in [Pages -> Pte \cup {None}] /\ user_l3pt[0] = None
      /\ tlb \in [Pages -> Pte \cup {None}] /\ hardwareAD \in BOOLEAN
  BY DEF TypeOK
<1>2. \A p \in Pages : tlb'[p] = IF p \in touched THEN n(p) ELSE tlb[p]
  BY <1>1 DEF Walked
<1>3. \A p \in Pages : user_l3pt'[p] = IF p \in touched /\ hardwareAD /\ e(p) # n(p)
                                       THEN WithBits(user_l3pt[p], p \in stores) ELSE user_l3pt[p]
  BY <1>1 DEF Walked
<1>4. ASSUME NEW p \in touched
      PROVE  /\ p \in Pages /\ e(p) \in Pte /\ user_l3pt[p] \in Pte /\ e(p).frame = user_l3pt[p].frame
             /\ hardwareAD \/ (e(p).A /\ (p \in stores => e(p).D))
             /\ p \notin InFlight => (e(p).A => user_l3pt[p].A) /\ (e(p).D => user_l3pt[p].D)
             /\ p \notin InFlight /\ ~hardwareAD => e(p) = user_l3pt[p]
  <2>1. p \in Pages /\ e(p) # None /\ (hardwareAD \/ (e(p).A /\ (p \in stores => e(p).D)))
    BY DEF Translates
  <2>2. CASE tlb[p] # None
    <3>1. e(p) = tlb[p]
      BY <2>2 DEF Entry
    <3>2. tlb[p] \in Pte /\ user_l3pt[p] # None /\ user_l3pt[p] \in Pte
      BY <1>1, <2>1, <2>2 DEF Coherent
    <3> QED BY <2>1, <2>2, <3>1, <3>2 DEF Coherent
  <2>3. CASE tlb[p] = None
    <3>1. e(p) = user_l3pt[p]
      BY <2>3 DEF Entry
    <3> QED BY <1>1, <2>1, <3>1
  <2> QED BY <2>2, <2>3
<1>5. ASSUME NEW x \in Pte, NEW p
      PROVE  LET y == WithBits(x, p \in stores) IN
             /\ y \in Pte /\ y.frame = x.frame /\ y.A
             /\ y.D <=> (x.D \/ p \in stores)
             /\ x.A /\ (p \in stores => x.D) => y = x
  <2> DEFINE d == x.D \/ p \in stores
             y == WithBits(x, p \in stores)
  <2>1. x = [frame |-> x.frame, A |-> x.A, D |-> x.D] /\ x.frame \in Frames
        /\ x.A \in BOOLEAN /\ x.D \in BOOLEAN /\ d \in BOOLEAN
    BY DEF Pte
  <2>2. y = [x EXCEPT !.A = TRUE, !.D = d]
    BY Zenon DEF WithBits
  <2>3. x.A /\ (p \in stores => x.D) => x.A = TRUE /\ d = x.D
    BY <2>1
  <2>4. d <=> (x.D \/ p \in stores)
    OBVIOUS
  <2> HIDE DEF d, y
  <2>5. y = [frame |-> x.frame, A |-> TRUE, D |-> d]
    BY <2>1, <2>2
  <2>6. y \in Pte /\ y.frame = x.frame /\ y.A = TRUE /\ y.D = d
    BY <2>1, <2>5 DEF Pte
  <2>7. x.A /\ (p \in stores => x.D) => y = x
    BY <2>1, <2>3, <2>5
  <2>8. y.D <=> (x.D \/ p \in stores)
    BY <2>4, <2>6
  <2> QED BY <2>6, <2>7, <2>8 DEF y
<1> HIDE DEF e, n
<1>6. ASSUME NEW p \in touched
      PROVE  /\ n(p) \in Pte /\ n(p).frame = e(p).frame /\ n(p).A /\ (n(p).D <=> e(p).D \/ p \in stores)
             /\ e(p).A /\ (p \in stores => e(p).D) => n(p) = e(p)
    BY <1>4, <1>5 DEF n, e
<1>7. ASSUME NEW p \in Pages
      PROVE  /\ user_l3pt'[p] \in Pte \cup {None} /\ tlb'[p] \in Pte \cup {None}
             /\ user_l3pt[p] = None <=> user_l3pt'[p] = None
             /\ user_l3pt[p] # None => /\ user_l3pt[p].frame = user_l3pt'[p].frame
                                       /\ user_l3pt[p].A => user_l3pt'[p].A
                                       /\ user_l3pt[p].D => user_l3pt'[p].D
  <2>1. CASE p \in touched
    <3>1. /\ user_l3pt[p] \in Pte
          /\ user_l3pt'[p] = user_l3pt[p] \/ user_l3pt'[p] = WithBits(user_l3pt[p], p \in stores)
      BY <1>3, <1>4, <2>1
    <3>2. user_l3pt'[p] \in Pte /\ user_l3pt'[p].frame = user_l3pt[p].frame
          /\ (user_l3pt[p].A => user_l3pt'[p].A) /\ (user_l3pt[p].D => user_l3pt'[p].D)
      BY <1>5, <3>1
    <3>3. tlb'[p] \in Pte
      BY <1>2, <1>6, <2>1
    <3> QED BY <3>1, <3>2, <3>3, PteNotNone
  <2>2. CASE p \notin touched
    BY <1>1, <1>2, <1>3, <2>2
  <2> QED BY <2>1, <2>2
<1>8. user_l3pt' \in [Pages -> Pte \cup {None}] /\ user_l3pt'[0] = None
      /\ tlb' \in [Pages -> Pte \cup {None}]
  <2>1. user_l3pt' = [p \in Pages |-> user_l3pt'[p]] /\ tlb' = [p \in Pages |-> tlb'[p]]
    BY <1>1 DEF Walked
  <2> QED BY <1>1, <1>7, <2>1, Sizes
<1>9. ~hardwareAD => user_l3pt' = user_l3pt
  <2>1. ~hardwareAD => \A p \in Pages : user_l3pt'[p] = user_l3pt[p]
    BY <1>3
  <2> QED BY <1>1, <1>8, <2>1
<1>10. ASSUME NEW p \in touched, p \notin InFlight
       PROVE  user_l3pt'[p].A /\ (p \in stores => user_l3pt'[p].D)
  <2>1. CASE hardwareAD /\ e(p) # n(p)
    BY <1>3, <1>4, <1>5, <2>1
  <2>2. CASE ~(hardwareAD /\ e(p) # n(p))
    <3>1. user_l3pt'[p] = user_l3pt[p]
      BY <1>3, <1>4, <2>2
    <3>2. e(p).A /\ (p \in stores => e(p).D)
      BY <1>4, <1>6, <2>2
    <3> QED BY <1>4, <1>10, <3>1, <3>2
  <2> QED BY <2>1, <2>2
<1>11. Coherent(tlb', user_l3pt', InFlight)
  <2> SUFFICES ASSUME NEW p \in Pages, tlb'[p] # None
               PROVE  /\ user_l3pt'[p] # None /\ tlb'[p].frame = user_l3pt'[p].frame
                      /\ p \notin InFlight => /\ tlb'[p].A => user_l3pt'[p].A
                                              /\ tlb'[p].D => user_l3pt'[p].D
                                              /\ ~hardwareAD => tlb'[p] = user_l3pt'[p]
    BY DEF Coherent
  <2>1. CASE p \in touched
    <3>1. tlb'[p] = n(p) /\ n(p).frame = e(p).frame /\ e(p).frame = user_l3pt[p].frame
          /\ user_l3pt[p] # None
      BY <1>2, <1>4, <1>6, <2>1, PteNotNone
    <3>2. user_l3pt'[p] # None /\ user_l3pt'[p].frame = user_l3pt[p].frame
      BY <1>7, <3>1
    <3>3. ASSUME p \notin InFlight
          PROVE  user_l3pt'[p].A /\ (tlb'[p].D => user_l3pt'[p].D) /\ (~hardwareAD => tlb'[p] = user_l3pt'[p])
      <4>1. user_l3pt'[p].A /\ (p \in stores => user_l3pt'[p].D)
        BY <1>10, <2>1, <3>3
      <4>2. e(p).D => user_l3pt'[p].D
        BY <1>4, <1>7, <2>1, <3>1, <3>3
      <4>3. tlb'[p].D => user_l3pt'[p].D
        BY <1>6, <2>1, <3>1, <4>1, <4>2
      <4>4. ~hardwareAD => tlb'[p] = user_l3pt'[p]
        BY <1>4, <1>6, <1>9, <2>1, <3>1, <3>3
      <4> QED BY <4>1, <4>3, <4>4
    <3> QED BY <3>1, <3>2, <3>3
  <2>2. CASE p \notin touched
    <3>1. tlb'[p] = tlb[p] /\ user_l3pt'[p] = user_l3pt[p]
      BY <1>2, <1>3, <2>2
    <3> QED BY <3>1 DEF Coherent
  <2> QED BY <2>1, <2>2
<1>12. SameFrames(user_l3pt, user_l3pt')
  BY <1>7 DEF SameFrames
<1>13. \A p \in Pages : p \notin touched => user_l3pt'[p] = user_l3pt[p]
  BY <1>3
<1>14. \A p \in touched : user_l3pt[p] # None /\ Entry(p).frame = user_l3pt[p].frame
  BY <1>4, PteNotNone DEF e
<1> QED BY <1>7, <1>8, <1>9, <1>10, <1>11, <1>12, <1>13, <1>14 DEF AfterWalk

------------------------------------------------------------------------------
(* What the actions have in common *)

LEMMA CoherentNext ==
    ASSUME hardwareAD' = hardwareAD, Coherent(tlb', user_l3pt', InFlight')
    PROVE  Coherent(tlb, user_l3pt, InFlight)'
  BY DEF Coherent

LEMMA DistinctNext ==
    ASSUME Distinct(user_l3pt), SameFrames(user_l3pt, user_l3pt')
    PROVE  Distinct(user_l3pt)'
<1>1. \A p \in UserPages : /\ user_l3pt[p] = None <=> user_l3pt'[p] = None
                           /\ user_l3pt[p] # None => user_l3pt[p].frame = user_l3pt'[p].frame
  BY Sizes DEF SameFrames
<1> QED BY <1>1 DEF Distinct

LEMMA ListNext ==
    ASSUME ListInv, SameFrames(user_l3pt, user_l3pt'), user_mapping' = user_mapping,
           pc \notin {"evict", "exit"}, pc' \notin {"evict", "exit"},
           UNCHANGED <<freelist_nodes, freelist_head>>
    PROVE  ListInv'
<1>1. \A p \in UserPages : /\ user_l3pt[p] = None <=> user_l3pt'[p] = None
                           /\ user_l3pt[p] # None => user_l3pt[p].frame = user_l3pt'[p].frame
  BY Sizes DEF SameFrames
<1>2. {p \in UserPages : user_l3pt'[p] # None} = {p \in UserPages : user_l3pt[p] # None}
  BY <1>1
<1>3. ASSUME NEW j \in Pages, Taken(j) PROVE Taken(j)'
  BY <1>1, <1>2, <1>3 DEF Taken
<1> QED BY <1>1, <1>3 DEF ListInv

LEMMA ListEvict ==
    ASSUME TypeOK, ListInv, SameFrames(user_l3pt, user_l3pt'), pc \notin {"exit"}, pc' = "evict",
           \A p \in UserPages : p >= i' => user_mapping'[p].addr = user_mapping[p].addr,
           pc = "evict" => i' >= i, i' \in Int
    PROVE  ListInv'
<1>1. \A p \in UserPages : /\ user_l3pt[p] = None <=> user_l3pt'[p] = None
  BY Sizes DEF SameFrames
<1>2. UserPages \subseteq Int /\ i \in Int
  BY Sizes DEF TypeOK
<1>3. ASSUME NEW p \in UserPages, p >= i', user_mapping'[p].addr # 0 PROVE user_l3pt'[p] # None
  <2>1. user_mapping[p].addr # 0
    BY <1>3
  <2>2. CASE pc = "evict"
    <3>1. p >= i
      BY <1>2, <1>3, <2>2
    <3> QED BY <1>1, <2>1, <2>2, <3>1 DEF ListInv
  <2>3. CASE pc # "evict"
    BY <1>1, <2>1, <2>3 DEF ListInv
  <2> QED BY <2>2, <2>3
<1> QED BY <1>3 DEF ListInv

\* What a step shows of a page keeps PagesInv.
LEMMA PagesNext ==
    ASSUME PagesInv, SameFrames(user_l3pt, user_l3pt'), pc # "exit",
           \A p \in UserPages : user_l3pt[p] # None /\ (pc' = "evict" => p >= i') =>
             /\ pc = "evict" => p >= i
             /\ Accessed(p) => Accessed(p)'
             /\ Unchanged(p) => Unchanged(p)'
    PROVE  PagesInv'
<1>1. \A p \in UserPages : user_l3pt[p] = None <=> user_l3pt'[p] = None
  BY Sizes DEF SameFrames
<1>2. ASSUME NEW p \in UserPages, user_l3pt'[p] # None, pc' = "evict" => p >= i'
      PROVE  Accessed(p)' /\ Unchanged(p)'
  <2>1. Accessed(p) /\ Unchanged(p)
    BY <1>1, <1>2 DEF PagesInv
  <2> QED BY <1>1, <1>2, <2>1
<1> QED BY <1>2 DEF PagesInv

LEMMA SameFramesSame == user_l3pt' = user_l3pt => SameFrames(user_l3pt, user_l3pt')
  BY DEF SameFrames

\* Steps that leave the page table, the free list and the memory alone.
LEMMA FrameStep ==
    ASSUME Inv, TypeOK', pc # "exit", pc' \notin {"exit", "evict"}, pc # "evict",
           UNCHANGED <<user_l3pt, user_mapping, freelist_nodes, freelist_head, memory, home, hardwareAD, tohost>>,
           Coherent(tlb', user_l3pt, InFlight'), FaultInv',
           \A p \in UserPages : user_l3pt[p] # None => /\ Accessed(p) => Accessed(p)'
                                                       /\ Unchanged(p) => Unchanged(p)'
    PROVE  Inv'
<1>1. SameFrames(user_l3pt, user_l3pt')
  BY SameFramesSame
<1>2. Coherent(tlb, user_l3pt, InFlight)'
  BY CoherentNext
<1>3. Distinct(user_l3pt)'
  BY <1>1, DistinctNext DEF Inv
<1>4. ListInv'
  BY <1>1, ListNext DEF Inv
<1>5. PagesInv'
  BY <1>1, PagesNext DEF Inv
<1>6. ExitInv'
  BY DEF Inv, ExitInv
<1> QED BY <1>2, <1>3, <1>4, <1>5, <1>6 DEF Inv

------------------------------------------------------------------------------
(* The actions *)

LEMMA BeginInv ==
    ASSUME Inv, NEW in \in Instructions, Begin(in)
    PROVE  Inv'
<1> USE DEF Begin
<1>1. TypeOK'
  BY DEF Inv, TypeOK, tables, list, mem, hart, cpu
<1>2. UNCHANGED <<pc, tf, user_l3pt, user_mapping, freelist_nodes, freelist_head, memory, home, tlb, hardwareAD, tohost>>
      /\ instr = None /\ pc = "user"
  BY DEF tables, list, mem, hart, cpu
<1>3. InFlight' = InFlight /\ FaultInv'
  BY <1>2 DEF InFlight, FaultInv, Handling
<1>4. \A p \in UserPages : (Accessed(p) => Accessed(p)') /\ (Unchanged(p) => Unchanged(p)')
  BY <1>2 DEF Accessed, Unchanged
<1>5. Coherent(tlb', user_l3pt, InFlight')
  BY <1>2, <1>3 DEF Inv
<1> HIDE DEF Begin
<1> QED BY <1>1, <1>2, <1>3, <1>4, <1>5, FrameStep

LEMMA DropInv ==
    ASSUME Inv, NEW p \in UserPages, Drop(p)
    PROVE  Inv'
<1> USE DEF Drop
<1>1. UNCHANGED <<pc, tf, regs, instr, user_l3pt, user_mapping, freelist_nodes, freelist_head, freelist_tail,
                  memory, home, hardwareAD, tohost, i>>
      /\ tlb' = [tlb EXCEPT ![p] = None] /\ pc # "exit"
  BY DEF tables, list, mem, cpu
<1> HIDE DEF Drop
<1>2. TypeOK'
  BY <1>1 DEF Inv, TypeOK
<1>3. InFlight' = InFlight /\ SameFrames(user_l3pt, user_l3pt')
  BY <1>1, SameFramesSame DEF InFlight
<1>4. Coherent(tlb', user_l3pt', InFlight')
  <2>1. \A q \in Pages : tlb'[q] = tlb[q] \/ tlb'[q] = None
    BY <1>1 DEF Inv, TypeOK
  <2> QED BY <1>1, <1>3, <2>1 DEF Inv, Coherent
<1>5. Coherent(tlb, user_l3pt, InFlight)'
  BY <1>1, <1>4, CoherentNext
<1>6. Distinct(user_l3pt)'
  BY <1>3, DistinctNext DEF Inv
<1>7. FaultInv'
  BY <1>1 DEF Inv, FaultInv
<1>8. ListInv'
  BY <1>1 DEF Inv, ListInv, Taken
<1>9. PagesInv' /\ ExitInv'
  BY <1>1 DEF Inv, PagesInv, Accessed, Unchanged, ExitInv
<1> QED BY <1>2, <1>5, <1>6, <1>7, <1>8, <1>9 DEF Inv

LEMMA PrefetchInv ==
    ASSUME Inv, NEW p \in UserPages, Prefetch(p)
    PROVE  Inv'
<1>1. /\ UNCHANGED <<pc, tf, regs, instr, user_mapping, freelist_nodes, freelist_head, freelist_tail,
                     memory, home, hardwareAD, tohost, i>>
      /\ pc # "exit" /\ Translates(p, FALSE) /\ Walked({p}, {})
  BY DEF Prefetch, list, mem, cpu
<1>2. AfterWalk({p}, {})
  <2>1. \A q \in {p} \cup {} : Translates(q, q \in {})
    BY <1>1 DEF Translates
  <2>2. {p} \in SUBSET Pages /\ {} \in SUBSET Pages
    BY Sizes
  <2> QED BY <1>1, <2>1, <2>2, WalkedSound DEF Inv
<1>3. TypeOK'
  BY <1>1, <1>2 DEF Inv, TypeOK, AfterWalk
<1>4. InFlight' = InFlight /\ SameFrames(user_l3pt, user_l3pt')
  BY <1>1, <1>2 DEF InFlight, AfterWalk
<1>5. Coherent(tlb, user_l3pt, InFlight)'
  BY <1>1, <1>2, <1>4, CoherentNext DEF AfterWalk
<1>6. Distinct(user_l3pt)'
  BY <1>4, DistinctNext DEF Inv
<1>7. \A q \in Pages : user_l3pt[q] # None => /\ user_l3pt'[q] # None /\ user_l3pt'[q].frame = user_l3pt[q].frame
                                              /\ user_l3pt[q].A => user_l3pt'[q].A
                                              /\ user_l3pt[q].D => user_l3pt'[q].D
  BY <1>2 DEF AfterWalk, SameFrames
<1>8. FaultInv'
  <2>1. pc \in Handling => tf.badvaddr \in Pages
    BY DEF Inv, TypeOK, Handling, Trapframes
  <2>2. ASSUME pc = "handle_fault" PROVE user_l3pt'[tf.badvaddr] = user_l3pt[tf.badvaddr]
    <3>1. CASE hardwareAD
      <4>1. tf.badvaddr \in Pages /\ user_l3pt[tf.badvaddr] = None
        BY <2>1, <2>2, <3>1 DEF Inv, FaultInv, Handling
      <4> QED BY <1>4, <4>1 DEF SameFrames
    <3>2. CASE ~hardwareAD
      BY <1>2, <3>2 DEF AfterWalk
    <3> QED BY <3>1, <3>2
  <2>3. FaultInv
    BY DEF Inv
  <2>4. pc \in Handling => instr # None /\ tf.badvaddr \in Touched(instr) /\ tf.cause \in Faults
    BY <2>3 DEF FaultInv
  <2>5. pc \in Handling \ {"handle_fault"} =>
            tf.badvaddr \in UserPages /\ user_l3pt'[tf.badvaddr] # None
    BY <1>7, <2>1, <2>3 DEF FaultInv
  <2>6. pc \in {"mapped", "fill"} => user_l3pt'[tf.badvaddr].A /\ user_l3pt'[tf.badvaddr].D
    BY <1>7, <2>1, <2>3 DEF FaultInv, Handling
  <2>7. pc = "filled" => memory[user_l3pt'[tf.badvaddr].frame] = home[tf.badvaddr]
    BY <1>7, <2>1, <2>3 DEF FaultInv, Handling
  <2> QED BY <1>1, <2>2, <2>3, <2>4, <2>5, <2>6, <2>7 DEF FaultInv
<1>9. \A q \in UserPages : user_l3pt[q] # None => (Accessed(q) => Accessed(q)') /\ (Unchanged(q) => Unchanged(q)')
  BY <1>1, <1>7, Sizes DEF Accessed, Unchanged
<1>10. PagesInv'
  BY <1>1, <1>4, <1>9, PagesNext DEF Inv
<1>11. ListInv'
  <2>1. CASE pc # "evict"
    BY <1>1, <1>4, <2>1, ListNext DEF Inv
  <2>2. CASE pc = "evict"
    <3>1. i' \in Int /\ i' >= i
      BY <1>1 DEF Inv, TypeOK
    <3> QED BY <1>1, <1>4, <2>2, <3>1, ListEvict DEF Inv
  <2> QED BY <2>1, <2>2
<1>12. ExitInv'
  BY <1>1 DEF Inv, ExitInv
<1> QED BY <1>3, <1>5, <1>6, <1>8, <1>10, <1>11, <1>12 DEF Inv

\* What an instruction of the test that completes does.
Executed ==
    /\ pc = "user" /\ instr \in Instructions /\ instr.op \in {"load", "store", "li"}
    /\ pc' = "user" /\ instr' = None
    /\ UNCHANGED <<tf, user_mapping, freelist_nodes, freelist_head, freelist_tail, home, hardwareAD, tohost, i>>
    /\ user_l3pt' \in [Pages -> Pte \cup {None}] /\ user_l3pt'[0] = None
    /\ tlb' \in [Pages -> Pte \cup {None}]
    /\ SameFrames(user_l3pt, user_l3pt')
    /\ \A p \in Pages : user_l3pt[p] # None => /\ user_l3pt[p].A => user_l3pt'[p].A
                                               /\ user_l3pt[p].D => user_l3pt'[p].D
    /\ \A p \in Touched(instr) : p \in UserPages /\ user_l3pt[p] # None /\ user_l3pt'[p].A
    /\ Coherent(tlb', user_l3pt', {})
    /\ regs' = CASE instr.op = "load" -> [regs EXCEPT ![instr.reg] = memory[user_l3pt[instr.page].frame]]
                 [] instr.op = "li"   -> [regs EXCEPT ![instr.reg] = instr.word]
                 [] OTHER -> regs
    /\ memory' = IF instr.op = "store" THEN [memory EXCEPT ![user_l3pt[instr.page].frame] = regs[instr.reg]]
                 ELSE memory
    /\ instr.op = "store" => user_l3pt'[instr.page].D

LEMMA ExecuteFacts ==
    ASSUME Inv, Execute
    PROVE  Executed
<1> DEFINE as == Accesses(instr)
           stores == {as[k].page : k \in {n \in DOMAIN as : as[n].cause = "STORE_PAGE_FAULT"}}
           loads == {as[k].page : k \in DOMAIN as} \ stores
<1>1. /\ pc = "user" /\ instr # None /\ instr.op # "ecall" /\ instr' = None
      /\ \A k \in DOMAIN as : Passes(as[k])
      /\ Walked(loads, stores)
      /\ UNCHANGED <<pc, tf, user_mapping, freelist_nodes, freelist_head, freelist_tail, home, hardwareAD, tohost, i>>
  BY DEF Execute, list
<1>2. /\ regs' = CASE instr.op = "load" -> [regs EXCEPT ![instr.reg] = memory[Entry(instr.page).frame]]
                   [] instr.op = "li"   -> [regs EXCEPT ![instr.reg] = instr.word]
                   [] OTHER -> regs
      /\ memory' = IF instr.op = "store" THEN [memory EXCEPT ![Entry(instr.page).frame] = regs[instr.reg]]
                   ELSE memory
  BY DEF Execute
<1>3. instr \in Instructions /\ instr.op \in {"load", "store", "li"} /\ Touched(instr) \subseteq Pages
  BY <1>1, InstructionType DEF Inv, TypeOK
<1>4. /\ 1 \in DOMAIN as /\ as[1].page = instr.fetch /\ as[1].cause = "FETCH_PAGE_FAULT"
      /\ \A k \in DOMAIN as : /\ as[k].page \in Touched(instr) /\ as[k].cause \in Faults
                              /\ as[k].cause = "STORE_PAGE_FAULT" <=> k = 2 /\ instr.op = "store"
      /\ instr.op \in {"load", "store"} => 2 \in DOMAIN as /\ as[2].page = instr.page
      /\ instr.op \notin {"load", "store"} => DOMAIN as = {1}
      /\ DOMAIN as \subseteq {1, 2}
  BY <1>3, AccessesOf
<1> HIDE DEF as
<1>5. loads \cup stores = Touched(instr)
  <2>1. \A k \in DOMAIN as : as[k].page \in loads \cup stores
    OBVIOUS
  <2>2. instr.fetch \in loads \cup stores /\ (instr.op \in {"load", "store"} => instr.page \in loads \cup stores)
    BY <1>4, <2>1
  <2>3. Touched(instr) \subseteq loads \cup stores
    BY <2>2 DEF Touched
  <2>4. loads \cup stores \subseteq Touched(instr)
    BY <1>4
  <2> QED BY <2>3, <2>4
<1>6. instr.op = "store" => instr.page \in stores
  BY <1>4
<1>7. ASSUME NEW p \in loads \cup stores PROVE Translates(p, p \in stores)
  <2>1. CASE p \in stores
    <3>1. PICK k \in DOMAIN as : as[k].cause = "STORE_PAGE_FAULT" /\ p = as[k].page
      BY <2>1
    <3>2. Translates(p, TRUE)
      BY <1>1, <3>1 DEF Passes, Translates
    <3> QED BY <2>1, <3>2 DEF Translates
  <2>2. CASE p \notin stores
    <3>1. PICK k \in DOMAIN as : p = as[k].page
      BY <2>2
    <3>2. Translates(p, FALSE)
      BY <1>1, <3>1 DEF Passes, Translates
    <3> QED BY <2>2, <3>2 DEF Translates
  <2> QED BY <2>1, <2>2
<1> HIDE DEF loads, stores
<1>8. loads \in SUBSET Pages /\ stores \in SUBSET Pages
  BY <1>3, <1>5
<1>9. AfterWalk(loads, stores)
  BY <1>1, <1>7, <1>8, WalkedSound DEF Inv
<1>10. InFlight = {}
  BY <1>1 DEF InFlight
<1>11. \A p \in Touched(instr) : /\ user_l3pt[p] # None /\ Entry(p).frame = user_l3pt[p].frame
                                 /\ user_l3pt'[p].A /\ (p \in stores => user_l3pt'[p].D)
  BY <1>5, <1>9, <1>10 DEF AfterWalk
<1>12. \A p \in Touched(instr) : p \in UserPages
  BY <1>3, <1>11, Sizes DEF Inv, TypeOK
<1>13. instr.op \in {"load", "store"} => instr.page \in Touched(instr)
  BY DEF Touched
<1>14. regs' = CASE instr.op = "load" -> [regs EXCEPT ![instr.reg] = memory[user_l3pt[instr.page].frame]]
                 [] instr.op = "li"   -> [regs EXCEPT ![instr.reg] = instr.word]
                 [] OTHER -> regs
  <2>1. CASE instr.op = "load"
    BY <1>2, <1>11, <1>13, <2>1
  <2>2. CASE instr.op # "load"
    BY <1>2, <2>2
  <2> QED BY <2>1, <2>2
<1>15. memory' = IF instr.op = "store" THEN [memory EXCEPT ![user_l3pt[instr.page].frame] = regs[instr.reg]]
                 ELSE memory
  BY <1>2, <1>11, <1>13
<1>16. instr.op = "store" => user_l3pt'[instr.page].D
  BY <1>6, <1>11, <1>13
<1> QED BY <1>1, <1>3, <1>9, <1>10, <1>11, <1>12, <1>14, <1>15, <1>16 DEF AfterWalk, Executed

LEMMA ExecuteInv ==
    ASSUME Inv, Execute
    PROVE  Inv'
<1>1. Executed
  BY ExecuteFacts
<1>2. /\ regs \in [Registers -> Words] /\ memory \in [Frames -> Words]
      /\ user_l3pt \in [Pages -> Pte \cup {None}]
  BY <1>1 DEF Inv, TypeOK, Executed
<1>3. /\ instr.op \in {"load", "store"} => instr.page \in Pages /\ instr.reg \in Registers
      /\ instr.op = "li" => instr.reg \in Registers /\ instr.word \in Words
  BY <1>1, InstructionType DEF Executed
<1>4. instr.op \in {"load", "store"} => /\ instr.page \in UserPages /\ user_l3pt[instr.page] # None
                                        /\ user_l3pt[instr.page].frame \in Frames
  <2>1. instr.op \in {"load", "store"} => instr.page \in Touched(instr)
    BY DEF Touched
  <2>2. instr.op \in {"load", "store"} => instr.page \in UserPages /\ user_l3pt[instr.page] # None
    BY <1>1, <2>1 DEF Executed
  <2> QED BY <1>2, <1>3, <2>2 DEF Pte
<1>5. regs' \in [Registers -> Words]
  <2>1. CASE instr.op = "load"
    <3>1. regs' = [regs EXCEPT ![instr.reg] = memory[user_l3pt[instr.page].frame]]
      BY <1>1, <2>1 DEF Executed
    <3> QED BY <1>2, <1>3, <1>4, <2>1, <3>1
  <2>2. CASE instr.op = "li"
    <3>1. regs' = [regs EXCEPT ![instr.reg] = instr.word]
      BY <1>1, <2>2 DEF Executed
    <3> QED BY <1>2, <1>3, <2>2, <3>1
  <2>3. CASE instr.op = "store"
    BY <1>1, <1>2, <2>3 DEF Executed
  <2> QED BY <1>1, <2>1, <2>2, <2>3 DEF Executed
<1>6. memory' \in [Frames -> Words]
  BY <1>1, <1>2, <1>3, <1>4 DEF Executed
<1>7. TypeOK'
  BY <1>1, <1>5, <1>6 DEF Executed, Inv, TypeOK
<1>8. InFlight' = {} /\ SameFrames(user_l3pt, user_l3pt') /\ hardwareAD' = hardwareAD
  BY <1>1 DEF InFlight, Executed
<1>9. Coherent(tlb, user_l3pt, InFlight)'
  BY <1>1, <1>8, CoherentNext DEF Executed
<1>10. Distinct(user_l3pt)'
  BY <1>8, DistinctNext DEF Inv
<1>11. FaultInv'
  BY <1>1 DEF Executed, FaultInv, Handling
<1>12. ASSUME NEW q \in UserPages, user_l3pt[q] # None
       PROVE  (Accessed(q) => Accessed(q)') /\ (Unchanged(q) => Unchanged(q)')
  <2>1. /\ q \in Pages /\ user_l3pt'[q].frame = user_l3pt[q].frame
        /\ user_l3pt[q].A => user_l3pt'[q].A
        /\ user_l3pt[q].D => user_l3pt'[q].D
    BY <1>1, <1>12, Sizes DEF Executed, SameFrames
  <2>2. Accessed(q) => Accessed(q)'
    BY <1>1, <2>1 DEF Accessed, Executed
  <2>3. CASE instr.op = "store" /\ instr.page = q
    BY <1>1, <2>2, <2>3 DEF Unchanged, Executed
  <2>4. CASE instr.op = "store" /\ instr.page # q
    <3>1. user_l3pt[q].frame \in Frames /\ user_l3pt[q].frame # user_l3pt[instr.page].frame
      BY <1>2, <1>4, <1>12, <2>1, <2>4 DEF Inv, Distinct, Pte
    <3>2. memory'[user_l3pt[q].frame] = memory[user_l3pt[q].frame]
      BY <1>1, <1>2, <2>4, <3>1 DEF Executed
    <3> QED BY <1>1, <2>1, <2>2, <3>2 DEF Unchanged, Executed
  <2>5. CASE instr.op # "store"
    BY <1>1, <2>1, <2>2, <2>5 DEF Unchanged, Executed
  <2> QED BY <2>2, <2>3, <2>4, <2>5
<1>13. PagesInv'
  BY <1>1, <1>8, <1>12, PagesNext DEF Inv, Executed
<1>14. ListInv'
  BY <1>1, <1>8, ListNext DEF Inv, Executed
<1>15. ExitInv'
  BY <1>1 DEF Inv, ExitInv, Executed
<1> QED BY <1>7, <1>9, <1>10, <1>11, <1>13, <1>14, <1>15 DEF Inv


LEMMA PageFaultInv ==
    ASSUME Inv, PageFault
    PROVE  Inv'
<1> DEFINE as == Accesses(instr)
<1>1. PICK k \in DOMAIN as : ~Passes(as[k]) /\ trap_entry(as[k].page, as[k].cause)
  BY DEF PageFault
<1>2. /\ pc = "user" /\ instr # None /\ pc' = "handle_fault"
      /\ UNCHANGED <<instr, user_l3pt, user_mapping, freelist_nodes, freelist_head, freelist_tail,
                     memory, home, tlb, hardwareAD, tohost, i>>
  BY DEF PageFault, tables, list, mem, hart
<1> DEFINE p == as[k].page
           c == as[k].cause
<1>3. instr \in Instructions
  BY <1>2 DEF Inv, TypeOK
<1>4. p \in Touched(instr) /\ c \in Faults /\ Touched(instr) \subseteq Pages
  BY <1>3, AccessesOf, InstructionType
<1>5. ~Translates(p, c = "STORE_PAGE_FAULT")
  BY <1>1 DEF Passes
<1>6. tf' = [gpr |-> regs, badvaddr |-> p, cause |-> c]
  BY <1>1 DEF trap_entry
<1> HIDE DEF as, p, c
<1>7. tf'.gpr = regs /\ tf'.badvaddr = p /\ tf'.cause = c
  BY <1>6
<1>8. TypeOK'
  <2>1. tf' \in Trapframes
    BY <1>2, <1>4, <1>6 DEF Inv, TypeOK, Trapframes
  <2> QED BY <1>2, <2>1 DEF Inv, TypeOK, Handling
<1>9. InFlight' = {} /\ InFlight = {}
  BY <1>2 DEF InFlight
<1>10. Coherent(tlb', user_l3pt, InFlight')
  BY <1>2, <1>9 DEF Inv
<1>11. user_l3pt[p] = None \/ (~hardwareAD /\ (~user_l3pt[p].A \/ (~user_l3pt[p].D /\ c = "STORE_PAGE_FAULT")))
  <2> SUFFICES ASSUME user_l3pt[p] # None
               PROVE  ~hardwareAD /\ (~user_l3pt[p].A \/ (~user_l3pt[p].D /\ c = "STORE_PAGE_FAULT"))
    OBVIOUS
  <2>1. Entry(p) # None
    BY DEF Entry
  <2>2. ~hardwareAD
    BY <1>5, <2>1 DEF Translates
  <2>3. Entry(p) = user_l3pt[p]
    BY <1>4, <1>9, <2>2 DEF Inv, Coherent, Entry
  <2> QED BY <1>5, <2>1, <2>2, <2>3 DEF Translates
<1>12. FaultInv'
  BY <1>2, <1>4, <1>7, <1>11 DEF FaultInv, Handling
<1>13. \A q \in UserPages : (Accessed(q) => Accessed(q)') /\ (Unchanged(q) => Unchanged(q)')
  BY <1>2 DEF Accessed, Unchanged
<1> QED BY <1>2, <1>8, <1>10, <1>12, <1>13, FrameStep

LEMMA EcallInv ==
    ASSUME Inv, Ecall
    PROVE  Inv'
<1>1. /\ pc = "user" /\ instr # None /\ instr.op = "ecall" /\ pc' = "evict" /\ i' = 1
      /\ Passes(Accesses(instr)[1]) /\ Walked({instr.fetch}, {})
      /\ UNCHANGED <<instr, user_mapping, freelist_nodes, freelist_head, freelist_tail,
                     memory, home, hardwareAD, tohost>>
      /\ tf' = [gpr |-> regs, badvaddr |-> 0, cause |-> "USER_ECALL"]
  BY DEF Ecall, trap_entry, list, mem
<1>2. instr \in Instructions
  BY <1>1 DEF Inv, TypeOK
<1>3. /\ Accesses(instr)[1].page = instr.fetch /\ Accesses(instr)[1].cause = "FETCH_PAGE_FAULT"
      /\ instr.fetch \in UserPages
  BY <1>2, AccessesOf, InstructionType
<1>4. AfterWalk({instr.fetch}, {})
  <2>1. \A q \in {instr.fetch} \cup {} : Translates(q, q \in {})
    BY <1>1, <1>3 DEF Translates, Passes
  <2>2. {instr.fetch} \in SUBSET Pages /\ {} \in SUBSET Pages
    BY <1>3, Sizes
  <2> QED BY <1>1, <2>1, <2>2, WalkedSound DEF Inv
<1>5. TypeOK'
  <2>1. tf' \in Trapframes
    BY <1>1, Sizes DEF Inv, TypeOK, Trapframes
  <2>2. i' \in 1..MAX_TEST_PAGES
    BY <1>1, Sizes
  <2> QED BY <1>1, <1>4, <2>1, <2>2 DEF Inv, TypeOK, AfterWalk
<1>6. InFlight' = {} /\ InFlight = {} /\ SameFrames(user_l3pt, user_l3pt')
  BY <1>1, <1>4 DEF InFlight, AfterWalk
<1>7. Coherent(tlb, user_l3pt, InFlight)'
  BY <1>1, <1>4, <1>6, CoherentNext DEF AfterWalk
<1>8. Distinct(user_l3pt)'
  BY <1>6, DistinctNext DEF Inv
<1>9. FaultInv'
  BY <1>1 DEF FaultInv, Handling
<1>10. ASSUME NEW q \in UserPages, user_l3pt[q] # None
       PROVE  (Accessed(q) => Accessed(q)') /\ (Unchanged(q) => Unchanged(q)')
  <2>1. /\ user_l3pt'[q].frame = user_l3pt[q].frame
        /\ user_l3pt[q].A => user_l3pt'[q].A
        /\ user_l3pt[q].D => user_l3pt'[q].D
    BY <1>4, <1>10, Sizes DEF AfterWalk, SameFrames
  <2>2. q \in Touched(instr) => user_l3pt'[q].A
    BY <1>1, <1>4, <1>6 DEF AfterWalk, Touched
  <2>3. Accessed(q) => Accessed(q)'
    BY <2>1, <2>2 DEF Accessed
  <2>4. Unchanged(q) => Unchanged(q)'
    BY <1>1, <2>1 DEF Unchanged
  <2> QED BY <2>3, <2>4
<1>11. PagesInv'
  BY <1>1, <1>6, <1>10, PagesNext DEF Inv
<1>12. ListInv'
  <2>1. i' \in Int
    BY <1>1
  <2> QED BY <1>1, <1>6, <2>1, ListEvict DEF Inv
<1>13. ExitInv'
  BY <1>1 DEF Inv, ExitInv
<1> QED BY <1>5, <1>7, <1>8, <1>9, <1>11, <1>12, <1>13 DEF Inv

\* A fence for the page in flight leaves the TLB coherent.
LEMMA Flushed ==
    ASSUME Inv, pc \in Handling \ {"handle_fault"}, flush_page(tf.badvaddr)
    PROVE  tlb' \in [Pages -> Pte \cup {None}] /\ Coherent(tlb', user_l3pt, {})
<1>1. tlb' = [tlb EXCEPT ![tf.badvaddr] = None] /\ tlb \in [Pages -> Pte \cup {None}]
  BY DEF flush_page, Inv, TypeOK
<1>2. \A q \in Pages : tlb'[q] = IF q = tf.badvaddr THEN None ELSE tlb[q]
  BY <1>1
<1>3. \A q \in InFlight : q = tf.badvaddr
  BY DEF InFlight
<1>4. Coherent(tlb, user_l3pt, InFlight)
  BY DEF Inv
<1>5. Coherent(tlb', user_l3pt, {})
  BY <1>2, <1>3, <1>4 DEF Coherent
<1> QED BY <1>1, <1>5

LEMMA ReturnInv ==
    ASSUME Inv, FlushReturn \/ FlushProtected
    PROVE  Inv'
<1>1. /\ pc \in {"flush", "protected"} /\ pc' = "user" /\ flush_page(tf.badvaddr) /\ regs' = tf.gpr
      /\ UNCHANGED <<instr, user_l3pt, user_mapping, freelist_nodes, freelist_head, freelist_tail,
                     memory, home, hardwareAD, tohost, i>>
  BY DEF FlushReturn, FlushProtected, pop_tf, tables, list, mem
<1>2. tlb' \in [Pages -> Pte \cup {None}] /\ Coherent(tlb', user_l3pt, {})
  BY <1>1, Flushed DEF Handling
<1>3. TypeOK'
  <2>1. regs' \in [Registers -> Words]
    BY <1>1 DEF Inv, TypeOK, Trapframes
  <2> QED BY <1>1, <1>2, <2>1 DEF Inv, TypeOK
<1>4. Coherent(tlb', user_l3pt, InFlight')
  BY <1>1, <1>2 DEF InFlight
<1>5. FaultInv'
  BY <1>1 DEF FaultInv, Handling
<1>6. \A q \in UserPages : (Accessed(q) => Accessed(q)') /\ (Unchanged(q) => Unchanged(q)')
  BY <1>1 DEF Accessed, Unchanged
<1> QED BY <1>1, <1>3, <1>4, <1>5, <1>6, FrameStep

LEMMA FlushMappedInv ==
    ASSUME Inv, FlushMapped
    PROVE  Inv'
<1>1. /\ pc = "mapped" /\ pc' = "fill" /\ flush_page(tf.badvaddr)
      /\ UNCHANGED <<regs, tf, instr, user_l3pt, user_mapping, freelist_nodes, freelist_head, freelist_tail,
                     memory, home, hardwareAD, tohost, i>>
  BY DEF FlushMapped, tables, list, mem, cpu
<1>2. tlb' \in [Pages -> Pte \cup {None}] /\ Coherent(tlb', user_l3pt, {})
  BY <1>1, Flushed DEF Handling
<1>3. TypeOK'
  BY <1>1, <1>2 DEF Inv, TypeOK, Handling
<1>4. Coherent(tlb', user_l3pt, InFlight')
  BY <1>1, <1>2 DEF InFlight
<1>5. FaultInv'
  BY <1>1 DEF Inv, FaultInv, Handling
<1>6. \A q \in UserPages : (Accessed(q) => Accessed(q)') /\ (Unchanged(q) => Unchanged(q)')
  BY <1>1 DEF Accessed, Unchanged
<1> QED BY <1>1, <1>3, <1>4, <1>5, <1>6, FrameStep

\* Filling page p, which the handler has mapped, leaves the other pages alone.
LEMMA FillFacts ==
    ASSUME Inv, Fill
    PROVE  LET p == tf.badvaddr IN
           /\ pc = "fill" /\ pc' = "filled" /\ p \in UserPages /\ user_l3pt[p] # None
           /\ UNCHANGED <<regs, tf, instr, user_mapping, freelist_nodes, freelist_head, freelist_tail,
                          home, hardwareAD, tohost, i>>
           /\ AfterWalk({}, {p})
           /\ memory' \in [Frames -> Words]
           /\ memory'[user_l3pt[p].frame] = home[p]
           /\ \A q \in UserPages : q # p /\ user_l3pt[q] # None =>
                memory'[user_l3pt[q].frame] = memory[user_l3pt[q].frame]
<1> DEFINE p == tf.badvaddr
<1>1. /\ pc = "fill" /\ pc' = "filled" /\ Translates(p, TRUE)
      /\ UNCHANGED <<regs, tf, instr, user_mapping, freelist_nodes, freelist_head, freelist_tail,
                     home, hardwareAD, tohost, i>>
      /\ memory' = [memory EXCEPT ![Entry(p).frame] = home[p]]
      /\ Walked({}, {p})
  BY DEF Fill, list, cpu
<1>2. p \in UserPages /\ user_l3pt[p] # None
  BY <1>1 DEF Inv, FaultInv, Handling
<1> HIDE DEF p
<1>3. AfterWalk({}, {p})
  <2>1. \A q \in {} \cup {p} : Translates(q, q \in {p})
    BY <1>1 DEF Translates
  <2>2. {p} \in SUBSET Pages /\ {} \in SUBSET Pages
    BY <1>2, Sizes
  <2> QED BY <1>1, <2>1, <2>2, WalkedSound DEF Inv
<1>4. Entry(p).frame = user_l3pt[p].frame
  BY <1>3 DEF AfterWalk
<1>5. /\ memory \in [Frames -> Words] /\ home \in [UserPages -> Words] /\ user_l3pt \in [Pages -> Pte \cup {None}]
      /\ \A q \in UserPages : user_l3pt[q] # None => user_l3pt[q].frame \in Frames
  <2>1. memory \in [Frames -> Words] /\ home \in [UserPages -> Words] /\ user_l3pt \in [Pages -> Pte \cup {None}]
    BY DEF Inv, TypeOK
  <2> QED BY <2>1, Sizes DEF Pte
<1>6. memory' = [memory EXCEPT ![user_l3pt[p].frame] = home[p]]
  BY <1>1, <1>4
<1>7. memory' \in [Frames -> Words] /\ memory'[user_l3pt[p].frame] = home[p]
  BY <1>2, <1>5, <1>6
<1>8. \A q \in UserPages : q # p /\ user_l3pt[q] # None => memory'[user_l3pt[q].frame] = memory[user_l3pt[q].frame]
  BY <1>2, <1>5, <1>6 DEF Inv, Distinct
<1> QED BY <1>1, <1>2, <1>3, <1>7, <1>8 DEF p

LEMMA FillInv ==
    ASSUME Inv, Fill
    PROVE  Inv'
<1> DEFINE p == tf.badvaddr
<1>1. /\ pc = "fill" /\ pc' = "filled" /\ p \in UserPages /\ user_l3pt[p] # None
      /\ UNCHANGED <<regs, tf, instr, user_mapping, freelist_nodes, freelist_head, freelist_tail,
                     home, hardwareAD, tohost, i>>
      /\ AfterWalk({}, {p})
      /\ memory' \in [Frames -> Words]
      /\ memory'[user_l3pt[p].frame] = home[p]
      /\ \A q \in UserPages : q # p /\ user_l3pt[q] # None =>
           memory'[user_l3pt[q].frame] = memory[user_l3pt[q].frame]
  BY FillFacts
<1>2. TypeOK'
  BY <1>1 DEF Inv, TypeOK, AfterWalk, Handling
<1>3. InFlight' = {} /\ InFlight = {} /\ SameFrames(user_l3pt, user_l3pt')
  BY <1>1 DEF InFlight, AfterWalk
<1>4. Coherent(tlb, user_l3pt, InFlight)'
  BY <1>1, <1>3, CoherentNext DEF AfterWalk
<1>5. Distinct(user_l3pt)'
  BY <1>3, DistinctNext DEF Inv
<1>6. \A q \in UserPages : user_l3pt[q] # None => /\ user_l3pt'[q] # None /\ user_l3pt'[q].frame = user_l3pt[q].frame
                                                  /\ user_l3pt[q].A => user_l3pt'[q].A
                                                  /\ user_l3pt[q].D => user_l3pt'[q].D
  BY <1>1, Sizes DEF AfterWalk, SameFrames
<1>7. FaultInv'
  <2>1. instr # None /\ tf.badvaddr \in Touched(instr) /\ tf.cause \in Faults
    BY <1>1 DEF Inv, FaultInv, Handling
  <2> QED BY <1>1, <1>6, <2>1 DEF FaultInv, Handling
<1>8. ASSUME NEW q \in UserPages, user_l3pt[q] # None
      PROVE  (Accessed(q) => Accessed(q)') /\ (Unchanged(q) => Unchanged(q)')
  <2>1. Accessed(q) => Accessed(q)'
    BY <1>1, <1>6, <1>8 DEF Accessed
  <2>2. CASE q = p
    <3>1. memory'[user_l3pt'[q].frame] = home'[q]
      BY <1>1, <1>6, <2>2
    <3> QED BY <2>1, <3>1 DEF Unchanged
  <2>3. CASE q # p
    BY <1>1, <1>6, <1>8, <2>1, <2>3 DEF Unchanged
  <2> QED BY <2>2, <2>3
<1>9. PagesInv'
  BY <1>1, <1>3, <1>8, PagesNext DEF Inv
<1>10. ListInv'
  BY <1>1, <1>3, ListNext DEF Inv
<1>11. ExitInv'
  BY <1>1 DEF Inv, ExitInv
<1> QED BY <1>2, <1>4, <1>5, <1>7, <1>9, <1>10, <1>11 DEF Inv


\* The handler changes the bits of the page in flight.
LEMMA EntryChanged ==
    ASSUME Inv, pc \in Handling, tf.badvaddr \in UserPages, user_l3pt[tf.badvaddr] # None,
           pc' \in {"flush", "protected"},
           UNCHANGED <<regs, tf, instr, user_mapping, freelist_nodes, freelist_head, freelist_tail,
                       memory, home, tlb, hardwareAD, tohost, i>>,
           NEW e \in Pte, e.frame = user_l3pt[tf.badvaddr].frame,
           user_l3pt' = [user_l3pt EXCEPT ![tf.badvaddr] = e],
           \/ memory[user_l3pt[tf.badvaddr].frame] = home[tf.badvaddr]
           \/ pc = "handle_fault" /\ (user_l3pt[tf.badvaddr].D => e.D)
    PROVE  Inv'
<1> DEFINE p == tf.badvaddr
<1>1. p \in Pages /\ user_l3pt \in [Pages -> Pte \cup {None}]
  BY Sizes DEF Inv, TypeOK
<1>2. user_l3pt' \in [Pages -> Pte \cup {None}] /\ user_l3pt'[p] = e /\ e # None
      /\ \A q \in Pages : q # p => user_l3pt'[q] = user_l3pt[q]
  BY <1>1, PteNotNone
<1>3. user_l3pt'[0] = None
  BY <1>2, Sizes DEF Inv, TypeOK
<1>4. TypeOK'
  BY <1>2, <1>3 DEF Inv, TypeOK, Handling
<1>5. SameFrames(user_l3pt, user_l3pt')
  BY <1>1, <1>2 DEF SameFrames
<1>6. InFlight' = {p} /\ InFlight \subseteq {p}
  BY DEF InFlight
<1>7. Coherent(tlb', user_l3pt', InFlight')
  <2>1. Coherent(tlb, user_l3pt, InFlight)
    BY DEF Inv
  <2>2. \A q \in Pages : q = p \/ q \notin InFlight
    BY <1>6
  <2> QED BY <1>2, <1>6, <2>1, <2>2 DEF Coherent
<1>8. Coherent(tlb, user_l3pt, InFlight)'
  BY <1>7, CoherentNext
<1>9. Distinct(user_l3pt)'
  BY <1>5, DistinctNext DEF Inv
<1>10. p \in Touched(instr) /\ instr # None /\ tf.cause \in Faults
  BY DEF Inv, FaultInv
<1>11. FaultInv'
  BY <1>2, <1>10 DEF FaultInv, Handling
<1>12. ASSUME NEW q \in UserPages, user_l3pt[q] # None
       PROVE  (Accessed(q) => Accessed(q)') /\ (Unchanged(q) => Unchanged(q)')
  <2>1. CASE q # p
    <3>1. user_l3pt'[q] = user_l3pt[q]
      BY <1>2, <2>1, Sizes
    <3> QED BY <2>1, <3>1 DEF Accessed, Unchanged, Handling
  <2>2. CASE q = p
    <3>1. Accessed(q)'
      BY <1>10, <2>2 DEF Accessed, Handling
    <3>2. Unchanged(q) => Unchanged(q)'
      BY <1>2, <2>2 DEF Unchanged
    <3> QED BY <3>1, <3>2
  <2> QED BY <2>1, <2>2
<1>13. pc \notin {"evict", "exit"} /\ pc' \notin {"evict", "exit"}
  BY DEF Handling
<1>14. PagesInv'
  BY <1>5, <1>12, <1>13, PagesNext DEF Inv
<1>15. ListInv'
  BY <1>5, <1>13, ListNext DEF Inv
<1>16. ExitInv'
  BY <1>13 DEF Inv, ExitInv
<1> QED BY <1>4, <1>8, <1>9, <1>11, <1>14, <1>15, <1>16 DEF Inv

LEMMA ProtectInv ==
    ASSUME Inv, Protect
    PROVE  Inv'
<1> DEFINE p == tf.badvaddr
           e == [user_l3pt[p] EXCEPT !.A = FALSE, !.D = FALSE]
<1>1. /\ pc = "filled" /\ pc' = "protected"
      /\ user_l3pt' = [user_l3pt EXCEPT ![p] = e]
      /\ UNCHANGED <<regs, tf, instr, user_mapping, freelist_nodes, freelist_head, freelist_tail,
                     memory, home, tlb, hardwareAD, tohost, i>>
  BY DEF Protect, list, mem, cpu, hart
<1>2. /\ pc \in Handling /\ p \in UserPages /\ user_l3pt[p] # None
      /\ memory[user_l3pt[p].frame] = home[p]
  BY <1>1 DEF Inv, FaultInv, Handling
<1>3. user_l3pt[p] \in Pte
  BY <1>2, Sizes DEF Inv, TypeOK
<1>4. e \in Pte /\ e.frame = user_l3pt[p].frame
  BY <1>3 DEF Pte
<1> HIDE DEF e
<1> QED BY <1>1, <1>2, <1>4, EntryChanged

LEMMA SetBitInv ==
    ASSUME Inv, pc = "handle_fault", Expected(tf.badvaddr), SetBit(tf.badvaddr)
    PROVE  Inv'
<1> DEFINE p == tf.badvaddr
           x == user_l3pt[p]
           e == IF ~x.A THEN [x EXCEPT !.A = TRUE] ELSE [x EXCEPT !.D = TRUE]
<1>1. /\ x # None /\ pc' = "flush"
      /\ user_l3pt' = [user_l3pt EXCEPT ![p] = e]
      /\ UNCHANGED <<regs, tf, instr, user_mapping, freelist_nodes, freelist_head, freelist_tail,
                     memory, home, tlb, hardwareAD, tohost, i>>
  BY DEF SetBit, list, mem, cpu, hart
<1>2. pc \in Handling /\ p \in UserPages
  BY DEF Expected, Handling
<1>3. x \in Pte
  BY <1>1, <1>2, Sizes DEF Inv, TypeOK
<1>4. e \in Pte /\ e.frame = x.frame /\ (x.D => e.D)
  BY <1>3 DEF Pte
<1> HIDE DEF e
<1> QED BY <1>1, <1>2, <1>4, EntryChanged

\* The test ends with a code.
LEMMA ExitsInv ==
    ASSUME Inv, NEW code, terminate(code), pc \in {"handle_fault", "evict"},
           UNCHANGED <<cpu, instr, tables, mem, hart, i>>,
           code = 3 => IF tf.cause = "USER_ECALL" THEN i = MAX_TEST_PAGES /\ tf.gpr["a0"] = 3
                       ELSE tf.badvaddr = 0
    PROVE  Inv'
<1>1. /\ pc' = "exit" /\ tohost' = code
      /\ UNCHANGED <<regs, tf, instr, user_l3pt, user_mapping, freelist_nodes, freelist_head, freelist_tail,
                     memory, home, tlb, hardwareAD, i>>
  BY DEF terminate, tables, list, mem, cpu, hart
<1>2. TypeOK'
  BY <1>1 DEF Inv, TypeOK
<1>3. InFlight = {} /\ InFlight' = {}
  BY <1>1 DEF InFlight
<1>4. Coherent(tlb', user_l3pt', InFlight')
  BY <1>1, <1>3 DEF Inv
<1>5. Coherent(tlb, user_l3pt, InFlight)'
  BY <1>1, <1>4, CoherentNext
<1>6. Distinct(user_l3pt)'
  BY <1>1, SameFramesSame, DistinctNext DEF Inv
<1>7. FaultInv' /\ PagesInv' /\ ListInv'
  BY <1>1 DEF FaultInv, Handling, PagesInv, ListInv
<1>8. ExitInv'
  BY <1>1 DEF ExitInv
<1> QED BY <1>2, <1>5, <1>6, <1>7, <1>8 DEF Inv

\* handle_fault finds what it asserts on every page of the test.
LEMMA FaultExpected ==
    ASSUME Inv, pc = "handle_fault", tf.badvaddr # 0
    PROVE  Expected(tf.badvaddr)
<1> DEFINE p == tf.badvaddr
<1>1. p \in UserPages
  BY Sizes DEF Inv, TypeOK, Trapframes
<1>2. CASE user_l3pt[p] # None
  BY <1>1, <1>2 DEF Inv, FaultInv, Expected
<1>3. CASE user_l3pt[p] = None
  <2>1. freelist_head # None /\ user_mapping[p].addr = 0
    BY <1>1, <1>3, NodeNotNone DEF Inv, ListInv, Taken
  <2> QED BY <1>1, <1>3, <2>1 DEF Expected
<1> QED BY <1>2, <1>3

\* The page that TakePage takes is the next one, and no page of the test has it.
LEMMA NextFree ==
    ASSUME Inv, pc = "handle_fault", tf.badvaddr \in UserPages, user_l3pt[tf.badvaddr] = None,
           NEW j \in Pages, Taken(j)
    PROVE  /\ j + 1 \in Pages /\ j + 1 \in Nat
           /\ j + 1 = Cardinality({q \in UserPages : user_l3pt[q] # None} \cup {tf.badvaddr})
           /\ Node(freelist_head) = freelist_nodes[j]
           /\ freelist_nodes[j].next = FreeNode(j + 1) /\ freelist_nodes[j].addr \in Frames
           /\ \A q \in UserPages : user_l3pt[q] # None => user_l3pt[q].frame # freelist_nodes[j].addr
<1> DEFINE p == tf.badvaddr
           S == {q \in UserPages : user_l3pt[q] # None}
<1>1. IsFiniteSet(UserPages) /\ Cardinality(UserPages) = MAX_TEST_PAGES - 1
  BY Sizes, FS_Interval DEF UserPages
<1>2. S \subseteq UserPages /\ p \notin S
  OBVIOUS
<1>3. IsFiniteSet(S)
  BY <1>1, <1>2, FS_Subset
<1>4. j = Cardinality(S) /\ j \in Nat
  BY Sizes DEF Taken
<1> HIDE DEF S
<1>5. Cardinality(S \cup {p}) = j + 1
  BY <1>2, <1>3, <1>4, FS_AddElement
<1>6. Cardinality(S \cup {p}) <= Cardinality(UserPages)
  BY <1>1, <1>2, FS_Subset
<1>7. j + 1 \in Pages /\ j + 1 \in Nat /\ j # MAX_TEST_PAGES - 1
  BY <1>1, <1>4, <1>5, <1>6, Sizes DEF Pages
<1>8. Node(freelist_head) = freelist_nodes[j]
  BY DEF Taken, Node, FreeNode
<1>9. freelist_nodes[j].next = FreeNode(j + 1) /\ freelist_nodes[j].addr \in Frames
  BY <1>7 DEF Inv, ListInv
<1>10. ASSUME NEW q \in UserPages, user_l3pt[q] # None
       PROVE  user_l3pt[q].frame # freelist_nodes[j].addr
  <2>1. PICK n \in 0..(j - 1) : freelist_nodes[n].addr = user_l3pt[q].frame
    BY <1>10 DEF Taken
  <2>2. n \in Pages /\ n # j
    BY <1>4, <2>1, Sizes DEF Pages
  <2> QED BY <2>1, <2>2 DEF Inv, ListInv
<1> QED BY <1>5, <1>7, <1>8, <1>9, <1>10 DEF S


LEMMA TakePageInv ==
    ASSUME Inv, pc = "handle_fault", Expected(tf.badvaddr), user_l3pt[tf.badvaddr] = None,
           TakePage(tf.badvaddr), pc' = "mapped",
           UNCHANGED <<cpu, instr, freelist_nodes, mem, hart, i, tohost, result>>
    PROVE  Inv'
<1> DEFINE p == tf.badvaddr
           S == {q \in UserPages : user_l3pt[q] # None}
<1>1. PICK j \in Pages : Taken(j)
  BY DEF Inv, ListInv
<1> DEFINE e == [frame |-> freelist_nodes[j].addr, A |-> TRUE, D |-> TRUE]
<1>2. p \in UserPages /\ p \in Pages
  BY Sizes DEF Expected
<1>3. /\ j + 1 \in Pages /\ j + 1 \in Nat
      /\ j + 1 = Cardinality(S \cup {p})
      /\ Node(freelist_head) = freelist_nodes[j]
      /\ freelist_nodes[j].next = FreeNode(j + 1) /\ freelist_nodes[j].addr \in Frames
      /\ \A q \in UserPages : user_l3pt[q] # None => user_l3pt[q].frame # freelist_nodes[j].addr
  BY <1>1, <1>2, NextFree
<1>4. /\ user_l3pt' = [user_l3pt EXCEPT ![p] = e]
      /\ user_mapping' = [user_mapping EXCEPT ![p] = freelist_nodes[j]]
      /\ freelist_head' = FreeNode(j + 1)
      /\ freelist_tail' \in {None, freelist_tail}
  BY <1>3 DEF TakePage
<1>5. UNCHANGED <<regs, tf, instr, freelist_nodes, memory, home, tlb, hardwareAD, tohost, i>>
  BY DEF mem, cpu, hart
<1>6. e \in Pte /\ e # None /\ e.A /\ e.D /\ e.frame = freelist_nodes[j].addr
  BY <1>3, PteNotNone DEF Pte
<1> HIDE DEF e
<1>7. /\ user_l3pt \in [Pages -> Pte \cup {None}] /\ user_l3pt[0] = None
      /\ user_mapping \in [Pages -> [addr : Nat, next : Nodes \cup {None}]]
      /\ freelist_nodes \in [Pages -> [addr : Nat, next : Nodes \cup {None}]]
      /\ tf \in Trapframes
  BY DEF Inv, TypeOK
<1>8. /\ user_l3pt' \in [Pages -> Pte \cup {None}] /\ user_l3pt'[0] = None /\ user_l3pt'[p] = e
      /\ \A q \in Pages : q # p => user_l3pt'[q] = user_l3pt[q]
  BY <1>2, <1>4, <1>6, <1>7, Sizes
<1>9. /\ user_mapping' \in [Pages -> [addr : Nat, next : Nodes \cup {None}]]
      /\ user_mapping'[p] = freelist_nodes[j]
      /\ \A q \in Pages : q # p => user_mapping'[q] = user_mapping[q]
  BY <1>2, <1>4, <1>7
<1>10. TypeOK'
  <2>1. FreeNode(j + 1) \in Nodes
    BY <1>3 DEF Nodes
  <2> QED BY <1>4, <1>5, <1>8, <1>9, <2>1 DEF Inv, TypeOK, Handling
<1>11. InFlight = {} /\ InFlight' = {}
  BY DEF InFlight
<1>12. Coherent(tlb', user_l3pt', InFlight')
  <2>1. Coherent(tlb, user_l3pt, {})
    BY <1>11 DEF Inv
  <2>2. tlb[p] = None
    BY <1>2, <2>1 DEF Coherent
  <2> QED BY <1>5, <1>8, <1>11, <2>1, <2>2 DEF Coherent
<1>13. Coherent(tlb, user_l3pt, InFlight)'
  BY <1>5, <1>12, CoherentNext
<1>14. \A q \in UserPages : q # p => user_l3pt'[q] = user_l3pt[q]
  BY <1>8, Sizes
<1>15. Distinct(user_l3pt)'
  BY <1>3, <1>6, <1>8, <1>14 DEF Inv, Distinct
<1>16. p \in Touched(instr) /\ instr # None /\ tf.cause \in Faults
  BY DEF Inv, FaultInv, Handling
<1>17. FaultInv'
  BY <1>2, <1>5, <1>6, <1>8, <1>16 DEF FaultInv, Handling
<1>18. PagesInv'
  <2>1. ASSUME NEW q \in UserPages, user_l3pt'[q] # None PROVE Accessed(q)' /\ Unchanged(q)'
    <3>1. CASE q = p
      BY <1>5, <1>6, <1>8, <3>1 DEF Accessed, Unchanged
    <3>2. CASE q # p
      <4>1. Accessed(q) /\ Unchanged(q)
        BY <1>14, <2>1, <3>2 DEF Inv, PagesInv
      <4> QED BY <1>5, <1>14, <3>2, <4>1 DEF Accessed, Unchanged
    <3> QED BY <3>1, <3>2
  <2> QED BY <2>1 DEF PagesInv
<1>19. Taken(j + 1)'
  <2>1. {q \in UserPages : user_l3pt'[q] # None} = S \cup {p}
    BY <1>2, <1>6, <1>8, <1>14
  <2>2. j + 1 = Cardinality({q \in UserPages : user_l3pt'[q] # None})
    BY <1>3, <2>1
  <2>3. ASSUME NEW q \in UserPages, user_l3pt'[q] # None
        PROVE  \E n \in 0..j : freelist_nodes[n].addr = user_l3pt'[q].frame
    <3>1. CASE q = p
      <4>1. j \in 0..j
        BY <1>1, Sizes
      <4> QED BY <1>6, <1>8, <3>1, <4>1
    <3>2. CASE q # p
      <4>1. PICK n \in 0..(j - 1) : freelist_nodes[n].addr = user_l3pt[q].frame
        BY <1>1, <1>14, <2>3, <3>2 DEF Taken
      <4>2. n \in 0..j
        BY <1>1, <4>1, Sizes
      <4> QED BY <1>14, <3>2, <4>1, <4>2
    <3> QED BY <3>1, <3>2
  <2>4. ASSUME NEW n \in 0..j
        PROVE  \E q \in UserPages : user_l3pt'[q] # None /\ user_l3pt'[q].frame = freelist_nodes[n].addr
    <3>1. CASE n = j
      BY <1>2, <1>6, <1>8, <3>1
    <3>2. CASE n # j
      <4>1. n \in 0..(j - 1)
        BY <1>1, <3>2, Sizes
      <4>2. PICK q \in UserPages : user_l3pt[q] # None /\ user_l3pt[q].frame = freelist_nodes[n].addr
        BY <1>1, <4>1 DEF Taken
      <4>3. q # p
        BY <4>2
      <4> QED BY <1>14, <4>2, <4>3
    <3> QED BY <3>1, <3>2
  <2>5. (j + 1) - 1 = j
    BY <1>1, Sizes
  <2> QED BY <1>3, <1>4, <1>5, <2>2, <2>3, <2>4, <2>5 DEF Taken
<1>20. ListInv'
  <2>1. \A q \in UserPages :
           user_mapping'[q].addr = IF user_l3pt'[q] # None THEN user_l3pt'[q].frame ELSE 0
    <3> SUFFICES ASSUME NEW q \in UserPages
                 PROVE  user_mapping'[q].addr = IF user_l3pt'[q] # None THEN user_l3pt'[q].frame ELSE 0
      OBVIOUS
    <3>1. CASE q = p
      BY <1>6, <1>8, <1>9, <3>1
    <3>2. CASE q # p
      <4>1. user_mapping'[q] = user_mapping[q] /\ user_l3pt'[q] = user_l3pt[q]
        BY <1>9, <1>14, <3>2, Sizes
      <4> QED BY <4>1 DEF Inv, ListInv
    <3> QED BY <3>1, <3>2
  <2>2. /\ \A n \in Pages : freelist_nodes[n].next = IF n = MAX_TEST_PAGES - 1 THEN None ELSE FreeNode(n + 1)
        /\ \A n \in Pages : freelist_nodes[n].addr \in Frames
        /\ \A n, k \in Pages : freelist_nodes[n].addr = freelist_nodes[k].addr => n = k
        /\ \A f \in Frames : \E n \in Pages : freelist_nodes[n].addr = f
    BY DEF Inv, ListInv
  <2>3. \E k \in Pages : Taken(k)'
    BY <1>3, <1>19
  <2>4. freelist_nodes' = freelist_nodes
    BY <1>5
  <2> QED BY <2>1, <2>2, <2>3, <2>4 DEF ListInv
<1>21. ExitInv'
  BY <1>5 DEF Inv, ExitInv
<1> QED BY <1>10, <1>13, <1>15, <1>17, <1>18, <1>20, <1>21 DEF Inv

LEMMA HandleFaultInv ==
    ASSUME Inv, handle_fault
    PROVE  Inv'
<1> DEFINE p == tf.badvaddr
<1>1. pc = "handle_fault"
  BY DEF handle_fault
<1>2. CASE ~Expected(p) /\ Fails
  <2>1. p = 0 /\ tf.cause \in Faults
    BY <1>1, <1>2, FaultExpected DEF Inv, FaultInv, Handling
  <2>2. tf.cause # "USER_ECALL"
    BY <2>1 DEF Faults
  <2> QED BY <1>1, <1>2, <2>1, <2>2, ExitsInv DEF Fails
<1>3. CASE Expected(p) /\ user_l3pt[p] # None /\ SetBit(p)
  BY <1>1, <1>3, SetBitInv
<1>4. CASE /\ Expected(p) /\ user_l3pt[p] = None /\ TakePage(p) /\ pc' = "mapped"
           /\ UNCHANGED <<cpu, instr, freelist_nodes, mem, hart, i, tohost, result>>
  BY <1>1, <1>4, TakePageInv
<1> QED BY <1>2, <1>3, <1>4 DEF handle_fault


\* A page that is taken back has the bits that evict asserts.
LEMMA EvictExpected ==
    ASSUME Inv, pc = "evict", i < MAX_TEST_PAGES, user_mapping[i].addr # 0
    PROVE  /\ i \in UserPages /\ i \in Pages /\ i + 1 \in 1..MAX_TEST_PAGES /\ i + 1 > i
           /\ user_l3pt[i] # None /\ user_l3pt[i] \in Pte
           /\ Entry(i) # None /\ Entry(i).frame = user_l3pt[i].frame
           /\ user_l3pt[i].A /\ (memory[Entry(i).frame] # home[i] => user_l3pt[i].D)
<1>1. i \in UserPages /\ i \in Pages /\ i + 1 \in 1..MAX_TEST_PAGES /\ i + 1 > i /\ i >= i
  BY Sizes DEF Inv, TypeOK, UserPages
<1>2. user_l3pt[i] # None
  BY <1>1 DEF Inv, ListInv
<1>3. user_l3pt[i] \in Pte
  BY <1>1, <1>2 DEF Inv, TypeOK
<1>4. Entry(i) # None /\ Entry(i).frame = user_l3pt[i].frame
  BY <1>1, <1>2 DEF Inv, Coherent, Entry
<1>5. Accessed(i) /\ Unchanged(i)
  BY <1>1, <1>2 DEF Inv, PagesInv
<1> QED BY <1>1, <1>2, <1>3, <1>4, <1>5 DEF Accessed, Unchanged

\* append_node keeps the addresses of the pages that are still to come.
LEMMA AppendNode ==
    ASSUME TypeOK, i \in Pages, append_node(UserNode(i))
    PROVE  /\ user_mapping' \in [Pages -> [addr : Nat, next : Nodes \cup {None}]]
           /\ freelist_nodes' \in [Pages -> [addr : Nat, next : Nodes \cup {None}]]
           /\ freelist_head' \in Nodes \cup {None} /\ freelist_tail' \in Nodes \cup {None}
           /\ \A q \in Pages : q # i => user_mapping'[q].addr = user_mapping[q].addr
<1> DEFINE T == [addr : Nat, next : Nodes \cup {None}]
           um == [user_mapping EXCEPT ![i].addr = 0]
           t == freelist_tail
<1>1. user_mapping \in [Pages -> T] /\ freelist_nodes \in [Pages -> T]
      /\ freelist_head \in Nodes \cup {None} /\ t \in Nodes \cup {None}
  BY DEF TypeOK
<1>2. UserNode(i) \in Nodes
  BY DEF Nodes
<1>3. um \in [Pages -> T] /\ \A q \in Pages : q # i => um[q].addr = user_mapping[q].addr
  BY <1>1
<1>4. CASE t = None
  BY <1>1, <1>2, <1>3, <1>4 DEF append_node
<1>5. CASE t # None
  <2>1. t[2] \in Pages
    BY <1>1, <1>5 DEF Nodes, FreeNode, UserNode
  <2>2. freelist_tail' = UserNode(i) /\ freelist_head' = freelist_head
    BY <1>5 DEF append_node
  <2>3. freelist_nodes' = IF t[1] = "free" THEN [freelist_nodes EXCEPT ![t[2]].next = UserNode(i)]
                          ELSE freelist_nodes
    BY <1>5 DEF append_node
  <2>4. freelist_nodes' \in [Pages -> T]
    BY <1>1, <1>2, <2>1, <2>3
  <2>5. user_mapping' = [um EXCEPT ![IF t[1] = "user" THEN t[2] ELSE 0].next
                                     = IF t[1] = "user" THEN UserNode(i) ELSE @]
    BY <1>5 DEF append_node
  <2> HIDE DEF um, t
  <2>6. CASE t[1] = "user"
    <3>1. user_mapping' = [um EXCEPT ![t[2]].next = UserNode(i)]
      BY <2>5, <2>6
    <3>2. user_mapping' \in [Pages -> T] /\ \A q \in Pages : user_mapping'[q].addr = um[q].addr
      BY <1>2, <1>3, <2>1, <3>1
    <3> QED BY <1>1, <1>2, <1>3, <2>2, <2>4, <3>2
  <2>7. CASE t[1] # "user"
    <3>1. user_mapping' = [um EXCEPT ![0].next = um[0].next]
      BY <2>5, <2>7
    <3>2. user_mapping' \in [Pages -> T] /\ \A q \in Pages : user_mapping'[q].addr = um[q].addr
      BY <1>3, <3>1, Sizes
    <3> QED BY <1>1, <1>2, <1>3, <2>2, <2>4, <3>2
  <2> QED BY <2>6, <2>7
<1> QED BY <1>4, <1>5

LEMMA EvictPageInv ==
    ASSUME Inv, pc = "evict", i < MAX_TEST_PAGES, user_mapping[i].addr # 0, EvictPage
    PROVE  Inv'
<1> DEFINE changed == memory[Entry(i).frame] # home[i]
           loads == IF changed THEN {} ELSE {i}
           stores == IF changed THEN {i} ELSE {}
<1>1. /\ i \in UserPages /\ i \in Pages /\ i + 1 \in 1..MAX_TEST_PAGES /\ i + 1 > i
      /\ user_l3pt[i] # None /\ user_l3pt[i] \in Pte
      /\ Entry(i) # None /\ Entry(i).frame = user_l3pt[i].frame
      /\ user_l3pt[i].A /\ (changed => user_l3pt[i].D)
  BY EvictExpected
<1>2. /\ Translates(i, changed)
      /\ memory' = [memory EXCEPT ![Entry(i).frame] = home[i]]
      /\ IF changed THEN Walked({}, {i}) ELSE Walked({i}, {})
      /\ append_node(UserNode(i))
      /\ i' = i + 1
      /\ UNCHANGED <<pc, regs, tf, instr, home, hardwareAD, tohost>>
  BY <1>1 DEF EvictPage, cpu
<1> HIDE DEF changed
<1>3. AfterWalk(loads, stores)
  <2>1. CASE changed
    <3>1. \A q \in {} \cup {i} : Translates(q, q \in {i})
      BY <1>2, <2>1 DEF Translates
    <3>2. {i} \in SUBSET Pages /\ {} \in SUBSET Pages
      BY <1>1
    <3>3. AfterWalk({}, {i})
      BY <1>2, <2>1, <3>1, <3>2, WalkedSound DEF Inv
    <3> QED BY <2>1, <3>3
  <2>2. CASE ~changed
    <3>1. \A q \in {i} \cup {} : Translates(q, q \in {})
      BY <1>2, <2>2 DEF Translates
    <3>2. {i} \in SUBSET Pages /\ {} \in SUBSET Pages
      BY <1>1
    <3>3. AfterWalk({i}, {})
      BY <1>2, <2>2, <3>1, <3>2, WalkedSound DEF Inv
    <3> QED BY <2>2, <3>3
  <2> QED BY <2>1, <2>2
<1> HIDE DEF loads, stores
<1>4. /\ user_mapping' \in [Pages -> [addr : Nat, next : Nodes \cup {None}]]
      /\ freelist_nodes' \in [Pages -> [addr : Nat, next : Nodes \cup {None}]]
      /\ freelist_head' \in Nodes \cup {None} /\ freelist_tail' \in Nodes \cup {None}
      /\ \A q \in Pages : q # i => user_mapping'[q].addr = user_mapping[q].addr
  BY <1>1, <1>2, AppendNode DEF Inv
<1>5. user_l3pt \in [Pages -> Pte \cup {None}] /\ memory \in [Frames -> Words] /\ home \in [UserPages -> Words]
  BY DEF Inv, TypeOK
<1>6. memory' = [memory EXCEPT ![user_l3pt[i].frame] = home[i]]
  BY <1>1, <1>2
<1>7. memory' \in [Frames -> Words]
  BY <1>1, <1>5, <1>6 DEF Pte
<1>8. TypeOK'
  BY <1>1, <1>2, <1>3, <1>4, <1>7 DEF Inv, TypeOK, AfterWalk
<1>9. InFlight' = {} /\ InFlight = {} /\ SameFrames(user_l3pt, user_l3pt')
  BY <1>2, <1>3 DEF InFlight, AfterWalk
<1>10. Coherent(tlb, user_l3pt, InFlight)'
  BY <1>2, <1>3, <1>9, CoherentNext DEF AfterWalk
<1>11. Distinct(user_l3pt)'
  BY <1>9, DistinctNext DEF Inv
<1>12. FaultInv'
  BY <1>2 DEF Inv, FaultInv, Handling
<1>13. ASSUME NEW q \in UserPages, user_l3pt[q] # None, q >= i'
       PROVE  q >= i /\ (Accessed(q) => Accessed(q)') /\ (Unchanged(q) => Unchanged(q)')
  <2>1. q \in Pages /\ q >= i /\ q # i
    BY <1>1, <1>2, <1>13, Sizes DEF UserPages
  <2>2. /\ user_l3pt'[q].frame = user_l3pt[q].frame
        /\ user_l3pt[q].A => user_l3pt'[q].A
        /\ user_l3pt[q].D => user_l3pt'[q].D
    BY <1>3, <1>13, <2>1 DEF AfterWalk, SameFrames
  <2>3. user_l3pt[q].frame \in Frames /\ user_l3pt[q].frame # user_l3pt[i].frame
    BY <1>1, <1>5, <1>13, <2>1 DEF Inv, Distinct, Pte
  <2>4. memory'[user_l3pt[q].frame] = memory[user_l3pt[q].frame]
    BY <1>5, <1>6, <2>3
  <2>5. Accessed(q) => Accessed(q)'
    BY <1>2, <2>2 DEF Accessed
  <2>6. Unchanged(q) => Unchanged(q)'
    BY <1>2, <2>2, <2>4 DEF Unchanged
  <2> QED BY <2>1, <2>5, <2>6
<1>14. PagesInv'
  BY <1>2, <1>9, <1>13, PagesNext DEF Inv
<1>15. ListInv'
  <2>1. \A q \in UserPages : q >= i' => user_mapping'[q].addr = user_mapping[q].addr
    BY <1>1, <1>2, <1>4, Sizes DEF UserPages
  <2>2. i' \in Int /\ i' >= i
    BY <1>1, <1>2 DEF UserPages
  <2> QED BY <1>2, <1>9, <2>1, <2>2, ListEvict DEF Inv
<1>16. ExitInv'
  BY <1>2 DEF Inv, ExitInv
<1> QED BY <1>8, <1>10, <1>11, <1>12, <1>14, <1>15, <1>16 DEF Inv

LEMMA EvictInv ==
    ASSUME Inv, evict
    PROVE  Inv'
<1>1. pc = "evict" /\ i < MAX_TEST_PAGES
  BY DEF evict
<1>2. CASE user_mapping[i].addr # 0 /\ EvictPage
  BY <1>1, <1>2, EvictPageInv
<1>3. CASE /\ user_mapping[i].addr = 0 /\ i' = i + 1
           /\ UNCHANGED <<pc, cpu, instr, tables, mem, hart, tohost, result>>
  <2>1. UNCHANGED <<pc, regs, tf, instr, user_l3pt, user_mapping, freelist_nodes, freelist_head, freelist_tail,
                    memory, home, tlb, hardwareAD, tohost>>
    BY <1>3 DEF tables, list, mem, cpu, hart
  <2>2. i \in Int /\ i' \in 1..MAX_TEST_PAGES /\ i' \in Int /\ i' >= i
    BY <1>1, <1>3, Sizes DEF Inv, TypeOK
  <2>3. TypeOK'
    BY <2>1, <2>2 DEF Inv, TypeOK
  <2>4. InFlight' = InFlight /\ SameFrames(user_l3pt, user_l3pt')
    BY <2>1, SameFramesSame DEF InFlight
  <2>5. Coherent(tlb', user_l3pt', InFlight')
    BY <2>1, <2>4 DEF Inv
  <2>6. Coherent(tlb, user_l3pt, InFlight)'
    BY <2>1, <2>5, CoherentNext
  <2>7. Distinct(user_l3pt)'
    BY <2>4, DistinctNext DEF Inv
  <2>8. FaultInv'
    BY <2>1 DEF Inv, FaultInv
  <2>9. \A q \in UserPages : q >= i' => q >= i
    BY <2>2, Sizes DEF UserPages
  <2>10. PagesInv'
    <3>1. \A q \in UserPages : (Accessed(q) => Accessed(q)') /\ (Unchanged(q) => Unchanged(q)')
      BY <2>1 DEF Accessed, Unchanged
    <3> QED BY <1>1, <2>1, <2>4, <2>9, <3>1, PagesNext DEF Inv
  <2>11. ListInv'
    BY <1>1, <2>1, <2>2, <2>4, ListEvict DEF Inv
  <2>12. ExitInv'
    BY <1>1, <2>1 DEF Inv, ExitInv
  <2> QED BY <2>3, <2>6, <2>7, <2>8, <2>10, <2>11, <2>12 DEF Inv
<1> QED BY <1>2, <1>3 DEF evict

LEMMA TerminateInv ==
    ASSUME Inv, Terminate
    PROVE  Inv'
<1>1. /\ pc = "evict" /\ i = MAX_TEST_PAGES /\ terminate(tf.gpr["a0"])
      /\ UNCHANGED <<cpu, instr, tables, mem, hart, i>>
  BY DEF Terminate
<1>2. tf.cause = "USER_ECALL"
  BY <1>1 DEF Inv, FaultInv
<1> QED BY <1>1, <1>2, ExitsInv


------------------------------------------------------------------------------
(* The invariant holds *)

LEMMA InitInv ==
    ASSUME FullPeriod, Init
    PROVE  Inv
<1>1. PICK seed \in Pages : vm_boot(seed)
  BY DEF Init, Pages
<1>2. /\ instr = None /\ home \in Images /\ memory = [f \in Frames |-> 0]
      /\ tlb = [p \in Pages |-> None] /\ hardwareAD \in BOOLEAN
      /\ i = 1 /\ tohost = 0
  BY DEF Init, Pages
<1> DEFINE a(n) == vm_boot_random(n, seed)
           T == [addr : Nat, next : Nodes \cup {None}]
<1>3. /\ \A n \in Pages : a(n) \in 1..MAX_TEST_PAGES
      /\ \A x \in 1..MAX_TEST_PAGES : \E n \in Pages : a(n) = x
      /\ \A n, k \in Pages : a(n) = a(k) => n = k
  BY DEF FullPeriod, Pages
<1> HIDE DEF a
<1>4. /\ freelist_head = FreeNode(0)
      /\ freelist_tail = FreeNode(MAX_TEST_PAGES - 1)
      /\ freelist_nodes = [n \in Pages |-> [addr |-> MAX_TEST_PAGES + a(n),
                                            next |-> IF n = MAX_TEST_PAGES - 1 THEN None ELSE FreeNode(n + 1)]]
      /\ user_mapping = [p \in Pages |-> [addr |-> 0, next |-> None]]
      /\ user_l3pt = [p \in Pages |-> None]
      /\ regs = [r \in Registers |-> 0] /\ pc = "user"
  BY <1>1 DEF vm_boot, Pages, a
<1>5. MAX_TEST_PAGES - 1 \in Pages /\ \A n \in Pages : n = MAX_TEST_PAGES - 1 \/ n + 1 \in Pages
  BY Sizes DEF Pages
<1>6. \A n \in Pages : /\ freelist_nodes[n].addr = MAX_TEST_PAGES + a(n)
                       /\ freelist_nodes[n].next = IF n = MAX_TEST_PAGES - 1 THEN None ELSE FreeNode(n + 1)
  BY <1>4
<1>7. \A n \in Pages : freelist_nodes[n].addr \in Frames
  BY <1>3, <1>6, Sizes DEF Frames
<1>8. freelist_nodes \in [Pages -> T]
  <2>1. \A n \in Pages : FreeNode(n) \in Nodes
    BY DEF Nodes
  <2>2. \A n \in Pages : MAX_TEST_PAGES + a(n) \in Nat
    BY <1>6, <1>7, Sizes
  <2>3. \A n \in Pages : (IF n = MAX_TEST_PAGES - 1 THEN None ELSE FreeNode(n + 1)) \in Nodes \cup {None}
    BY <1>5, <2>1
  <2> QED BY <1>4, <2>2, <2>3
<1>9. TypeOK
  <2>1. home \in [UserPages -> Words]
    BY <1>2, ImagesAssumption
  <2>2. regs \in [Registers -> Words] /\ memory \in [Frames -> Words]
    BY <1>2, <1>4, WordsAssumption
  <2>3. freelist_head \in Nodes /\ freelist_tail \in Nodes
    BY <1>4, <1>5, Sizes DEF Nodes
  <2>4. user_mapping \in [Pages -> T] /\ user_l3pt \in [Pages -> Pte \cup {None}] /\ user_l3pt[0] = None
        /\ tlb \in [Pages -> Pte \cup {None}]
    BY <1>2, <1>4, Sizes
  <2>5. i \in 1..MAX_TEST_PAGES
    BY <1>2, Sizes
  <2> QED BY <1>2, <1>4, <1>8, <2>1, <2>2, <2>3, <2>4, <2>5 DEF TypeOK
<1>10. \A p \in UserPages : user_l3pt[p] = None /\ user_mapping[p].addr = 0
  BY <1>4, Sizes
<1>11. Coherent(tlb, user_l3pt, InFlight)
  BY <1>2 DEF Coherent
<1>12. Distinct(user_l3pt)
  BY <1>10 DEF Distinct
<1>13. FaultInv
  BY <1>4 DEF FaultInv, Handling
<1>14. PagesInv
  BY <1>10 DEF PagesInv
<1>15. Taken(0)
  <2>1. {p \in UserPages : user_l3pt[p] # None} = {}
    BY <1>10
  <2>2. Cardinality({p \in UserPages : user_l3pt[p] # None}) = 0
    BY <2>1, FS_EmptySet
  <2>3. 0..(0 - 1) = {}
    OBVIOUS
  <2> QED BY <1>4, <1>10, <2>2, <2>3, Sizes DEF Taken
<1>16. ListInv
  <2>1. \A n, k \in Pages : freelist_nodes[n].addr = freelist_nodes[k].addr => n = k
    <3>1. \A n \in Pages : a(n) \in Int /\ MAX_TEST_PAGES \in Int
      BY <1>3, Sizes
    <3>2. \A m, x, y \in Int : m + x = m + y => x = y
      OBVIOUS
    <3>3. ASSUME NEW n \in Pages, NEW k \in Pages, freelist_nodes[n].addr = freelist_nodes[k].addr
          PROVE  n = k
      <4>1. a(n) = a(k)
        BY <1>6, <3>1, <3>2, <3>3
      <4> QED BY <1>3, <4>1
    <3> QED BY <3>3
  <2>2. ASSUME NEW f \in Frames PROVE \E n \in Pages : freelist_nodes[n].addr = f
    <3>1. f - MAX_TEST_PAGES \in 1..MAX_TEST_PAGES /\ MAX_TEST_PAGES + (f - MAX_TEST_PAGES) = f
      BY Sizes DEF Frames
    <3>2. PICK n \in Pages : a(n) = f - MAX_TEST_PAGES
      BY <1>3, <3>1
    <3> QED BY <1>6, <3>1, <3>2
  <2> QED BY <1>4, <1>6, <1>7, <1>10, <1>15, <2>1, <2>2, Sizes DEF ListInv
<1>17. ExitInv
  BY <1>2 DEF ExitInv
<1> QED BY <1>9, <1>11, <1>12, <1>13, <1>14, <1>16, <1>17 DEF Inv

LEMMA StutterInv ==
    ASSUME Inv, UNCHANGED vars
    PROVE  Inv'
<1>1. UNCHANGED <<pc, regs, tf, instr, user_l3pt, user_mapping, freelist_nodes, freelist_head, freelist_tail,
                  memory, home, tlb, hardwareAD, tohost, i>>
  BY DEF vars, tables, list, mem, cpu, hart
<1>2. TypeOK' /\ Distinct(user_l3pt)' /\ FaultInv'
  BY <1>1 DEF Inv, TypeOK, Distinct, FaultInv
<1>3. InFlight' = InFlight
  BY <1>1 DEF InFlight
<1>4. Coherent(tlb', user_l3pt', InFlight')
  BY <1>1, <1>3 DEF Inv
<1>5. Coherent(tlb, user_l3pt, InFlight)'
  BY <1>1, <1>4, CoherentNext
<1>6. PagesInv' /\ ListInv' /\ ExitInv'
  BY <1>1 DEF Inv, PagesInv, Accessed, Unchanged, ListInv, Taken, ExitInv
<1> QED BY <1>2, <1>5, <1>6 DEF Inv

LEMMA NextInv ==
    ASSUME Inv, [Next]_vars
    PROVE  Inv'
<1>1. CASE \E in \in Instructions : Begin(in)
  BY <1>1, BeginInv
<1>2. CASE Execute
  BY <1>2, ExecuteInv
<1>3. CASE PageFault
  BY <1>3, PageFaultInv
<1>4. CASE Ecall
  BY <1>4, EcallInv
<1>5. CASE handle_fault
  BY <1>5, HandleFaultInv
<1>6. CASE FlushReturn \/ FlushProtected
  BY <1>6, ReturnInv
<1>7. CASE FlushMapped
  BY <1>7, FlushMappedInv
<1>8. CASE Fill
  BY <1>8, FillInv
<1>9. CASE Protect
  BY <1>9, ProtectInv
<1>10. CASE evict
  BY <1>10, EvictInv
<1>11. CASE Terminate
  BY <1>11, TerminateInv
<1>12. CASE \E p \in UserPages : Prefetch(p) \/ Drop(p)
  BY <1>12, PrefetchInv, DropInv
<1>13. CASE UNCHANGED vars
  BY <1>13, StutterInv
<1> QED BY <1>1, <1>2, <1>3, <1>4, <1>5, <1>6, <1>7, <1>8, <1>9, <1>10, <1>11, <1>12, <1>13
        DEF Next, Handler

LEMMA Invariance ==
    ASSUME FullPeriod
    PROVE  Spec => []Inv
<1>1. Init => Inv
  BY InitInv
<1>2. Inv /\ [Next]_vars => Inv'
  BY NextInv
<1> QED BY <1>1, <1>2, PTL DEF Spec

------------------------------------------------------------------------------
(* What it shows *)

LEMMA InvAssertions ==
    ASSUME Inv
    PROVE  AssertionsHold
<1>1. tohost = 3 => IF tf.cause = "USER_ECALL" THEN i = MAX_TEST_PAGES /\ tf.gpr["a0"] = 3
                    ELSE tf.badvaddr = 0
  BY DEF Inv, ExitInv
<1>2. ASSUME NEW p \in Pages, user_l3pt[p] # None, p \notin InFlight, user_l3pt[p].A, NEW d \in BOOLEAN, d => user_l3pt[p].D
      PROVE  Translates(p, d)
  <2>1. Entry(p) # None
    BY <1>2 DEF Entry
  <2>2. ~hardwareAD => Entry(p) = user_l3pt[p]
    BY <1>2 DEF Inv, Coherent, Entry
  <2> QED BY <1>2, <2>1, <2>2 DEF Translates
<1>3. ASSUME pc = "fill" PROVE Translates(tf.badvaddr, TRUE)
  <2>1. /\ tf.badvaddr \in Pages /\ user_l3pt[tf.badvaddr] # None
        /\ user_l3pt[tf.badvaddr].A /\ user_l3pt[tf.badvaddr].D
    BY <1>3, Sizes DEF Inv, FaultInv, Handling
  <2>2. tf.badvaddr \notin InFlight
    BY <1>3 DEF InFlight
  <2> QED BY <1>2, <2>1, <2>2
<1>4. ASSUME pc = "evict", i < MAX_TEST_PAGES, user_mapping[i].addr # 0, user_l3pt[i].A
      PROVE  Translates(i, user_l3pt[i].D)
  <2>1. i \in Pages /\ user_l3pt[i] # None /\ user_l3pt[i] \in Pte
    BY <1>4, EvictExpected
  <2>2. i \notin InFlight
    BY <1>4 DEF InFlight
  <2>3. user_l3pt[i].D \in BOOLEAN
    BY <2>1 DEF Pte
  <2> QED BY <1>2, <1>4, <2>1, <2>2, <2>3
<1> QED BY <1>1, <1>3, <1>4 DEF AssertionsHold

\* No assertion of handle_fault and evict (vm.c) fails in a test that stays
\* within its pages, and the accesses the handler makes itself, to fill a page
\* and to take it back, never fault: whatever the hart keeps in its TLB and
\* whichever way it treats the A and D bits, for every number of pages.  The
\* argument is Inv: the TLB agrees with the page table but for the entry the
\* handler has just changed; a page is mapped with the bits the fault at hand
\* asked for; a page that was changed is dirty.
THEOREM EnvironmentAssertions ==
    ASSUME FullPeriod
    PROVE  Spec => []AssertionsHold
<1>1. Inv => AssertionsHold
  BY InvAssertions
<1> QED BY <1>1, Invariance, PTL


\* The links from the head of the free list lead through the nodes that are
\* not taken, in the order in which vm_boot made them.
LEMMA FreeListFrames ==
    ASSUME Inv, pc \notin {"evict", "exit"}, NEW j \in Pages, Taken(j)
    PROVE  FreeFrames = {freelist_nodes[n].addr : n \in j..(MAX_TEST_PAGES - 1)}
<1> DEFINE m == 2 * MAX_TEST_PAGES
           Step(x) == IF x = None THEN None ELSE Node(x).next
           node[k \in 0..m] == IF k = 0 THEN freelist_head ELSE Step(node[k - 1])
           f == [k \in 0..m |-> IF j + k < MAX_TEST_PAGES THEN FreeNode(j + k) ELSE None]
<1>1. m \in Nat /\ j \in Nat /\ j < MAX_TEST_PAGES /\ MAX_TEST_PAGES \in Nat
  BY Sizes DEF Pages
<1>2. FreeFrames = {Node(node[k]).addr : k \in {n \in DOMAIN node : node[n] # None}}
  BY Zenon DEF FreeFrames
<1>3. \A n \in Pages : FreeNode(n) # None /\ Node(FreeNode(n)) = freelist_nodes[n]
  BY NodeNotNone DEF Node, FreeNode
<1>4. \A n \in Pages : freelist_nodes[n].next = IF n = MAX_TEST_PAGES - 1 THEN None ELSE FreeNode(n + 1)
  BY DEF Inv, ListInv
<1> HIDE DEF m
<1>5. \A k \in 0..m : f[k] = IF j + k < MAX_TEST_PAGES THEN FreeNode(j + k) ELSE None
  OBVIOUS
<1>6. ASSUME NEW k \in 1..m PROVE f[k] = Step(f[k - 1])
  <2>1. k \in 0..m /\ k - 1 \in 0..m /\ (j + (k - 1)) + 1 = j + k
    BY <1>1
  <2>2. CASE j + k < MAX_TEST_PAGES
    <3>1. j + (k - 1) \in Pages /\ j + (k - 1) # MAX_TEST_PAGES - 1 /\ j + (k - 1) < MAX_TEST_PAGES
      BY <1>1, <2>2 DEF Pages
    <3>2. f[k - 1] = FreeNode(j + (k - 1)) /\ f[k] = FreeNode(j + k)
      BY <1>5, <2>1, <2>2, <3>1
    <3>3. Step(f[k - 1]) = freelist_nodes[j + (k - 1)].next
      BY <1>3, <3>1, <3>2
    <3>4. freelist_nodes[j + (k - 1)].next = FreeNode((j + (k - 1)) + 1)
      BY <1>4, <3>1
    <3> QED BY <2>1, <3>2, <3>3, <3>4
  <2>3. CASE j + k = MAX_TEST_PAGES
    <3>1. j + (k - 1) \in Pages /\ j + (k - 1) = MAX_TEST_PAGES - 1 /\ j + (k - 1) < MAX_TEST_PAGES
      BY <1>1, <2>3 DEF Pages
    <3>2. f[k - 1] = FreeNode(j + (k - 1)) /\ f[k] = None
      BY <1>1, <1>5, <2>1, <2>3, <3>1
    <3> QED BY <1>3, <1>4, <3>1, <3>2
  <2>4. CASE j + k > MAX_TEST_PAGES
    <3>1. ~(j + (k - 1) < MAX_TEST_PAGES) /\ ~(j + k < MAX_TEST_PAGES)
      BY <1>1, <2>4
    <3> QED BY <1>5, <2>1, <3>1
  <2> QED BY <1>1, <2>2, <2>3, <2>4
<1>7. f[0] = freelist_head
  <2>1. 0 \in 0..m /\ j + 0 = j
    BY <1>1
  <2>2. f[0] = FreeNode(j + 0)
    BY <1>1, <1>5, <2>1
  <2> QED BY <2>1, <2>2 DEF Taken
<1> HIDE DEF Step
<1>8. f = [k \in 0..m |-> IF k = 0 THEN freelist_head ELSE Step(f[k - 1])]
  <2>1. ASSUME NEW k \in 0..m PROVE f[k] = IF k = 0 THEN freelist_head ELSE Step(f[k - 1])
    <3>1. CASE k = 0
      BY <1>7, <3>1
    <3>2. CASE k # 0
      <4>1. k \in 1..m
        BY <1>1, <3>2
      <4> QED BY <1>6, <3>2, <4>1
    <3> QED BY <3>1, <3>2
  <2>2. DOMAIN f = 0..m /\ f = [k \in 0..m |-> f[k]]
    OBVIOUS
  <2> HIDE DEF f
  <2> QED BY <2>1, <2>2
<1> HIDE DEF f
<1>9. node = [k \in 0..m |-> IF k = 0 THEN freelist_head ELSE Step(node[k - 1])]
  BY <1>8
<1> HIDE DEF node
<1>10. DOMAIN node = 0..m /\ \A k \in 0..m : node[k] = IF k = 0 THEN freelist_head ELSE Step(node[k - 1])
  <2>1. ASSUME NEW k \in 0..m PROVE node[k] = IF k = 0 THEN freelist_head ELSE Step(node[k - 1])
    BY <1>9, Zenon
  <2>2. DOMAIN node = 0..m
    BY <1>9, Zenon
  <2> QED BY <2>1, <2>2
<1>11. \A k \in 0..m : node[k] = f[k]
  <2> DEFINE G == {k \in 0..m : node[k] = f[k]}
  <2>1. 0 \in G
    BY <1>1, <1>7, <1>10
  <2>2. ASSUME NEW k \in 1..m, k - 1 \in G PROVE k \in G
    <3>1. k \in 0..m /\ k # 0
      BY <1>1
    <3>2. node[k] = Step(node[k - 1])
      BY <1>10, <3>1
    <3> QED BY <1>6, <2>2, <3>1, <3>2
  <2> HIDE DEF G
  <2>3. \A k \in 0..m : k \in G
    BY <1>1, <2>1, <2>2, LoopInduction
  <2> QED BY <2>3 DEF G
<1>12. ASSUME NEW k \in 0..m, j + k < MAX_TEST_PAGES
       PROVE  node[k] # None /\ Node(node[k]).addr = freelist_nodes[j + k].addr /\ j + k \in j..(MAX_TEST_PAGES - 1)
  <2>1. j + k \in Pages /\ j + k \in j..(MAX_TEST_PAGES - 1)
    BY <1>1, <1>12 DEF Pages
  <2>2. node[k] = FreeNode(j + k)
    BY <1>5, <1>11, <1>12
  <2> QED BY <1>3, <2>1, <2>2
<1>13. ASSUME NEW k \in 0..m, node[k] # None PROVE j + k < MAX_TEST_PAGES
  BY <1>5, <1>11, <1>13
<1>14. ASSUME NEW n \in j..(MAX_TEST_PAGES - 1) PROVE \E k \in 0..m : n = j + k /\ j + k < MAX_TEST_PAGES
  <2>1. n - j \in 0..m /\ n = j + (n - j) /\ j + (n - j) < MAX_TEST_PAGES
    BY <1>1 DEF m
  <2> QED BY <2>1
<1> DEFINE B == {freelist_nodes[n].addr : n \in j..(MAX_TEST_PAGES - 1)}
<1>15. ASSUME NEW x \in FreeFrames PROVE x \in B
  <2>1. PICK k \in 0..m : node[k] # None /\ x = Node(node[k]).addr
    BY <1>2, <1>10
  <2> QED BY <1>12, <1>13, <2>1
<1>16. ASSUME NEW x \in B PROVE x \in FreeFrames
  <2>1. PICK n \in j..(MAX_TEST_PAGES - 1) : x = freelist_nodes[n].addr
    OBVIOUS
  <2>2. PICK k \in 0..m : n = j + k /\ j + k < MAX_TEST_PAGES
    BY <1>14
  <2>3. node[k] # None /\ Node(node[k]).addr = freelist_nodes[j + k].addr
    BY <1>12, <2>2
  <2>4. k \in {n_1 \in DOMAIN node : node[n_1] # None}
    BY <1>10, <2>3
  <2>5. Node(node[k]).addr = x
    BY <2>1, <2>2, <2>3
  <2> QED BY <1>2, <2>4, <2>5
<1> HIDE DEF B
<1>17. FreeFrames = B
  BY <1>15, <1>16
<1> QED BY <1>17 DEF B

LEMMA InvAccounted ==
    ASSUME Inv
    PROVE  PagesAccounted
<1> SUFFICES ASSUME pc \notin {"evict", "exit"}
             PROVE  LET mapped == {p \in UserPages : user_l3pt[p] # None}
                        taken  == {user_l3pt[p].frame : p \in mapped}
                    IN  /\ \A p \in UserPages : user_mapping[p].addr = IF p \in mapped THEN user_l3pt[p].frame ELSE 0
                        /\ Cardinality(taken) = Cardinality(mapped)
                        /\ FreeFrames \cap taken = {}
                        /\ FreeFrames \cup taken = Frames
  BY DEF PagesAccounted
<1> DEFINE mapped == {p \in UserPages : user_l3pt[p] # None}
           taken  == {user_l3pt[p].frame : p \in mapped}
<1>1. PICK j \in Pages : Taken(j)
  BY DEF Inv, ListInv
<1>2. FreeFrames = {freelist_nodes[n].addr : n \in j..(MAX_TEST_PAGES - 1)}
  BY <1>1, FreeListFrames
<1>3. j \in Nat /\ j < MAX_TEST_PAGES /\ MAX_TEST_PAGES \in Nat
  BY <1>1, Sizes DEF Pages
<1>4. /\ \A n \in 0..(j - 1) : n \in Pages
      /\ \A n \in j..(MAX_TEST_PAGES - 1) : n \in Pages
      /\ \A n \in Pages : n \in 0..(j - 1) \/ n \in j..(MAX_TEST_PAGES - 1)
      /\ \A n \in 0..(j - 1), k \in j..(MAX_TEST_PAGES - 1) : n # k
  BY <1>3 DEF Pages
<1>5. /\ \A n \in Pages : freelist_nodes[n].addr \in Frames
      /\ \A n, k \in Pages : freelist_nodes[n].addr = freelist_nodes[k].addr => n = k
      /\ \A f \in Frames : \E n \in Pages : freelist_nodes[n].addr = f
      /\ \A p \in UserPages : user_mapping[p].addr = IF user_l3pt[p] # None THEN user_l3pt[p].frame ELSE 0
  BY DEF Inv, ListInv
<1>6. \A p \in UserPages : user_mapping[p].addr = IF p \in mapped THEN user_l3pt[p].frame ELSE 0
  BY <1>5
<1>7. \A x \in taken : \E n \in 0..(j - 1) : freelist_nodes[n].addr = x
  BY <1>1 DEF Taken
<1>8. \A n \in 0..(j - 1) : freelist_nodes[n].addr \in taken
  <2> SUFFICES ASSUME NEW n \in 0..(j - 1) PROVE freelist_nodes[n].addr \in taken
    OBVIOUS
  <2>1. PICK p \in UserPages : user_l3pt[p] # None /\ user_l3pt[p].frame = freelist_nodes[n].addr
    BY <1>1 DEF Taken
  <2> QED BY <2>1
<1>9. Cardinality(taken) = Cardinality(mapped)
  <2>1. IsFiniteSet(UserPages) /\ mapped \subseteq UserPages
    BY Sizes, FS_Interval DEF UserPages
  <2>2. IsFiniteSet(mapped)
    BY <2>1, FS_Subset
  <2> DEFINE g == [p \in mapped |-> user_l3pt[p].frame]
  <2>3. g \in [mapped -> taken]
    OBVIOUS
  <2>4. \A p, q \in mapped : g[p] = g[q] => p = q
    BY DEF Inv, Distinct
  <2>5. \A x \in taken : \E p \in mapped : g[p] = x
    OBVIOUS
  <2> HIDE DEF mapped, taken, g
  <2>6. g \in Bijection(mapped, taken)
    BY <2>3, <2>4, <2>5 DEF Bijection, Injection, Surjection, IsInjective
  <2>7. ExistsBijection(mapped, taken)
    BY <2>6 DEF ExistsBijection
  <2> QED BY <2>2, <2>7, FS_Bijection
<1> HIDE DEF mapped, taken
<1>10. FreeFrames \cap taken = {}
  <2> SUFFICES ASSUME NEW x \in FreeFrames, x \in taken PROVE FALSE
    OBVIOUS
  <2>1. PICK k \in j..(MAX_TEST_PAGES - 1) : x = freelist_nodes[k].addr
    BY <1>2
  <2>2. PICK n \in 0..(j - 1) : x = freelist_nodes[n].addr
    BY <1>7
  <2> QED BY <1>4, <1>5, <2>1, <2>2
<1>11. FreeFrames \cup taken = Frames
  <2>1. ASSUME NEW x \in FreeFrames \cup taken PROVE x \in Frames
    BY <1>2, <1>4, <1>5, <1>7
  <2>2. ASSUME NEW x \in Frames PROVE x \in FreeFrames \cup taken
    <3>1. PICK n \in Pages : freelist_nodes[n].addr = x
      BY <1>5
    <3> QED BY <1>2, <1>4, <1>8, <3>1
  <2> QED BY <2>1, <2>2
<1> QED BY <1>6, <1>9, <1>10, <1>11 DEF mapped, taken

\* Until the test exits, every page that vm_boot put on the free list is on it
\* or is the copy of exactly one page of the test, as user_mapping records; the
\* list never runs dry, loses a page or hands one out twice (handle_fault in
\* vm.c), for every number of pages.
THEOREM EveryPageAccounted ==
    ASSUME FullPeriod
    PROVE  Spec => []PagesAccounted
<1>1. Inv => PagesAccounted
  BY InvAccounted
<1> QED BY <1>1, Invariance, PTL


------------------------------------------------------------------------------
(* The environment implements a flat memory *)

FlatRegs == IF Running THEN TestRegs ELSE [r \in Registers |-> 0]
FlatMem == IF Running THEN [p \in UserPages |-> TestPage(p)] ELSE [p \in UserPages |-> 0]
FlatInstr == IF Running THEN instr ELSE None

LEMMA RunningBoolean == Running \in BOOLEAN /\ Running' \in BOOLEAN
  BY DEF Running

\* The test sees no difference.
LEMMA SameView ==
    ASSUME Running, Running', TestRegs' = TestRegs, instr' = instr,
           \A p \in UserPages : TestPage(p)' = TestPage(p)
    PROVE  UNCHANGED Flat!flatVars
<1>1. FlatRegs' = FlatRegs
  BY DEF FlatRegs
<1>2. FlatMem' = FlatMem
  BY DEF FlatMem
<1>3. Running' = Running
  BY RunningBoolean
<1>4. FlatInstr' = FlatInstr
  BY DEF FlatInstr
<1> QED BY <1>1, <1>2, <1>3, <1>4 DEF Flat!flatVars, FlatRegs, FlatMem, FlatInstr

\* The test ends where its instruction says so, and has then ended.
LEMMA TestExits ==
    ASSUME ~Running',
           Running => /\ instr # None
                      /\ \/ instr.op = "ecall"
                         \/ instr.op \in {"load", "store"} /\ instr.page \notin UserPages
    PROVE  Flat!FlatNext
<1>1. Running' = FALSE
  BY RunningBoolean
<1>2. CASE Running
  <2>1. FlatInstr = instr
    BY <1>2 DEF FlatInstr
  <2>2. Flat!Exit
    BY <1>1, <1>2, <2>1 DEF Flat!Exit, FlatInstr
  <2> QED BY <2>2 DEF Flat!FlatNext
<1>3. CASE ~Running
  BY <1>1, <1>3 DEF Flat!FlatNext
<1> QED BY <1>2, <1>3

LEMMA FlatInitially ==
    ASSUME Init, Inv
    PROVE  Flat!FlatInit
<1>1. pc = "user" /\ regs = [r \in Registers |-> 0] /\ home \in [UserPages -> Words]
      /\ \A p \in UserPages : user_l3pt[p] = None
  <2>1. PICK seed \in Pages : vm_boot(seed)
    BY DEF Init, Pages
  <2>2. home \in [UserPages -> Words]
    BY DEF Inv, TypeOK
  <2>3. user_l3pt = [p \in Pages |-> None] /\ pc = "user" /\ regs = [r \in Registers |-> 0]
    BY <2>1 DEF vm_boot, Pages
  <2> QED BY <2>2, <2>3, Sizes
<1>2. Running /\ TestRegs = regs /\ \A p \in UserPages : TestPage(p) = home[p]
  BY <1>1 DEF Running, TestRegs, TestPage
<1>3. Running = TRUE
  BY <1>2, RunningBoolean
<1>4. FlatRegs = [r \in Registers |-> 0]
  BY <1>1, <1>2 DEF FlatRegs
<1>5. FlatMem \in Images
  <2>1. FlatMem = [p \in UserPages |-> home[p]]
    BY <1>2 DEF FlatMem
  <2>2. home \in Images
    BY DEF Init
  <2> QED BY <1>1, <2>1, <2>2
<1>6. FlatInstr = None
  BY DEF FlatInstr, Init
<1> QED BY <1>3, <1>4, <1>5, <1>6 DEF Flat!FlatInit, FlatRegs, FlatMem, FlatInstr


\* A page whose frame, contents and image stay is seen unchanged, unless the
\* handler is filling it.
LEMMA SamePages ==
    ASSUME SameFrames(user_l3pt, user_l3pt'), home' = home, UNCHANGED memory,
           pc \in {"mapped", "fill"} <=> pc' \in {"mapped", "fill"},
           pc \in {"mapped", "fill"} => tf' = tf
    PROVE  \A p \in UserPages : TestPage(p)' = TestPage(p)
<1> SUFFICES ASSUME NEW p \in UserPages PROVE TestPage(p)' = TestPage(p)
  OBVIOUS
<1>1. (user_l3pt[p] = None <=> user_l3pt'[p] = None) /\ (user_l3pt[p] # None => user_l3pt[p].frame = user_l3pt'[p].frame)
  BY Sizes DEF SameFrames
<1> QED BY <1>1 DEF TestPage

LEMMA ExecuteRefines ==
    ASSUME Inv, Execute
    PROVE  Flat!FlatNext \/ UNCHANGED Flat!flatVars
<1> DEFINE r == instr.reg
           p == instr.page
<1>1. Executed
  BY ExecuteFacts
<1>2. pc = "user" /\ pc' = "user" /\ Running /\ Running' /\ TestRegs = regs /\ TestRegs' = regs'
  BY <1>1 DEF Executed, Running, TestRegs
<1>3. Running' = Running
  BY <1>2, RunningBoolean
<1>4. FlatRegs = regs /\ FlatRegs' = regs'
  BY <1>2 DEF FlatRegs
<1>5. FlatMem = [q \in UserPages |-> TestPage(q)] /\ FlatMem' = [q \in UserPages |-> TestPage(q)']
  BY <1>2 DEF FlatMem
<1>6. /\ instr.op \in {"load", "store"} => p \in Pages /\ r \in Registers
      /\ instr.op = "li" => r \in Registers /\ instr.word \in Words
      /\ instr.op \in {"load", "store"} => p \in Touched(instr)
  BY <1>1, InstructionType DEF Executed, Touched
<1>7. instr.op \in {"load", "store"} => p \in UserPages /\ user_l3pt[p] # None
  BY <1>1, <1>6 DEF Executed
<1>8. \A q \in UserPages : user_l3pt[q] # None => user_l3pt[q].frame \in Frames /\ TestPage(q) = memory[user_l3pt[q].frame]
  <2>1. user_l3pt \in [Pages -> Pte \cup {None}]
    BY DEF Inv, TypeOK
  <2>2. \A q \in UserPages : user_l3pt[q] # None => user_l3pt[q].frame \in Frames
    BY <2>1, Sizes DEF Pte
  <2> QED BY <1>2, <2>2 DEF TestPage
<1>9. SameFrames(user_l3pt, user_l3pt') /\ home' = home /\ memory \in [Frames -> Words]
  BY <1>1 DEF Executed, Inv, TypeOK
<1>10. instr # None /\ FlatInstr = instr /\ FlatInstr' = None
  BY <1>1, <1>2, InstructionType DEF Executed, FlatInstr
<1>11. \A op \in {"load", "store", "li"} : instr.op = op => Flat!Completes(op)
  BY <1>2, <1>3, <1>10 DEF Flat!Completes, FlatInstr
<1>12. instr.op # "store" => FlatMem' = FlatMem
  <2> SUFFICES ASSUME instr.op # "store" PROVE FlatMem' = FlatMem
    OBVIOUS
  <2>1. memory' = memory
    BY <1>1 DEF Executed
  <2>2. \A q \in UserPages : TestPage(q)' = TestPage(q)
    BY <1>2, <1>9, <2>1, SamePages
  <2> QED BY <1>5, <2>2
<1>13. CASE instr.op = "load"
  <2>1. regs' = [regs EXCEPT ![r] = memory[user_l3pt[p].frame]]
    BY <1>1, <1>13 DEF Executed
  <2>2. FlatMem[p] = memory[user_l3pt[p].frame]
    BY <1>5, <1>7, <1>8, <1>13
  <2>3. FlatRegs' = [FlatRegs EXCEPT ![r] = FlatMem[p]]
    BY <1>4, <2>1, <2>2
  <2>4. FlatMem' = FlatMem
    BY <1>12, <1>13
  <2>5. p \in UserPages
    BY <1>7, <1>13
  <2>6. Flat!Load
    BY <1>13, <1>10, <1>11, <2>3, <2>4, <2>5 DEF Flat!Load, FlatRegs, FlatMem, FlatInstr
  <2> QED BY <2>6 DEF Flat!FlatNext
<1>14. CASE instr.op = "li"
  <2>1. FlatRegs' = [FlatRegs EXCEPT ![r] = instr.word]
    BY <1>1, <1>4, <1>14 DEF Executed
  <2>2. FlatMem' = FlatMem
    BY <1>12, <1>14
  <2>3. Flat!LoadImmediate
    BY <1>14, <1>10, <1>11, <2>1, <2>2 DEF Flat!LoadImmediate, FlatRegs, FlatMem, FlatInstr
  <2> QED BY <2>3 DEF Flat!FlatNext
<1>15. CASE instr.op = "store"
  <2>1. memory' = [memory EXCEPT ![user_l3pt[p].frame] = regs[r]] /\ regs' = regs
    BY <1>1, <1>15 DEF Executed
  <2>2. p \in UserPages /\ user_l3pt[p] # None /\ r \in Registers
    BY <1>6, <1>7, <1>15
  <2>3. ASSUME NEW q \in UserPages
        PROVE  TestPage(q)' = IF q = p THEN regs[r] ELSE TestPage(q)
    <3>1. (user_l3pt[q] = None <=> user_l3pt'[q] = None) /\ (user_l3pt[q] # None => user_l3pt[q].frame = user_l3pt'[q].frame)
      BY <1>9, Sizes DEF SameFrames
    <3>2. CASE user_l3pt[q] = None
      BY <1>2, <1>9, <2>2, <3>1, <3>2 DEF TestPage
    <3>3. CASE user_l3pt[q] # None /\ q = p
      <4>1. memory'[user_l3pt[q].frame] = regs[r]
        BY <1>8, <1>9, <2>1, <3>3
      <4> QED BY <1>2, <3>1, <3>3, <4>1 DEF TestPage
    <3>4. CASE user_l3pt[q] # None /\ q # p
      <4>1. user_l3pt[q].frame # user_l3pt[p].frame
        BY <2>2, <3>4 DEF Inv, Distinct
      <4>2. memory'[user_l3pt[q].frame] = memory[user_l3pt[q].frame]
        BY <1>8, <1>9, <2>1, <3>4, <4>1
      <4> QED BY <1>2, <1>8, <3>1, <3>4, <4>2 DEF TestPage
    <3> QED BY <3>2, <3>3, <3>4
  <2>4. FlatMem' = [FlatMem EXCEPT ![p] = FlatRegs[r]]
    BY <1>4, <1>5, <2>2, <2>3
  <2>5. FlatRegs' = FlatRegs
    BY <1>4, <2>1
  <2>6. Flat!Store
    BY <1>15, <1>10, <1>11, <2>2, <2>4, <2>5 DEF Flat!Store, FlatRegs, FlatMem, FlatInstr
  <2> QED BY <2>6 DEF Flat!FlatNext
<1> QED BY <1>1, <1>13, <1>14, <1>15 DEF Executed

LEMMA PageFaultRefines ==
    ASSUME Inv, PageFault
    PROVE  Flat!FlatNext \/ UNCHANGED Flat!flatVars
<1>1. /\ pc = "user" /\ pc' = "handle_fault" /\ tf'.gpr = regs /\ instr # None
      /\ UNCHANGED <<user_l3pt, memory, home, instr>>
  BY DEF PageFault, trap_entry, tables, mem
<1>2. CASE ~Running'
  <2>1. tf'.badvaddr = 0
    BY <1>1, <1>2 DEF Running
  <2>2. instr \in Instructions
    BY <1>1 DEF Inv, TypeOK
  <2>3. 0 \in Touched(instr)
    <3>1. FaultInv'
      BY PageFaultInv DEF Inv
    <3>2. tf'.badvaddr \in Touched(instr)
      BY <1>1, <3>1 DEF FaultInv, Handling, Touched
    <3> QED BY <2>1, <3>2
  <2>4. instr.op \in {"load", "store"} /\ instr.page \notin UserPages
    BY <2>2, <2>3, InstructionType, Sizes DEF Touched
  <2> QED BY <1>1, <1>2, <2>4, TestExits
<1>3. CASE Running'
  <2>1. \A p \in UserPages : TestPage(p)' = TestPage(p)
    BY <1>1, SameFramesSame, SamePages
  <2>2. Running /\ TestRegs' = TestRegs
    BY <1>1 DEF Running, TestRegs
  <2> QED BY <1>1, <1>3, <2>1, <2>2, SameView
<1> QED BY <1>2, <1>3

\* Filling a page with its image is invisible.
LEMMA FillRefines ==
    ASSUME Inv, Fill
    PROVE  UNCHANGED Flat!flatVars
<1> DEFINE p == tf.badvaddr
<1>1. /\ pc = "fill" /\ pc' = "filled" /\ p \in UserPages /\ user_l3pt[p] # None
      /\ UNCHANGED <<tf, home>>
      /\ AfterWalk({}, {p})
      /\ memory'[user_l3pt[p].frame] = home[p]
      /\ \A q \in UserPages : q # p /\ user_l3pt[q] # None =>
           memory'[user_l3pt[q].frame] = memory[user_l3pt[q].frame]
  BY FillFacts
<1>2. Running /\ Running' /\ TestRegs' = TestRegs /\ instr' = instr
  BY <1>1 DEF Running, TestRegs, Fill
<1>3. ASSUME NEW q \in UserPages PROVE TestPage(q)' = TestPage(q)
  <2>1. (user_l3pt[q] = None <=> user_l3pt'[q] = None) /\ (user_l3pt[q] # None => user_l3pt[q].frame = user_l3pt'[q].frame)
    BY <1>1, Sizes DEF AfterWalk, SameFrames
  <2> QED BY <1>1, <2>1 DEF TestPage
<1> QED BY <1>2, <1>3, SameView

LEMMA HandleFaultRefines ==
    ASSUME Inv, handle_fault
    PROVE  Flat!FlatNext \/ UNCHANGED Flat!flatVars
<1> DEFINE p == tf.badvaddr
<1>1. pc = "handle_fault" /\ tf \in Trapframes /\ p \in Pages
  BY DEF handle_fault, Inv, TypeOK, Trapframes
<1>2. CASE ~Expected(p) /\ Fails
  <2>1. p = 0
    BY <1>1, <1>2, FaultExpected
  <2>2. ~Running /\ ~Running'
    BY <1>1, <1>2, <2>1 DEF Fails, terminate, Running
  <2> QED BY <2>2, TestExits
<1>3. CASE Expected(p) /\ user_l3pt[p] # None /\ SetBit(p)
  <2> DEFINE x == user_l3pt[p]
             e == IF ~x.A THEN [x EXCEPT !.A = TRUE] ELSE [x EXCEPT !.D = TRUE]
  <2>1. pc' = "flush" /\ UNCHANGED <<tf, memory, home, instr>> /\ user_l3pt' = [user_l3pt EXCEPT ![p] = e]
    BY <1>3 DEF SetBit, cpu, mem
  <2>2. user_l3pt \in [Pages -> Pte \cup {None}] /\ x \in Pte
    BY <1>1, <1>3 DEF Inv, TypeOK
  <2>3. e \in Pte /\ e # None /\ e.frame = x.frame
    BY <2>2, PteNotNone DEF Pte
  <2> HIDE DEF e
  <2>4. SameFrames(user_l3pt, user_l3pt')
    BY <1>1, <1>3, <2>1, <2>2, <2>3 DEF SameFrames
  <2>5. \A q \in UserPages : TestPage(q)' = TestPage(q)
    BY <1>1, <2>1, <2>4, SamePages
  <2>6. Running /\ Running' /\ TestRegs' = TestRegs
    BY <1>1, <1>3, <2>1, Sizes DEF Running, TestRegs, Expected
  <2> QED BY <2>1, <2>5, <2>6, SameView
<1>4. CASE /\ Expected(p) /\ user_l3pt[p] = None /\ TakePage(p) /\ pc' = "mapped"
           /\ UNCHANGED <<cpu, instr, freelist_nodes, mem, hart, i, tohost, result>>
  <2> DEFINE e == [frame |-> Node(freelist_head).addr, A |-> TRUE, D |-> TRUE]
  <2>1. pc' = "mapped" /\ UNCHANGED <<tf, memory, home, instr>> /\ user_l3pt' = [user_l3pt EXCEPT ![p] = e]
    BY <1>4 DEF TakePage, cpu, mem
  <2> HIDE DEF e
  <2>2. user_l3pt \in [Pages -> Pte \cup {None}]
    BY DEF Inv, TypeOK
  <2>3. \A q \in UserPages : q # p => user_l3pt'[q] = user_l3pt[q]
    BY <2>1, <2>2, Sizes
  <2>4. ASSUME NEW q \in UserPages PROVE TestPage(q)' = TestPage(q)
    <3>1. CASE q = p
      BY <1>1, <1>4, <2>1, <3>1 DEF TestPage
    <3>2. CASE q # p
      BY <1>1, <2>1, <2>3, <3>2 DEF TestPage
    <3> QED BY <3>1, <3>2
  <2>5. Running /\ Running' /\ TestRegs' = TestRegs
    BY <1>1, <1>4, <2>1, Sizes DEF Running, TestRegs, Expected
  <2> QED BY <2>1, <2>4, <2>5, SameView
<1> QED BY <1>2, <1>3, <1>4 DEF handle_fault

\* The fences and the return to the test.
LEMMA FlushRefines ==
    ASSUME Inv, FlushReturn \/ FlushMapped \/ FlushProtected
    PROVE  UNCHANGED Flat!flatVars
<1>1. /\ UNCHANGED <<user_l3pt, memory, home, instr>>
      /\ \/ pc \in {"flush", "protected"} /\ pc' = "user" /\ regs' = tf.gpr
         \/ pc = "mapped" /\ pc' = "fill" /\ tf' = tf
  BY DEF FlushReturn, FlushMapped, FlushProtected, pop_tf, tables, mem, cpu
<1>2. \A q \in UserPages : TestPage(q)' = TestPage(q)
  BY <1>1, SameFramesSame, SamePages
<1>3. Running /\ Running' /\ TestRegs' = TestRegs
  BY <1>1 DEF Running, TestRegs
<1> QED BY <1>1, <1>2, <1>3, SameView

LEMMA ProtectRefines ==
    ASSUME Inv, Protect
    PROVE  UNCHANGED Flat!flatVars
<1> DEFINE p == tf.badvaddr
           e == [user_l3pt[p] EXCEPT !.A = FALSE, !.D = FALSE]
<1>1. pc = "filled" /\ pc' = "protected" /\ UNCHANGED <<tf, memory, home, instr>>
      /\ user_l3pt' = [user_l3pt EXCEPT ![p] = e]
  BY DEF Protect, cpu, mem
<1>2. user_l3pt \in [Pages -> Pte \cup {None}] /\ p \in Pages /\ user_l3pt[p] # None /\ user_l3pt[p] \in Pte
  BY <1>1, Sizes DEF Inv, TypeOK, FaultInv, Handling
<1>3. e \in Pte /\ e # None /\ e.frame = user_l3pt[p].frame
  BY <1>2, PteNotNone DEF Pte
<1> HIDE DEF e
<1>4. SameFrames(user_l3pt, user_l3pt')
  BY <1>1, <1>2, <1>3 DEF SameFrames
<1>5. \A q \in UserPages : TestPage(q)' = TestPage(q)
  BY <1>1, <1>4, SamePages
<1>6. Running /\ Running' /\ TestRegs' = TestRegs
  BY <1>1 DEF Running, TestRegs
<1> QED BY <1>1, <1>5, <1>6, SameView

\* The start of an instruction.
LEMMA BeginRefines ==
    ASSUME Inv, NEW in \in Instructions, Begin(in)
    PROVE  Flat!FlatNext
<1>1. pc = "user" /\ instr = None /\ instr' = in /\ UNCHANGED <<pc, regs, tf, memory, home, user_l3pt>>
  BY DEF Begin, cpu, mem, tables
<1>2. Running /\ Running' /\ TestRegs' = TestRegs
  BY <1>1 DEF Running, TestRegs
<1>3. \A q \in UserPages : TestPage(q)' = TestPage(q)
  BY <1>1, SameFramesSame, SamePages
<1>4. FlatRegs' = FlatRegs
  BY <1>2 DEF FlatRegs
<1>5. FlatMem' = FlatMem
  BY <1>2, <1>3 DEF FlatMem
<1>6. FlatInstr = None /\ FlatInstr' = in
  BY <1>1, <1>2 DEF FlatInstr
<1>7. Running' = Running
  BY <1>2, RunningBoolean
<1>8. Flat!Start(in)
  BY <1>2, <1>4, <1>5, <1>6, <1>7 DEF Flat!Start, FlatRegs, FlatMem, FlatInstr
<1> QED BY <1>8 DEF Flat!FlatNext

\* What the hart does on its own.
LEMMA HartRefines ==
    ASSUME Inv, UNCHANGED <<pc, regs, tf, memory, home, instr>>, SameFrames(user_l3pt, user_l3pt')
    PROVE  Flat!FlatNext \/ UNCHANGED Flat!flatVars
<1>1. \A q \in UserPages : TestPage(q)' = TestPage(q)
  BY SamePages
<1>2. TestRegs' = TestRegs /\ (Running <=> Running')
  BY DEF TestRegs, Running
<1>3. CASE Running
  BY <1>1, <1>2, <1>3, SameView
<1>4. CASE ~Running
  BY <1>2, <1>4, TestExits
<1> QED BY <1>3, <1>4

LEMMA StepRefines ==
    ASSUME Inv, [Next]_vars
    PROVE  Flat!FlatNext \/ UNCHANGED Flat!flatVars
<1>1. CASE \E in \in Instructions : Begin(in)
  BY <1>1, BeginRefines
<1>2. CASE Execute
  BY <1>2, ExecuteRefines
<1>3. CASE PageFault
  BY <1>3, PageFaultRefines
<1>4. CASE Ecall
  <2>1. ~Running' /\ instr # None /\ instr.op = "ecall"
    BY <1>4 DEF Ecall, Running
  <2> QED BY <2>1, TestExits
<1>5. CASE handle_fault
  BY <1>5, HandleFaultRefines
<1>6. CASE FlushReturn \/ FlushMapped \/ FlushProtected
  BY <1>6, FlushRefines
<1>7. CASE Fill
  BY <1>7, FillRefines
<1>8. CASE Protect
  BY <1>8, ProtectRefines
<1>9. CASE evict
  <2>1. pc = "evict" /\ pc' \in {"evict", "exit"}
    BY <1>9 DEF evict, EvictPage, Fails, terminate
  <2>2. ~Running /\ ~Running'
    BY <2>1 DEF Running
  <2> QED BY <2>2, TestExits
<1>10. CASE Terminate
  <2>1. ~Running /\ ~Running'
    BY <1>10 DEF Terminate, terminate, Running
  <2> QED BY <2>1, TestExits
<1>11. ASSUME NEW p \in UserPages, Prefetch(p) PROVE Flat!FlatNext \/ UNCHANGED Flat!flatVars
  <2>1. UNCHANGED <<pc, regs, tf, memory, home, instr>> /\ Translates(p, FALSE) /\ Walked({p}, {})
    BY <1>11 DEF Prefetch, cpu, mem
  <2>2. \A q \in {p} \cup {} : Translates(q, q \in {})
    BY <2>1 DEF Translates
  <2>3. {p} \in SUBSET Pages /\ {} \in SUBSET Pages
    BY Sizes
  <2>4. AfterWalk({p}, {})
    BY <2>1, <2>2, <2>3, WalkedSound DEF Inv
  <2> QED BY <2>1, <2>4, HartRefines DEF AfterWalk
<1>12. ASSUME NEW p \in UserPages, Drop(p) PROVE Flat!FlatNext \/ UNCHANGED Flat!flatVars
  <2>1. UNCHANGED <<pc, regs, tf, memory, home, instr, user_l3pt>>
    BY <1>12 DEF Drop, cpu, mem, tables
  <2> QED BY <2>1, SameFramesSame, HartRefines
<1>13. CASE UNCHANGED vars
  <2>1. UNCHANGED <<pc, regs, tf, memory, home, instr, user_l3pt>>
    BY <1>13 DEF vars, cpu, mem, tables
  <2> QED BY <2>1, SameFramesSame, HartRefines
<1> QED BY <1>1, <1>2, <1>3, <1>4, <1>5, <1>6, <1>7, <1>8, <1>9, <1>10, <1>11, <1>12, <1>13
        DEF Next, Handler

\* The environment is transparent: whatever the trap handler copies and the
\* hart keeps in its TLB, the test executes as on a machine of its own with a
\* flat memory (FlatMemory), for every number of pages.  An instruction that
\* completes has that machine's effect for that very instruction, on the
\* registers and the memory its predecessors left; the test ends only by its
\* ecall or an access outside its pages; and every other step, faults and their
\* handling included, changes nothing it can see.
THEOREM EnvironmentTransparent ==
    ASSUME FullPeriod
    PROVE  Spec => Transparent
<1>1. Init => Inv
  BY InitInv
<1>2. Init /\ Inv => Flat!FlatInit
  BY FlatInitially
<1>3. Inv /\ [Next]_vars => [Flat!FlatNext]_(Flat!flatVars)
  BY StepRefines
<1> QED BY <1>1, <1>2, <1>3, Invariance, PTL DEF Spec, Transparent, Flat!FlatSpec


==============================================================================
