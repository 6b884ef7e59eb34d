----------------------------- MODULE VMTestEnv -------------------------------
(* The virtual memory test environment of riscv-test-env/v: vm_boot builds a  *)
(* page table and a list of free pages and enters the test in user mode; the  *)
(* trap handler gives the test a copy of each page it touches, keeps the      *)
(* accessed and dirty bits when the hart does not, and takes the pages back   *)
(* when the test exits.                                                       *)
(*                                                                            *)
(* The hart is external: it may keep translations in a TLB, fill it ahead of  *)
(* need and drop entries, and either sets the A and D bits itself or raises a *)
(* page fault when they are clear, the two schemes the privileged             *)
(* specification allows and the environment is written for.                   *)
EXTENDS Integers, FiniteSets, Sequences

CONSTANTS LFSRBits,    \* the generator's width: 6 in the code
          Registers,   \* registers of the test; "sp" and "a0" are handled
                       \* specially on entry and on return
          Words,       \* what a page or a register can hold
          Images       \* contents of the pages a test can be loaded with

ASSUME LFSRAssumption == LFSRBits \in Nat \ {0, 1}
ASSUME WordsAssumption == {0, 1} \subseteq Words /\ {"sp", "a0"} \subseteq Registers

MAX_TEST_PAGES == 2^LFSRBits - 1
UserPages      == 1..(MAX_TEST_PAGES - 1)
Frames         == (MAX_TEST_PAGES + 1)..(2 * MAX_TEST_PAGES)

ASSUME ImagesAssumption == Images \subseteq [UserPages -> Words]

VARIABLES pc,             \* where the test, the handler or the exit stands
          regs, sscratch, tf,             \* registers and the saved trap frame
          instr,          \* the instruction the test executes, or None
          user_l3pt,      \* page table entries of the user's pages
          user_mapping, freelist_nodes, freelist_head, freelist_tail,
          memory, home,   \* frames given to the test; the pages it was loaded to
          tlb, hardwareAD,                \* the hart
          i,              \* the page handle_trap takes back next
          tohost,
          result          \* history: the test's pages when it exits, or None

hart   == <<tlb, hardwareAD>>
list   == <<freelist_nodes, freelist_head, freelist_tail>>
tables == <<user_l3pt, user_mapping, list>>
mem    == <<memory, home>>
cpu    == <<regs, sscratch, tf>>
vars   == <<pc, cpu, instr, tables, mem, hart, i, tohost, result>>

None   == <<>>
Kernel    == -1        \* a register's content that belongs to the handler
Trapframe == -2        \* the address of the trap frame, kept in sscratch

-----------------------------------------------------------------------------
(* Boot *)

LFSR_NEXT(x) == ((x + (x \div 2)) % 2) * 2^(LFSRBits - 1) + (x \div 2)

\* The value of random when vm_boot fills in node n.
vm_boot_random(n, seed) == LET random[k \in 0..MAX_TEST_PAGES] ==
                                 IF k = 0 THEN 1 + seed ELSE LFSR_NEXT(random[k - 1])
                           IN  random[n]

\* The generator goes through all its values, from any seed: every page is put
\* on the free list once.
FullPeriod ==
    \A seed \in 0..(MAX_TEST_PAGES - 1) :
        /\ \A n \in 0..(MAX_TEST_PAGES - 1) : vm_boot_random(n, seed) \in 1..MAX_TEST_PAGES
        /\ \A a \in 1..MAX_TEST_PAGES : \E n \in 0..(MAX_TEST_PAGES - 1) : vm_boot_random(n, seed) = a
        /\ \A n, k \in 0..(MAX_TEST_PAGES - 1) :
              vm_boot_random(n, seed) = vm_boot_random(k, seed) => n = k

FreeNode(n) == <<"free", n>>
UserNode(p) == <<"user", p>>
Node(n)     == IF n[1] = "free" THEN freelist_nodes[n[2]] ELSE user_mapping[n[2]]

vm_boot(seed) ==
    /\ freelist_head = FreeNode(0)
    /\ freelist_tail = FreeNode(MAX_TEST_PAGES - 1)
    /\ freelist_nodes = [n \in 0..(MAX_TEST_PAGES - 1) |->
                           [addr |-> MAX_TEST_PAGES + vm_boot_random(n, seed),
                            next |-> IF n = MAX_TEST_PAGES - 1 THEN None ELSE FreeNode(n + 1)]]
    /\ user_mapping = [p \in 0..(MAX_TEST_PAGES - 1) |-> [addr |-> 0, next |-> None]]
    /\ user_l3pt = [p \in 0..(MAX_TEST_PAGES - 1) |-> None]
    /\ sscratch = Trapframe
    /\ tf = None
    /\ regs = [r \in Registers |-> 0]
    /\ pc = "user"

Init == /\ \E seed \in 0..(MAX_TEST_PAGES - 1) : vm_boot(seed)
        /\ instr = None
        /\ home \in Images
        /\ memory = [f \in Frames |-> 0]
        /\ tlb = [p \in 0..(MAX_TEST_PAGES - 1) |-> None]
        /\ hardwareAD \in BOOLEAN
        /\ i = 1 /\ tohost = 0 /\ result = None

-----------------------------------------------------------------------------
(* The hart *)

Entry(p) == IF tlb[p] # None THEN tlb[p] ELSE user_l3pt[p]

\* The access is translated: by an entry with the bits it needs, or by one the
\* hart completes itself.
Translates(p, store) ==
    /\ Entry(p) # None
    /\ hardwareAD \/ (Entry(p).A /\ (store => Entry(p).D))

WithBits(e, store) == [e EXCEPT !.A = TRUE, !.D = @ \/ store]

\* Accesses to the pages in loads and stores: the page table and the TLB after.
Walked(loads, stores) ==
    LET touched == loads \cup stores
        entry(p) == WithBits(Entry(p), p \in stores)
    IN  /\ tlb' = [p \in DOMAIN tlb |-> IF p \in touched THEN entry(p) ELSE tlb[p]]
        /\ user_l3pt' = [p \in DOMAIN user_l3pt |->
                           IF p \in touched /\ hardwareAD /\ Entry(p) # entry(p)
                           THEN WithBits(user_l3pt[p], p \in stores) ELSE user_l3pt[p]]

\* A page is translated ahead of need; only the A bit may be set for that.
Prefetch(p) ==
    /\ pc # "exit" /\ tlb[p] = None /\ Translates(p, FALSE)
    /\ Walked({p}, {})
    /\ UNCHANGED <<pc, cpu, instr, user_mapping, list, mem, hardwareAD, i, tohost, result>>

Drop(p) ==
    /\ pc # "exit" /\ tlb[p] # None
    /\ tlb' = [tlb EXCEPT ![p] = None]
    /\ UNCHANGED <<pc, cpu, instr, tables, mem, hardwareAD, i, tohost, result>>

flush_page(p) == tlb' = [tlb EXCEPT ![p] = None]

-----------------------------------------------------------------------------
(* The test: an instruction is fetched from a page and may access another.   *)

Instructions ==
    [fetch : UserPages, op : {"load", "store"}, page : {0} \cup UserPages, reg : Registers]
      \cup [fetch : UserPages, op : {"li"}, word : Words, reg : Registers]
      \cup [fetch : UserPages, op : {"ecall"}]

Begin(in) ==
    /\ pc = "user" /\ instr = None
    /\ instr' = in
    /\ UNCHANGED <<pc, cpu, tables, mem, hart, i, tohost, result>>

\* The accesses of an instruction in the order the hart makes them.
Accesses(in) == <<[page |-> in.fetch, cause |-> "FETCH_PAGE_FAULT"]>> \o
                (CASE in.op = "load"  -> <<[page |-> in.page, cause |-> "LOAD_PAGE_FAULT"]>>
                   [] in.op = "store" -> <<[page |-> in.page, cause |-> "STORE_PAGE_FAULT"]>>
                   [] OTHER -> <<>>)

Passes(a) == Translates(a.page, a.cause = "STORE_PAGE_FAULT")

Execute ==
    LET as     == Accesses(instr)
        stores == {as[k].page : k \in {n \in DOMAIN as : as[n].cause = "STORE_PAGE_FAULT"}}
        loads  == {as[k].page : k \in DOMAIN as} \ stores
    IN  /\ pc = "user" /\ instr # None /\ instr.op # "ecall"
        /\ \A k \in DOMAIN as : Passes(as[k])
        /\ Walked(loads, stores)
        /\ regs' = CASE instr.op = "load" -> [regs EXCEPT ![instr.reg] = memory[Entry(instr.page).frame]]
                     [] instr.op = "li"   -> [regs EXCEPT ![instr.reg] = instr.word]
                     [] OTHER -> regs
        /\ memory' = IF instr.op = "store" THEN [memory EXCEPT ![Entry(instr.page).frame] = regs[instr.reg]]
                     ELSE memory
        /\ instr' = None
        /\ UNCHANGED <<pc, sscratch, tf, user_mapping, list, home, hardwareAD, i, tohost, result>>

\* The test's view of a page: its copy once the handler has filled it, and the
\* page it was loaded to before.
TestPage(p) == IF user_l3pt[p] = None \/ (pc \in {"mapped", "fill"} /\ tf.badvaddr = p) THEN home[p]
               ELSE memory[user_l3pt[p].frame]

-----------------------------------------------------------------------------
(* Traps *)

\* trap_entry stores every register in the frame that sscratch points to; the
\* test's sp, which went to sscratch, is stored last, through t0.
trap_entry(page, cause) ==
    /\ tf' = [gpr |-> regs, badvaddr |-> page, cause |-> cause]
    /\ regs' = [r \in Registers |-> IF r \in {"sp", "a0"} THEN sscratch ELSE Kernel]
    /\ sscratch' = sscratch

\* pop_tf: every register from the frame, a0, which points to it, last. The
\* next trap overwrites the whole frame before it is read again.
pop_tf == /\ regs' = tf.gpr /\ tf' = None
          /\ pc' = "user"
          /\ UNCHANGED sscratch

\* The test ends: do_tohost waits for the host to have taken what was there.
terminate(code) == /\ tohost = 0
                   /\ tohost' = code
                   /\ pc' = "exit"

\* The first access that is not translated traps; handle_trap dispatches on
\* the cause, and a page fault goes to handle_fault.
PageFault ==
    LET as == Accesses(instr) IN
    /\ pc = "user" /\ instr # None
    /\ \E k \in DOMAIN as :
          /\ ~Passes(as[k]) /\ \A n \in 1..(k - 1) : Passes(as[n])
          /\ trap_entry(as[k].page, as[k].cause)
    /\ pc' = "handle_fault"
    /\ UNCHANGED <<instr, tables, mem, hart, i, tohost, result>>

\* The call that ends the test.
Ecall ==
    /\ pc = "user" /\ instr # None /\ instr.op = "ecall"
    /\ Passes(Accesses(instr)[1])
    /\ trap_entry(0, "USER_ECALL")
    /\ Walked({instr.fetch}, {})
    /\ pc' = "evict" /\ i' = 1
    /\ result' = [p \in UserPages |-> TestPage(p)]
    /\ UNCHANGED <<instr, user_mapping, list, mem, hardwareAD, tohost>>

-----------------------------------------------------------------------------
(* handle_fault *)

\* A failed assertion reports itself and ends the test with code 3.
Fails == /\ terminate(3)
         /\ UNCHANGED <<cpu, instr, tables, mem, hart, i, result>>

\* Mutant of SetBit: the accessed bit whatever the fault asked for.
SetAccessedOnly(p) ==
    LET e == user_l3pt[p] IN
    /\ e # None
    /\ user_l3pt' = [user_l3pt EXCEPT ![p] = [e EXCEPT !.A = TRUE]]
    /\ pc' = "flush"
    /\ UNCHANGED <<cpu, instr, user_mapping, list, mem, hart, i, tohost, result>>

\* The page is mapped: the fault asks for the A or the D bit.
SetBit(p) ==
    LET e == user_l3pt[p] IN
    /\ e # None
    /\ user_l3pt' = [user_l3pt EXCEPT ![p] = IF ~e.A THEN [e EXCEPT !.A = TRUE] ELSE [e EXCEPT !.D = TRUE]]
    /\ pc' = "flush"
    /\ UNCHANGED <<cpu, instr, user_mapping, list, mem, hart, i, tohost, result>>

\* Mutant of TakePage: the head of the list is not advanced.
TakePageKeepsHead(p) ==
    LET node == freelist_head IN
    /\ user_l3pt' = [user_l3pt EXCEPT ![p] = [frame |-> Node(node).addr, A |-> TRUE, D |-> TRUE]]
    /\ user_mapping' = [user_mapping EXCEPT ![p] = Node(node)]
    /\ UNCHANGED <<freelist_head, freelist_tail>>

\* Mutant of TakePage: the node is not copied to user_mapping.
TakePageUnrecorded(p) ==
    LET node == freelist_head IN
    /\ user_l3pt' = [user_l3pt EXCEPT ![p] = [frame |-> Node(node).addr, A |-> TRUE, D |-> TRUE]]
    /\ freelist_head' = Node(node).next
    /\ freelist_tail' = IF freelist_head' = freelist_tail THEN None ELSE freelist_tail
    /\ UNCHANGED user_mapping

\* The page at the head of the free list becomes the test's, under an entry
\* with both bits set so that the handler can fill it. The tail is cleared when
\* one page is left.
TakePage(p) ==
    LET node == freelist_head IN
    /\ user_l3pt' = [user_l3pt EXCEPT ![p] = [frame |-> Node(node).addr, A |-> TRUE, D |-> TRUE]]
    /\ user_mapping' = [user_mapping EXCEPT ![p] = Node(node)]
    /\ freelist_head' = Node(node).next
    /\ freelist_tail' = IF freelist_head' = freelist_tail THEN None ELSE freelist_tail

\* What handle_fault asserts of the fault on page p, in the state it finds.
Expected(p) ==
    /\ p \in UserPages
    /\ LET e == user_l3pt[p] IN
       IF e # None THEN e.A => (~e.D /\ tf.cause = "STORE_PAGE_FAULT")
                   ELSE freelist_head # None /\ user_mapping[p].addr = 0

handle_fault ==
    LET p == tf.badvaddr IN
    /\ pc = "handle_fault"
    /\ \/ ~Expected(p) /\ Fails
       \/ Expected(p) /\ user_l3pt[p] # None /\ SetBit(p)
       \/ /\ Expected(p) /\ user_l3pt[p] = None
          /\ TakePage(p)
          /\ pc' = "mapped"
          /\ UNCHANGED <<cpu, instr, freelist_nodes, mem, hart, i, tohost, result>>

\* The fence after a bit was set, and the return to the test.
FlushReturn ==
    /\ pc = "flush"
    /\ flush_page(tf.badvaddr)
    /\ pop_tf
    /\ UNCHANGED <<instr, tables, mem, hardwareAD, i, tohost, result>>

FlushMapped ==
    /\ pc = "mapped"
    /\ flush_page(tf.badvaddr)
    /\ pc' = "fill"
    /\ UNCHANGED <<cpu, instr, tables, mem, hardwareAD, i, tohost, result>>

\* memcpy through the test's own mapping.
Fill ==
    LET p == tf.badvaddr IN
    /\ pc = "fill" /\ Translates(p, TRUE)
    /\ memory' = [memory EXCEPT ![Entry(p).frame] = home[p]]
    /\ Walked({}, {p})
    /\ pc' = "filled"
    /\ UNCHANGED <<cpu, instr, user_mapping, list, home, hardwareAD, i, tohost, result>>

\* The entry that the test will use has neither bit.
Protect ==
    /\ pc = "filled"
    /\ user_l3pt' = [user_l3pt EXCEPT ![tf.badvaddr] = [@ EXCEPT !.A = FALSE, !.D = FALSE]]
    /\ pc' = "protected"
    /\ UNCHANGED <<cpu, instr, user_mapping, list, mem, hart, i, tohost, result>>

\* Mutant of FlushProtected: the handler returns without the last fence.
ReturnUnflushed ==
    /\ pc = "protected"
    /\ pop_tf
    /\ UNCHANGED <<instr, tables, mem, hart, i, tohost, result>>

FlushProtected ==
    /\ pc = "protected"
    /\ flush_page(tf.badvaddr)
    /\ pop_tf
    /\ UNCHANGED <<instr, tables, mem, hardwareAD, i, tohost, result>>

-----------------------------------------------------------------------------
(* evict, for each page, and the end of the test *)

append_node(node) ==
    IF freelist_tail = None
    THEN /\ freelist_head' = node /\ freelist_tail' = node
         /\ user_mapping' = [user_mapping EXCEPT ![i].addr = 0]
         /\ UNCHANGED freelist_nodes
    ELSE LET t == freelist_tail IN
         /\ freelist_tail' = node /\ UNCHANGED freelist_head
         /\ freelist_nodes' = IF t[1] = "free" THEN [freelist_nodes EXCEPT ![t[2]].next = node] ELSE freelist_nodes
         /\ user_mapping' = [[user_mapping EXCEPT ![i].addr = 0] EXCEPT
                               ![IF t[1] = "user" THEN t[2] ELSE 0].next = IF t[1] = "user" THEN node ELSE @]

\* The page is compared with the one the test was loaded to; memcpy then goes
\* to the test's page.
EvictPage ==
    LET e       == user_l3pt[i]
        changed == memory[Entry(i).frame] # home[i]
    IN  IF e.A /\ (changed => e.D)
        THEN /\ Translates(i, changed)
             /\ memory' = [memory EXCEPT ![Entry(i).frame] = home[i]]
             /\ IF changed THEN Walked({}, {i}) ELSE Walked({i}, {})
             /\ append_node(UserNode(i))
             /\ i' = i + 1
             /\ UNCHANGED <<pc, cpu, instr, home, hardwareAD, tohost, result>>
        ELSE Fails

evict ==
    /\ pc = "evict" /\ i < MAX_TEST_PAGES
    /\ \/ user_mapping[i].addr # 0 /\ EvictPage
       \/ /\ user_mapping[i].addr = 0
          /\ i' = i + 1
          /\ UNCHANGED <<pc, cpu, instr, tables, mem, hart, tohost, result>>

\* The code is in a0: 1 if the test passed.
Terminate ==
    /\ pc = "evict" /\ i = MAX_TEST_PAGES
    /\ terminate(tf.gpr["a0"])
    /\ UNCHANGED <<cpu, instr, tables, mem, hart, i, result>>

-----------------------------------------------------------------------------
Handler == \/ handle_fault \/ FlushReturn \/ FlushMapped \/ Fill \/ Protect \/ FlushProtected
           \/ evict \/ Terminate

Next == \/ \E in \in Instructions : Begin(in)
        \/ Execute \/ PageFault \/ Ecall
        \/ Handler
        \/ \E p \in UserPages : Prefetch(p) \/ Drop(p)

Spec == Init /\ [][Next]_vars

\* The hart goes on executing; the TLB's own activity is not required.
Fairness == WF_vars(Execute) /\ WF_vars(PageFault) /\ WF_vars(Ecall) /\ WF_vars(Handler)

LiveSpec == Spec /\ Fairness

-----------------------------------------------------------------------------
(* Properties *)

TestRegs == IF pc = "user" THEN regs ELSE tf.gpr

\* The test runs until it exits or accesses a page it does not have.
Running  == pc \notin {"evict", "exit"} /\ ~(pc = "handle_fault" /\ tf.badvaddr = 0)

Flat == INSTANCE FlatMemory WITH
            Registers <- Registers, Pages <- UserPages, Instructions <- Instructions,
            Images <- Images, Zero <- 0, None <- None,
            regs <- IF Running THEN TestRegs ELSE [r \in Registers |-> 0],
            memory <- IF Running THEN [p \in UserPages |-> TestPage(p)] ELSE [p \in UserPages |-> 0],
            instr <- IF Running THEN instr ELSE None,
            running <- Running

\* The environment is transparent to the test (vm.c): every instruction that
\* completes has the effect it would have on a machine of its own, on the
\* registers and the memory as the test left them; page faults, copying and the
\* hart's TLB change nothing the test can see; and it ends only where it exits
\* or leaves its pages.
Transparent == Flat!FlatSpec

\* No assertion of vm.c fails in a test that stays within its pages: the A and
\* D bits, the cause of the fault and the free list are as the handler expects,
\* and the handler's own accesses to the page are translated.  (A test may also
\* exit with the code of a failed assertion, once its pages are taken back.)
AssertionsHold ==
    /\ tohost = 3 => IF tf.cause = "USER_ECALL" THEN i = MAX_TEST_PAGES /\ tf.gpr["a0"] = 3
                     ELSE tf.badvaddr = 0
    /\ pc = "fill" => Translates(tf.badvaddr, TRUE)
    /\ (pc = "evict" /\ i < MAX_TEST_PAGES /\ user_mapping[i].addr # 0 /\ user_l3pt[i].A)
          => Translates(i, user_l3pt[i].D)

\* The frames on the free list, following the links from its head.
FreeFrames ==
    LET node[k \in 0..(2 * MAX_TEST_PAGES)] ==
            IF k = 0 THEN freelist_head
            ELSE IF node[k - 1] = None THEN None ELSE Node(node[k - 1]).next
    IN  {Node(node[k]).addr : k \in {n \in DOMAIN node : node[n] # None}}

\* Each frame that vm_boot put on the free list is on it or is the copy of one
\* page of the test, never both, never of two pages, and none is lost.
PagesAccounted ==
    pc \notin {"evict", "exit"} =>
        LET mapped == {p \in UserPages : user_l3pt[p] # None}
            taken  == {user_l3pt[p].frame : p \in mapped}
        IN  /\ \A p \in UserPages : user_mapping[p].addr = IF p \in mapped THEN user_l3pt[p].frame ELSE 0
            /\ Cardinality(taken) = Cardinality(mapped)
            /\ FreeFrames \cap taken = {}
            /\ FreeFrames \cup taken = Frames

\* An instruction of the test completes however many faults it raises, or the
\* test ends: handling a fault always removes its reason.
InstructionCompletes == (instr # None) ~> (instr = None \/ pc = "exit")

\* The results a test wrote to its pages are in the memory it was loaded to
\* when the environment reports that it passed.
ResultsWrittenBack == tohost = 1 => home = result
=============================================================================
