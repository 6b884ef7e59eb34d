------------------------------ MODULE RiscvLRSC ------------------------------
(***************************************************************************)
(* Exclusive accesses of several harts.  LR only records the tag of the    *)
(* reserved granule in the hart.  The simulator runs one hart at a time;   *)
(* when it suspends a hart with an active reservation, a write callback    *)
(* (watch) is installed on the granule, and removed when the hart runs     *)
(* again.  A store by another hart meets the watch and ends the            *)
(* reservation.                                                            *)
(*                                                                         *)
(* Addresses are bytes.  Watches live in a memory domain, and a hart's     *)
(* data domain changes with its mode and CSRs.  All domains are taken to   *)
(* show the same memory, so that a watch sees every store to its           *)
(* addresses; what a change of translation means for a reservation is left *)
(* out.  An access that faults, a misaligned one for instance, is a trap.  *)
(***************************************************************************)
EXTENDS Integers

CONSTANTS
    Harts,      \* harts of the cluster
    NoHart,     \* no hart is running
    Domains,    \* data domains of a hart
    LastAddr,   \* the address with all bits set
    Grain,      \* lr_sc_grain: bytes of a reservation granule
    Size,       \* bytes that LR and SC access
    StoreSizes  \* bytes that other stores access

Addr == 0..LastAddr

\* RISCV_NO_TAG is all ones: the tag of no reservation is also an address.
NoTag == LastAddr

\* m is a multiple of n.
Multiple(m, n) == \E k \in 1..m : m = k * n

\* Grain and Size are powers of two, and so is the number of addresses.  The
\* default grain is 1, less than what LR and SC access.
ASSUME LRSCAssumption ==
    /\ NoHart \notin Harts
    /\ LastAddr \in Nat /\ Grain \in Nat \ {0} /\ Size \in Nat
    /\ StoreSizes \subseteq Nat \ {0}
    /\ 1 < Size
    /\ Multiple(Grain, Size) \/ Multiple(Size, Grain)
    /\ Multiple(LastAddr + 1, Grain) /\ Multiple(LastAddr + 1, Size)

\* An aligned store that writes to what LR read also writes to the granule: the
\* granule holds the access, or no store is narrower than the access.
StoresMeetGranule ==
    Multiple(Grain, Size) \/ \A n \in StoreSizes : Multiple(n, Size)

VARIABLES
    current,    \* the hart the simulator runs, or NoHart
    tag,        \* tag[h]: exclusiveTag
    domain,     \* domain[h]: current data domain
    watches,    \* write callbacks: [hart, domain, low]
    intact      \* history: intact[h]: the bytes that h reserved, {} once another
                \* hart wrote one of them or the reservation ended

vars == <<current, tag, domain, watches, intact>>

------------------------------------------------------------------------------

\* generateEATag
TagOf(a) == a - (a % Grain)

Bytes(a, n) == a .. (a + n - 1)

\* What LR reserves: the granule, and all that it read.
Span == IF Multiple(Grain, Size) THEN Grain ELSE Size

\* Values of exclusiveTag, the bytes that are watched for it and the bytes that
\* it reserves.
Tags == {NoTag} \cup {a \in Addr : a % Span = 0}
Granule(t) == IF t = NoTag THEN {} ELSE Bytes(t, Grain)
Reserved(t) == IF t = NoTag THEN {} ELSE Bytes(t, Span)

\* The watch that updateExclusiveAccessCallback installs or removes for hart
\* h, given its tag and domain; none without a reservation.
WatchOf(h, t, d) == IF t = NoTag THEN {} ELSE {[hart |-> h, domain |-> d, low |-> t]}

AllWatches(t, d) == UNION {WatchOf(h, t[h], d[h]) : h \in Harts}

\* Harts with a watch that a store to the given bytes triggers.
Hit(bytes) == {w.hart : w \in {v \in watches : bytes \cap Granule(v.low) # {}}}

\* A store of hart h to the given bytes: abortEA runs for each hart that is
\* hit and ends its reservation, removing the watch (riscvAbortExclusiveAccess).
Store(h, bytes) ==
    /\ tag' = [g \in Harts |-> IF g \in Hit(bytes) THEN NoTag ELSE tag[g]]
    /\ watches' = watches \ UNION {WatchOf(g, tag[g], domain[g]) : g \in Hit(bytes)}
    /\ intact' = [g \in Harts |-> IF g # h /\ intact[g] \cap bytes # {} THEN {} ELSE intact[g]]

------------------------------------------------------------------------------
(* Instructions of the running hart *)

LR(h, a) ==
    /\ current = h
    /\ a % Size = 0
    /\ tag' = [tag EXCEPT ![h] = TagOf(a)]
    /\ intact' = [intact EXCEPT ![h] = Reserved(a - (a % Span))]
    /\ UNCHANGED <<current, domain, watches>>

\* The store happens before the tag is cleared.  The callbacks of the store
\* leave the tag of h cleared or as it was, so the outcome is the same.
SCSuccess(h, a) ==
    /\ current = h
    /\ a % Size = 0
    /\ tag[h] = TagOf(a)
    /\ LET bytes == Bytes(a, Size)
           hit == Hit(bytes) IN
       /\ tag' = [g \in Harts |-> IF g \in hit \cup {h} THEN NoTag ELSE tag[g]]
       /\ watches' = watches \ UNION {WatchOf(g, tag[g], domain[g]) : g \in hit}
       /\ intact' = [g \in Harts |-> IF g = h \/ intact[g] \cap bytes # {} THEN {} ELSE intact[g]]
    /\ UNCHANGED <<current, domain>>

SCFail(h, a) ==
    /\ current = h
    /\ tag[h] # TagOf(a)
    /\ tag' = [tag EXCEPT ![h] = NoTag]
    /\ intact' = [intact EXCEPT ![h] = {}]
    /\ UNCHANGED <<current, domain, watches>>

\* Any other store or atomic memory operation.
OtherStore(h, a, n) ==
    /\ current = h
    /\ a % n = 0
    /\ Store(h, Bytes(a, n))
    /\ UNCHANGED <<current, domain>>

\* A trap or a return (clearEA), after which another domain may be current.
Trap(h, d) ==
    /\ current = h
    /\ tag' = [tag EXCEPT ![h] = NoTag]
    /\ domain' = [domain EXCEPT ![h] = d]
    /\ intact' = [intact EXCEPT ![h] = {}]
    /\ UNCHANGED <<current, watches>>

\* A write of mstatus or satp that selects another domain.
CSRWrite(h, d) ==
    /\ current = h
    /\ domain' = [domain EXCEPT ![h] = d]
    /\ UNCHANGED <<current, tag, watches, intact>>

------------------------------------------------------------------------------
(* The simulator and the signals of a hart, whether it runs or not *)

\* Mutant of Suspend: the watch is removed here, as in Run.
SuspendRemovesWatch(h) ==
    /\ current = h
    /\ current' = NoHart
    /\ watches' = watches \ WatchOf(h, tag[h], domain[h])
    /\ UNCHANGED <<tag, domain, intact>>

\* riscvContextSwitchCB
Suspend(h) ==
    /\ current = h
    /\ current' = NoHart
    /\ watches' = watches \cup WatchOf(h, tag[h], domain[h])
    /\ UNCHANGED <<tag, domain, intact>>

Run(h) ==
    /\ current = NoHart
    /\ current' = h
    /\ watches' = watches \ WatchOf(h, tag[h], domain[h])
    /\ UNCHANGED <<tag, domain, intact>>

\* riscvReset: the mode changes and riscvCSRReset clears the tag, but no watch
\* is removed.
Reset(h, d) ==
    /\ tag' = [tag EXCEPT ![h] = NoTag]
    /\ domain' = [domain EXCEPT ![h] = d]
    /\ intact' = [intact EXCEPT ![h] = {}]
    /\ UNCHANGED <<current, watches>>

\* doNMI: the mode changes and the reservation stays.
NMI(h, d) ==
    /\ domain' = [domain EXCEPT ![h] = d]
    /\ UNCHANGED <<current, tag, watches, intact>>

\* Mutant of Restore: the restored reservation is not watched.
RestoreNoWatch(t, d) ==
    /\ current = NoHart
    /\ tag' = t /\ domain' = d
    /\ watches' = watches \ AllWatches(tag, domain)
    /\ intact' = [h \in Harts |-> Reserved(t[h])]
    /\ UNCHANGED current

\* riscvRestoreState, of a state that some run saved with tags t and domains d:
\* the watch of each hart is removed at the start of its restore and one for
\* the restored tag is installed at the end.  Memory is restored too, so that
\* the reservations are intact as they were when saved.
Restore(t, d) ==
    /\ current = NoHart
    /\ tag' = t /\ domain' = d
    /\ watches' = (watches \ AllWatches(tag, domain)) \cup AllWatches(t, d)
    /\ intact' = [h \in Harts |-> Reserved(t[h])]
    /\ UNCHANGED current

------------------------------------------------------------------------------

Init ==
    /\ current = NoHart
    /\ tag = [h \in Harts |-> NoTag]
    /\ domain \in [Harts -> Domains] /\ \A g, h \in Harts : domain[g] = domain[h]
    /\ watches = {}
    /\ intact = [h \in Harts |-> {}]

Instruction(h) ==
    \/ \E a \in Addr : LR(h, a) \/ SCSuccess(h, a) \/ SCFail(h, a)
    \/ \E a \in Addr, n \in StoreSizes : OtherStore(h, a, n)
    \/ \E d \in Domains : Trap(h, d) \/ CSRWrite(h, d)

Next ==
    \/ \E h \in Harts : Instruction(h) \/ Suspend(h) \/ Run(h)
    \/ \E h \in Harts, d \in Domains : Reset(h, d) \/ NMI(h, d)
    \/ \E t \in [Harts -> Tags], d \in [Harts -> Domains] : Restore(t, d)

Spec == Init /\ [][Next]_vars

------------------------------------------------------------------------------
(* Properties *)

\* Types, and tags are addresses of granules and of accesses.
TypeOK ==
    /\ current \in Harts \cup {NoHart}
    /\ tag \in [Harts -> Tags]
    /\ domain \in [Harts -> Domains]
    /\ watches \subseteq [hart : Harts, domain : Domains, low : Addr \ {NoTag}]
    /\ intact \in [Harts -> SUBSET Addr]

\* Where SC would succeed now, no other hart has written any byte that it stores
\* to since the LR it pairs with, and no trap, reset or other SC came between:
\* whatever the interleaving of context switches, signals, saves and restores.
\* With StoresMeetGranule; else a narrow store beside the granule goes unseen.
SCIsAtomic ==
    \A h \in Harts, a \in Addr :
        a % Size = 0 /\ tag[h] = TagOf(a) => Bytes(a, Size) \subseteq intact[h]

\* The tag of a suspended hart is watched in some domain, also after the
\* domain it was installed in is no longer the hart's.
SuspendedReservationWatched ==
    \A h \in Harts : h # current /\ tag[h] # NoTag =>
        \E d \in Domains : WatchOf(h, tag[h], d) \subseteq watches

==============================================================================
