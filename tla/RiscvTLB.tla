------------------------------ MODULE RiscvTLB -------------------------------
(***************************************************************************)
(* Address translation.  A TLB entry is made by a page table walk when an  *)
(* access misses.  The simulator does not look into the TLB: each entry    *)
(* that was used in a mode is mapped (aliased) in the virtual domain of    *)
(* that mode, and an access that hits a mapping never reaches this code.   *)
(* So there are two caches of the page tables, and each mapping depends on *)
(* mstatus.SUM, mstatus.MXR and the ASID at the time it was made.  These   *)
(* are kept as its simulated ASID; a mapping is used only while they are   *)
(* the current ones, as far as they matter for the entry.                  *)
(*                                                                         *)
(* Addresses are page numbers.  The range lookup table and the domains     *)
(* belong to the simulator (external): if several entries or mappings fit, *)
(* any of them may be found.  PMP is the subject of RiscvPMP; a walk meets *)
(* it as a table that cannot be read or written.  Entries that artifact    *)
(* accesses create are left out: no artifact access reaches a walk here.   *)
(***************************************************************************)
EXTENDS Integers, FiniteSets

CONSTANTS
    Levels,      \* levels of the page table (2 for Sv32, 3 for Sv39, 4 for Sv48)
    VPNShift,    \* bits of an index into a table (10 for Sv32, 9 for Sv39 and Sv48)
    Tables,      \* physical pages that hold readable page tables
    Configs,     \* configurations of the processor and of the software
    MaxTLB       \* bound: entries in the TLB

UMode == 0
SMode == 1
VMModes == {UMode, SMode}
Access == {"R", "W", "X"}
Pte == [V : BOOLEAN, priv : SUBSET Access, U : BOOLEAN, G : BOOLEAN,
        A : BOOLEAN, D : BOOLEAN, ppn : Nat]
Width == 2^VPNShift \* entries of a table
Indices == 0..Width-1
InvalidPte == [V |-> FALSE, priv |-> {}, U |-> FALSE, G |-> FALSE,
               A |-> FALSE, D |-> FALSE, ppn |-> 0]

ASSUME TLBAssumption ==
    /\ Levels \in 1..4 /\ VPNShift \in Nat /\ MaxTLB \in Nat
    /\ Tables \subseteq Nat
    /\ \A c \in Configs :
        /\ c.fixedTables \subseteq Tables /\ c.vas \subseteq Nat
        /\ \A s \in c.satps : s.asid \in Nat /\ s.root \in Tables /\ (~c.hasASID => s.asid = 0)
        /\ \A w \in c.pteWrites : w[1] \in Tables /\ w[2] \in Indices /\ w[3] \in Pte
        /\ {c.updateA, c.updateD, c.hasASID, c.userExec, c.resets} \subseteq BOOLEAN

VARIABLES
    config,  \* the configuration, fixed when the processor is constructed
    pt,      \* page tables in memory
    satp,    \* satp.ASID and satp.PPN
    mxr, sum,\* mstatus.MXR and mstatus.SUM
    tlb,     \* the set of TLB entries
    maps,    \* maps[m][va]: mappings in the virtual domain of mode m
    simASID, \* simulator: simulated ASID, [asid, mxr, sum]
    recent   \* history: translations <<asid, va, leaf>> that the page tables
             \* gave at some time since the last fence that covers them

vars == <<config, pt, satp, mxr, sum, tlb, maps, simASID, recent>>

FixedTables == config.fixedTables \* tables that a walk cannot write
VAs == config.vas                 \* virtual pages that are accessed
Satps == config.satps             \* values of satp: [asid, root]
PteWrites == config.pteWrites     \* page table writes: <<table, index, entry>>
UpdateA == config.updateA         \* configInfo.updatePTEA
UpdateD == config.updateD         \* configInfo.updatePTED
HasASID == config.hasASID         \* is a bit of satp.ASID implemented (getASIDMask)?
UserExec == config.userExec       \* before privileged version 1.11: S executes U pages
Resets == config.resets           \* is the hart reset?

------------------------------------------------------------------------------
(* Page table walk: tlbLookupSv32, tlbLookupSv39, tlbLookupSv48 *)

PageSize(i) == 2^(VPNShift * i)
VPN(va, i) == (va \div PageSize(i)) % Width

WalkError(e) == [err |-> e]

\* The loop over the levels, from level i and table t: the leaf entry that
\* translates va and its place.
WalkFrom(p, va) ==
    LET walk[i \in 0..Levels-1] == [t \in Nat |->
            IF t \notin Tables THEN WalkError("READ")
            ELSE LET e == p[t][VPN(va, i)] IN
                 IF ~e.V THEN WalkError("V0")
                 ELSE IF "W" \in e.priv /\ "R" \notin e.priv THEN WalkError("R0W1")
                 ELSE IF e.priv # {} THEN [err |-> "none", t |-> t, i |-> i, pte |-> e]
                 ELSE IF i = 0 THEN WalkError("LEAF")
                 ELSE walk[i-1][e.ppn]]
    IN  walk

FindLeaf(p, root, va) ==
    IF va >= PageSize(Levels) THEN WalkError("VAEXTEND")
    ELSE LET w == WalkFrom(p, va)[Levels-1][root] IN
         IF w.err = "none" /\ w.pte.ppn % PageSize(w.i) # 0 THEN WalkError("ALIGN") ELSE w

\* The TLB entry for leaf w: fields that come from the page table.
Leaf(w, va) ==
    [low |-> va - (va % PageSize(w.i)), size |-> PageSize(w.i), ppn |-> w.pte.ppn,
     priv |-> w.pte.priv, U |-> w.pte.U, G |-> w.pte.G \/ ~HasASID,
     A |-> w.pte.A, D |-> w.pte.D]

\* Privileges an entry gives in mode m under MXR x and SUM s.
EntryPriv(m, e, x, s) ==
    LET priv == IF "X" \in e.priv /\ x THEN e.priv \cup {"R"} ELSE e.priv
    IN  IF m = UMode THEN IF e.U THEN priv ELSE {}
        ELSE IF ~e.U THEN priv
        ELSE IF ~s THEN {}
        ELSE IF UserExec THEN priv ELSE priv \ {"X"}

CheckEntryPermission(m, e, q) == q \in EntryPriv(m, e, mxr, sum)

\* The A bit is set by any access, the D bit by a write.
NewD(pte, q) == pte.D \/ q = "W"

\* The walk for an access q in mode m: an error, or the leaf with its A and D
\* bits updated.  Without hardware update a bit that is not set is an error,
\* and so is a table entry that cannot be written back.
TlbLookup(m, va, q) ==
    LET w == FindLeaf(pt, satp.root, va)
        new == [w.pte EXCEPT !.A = TRUE, !.D = NewD(w.pte, q)]
    IN  IF w.err # "none" THEN w
        ELSE IF ~CheckEntryPermission(m, Leaf(w, va), q) THEN WalkError("PRIV")
        ELSE IF ~w.pte.A /\ ~UpdateA THEN WalkError("A0")
        ELSE IF q = "W" /\ ~w.pte.D /\ ~UpdateD THEN WalkError("D0")
        ELSE IF new # w.pte /\ w.t \in FixedTables THEN WalkError("WRITE")
        ELSE [w EXCEPT !.pte = new]

------------------------------------------------------------------------------
(* TLB entries and mappings.  An entry is [leaf, mapped, simASID]: what the  *)
(* page table says, the modes in which it is mapped (isMapped), and the     *)
(* simulated ASID of these mappings.                                        *)

Covers(e, va) == e.leaf.low <= va /\ va < e.leaf.low + e.leaf.size

MatchASID(asid, e) == e.leaf.G \/ e.simASID.asid = asid

\* Mutant of EntryASIDMask: SUM does not matter for a user page.
EntryASIDMaskNoSUM(l, m) == [asid |-> ~l.G, sum |-> FALSE]

\* getEntryASIDMask: which parts of the simulated ASID, beside MXR, decide
\* whether the mapping of leaf l in mode m is used.
EntryASIDMask(l, m) == [asid |-> ~l.G, sum |-> l.U /\ m = SMode]

\* The simulated ASID s, restricted to the parts a mask selects.
MaskASID(mask, s) == [asid |-> IF mask.asid THEN s.asid ELSE 0, mxr |-> s.mxr,
                      sum |-> mask.sum /\ s.sum]

\* The effective ASID of leaf l in mode m when the simulated ASID is s.
EffectiveASID(l, m, s) == MaskASID(EntryASIDMask(l, m), s)

\* The key of a mapping: the mask and the simulated ASID under it.
Key(e, m) == [mask |-> EntryASIDMask(e.leaf, m), asid |-> EffectiveASID(e.leaf, m, e.simASID)]

\* May the simulator use a mapping with key k while s is the simulated ASID?
Usable(k, s) == MaskASID(k.mask, s) = k.asid

\* vmirtAliasMemoryVM: the pages of entry e are mapped in mode m with
\* privileges priv, in place of what was mapped with the same key.
Alias(p, e, m, priv) ==
    LET page(va) == [key |-> Key(e, m), ppn |-> e.leaf.ppn + (va - e.leaf.low), priv |-> priv]
    IN  [p EXCEPT ![m] = [va \in VAs |->
            IF Covers(e, va) THEN {k \in p[m][va] : k.key # Key(e, m)} \cup {page(va)}
            ELSE p[m][va]]]

\* deleteTLBEntryMappingsMode for the entries es and the modes ms: the
\* mappings of an entry are found by its pages and its key.
DeleteMappings(p, es, ms) ==
    [m \in VMModes |-> [va \in VAs |->
        {k \in p[m][va] : ~\E e \in es :
            m \in ms \cap e.mapped /\ Covers(e, va) /\ k.key = Key(e, m)}]]

\* deleteTLBEntry for the entries es, on the pair s of TLB and mappings.
DeleteEntries(s, es) ==
    [tlb |-> s.tlb \ es, maps |-> DeleteMappings(s.maps, es, VMModes)]

\* Mutant of ChangedModes: a change of the simulated ASID unmaps nothing.
ChangedModesNone(e, s) == {}

\* The modes in which simulated ASID s makes a difference for entry e.
ChangedModes(e, s) ==
    {m \in VMModes : EffectiveASID(e.leaf, m, s) # EffectiveASID(e.leaf, m, e.simASID)}

\* Privileges with which leaf l is mapped: a clean page is not writable, so
\* that the first write misses.
MappedPriv(m, l) == EntryPriv(m, l, mxr, sum) \ (IF l.D THEN {} ELSE {"W"})

\* tlbMiss, once there is an entry e: it is unmapped where its mapping has
\* another effective ASID (unmapTLBEntryNewASID), then mapped in mode m.
MapEntry(s, e, m) ==
    LET now == [asid |-> satp.asid, mxr |-> mxr, sum |-> sum]
        changed == ChangedModes(e, now)
        new == [e EXCEPT !.simASID = now, !.mapped = (@ \ changed) \cup {m}]
    IN  [tlb  |-> (s.tlb \ {e}) \cup {new},
         maps |-> Alias(DeleteMappings(s.maps, {e}, changed), new, m, MappedPriv(m, e.leaf))]

------------------------------------------------------------------------------
(* The translations in force, for the history variable *)

Current(p, s) ==
    {<<s.asid, va, Leaf(FindLeaf(p, s.root, va), va)>> :
        va \in {x \in VAs : FindLeaf(p, s.root, x).err = "none"}}

------------------------------------------------------------------------------
(* Operations *)

NoSimASID == [asid |-> 0, mxr |-> FALSE, sum |-> FALSE]

\* The walk and what follows it, when no usable entry was found and s is left
\* of TLB and mappings.  An error raises an exception and allocates nothing.
Walk(s, m, va, q) ==
    LET w == TlbLookup(m, va, q)
        done == MapEntry(s, [leaf |-> Leaf(w, va), mapped |-> {}, simASID |-> NoSimASID], m)
    IN  IF w.err # "none"
        THEN pt' = pt /\ tlb' = s.tlb /\ maps' = s.maps
        ELSE /\ pt' = [pt EXCEPT ![w.t][VPN(va, w.i)] = w.pte]
             /\ tlb' = done.tlb
             /\ maps' = done.maps

\* riscvVMMiss: access q of mode m to page va finds no mapping that permits it.
Miss(m, va, q) ==
    LET start == [tlb |-> tlb, maps |-> maps]
        fits == {e \in tlb : Covers(e, va) /\ MatchASID(satp.asid, e)}
    IN
    /\ \A k \in maps[m][va] : Usable(k.key, simASID) => q \notin k.priv
    /\ \/ fits = {} /\ Walk(start, m, va, q)
       \/ \E e \in fits :
            IF ~CheckEntryPermission(m, e.leaf, q) THEN Walk(start, m, va, q)
            ELSE IF q = "W" /\ ~e.leaf.D THEN Walk(DeleteEntries(start, {e}), m, va, q)
            ELSE LET done == MapEntry(start, e, m)
                 IN  pt' = pt /\ tlb' = done.tlb /\ maps' = done.maps
    /\ Cardinality(tlb') <= MaxTLB
    /\ recent' = recent \cup Current(pt', satp)
    /\ UNCHANGED <<config, satp, mxr, sum, simASID>>

\* Mutant of Deleted: a fence with an ASID deletes entries of any ASID but it.
DeletedOtherASID(asids, asid, global) == ~HasASID \/ (~global /\ asid \notin asids)

\* deleteTLBEntryMode: does a fence for the given ASIDs delete an entry with
\* this ASID and global bit?
Deleted(asids, asid, global) == ~HasASID \/ (~global /\ asid \in asids)

\* SFENCE.VMA, for the pages vas and, unless any is TRUE, for the ASIDs asids:
\* riscvVMInvalidateAll, AllASID, VA and VAASID.
Fence(vas, any, asids) ==
    LET gone == {e \in tlb : /\ \E va \in vas : Covers(e, va)
                             /\ any \/ Deleted(asids, e.simASID.asid, e.leaf.G)}
        left == DeleteEntries([tlb |-> tlb, maps |-> maps], gone)
        covered == {t \in recent : /\ t[2] \in vas
                                   /\ any \/ ~HasASID \/ (~t[3].G /\ t[1] \in asids)}
    IN
    /\ tlb' = left.tlb
    /\ maps' = left.maps
    /\ recent' = (recent \ covered) \cup Current(pt, satp)
    /\ UNCHANGED <<config, pt, satp, mxr, sum, simASID>>

SFENCE_VMA ==
    \E vas \in {VAs} \cup {{va} : va \in VAs} :
        \/ Fence(vas, TRUE, {})
        \/ \E s \in Satps : Fence(vas, FALSE, {s.asid})

\* Software changes a page table.
WritePte ==
    \E w \in PteWrites :
        /\ pt' = [pt EXCEPT ![w[1]][w[2]] = w[3]]
        /\ recent' = recent \cup Current(pt', satp)
        /\ UNCHANGED <<config, satp, mxr, sum, tlb, maps, simASID>>

\* statusW and satpW, which call riscvVMSetASID.
StatusW(newMXR, newSUM) ==
    /\ mxr' = newMXR /\ sum' = newSUM
    /\ simASID' = [asid |-> satp.asid, mxr |-> newMXR, sum |-> newSUM]
    /\ UNCHANGED <<config, pt, satp, tlb, maps, recent>>

SatpW(s) ==
    /\ satp' = s
    /\ simASID' = [asid |-> s.asid, mxr |-> mxr, sum |-> sum]
    /\ recent' = recent \cup Current(pt, s)
    /\ UNCHANGED <<config, pt, mxr, sum, tlb, maps>>

\* riscvCSRReset: mstatus is cleared, riscvVMSetASID is not called, and the
\* TLB and satp keep their contents.
Reset ==
    /\ Resets
    /\ mxr' = FALSE /\ sum' = FALSE
    /\ UNCHANGED <<config, pt, satp, tlb, maps, simASID, recent>>

Init ==
    /\ config \in Configs
    /\ pt = [t \in Tables |-> [i \in Indices |-> InvalidPte]]
    /\ satp \in Satps
    /\ mxr = FALSE /\ sum = FALSE
    /\ tlb = {}
    /\ maps = [m \in VMModes |-> [va \in VAs |-> {}]]
    /\ simASID = [asid |-> satp.asid, mxr |-> FALSE, sum |-> FALSE]
    /\ recent = {}

Next ==
    \/ \E m \in VMModes, va \in VAs, q \in Access : Miss(m, va, q)
    \/ SFENCE_VMA
    \/ WritePte
    \/ \E x, s \in BOOLEAN : StatusW(x, s)
    \/ \E s \in Satps : SatpW(s)
    \/ Reset

Spec == Init /\ [][Next]_vars

------------------------------------------------------------------------------
(* Properties *)

\* Every mapping in a virtual domain has the key of a TLB entry that is marked
\* as mapped in that mode: when the entry goes, so does the mapping.  It would
\* be lost if an entry got a new simulated ASID with mappings under the old
\* one (unmapTLBEntryNewASID).
MappingOwned ==
    \A m \in VMModes, va \in VAs : \A k \in maps[m][va] :
        \E e \in tlb : Covers(e, va) /\ m \in e.mapped /\ Key(e, m) = k.key

\* An access never uses a translation that is older than the last SFENCE.VMA
\* that covers its page and ASID, neither from the TLB nor from a domain; and
\* a page is writable without a miss only if its dirty bit was set.
FenceRespected ==
    /\ \A e \in tlb, va \in VAs : Covers(e, va) =>
         \E t \in recent : t[2] = va /\ t[3] = e.leaf /\ (e.leaf.G \/ t[1] = e.simASID.asid)
    /\ \A m \in VMModes, va \in VAs : \A k \in maps[m][va] :
         \E t \in recent : /\ t[2] = va /\ t[3].ppn + (va - t[3].low) = k.ppn
                           /\ k.key.mask.asid => t[1] = k.key.asid.asid
                           /\ "W" \in k.priv => t[3].D

\* A mapping that the simulator may use grants only what the page table entry
\* grants under the current mstatus.SUM and mstatus.MXR, unless a reset cleared
\* these and the simulated ASID is still the one of their old values.
AllowedNow ==
    simASID.sum = sum /\ simASID.mxr = mxr =>
    \A m \in VMModes, va \in VAs : \A k \in maps[m][va] : Usable(k.key, simASID) =>
        \E e \in tlb : /\ Covers(e, va) /\ e.leaf.ppn + (va - e.leaf.low) = k.ppn
                       /\ k.priv \subseteq EntryPriv(m, e.leaf, mxr, sum)

==============================================================================
