------------------------------ MODULE RiscvPMP -------------------------------
(***************************************************************************)
(* The physical memory protection unit.  PMP registers are not consulted   *)
(* by an access: the privileges of a memory range are installed in the PMP *)
(* domain of a mode by the first access that lacks them (mapPMP), and      *)
(* every change of a PMP register must take away the privileges it may     *)
(* have made wrong (invalidatePMPEntry).  So the PMP domains are a cache   *)
(* of what the registers say.                                              *)
(*                                                                         *)
(* Addresses are in units of 4 bytes, the unit of pmpaddr.  User mode      *)
(* shares the domain of Supervisor mode.  The code and the data domain are *)
(* one (unified), as they are for a processor with a single bus.           *)
(***************************************************************************)
EXTENDS Integers

CONSTANTS
    N,           \* number of PMP entries (PMP_registers)
    RWX,         \* the set of all privileges
    Configs      \* configurations of the processor and of the software

VARIABLES
    config,     \* the configuration, fixed when the processor is constructed
    pmpcfg,     \* configuration byte of every entry
    pmpaddr,    \* address register of every entry
    priv        \* priv[m][a]: privileges installed in the PMP domain of mode m

vars == <<config, pmpcfg, pmpaddr, priv>>

G == config.G                      \* PMP_grain: regions are multiples of 2^G units
AddrBits == config.addrBits        \* implemented address bits
ElemVals == config.elems           \* values software writes to a byte of pmpcfg
RewriteLocked == config.rewriteLocked \* may it try to change a locked entry?
MoveTORBase == config.moveTORBase  \* may it move the base of an unlocked TOR entry?
Debugger == config.debugger        \* do artifact accesses, which ignore locks, write?

SMode == 1
MMode == 3
PMPModes == {SMode, MMode}

Entries == 0..N-1
MaxAddr == 2^AddrBits - 1
Addr == 0..MaxAddr
Privs == SUBSET RWX
Elem == [mode : {"OFF", "TOR", "NA4", "NAPOT"}, L : BOOLEAN, priv : Privs]

ASSUME PMPAssumption ==
    /\ N \in 1..16
    /\ \A c \in Configs :
        /\ c.G \in 0..29 /\ c.addrBits \in Nat /\ c.elems \subseteq Elem
        /\ {c.rewriteLocked, c.moveTORBase, c.debugger} \subseteq BOOLEAN

------------------------------------------------------------------------------
(* What an entry covers, for given configuration c and addresses a *)

RoundDown(x, unit) == x - (x % unit)

\* getEffectivePMPAddr
EffectiveAddr(c, a, i) ==
    IF G >= 2 /\ c[i].mode = "NAPOT" THEN RoundDown(a[i], 2^(G-1)) + 2^(G-1) - 1
    ELSE IF G >= 1 /\ c[i].mode # "NAPOT" THEN RoundDown(a[i], 2^G)
    ELSE a[i]

\* getPMPRegionActive: a TOR entry with address 0 covers nothing.
RegionActive(c, a, i) ==
    /\ c[i].mode # "OFF"
    /\ c[i].mode = "TOR" => EffectiveAddr(c, a, i) # 0

\* Size of the naturally aligned region that address e encodes: k trailing
\* ones stand for 2^(k+1) units.
NapotSize(e) == CHOOSE s \in {2^k : k \in 1..AddrBits+G+1} : e % s = (s \div 2) - 1

\* getPMPEntryBounds: lowest and highest address of an active entry.
EntryBounds(c, a, i) ==
    LET e == EffectiveAddr(c, a, i) IN
    CASE c[i].mode = "NA4"   -> <<e, e>>
      [] c[i].mode = "NAPOT" -> LET s == NapotSize(e) IN <<RoundDown(e, s), RoundDown(e, s) + s - 1>>
      [] OTHER               -> <<IF i = 0 THEN 0 ELSE RoundDown(a[i-1], 2^G), e - 1>>

\* The addresses an entry applies to; a TOR entry with low > high has none.
Region(c, a, i) ==
    IF RegionActive(c, a, i)
    THEN EntryBounds(c, a, i)[1] .. EntryBounds(c, a, i)[2]
    ELSE {}

------------------------------------------------------------------------------
(* What the registers say: the reference the domains are compared with *)

Matching(c, a, x) == {i \in Entries : x \in Region(c, a, i)}

\* The lowest-numbered matching entry decides; in Machine mode only a locked
\* entry restricts.
PrivOf(c, a, m, x) ==
    IF Matching(c, a, x) = {} THEN IF m = MMode THEN RWX ELSE {}
    ELSE LET i == CHOOSE j \in Matching(c, a, x) : \A k \in Matching(c, a, x) : j <= k
         IN  IF m = MMode /\ ~c[i].L THEN RWX ELSE c[i].priv

------------------------------------------------------------------------------
(* Taking privileges away *)

\* lowerPriorityPMPEntryLocked
LowerPriorityLocked(c, i) == \E j \in Entries : j > i /\ c[j].L /\ c[j].mode # "OFF"

\* Mutant of Invalidate: Machine privileges are removed for locked entries only.
InvalidateLockedOnly(c, a, p, i) ==
    [m \in PMPModes |-> [x \in Addr |->
        IF x \in Region(c, a, i) /\ (m = SMode \/ c[i].L) THEN {} ELSE p[m][x]]]

\* invalidatePMPEntry: the privileges p after invalidating entry i.
Invalidate(c, a, p, i) ==
    [m \in PMPModes |-> [x \in Addr |->
        IF x \in Region(c, a, i) /\ (m = SMode \/ c[i].L \/ LowerPriorityLocked(c, i))
        THEN {} ELSE p[m][x]]]

------------------------------------------------------------------------------
(* Installing privileges *)

\* refinePMPRegionRange: r is the range and privilege found so far for
\* address x in mode m, refined by entry i.
RefineRange(c, a, m, x, i, r) ==
    LET low == EntryBounds(c, a, i)[1]
        high == EntryBounds(c, a, i)[2]
    IN  IF ~RegionActive(c, a, i) \/ low > high THEN r
        ELSE IF low <= x /\ x <= high
             THEN [low |-> low, high |-> high,
                   priv |-> IF m # MMode \/ c[i].L THEN c[i].priv ELSE RWX]
        ELSE IF low > x /\ low <= r.high THEN [r EXCEPT !.high = low - 1]
        ELSE IF high < x /\ high >= r.low THEN [r EXCEPT !.low = high + 1]
        ELSE r

\* Mutant of MapRange: entries are applied in the opposite order of priority.
MapRangeReversed(c, a, m, x) ==
    LET refined[k \in 0..N] ==
            IF k = 0 THEN [low |-> 0, high |-> MaxAddr, priv |-> IF m = MMode THEN RWX ELSE {}]
            ELSE RefineRange(c, a, m, x, k - 1, refined[k-1])
    IN  refined[N]

\* mapPMPInt: all entries are applied, from lowest to highest priority.
MapRange(c, a, m, x) ==
    LET refined[k \in 0..N] ==
            IF k = 0 THEN [low |-> 0, high |-> MaxAddr, priv |-> IF m = MMode THEN RWX ELSE {}]
            ELSE RefineRange(c, a, m, x, N - k, refined[k-1])
    IN  refined[N]

\* mapPMP: the privileges p after mapping the addresses low..high for mode m,
\* one range after the other.
MapPMP(c, a, p, m, low, high) ==
    LET mapped[k \in 0..(high - low + 1)] ==
            IF k = 0 THEN [next |-> low, priv |-> p[m]]
            ELSE LET s == mapped[k-1]
                     r == MapRange(c, a, m, s.next)
                 IN  IF s.next > high THEN s
                     ELSE [next |-> r.high + 1,
                           priv |-> [x \in Addr |-> IF r.low <= x /\ x <= r.high
                                                    THEN r.priv ELSE s.priv[x]]]
    IN  [p EXCEPT ![m] = mapped[high - low + 1].priv]

------------------------------------------------------------------------------
(* Operations *)

\* Does domain p of mode m give privileges q on low..high?
Grants(p, m, low, high, q) == \A x \in low..high : q \subseteq p[m][x]

\* The domains after an access of mode m to low..high that needs privileges q:
\* if they lack them, riscvVMMiss maps the range and the access is retried.
AfterAccess(m, low, high, q) ==
    IF Grants(priv, m, low, high, q) THEN priv
    ELSE MapPMP(pmpcfg, pmpaddr, priv, m, low, high)

Access(m, low, high, q) ==
    /\ priv' = AfterAccess(m, low, high, q)
    /\ UNCHANGED <<config, pmpcfg, pmpaddr>>

\* pmpLocked: an artifact access, by a debugger, ignores locks.
PmpLocked(c, i, artifact) == ~artifact /\ c[i].L

\* The byte that replaces old when new is written: with a grain, NA4 cannot
\* be selected and the old mode is kept.
NewByte(old, new) ==
    IF G >= 1 /\ new.mode = "NA4" THEN [new EXCEPT !.mode = old.mode] ELSE new

\* One iteration of the loop in riscvVMWritePMPCFG, for entry i.  s.cfg holds
\* the new bytes of all entries that were not processed yet.
WriteElem(old, s, i, artifact) ==
    LET new == NewByte(old[i], s.cfg[i])
        oldCfg == [s.cfg EXCEPT ![i] = old[i]]
        newCfg == [s.cfg EXCEPT ![i] = new]
    IN  IF new # old[i] /\ PmpLocked(old, i, artifact) THEN [s EXCEPT !.cfg = oldCfg]
        ELSE IF new = old[i] THEN [s EXCEPT !.cfg = newCfg]
        ELSE [cfg |-> newCfg,
              priv |-> Invalidate(newCfg, pmpaddr, Invalidate(oldCfg, pmpaddr, s.priv, i), i)]

\* riscvVMWritePMPCFG: value gives a new byte to every entry of the register.
WritePMPCFG(value, artifact) ==
    LET written[k \in 0..N] ==
            IF k = 0 THEN [cfg |-> value, priv |-> priv]
            ELSE WriteElem(pmpcfg, written[k-1], k - 1, artifact)
    IN
    /\ ~RewriteLocked => \A i \in Entries : PmpLocked(pmpcfg, i, artifact) => value[i] = pmpcfg[i]
    /\ pmpcfg' = written[N].cfg
    /\ priv' = written[N].priv
    /\ UNCHANGED <<config, pmpaddr>>

\* pmpLockedTOR
PmpLockedTOR(i, artifact) ==
    i \in Entries /\ pmpcfg[i].mode = "TOR" /\ PmpLocked(pmpcfg, i, artifact)

\* Mutant of AddrLocked: a locked TOR entry does not protect its base.
AddrLockedSelfOnly(i, artifact) == PmpLocked(pmpcfg, i, artifact)

\* Is pmpaddr[i] locked, by its own entry or by the TOR entry above it?
AddrLocked(i, artifact) == PmpLocked(pmpcfg, i, artifact) \/ PmpLockedTOR(i + 1, artifact)

\* The bits of pmpaddr that can be written.
WritableAddr(value) == IF G >= 1 THEN RoundDown(value, 2^(G-1)) ELSE value

\* riscvVMWritePMPAddr, in the cases where it changes the register.
WritePMPAddr(i, value, artifact) ==
    LET newAddr == [pmpaddr EXCEPT ![i] = WritableAddr(value)] IN
    /\ ~MoveTORBase => ~(i + 1 \in Entries /\ pmpcfg[i+1].mode = "TOR"
                                           /\ ~PmpLocked(pmpcfg, i + 1, artifact))
    /\ newAddr # pmpaddr
    /\ ~AddrLocked(i, artifact)
    /\ pmpaddr' = newAddr
    /\ priv' = Invalidate(pmpcfg, newAddr, Invalidate(pmpcfg, pmpaddr, priv, i), i)
    /\ UNCHANGED <<config, pmpcfg>>

\* One iteration of riscvVMResetPMP.
ResetElem(s, i) ==
    [cfg  |-> [s.cfg EXCEPT ![i] = [mode |-> "OFF", L |-> FALSE, priv |-> {}]],
     addr |-> [s.addr EXCEPT ![i] = 0],
     priv |-> Invalidate(s.cfg, s.addr, s.priv, i)]

\* riscvVMResetPMP
ResetPMP ==
    LET reset[k \in 0..N] ==
            IF k = 0 THEN [cfg |-> pmpcfg, addr |-> pmpaddr, priv |-> priv]
            ELSE ResetElem(reset[k-1], k - 1)
    IN
    /\ pmpcfg' = reset[N].cfg
    /\ pmpaddr' = reset[N].addr
    /\ priv' = reset[N].priv
    /\ UNCHANGED config

Init ==
    /\ config \in Configs
    /\ pmpcfg = [i \in Entries |-> [mode |-> "OFF", L |-> FALSE, priv |-> {}]]
    /\ pmpaddr = [i \in Entries |-> 0]
    /\ priv = [m \in PMPModes |-> [x \in Addr |-> {}]]

Accesses == IF Debugger THEN BOOLEAN ELSE {FALSE}

\* An access covers one or two units (up to 8 bytes).
Ranges == {r \in Addr \X Addr : r[2] \in {r[1], r[1] + 1}}

Next ==
    \/ \E m \in PMPModes, r \in Ranges, q \in Privs \ {{}} : Access(m, r[1], r[2], q)
    \/ \E artifact \in Accesses :
          \/ \E value \in [Entries -> ElemVals] : WritePMPCFG(value, artifact)
          \/ \E i \in Entries, value \in Addr : WritePMPAddr(i, value, artifact)
    \/ ResetPMP

Spec == Init /\ [][Next]_vars

------------------------------------------------------------------------------
(* Properties *)

\* No mode has a privilege in its PMP domain that the registers do not grant
\* now: every register change invalidated all it could affect.
NoStalePrivilege ==
    \A m \in PMPModes, x \in Addr : priv[m][x] \subseteq PrivOf(pmpcfg, pmpaddr, m, x)

\* An access made now is permitted exactly if the lowest-numbered matching
\* entry grants it for each unit, whatever was mapped before (mapPMPInt finds
\* the range around an address on which one entry decides).
AccessDecision ==
    \A m \in PMPModes, r \in Ranges, q \in Privs \ {{}} :
        Grants(AfterAccess(m, r[1], r[2], q), m, r[1], r[2], q)
            <=> \A x \in r[1]..r[2] : q \subseteq PrivOf(pmpcfg, pmpaddr, m, x)

\* A locked entry keeps its configuration, its address, and the address that
\* is its lower bound, until everything is reset, if no debugger writes it.
LockedUntilReset ==
    [][\A i \in Entries : pmpcfg[i].L /\ ~Debugger =>
        \/ \A j \in Entries : pmpaddr'[j] = 0 /\ pmpcfg'[j].mode = "OFF"
        \/ /\ pmpcfg'[i] = pmpcfg[i]
           /\ pmpaddr'[i] = pmpaddr[i]
           /\ pmpcfg[i].mode = "TOR" /\ i > 0 => pmpaddr'[i-1] = pmpaddr[i-1]]_vars

==============================================================================
