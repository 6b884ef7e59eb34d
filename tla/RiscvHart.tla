------------------------------ MODULE RiscvHart ------------------------------
(***************************************************************************)
(* One hart of the processor model: traps, exception returns, interrupts,  *)
(* the reset and NMI inputs, WFI, and the CSR writes that decide which     *)
(* interrupts are taken and which memory domains are used.                 *)
(*                                                                         *)
(* The simulator that executes the model is external.  The model sees of   *)
(* it whether the hart is halted (vmirtHalt, vmirtRestartNext), the data   *)
(* domain and ASID that were last selected, and fetchCheck: whether the    *)
(* next instruction fetch must go through riscvIFetchExcept, which is so   *)
(* after vmirtDoSynchronousInterrupt and after vmirtSetPCException.  While *)
(* fetchCheck holds no instruction is executed.                            *)
(*                                                                         *)
(* Program counters, xepc, xcause, xtval and xtvec are left out: nothing   *)
(* here reads them.                                                        *)
(***************************************************************************)
EXTENDS RiscvPriv, FiniteSets

CONSTANTS
    StatusVals,  \* values that software writes to mstatus, sstatus, ustatus
    ASIDs,       \* values of satp.ASID
    SatpVals,    \* values that software writes to satp
    HasA,        \* configInfo.arch includes ISA_A
    DebugWrites  \* may a debugger write CSRs at any time, in any mode?

ASSUME HartAssumption ==
    /\ StatusVals \subseteq StatusInput
    /\ 0 \in ASIDs
    /\ SatpVals \subseteq [vm : BOOLEAN, asid : ASIDs]
    /\ HasA \in BOOLEAN /\ DebugWrites \in BOOLEAN

VARIABLES
    mode,       \* current privilege mode
    dvm,        \* the VM bit of the dictionary mode (riscv->mode)
    status,     \* mstatus
    mie, mip, mideleg, sideleg, medeleg, sedeleg,
    satp,       \* [vm: satp.MODE # 0, asid: satp.ASID]
    netReset, netNmi, netIp,   \* latched input signals (netValue)
    swip,       \* software-written pending bits
    disable,    \* reasons why the hart is disabled
    ea,         \* is an exclusive access active (exclusiveTag)?
    halted,     \* simulator: the hart is halted
    fetchCheck, \* simulator: next fetch calls riscvIFetchExcept
    dataDomain, \* simulator: current data domain
    simASID     \* simulator: current [asid, sum]

modeVars == <<mode, dvm, status, dataDomain>>
delegVars == <<mideleg, sideleg, medeleg, sedeleg>>
netVars == <<netReset, netNmi, netIp>>
runVars == <<disable, halted, fetchCheck>>

vars == <<mode, dvm, status, mie, mip, mideleg, sideleg, medeleg, sedeleg, satp,
          netReset, netNmi, netIp, swip, disable, ea, halted, fetchCheck,
          dataDomain, simASID>>

DisableReasons == {"WFI", "NMI", "RESET"}
SATP == [vm : BOOLEAN, asid : ASIDs]
SimASID == [asid : ASIDs, sum : BOOLEAN]

------------------------------------------------------------------------------
(* Helpers shared by the handlers *)

\* riscvSetMode(m) when mstatus is st and satp is s.
SetMode(m, st, s) ==
    /\ mode' = m
    /\ dvm' = (m <= SMode /\ s.vm)
    /\ dataDomain' = DataDomainOf(st, m, s.vm)

\* Mutant of RestartProcessor: restarts although another reason remains.
RestartAlways(reasons) ==
    /\ disable' = disable \ reasons
    /\ halted' = FALSE

\* restartProcessor(reason), for a set of reasons.
RestartProcessor(reasons) ==
    /\ disable' = disable \ reasons
    /\ halted' = (halted /\ disable \ reasons # {})

\* haltProcessor(reason)
HaltProcessor(reason) ==
    /\ halted' = (halted \/ disable = {})
    /\ disable' = disable \cup {reason}

\* Mutant of TestInterrupt: only an enabled interrupt ends WFI.
TestInterruptWakesEnabled(st, cur, pending, md, sd) ==
    LET enabled == PendingAndEnabled(st, cur, pending, md, sd) IN
    /\ IF enabled # {} THEN RestartProcessor({"WFI"}) ELSE UNCHANGED <<disable, halted>>
    /\ fetchCheck' = (fetchCheck \/ enabled # {})

\* riscvTestInterrupt with the given values of mstatus, the mode, mie & mip,
\* mideleg and sideleg.
TestInterrupt(st, cur, pending, md, sd) ==
    /\ IF pending # {} THEN RestartProcessor({"WFI"}) ELSE UNCHANGED <<disable, halted>>
    /\ fetchCheck' = (fetchCheck \/ PendingAndEnabled(st, cur, pending, md, sd) # {})

\* Mutant of UpdatePending: a pending bit is never cleared.
UpdatePendingSticky(ip, sw) ==
    /\ mip' = mip \cup ip \cup sw
    /\ IF mip' # mip
       THEN TestInterrupt(status, mode, mie \cap mip', mideleg, sideleg)
       ELSE UNCHANGED runVars

\* riscvUpdatePending with the given values of netValue.ip and swip.
UpdatePending(ip, sw) ==
    /\ mip' = ip \cup sw
    /\ IF mip' # mip
       THEN TestInterrupt(status, mode, mie \cap mip', mideleg, sideleg)
       ELSE UNCHANGED runVars

\* Mutant of TakeException: the mode is switched before mstatus is updated.
TakeExceptionEarlySetMode(x) ==
    /\ SetMode(x, status, satp)
    /\ status' = TargetModeX(status, x, mode)
    /\ ea' = FALSE
    /\ fetchCheck' = TRUE

\* riscvTakeException, to mode x.
TakeException(x) ==
    LET st == TargetModeX(status, x, mode) IN
    /\ status' = st
    /\ SetMode(x, st, satp)
    /\ ea' = FALSE
    /\ fetchCheck' = TRUE

\* Interrupts that are pending (and would end WFI) and those also enabled.
Pending == mie \cap mip
Enabled == PendingAndEnabled(status, mode, Pending, mideleg, sideleg)

------------------------------------------------------------------------------
(* Instruction fetch: riscvIFetchExcept *)

\* The highest-numbered pending and enabled interrupt is taken.
FetchInterrupt ==
    /\ ~halted
    /\ \E i \in Enabled :
        /\ \A j \in Enabled : j <= i
        /\ TakeException(GetModeX(mideleg, sideleg, i, mode))
    /\ UNCHANGED <<mie, mip, delegVars, satp, netVars, swip, disable, halted, simASID>>

\* With no interrupt to take, fetching from the address may fault.
FetchFault ==
    /\ ~halted
    /\ Enabled = {}
    /\ \E e \in ExceptionMask \cap {1, 12} :
        TakeException(GetModeX(medeleg, sedeleg, e, mode))
    /\ UNCHANGED <<mie, mip, delegVars, satp, netVars, swip, disable, halted, simASID>>

FetchOK ==
    /\ ~halted /\ fetchCheck
    /\ Enabled = {}
    /\ fetchCheck' = FALSE
    /\ UNCHANGED <<modeVars, mie, mip, delegVars, satp, netVars, swip, disable,
                   halted, ea, simASID>>

Fetch == FetchInterrupt \/ FetchFault \/ FetchOK

------------------------------------------------------------------------------
(* Instructions.  One that is not permitted in the current mode raises the  *)
(* illegal instruction exception, which is an instance of Exception.        *)

Running == ~halted /\ ~fetchCheck

\* Any instruction may raise a synchronous exception; ECALL raises the one
\* of the current mode.
Exception ==
    /\ Running
    /\ \E e \in ExceptionMask \ {1, 12} :
        /\ e \in {8, 9, 11} => e = ECALLFromU + mode
        /\ TakeException(GetModeX(medeleg, sedeleg, e, mode))
    /\ UNCHANGED <<mie, mip, delegVars, satp, netVars, swip, disable, halted, simASID>>

\* Mutants of Return: no interrupt test, or the exclusive access is kept.
ReturnNoTest(x, newMode) ==
    LET st == EretStatus(status, x) IN
    /\ status' = st
    /\ ea' = FALSE
    /\ SetMode(newMode, st, satp)
    /\ UNCHANGED <<mie, mip, delegVars, satp, netVars, swip, simASID, runVars>>

ReturnKeepsEA(x, newMode) ==
    LET st == EretStatus(status, x) IN
    /\ status' = st
    /\ SetMode(newMode, st, satp)
    /\ TestInterrupt(st, newMode, Pending, mideleg, sideleg)
    /\ UNCHANGED <<mie, mip, delegVars, satp, netVars, swip, simASID, ea>>

\* Common part of the return instruction of mode x, returning to newMode.
Return(x, newMode) ==
    LET st == EretStatus(status, x) IN
    /\ status' = st
    /\ ea' = FALSE
    /\ SetMode(newMode, st, satp)
    /\ TestInterrupt(st, newMode, Pending, mideleg, sideleg)
    /\ UNCHANGED <<mie, mip, delegVars, satp, netVars, swip, simASID>>

MRET == /\ Running
        /\ mode = MMode
        /\ Return(MMode, GetERETMode(status.MPP))

SRET == /\ Running
        /\ HasS /\ mode >= SMode
        /\ mode = MMode \/ ~status.TSR
        /\ Return(SMode, GetERETMode(status.SPP))

URET == /\ Running
        /\ HasU
        /\ Return(UMode, UMode)

WFI ==
    /\ Running
    /\ HasN \/ mode >= SMode
    /\ mode = MMode \/ ~status.TW
    /\ Pending = {}
    /\ HaltProcessor("WFI")
    /\ UNCHANGED <<modeVars, mie, mip, delegVars, satp, netVars, swip, ea,
                   fetchCheck, simASID>>

\* LR starts an exclusive access, SC ends it whether it stores or not.
LR == /\ Running /\ HasA
      /\ ea' = TRUE
      /\ UNCHANGED <<modeVars, mie, mip, delegVars, satp, netVars, swip, runVars, simASID>>

SC == /\ Running /\ HasA
      /\ ea' = FALSE
      /\ UNCHANGED <<modeVars, mie, mip, delegVars, satp, netVars, swip, runVars, simASID>>

------------------------------------------------------------------------------
(* CSR writes.  a is the mode whose alias of the register is written (for   *)
(* instance mie, sie and uie).                                              *)

AliasExists(a) == /\ a = SMode => HasS
                  /\ a = UMode => HasN

CanWrite(a) == (Running /\ mode >= a) \/ DebugWrites

\* Interrupts visible through the alias of mode a.
Visible(a) == CASE a = MMode -> Interrupts
                [] a = SMode -> mideleg
                [] a = UMode -> mideleg \cap sideleg

\* value, with the bits outside mask kept from old.
Masked(value, old, mask) == (value \cap mask) \cup (old \ mask)

\* Mutant of StatusW: the simulated ASID is not refreshed.
StatusWNoSetASID(a, new) ==
    LET st == MergeStatus(status, new, a) IN
    /\ AliasExists(a) /\ CanWrite(a)
    /\ status' = st
    /\ dataDomain' = DataDomainOf(st, mode, satp.vm)
    /\ UNCHANGED <<mode, dvm, mie, mip, delegVars, satp, netVars, swip, ea, simASID, runVars>>

\* statusW: the aliases mstatus, sstatus and ustatus.
StatusW(a, new) ==
    LET st == MergeStatus(status, new, a)
        enabledIE == \E m \in Modes : st.IE[m] /\ ~status.IE[m]
    IN
    /\ AliasExists(a) /\ CanWrite(a)
    /\ status' = st
    /\ simASID' = [asid |-> satp.asid, sum |-> st.SUM]
    /\ dataDomain' = DataDomainOf(st, mode, satp.vm)
    /\ IF enabledIE THEN TestInterrupt(st, mode, Pending, mideleg, sideleg)
                    ELSE UNCHANGED runVars
    /\ UNCHANGED <<mode, dvm, mie, mip, delegVars, satp, netVars, swip, ea>>

\* ieW: the aliases mie, sie and uie.
IeW(a, value) ==
    LET new == Masked(value, mie, MieMask \cap Visible(a)) IN
    /\ AliasExists(a) /\ CanWrite(a)
    /\ mie' = new
    /\ IF new # mie THEN TestInterrupt(status, mode, new \cap mip, mideleg, sideleg)
                    ELSE UNCHANGED runVars
    /\ UNCHANGED <<modeVars, mip, delegVars, satp, netVars, swip, ea, simASID>>

SwWritable(a) == CASE a = MMode -> SwMip
                   [] a = SMode -> SwSip
                   [] a = UMode -> SwUip

\* ipW: the aliases mip, sip and uip.
IpW(a, value) ==
    LET new == Masked(value, swip, InterruptMask \cap Visible(a) \cap SwWritable(a)) IN
    /\ AliasExists(a) /\ CanWrite(a)
    /\ swip' = new
    /\ IF new # swip THEN UpdatePending(netIp, new) ELSE UNCHANGED <<mip, runVars>>
    /\ UNCHANGED <<modeVars, mie, delegVars, satp, netVars, ea, simASID>>

MidelegW(value) ==
    LET new == Masked(value, mideleg, SInterrupts) IN
    /\ HasS \/ HasN
    /\ CanWrite(MMode)
    /\ mideleg' = new
    /\ IF new # mideleg THEN TestInterrupt(status, mode, Pending, new, sideleg)
                        ELSE UNCHANGED runVars
    /\ UNCHANGED <<modeVars, mie, mip, sideleg, medeleg, sedeleg, satp, netVars,
                   swip, ea, simASID>>

SidelegW(value) ==
    LET new == Masked(value, sideleg, UInterrupts) IN
    /\ HasS /\ HasN
    /\ CanWrite(SMode)
    /\ sideleg' = new
    /\ IF new # sideleg THEN TestInterrupt(status, mode, Pending, mideleg, new)
                        ELSE UNCHANGED runVars
    /\ UNCHANGED <<modeVars, mie, mip, mideleg, medeleg, sedeleg, satp, netVars,
                   swip, ea, simASID>>

\* medeleg and sedeleg have no write callback: the masked value is stored.
MedelegW(value) ==
    /\ HasS \/ HasN
    /\ CanWrite(MMode)
    /\ medeleg' = Masked(value, medeleg, SExceptions)
    /\ UNCHANGED <<modeVars, mie, mip, mideleg, sideleg, sedeleg, satp, netVars,
                   swip, runVars, ea, simASID>>

SedelegW(value) ==
    /\ HasS /\ HasN
    /\ CanWrite(SMode)
    /\ sedeleg' = Masked(value, sedeleg, UExceptions)
    /\ UNCHANGED <<modeVars, mie, mip, mideleg, sideleg, medeleg, satp, netVars,
                   swip, runVars, ea, simASID>>

\* Mutant of SatpW: riscvSetMode is not called.
SatpWNoSetMode(new) ==
    /\ HasS /\ CanWrite(SMode)
    /\ satp' = new
    /\ simASID' = [asid |-> new.asid, sum |-> status.SUM]
    /\ UNCHANGED <<modeVars, mie, mip, delegVars, netVars, swip, runVars, ea>>

\* satpW with a supported MODE; a write of an unsupported one is discarded.
\* In Supervisor mode the write is trapped when mstatus.TVM is set.
SatpW(new) ==
    /\ HasS /\ CanWrite(SMode)
    /\ mode = MMode \/ ~status.TVM \/ DebugWrites
    /\ satp' = new
    /\ SetMode(mode, status, new)
    /\ simASID' = [asid |-> new.asid, sum |-> status.SUM]
    /\ UNCHANGED <<status, mie, mip, delegVars, netVars, swip, runVars, ea>>

------------------------------------------------------------------------------
(* Input signals, which change at any time *)

\* riscvReset.  riscvSetMode runs before riscvCSRReset stores the reset value
\* of mstatus.
DoReset ==
    /\ RestartProcessor({"WFI", "RESET"})
    /\ SetMode(MMode, status, satp)
    /\ status' = ResetStatus
    /\ ea' = FALSE
    /\ fetchCheck' = TRUE

\* doNMI
DoNMI ==
    /\ RestartProcessor({"WFI", "NMI"})
    /\ SetMode(MMode, status, satp)
    /\ fetchCheck' = TRUE
    /\ UNCHANGED <<status, ea>>

\* resetPortCB: halt while the signal is high, reset when it goes low.
ResetPort ==
    /\ netReset' = ~netReset
    /\ IF netReset
       THEN DoReset
       ELSE HaltProcessor("RESET") /\ UNCHANGED <<modeVars, ea, fetchCheck>>
    /\ UNCHANGED <<mie, mip, delegVars, satp, netNmi, netIp, swip, simASID>>

\* nmiPortCB: halt while the signal is high, NMI when it goes low.
NmiPort ==
    /\ netNmi' = ~netNmi
    /\ IF netNmi
       THEN DoNMI
       ELSE HaltProcessor("NMI") /\ UNCHANGED <<modeVars, ea, fetchCheck>>
    /\ UNCHANGED <<mie, mip, delegVars, satp, netReset, netIp, swip, simASID>>

\* interruptPortCB
InterruptPort(i) ==
    /\ netIp' = IF i \in netIp THEN netIp \ {i} ELSE netIp \cup {i}
    /\ UpdatePending(netIp', swip)
    /\ UNCHANGED <<modeVars, mie, delegVars, satp, netReset, netNmi, swip, ea, simASID>>

------------------------------------------------------------------------------

\* Value of sedeleg or sideleg after construction: with N and without S all
\* bits are set, so that what mideleg and medeleg delegate goes to User mode.
ImpliedDelegation(all) == IF HasN /\ ~HasS THEN all ELSE {}

\* A hart that has left its constructor, where riscvReset was called.
Init ==
    /\ mode = MMode /\ dvm = FALSE
    /\ status = ResetStatus
    /\ mie = {} /\ mip = {} /\ mideleg = {} /\ medeleg = {}
    /\ sideleg = ImpliedDelegation(Interrupts)
    /\ sedeleg = ImpliedDelegation(Exceptions)
    /\ satp = [vm |-> FALSE, asid |-> 0]
    /\ simASID = [asid |-> 0, sum |-> FALSE]
    /\ netReset = FALSE /\ netNmi = FALSE /\ netIp = {} /\ swip = {}
    /\ disable = {} /\ halted = FALSE
    /\ ea = FALSE
    /\ fetchCheck = TRUE
    /\ dataDomain = <<"phys", MMode>>

Instruction == Exception \/ MRET \/ SRET \/ URET \/ WFI \/ LR \/ SC

CSRWrite ==
    \/ \E a \in Modes, new \in StatusVals : StatusW(a, new)
    \/ \E a \in Modes, value \in SUBSET Interrupts : IeW(a, value)
    \/ \E a \in Modes, value \in SUBSET Interrupts : IpW(a, value)
    \/ \E value \in SUBSET Interrupts : MidelegW(value)
    \/ \E value \in SUBSET Interrupts : SidelegW(value)
    \/ \E value \in SUBSET Exceptions : MedelegW(value)
    \/ \E value \in SUBSET Exceptions : SedelegW(value)
    \/ \E new \in SatpVals : SatpW(new)

Signal == ResetPort \/ NmiPort \/ \E i \in InterruptMask : InterruptPort(i)

Next == Fetch \/ Instruction \/ CSRWrite \/ Signal

Spec == Init /\ [][Next]_vars

\* The simulator performs a fetch that it was told to check.
LiveSpec == Spec /\ WF_vars(fetchCheck /\ Fetch)

------------------------------------------------------------------------------
(* Properties *)

\* Types of the state of a hart (riscvS in riscvStructure.h); mie, mip and
\* the delegation registers have bits only where their masks allow.
TypeOK ==
    /\ mode \in Modes /\ dvm \in BOOLEAN
    /\ status \in Status
    /\ mie \subseteq MieMask /\ mip \subseteq InterruptMask
    /\ mideleg \subseteq SInterrupts /\ sideleg \subseteq Interrupts
    /\ medeleg \subseteq SExceptions /\ sedeleg \subseteq Exceptions
    /\ satp \in SATP /\ simASID \in SimASID
    /\ netReset \in BOOLEAN /\ netNmi \in BOOLEAN
    /\ netIp \subseteq InterruptMask /\ swip \subseteq InterruptMask
    /\ disable \subseteq DisableReasons /\ halted \in BOOLEAN
    /\ ea \in BOOLEAN /\ fetchCheck \in BOOLEAN
    /\ dataDomain \in Domains

\* No interrupt is lost: whenever an interrupt is pending and enabled, the
\* next fetch is known to call riscvIFetchExcept.  Every handler that can make
\* an interrupt eligible (a CSR write, a return, a signal, a mode change) must
\* have called riscvTestInterrupt or redirected the PC as an exception.
NoLostInterrupt == Enabled # {} => fetchCheck

\* A hart that waits in WFI has no pending interrupt, masked or not: riscvWFI
\* does not sleep on one and riscvTestInterrupt wakes the hart for one.
WFIEndsWhenPending == "WFI" \in disable => Pending = {}

\* The simulator halts the hart exactly while some reason in riscv->disable
\* holds, and the reasons RESET and NMI hold exactly while their signals are
\* high, however the signals and WFI interleave.
HaltReasonsConsistent ==
    /\ halted <=> disable # {}
    /\ netReset <=> "RESET" \in disable
    /\ netNmi <=> "NMI" \in disable

\* mip is always the union of the external and the software sources that
\* riscvUpdatePending composes.
MipComposed == mip = netIp \cup swip

\* The hart is in an implemented mode, and so are the modes that MRET and SRET
\* will return to: the clamps in getERETMode and riscvVMRefreshMPRVDomain are
\* never needed.
ModesImplemented ==
    /\ HasMode(mode) /\ HasMode(status.MPP)
    /\ HasS => HasMode(status.SPP)

\* Every interrupt that getPendingAndEnabledInterrupts offers is one that
\* getInterruptModeX sends to the implemented mode it is delegated to, where
\* it is either above the current mode or enabled by that mode's IE bit.
InterruptTargetSound ==
    \A i \in Enabled :
        LET x == GetModeX(mideleg, sideleg, i, mode) IN
        /\ x = DelegatedMode(mideleg, sideleg, i)
        /\ HasMode(x)
        /\ x > mode \/ status.IE[x]

\* Code is fetched from the virtual domain exactly in Supervisor and User mode
\* with satp.MODE non-zero (riscvSetMode, satpW).
FetchDomainConsistent == dvm <=> mode <= SMode /\ satp.vm

\* The current data domain is the one that mstatus.MPRV, mstatus.MPP, the mode
\* and satp imply (riscvVMRefreshMPRVDomain, statusW, riscvSetMode).
DataDomainConsistent == dataDomain = DataDomainOf(status, mode, satp.vm)

\* The data domain can differ from the implied one only between a reset and
\* the first later write of mstatus or satp or change of mode: riscvReset
\* selects it before the reset value of mstatus is stored.
DataDomainStaleOnlyAfterReset ==
    ~DataDomainConsistent => mode = MMode /\ status = ResetStatus

\* The simulated ASID follows satp.ASID and mstatus.SUM (statusW, satpW), with
\* the same exception: a reset clears SUM without riscvVMSetASID.
SimASIDFollows ==
    /\ simASID.asid = satp.asid
    /\ status.SUM => simASID.sum

\* Privilege is raised only by a trap, which leaves the interrupts of the new
\* mode disabled and their old enable and the old mode stacked
\* (TARGET_MODE_X), or by the end of a reset or NMI signal.
PrivilegeRaisedByTrap ==
    [][mode' > mode =>
        \/ netReset /\ ~netReset'
        \/ netNmi /\ ~netNmi'
        \/ /\ ~status'.IE[mode'] /\ status'.PIE[mode'] = status.IE[mode']
           /\ mode' = SMode => status'.SPP = mode
           /\ mode' = MMode => status'.MPP = mode]_vars

\* An exclusive access does not survive a change of mode (clearEA in traps and
\* returns), so SC cannot pair with an LR of another mode; only the NMI leaves
\* it active.
ReservationWithinMode ==
    [][mode' # mode /\ ea' => netNmi /\ ~netNmi']_vars

\* Interrupts that are pending and enabled in a running hart are all taken, or
\* cease to be eligible, or the hart is halted by a signal.
InterruptsServed == (Enabled # {} /\ ~halted) ~> (Enabled = {} \/ halted)

==============================================================================
