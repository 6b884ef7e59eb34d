------------------------------ MODULE RiscvPriv ------------------------------
(***************************************************************************)
(* The privileged architecture as the processor model computes it, without *)
(* state: implemented modes, the masks of implemented and delegable        *)
(* exceptions and interrupts, delegation, the interrupt-enable stack of    *)
(* mstatus, the set of pending-and-enabled interrupts and the memory       *)
(* domain that data accesses use.                                          *)
(*                                                                         *)
(* A CSR that is a bit mask (mie, mip, medeleg, ...) is the set of the     *)
(* indices of its 1 bits.  Of mstatus, SUM stands for SUM and MXR, which   *)
(* the code always handles together; FS, XS, SD, UXL and SXL belong to the *)
(* floating point and XLEN components.                                     *)
(***************************************************************************)
EXTENDS Integers

CONSTANTS
    HasS,       \* configInfo.arch includes ISA_S
    HasU,       \* configInfo.arch includes ISA_U
    HasN,       \* configInfo.arch includes ISA_N
    Interrupts, \* interrupt codes of the exceptions table that are considered
    Exceptions  \* exception codes of the exceptions table that are considered

UMode == 0
SMode == 1
MMode == 3
Modes == {UMode, SMode, MMode}

IllegalInstruction == 2
ECALLFromU == 8

\* Codes below 16 are those of the software, timer and external interrupts,
\* whose two low bits name the level; local interrupts start at 16.
FirstLocal == 16

ASSUME ConfigAssumption == HasS \in BOOLEAN /\ HasU \in BOOLEAN /\ HasN \in BOOLEAN

ASSUME InterruptsAssumption ==
    Interrupts \subseteq {0, 1, 3, 4, 5, 7, 8, 9, 11} \cup FirstLocal..63

ASSUME ExceptionsAssumption ==
    /\ Exceptions \subseteq {0, 1, 2, 3, 4, 5, 6, 7, 8, 9, 11, 12, 13, 15}
    /\ IllegalInstruction \in Exceptions

------------------------------------------------------------------------------
(* Implemented modes *)

HasMode(m) == \/ m = UMode /\ HasU
              \/ m = SMode /\ HasS
              \/ m = MMode

MinMode == IF HasU THEN UMode ELSE IF HasS THEN SMode ELSE MMode

------------------------------------------------------------------------------
(* Implemented exceptions and interrupts, and the masks derived from them *)

\* The mode an interrupt code is named for; local interrupts are Machine's.
Level(i) == IF i >= FirstLocal THEN MMode ELSE i % 4

ExceptionMask == {e \in Exceptions : (e = 8 => HasU) /\ (e = 9 => HasS)}

InterruptMask == {i \in Interrupts : /\ Level(i) = UMode => HasN
                                     /\ Level(i) = SMode => HasS}

\* Writable bits of medeleg, sedeleg, mideleg and sideleg.
SExceptions == ExceptionMask \ {11}
UExceptions == SExceptions \ {9, 10}
SInterrupts == {i \in InterruptMask : Level(i) # MMode}
UInterrupts == {i \in SInterrupts : Level(i) = UMode}

\* Bits of mie that a write can change: ieW works on a 32-bit value, so the
\* enables of interrupts 32 to 63 stay 0 whatever is written.
MieWidth == 32
MieMask == {i \in InterruptMask : i < MieWidth}

\* Bits of mip, sip and uip that software can set and clear.
SwMip == {0, 1, 4, 5, 8, 9}
SwSip == {0, 1, 8}
SwUip == {0}

------------------------------------------------------------------------------
(* mstatus *)

Status == [IE : [Modes -> BOOLEAN], PIE : [Modes -> BOOLEAN],
           MPP : Modes, SPP : {UMode, SMode},
           MPRV : BOOLEAN, SUM : BOOLEAN,
           TVM : BOOLEAN, TW : BOOLEAN, TSR : BOOLEAN]

\* Values software may try to write: MPP has two bits.
StatusInput == [IE : [Modes -> BOOLEAN], PIE : [Modes -> BOOLEAN],
                MPP : 0..3, SPP : {UMode, SMode},
                MPRV : BOOLEAN, SUM : BOOLEAN,
                TVM : BOOLEAN, TW : BOOLEAN, TSR : BOOLEAN]

ResetStatus == [IE |-> [m \in Modes |-> FALSE], PIE |-> [m \in Modes |-> FALSE],
                MPP |-> MinMode, SPP |-> IF HasS THEN MinMode ELSE UMode,
                MPRV |-> FALSE, SUM |-> FALSE,
                TVM |-> FALSE, TW |-> FALSE, TSR |-> FALSE]

\* Mutant of MergeStatus: an unimplemented MPP is stored.
MergeStatusKeepsBadMPP(old, new, a) ==
    LET mOnly == a = MMode
        mAndS == a >= SMode /\ HasS
    IN  [old EXCEPT !.MPP = IF mOnly THEN new.MPP ELSE @,
                    !.SPP = IF mAndS THEN new.SPP ELSE @,
                    !.MPRV = IF mOnly THEN new.MPRV ELSE @,
                    !.SUM = IF mAndS THEN new.SUM ELSE @]

\* Value of mstatus after new is written through the alias of mode a
\* (mstatus, sstatus or ustatus).  A value of MPP that names no implemented
\* mode is replaced by the old one.
MergeStatus(old, new, a) ==
    LET IEWritable(m) == /\ m <= a
                         /\ m = SMode => HasS
                         /\ m = UMode => HasN
        mOnly == a = MMode
        mAndS == a >= SMode /\ HasS
    IN  [IE   |-> [m \in Modes |-> IF IEWritable(m) THEN new.IE[m] ELSE old.IE[m]],
         PIE  |-> [m \in Modes |-> IF IEWritable(m) THEN new.PIE[m] ELSE old.PIE[m]],
         MPP  |-> IF mOnly /\ (HasU \/ HasS) /\ HasMode(new.MPP) THEN new.MPP ELSE old.MPP,
         SPP  |-> IF mAndS /\ HasU THEN new.SPP ELSE old.SPP,
         MPRV |-> IF mOnly /\ HasU THEN new.MPRV ELSE old.MPRV,
         SUM  |-> IF mAndS THEN new.SUM ELSE old.SUM,
         TVM  |-> IF mOnly /\ HasS THEN new.TVM ELSE old.TVM,
         TW   |-> IF mOnly /\ HasS THEN new.TW ELSE old.TW,
         TSR  |-> IF mOnly /\ HasS THEN new.TSR ELSE old.TSR]

\* Mutants of TargetModeX: the enable bit is not cleared, or not stacked.
TargetModeXKeepsIE(st, x, y) ==
    [st EXCEPT !.PIE = [@ EXCEPT ![x] = st.IE[x]],
               !.SPP = IF x = SMode THEN y ELSE @,
               !.MPP = IF x = MMode THEN y ELSE @]

TargetModeXNoPIE(st, x, y) ==
    [st EXCEPT !.IE = [@ EXCEPT ![x] = FALSE],
               !.SPP = IF x = SMode THEN y ELSE @,
               !.MPP = IF x = MMode THEN y ELSE @]

\* mstatus after a trap from mode y to mode x.
TargetModeX(st, x, y) ==
    [st EXCEPT !.PIE = [@ EXCEPT ![x] = st.IE[x]],
               !.IE = [@ EXCEPT ![x] = FALSE],
               !.SPP = IF x = SMode THEN y ELSE @,
               !.MPP = IF x = MMode THEN y ELSE @]

\* mstatus after the return instruction of mode x.
EretStatus(st, x) ==
    [st EXCEPT !.IE = [@ EXCEPT ![x] = st.PIE[x]],
               !.PIE = [@ EXCEPT ![x] = TRUE],
               !.SPP = IF x = SMode THEN MinMode ELSE @,
               !.MPP = IF x = MMode THEN MinMode ELSE @]

GetERETMode(m) == IF HasMode(m) THEN m ELSE MinMode

------------------------------------------------------------------------------
(* Delegation and interrupt enables *)

\* The mode the delegation registers mDeleg and sDeleg imply for a code.
DelegatedMode(mDeleg, sDeleg, code) ==
    IF code \notin mDeleg THEN MMode
    ELSE IF code \notin sDeleg THEN SMode
    ELSE UMode

\* The mode a trap from mode y is taken to: never a less privileged one.
GetModeX(mDeleg, sDeleg, code, y) ==
    LET x == DelegatedMode(mDeleg, sDeleg, code) IN IF x > y THEN x ELSE y

\* Mutant of GetIE: the enable bit of the current mode is ignored.
GetIEIgnoresBit(st, m, cur) == cur <= m

\* Are interrupts of mode m enabled while executing in mode cur?
GetIE(st, m, cur) == IF cur < m THEN TRUE ELSE IF cur > m THEN FALSE ELSE st.IE[m]

\* The pending interrupts that are enabled in mode cur, by the masks the code
\* composes from mideleg and sideleg.
PendingAndEnabled(st, cur, pending, mideleg, sideleg) ==
    LET sDeleg == sideleg \cap mideleg
        mMask == pending \ mideleg
        sMask == mideleg \ sDeleg
        uMask == sDeleg
    IN  ((pending \ (IF GetIE(st, MMode, cur) THEN {} ELSE mMask))
                  \ (IF GetIE(st, SMode, cur) THEN {} ELSE sMask))
                  \ (IF GetIE(st, UMode, cur) THEN {} ELSE uMask)

------------------------------------------------------------------------------
(* The memory domain of data accesses *)

\* Physical domains of User and Supervisor mode are shared; virtual domains
\* exist for these two modes only.
Domains == {<<"phys", SMode>>, <<"phys", MMode>>, <<"virt", UMode>>, <<"virt", SMode>>}

\* The domain for mode m when vm says whether satp.MODE is non-zero.
DomainOf(m, vm) ==
    IF vm /\ m <= SMode THEN <<"virt", m>>
    ELSE <<"phys", IF m = MMode THEN MMode ELSE SMode>>

\* The domain implied by mstatus, the current mode and satp: with
\* mstatus.MPRV set, the domain of mstatus.MPP (clamped to an implemented
\* mode) takes the place of that of the current mode.
DataDomainOf(st, cur, vm) ==
    LET MPP == IF HasMode(st.MPP) THEN st.MPP ELSE MinMode
    IN  DomainOf(IF st.MPRV THEN MPP ELSE cur, vm)

==============================================================================
