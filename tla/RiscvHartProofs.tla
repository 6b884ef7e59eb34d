--------------------------- MODULE RiscvHartProofs ---------------------------
(* Theorems about RiscvHart, for every set of implemented modes, interrupts  *)
(* and exceptions and every value software may write.                        *)
EXTENDS RiscvHart, TLAPS

USE ConfigAssumption, HartAssumption

------------------------------------------------------------------------------
(* Facts about the operators of RiscvPriv *)

\* MinMode and GetERETMode give an implemented mode.
LEMMA MinModeImplemented == MinMode \in Modes /\ HasMode(MinMode)
  BY DEF MinMode, Modes, HasMode, UMode, SMode, MMode

LEMMA ERETModeImplemented ==
    ASSUME NEW m PROVE GetERETMode(m) \in Modes /\ HasMode(GetERETMode(m))
  BY MinModeImplemented DEF GetERETMode, HasMode, Modes, UMode, SMode, MMode

\* The reset value, the result of a write, of a trap and of a return are
\* values of mstatus.
LEMMA ResetStatusType == ResetStatus \in Status
  BY MinModeImplemented DEF ResetStatus, Status, Modes, UMode, SMode, MMode, MinMode

LEMMA MergeStatusType ==
    ASSUME NEW old \in Status, NEW new \in StatusInput, NEW a \in Modes
    PROVE  MergeStatus(old, new, a) \in Status
  BY DEF MergeStatus, Status, StatusInput, HasMode, Modes, UMode, SMode, MMode

LEMMA TargetModeXType ==
    ASSUME NEW st \in Status, NEW x \in Modes, NEW y \in Modes, x >= y
    PROVE  TargetModeX(st, x, y) \in Status
<1>1. x = SMode => y \in {UMode, SMode}
  BY DEF Modes, UMode, SMode, MMode
<1> QED BY <1>1 DEF TargetModeX, Status

LEMMA EretStatusType ==
    ASSUME NEW st \in Status, NEW x \in Modes, x = SMode => HasS
    PROVE  EretStatus(st, x) \in Status
  BY MinModeImplemented DEF EretStatus, Status, MinMode, Modes, UMode, SMode, MMode

\* A trap is never taken to a less privileged mode.
LEMMA ModeXType ==
    ASSUME NEW md, NEW sd, NEW code, NEW y \in Modes
    PROVE  GetModeX(md, sd, code, y) \in Modes /\ GetModeX(md, sd, code, y) >= y
  BY DEF GetModeX, DelegatedMode, Modes, UMode, SMode, MMode

LEMMA DataDomainType ==
    ASSUME NEW st \in Status, NEW m \in Modes, NEW vm \in BOOLEAN
    PROVE  DataDomainOf(st, m, vm) \in Domains
<1> DEFINE e == IF st.MPRV THEN IF HasMode(st.MPP) THEN st.MPP ELSE MinMode ELSE m
<1>1. e \in Modes
  BY MinModeImplemented DEF Status
<1>2. DomainOf(e, vm) \in Domains
  BY <1>1 DEF DomainOf, Domains, Modes, UMode, SMode, MMode
<1> QED BY <1>2 DEF DataDomainOf

------------------------------------------------------------------------------
(* Type correctness *)

RunTypeOK == disable \subseteq DisableReasons /\ halted \in BOOLEAN /\ fetchCheck \in BOOLEAN

LEMMA RestartType ==
    ASSUME disable \subseteq DisableReasons, halted \in BOOLEAN, NEW reasons,
           RestartProcessor(reasons)
    PROVE  (disable \subseteq DisableReasons)' /\ halted' \in BOOLEAN
  BY DEF RestartProcessor

LEMMA TestInterruptType ==
    ASSUME RunTypeOK, NEW st, NEW cur, NEW pending, NEW md, NEW sd,
           TestInterrupt(st, cur, pending, md, sd)
    PROVE  RunTypeOK'
<1>1. fetchCheck' \in BOOLEAN
  BY DEF TestInterrupt
<1>2. (disable \subseteq DisableReasons)' /\ halted' \in BOOLEAN
  BY RestartType DEF TestInterrupt, RunTypeOK
<1> QED BY <1>1, <1>2 DEF RunTypeOK

\* What riscvTakeException and the return instructions assign has its type.
LEMMA TakeExceptionType ==
    ASSUME TypeOK, NEW x \in Modes, x >= mode, TakeException(x)
    PROVE  /\ mode' \in Modes /\ dvm' \in BOOLEAN /\ status' \in Status
           /\ dataDomain' \in Domains /\ ea' \in BOOLEAN /\ fetchCheck' \in BOOLEAN
<1>1. status' \in Status
  BY TargetModeXType DEF TakeException, TypeOK
<1>2. mode' \in Modes /\ dvm' \in BOOLEAN
  BY DEF TakeException, SetMode
<1>3. dataDomain' \in Domains
  BY <1>1, DataDomainType DEF TakeException, SetMode, TypeOK, SATP
<1> QED BY <1>1, <1>2, <1>3 DEF TakeException

LEMMA ReturnType ==
    ASSUME TypeOK, NEW x \in Modes, NEW m \in Modes, x = SMode => HasS, Return(x, m)
    PROVE  TypeOK'
<1>1. status' \in Status
  BY EretStatusType DEF Return, TypeOK
<1>2. mode' \in Modes /\ dvm' \in BOOLEAN
  BY DEF Return, SetMode
<1>3. dataDomain' \in Domains
  BY <1>1, DataDomainType DEF Return, SetMode, TypeOK, SATP
<1>4. RunTypeOK'
  BY TestInterruptType DEF Return, TypeOK, RunTypeOK
<1> QED BY <1>1, <1>2, <1>3, <1>4 DEF Return, TypeOK, RunTypeOK, delegVars, netVars

LEMMA TypeInit == Init => TypeOK
<1> SUFFICES ASSUME Init PROVE TypeOK
  OBVIOUS
<1>1. status \in Status
  BY ResetStatusType DEF Init
<1>2. dataDomain \in Domains
  BY DEF Init, Domains
<1> QED BY <1>1, <1>2 DEF Init, TypeOK, ImpliedDelegation, Modes, SATP, SimASID

LEMMA TypeStep == TypeOK /\ [Next]_vars => TypeOK'
<1> SUFFICES ASSUME TypeOK, [Next]_vars PROVE TypeOK'
  OBVIOUS
<1> USE DEF delegVars, netVars, runVars, modeVars
<1>0. mode \in Modes /\ RunTypeOK /\ satp.vm \in BOOLEAN /\ satp.asid \in ASIDs
  BY DEF TypeOK, RunTypeOK, SATP
<1>1. CASE FetchInterrupt
  <2>1. PICK i \in Enabled : TakeException(GetModeX(mideleg, sideleg, i, mode))
    BY <1>1 DEF FetchInterrupt
  <2> QED BY <1>0, <1>1, <2>1, ModeXType, TakeExceptionType DEF FetchInterrupt, TypeOK
<1>2. CASE FetchFault
  <2>1. PICK e : TakeException(GetModeX(medeleg, sedeleg, e, mode))
    BY <1>2 DEF FetchFault
  <2> QED BY <1>0, <1>2, <2>1, ModeXType, TakeExceptionType DEF FetchFault, TypeOK
<1>3. CASE FetchOK
  BY <1>3 DEF FetchOK, TypeOK
<1>4. CASE Exception
  <2>1. PICK e : TakeException(GetModeX(medeleg, sedeleg, e, mode))
    BY <1>4 DEF Exception
  <2> QED BY <1>0, <1>4, <2>1, ModeXType, TakeExceptionType DEF Exception, TypeOK
<1>5. CASE MRET
  BY <1>5, ERETModeImplemented, ReturnType DEF MRET, Modes, MMode, SMode
<1>6. CASE SRET
  BY <1>6, ERETModeImplemented, ReturnType DEF SRET, Modes
<1>7. CASE URET
  BY <1>7, ReturnType DEF URET, Modes, UMode, SMode
<1>8. CASE WFI
  BY <1>8 DEF WFI, HaltProcessor, TypeOK, DisableReasons
<1>9. CASE LR \/ SC
  BY <1>9 DEF LR, SC, TypeOK
<1>10. ASSUME NEW a \in Modes, NEW new \in StatusVals, StatusW(a, new) PROVE TypeOK'
  <2>1. status' \in Status
    BY <1>10, MergeStatusType DEF StatusW, TypeOK
  <2>2. dataDomain' \in Domains
    BY <1>0, <1>10, <2>1, DataDomainType DEF StatusW
  <2>3. simASID' \in SimASID
    BY <1>0, <1>10, <2>1 DEF StatusW, SimASID, Status
  <2>4. RunTypeOK'
    BY <1>0, <1>10, TestInterruptType DEF StatusW, RunTypeOK
  <2> QED BY <1>10, <2>1, <2>2, <2>3, <2>4 DEF StatusW, TypeOK, RunTypeOK
<1>11. ASSUME NEW a \in Modes, NEW value \in SUBSET Interrupts, IeW(a, value) PROVE TypeOK'
  <2>1. RunTypeOK'
    BY <1>0, <1>11, TestInterruptType DEF IeW, RunTypeOK
  <2>2. mie' \subseteq MieMask
    BY <1>11 DEF IeW, Masked, TypeOK
  <2> QED BY <1>11, <2>1, <2>2 DEF IeW, TypeOK, RunTypeOK
<1>12. ASSUME NEW a \in Modes, NEW value \in SUBSET Interrupts, IpW(a, value) PROVE TypeOK'
  <2>1. RunTypeOK'
    BY <1>0, <1>12, TestInterruptType DEF IpW, UpdatePending, RunTypeOK
  <2>2. swip' \subseteq InterruptMask /\ mip' \subseteq InterruptMask
    BY <1>12 DEF IpW, UpdatePending, Masked, TypeOK
  <2> QED BY <1>12, <2>1, <2>2 DEF IpW, TypeOK, RunTypeOK
<1>13. ASSUME NEW value \in SUBSET Interrupts, MidelegW(value) PROVE TypeOK'
  <2>1. RunTypeOK'
    BY <1>0, <1>13, TestInterruptType DEF MidelegW, RunTypeOK
  <2>2. mideleg' \subseteq SInterrupts
    BY <1>13 DEF MidelegW, Masked, TypeOK
  <2> QED BY <1>13, <2>1, <2>2 DEF MidelegW, TypeOK, RunTypeOK
<1>14. ASSUME NEW value \in SUBSET Interrupts, SidelegW(value) PROVE TypeOK'
  <2>1. RunTypeOK'
    BY <1>0, <1>14, TestInterruptType DEF SidelegW, RunTypeOK
  <2>2. sideleg' \subseteq Interrupts
    BY <1>14 DEF SidelegW, Masked, TypeOK
  <2> QED BY <1>14, <2>1, <2>2 DEF SidelegW, TypeOK, RunTypeOK
<1>15. ASSUME NEW value \in SUBSET Exceptions, MedelegW(value) PROVE TypeOK'
  BY <1>15 DEF MedelegW, Masked, TypeOK
<1>16. ASSUME NEW value \in SUBSET Exceptions, SedelegW(value) PROVE TypeOK'
  BY <1>16 DEF SedelegW, Masked, TypeOK
<1>17. ASSUME NEW new \in SatpVals, SatpW(new) PROVE TypeOK'
  <2>1. new \in SATP /\ new.vm \in BOOLEAN /\ new.asid \in ASIDs
    BY DEF SATP
  <2>2. mode' \in Modes /\ dvm' \in BOOLEAN /\ dataDomain' \in Domains
    BY <1>0, <1>17, <2>1, DataDomainType DEF SatpW, SetMode, TypeOK
  <2>3. simASID' \in SimASID
    BY <1>17, <2>1 DEF SatpW, SimASID, TypeOK, Status
  <2> QED BY <1>17, <2>1, <2>2, <2>3 DEF SatpW, TypeOK
<1>18. CASE ResetPort
  <2>1. CASE netReset
    <3>1. (disable \subseteq DisableReasons)' /\ halted' \in BOOLEAN
      BY <1>0, <1>18, <2>1, RestartType DEF ResetPort, DoReset, RunTypeOK
    <3>2. mode' \in Modes /\ dvm' \in BOOLEAN /\ dataDomain' \in Domains
      BY <1>0, <1>18, <2>1, DataDomainType DEF ResetPort, DoReset, SetMode, TypeOK, Modes
    <3> QED BY <1>18, <2>1, <3>1, <3>2, ResetStatusType DEF ResetPort, DoReset, TypeOK
  <2>2. CASE ~netReset
    BY <1>18, <2>2 DEF ResetPort, HaltProcessor, TypeOK, DisableReasons
  <2> QED BY <2>1, <2>2
<1>19. CASE NmiPort
  <2>1. CASE netNmi
    <3>1. (disable \subseteq DisableReasons)' /\ halted' \in BOOLEAN
      BY <1>0, <1>19, <2>1, RestartType DEF NmiPort, DoNMI, RunTypeOK
    <3>2. mode' \in Modes /\ dvm' \in BOOLEAN /\ dataDomain' \in Domains
      BY <1>0, <1>19, <2>1, DataDomainType DEF NmiPort, DoNMI, SetMode, TypeOK, Modes
    <3> QED BY <1>19, <2>1, <3>1, <3>2 DEF NmiPort, DoNMI, TypeOK
  <2>2. CASE ~netNmi
    BY <1>19, <2>2 DEF NmiPort, HaltProcessor, TypeOK, DisableReasons
  <2> QED BY <2>1, <2>2
<1>20. ASSUME NEW i \in InterruptMask, InterruptPort(i) PROVE TypeOK'
  <2>1. netIp' \subseteq InterruptMask
    BY <1>20 DEF InterruptPort, TypeOK
  <2>2. mip' \subseteq InterruptMask
    BY <1>20, <2>1 DEF InterruptPort, UpdatePending, TypeOK
  <2>3. RunTypeOK'
    BY <1>0, <1>20, TestInterruptType DEF InterruptPort, UpdatePending, RunTypeOK
  <2> QED BY <1>20, <2>1, <2>2, <2>3 DEF InterruptPort, TypeOK, RunTypeOK
<1>21. CASE UNCHANGED vars
  BY <1>21 DEF vars, TypeOK
<1> QED BY <1>1, <1>2, <1>3, <1>4, <1>5, <1>6, <1>7, <1>8, <1>9, <1>10, <1>11, <1>12,
           <1>13, <1>14, <1>15, <1>16, <1>17, <1>18, <1>19, <1>20, <1>21
        DEF Next, Fetch, Instruction, CSRWrite, Signal

\* Every reachable state of a hart is well typed: CSRs hold only bits that
\* their write masks allow, mstatus.MPP never holds the reserved mode.
THEOREM TypeCorrect == Spec => []TypeOK
  BY TypeInit, TypeStep, PTL DEF Spec

------------------------------------------------------------------------------
(* No interrupt is lost *)

\* Where no enable bit of mstatus is set that was clear, no interrupt becomes
\* enabled: statusW may then skip riscvTestInterrupt.
LEMMA EnabledMonotone ==
    ASSUME NEW st \in Status, NEW st2 \in Status, NEW cur \in Modes,
           NEW pending, NEW md, NEW sd,
           \A m \in Modes : st2.IE[m] => st.IE[m]
    PROVE  PendingAndEnabled(st2, cur, pending, md, sd)
               \subseteq PendingAndEnabled(st, cur, pending, md, sd)
<1>1. \A m \in Modes : GetIE(st2, m, cur) => GetIE(st, m, cur)
  BY DEF GetIE
<1>2. {UMode, SMode, MMode} \subseteq Modes
  BY DEF Modes
<1> QED BY <1>1, <1>2 DEF PendingAndEnabled

LEMMA NoLostStep == TypeOK /\ NoLostInterrupt /\ [Next]_vars => NoLostInterrupt'
<1> SUFFICES ASSUME TypeOK, NoLostInterrupt, [Next]_vars PROVE NoLostInterrupt'
  OBVIOUS
<1> USE DEF delegVars, netVars, runVars, modeVars, NoLostInterrupt, Enabled, Pending
<1>1. CASE FetchInterrupt \/ FetchFault \/ Exception
  BY <1>1 DEF FetchInterrupt, FetchFault, Exception, TakeException
<1>2. CASE FetchOK
  BY <1>2 DEF FetchOK
<1>3. CASE MRET \/ SRET \/ URET
  <2>1. PICK x, m : Return(x, m)
    BY <1>3 DEF MRET, SRET, URET
  <2> QED BY <2>1 DEF Return, SetMode, TestInterrupt
<1>4. CASE WFI \/ LR \/ SC
  BY <1>4 DEF WFI, LR, SC
<1>5. ASSUME NEW a \in Modes, NEW new \in StatusVals, StatusW(a, new) PROVE NoLostInterrupt'
  <2> DEFINE st == MergeStatus(status, new, a)
  <2>1. CASE \E m \in Modes : st.IE[m] /\ ~status.IE[m]
    BY <1>5, <2>1 DEF StatusW, TestInterrupt
  <2>2. CASE \A m \in Modes : st.IE[m] => status.IE[m]
    <3>1. st \in Status
      BY MergeStatusType DEF TypeOK
    <3>2. Enabled' \subseteq Enabled
      BY <1>5, <2>2, <3>1, EnabledMonotone DEF StatusW, TypeOK
    <3>3. fetchCheck' = fetchCheck
      BY <1>5, <2>2 DEF StatusW
    <3> QED BY <3>2, <3>3
  <2> QED BY <2>1, <2>2
<1>6. ASSUME NEW a, NEW value, IeW(a, value) PROVE NoLostInterrupt'
  BY <1>6 DEF IeW, TestInterrupt
<1>7. ASSUME NEW a, NEW value, IpW(a, value) PROVE NoLostInterrupt'
  BY <1>7 DEF IpW, UpdatePending, TestInterrupt
<1>8. ASSUME NEW value, MidelegW(value) PROVE NoLostInterrupt'
  BY <1>8 DEF MidelegW, TestInterrupt
<1>9. ASSUME NEW value, SidelegW(value) PROVE NoLostInterrupt'
  BY <1>9 DEF SidelegW, TestInterrupt
<1>10. ASSUME NEW value, MedelegW(value) \/ SedelegW(value) PROVE NoLostInterrupt'
  BY <1>10 DEF MedelegW, SedelegW
<1>11. ASSUME NEW new, SatpW(new) PROVE NoLostInterrupt'
  BY <1>11 DEF SatpW, SetMode
<1>12. CASE ResetPort \/ NmiPort
  BY <1>12 DEF ResetPort, NmiPort, DoReset, DoNMI
<1>13. ASSUME NEW i, InterruptPort(i) PROVE NoLostInterrupt'
  BY <1>13 DEF InterruptPort, UpdatePending, TestInterrupt
<1>14. CASE UNCHANGED vars
  BY <1>14 DEF vars
<1> QED BY <1>1, <1>2, <1>3, <1>4, <1>5, <1>6, <1>7, <1>8, <1>9, <1>10, <1>11, <1>12,
           <1>13, <1>14
        DEF Next, Fetch, Instruction, CSRWrite, Signal

\* In every hart, whatever its configuration, a pending and enabled interrupt
\* always has a fetch check scheduled.
THEOREM InterruptsNeverLost == Spec => []NoLostInterrupt
<1>1. Init => NoLostInterrupt
  BY DEF Init, NoLostInterrupt
<1> QED BY <1>1, NoLostStep, TypeCorrect, PTL DEF Spec

------------------------------------------------------------------------------
(* Waiting and halting *)

WaitInv == WFIEndsWhenPending /\ HaltReasonsConsistent

\* haltProcessor and restartProcessor keep the simulator's halt in step with
\* riscv->disable.
LEMMA Restarted ==
    ASSUME halted <=> disable # {}, NEW reasons, RestartProcessor(reasons)
    PROVE  halted' <=> disable' # {}
<1>1. disable' # {} => disable # {}
  BY DEF RestartProcessor
<1> QED BY <1>1 DEF RestartProcessor

LEMMA Halted ==
    ASSUME halted <=> disable # {}, NEW reason, HaltProcessor(reason)
    PROVE  halted' <=> disable' # {}
<1>1. disable' # {}
  BY DEF HaltProcessor
<1> QED BY <1>1 DEF HaltProcessor

LEMMA WaitStep == TypeOK /\ WaitInv /\ [Next]_vars => WaitInv'
<1> SUFFICES ASSUME TypeOK, WaitInv, [Next]_vars PROVE WaitInv'
  OBVIOUS
<1> USE DEF delegVars, netVars, runVars, modeVars, WaitInv, WFIEndsWhenPending,
            HaltReasonsConsistent, Pending
<1>0. ASSUME NEW st, NEW cur, NEW pending, NEW md, NEW sd,
             TestInterrupt(st, cur, pending, md, sd)
      PROVE  /\ halted' <=> disable' # {}
             /\ "RESET" \in disable' <=> "RESET" \in disable
             /\ "NMI" \in disable' <=> "NMI" \in disable
             /\ "WFI" \in disable' => "WFI" \in disable /\ pending = {}
  <2>1. CASE pending = {}
    <3>1. disable' = disable /\ halted' = halted
      BY <1>0, <2>1 DEF TestInterrupt
    <3> QED BY <2>1, <3>1
  <2>2. CASE pending # {}
    <3>1. RestartProcessor({"WFI"})
      BY <1>0, <2>2 DEF TestInterrupt
    <3>2. halted' <=> disable' # {}
      BY <3>1, Restarted
    <3>3. disable' = disable \ {"WFI"}
      BY <3>1 DEF RestartProcessor
    <3> QED BY <3>2, <3>3
  <2> QED BY <2>1, <2>2
<1>1. CASE FetchInterrupt \/ FetchFault \/ FetchOK \/ Exception
  BY <1>1 DEF FetchInterrupt, FetchFault, FetchOK, Exception
<1>3. CASE MRET \/ SRET \/ URET
  <2>1. PICK x, m : Return(x, m)
    BY <1>3 DEF MRET, SRET, URET
  <2> QED BY <1>0, <2>1 DEF Return
<1>2. CASE WFI
  <2>1. halted' <=> disable' # {}
    BY <1>2, Halted DEF WFI
  <2> QED BY <1>2, <2>1 DEF WFI, HaltProcessor
<1>4. CASE LR \/ SC
  BY <1>4 DEF LR, SC
<1>5. ASSUME NEW a \in Modes, NEW new \in StatusVals, StatusW(a, new) PROVE WaitInv'
  BY <1>0, <1>5 DEF StatusW
<1>6. ASSUME NEW a, NEW value, IeW(a, value) PROVE WaitInv'
  BY <1>0, <1>6 DEF IeW
<1>7. ASSUME NEW a, NEW value, IpW(a, value) PROVE WaitInv'
  BY <1>0, <1>7 DEF IpW, UpdatePending
<1>8. ASSUME NEW value, MidelegW(value) \/ SidelegW(value) PROVE WaitInv'
  BY <1>0, <1>8 DEF MidelegW, SidelegW
<1>10. ASSUME NEW value, MedelegW(value) \/ SedelegW(value) PROVE WaitInv'
  BY <1>10 DEF MedelegW, SedelegW
<1>11. ASSUME NEW new, SatpW(new) PROVE WaitInv'
  BY <1>11 DEF SatpW
<1>12. CASE ResetPort
  <2>1. CASE netReset
    <3>1. halted' <=> disable' # {}
      BY <1>12, <2>1, Restarted DEF ResetPort, DoReset
    <3>2. ~netReset' /\ netNmi' = netNmi /\ Pending' = Pending
      BY <1>12, <2>1 DEF ResetPort
    <3>3. disable' = disable \ {"WFI", "RESET"}
      BY <1>12, <2>1 DEF ResetPort, DoReset, RestartProcessor
    <3> QED BY <3>1, <3>2, <3>3
  <2>2. CASE ~netReset
    <3>1. halted' <=> disable' # {}
      BY <1>12, <2>2, Halted DEF ResetPort
    <3>2. netReset' /\ netNmi' = netNmi /\ Pending' = Pending
      BY <1>12, <2>2 DEF ResetPort
    <3>3. disable' = disable \cup {"RESET"}
      BY <1>12, <2>2 DEF ResetPort, HaltProcessor
    <3> QED BY <3>1, <3>2, <3>3
  <2> QED BY <2>1, <2>2
<1>13. CASE NmiPort
  <2>1. CASE netNmi
    <3>1. halted' <=> disable' # {}
      BY <1>13, <2>1, Restarted DEF NmiPort, DoNMI
    <3>2. ~netNmi' /\ netReset' = netReset /\ Pending' = Pending
      BY <1>13, <2>1 DEF NmiPort
    <3>3. disable' = disable \ {"WFI", "NMI"}
      BY <1>13, <2>1 DEF NmiPort, DoNMI, RestartProcessor
    <3> QED BY <3>1, <3>2, <3>3
  <2>2. CASE ~netNmi
    <3>1. halted' <=> disable' # {}
      BY <1>13, <2>2, Halted DEF NmiPort
    <3>2. netNmi' /\ netReset' = netReset /\ Pending' = Pending
      BY <1>13, <2>2 DEF NmiPort
    <3>3. disable' = disable \cup {"NMI"}
      BY <1>13, <2>2 DEF NmiPort, HaltProcessor
    <3> QED BY <3>1, <3>2, <3>3
  <2> QED BY <2>1, <2>2
<1>14. ASSUME NEW i, InterruptPort(i) PROVE WaitInv'
  BY <1>0, <1>14 DEF InterruptPort, UpdatePending
<1>15. CASE UNCHANGED vars
  BY <1>15 DEF vars
<1> QED BY <1>1, <1>2, <1>3, <1>4, <1>5, <1>6, <1>7, <1>8, <1>10, <1>11, <1>12,
           <1>13, <1>14, <1>15
        DEF Next, Fetch, Instruction, CSRWrite, Signal

\* A hart never sleeps in WFI with an interrupt pending, and is halted exactly
\* while a disable reason holds.
THEOREM WaitCorrect == Spec => [](WFIEndsWhenPending /\ HaltReasonsConsistent)
<1>1. Init => WaitInv
  BY DEF Init, WaitInv, WFIEndsWhenPending, HaltReasonsConsistent, Pending
<1>2. Spec => []WaitInv
  BY <1>1, WaitStep, TypeCorrect, PTL DEF Spec
<1> QED BY <1>2, PTL DEF WaitInv

\* The hart is halted exactly while a disable reason holds, and RESET and NMI
\* are reasons exactly while their signals are high, in any interleaving of the
\* signals with WFI.
THEOREM HaltFollowsReasons == Spec => []HaltReasonsConsistent
  BY WaitCorrect, PTL

------------------------------------------------------------------------------
(* Only implemented modes are entered *)

\* Without Supervisor mode nothing is delegated to it: what mideleg and
\* medeleg delegate goes on to User mode, or nothing can be delegated.
DelegInv ==
    ~HasS => IF HasN THEN sideleg = Interrupts /\ sedeleg = Exceptions
                     ELSE mideleg = {} /\ medeleg = {}

ModesInv == ModesImplemented /\ DelegInv

\* A trap from an implemented mode is taken to an implemented mode.
LEMMA ModeXImplemented ==
    ASSUME NEW md, NEW sd, NEW code, NEW y \in Modes, HasMode(y),
           ~HasS => (code \in md => code \in sd)
    PROVE  HasMode(GetModeX(md, sd, code, y))
<1>1. HasMode(DelegatedMode(md, sd, code)) \/ DelegatedMode(md, sd, code) = UMode
  BY DEF DelegatedMode, HasMode, UMode, SMode, MMode
<1>2. ~(UMode > y)
  BY DEF Modes, UMode, SMode, MMode
<1> QED BY <1>1, <1>2 DEF GetModeX

LEMMA DelegatedOnward ==
    ASSUME TypeOK, DelegInv, ~HasS
    PROVE  mideleg \subseteq sideleg /\ medeleg \subseteq sedeleg
<1>1. mideleg \subseteq Interrupts /\ medeleg \subseteq Exceptions
  BY DEF TypeOK, SInterrupts, InterruptMask, SExceptions, ExceptionMask
<1> QED BY <1>1 DEF DelegInv

LEMMA TrapModes ==
    ASSUME TypeOK, ModesImplemented, NEW x \in Modes, x >= mode, HasMode(x), TakeException(x)
    PROVE  ModesImplemented'
<1>1. mode' = x /\ status' = TargetModeX(status, x, mode)
  BY DEF TakeException, SetMode
<1>2. status'.MPP \in {status.MPP, mode} /\ status'.SPP \in {status.SPP, mode}
  BY <1>1 DEF TargetModeX, TypeOK, Status
<1> QED BY <1>1, <1>2 DEF ModesImplemented

LEMMA ReturnModes ==
    ASSUME TypeOK, ModesImplemented, NEW x, NEW m, HasMode(m), Return(x, m)
    PROVE  ModesImplemented'
<1>1. mode' = m /\ status' = EretStatus(status, x)
  BY DEF Return, SetMode
<1>2. status'.MPP \in {status.MPP, MinMode} /\ status'.SPP \in {status.SPP, MinMode}
  BY <1>1 DEF EretStatus, TypeOK, Status
<1> QED BY <1>1, <1>2, MinModeImplemented DEF ModesImplemented

LEMMA ModesStep == TypeOK /\ ModesInv /\ [Next]_vars => ModesInv'
<1> SUFFICES ASSUME TypeOK, ModesInv, [Next]_vars PROVE ModesInv'
  OBVIOUS
<1> USE DEF delegVars, modeVars, ModesInv
<1>0. mode \in Modes /\ HasMode(mode)
  BY DEF TypeOK, ModesImplemented
<1>a. ASSUME NEW i, TakeException(GetModeX(mideleg, sideleg, i, mode)) PROVE ModesImplemented'
  BY <1>0, <1>a, DelegatedOnward, ModeXType, ModeXImplemented, TrapModes
<1>b. ASSUME NEW e, TakeException(GetModeX(medeleg, sedeleg, e, mode)) PROVE ModesImplemented'
  BY <1>0, <1>b, DelegatedOnward, ModeXType, ModeXImplemented, TrapModes
<1>1. CASE FetchInterrupt
  BY <1>1, <1>a DEF FetchInterrupt, DelegInv
<1>2. CASE FetchFault \/ Exception
  BY <1>2, <1>b DEF FetchFault, Exception, DelegInv
<1>3. CASE FetchOK \/ WFI \/ LR \/ SC
  BY <1>3 DEF FetchOK, WFI, LR, SC, ModesImplemented, DelegInv
<1>4. CASE MRET \/ SRET \/ URET
  <2>1. PICK x, m : Return(x, m) /\ HasMode(m)
    BY <1>4, ERETModeImplemented DEF MRET, SRET, URET, HasMode
  <2> QED BY <2>1, ReturnModes DEF Return, DelegInv
<1>5. ASSUME NEW a \in Modes, NEW new \in StatusVals, StatusW(a, new) PROVE ModesInv'
  <2>1. mode' = mode /\ status' = MergeStatus(status, new, a)
    BY <1>5 DEF StatusW
  <2>2. HasMode(status'.MPP)
    BY <2>1 DEF MergeStatus, ModesImplemented
  <2>3. ASSUME HasS PROVE HasMode(status'.SPP)
    <3>1. status'.SPP = status.SPP \/ (HasU /\ status'.SPP = new.SPP)
      BY <2>1 DEF MergeStatus
    <3>2. new.SPP \in {UMode, SMode}
      BY DEF StatusInput
    <3> QED BY <2>3, <3>1, <3>2 DEF ModesImplemented, HasMode
  <2> QED BY <1>5, <2>1, <2>2, <2>3 DEF StatusW, ModesImplemented, DelegInv
<1>6. ASSUME NEW a, NEW value, IeW(a, value) \/ IpW(a, value) PROVE ModesInv'
  BY <1>6 DEF IeW, IpW, ModesImplemented, DelegInv
<1>7. ASSUME NEW value, MidelegW(value) \/ SidelegW(value) PROVE ModesInv'
  BY <1>7 DEF MidelegW, SidelegW, ModesImplemented, DelegInv
<1>8. ASSUME NEW value, MedelegW(value) \/ SedelegW(value) PROVE ModesInv'
  BY <1>8 DEF MedelegW, SedelegW, ModesImplemented, DelegInv
<1>9. ASSUME NEW new, SatpW(new) PROVE ModesInv'
  BY <1>9 DEF SatpW, SetMode, ModesImplemented, DelegInv
<1>10. CASE ResetPort
  <2>1. CASE netReset
    <3>1. mode' = MMode /\ status' = ResetStatus
      BY <1>10, <2>1 DEF ResetPort, DoReset, SetMode
    <3>2. status'.MPP = MinMode /\ (HasS => status'.SPP = MinMode) /\ HasMode(MMode)
      BY <3>1 DEF ResetStatus, HasMode
    <3> QED BY <1>10, <3>1, <3>2, MinModeImplemented DEF ResetPort, ModesImplemented, DelegInv
  <2>2. CASE ~netReset
    BY <1>10, <2>2 DEF ResetPort, ModesImplemented, DelegInv
  <2> QED BY <2>1, <2>2
<1>11. CASE NmiPort
  <2>1. mode' \in {mode, MMode} /\ status' = status
    BY <1>11 DEF NmiPort, DoNMI, SetMode
  <2> QED BY <1>11, <2>1 DEF NmiPort, ModesImplemented, DelegInv, HasMode
<1>12. ASSUME NEW i, InterruptPort(i) PROVE ModesInv'
  BY <1>12 DEF InterruptPort, ModesImplemented, DelegInv
<1>13. CASE UNCHANGED vars
  BY <1>13 DEF vars, ModesImplemented, DelegInv
<1> QED BY <1>1, <1>2, <1>3, <1>4, <1>5, <1>6, <1>7, <1>8, <1>9, <1>10, <1>11, <1>12, <1>13
        DEF Next, Fetch, Instruction, CSRWrite, Signal

LEMMA ModesInvariant == Spec => []ModesInv
<1>1. Init => ModesInv
  <2> SUFFICES ASSUME Init PROVE ModesInv
    OBVIOUS
  <2>1. mode = MMode /\ status.MPP = MinMode /\ (HasS => status.SPP = MinMode)
    BY DEF Init, ResetStatus
  <2>2. DelegInv
    BY DEF Init, DelegInv, ImpliedDelegation
  <2> QED BY <2>1, <2>2, MinModeImplemented DEF ModesInv, ModesImplemented, HasMode
<1> QED BY <1>1, ModesStep, TypeCorrect, PTL DEF Spec

\* Whatever modes are implemented and whatever is delegated, the hart is only
\* ever in an implemented mode, and so are the modes it will return to.
THEOREM OnlyImplementedModes == Spec => []ModesImplemented
  BY ModesInvariant, PTL DEF ModesInv

\* An interrupt is enabled where GetIE says so for the mode it is delegated to.
LEMMA EnabledByTarget ==
    ASSUME NEW st, NEW cur, NEW pending, NEW md, NEW sd,
           NEW i \in PendingAndEnabled(st, cur, pending, md, sd)
    PROVE  GetIE(st, DelegatedMode(md, sd, i), cur)
  BY DEF PendingAndEnabled, DelegatedMode

LEMMA TargetSound == TypeOK /\ ModesInv => InterruptTargetSound
<1> SUFFICES ASSUME TypeOK, ModesInv, NEW i \in Enabled
             PROVE  LET x == GetModeX(mideleg, sideleg, i, mode) IN
                    /\ x = DelegatedMode(mideleg, sideleg, i)
                    /\ HasMode(x)
                    /\ x > mode \/ status.IE[x]
  BY DEF InterruptTargetSound
<1> DEFINE d == DelegatedMode(mideleg, sideleg, i)
<1>1. GetIE(status, d, mode)
  BY EnabledByTarget DEF Enabled
<1>2. mode \in Modes /\ HasMode(mode)
  BY DEF TypeOK, ModesInv, ModesImplemented
<1>3. d \in Modes
  BY DEF DelegatedMode, Modes
<1>4. d > mode \/ (d = mode /\ status.IE[d])
  BY <1>1, <1>2, <1>3 DEF GetIE, Modes, UMode, SMode, MMode
<1>5. GetModeX(mideleg, sideleg, i, mode) = d
  BY <1>2, <1>4 DEF GetModeX
<1>6. HasMode(GetModeX(mideleg, sideleg, i, mode))
  BY <1>2, DelegatedOnward, ModeXImplemented DEF ModesInv
<1> QED BY <1>4, <1>5, <1>6

\* In every hart the masks of getPendingAndEnabledInterrupts agree with the
\* target that getInterruptModeX computes for each interrupt they let pass.
THEOREM InterruptTargets == Spec => []InterruptTargetSound
  BY TypeCorrect, ModesInvariant, TargetSound, PTL

------------------------------------------------------------------------------
(* Registers and the copies of them that the simulator holds *)

\* A trap and a return leave mstatus.SUM as it is.
LEMMA TrapKeepsSUM ==
    ASSUME NEW st \in Status, NEW x, NEW y
    PROVE  TargetModeX(st, x, y).SUM = st.SUM /\ EretStatus(st, x).SUM = st.SUM
  BY DEF TargetModeX, EretStatus, Status

\* The copies of registers: what riscvUpdatePending, riscvSetMode,
\* riscvVMRefreshMPRVDomain and riscvVMSetASID keep up to date.
CopiesInv ==
    /\ MipComposed
    /\ FetchDomainConsistent
    /\ DataDomainStaleOnlyAfterReset
    /\ SimASIDFollows

\* What only the traps, the returns, the writes of satp and mstatus and the
\* signals can disturb.
LEMMA CopiesKept ==
    ASSUME CopiesInv, UNCHANGED <<modeVars, satp, simASID>>, MipComposed'
    PROVE  CopiesInv'
  BY DEF CopiesInv, FetchDomainConsistent, DataDomainStaleOnlyAfterReset, DataDomainConsistent,
         SimASIDFollows, modeVars

\* A handler that stores mstatus and then calls riscvSetMode leaves the copies
\* as the new registers imply.
LEMMA CopiesAfterSetMode ==
    ASSUME CopiesInv, NEW m, SetMode(m, status', satp), status'.SUM = status.SUM,
           UNCHANGED <<satp, simASID, mip, netIp, swip>>
    PROVE  CopiesInv'
<1>1. FetchDomainConsistent'
  BY DEF SetMode, FetchDomainConsistent
<1>2. DataDomainConsistent'
  BY DEF SetMode, DataDomainConsistent
<1> QED BY <1>1, <1>2 DEF CopiesInv, MipComposed, DataDomainStaleOnlyAfterReset, SimASIDFollows

LEMMA CopiesStep == TypeOK /\ CopiesInv /\ [Next]_vars => CopiesInv'
<1> SUFFICES ASSUME TypeOK, CopiesInv, [Next]_vars PROVE CopiesInv'
  OBVIOUS
<1> USE DEF netVars
<1>0. status \in Status
  BY DEF TypeOK
<1>1. CASE FetchInterrupt \/ FetchFault \/ Exception
  <2>1. PICK x : TakeException(x)
    BY <1>1 DEF FetchInterrupt, FetchFault, Exception
  <2>2. SetMode(x, status', satp) /\ status'.SUM = status.SUM
    BY <1>0, <2>1, TrapKeepsSUM DEF TakeException
  <2> QED BY <1>1, <2>2, CopiesAfterSetMode DEF FetchInterrupt, FetchFault, Exception
<1>2. CASE FetchOK \/ WFI \/ LR \/ SC
  BY <1>2, CopiesKept DEF FetchOK, WFI, LR, SC, CopiesInv, MipComposed
<1>3. CASE MRET \/ SRET \/ URET
  <2>1. PICK x, m : Return(x, m)
    BY <1>3 DEF MRET, SRET, URET
  <2>2. SetMode(m, status', satp) /\ status'.SUM = status.SUM
    BY <1>0, <2>1, TrapKeepsSUM DEF Return
  <2> QED BY <2>1, <2>2, CopiesAfterSetMode DEF Return
<1>4. ASSUME NEW a, NEW new, StatusW(a, new) PROVE CopiesInv'
  <2>1. DataDomainConsistent'
    BY <1>4 DEF StatusW, DataDomainConsistent
  <2>2. SimASIDFollows'
    BY <1>4 DEF StatusW, SimASIDFollows
  <2> QED BY <1>4, <2>1, <2>2 DEF StatusW, CopiesInv, MipComposed, FetchDomainConsistent,
                                  DataDomainStaleOnlyAfterReset
<1>5. ASSUME NEW a, NEW value, IeW(a, value) PROVE CopiesInv'
  BY <1>5, CopiesKept DEF IeW, CopiesInv, MipComposed
<1>6. ASSUME NEW a, NEW value, IpW(a, value) PROVE CopiesInv'
  <2>1. MipComposed'
    BY <1>6 DEF IpW, UpdatePending, CopiesInv, MipComposed
  <2> QED BY <1>6, <2>1, CopiesKept DEF IpW
<1>7. ASSUME NEW value, MidelegW(value) \/ SidelegW(value) \/ MedelegW(value) \/ SedelegW(value)
      PROVE  CopiesInv'
  BY <1>7, CopiesKept DEF MidelegW, SidelegW, MedelegW, SedelegW, CopiesInv, MipComposed
<1>8. ASSUME NEW new, SatpW(new) PROVE CopiesInv'
  <2>1. DataDomainConsistent' /\ FetchDomainConsistent'
    BY <1>8 DEF SatpW, SetMode, DataDomainConsistent, FetchDomainConsistent
  <2>2. SimASIDFollows'
    BY <1>8 DEF SatpW, SimASIDFollows
  <2> QED BY <1>8, <2>1, <2>2 DEF SatpW, CopiesInv, MipComposed, DataDomainStaleOnlyAfterReset
<1>9. CASE ResetPort
  <2>1. CASE netReset
    <3>1. mode' = MMode /\ status' = ResetStatus /\ dvm' = (MMode <= SMode /\ satp.vm)
      BY <1>9, <2>1 DEF ResetPort, DoReset, SetMode
    <3>2. ~status'.SUM
      BY <3>1 DEF ResetStatus
    <3>3. FetchDomainConsistent' /\ SimASIDFollows' /\ DataDomainStaleOnlyAfterReset'
      BY <1>9, <3>1, <3>2 DEF ResetPort, FetchDomainConsistent, SimASIDFollows, CopiesInv,
                              DataDomainStaleOnlyAfterReset
    <3> QED BY <1>9, <3>3 DEF ResetPort, CopiesInv, MipComposed
  <2>2. CASE ~netReset
    BY <1>9, <2>2, CopiesKept DEF ResetPort, CopiesInv, MipComposed
  <2> QED BY <2>1, <2>2
<1>10. CASE NmiPort
  <2>1. CASE netNmi
    <3>1. SetMode(MMode, status', satp) /\ status' = status
      BY <1>10, <2>1 DEF NmiPort, DoNMI
    <3> QED BY <1>10, <3>1, CopiesAfterSetMode DEF NmiPort
  <2>2. CASE ~netNmi
    BY <1>10, <2>2, CopiesKept DEF NmiPort, CopiesInv, MipComposed
  <2> QED BY <2>1, <2>2
<1>11. ASSUME NEW i, InterruptPort(i) PROVE CopiesInv'
  <2>1. MipComposed'
    BY <1>11 DEF InterruptPort, UpdatePending, MipComposed
  <2> QED BY <1>11, <2>1, CopiesKept DEF InterruptPort
<1>12. CASE UNCHANGED vars
  BY <1>12, CopiesKept DEF vars, modeVars, CopiesInv, MipComposed
<1> QED BY <1>1, <1>2, <1>3, <1>4, <1>5, <1>6, <1>7, <1>8, <1>9, <1>10, <1>11, <1>12
        DEF Next, Fetch, Instruction, CSRWrite, Signal

LEMMA CopiesInvariant == Spec => []CopiesInv
<1>1. Init => CopiesInv
  <2> SUFFICES ASSUME Init PROVE CopiesInv
    OBVIOUS
  <2>1. MipComposed /\ FetchDomainConsistent
    BY DEF Init, MipComposed, FetchDomainConsistent, MMode, SMode
  <2>2. DataDomainStaleOnlyAfterReset /\ SimASIDFollows
    BY DEF Init, DataDomainStaleOnlyAfterReset, SimASIDFollows, ResetStatus
  <2> QED BY <2>1, <2>2 DEF CopiesInv
<1> QED BY <1>1, CopiesStep, TypeCorrect, PTL DEF Spec

\* mip is the union of its external and its software sources after every write
\* and every change of a signal.
THEOREM PendingComposed == Spec => []MipComposed
  BY CopiesInvariant, PTL DEF CopiesInv

\* Code is fetched from the virtual domain exactly when the mode and satp say
\* so, whatever trap, return, write or signal came last.
THEOREM FetchDomainFollows == Spec => []FetchDomainConsistent
  BY CopiesInvariant, PTL DEF CopiesInv

\* Only a reset can leave the data domain different from what the registers
\* imply, and then only until the mode changes or mstatus or satp is written.
THEOREM DataDomainFollows == Spec => []DataDomainStaleOnlyAfterReset
  BY CopiesInvariant, PTL DEF CopiesInv

\* The simulated ASID has the ASID of satp, and SUM wherever mstatus has it.
THEOREM SimulatedASIDFollows == Spec => []SimASIDFollows
  BY CopiesInvariant, PTL DEF CopiesInv

------------------------------------------------------------------------------
(* What a step may do *)

\* A return is never to a more privileged mode.
LEMMA ReturnNotRaised ==
    ASSUME TypeOK, MRET \/ SRET \/ URET
    PROVE  ~(mode' > mode)
<1>0. mode \in Modes /\ status.SPP \in {UMode, SMode}
  BY DEF TypeOK, Status
<1>1. CASE MRET
  <2>1. mode = MMode /\ mode' \in Modes
    BY <1>1, ERETModeImplemented DEF MRET, Return, SetMode
  <2> QED BY <2>1 DEF Modes, UMode, SMode, MMode
<1>2. CASE SRET
  <2>1. HasS /\ mode >= SMode /\ mode' = GetERETMode(status.SPP)
    BY <1>2 DEF SRET, Return, SetMode
  <2>2. GetERETMode(status.SPP) \in {UMode, SMode}
    BY <1>0, <2>1 DEF GetERETMode, MinMode
  <2> QED BY <1>0, <2>1, <2>2 DEF Modes, UMode, SMode, MMode
<1>3. CASE URET
  <2>1. mode' = UMode
    BY <1>3 DEF URET, Return, SetMode
  <2> QED BY <1>0, <2>1 DEF Modes, UMode, SMode, MMode
<1> QED BY <1>1, <1>2, <1>3

\* A trap to mode x disables and stacks the interrupt enable of x and stacks
\* the mode it came from.
LEMMA TrapStacks ==
    ASSUME TypeOK, NEW x \in Modes, TakeException(x)
    PROVE  /\ mode' = x
           /\ ~status'.IE[x] /\ status'.PIE[x] = status.IE[x]
           /\ x = SMode => status'.SPP = mode
           /\ x = MMode => status'.MPP = mode
<1>1. mode' = x /\ status' = TargetModeX(status, x, mode)
  BY DEF TakeException, SetMode
<1> QED BY <1>1 DEF TargetModeX, TypeOK, Status

\* Every trap is taken to a mode by riscvTakeException.
LEMMA TrapTaken ==
    ASSUME TypeOK, FetchInterrupt \/ FetchFault \/ Exception
    PROVE  \E x \in Modes : TakeException(x)
<1>1. \A md, sd, code : GetModeX(md, sd, code, mode) \in Modes
  BY ModeXType DEF TypeOK
<1> QED BY <1>1 DEF FetchInterrupt, FetchFault, Exception

\* Whatever software, the interrupt lines and a debugger do, the mode is raised
\* only by a trap that stacks the state it leaves, or as a reset or NMI ends.
THEOREM RaisedOnlyByTrap == Spec => PrivilegeRaisedByTrap
<1>1. TypeOK /\ [Next]_vars =>
        [mode' > mode =>
           \/ netReset /\ ~netReset'
           \/ netNmi /\ ~netNmi'
           \/ /\ ~status'.IE[mode'] /\ status'.PIE[mode'] = status.IE[mode']
              /\ mode' = SMode => status'.SPP = mode
              /\ mode' = MMode => status'.MPP = mode]_vars
  <2> SUFFICES ASSUME TypeOK, Next, mode' > mode
               PROVE  \/ netReset /\ ~netReset'
                      \/ netNmi /\ ~netNmi'
                      \/ /\ ~status'.IE[mode'] /\ status'.PIE[mode'] = status.IE[mode']
                         /\ mode' = SMode => status'.SPP = mode
                         /\ mode' = MMode => status'.MPP = mode
    OBVIOUS
  <2> USE DEF modeVars
  <2>0. ~(mode > mode)
    BY DEF TypeOK, Modes, UMode, SMode, MMode
  <2>1. CASE FetchInterrupt \/ FetchFault \/ Exception
    BY <2>1, TrapTaken, TrapStacks
  <2>2. CASE FetchOK \/ WFI \/ LR \/ SC
    BY <2>0, <2>2 DEF FetchOK, WFI, LR, SC
  <2>3. CASE MRET \/ SRET \/ URET
    BY <2>3, ReturnNotRaised
  <2>4. CASE CSRWrite
    BY <2>0, <2>4 DEF CSRWrite, StatusW, IeW, IpW, MidelegW, SidelegW, MedelegW, SedelegW,
                      SatpW, SetMode
  <2>5. CASE ResetPort
    BY <2>0, <2>5 DEF ResetPort
  <2>6. CASE NmiPort
    BY <2>0, <2>6 DEF NmiPort
  <2>7. ASSUME NEW j, InterruptPort(j) PROVE mode' = mode
    BY <2>7 DEF InterruptPort
  <2> QED BY <2>0, <2>1, <2>2, <2>3, <2>4, <2>5, <2>6, <2>7 DEF Next, Fetch, Instruction, Signal
<1> QED BY <1>1, TypeCorrect, PTL DEF Spec, PrivilegeRaisedByTrap

\* A reservation ends wherever the mode changes, except by an NMI: an SC never
\* pairs with the LR of another mode through a trap, a return or a reset.
THEOREM ReservationEndsWithMode == Spec => ReservationWithinMode
<1>1. [Next]_vars => [mode' # mode /\ ea' => netNmi /\ ~netNmi']_vars
  <2> SUFFICES ASSUME Next, mode' # mode, ea' PROVE netNmi /\ ~netNmi'
    OBVIOUS
  <2> USE DEF modeVars
  <2>1. ~(FetchInterrupt \/ FetchFault \/ Exception)
    BY DEF FetchInterrupt, FetchFault, Exception, TakeException
  <2>2. ~(FetchOK \/ WFI \/ LR \/ SC)
    BY DEF FetchOK, WFI, LR, SC
  <2>3. ~(MRET \/ SRET \/ URET)
    BY DEF MRET, SRET, URET, Return
  <2>4. ~CSRWrite
    BY DEF CSRWrite, StatusW, IeW, IpW, MidelegW, SidelegW, MedelegW, SedelegW, SatpW, SetMode
  <2>5. ~ResetPort
    BY DEF ResetPort, DoReset
  <2>6. NmiPort => netNmi /\ ~netNmi'
    BY DEF NmiPort
  <2>7. \A j : ~InterruptPort(j)
    BY DEF InterruptPort
  <2> QED BY <2>1, <2>2, <2>3, <2>4, <2>5, <2>6, <2>7 DEF Next, Fetch, Instruction, Signal
<1> QED BY <1>1, PTL DEF Spec, ReservationWithinMode

==============================================================================
