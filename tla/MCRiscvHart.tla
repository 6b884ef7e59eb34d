----------------------------- MODULE MCRiscvHart -----------------------------
(* Instances of RiscvHart for TLC.  Each set of mstatus values is chosen so  *)
(* that the fields a run is about can be set and cleared independently.      *)
EXTENDS RiscvHart

\* IE bits of all modes set in ie, the other fields as in the reset value.
WithIE(ie) == [ResetStatus EXCEPT !.IE = [m \in Modes |-> m \in ie]]

\* The interrupt enables of each mode set alone, of none and of all, with their
\* stacked copies set, and the mode returned to.
InterruptStatusVals ==
    {[WithIE(ie) EXCEPT !.MPP = mpp, !.PIE = [m \in Modes |-> TRUE]] :
        ie \in {{}, {UMode}, {SMode}, {MMode}}, mpp \in {UMode}}

\* Fields that select the data domain and the ASID, the trap bits, and every
\* value of MPP, the unimplemented one included.
DomainStatusVals ==
    {[ResetStatus EXCEPT !.MPP = mpp, !.MPRV = k[1], !.SUM = k[2] = "SUM", !.TVM = k[2] = "traps",
                         !.TSR = k[2] = "traps", !.TW = k[2] = "traps"] :
        mpp \in 0..3,
        k \in {<<TRUE, "none">>, <<TRUE, "SUM">>, <<FALSE, "traps">>}}

\* satp never written, and satp switched between bare and translation.
NoSatpVals == {}
DomainSatpVals == {s \in SATP : s.vm = (s.asid # 0)}

==============================================================================
