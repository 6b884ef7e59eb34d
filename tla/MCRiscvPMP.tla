----------------------------- MODULE MCRiscvPMP ------------------------------
(* Instances of RiscvPMP for TLC: two entries. *)
EXTENDS RiscvPMP

E(mode, l, p) == [mode |-> mode, L |-> l, priv |-> p]

Config(g, bits, elems) ==
    [G |-> g, addrBits |-> bits, elems |-> elems, rewriteLocked |-> FALSE,
     moveTORBase |-> FALSE, debugger |-> FALSE]

\* A byte per mode of an entry, unlocked with and locked without privileges.
SomeElems == {E("OFF", FALSE, {}), E("TOR", FALSE, RWX), E("NA4", FALSE, RWX),
              E("NAPOT", FALSE, RWX), E("TOR", TRUE, {}), E("NAPOT", TRUE, {})}

\* Bytes that tell the grains apart: NA4 is not selectable with a grain.
GrainElems == {E("OFF", FALSE, {}), E("TOR", FALSE, RWX), E("NA4", FALSE, RWX),
               E("NAPOT", FALSE, RWX), E("NAPOT", TRUE, {})}

\* Entries that all grant the same: to change one of them while it is locked
\* leaves no stale privilege.
EqualElems == {E("OFF", FALSE, {}), E("TOR", FALSE, RWX), E("TOR", TRUE, RWX)}

\* Four units without a grain; eight units with a grain of four and a
\* debugger that ignores locks; software that tries to change locked entries.
RunConfigs == {Config(0, 2, SomeElems), [Config(2, 3, GrainElems) EXCEPT !.debugger = TRUE],
               [Config(0, 2, EqualElems) EXCEPT !.rewriteLocked = TRUE]}

\* Software that moves the base of an unlocked TOR entry, and software that tries
\* to change a locked entry which denies what the others grant.
TORBaseConfigs ==
    {[Config(0, 2, {E("OFF", FALSE, {}), E("TOR", FALSE, RWX)}) EXCEPT !.moveTORBase = TRUE]}

LockedRewriteConfigs ==
    {[Config(0, 2, {E("OFF", FALSE, {}), E("NA4", FALSE, RWX), E("NA4", TRUE, {})})
        EXCEPT !.rewriteLocked = TRUE]}

==============================================================================
