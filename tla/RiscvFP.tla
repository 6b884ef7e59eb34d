------------------------------- MODULE RiscvFP -------------------------------
(***************************************************************************)
(* Floating point control: how riscvMorph.c translates floating point      *)
(* instructions into host code for the rounding mode, the extensions and   *)
(* the register contents it knows at translation time, and how the CSRs of *)
(* riscvCSR.c that change those while translated blocks are kept.          *)
(*                                                                         *)
(* A block is a sequence of instructions.  Translating it folds its        *)
(* instructions over the block state (riscvBlockState.h) and yields the    *)
(* host operations with the conditions under which the block may be used   *)
(* again: the features it validated (the block mask) and the top bit of    *)
(* frm.  The simulator's block cache, and its use of those conditions when *)
(* a block is entered, are external.                                       *)
(***************************************************************************)
EXTENDS Integers, Sequences, FiniteSets, Functions

CONSTANTS Regs,         \* floating point registers
          Configs,      \* configurations a processor may be built with
          Programs,     \* blocks of instructions to run
          FSVals,       \* values software writes to mstatus.FS
          MisaVals,     \* values software writes to misa's D and F
          MaxBlocks     \* bound: blocks the simulator keeps

Static == {"RTE", "RTZ", "RDN", "RUP", "RMM"}

\* What info.rm may be: the encodings, NA for instructions without the field.
RMDesc == Static \cup {"NA", "CURRENT", "BAD"}

ASSUME ConfigAssumption ==
    \A c \in Configs : /\ c.arch \in {{"F"}, {"D", "F"}}
                       /\ c.archMask \subseteq c.arch
                       /\ c.fs_always_dirty \in BOOLEAN
                       /\ c.d_requires_f \in BOOLEAN
                       /\ c.frms \subseteq 0 .. 7

VARIABLES cfg,          \* configInfo
          misa,         \* misa's D and F
          FS,           \* mstatus.FS
          frm,          \* fcsr.frm
          currentArch,  \* the enabled ones of D and F
          fpActiveRM,   \* the mode the host is known to be in
          hostRC,       \* the host's rounding control
          boxed,        \* FPRs whose upper half is all ones
          cache,        \* translated blocks
          run,          \* operations of the running block still to execute
          last,         \* what the last instruction did
          unclean       \* an FPR or an FP CSR was written since software wrote FS

vars == <<cfg, misa, FS, frm, currentArch, fpActiveRM, hostRC, boxed, cache,
          run, last, unclean>>

Instructions ==
    [op : {"arith", "minmax", "move", "load", "cvt", "cvtInt", "widen", "cmp", "csr",
            "fflags", "fs"},
     rm : RMDesc, bits : {32, 64}, dst : Regs, src : Regs]

\* An instruction that rounds has the field.
ASSUME ProgramAssumption ==
    \A code \in Programs :
        /\ code \in Seq(Instructions)
        /\ \A k \in DOMAIN code : code[k].op \in {"arith", "cvt", "cvtInt"} => code[k].rm # "NA"

(***************************************************************************)
(* Instructions.  op names the translation function of the dispatch table; *)
(* csr is a write of frm or of fcsr, fflags a write of fflags, fs one of   *)
(* mstatus.                                                                *)
(***************************************************************************)

\* fpRMMCfg: the instructions with an emulation for RMM.
HasRMMCfg == {"arith", "cvt", "cvtInt", "widen"}

WritesF == {"arith", "minmax", "move", "load", "cvt", "widen"}

\* The CSR instructions that require floating point.
FPCSRs == {"csr", "fflags"}

\* The instructions that set mstatus.FS.
UpdatesFS == WritesF \cup FPCSRs

ReadsF == {"arith", "minmax", "move", "cvt", "cvtInt", "widen", "cmp"}

SrcBits(i) == IF i.op = "widen" THEN 32 ELSE IF i.op = "cvt" THEN 64 ELSE i.bits

DstBits(i) == IF i.op = "widen" THEN 64 ELSE IF i.op = "cvt" THEN 32 ELSE i.bits

Feature(bits) == IF bits = 64 THEN "D" ELSE "F"

\* riscvGetVMIReg: the features an instruction's registers require.
Required(i) ==
    (IF i.op \in ReadsF THEN {Feature(SrcBits(i))} ELSE {})
      \cup (IF i.op \in WritesF THEN {Feature(DstBits(i))} ELSE {})

riscvGetFlenArch == IF "D" \in cfg.arch THEN 64 ELSE 32

mapFRMToRC == <<"RTE", "RTZ", "RDN", "RUP", "RMM">>

(***************************************************************************)
(* Translation.                                                            *)
(***************************************************************************)

isRMMActive(i) ==
    /\ i.op \in HasRMMCfg
    /\ i.rm = "RMM" \/ (i.rm = "CURRENT" /\ frm = 4)

\* getFPControl, refineFPCtrl: a widening conversion is never emulated.
Emulated(i) == isRMMActive(i) /\ i.op # "widen"

\* The call emitSetRM makes for this instruction, if any: emitFConvert
\* leaves the mode alone when it passes it to the conversion itself.
WantsRM(i) ==
    CASE i.op \in {"arith", "minmax"} -> TRUE
      [] i.op \in {"cvt", "cvtInt"} -> i.rm = "CURRENT" /\ ~Emulated(i)
      [] OTHER -> FALSE

\* emitCheckLegalRM
LegalRM(i) == i.op \in {"arith", "minmax", "cvt", "cvtInt", "widen"} => i.rm # "BAD"

emitSetRM(i, bs) == WantsRM(i) /\ LegalRM(i) /\ bs.fpActiveRMMT # i.rm

\* The state of a block at its start.
riscvStartBlock ==
    [fpNaNBoxMask |-> {}, fpInstDone |-> cfg.fs_always_dirty, fpActiveRMMT |-> "NA"]

\* Mutant of emitBlockMask: only the features misa can change are validated.
BlockMaskMisaOnly(features) == features \cap cfg.archMask

\* FS can disable D and F even where misa cannot.
emitBlockMask(features) == features \cap (cfg.archMask \cup {"D", "F"})

\* The features whose state the block depends on: a CSR's only if missing.
Validated(i) ==
    IF i.op \in FPCSRs THEN emitBlockMask(IF currentArch = {} THEN {"D", "F"} ELSE {})
    ELSE emitBlockMask(Required(i))

\* riscvRequireArchPresentMT; riscvValidateCSRAccess for fflags, frm, fcsr.
Absent(i) ==
    IF i.op \in FPCSRs THEN currentArch = {}
    ELSE Required(i) \ currentArch # {}

\* riscvGetVMIRegFS: a narrow source not known to be boxed is tested.
BoxTest(i, bs) ==
    /\ i.op \in ReadsF
    /\ riscvGetFlenArch > SrcBits(i)
    /\ i.src \notin bs.fpNaNBoxMask

\* Mutant of updateFS: loads do not set FS.
UpdateFSNotLoads(i, bs) == i.op \in UpdatesFS \ {"load"} /\ ~bs.fpInstDone

\* updateFS: once per block.
updateFS(i, bs) == i.op \in UpdatesFS /\ ~bs.fpInstDone

\* One instruction in block state bs: the host operation.
Operation(i, bs) ==
    [ins |-> i, absent |-> Absent(i), badRM |-> ~LegalRM(i),
     setRM |-> emitSetRM(i, bs), emul |-> Emulated(i),
     boxTest |-> BoxTest(i, bs), setFS |-> updateFS(i, bs)]

\* Mutant of riscvWriteRegSize: a register stays known as boxed when a wide
\* value is written to it.
NaNBoxMaskNeverCleared(i, mask) ==
    IF riscvGetFlenArch > DstBits(i) THEN mask \cup {i.dst} ELSE mask

\* riscvWriteRegSize: the registers known to be boxed after the instruction.
riscvWriteRegSize(i, mask) ==
    IF riscvGetFlenArch > DstBits(i) THEN mask \cup {i.dst} ELSE mask \ {i.dst}

BlockStateAfter(i, bs) ==
    [fpNaNBoxMask |-> IF i.op \in WritesF THEN riscvWriteRegSize(i, bs.fpNaNBoxMask)
                      ELSE bs.fpNaNBoxMask,
     fpInstDone   |-> bs.fpInstDone \/ updateFS(i, bs),
     fpActiveRMMT |-> IF i.op = "csr" THEN "NA"          \* wEndRM: not fflags
                      ELSE IF emitSetRM(i, bs) THEN i.rm ELSE bs.fpActiveRMMT]

\* Mutant of FrmMask: the top bit of frm is not validated.
FrmMaskNever(i, bs) == FALSE

\* vmimtValidateBlockMaskR in emitSetRM.
FrmMask(i, bs) == emitSetRM(i, bs) /\ i.rm = "CURRENT" /\ frm < 4

\* riscvMorph over the block's instructions.
riscvMorph(code) ==
    LET bs[k \in 1 .. Len(code) + 1] ==
            IF k = 1 THEN riscvStartBlock ELSE BlockStateAfter(code[k - 1], bs[k - 1])
        ks == 1 .. Len(code)
        validated == UNION {Validated(code[k]) : k \in ks}
    IN  [code |-> code,
         ops  |-> [k \in ks |-> Operation(code[k], bs[k])],
         mask |-> validated,
         arch |-> validated \cap currentArch,
         frmMsb |-> IF \E k \in ks : FrmMask(code[k], bs[k]) THEN frm \div 4 ELSE -1]

\* The conditions a kept block is entered under.
Usable(b) ==
    /\ b.mask \cap currentArch = b.arch
    /\ b.frmMsb \in {-1, frm \div 4}

(***************************************************************************)
(* Execution.                                                              *)
(***************************************************************************)

Idle == [did |-> "nothing"]

\* A kept block that is usable is run; else the code is translated, and the
\* new translation replaces the one kept, and others when there is no room.
EnterBlock ==
    /\ run = <<>>
    /\ \E code \in Programs :
          LET kept == {b \in cache : b.code = code /\ Usable(b)}
          IN  IF kept # {}
              THEN \E b \in kept : run' = b.ops /\ UNCHANGED cache
              ELSE LET b == riscvMorph(code)
                   IN  /\ run' = b.ops
                       /\ \E keep \in SUBSET {c \in cache : c.code # code} :
                             /\ Cardinality(keep) < MaxBlocks
                             /\ cache' = keep \cup {b}
    /\ UNCHANGED <<cfg, misa, FS, frm, currentArch, fpActiveRM, hostRC, boxed,
                   last, unclean>>

\* setFPCW: the host has no mode for RMM.
setFPCW(rc) == IF rc = "RMM" THEN hostRC ELSE rc

\* refreshFPCW, called when fpActiveRM is not the wanted mode: the host's
\* new control, or a trap.  An instruction without a mode leaves it unknown.
Refreshes(o) == o.setRM /\ fpActiveRM # o.ins.rm

BadFRM(o) == Refreshes(o) /\ o.ins.rm = "CURRENT" /\ frm >= 5

refreshFPCW(rm) ==
    CASE rm = "CURRENT" -> setFPCW(mapFRMToRC[frm + 1])
      [] rm = "NA" -> "UNKNOWN"
      [] OTHER -> setFPCW(rm)

\* beforeFPInt: the mode of an emulated operation; outside the table when frm
\* is invalid.
SoftRM(rm) ==
    IF rm # "CURRENT" THEN rm ELSE IF frm < 5 THEN mapFRMToRC[frm + 1] ELSE "UNKNOWN"

\* The mode the operation's result is rounded in.
RoundedIn(o, rc, active) ==
    CASE o.ins.op = "arith" -> IF o.emul THEN SoftRM(active) ELSE rc
      [] o.ins.op \in {"cvt", "cvtInt"} ->
            IF o.ins.rm # "CURRENT" THEN o.ins.rm
            ELSE IF o.emul THEN SoftRM("CURRENT") ELSE rc
      [] OTHER -> "exact"

\* What a narrow source is read as.
ReadAs(o) ==
    IF o.ins.op \notin ReadsF \/ riscvGetFlenArch = SrcBits(o.ins) THEN "value"
    ELSE IF o.boxTest /\ o.ins.src \notin boxed THEN "QNaN" ELSE "value"

Trap(o) ==
    /\ run # <<>> /\ o = Head(run)
    /\ o.absent \/ o.badRM \/ BadFRM(o)
    /\ last' = [did |-> "trap", ins |-> o.ins]
    /\ run' = <<>>
    /\ UNCHANGED <<cfg, misa, FS, frm, currentArch, fpActiveRM, hostRC, boxed,
                   cache, unclean>>

\* A floating point instruction completes.
Execute(o) ==
    /\ run # <<>> /\ o = Head(run)
    /\ ~o.absent /\ ~o.badRM /\ ~BadFRM(o)
    /\ o.ins.op \notin FPCSRs \cup {"fs"}
    /\ LET rc     == IF Refreshes(o) THEN refreshFPCW(o.ins.rm) ELSE hostRC
           active == IF Refreshes(o) THEN o.ins.rm ELSE fpActiveRM
       IN  /\ hostRC' = rc
           /\ fpActiveRM' = active
           /\ last' = [did |-> "done", ins |-> o.ins, rounded |-> RoundedIn(o, rc, active),
                       readBoxed |-> o.ins.op \in ReadsF => o.ins.src \in boxed,
                       readAs |-> ReadAs(o)]
    /\ IF o.ins.op \in WritesF
       THEN /\ boxed' = IF riscvGetFlenArch > DstBits(o.ins) THEN boxed \cup {o.ins.dst}
                        ELSE boxed \ {o.ins.dst}
            /\ unclean' = TRUE
       ELSE UNCHANGED <<boxed, unclean>>
    /\ FS' = IF o.setFS THEN 3 ELSE FS
    /\ run' = Tail(run)
    /\ UNCHANGED <<cfg, misa, frm, currentArch, cache>>

\* riscvSetCurrentArch
riscvSetCurrentArch(m, fs) == IF fs = 0 THEN {} ELSE m

\* Mutant of refreshFPCR: the host is believed to be in the new mode.
RefreshFPCRNever(new) == fpActiveRM

\* refreshFPCR: the known mode after a write of frm.
refreshFPCR(new) == IF new # frm /\ fpActiveRM = "CURRENT" THEN "NA" ELSE fpActiveRM

\* emitCSRRCommon with frmW or fcsrW, which end the block.
WriteFCSR(o) ==
    /\ run # <<>> /\ o = Head(run)
    /\ ~o.absent /\ o.ins.op = "csr"
    /\ \E new \in cfg.frms \cup {frm} :
          /\ frm' = new
          /\ fpActiveRM' = refreshFPCR(new)
    /\ FS' = IF o.setFS THEN 3 ELSE FS
    /\ last' = [did |-> "csr", ins |-> o.ins]
    /\ unclean' = TRUE
    /\ run' = <<>>
    /\ UNCHANGED <<cfg, misa, currentArch, hostRC, boxed, cache>>

\* emitCSRRCommon with fflagsW, after which the block goes on: neither frm nor
\* what is known of the host's mode changes.
WriteFFlags(o) ==
    /\ run # <<>> /\ o = Head(run)
    /\ ~o.absent /\ o.ins.op = "fflags"
    /\ FS' = IF o.setFS THEN 3 ELSE FS
    /\ last' = [did |-> "csr", ins |-> o.ins]
    /\ unclean' = TRUE
    /\ run' = Tail(run)
    /\ UNCHANGED <<cfg, misa, frm, currentArch, fpActiveRM, hostRC, boxed, cache>>

\* statusW: FS from an instruction in a block, which goes on with the next
\* instruction unless the enabled features, the block mask, have changed.
WriteFS(o) ==
    /\ run # <<>> /\ o = Head(run)
    /\ o.ins.op = "fs"
    /\ \E fs \in FSVals :
          /\ FS' = fs
          /\ currentArch' = riscvSetCurrentArch(misa, fs)
          /\ run' = IF currentArch' # currentArch THEN <<>> ELSE Tail(run)
    /\ last' = [did |-> "fs", ins |-> o.ins]
    /\ unclean' = FALSE
    /\ UNCHANGED <<cfg, misa, frm, fpActiveRM, hostRC, boxed, cache>>

\* statusR: reading mstatus turns an enabled FS into dirty when it is
\* configured always to be.
statusR ==
    /\ run = <<>>
    /\ FS \in {1, 2} /\ cfg.fs_always_dirty
    /\ FS' = 3
    /\ last' = Idle
    /\ UNCHANGED <<cfg, misa, frm, currentArch, fpActiveRM, hostRC, boxed, cache,
                   run, unclean>>

\* misaW: D requires F, or the read-only one follows the writable one.
misaW ==
    /\ run = <<>>
    /\ \E v \in MisaVals :
          LET new == (v \cap cfg.archMask) \cup (misa \ cfg.archMask)
              writable == IF cfg.arch = {"D", "F"} THEN cfg.archMask ELSE {}
          IN  misa' = CASE writable = {"D", "F"} ->
                              IF cfg.d_requires_f /\ "F" \notin new THEN new \ {"D"} ELSE new
                        [] writable = {"D"} ->
                              IF "D" \in new THEN new \cup {"F"} ELSE new \ {"F"}
                        [] writable = {"F"} ->
                              IF "F" \in new THEN new \cup {"D"} ELSE new \ {"D"}
                        [] OTHER -> new
    /\ currentArch' = riscvSetCurrentArch(misa', FS)
    /\ last' = Idle
    /\ UNCHANGED <<cfg, FS, frm, fpActiveRM, hostRC, boxed, cache, run, unclean>>

\* riscvCSRReset: misa and mstatus take their reset values, fcsr does not.
riscvCSRReset ==
    /\ run = <<>>
    /\ misa' = cfg.arch
    /\ FS' = 0
    /\ currentArch' = riscvSetCurrentArch(misa', FS')
    /\ last' = Idle
    /\ unclean' = FALSE
    /\ UNCHANGED <<cfg, frm, fpActiveRM, hostRC, boxed, cache, run>>

Init ==
    /\ cfg \in Configs
    /\ misa = cfg.arch /\ FS = 0 /\ currentArch = {}
    /\ frm = 0 /\ fpActiveRM = "NA" /\ hostRC = "RTE"
    /\ boxed = {} /\ cache = {} /\ run = <<>> /\ last = Idle /\ unclean = FALSE

Next ==
    \/ EnterBlock
    \/ \E o \in Range(run) : Trap(o) \/ Execute(o) \/ WriteFCSR(o) \/ WriteFFlags(o)
                               \/ WriteFS(o)
    \/ statusR
    \/ misaW
    \/ riscvCSRReset

Spec == Init /\ [][Next]_vars

(***************************************************************************)
(* Properties.                                                             *)
(***************************************************************************)

\* emitSetRM, isRMMActive and refreshFPCR together: an instruction that
\* completes has rounded in the mode its encoding or the current frm asks
\* for, whatever was in force when its block was translated.
RoundingCorrect ==
    last.did = "done" /\ last.rounded # "exact" =>
        last.rounded = IF last.ins.rm = "CURRENT"
                       THEN IF frm < 5 THEN mapFRMToRC[frm + 1] ELSE "none"
                       ELSE last.ins.rm

\* emitBlockMask: no kept block executes a floating point instruction after
\* misa or FS has disabled its registers, nor traps one they enable; and misaW
\* never leaves D enabled without F when the configuration ties them.
EnabledRespected ==
    /\ "D" \in misa => "F" \in misa \/ (cfg.archMask = {"D", "F"} /\ ~cfg.d_requires_f)
    /\ last.did = "done" => Required(last.ins) \subseteq currentArch
    /\ last.did = "trap" /\ last.ins.op \notin FPCSRs =>
          \/ ~(Required(last.ins) \subseteq currentArch)
          \/ last.ins.rm = "BAD"
          \/ last.ins.rm = "CURRENT" /\ frm >= 5

\* riscvGetVMIRegFS: a single read from a register that holds no boxed single
\* is the default NaN, also when the block thinks it knows the register.
BoxRespected ==
    last.did = "done" /\ last.ins.op \in ReadsF /\ SrcBits(last.ins) < riscvGetFlenArch
        => (last.readAs = "value" <=> last.readBoxed)

\* updateFS: registers, and floating point CSRs, written since software wrote
\* FS leave FS dirty, so a context switch that trusts it saves them.  It holds
\* for programs in which no block writes FS between two instructions that set
\* it, a write of fflags among them.
FSDirty == unclean => FS = 3 \/ cfg.fs_always_dirty

\* The host is in the mode fpActiveRM says, RMM having none.
ControlWordCurrent ==
    /\ fpActiveRM \in Static \ {"RMM"} => hostRC = fpActiveRM
    /\ fpActiveRM = "CURRENT" /\ frm < 4 => hostRC = mapFRMToRC[frm + 1]
    /\ fpActiveRM = "CURRENT" => frm < 5

\* riscvValidateCSRAccess ("Validate CSR with the given index can be accessed
\* for read or write in the current processor mode"): fflags, frm and fcsr
\* are not accessed while floating point is disabled.
FPCSRChecked == last.did = "csr" => currentArch # {}

=============================================================================
