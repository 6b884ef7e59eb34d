---------------------------- MODULE RiscvFPProofs ----------------------------
(***************************************************************************)
(* Theorems about RiscvFP, for every configuration, every program and any  *)
(* number of blocks that the simulator keeps.                              *)
(***************************************************************************)
EXTENDS RiscvFP, IterationTheorems, SequenceTheorems

------------------------------------------------------------------------------
(* The invariant *)

BlockStates == [fpNaNBoxMask : SUBSET Regs, fpInstDone : BOOLEAN, fpActiveRMMT : RMDesc]

Operations == [ins : Instructions, absent : BOOLEAN, badRM : BOOLEAN, setRM : BOOLEAN,
               emul : BOOLEAN, boxTest : BOOLEAN, setFS : BOOLEAN]

Rounds == {"arith", "cvt", "cvtInt"}

\* The current mode is emulated, or left to the host.
EmulatedCurrent(n, o) == n.op \in Rounds /\ n.rm = "CURRENT" /\ o.emul
HostCurrent(n, o) == n.op \in Rounds /\ n.rm = "CURRENT" /\ ~o.emul

\* The mode the host must be in for instruction n.
NeedsMode(n, o) == (n.op \in {"arith", "minmax"} /\ n.rm # "BAD") \/ HostCurrent(n, o)

\* Operation o is what instruction n was once translated to in block state x,
\* and y the block state after it.
Translated(n, o, x, y) ==
    /\ o.ins = n
    /\ o.badRM <=> ~LegalRM(n)
    /\ o.boxTest <=> BoxTest(n, x)
    /\ o.setFS <=> updateFS(n, x)
    /\ o.setRM => n.op \in {"arith", "minmax", "cvt", "cvtInt"} /\ n.rm # "BAD"
    /\ NeedsMode(n, o) => (o.setRM <=> x.fpActiveRMMT # n.rm)
    /\ o.emul => n.rm \in {"RMM", "CURRENT"}
    /\ n.op \in Rounds /\ n.rm = "RMM" => o.emul
    /\ EmulatedCurrent(n, o) => 4 \in cfg.frms
    /\ y.fpNaNBoxMask = IF n.op \in WritesF THEN riscvWriteRegSize(n, x.fpNaNBoxMask) ELSE x.fpNaNBoxMask
    /\ y.fpInstDone <=> x.fpInstDone \/ o.setFS
    /\ y.fpActiveRMMT = IF n.op = "csr" THEN "NA" ELSE IF o.setRM THEN n.rm ELSE x.fpActiveRMMT

\* What block b validates is what operation o for instruction n depends on.
ValidatedBy(b, n, o) ==
    /\ n.op \notin FPCSRs =>
          /\ Required(n) \subseteq b.mask
          /\ o.absent <=> ~(Required(n) \subseteq b.arch)
    /\ HostCurrent(n, o) => b.frmMsb = 0 \/ \E m \in cfg.frms : m >= 5

\* Block b was translated with block states bs.
IsBlock(b, bs) ==
    /\ b.code \in Programs /\ b.ops \in Seq(Operations) /\ Len(b.ops) = Len(b.code)
    /\ bs \in [1..(Len(b.code) + 1) -> BlockStates]
    /\ bs[1].fpNaNBoxMask = {} /\ bs[1].fpActiveRMMT = "NA"
    /\ bs[1].fpInstDone <=> cfg.fs_always_dirty
    /\ \A k \in 1..Len(b.code) : /\ Translated(b.code[k], b.ops[k], bs[k], bs[k + 1])
                                 /\ ValidatedBy(b, b.code[k], b.ops[k])

\* No block writes FS between two of its instructions that set it.
OrderlyPrograms ==
    \A code \in Programs : \A j, k, l \in DOMAIN code :
        j < k /\ k < l /\ code[j].op \in UpdatesFS /\ code[k].op = "fs" => code[l].op \notin UpdatesFS

\* Software that uses the mode RMM does not also write reserved values to frm.
RepresentableModes == \A c \in Configs : 4 \in c.frms => \A m \in c.frms : m < 5

------------------------------------------------------------------------------
(* Translation *)

LEMMA ConfigFacts ==
    ASSUME cfg \in Configs
    PROVE  /\ cfg.arch \in {{"F"}, {"D", "F"}} /\ cfg.archMask \subseteq cfg.arch
           /\ cfg.fs_always_dirty \in BOOLEAN /\ cfg.d_requires_f \in BOOLEAN
           /\ \A m \in cfg.frms : m \in 0..7
           /\ riscvGetFlenArch \in {32, 64}
  BY ConfigAssumption DEF riscvGetFlenArch

LEMMA ProgramFacts ==
    ASSUME NEW code \in Programs
    PROVE  /\ code \in Seq(Instructions) /\ Len(code) \in Nat /\ DOMAIN code = 1..Len(code)
           /\ \A k \in 1..Len(code) : /\ code[k] \in Instructions
                                      /\ code[k].op \in Rounds => code[k].rm # "NA"
<1>1. code \in Seq(Instructions) /\ \A k \in DOMAIN code : code[k].op \in Rounds => code[k].rm # "NA"
  BY ProgramAssumption DEF Rounds
<1> QED BY <1>1, LenProperties

LEMMA OperationType ==
    ASSUME cfg \in Configs, NEW n \in Instructions, NEW x \in BlockStates
    PROVE  Operation(n, x) \in Operations
<1>1. Absent(n) \in BOOLEAN /\ (~LegalRM(n)) \in BOOLEAN /\ Emulated(n) \in BOOLEAN
  BY DEF Absent, LegalRM, Emulated
<1>2. emitSetRM(n, x) \in BOOLEAN /\ BoxTest(n, x) \in BOOLEAN /\ updateFS(n, x) \in BOOLEAN
  BY DEF emitSetRM, BoxTest, updateFS
<1> QED BY <1>1, <1>2 DEF Operation, Operations

LEMMA BlockStateType ==
    ASSUME cfg \in Configs
    PROVE  /\ riscvStartBlock \in BlockStates
           /\ \A n \in Instructions, x \in BlockStates : BlockStateAfter(n, x) \in BlockStates
<1>1. riscvStartBlock \in BlockStates
  BY ConfigFacts DEF riscvStartBlock, BlockStates, RMDesc
<1>2. ASSUME NEW n \in Instructions, NEW x \in BlockStates PROVE BlockStateAfter(n, x) \in BlockStates
  <2>1. n.rm \in RMDesc /\ n.dst \in Regs
    BY DEF Instructions
  <2>2. x.fpNaNBoxMask \in SUBSET Regs /\ x.fpInstDone \in BOOLEAN /\ x.fpActiveRMMT \in RMDesc
    BY DEF BlockStates
  <2>3. (IF n.op \in WritesF THEN riscvWriteRegSize(n, x.fpNaNBoxMask) ELSE x.fpNaNBoxMask) \in SUBSET Regs
    BY <2>1, <2>2 DEF riscvWriteRegSize
  <2>4. (x.fpInstDone \/ updateFS(n, x)) \in BOOLEAN
    BY DEF updateFS
  <2>5. (IF n.op = "csr" THEN "NA" ELSE IF emitSetRM(n, x) THEN n.rm ELSE x.fpActiveRMMT) \in RMDesc
    BY <2>1, <2>2 DEF RMDesc
  <2> QED BY <2>3, <2>4, <2>5 DEF BlockStateAfter, BlockStates
<1> QED BY <1>1, <1>2

\* The block states that riscvMorph folds over the code.
IsFold(code, bs) ==
    /\ bs \in [1..(Len(code) + 1) -> BlockStates] /\ bs[1] = riscvStartBlock
    /\ \A k \in 1..Len(code) : bs[k + 1] = BlockStateAfter(code[k], bs[k])

\* The block that those states make of it.
Made(code, bs, b) ==
    LET validated == UNION {Validated(code[k]) : k \in 1..Len(code)} IN
    /\ b.code = code
    /\ b.ops = [k \in 1..Len(code) |-> Operation(code[k], bs[k])]
    /\ b.mask = validated /\ b.arch = validated \cap currentArch
    /\ b.frmMsb = IF \E k \in 1..Len(code) : FrmMask(code[k], bs[k]) THEN frm \div 4 ELSE -1

LEMMA MorphFolds ==
    ASSUME cfg \in Configs, NEW code \in Programs
    PROVE  \E bs : IsFold(code, bs) /\ Made(code, bs, riscvMorph(code))
<1> DEFINE n == Len(code)
           bs[k \in 1..(n + 1)] == IF k = 1 THEN riscvStartBlock ELSE BlockStateAfter(code[k - 1], bs[k - 1])
           F == [k \in 1..n |-> [x \in BlockStates |-> BlockStateAfter(code[k], x)]]
           s == riscvStartBlock
<1>1. n \in Nat /\ \A k \in 1..n : code[k] \in Instructions
  BY ProgramFacts
<1>2. s \in BlockStates /\ F \in Bodies(n, BlockStates)
  BY <1>1, BlockStateType DEF Bodies
<1>3. Made(code, bs, riscvMorph(code))
  BY DEF Made, riscvMorph
<1> HIDE DEF n, s
<1>4. PICK f : IsLoop(f, n, BlockStates, s, F)
  <2> HIDE DEF F
  <2> QED BY <1>1, <1>2, LoopExists
<1> DEFINE g == [k \in 1..(n + 1) |-> f[k - 1]]
<1>5. g = [k \in 1..(n + 1) |-> IF k = 1 THEN riscvStartBlock ELSE BlockStateAfter(code[k - 1], g[k - 1])]
  <2>1. ASSUME NEW k \in 1..(n + 1) PROVE g[k] = IF k = 1 THEN riscvStartBlock ELSE BlockStateAfter(code[k - 1], g[k - 1])
    <3>1. CASE k = 1
      BY <1>4, <3>1 DEF IsLoop, s
    <3>2. CASE k # 1
      <4>1. k - 1 \in 1..n /\ k - 1 \in 1..(n + 1) /\ (k - 1) - 1 \in 0..n
        BY <1>1, <3>2
      <4>2. f[k - 1] = F[k - 1][f[(k - 1) - 1]] /\ f[(k - 1) - 1] \in BlockStates
        BY <1>4, <4>1 DEF IsLoop
      <4>3. g[k - 1] = f[(k - 1) - 1] /\ g[k] = f[k - 1]
        BY <4>1
      <4>4. F[k - 1][f[(k - 1) - 1]] = BlockStateAfter(code[k - 1], f[(k - 1) - 1])
        BY <4>1, <4>2
      <4> QED BY <3>2, <4>2, <4>3, <4>4
    <3> QED BY <3>1, <3>2
  <2>2. g = [k \in 1..(n + 1) |-> g[k]]
    OBVIOUS
  <2> HIDE DEF g
  <2> QED BY <2>1, <2>2
<1>6. bs = [k \in 1..(n + 1) |-> IF k = 1 THEN riscvStartBlock ELSE BlockStateAfter(code[k - 1], bs[k - 1])]
  BY <1>5
<1> HIDE DEF F, g, bs
<1>7. ASSUME NEW k \in 1..(n + 1) PROVE bs[k] = IF k = 1 THEN riscvStartBlock ELSE BlockStateAfter(code[k - 1], bs[k - 1])
  BY <1>6, Zenon
<1>8. DOMAIN bs = 1..(n + 1) /\ bs = [k \in 1..(n + 1) |-> bs[k]]
  BY <1>6
<1>9. bs[1] = riscvStartBlock
  BY <1>1, <1>7
<1>10. ASSUME NEW k \in 1..n PROVE bs[k + 1] = BlockStateAfter(code[k], bs[k])
  <2>1. k + 1 \in 1..(n + 1) /\ k + 1 # 1 /\ (k + 1) - 1 = k
    BY <1>1
  <2>2. bs[k + 1] = BlockStateAfter(code[(k + 1) - 1], bs[(k + 1) - 1])
    BY <1>7, <2>1
  <2> QED BY <2>1, <2>2
<1>11. \A k \in 1..(n + 1) : bs[k] \in BlockStates
  <2> DEFINE G == {k \in 0..n : bs[k + 1] \in BlockStates}
  <2>1. 0 \in G
    BY <1>1, <1>2, <1>9 DEF s
  <2>2. ASSUME NEW k \in 1..n, k - 1 \in G PROVE k \in G
    <3>1. k \in 0..n /\ (k - 1) + 1 = k /\ bs[k] \in BlockStates
      BY <1>1, <2>2
    <3>2. bs[k + 1] \in BlockStates
      BY <1>1, <1>10, <3>1, BlockStateType
    <3> QED BY <3>1, <3>2
  <2> HIDE DEF G
  <2>3. \A k \in 0..n : k \in G
    BY <1>1, <2>1, <2>2, LoopInduction
  <2>4. ASSUME NEW k \in 1..(n + 1) PROVE bs[k] \in BlockStates
    <3>1. k - 1 \in 0..n /\ (k - 1) + 1 = k
      BY <1>1
    <3>2. bs[(k - 1) + 1] \in BlockStates
      BY <2>3, <3>1 DEF G
    <3> QED BY <3>1, <3>2
  <2> QED BY <2>4
<1>12. bs \in [1..(n + 1) -> BlockStates]
  BY <1>8, <1>11
<1>13. IsFold(code, bs)
  BY <1>9, <1>10, <1>12 DEF IsFold, n
<1> QED BY <1>3, <1>13

LEMMA OperationTranslates ==
    ASSUME cfg \in Configs, frm \in cfg.frms \cup {0}, NEW n \in Instructions, NEW x \in BlockStates
    PROVE  /\ Translated(n, Operation(n, x), x, BlockStateAfter(n, x))
           /\ HostCurrent(n, Operation(n, x)) => frm < 4 \/ (frm >= 5 /\ frm \in cfg.frms)
<1> DEFINE o == Operation(n, x)
           y == BlockStateAfter(n, x)
<1>1. /\ o.ins = n /\ o.badRM = ~LegalRM(n) /\ o.boxTest = BoxTest(n, x) /\ o.setFS = updateFS(n, x)
      /\ o.setRM = emitSetRM(n, x) /\ o.emul = Emulated(n)
  BY DEF Operation
<1>2. /\ y.fpNaNBoxMask = IF n.op \in WritesF THEN riscvWriteRegSize(n, x.fpNaNBoxMask) ELSE x.fpNaNBoxMask
      /\ y.fpInstDone = (x.fpInstDone \/ updateFS(n, x))
      /\ y.fpActiveRMMT = IF n.op = "csr" THEN "NA" ELSE IF emitSetRM(n, x) THEN n.rm ELSE x.fpActiveRMMT
  BY DEF BlockStateAfter
<1> HIDE DEF o, y
<1>3. o.setRM => n.op \in {"arith", "minmax", "cvt", "cvtInt"} /\ n.rm # "BAD"
  BY <1>1 DEF emitSetRM, WantsRM, LegalRM
<1>4. NeedsMode(n, o) => (o.setRM <=> x.fpActiveRMMT # n.rm)
  BY <1>1 DEF NeedsMode, HostCurrent, Rounds, emitSetRM, WantsRM, LegalRM
<1>5. o.emul => n.rm \in {"RMM", "CURRENT"}
  BY <1>1 DEF Emulated, isRMMActive
<1>6. n.op \in Rounds /\ n.rm = "RMM" => o.emul
  BY <1>1 DEF Emulated, isRMMActive, Rounds, HasRMMCfg
<1>7. EmulatedCurrent(n, o) => 4 \in cfg.frms
  <2>1. EmulatedCurrent(n, o) => Emulated(n) /\ n.rm = "CURRENT"
    BY <1>1 DEF EmulatedCurrent
  <2>2. Emulated(n) /\ n.rm = "CURRENT" => frm = 4
    BY DEF Emulated, isRMMActive
  <2>3. frm = 4 => 4 \in cfg.frms
    OBVIOUS
  <2> QED BY <2>1, <2>2, <2>3
<1>8. HostCurrent(n, o) => frm # 4
  BY <1>1 DEF HostCurrent, Emulated, isRMMActive, Rounds, HasRMMCfg
<1>9. frm \in 0..7 /\ (frm >= 5 => frm \in cfg.frms)
  BY ConfigFacts
<1>10. HostCurrent(n, o) => frm < 4 \/ (frm >= 5 /\ frm \in cfg.frms)
  BY <1>8, <1>9
<1>11. o.badRM <=> ~LegalRM(n)
  BY <1>1
<1>12. (o.boxTest <=> BoxTest(n, x)) /\ (o.setFS <=> updateFS(n, x))
  BY <1>1
<1>13. y.fpInstDone <=> x.fpInstDone \/ o.setFS
  BY <1>1, <1>2
<1>14. y.fpActiveRMMT = IF n.op = "csr" THEN "NA" ELSE IF o.setRM THEN n.rm ELSE x.fpActiveRMMT
  BY <1>1, <1>2
<1>15. Translated(n, o, x, y)
  BY <1>1, <1>2, <1>3, <1>4, <1>5, <1>6, <1>7, <1>11, <1>12, <1>13, <1>14 DEF Translated
<1> QED BY <1>10, <1>15 DEF o, y

\* A translation has the properties of a block and may be used at once.
LEMMA MorphBlock ==
    ASSUME cfg \in Configs, frm \in cfg.frms \cup {0}, NEW code \in Programs
    PROVE  /\ Usable(riscvMorph(code))
           /\ \E bs : IsBlock(riscvMorph(code), bs)
<1> DEFINE b == riscvMorph(code)
           n == Len(code)
<1>1. PICK bs : IsFold(code, bs) /\ Made(code, bs, b)
  BY MorphFolds
<1>2. n \in Nat /\ \A k \in 1..n : code[k] \in Instructions
  BY ProgramFacts
<1>3. /\ b.code = code /\ b.ops = [k \in 1..n |-> Operation(code[k], bs[k])]
      /\ b.arch = b.mask \cap currentArch
      /\ \A k \in 1..n : Validated(code[k]) \subseteq b.mask
      /\ b.frmMsb = IF \E k \in 1..n : FrmMask(code[k], bs[k]) THEN frm \div 4 ELSE -1
  BY <1>1 DEF Made
<1>4. /\ bs \in [1..(n + 1) -> BlockStates] /\ bs[1] = riscvStartBlock
      /\ \A k \in 1..n : bs[k + 1] = BlockStateAfter(code[k], bs[k])
  BY <1>1 DEF IsFold
<1>5. \A k \in 1..n : k \in 1..(n + 1) /\ k + 1 \in 1..(n + 1)
  BY <1>2
<1> HIDE DEF b, n
<1>6. Usable(b)
  BY <1>3 DEF Usable
<1>7. b.ops \in Seq(Operations) /\ Len(b.ops) = n
  <2>1. \A k \in 1..n : Operation(code[k], bs[k]) \in Operations
    BY <1>2, <1>4, <1>5, OperationType
  <2>2. b.ops \in [1..n -> Operations]
    BY <1>3, <2>1
  <2> QED BY <1>2, <2>2
<1>8. frm \in 0..7
  BY ConfigFacts
<1>9. ASSUME NEW k \in 1..n, HostCurrent(code[k], b.ops[k])
      PROVE  b.frmMsb = 0 \/ \E m \in cfg.frms : m >= 5
  <2>1. /\ HostCurrent(code[k], Operation(code[k], bs[k])) /\ code[k] \in Instructions /\ bs[k] \in BlockStates
    BY <1>2, <1>3, <1>4, <1>5, <1>9
  <2>2. frm < 4 \/ (frm >= 5 /\ frm \in cfg.frms)
    BY <2>1, OperationTranslates
  <2> SUFFICES ASSUME frm < 4 PROVE b.frmMsb = 0
    BY <2>2
  <2> DEFINE Sets(j) == emitSetRM(code[j], bs[j]) /\ code[j].rm = "CURRENT"
             G == {j \in 0..n : bs[j + 1].fpActiveRMMT = "CURRENT" => \E l \in 1..n : Sets(l)}
  <2>3. 0 \in G
    BY <1>2, <1>4 DEF riscvStartBlock
  <2>4. ASSUME NEW j \in 1..n, j - 1 \in G PROVE j \in G
    <3>1. bs[j].fpActiveRMMT = "CURRENT" => \E l \in 1..n : Sets(l)
      <4>1. (j - 1) + 1 = j
        OBVIOUS
      <4> QED BY <2>4, <4>1
    <3>2. bs[j + 1].fpActiveRMMT = IF code[j].op = "csr" THEN "NA"
                                   ELSE IF emitSetRM(code[j], bs[j]) THEN code[j].rm ELSE bs[j].fpActiveRMMT
      <4>1. bs[j + 1] = BlockStateAfter(code[j], bs[j])
        BY <1>4
      <4> QED BY <4>1 DEF BlockStateAfter
    <3>3. bs[j + 1].fpActiveRMMT = "CURRENT" => \E l \in 1..n : Sets(l)
      BY <3>1, <3>2
    <3> QED BY <1>2, <3>3
  <2> HIDE DEF G
  <2>5. \A j \in 0..n : j \in G
    BY <1>2, <2>3, <2>4, LoopInduction
  <2>6. bs[k].fpActiveRMMT = "CURRENT" => \E l \in 1..n : Sets(l)
    <3>1. k - 1 \in 0..n /\ (k - 1) + 1 = k
      BY <1>2
    <3>2. bs[(k - 1) + 1].fpActiveRMMT = "CURRENT" => \E l \in 1..n : Sets(l)
      BY <2>5, <3>1 DEF G
    <3> QED BY <3>1, <3>2
  <2>7. bs[k].fpActiveRMMT # "CURRENT" => Sets(k)
    BY <2>1 DEF HostCurrent, Rounds, Operation, emitSetRM, WantsRM, LegalRM
  <2>8. PICK l \in 1..n : Sets(l)
    BY <2>6, <2>7
  <2>9. FrmMask(code[l], bs[l])
    BY <2>8 DEF FrmMask
  <2>10. frm \div 4 = 0
    BY <1>8
  <2> QED BY <1>3, <2>9, <2>10
<1>10. ASSUME NEW k \in 1..n
       PROVE  Translated(code[k], b.ops[k], bs[k], bs[k + 1]) /\ ValidatedBy(b, code[k], b.ops[k])
  <2>1. b.ops[k] = Operation(code[k], bs[k]) /\ bs[k + 1] = BlockStateAfter(code[k], bs[k])
        /\ code[k] \in Instructions /\ bs[k] \in BlockStates
    BY <1>2, <1>3, <1>4, <1>5
  <2>2. Translated(code[k], b.ops[k], bs[k], bs[k + 1])
    BY <2>1, OperationTranslates
  <2>3. ASSUME code[k].op \notin FPCSRs
        PROVE  Required(code[k]) \subseteq b.mask /\ (b.ops[k].absent <=> ~(Required(code[k]) \subseteq b.arch))
    <3>1. Required(code[k]) \subseteq {"D", "F"}
      BY DEF Required, Feature
    <3>2. Required(code[k]) \subseteq b.mask
      BY <1>3, <2>3, <3>1 DEF Validated, emitBlockMask
    <3>3. b.ops[k].absent <=> Required(code[k]) \ currentArch # {}
      <4>1. Operation(code[k], bs[k]).absent = Absent(code[k])
        BY DEF Operation
      <4>2. Absent(code[k]) <=> Required(code[k]) \ currentArch # {}
        BY <2>3 DEF Absent
      <4> QED BY <2>1, <4>1, <4>2
    <3> QED BY <1>3, <3>2, <3>3
  <2> QED BY <1>9, <2>2, <2>3 DEF ValidatedBy
<1>11. bs[1].fpNaNBoxMask = {} /\ bs[1].fpActiveRMMT = "NA" /\ bs[1].fpInstDone = cfg.fs_always_dirty
  BY <1>4 DEF riscvStartBlock
<1>12. IsBlock(b, bs)
  BY <1>3, <1>4, <1>7, <1>10, <1>11 DEF IsBlock, n
<1> QED BY <1>6, <1>12 DEF b


\* The parts of a block's translation depend on the configuration alone.
LEMMA SameBlock ==
    ASSUME cfg' = cfg
    PROVE  \A b, bs : IsBlock(b, bs) <=> IsBlock(b, bs)'
<1>1. \A n, o, x, y : Translated(n, o, x, y) <=> Translated(n, o, x, y)'
  BY DEF Translated, BoxTest, riscvWriteRegSize, riscvGetFlenArch, EmulatedCurrent, NeedsMode, HostCurrent,
         updateFS, LegalRM
<1>2. \A b, n, o : ValidatedBy(b, n, o) <=> ValidatedBy(b, n, o)'
  BY DEF ValidatedBy, HostCurrent, Required
<1> QED BY <1>1, <1>2 DEF IsBlock

------------------------------------------------------------------------------
(* The running block *)

\* What is left to run is block b from its instruction k on, ...
At(b, bs, k) ==
    /\ IsBlock(b, bs) /\ Usable(b)
    /\ k \in 1..Len(b.code)
    /\ Len(run) = Len(b.code) - k + 1
    /\ \A n \in 1..Len(run) : run[n] = b.ops[k + n - 1]

\* ... and what the translation took for granted there is so: the registers
\* known to be boxed are, the host is in the known mode, ...
Granted(bs, k) ==
    /\ bs[k].fpNaNBoxMask \subseteq boxed
    /\ bs[k].fpActiveRMMT # "NA" => fpActiveRM = bs[k].fpActiveRMMT

\* ... and FS is dirty when an earlier instruction of the block has set it.
FSGranted(b, bs, k) ==
    bs[k].fpInstDone =>
        \/ cfg.fs_always_dirty
        \/ /\ \E j \in 1..(k - 1) : b.code[j].op \in UpdatesFS
           /\ OrderlyPrograms => FS = 3 \/ \A l \in k..Len(b.code) : b.code[l].op \notin UpdatesFS

InBlock == run # <<>> => \E b, bs, k : At(b, bs, k) /\ Granted(bs, k) /\ FSGranted(b, bs, k)

BlocksKept == \A b \in cache : \E bs : IsBlock(b, bs)

Typed == cfg \in Configs /\ frm \in cfg.frms \cup {0} /\ run \in Seq(Operations)

\* Instruction n, translated to o, is the next one.
Current(o, n, b, bs, k) ==
    /\ o = b.ops[k] /\ o \in Operations /\ n = b.code[k] /\ n \in Instructions /\ o.ins = n
    /\ n.op \in Rounds => n.rm # "NA"
    /\ bs[k] \in BlockStates /\ bs[k + 1] \in BlockStates
    /\ Translated(n, o, bs[k], bs[k + 1]) /\ ValidatedBy(b, n, o)

LEMMA CurrentInstruction ==
    ASSUME Typed, InBlock, run # <<>>
    PROVE  \E n, b, bs, k : At(b, bs, k) /\ Granted(bs, k) /\ FSGranted(b, bs, k) /\ Current(Head(run), n, b, bs, k)
<1>1. PICK b, bs, k : At(b, bs, k) /\ Granted(bs, k) /\ FSGranted(b, bs, k)
  BY DEF InBlock
<1>2. /\ b.code \in Programs /\ b.ops \in Seq(Operations) /\ Len(b.ops) = Len(b.code)
      /\ k \in 1..Len(b.code) /\ Len(run) = Len(b.code) - k + 1
      /\ bs \in [1..(Len(b.code) + 1) -> BlockStates]
  BY <1>1 DEF At, IsBlock
<1>3. Translated(b.code[k], b.ops[k], bs[k], bs[k + 1]) /\ ValidatedBy(b, b.code[k], b.ops[k])
  BY <1>1, <1>2 DEF At, IsBlock
<1>4. Len(b.code) \in Nat /\ b.code[k] \in Instructions /\ (b.code[k].op \in Rounds => b.code[k].rm # "NA")
  BY <1>2, ProgramFacts
<1>5. k \in 1..(Len(b.code) + 1) /\ k + 1 \in 1..(Len(b.code) + 1) /\ 1 \in 1..Len(run) /\ k + 1 - 1 = k
  BY <1>2, <1>4
<1>6. Head(run) = run[1] /\ run[1] = b.ops[k + 1 - 1]
  BY <1>1, <1>5, HeadTailProperties DEF At, Typed
<1>7. Head(run) = b.ops[k] /\ b.ops[k] \in Operations
  BY <1>2, <1>5, <1>6, ElementOfSeq
<1>8. b.ops[k].ins = b.code[k]
  BY <1>3 DEF Translated
<1>9. bs[k] \in BlockStates /\ bs[k + 1] \in BlockStates
  BY <1>2, <1>5
<1>10. Current(Head(run), b.code[k], b, bs, k)
  BY <1>3, <1>4, <1>7, <1>8, <1>9 DEF Current
<1> QED BY <1>1, <1>10

\* A block that is entered is at its first instruction.
LEMMA Enter ==
    ASSUME cfg' = cfg, frm' = frm, currentArch' = currentArch, fpActiveRM' = fpActiveRM, boxed' = boxed,
           NEW b, NEW bs, IsBlock(b, bs), Usable(b), run' = b.ops
    PROVE  run' \in Seq(Operations) /\ InBlock'
<1>1. b.code \in Programs /\ b.ops \in Seq(Operations) /\ Len(b.ops) = Len(b.code)
  BY DEF IsBlock
<1>2. Len(b.code) \in Nat
  BY <1>1, ProgramFacts
<1> SUFFICES ASSUME run' # <<>> PROVE InBlock'
  BY <1>1 DEF InBlock
<1>3. Len(b.code) # 0
  BY <1>1, EmptySeq
<1>4. At(b, bs, 1)'
  <2>1. IsBlock(b, bs)'
    BY SameBlock
  <2>2. Usable(b)'
    BY DEF Usable
  <2>3. 1 \in 1..Len(b.code) /\ Len(run') = Len(b.code) - 1 + 1
    BY <1>1, <1>2, <1>3
  <2>4. ASSUME NEW n \in 1..Len(b.code) PROVE run'[n] = b.ops[1 + n - 1]
    <3>1. 1 + n - 1 = n
      BY <1>2
    <3> QED BY <3>1
  <2> QED BY <1>1, <2>1, <2>2, <2>3, <2>4 DEF At
<1>5. bs[1].fpNaNBoxMask = {} /\ bs[1].fpActiveRMMT = "NA" /\ (bs[1].fpInstDone <=> cfg.fs_always_dirty)
  BY DEF IsBlock
<1>6. Granted(bs, 1)' /\ FSGranted(b, bs, 1)'
  BY <1>5 DEF Granted, FSGranted
<1> QED BY <1>4, <1>6 DEF InBlock

\* The next instruction of the block, if there is one, is after the current.
LEMMA MoveOn ==
    ASSUME Typed, run # <<>>, cfg' = cfg, frm' = frm, currentArch' = currentArch, run' = Tail(run),
           NEW b, NEW bs, NEW k, At(b, bs, k)
    PROVE  run' \in Seq(Operations) /\ (run' # <<>> => At(b, bs, k + 1)')
<1>1. run \in Seq(Operations) /\ Len(run) \in Nat /\ Len(run) # 0
  BY LenProperties, EmptySeq DEF Typed
<1>2. run' \in Seq(Operations) /\ Len(run') = Len(run) - 1 /\ \A n \in 1..(Len(run) - 1) : run'[n] = run[n + 1]
  BY <1>1, HeadTailProperties
<1>3. b.code \in Programs /\ k \in 1..Len(b.code) /\ Len(run) = Len(b.code) - k + 1
  BY DEF At, IsBlock
<1>4. Len(b.code) \in Nat
  BY <1>3, ProgramFacts
<1> SUFFICES ASSUME run' # <<>> PROVE At(b, bs, k + 1)'
  BY <1>2
<1>5. Len(run') # 0
  BY <1>2, EmptySeq
<1>6. IsBlock(b, bs)' /\ Usable(b)'
  BY SameBlock DEF At, Usable
<1>7. k + 1 \in 1..Len(b.code) /\ Len(run') = Len(b.code) - (k + 1) + 1
  BY <1>1, <1>2, <1>3, <1>4, <1>5
<1>8. ASSUME NEW n \in 1..Len(run') PROVE run'[n] = b.ops[(k + 1) + n - 1]
  <2>1. n \in 1..(Len(run) - 1) /\ n + 1 \in 1..Len(run) /\ k + (n + 1) - 1 = (k + 1) + n - 1
    BY <1>1, <1>2, <1>3, <1>4
  <2>2. run'[n] = run[n + 1] /\ run[n + 1] = b.ops[k + (n + 1) - 1]
    BY <1>2, <2>1 DEF At
  <2> QED BY <2>1, <2>2
<1> QED BY <1>6, <1>7, <1>8 DEF At

------------------------------------------------------------------------------
(* The steps *)

\* misa's D and F are among those of the configuration, and tied.
MisaTies ==
    /\ misa \subseteq cfg.arch
    /\ "D" \in misa => "F" \in misa \/ (cfg.archMask = {"D", "F"} /\ ~cfg.d_requires_f)

LEMMA MisaStep ==
    ASSUME cfg \in Configs, MisaTies, misaW
    PROVE  MisaTies'
<1>1. cfg.arch \in {{"F"}, {"D", "F"}} /\ cfg.archMask \subseteq cfg.arch /\ cfg' = cfg
  BY ConfigFacts DEF misaW
<1>2. PICK v \in MisaVals :
        LET new == (v \cap cfg.archMask) \cup (misa \ cfg.archMask)
            writable == IF cfg.arch = {"D", "F"} THEN cfg.archMask ELSE {}
        IN  misa' = CASE writable = {"D", "F"} ->
                            IF cfg.d_requires_f /\ "F" \notin new THEN new \ {"D"} ELSE new
                      [] writable = {"D"} ->
                            IF "D" \in new THEN new \cup {"F"} ELSE new \ {"F"}
                      [] writable = {"F"} ->
                            IF "F" \in new THEN new \cup {"D"} ELSE new \ {"D"}
                      [] OTHER -> new
  BY DEF misaW
<1> DEFINE new == (v \cap cfg.archMask) \cup (misa \ cfg.archMask)
           writable == IF cfg.arch = {"D", "F"} THEN cfg.archMask ELSE {}
<1>3. new \subseteq cfg.arch
  BY <1>1 DEF MisaTies
<1>4. CASE cfg.arch = {"F"}
  <2>1. "D" \notin new /\ writable = {}
    BY <1>3, <1>4
  <2>2. misa' = new
    BY <1>2, <2>1
  <2> QED BY <1>1, <1>3, <2>1, <2>2 DEF MisaTies
<1>5. CASE cfg.arch = {"D", "F"}
  <2>1. CASE cfg.archMask = {"D", "F"}
    <3>1. misa' = IF cfg.d_requires_f /\ "F" \notin new THEN new \ {"D"} ELSE new
      BY <1>2, <1>5, <2>1
    <3> QED BY <1>1, <1>3, <2>1, <3>1 DEF MisaTies
  <2>2. CASE cfg.archMask = {"D"}
    <3>1. misa' = IF "D" \in new THEN new \cup {"F"} ELSE new \ {"F"}
      BY <1>2, <1>5, <2>2
    <3> QED BY <1>1, <1>3, <1>5, <2>2, <3>1 DEF MisaTies
  <2>3. CASE cfg.archMask = {"F"}
    <3>1. misa' = IF "F" \in new THEN new \cup {"D"} ELSE new \ {"D"}
      BY <1>2, <1>5, <2>3
    <3> QED BY <1>1, <1>3, <1>5, <2>3, <3>1 DEF MisaTies
  <2>4. CASE cfg.archMask = {}
    <3>1. misa' = misa
      BY <1>2, <1>5, <2>4
    <3> QED BY <1>1, <3>1 DEF MisaTies
  <2> QED BY <1>1, <1>5, <2>1, <2>2, <2>3, <2>4
<1> QED BY <1>1, <1>4, <1>5

LEMMA ModeTable ==
    /\ \A m \in 0..3 : mapFRMToRC[m + 1] \in Static \ {"RMM"}
    /\ mapFRMToRC[4 + 1] = "RMM"
  BY DEF mapFRMToRC, Static

LEMMA FrmType ==
    ASSUME Typed
    PROVE  frm \in 0..7 /\ (frm # 0 => frm \in cfg.frms)
  BY ConfigFacts DEF Typed

\* What an instruction that completes does to the mode of the host.
LEMMA ExecuteMode ==
    ASSUME Typed, ControlWordCurrent, NEW o, Execute(o)
    PROVE  ControlWordCurrent'
<1>1. frm' = frm /\ frm \in 0..7
  BY FrmType DEF Execute
<1>2. CASE ~Refreshes(o)
  <2>1. hostRC' = hostRC /\ fpActiveRM' = fpActiveRM
    BY <1>2 DEF Execute
  <2> QED BY <1>1, <2>1 DEF ControlWordCurrent
<1>3. CASE Refreshes(o)
  <2>1. hostRC' = refreshFPCW(o.ins.rm) /\ fpActiveRM' = o.ins.rm
    BY <1>3 DEF Execute
  <2>2. CASE o.ins.rm = "CURRENT"
    <3>1. frm < 5
      BY <1>1, <1>3, <2>2 DEF Execute, BadFRM
    <3>2. hostRC' = setFPCW(mapFRMToRC[frm + 1])
      BY <2>1, <2>2 DEF refreshFPCW
    <3>3. frm < 4 => mapFRMToRC[frm + 1] # "RMM"
      BY <1>1, ModeTable
    <3>4. frm < 4 => hostRC' = mapFRMToRC[frm + 1]
      BY <3>2, <3>3 DEF setFPCW
    <3>5. fpActiveRM' \notin Static
      BY <2>1, <2>2 DEF Static
    <3> QED BY <1>1, <3>1, <3>4, <3>5 DEF ControlWordCurrent
  <2>3. CASE o.ins.rm \in Static \ {"RMM"}
    <3>1. hostRC' = o.ins.rm /\ o.ins.rm # "CURRENT"
      BY <2>1, <2>3 DEF refreshFPCW, setFPCW, Static
    <3> QED BY <2>1, <3>1 DEF ControlWordCurrent
  <2>4. CASE o.ins.rm # "CURRENT" /\ o.ins.rm \notin Static \ {"RMM"}
    BY <2>1, <2>4 DEF ControlWordCurrent
  <2> QED BY <2>2, <2>3, <2>4
<1> QED BY <1>2, <1>3

\* The host is then in the mode that the instruction needs.
LEMMA NeededMode ==
    ASSUME NEW o, NEW n, NEW b, NEW bs, NEW k,
           Granted(bs, k), Current(o, n, b, bs, k), Execute(o), NeedsMode(n, o), n.rm # "NA"
    PROVE  fpActiveRM' = n.rm
<1>1. o.ins = n /\ (o.setRM <=> bs[k].fpActiveRMMT # n.rm)
  BY DEF Current, Translated
<1>2. fpActiveRM' = IF Refreshes(o) THEN n.rm ELSE fpActiveRM
  BY <1>1 DEF Execute
<1>3. CASE o.setRM
  BY <1>1, <1>2, <1>3 DEF Refreshes
<1>4. CASE ~o.setRM
  BY <1>1, <1>2, <1>4 DEF Refreshes, Granted
<1> QED BY <1>3, <1>4

\* The mode that is current is within those the translation can serve.
LEMMA CurrentModeServed ==
    ASSUME Typed, RepresentableModes, NEW o, NEW n, NEW b, NEW bs, NEW k,
           At(b, bs, k), Current(o, n, b, bs, k)
    PROVE  /\ EmulatedCurrent(n, o) => frm < 5
           /\ HostCurrent(n, o) /\ frm < 5 => frm < 4
<1>1. frm \in 0..7 /\ (frm # 0 => frm \in cfg.frms) /\ (4 \in cfg.frms => \A m \in cfg.frms : m < 5)
  BY FrmType DEF Typed, RepresentableModes
<1>2. EmulatedCurrent(n, o) => frm < 5
  <2>1. EmulatedCurrent(n, o) => 4 \in cfg.frms
    BY DEF Current, Translated
  <2> QED BY <1>1, <2>1
<1>3. ASSUME HostCurrent(n, o), frm < 5 PROVE frm < 4
  <2>1. b.frmMsb = 0 \/ \E m \in cfg.frms : m >= 5
    BY <1>3 DEF Current, ValidatedBy
  <2>2. CASE b.frmMsb = 0
    <3>1. frm \div 4 = 0
      BY <2>2 DEF At, Usable
    <3> QED BY <1>1, <3>1
  <2>3. CASE \E m \in cfg.frms : m >= 5
    <3>1. PICK m \in cfg.frms : m >= 5
      BY <2>3
    <3>2. m \in 0..7
      BY ConfigFacts DEF Typed
    <3> QED BY <1>1, <1>3, <3>1, <3>2
  <2> QED BY <2>1, <2>2, <2>3
<1> QED BY <1>2, <1>3

LEMMA ExecuteRounds ==
    ASSUME Typed, RepresentableModes, ControlWordCurrent, NEW o, NEW n, NEW b, NEW bs, NEW k,
           At(b, bs, k), Granted(bs, k), Current(o, n, b, bs, k), Execute(o)
    PROVE  RoundingCorrect'
<1>1. /\ o.ins = n /\ frm' = frm /\ frm \in 0..7 /\ n \in Instructions /\ last'.ins = n
      /\ last'.rounded = RoundedIn(o, hostRC', fpActiveRM')
      /\ n.op \in Rounds => n.rm # "NA"
      /\ ~o.badRM
  BY FrmType DEF Current, Execute
<1> SUFFICES ASSUME n.op \in Rounds
             PROVE  RoundedIn(o, hostRC', fpActiveRM') =
                        IF n.rm = "CURRENT" THEN IF frm < 5 THEN mapFRMToRC[frm + 1] ELSE "none" ELSE n.rm
  <2>1. n.op \notin Rounds => last'.rounded = "exact"
    BY <1>1 DEF RoundedIn, Rounds
  <2> QED BY <1>1, <2>1 DEF RoundingCorrect
<1>2. n.rm # "NA" /\ n.rm # "BAD" /\ n.rm \in Static \cup {"CURRENT"}
  <2>1. LegalRM(n)
    BY <1>1 DEF Current, Translated
  <2> QED BY <1>1, <2>1 DEF LegalRM, Rounds, Instructions, RMDesc
<1>3. ControlWordCurrent'
  BY ExecuteMode
<1>4. NeedsMode(n, o) => fpActiveRM' = n.rm
  BY <1>2, NeededMode
<1>5. /\ EmulatedCurrent(n, o) => frm < 5
      /\ HostCurrent(n, o) /\ frm < 5 => frm < 4
  BY CurrentModeServed
<1>6. (o.emul => n.rm \in {"RMM", "CURRENT"}) /\ (n.rm = "RMM" => o.emul)
  BY DEF Current, Translated
<1>7. CASE n.rm = "CURRENT"
  <2>1. CASE o.emul
    <3>1. frm < 5
      BY <1>5, <1>7, <2>1 DEF EmulatedCurrent
    <3>2. n.op = "arith" => fpActiveRM' = "CURRENT"
      BY <1>4, <1>7, <1>2 DEF NeedsMode
    <3>3. RoundedIn(o, hostRC', fpActiveRM') = SoftRM("CURRENT")
      BY <1>1, <1>7, <2>1, <3>2 DEF RoundedIn, Rounds
    <3>4. SoftRM("CURRENT") = mapFRMToRC[frm + 1]
      BY <3>1 DEF SoftRM
    <3> QED BY <1>7, <3>1, <3>3, <3>4
  <2>2. CASE ~o.emul
    <3>1. HostCurrent(n, o)
      BY <1>7, <2>2 DEF HostCurrent
    <3>2. fpActiveRM' = "CURRENT"
      BY <1>4, <1>7, <3>1 DEF NeedsMode
    <3>3. frm < 5 /\ (frm < 4 => hostRC' = mapFRMToRC[frm + 1])
      BY <1>1, <1>3, <3>2 DEF ControlWordCurrent
    <3>4. RoundedIn(o, hostRC', fpActiveRM') = hostRC'
      BY <1>1, <1>7, <2>2 DEF RoundedIn, Rounds
    <3> QED BY <1>5, <1>7, <3>1, <3>3, <3>4
  <2> QED BY <2>1, <2>2
<1>8. CASE n.rm # "CURRENT" /\ n.op # "arith"
  BY <1>1, <1>8 DEF RoundedIn, Rounds
<1>9. CASE n.rm # "CURRENT" /\ n.op = "arith"
  <2>1. fpActiveRM' = n.rm
    BY <1>2, <1>4, <1>9 DEF NeedsMode
  <2>2. CASE o.emul
    <3>1. RoundedIn(o, hostRC', fpActiveRM') = SoftRM(n.rm)
      BY <1>1, <1>9, <2>1, <2>2 DEF RoundedIn
    <3> QED BY <1>9, <3>1 DEF SoftRM
  <2>3. CASE ~o.emul
    <3>1. n.rm \in Static \ {"RMM"}
      BY <1>2, <1>6, <1>9, <2>3
    <3>2. hostRC' = n.rm
      BY <1>3, <2>1, <3>1 DEF ControlWordCurrent
    <3>3. RoundedIn(o, hostRC', fpActiveRM') = hostRC'
      BY <1>1, <1>9, <2>3 DEF RoundedIn
    <3> QED BY <1>9, <3>2, <3>3
  <2> QED BY <2>2, <2>3
<1> QED BY <1>7, <1>8, <1>9

\* The block was entered for the features that are enabled.
LEMMA FeaturesKnown ==
    ASSUME NEW o, NEW n, NEW b, NEW bs, NEW k,
           At(b, bs, k), Current(o, n, b, bs, k), n.op \notin FPCSRs
    PROVE  o.absent <=> ~(Required(n) \subseteq currentArch)
<1>1. Required(n) \subseteq b.mask /\ (o.absent <=> ~(Required(n) \subseteq b.arch))
  BY DEF Current, ValidatedBy
<1>2. b.mask \cap currentArch = b.arch
  BY DEF At, Usable
<1> QED BY <1>1, <1>2

LEMMA ExecuteEnabled ==
    ASSUME MisaTies, NEW o, NEW n, NEW b, NEW bs, NEW k,
           At(b, bs, k), Current(o, n, b, bs, k), Execute(o)
    PROVE  EnabledRespected'
<1>1. /\ o.ins = n /\ n.op \notin FPCSRs /\ ~o.absent /\ last'.ins = n /\ last'.did = "done"
      /\ currentArch' = currentArch /\ misa' = misa /\ cfg' = cfg
  BY DEF Current, Execute
<1>2. Required(n) \subseteq currentArch
  BY <1>1, FeaturesKnown
<1>3. Required(last.ins)' = Required(n)
  BY <1>1 DEF Required, SrcBits, DstBits
<1> QED BY <1>1, <1>2, <1>3 DEF EnabledRespected, MisaTies

LEMMA TrapEnabled ==
    ASSUME MisaTies, NEW o, NEW n, NEW b, NEW bs, NEW k,
           At(b, bs, k), Current(o, n, b, bs, k), Trap(o)
    PROVE  EnabledRespected'
<1>1. /\ o.ins = n /\ last'.ins = n /\ last'.did = "trap" /\ (o.absent \/ o.badRM \/ BadFRM(o))
      /\ currentArch' = currentArch /\ misa' = misa /\ cfg' = cfg /\ frm' = frm
  BY DEF Current, Trap
<1>2. n.op \notin FPCSRs /\ o.absent => ~(Required(n) \subseteq currentArch)
  BY <1>1, FeaturesKnown
<1>3. o.badRM => n.rm = "BAD"
  BY DEF Current, Translated, LegalRM
<1>4. BadFRM(o) => n.rm = "CURRENT" /\ frm >= 5
  BY <1>1 DEF BadFRM
<1>5. Required(last.ins)' = Required(n)
  BY <1>1 DEF Required, SrcBits, DstBits
<1>6. "D" \in misa' => "F" \in misa' \/ (cfg'.archMask = {"D", "F"} /\ ~cfg'.d_requires_f)
  BY <1>1 DEF MisaTies
<1> QED BY <1>1, <1>2, <1>3, <1>4, <1>5, <1>6 DEF EnabledRespected

LEMMA ExecuteBoxes ==
    ASSUME cfg \in Configs, NEW o, NEW n, NEW b, NEW bs, NEW k,
           Granted(bs, k), Current(o, n, b, bs, k), Execute(o)
    PROVE  BoxRespected'
<1>1. /\ o.ins = n /\ last'.ins = n /\ cfg' = cfg
      /\ last'.readBoxed = (n.op \in ReadsF => n.src \in boxed)
      /\ last'.readAs = ReadAs(o)
  BY DEF Current, Execute
<1>2. riscvGetFlenArch' = riscvGetFlenArch /\ SrcBits(last.ins)' = SrcBits(n)
  BY <1>1 DEF riscvGetFlenArch, SrcBits
<1>3. riscvGetFlenArch \in {32, 64} /\ SrcBits(n) \in {32, 64}
  BY ConfigFacts DEF Current, Instructions, SrcBits
<1> SUFFICES ASSUME n.op \in ReadsF, SrcBits(n) < riscvGetFlenArch
             PROVE  ReadAs(o) = "value" <=> n.src \in boxed
  BY <1>1, <1>2 DEF BoxRespected
<1>4. ReadAs(o) = "value" <=> ~(o.boxTest /\ n.src \notin boxed)
  BY <1>1, <1>3 DEF ReadAs
<1>5. o.boxTest <=> n.src \notin bs[k].fpNaNBoxMask
  <2>1. o.boxTest <=> BoxTest(n, bs[k])
    BY DEF Current, Translated
  <2> QED BY <1>3, <2>1 DEF BoxTest
<1> QED BY <1>4, <1>5 DEF Granted

\* An instruction that sets FS finds it dirty already, or makes it so.
LEMMA StaysDirty ==
    ASSUME FSDirty, OrderlyPrograms, NEW o, NEW n, NEW b, NEW bs, NEW k,
           At(b, bs, k), FSGranted(b, bs, k), Current(o, n, b, bs, k),
           cfg' = cfg, FS' = (IF o.setFS THEN 3 ELSE FS), n.op \notin UpdatesFS => unclean' = unclean
    PROVE  FSDirty'
<1>1. o.ins = n /\ n = b.code[k] /\ k \in 1..Len(b.code)
  BY DEF Current, At
<1>2. CASE o.setFS \/ n.op \notin UpdatesFS
  BY <1>1, <1>2 DEF FSDirty
<1>3. CASE ~o.setFS /\ n.op \in UpdatesFS
  <2>1. bs[k].fpInstDone
    BY <1>3 DEF Current, Translated, updateFS
  <2>2. b.code \in Programs
    BY DEF At, IsBlock
  <2>3. k \in k..Len(b.code)
    BY <1>1, <2>2, ProgramFacts
  <2>4. cfg.fs_always_dirty \/ FS = 3
    BY <1>1, <1>3, <2>1, <2>3 DEF FSGranted
  <2> QED BY <1>1, <1>3, <2>4 DEF FSDirty
<1> QED BY <1>2, <1>3

LEMMA FSMoves ==
    ASSUME NEW o, NEW n, NEW b, NEW bs, NEW k,
           At(b, bs, k), FSGranted(b, bs, k), Current(o, n, b, bs, k),
           cfg' = cfg, FS' = (IF o.setFS THEN 3 ELSE FS)
    PROVE  FSGranted(b, bs, k + 1)'
<1> SUFFICES ASSUME bs[k + 1].fpInstDone, ~cfg.fs_always_dirty
             PROVE  /\ \E j \in 1..((k + 1) - 1) : b.code[j].op \in UpdatesFS
                    /\ OrderlyPrograms => FS' = 3 \/ \A l \in (k + 1)..Len(b.code) : b.code[l].op \notin UpdatesFS
  BY DEF FSGranted
<1>1. (bs[k + 1].fpInstDone <=> bs[k].fpInstDone \/ o.setFS) /\ (o.setFS <=> updateFS(n, bs[k]))
  BY DEF Current, Translated
<1>2. k \in 1..Len(b.code) /\ Len(b.code) \in Nat /\ n = b.code[k]
  BY ProgramFacts DEF At, IsBlock, Current
<1>3. CASE o.setFS
  <2>1. n.op \in UpdatesFS
    BY <1>1, <1>3 DEF updateFS
  <2>2. k \in 1..((k + 1) - 1)
    BY <1>2
  <2> QED BY <1>2, <1>3, <2>1, <2>2
<1>4. CASE ~o.setFS
  <2>1. /\ \E j \in 1..(k - 1) : b.code[j].op \in UpdatesFS
        /\ OrderlyPrograms => FS = 3 \/ \A l \in k..Len(b.code) : b.code[l].op \notin UpdatesFS
    BY <1>1, <1>4 DEF FSGranted
  <2>2. /\ \A j \in 1..(k - 1) : j \in 1..((k + 1) - 1)
        /\ \A l \in (k + 1)..Len(b.code) : l \in k..Len(b.code)
    BY <1>2
  <2> QED BY <1>4, <2>1, <2>2
<1> QED BY <1>3, <1>4

LEMMA ExecuteMoves ==
    ASSUME Typed, NEW o, NEW n, NEW b, NEW bs, NEW k,
           At(b, bs, k), Granted(bs, k), FSGranted(b, bs, k), Current(o, n, b, bs, k), Execute(o)
    PROVE  run' \in Seq(Operations) /\ InBlock'
<1>1. /\ run # <<>> /\ cfg' = cfg /\ frm' = frm /\ currentArch' = currentArch /\ run' = Tail(run)
      /\ o.ins = n /\ n = b.code[k] /\ n.op \notin FPCSRs \cup {"fs"} /\ n.op # "csr"
  BY DEF Current, Execute, FPCSRs
<1>2. run' \in Seq(Operations) /\ (run' # <<>> => At(b, bs, k + 1)')
  BY <1>1, MoveOn
<1>3. Granted(bs, k + 1)'
  <2>1. /\ bs[k + 1].fpNaNBoxMask = IF n.op \in WritesF THEN riscvWriteRegSize(n, bs[k].fpNaNBoxMask)
                                    ELSE bs[k].fpNaNBoxMask
        /\ bs[k + 1].fpActiveRMMT = IF o.setRM THEN n.rm ELSE bs[k].fpActiveRMMT
    BY <1>1 DEF Current, Translated
  <2>2. boxed' = IF n.op \in WritesF THEN riscvWriteRegSize(n, boxed) ELSE boxed
    BY <1>1 DEF Execute, riscvWriteRegSize
  <2>3. bs[k + 1].fpNaNBoxMask \subseteq boxed'
    BY <2>1, <2>2 DEF Granted, riscvWriteRegSize
  <2>4. fpActiveRM' = IF o.setRM /\ fpActiveRM # n.rm THEN n.rm ELSE fpActiveRM
    BY <1>1 DEF Execute, Refreshes
  <2>5. bs[k + 1].fpActiveRMMT # "NA" => fpActiveRM' = bs[k + 1].fpActiveRMMT
    BY <2>1, <2>4 DEF Granted
  <2> QED BY <2>3, <2>5 DEF Granted
<1>4. FSGranted(b, bs, k + 1)'
  BY <1>1, FSMoves DEF Execute
<1> QED BY <1>2, <1>3, <1>4 DEF InBlock

\* A write of fflags leaves all that the rest of the block takes for granted.
LEMMA WriteFFlagsMoves ==
    ASSUME Typed, NEW o, NEW n, NEW b, NEW bs, NEW k,
           At(b, bs, k), Granted(bs, k), FSGranted(b, bs, k), Current(o, n, b, bs, k), WriteFFlags(o)
    PROVE  run' \in Seq(Operations) /\ InBlock'
<1>1. /\ run # <<>> /\ cfg' = cfg /\ frm' = frm /\ currentArch' = currentArch /\ run' = Tail(run)
      /\ boxed' = boxed /\ fpActiveRM' = fpActiveRM /\ FS' = IF o.setFS THEN 3 ELSE FS
      /\ o.ins = n /\ n.op = "fflags"
  BY DEF Current, WriteFFlags
<1>2. run' \in Seq(Operations) /\ (run' # <<>> => At(b, bs, k + 1)')
  BY <1>1, MoveOn
<1>3. n.op \notin WritesF /\ ~o.setRM
  BY <1>1 DEF Current, Translated, WritesF
<1>4. bs[k + 1].fpNaNBoxMask = bs[k].fpNaNBoxMask /\ bs[k + 1].fpActiveRMMT = bs[k].fpActiveRMMT
  BY <1>1, <1>3 DEF Current, Translated
<1>5. Granted(bs, k + 1)'
  BY <1>1, <1>4 DEF Granted
<1>6. FSGranted(b, bs, k + 1)'
  BY <1>1, FSMoves
<1> QED BY <1>2, <1>5, <1>6 DEF InBlock

\* A write of FS ends the block or leaves the enabled features as they were.
LEMMA WriteFSMoves ==
    ASSUME Typed, NEW o, NEW n, NEW b, NEW bs, NEW k,
           At(b, bs, k), Granted(bs, k), FSGranted(b, bs, k), Current(o, n, b, bs, k), WriteFS(o)
    PROVE  run' \in Seq(Operations) /\ InBlock'
<1>1. /\ run # <<>> /\ cfg' = cfg /\ frm' = frm /\ boxed' = boxed /\ fpActiveRM' = fpActiveRM
      /\ run' = IF currentArch' # currentArch THEN <<>> ELSE Tail(run)
      /\ o.ins = n /\ n = b.code[k] /\ n.op = "fs"
  BY DEF Current, WriteFS
<1>2. CASE currentArch' # currentArch
  <2>1. run' = <<>>
    BY <1>1, <1>2
  <2> QED BY <2>1 DEF InBlock
<1>3. CASE currentArch' = currentArch
  <2>1. run' = Tail(run)
    BY <1>1, <1>3
  <2>2. run' \in Seq(Operations) /\ (run' # <<>> => At(b, bs, k + 1)')
    BY <1>1, <1>3, <2>1, MoveOn
  <2>3. n.op \notin WritesF /\ ~o.setRM /\ ~o.setFS
    BY <1>1 DEF Current, Translated, updateFS, UpdatesFS, FPCSRs, WritesF
  <2>4. /\ bs[k + 1].fpNaNBoxMask = bs[k].fpNaNBoxMask /\ bs[k + 1].fpActiveRMMT = bs[k].fpActiveRMMT
        /\ bs[k + 1].fpInstDone <=> bs[k].fpInstDone
    BY <1>1, <2>3 DEF Current, Translated
  <2>5. Granted(bs, k + 1)'
    BY <1>1, <2>4 DEF Granted
  <2>6. FSGranted(b, bs, k + 1)'
    <3> SUFFICES ASSUME bs[k].fpInstDone, ~cfg.fs_always_dirty
                 PROVE  /\ \E j \in 1..((k + 1) - 1) : b.code[j].op \in UpdatesFS
                        /\ OrderlyPrograms => \A l \in (k + 1)..Len(b.code) : b.code[l].op \notin UpdatesFS
      BY <1>1, <2>4 DEF FSGranted
    <3>1. PICK j \in 1..(k - 1) : b.code[j].op \in UpdatesFS
      BY DEF FSGranted
    <3>2. b.code \in Programs /\ k \in 1..Len(b.code)
      BY DEF At, IsBlock
    <3>3. Len(b.code) \in Nat /\ DOMAIN b.code = 1..Len(b.code)
      BY <3>2, ProgramFacts
    <3>4. j \in 1..((k + 1) - 1) /\ j \in 1..Len(b.code) /\ j < k
      BY <3>2, <3>3
    <3>5. ASSUME OrderlyPrograms, NEW l \in (k + 1)..Len(b.code) PROVE b.code[l].op \notin UpdatesFS
      <4>1. l \in 1..Len(b.code) /\ k < l
        BY <3>2, <3>3
      <4> QED BY <1>1, <3>1, <3>2, <3>3, <3>4, <3>5, <4>1 DEF OrderlyPrograms
    <3> QED BY <3>1, <3>4, <3>5
  <2> QED BY <2>2, <2>5, <2>6 DEF InBlock
<1> QED BY <1>2, <1>3

------------------------------------------------------------------------------
(* The theorems *)

\* Each conjunct after ControlWordCurrent is about the last instruction or FS.
Inv ==
    /\ Typed /\ MisaTies /\ BlocksKept /\ InBlock /\ ControlWordCurrent
    /\ EnabledRespected /\ BoxRespected
    /\ RepresentableModes => RoundingCorrect
    /\ OrderlyPrograms => FSDirty

LEMMA InvInit == Init => Inv
<1> SUFFICES ASSUME Init PROVE Inv
  OBVIOUS
<1>1. cfg \in Configs /\ misa = cfg.arch /\ frm = 0 /\ run = <<>> /\ cache = {} /\ fpActiveRM = "NA"
      /\ last.did = "nothing" /\ ~unclean
  BY DEF Init, Idle
<1>2. Typed
  BY <1>1 DEF Typed
<1>3. MisaTies
  BY <1>1, ConfigFacts DEF MisaTies
<1>4. BlocksKept /\ InBlock
  BY <1>1 DEF BlocksKept, InBlock
<1>5. ControlWordCurrent
  BY <1>1 DEF ControlWordCurrent, Static
<1>6. EnabledRespected
  BY <1>1, <1>3 DEF EnabledRespected, MisaTies
<1>7. BoxRespected /\ RoundingCorrect /\ FSDirty
  BY <1>1 DEF BoxRespected, RoundingCorrect, FSDirty
<1> QED BY <1>2, <1>3, <1>4, <1>5, <1>6, <1>7 DEF Inv

\* A step after which the last instruction neither completed nor trapped.
LEMMA NothingDone ==
    ASSUME last'.did \notin {"done", "trap"}, MisaTies'
    PROVE  EnabledRespected' /\ BoxRespected' /\ RoundingCorrect'
<1>1. EnabledRespected'
  BY DEF EnabledRespected, MisaTies
<1>2. BoxRespected' /\ RoundingCorrect'
  BY DEF BoxRespected, RoundingCorrect
<1> QED BY <1>1, <1>2

LEMMA EnterBlockStep ==
    ASSUME Inv, EnterBlock
    PROVE  Inv'
<1>1. /\ cfg' = cfg /\ misa' = misa /\ FS' = FS /\ frm' = frm /\ currentArch' = currentArch
      /\ fpActiveRM' = fpActiveRM /\ hostRC' = hostRC /\ boxed' = boxed /\ last' = last /\ unclean' = unclean
  BY DEF EnterBlock
<1>2. Typed /\ BlocksKept
  BY DEF Inv
<1>3. PICK code \in Programs :
        LET kept == {b \in cache : b.code = code /\ Usable(b)}
        IN  IF kept # {}
            THEN \E b \in kept : run' = b.ops /\ UNCHANGED cache
            ELSE LET b == riscvMorph(code)
                 IN  /\ run' = b.ops
                     /\ \E keep \in SUBSET {c \in cache : c.code # code} :
                           /\ Cardinality(keep) < MaxBlocks
                           /\ cache' = keep \cup {b}
  BY DEF EnterBlock
<1>4. Usable(riscvMorph(code)) /\ \E bs : IsBlock(riscvMorph(code), bs)
  BY <1>2, MorphBlock DEF Typed
<1> DEFINE M == riscvMorph(code)
<1> HIDE DEF M
<1>5. /\ cache' \subseteq cache \cup {M}
      /\ \E b \in cache \cup {M} : Usable(b) /\ run' = b.ops
  BY <1>3, <1>4 DEF M
<1>6. \A b \in cache \cup {M} : \E bs : IsBlock(b, bs)
  BY <1>2, <1>4 DEF BlocksKept, M
<1>7. BlocksKept'
  BY <1>1, <1>5, <1>6, SameBlock DEF BlocksKept
<1>8. PICK b, bs : IsBlock(b, bs) /\ Usable(b) /\ run' = b.ops
  BY <1>5, <1>6
<1>9. run' \in Seq(Operations) /\ InBlock'
  BY <1>1, <1>8, Enter
<1>10. Typed' /\ MisaTies' /\ ControlWordCurrent'
  BY <1>1, <1>9 DEF Inv, Typed, MisaTies, ControlWordCurrent
<1>11. EnabledRespected' /\ BoxRespected'
  BY <1>1 DEF Inv, EnabledRespected, BoxRespected, riscvGetFlenArch
<1>12. (RepresentableModes => RoundingCorrect') /\ (OrderlyPrograms => FSDirty')
  BY <1>1 DEF Inv, RoundingCorrect, FSDirty
<1> QED BY <1>7, <1>9, <1>10, <1>11, <1>12 DEF Inv

LEMMA InstructionStep ==
    ASSUME Inv, NEW o, Trap(o) \/ Execute(o) \/ WriteFCSR(o) \/ WriteFFlags(o) \/ WriteFS(o)
    PROVE  Inv'
<1>1. Typed /\ MisaTies /\ BlocksKept /\ InBlock /\ ControlWordCurrent /\ (OrderlyPrograms => FSDirty)
  BY DEF Inv
<1>2. run # <<>> /\ o = Head(run) /\ cfg' = cfg /\ misa' = misa /\ cache' = cache
  BY DEF Trap, Execute, WriteFCSR, WriteFFlags, WriteFS
<1>3. PICK n, b, bs, k : At(b, bs, k) /\ Granted(bs, k) /\ FSGranted(b, bs, k) /\ Current(o, n, b, bs, k)
  BY <1>1, <1>2, CurrentInstruction
<1>4. MisaTies' /\ BlocksKept'
  BY <1>1, <1>2, SameBlock DEF MisaTies, BlocksKept
<1>5. CASE Trap(o)
  <2>1. /\ run' = <<>> /\ frm' = frm /\ fpActiveRM' = fpActiveRM /\ hostRC' = hostRC /\ FS' = FS
        /\ unclean' = unclean /\ last'.did = "trap"
    BY <1>5 DEF Trap
  <2>2. Typed' /\ InBlock' /\ ControlWordCurrent'
    BY <1>1, <1>2, <2>1 DEF Typed, InBlock, ControlWordCurrent
  <2>3. EnabledRespected'
    BY <1>1, <1>3, <1>5, TrapEnabled
  <2>4. BoxRespected' /\ RoundingCorrect'
    BY <2>1 DEF BoxRespected, RoundingCorrect
  <2>5. OrderlyPrograms => FSDirty'
    BY <1>1, <1>2, <2>1 DEF FSDirty
  <2> QED BY <1>4, <2>2, <2>3, <2>4, <2>5 DEF Inv
<1>6. CASE Execute(o)
  <2>1. run' \in Seq(Operations) /\ InBlock'
    BY <1>1, <1>3, <1>6, ExecuteMoves
  <2>2. Typed'
    BY <1>1, <1>2, <1>6, <2>1 DEF Typed, Execute
  <2>3. ControlWordCurrent'
    BY <1>1, <1>6, ExecuteMode
  <2>4. EnabledRespected'
    BY <1>1, <1>3, <1>6, ExecuteEnabled
  <2>5. BoxRespected'
    BY <1>1, <1>3, <1>6, ExecuteBoxes DEF Typed
  <2>6. RepresentableModes => RoundingCorrect'
    BY <1>1, <1>3, <1>6, ExecuteRounds
  <2>7. OrderlyPrograms => FSDirty'
    <3>1. cfg' = cfg /\ FS' = (IF o.setFS THEN 3 ELSE FS) /\ (n.op \notin UpdatesFS => unclean' = unclean)
      BY <1>3, <1>6 DEF Execute, Current, UpdatesFS
    <3> QED BY <1>1, <1>3, <3>1, StaysDirty
  <2> QED BY <1>4, <2>1, <2>2, <2>3, <2>4, <2>5, <2>6, <2>7 DEF Inv
<1>7. CASE WriteFCSR(o)
  <2>1. /\ run' = <<>> /\ hostRC' = hostRC /\ FS' = (IF o.setFS THEN 3 ELSE FS) /\ n.op \in UpdatesFS
        /\ last'.did = "csr"
    BY <1>3, <1>7 DEF WriteFCSR, Current, UpdatesFS, FPCSRs
  <2>2. frm' \in cfg.frms \cup {frm} /\ fpActiveRM' = refreshFPCR(frm')
    BY <1>7 DEF WriteFCSR
  <2>3. Typed' /\ InBlock'
    BY <1>1, <1>2, <2>1, <2>2 DEF Typed, InBlock
  <2>4. ControlWordCurrent'
    <3>1. CASE frm' = frm
      BY <1>1, <2>1, <2>2, <3>1 DEF ControlWordCurrent, refreshFPCR
    <3>2. CASE frm' # frm
      BY <1>1, <2>1, <2>2, <3>2 DEF ControlWordCurrent, refreshFPCR, Static
    <3> QED BY <3>1, <3>2
  <2>5. EnabledRespected' /\ BoxRespected' /\ RoundingCorrect'
    BY <1>4, <2>1, NothingDone
  <2>6. OrderlyPrograms => FSDirty'
    BY <1>1, <1>2, <1>3, <2>1, StaysDirty
  <2> QED BY <1>4, <2>3, <2>4, <2>5, <2>6 DEF Inv
<1>8. CASE WriteFS(o)
  <2>1. frm' = frm /\ fpActiveRM' = fpActiveRM /\ hostRC' = hostRC /\ ~unclean' /\ last'.did = "fs"
    BY <1>8 DEF WriteFS
  <2>2. run' \in Seq(Operations) /\ InBlock'
    BY <1>1, <1>3, <1>8, WriteFSMoves
  <2>3. Typed' /\ ControlWordCurrent'
    BY <1>1, <1>2, <2>1, <2>2 DEF Typed, ControlWordCurrent
  <2>4. EnabledRespected' /\ BoxRespected' /\ RoundingCorrect'
    BY <1>4, <2>1, NothingDone
  <2>5. FSDirty'
    BY <2>1 DEF FSDirty
  <2> QED BY <1>4, <2>2, <2>3, <2>4, <2>5 DEF Inv
<1>9. CASE WriteFFlags(o)
  <2>1. /\ frm' = frm /\ fpActiveRM' = fpActiveRM /\ hostRC' = hostRC
        /\ FS' = (IF o.setFS THEN 3 ELSE FS) /\ n.op \in UpdatesFS /\ last'.did = "csr"
    BY <1>3, <1>9 DEF WriteFFlags, Current, UpdatesFS, FPCSRs
  <2>2. run' \in Seq(Operations) /\ InBlock'
    BY <1>1, <1>3, <1>9, WriteFFlagsMoves
  <2>3. Typed' /\ ControlWordCurrent'
    BY <1>1, <1>2, <2>1, <2>2 DEF Typed, ControlWordCurrent
  <2>4. EnabledRespected' /\ BoxRespected' /\ RoundingCorrect'
    BY <1>4, <2>1, NothingDone
  <2>5. OrderlyPrograms => FSDirty'
    BY <1>1, <1>2, <1>3, <2>1, StaysDirty
  <2> QED BY <1>4, <2>2, <2>3, <2>4, <2>5 DEF Inv
<1> QED BY <1>5, <1>6, <1>7, <1>8, <1>9

\* statusR, misaW and riscvCSRReset, between two blocks.
LEMMA CSRStep ==
    ASSUME Inv, statusR \/ misaW \/ riscvCSRReset
    PROVE  Inv'
<1>1. /\ cfg' = cfg /\ frm' = frm /\ fpActiveRM' = fpActiveRM /\ hostRC' = hostRC /\ cache' = cache
      /\ run = <<>> /\ run' = run /\ last'.did = "nothing"
  BY DEF statusR, misaW, riscvCSRReset, Idle
<1>2. Typed /\ MisaTies /\ BlocksKept /\ ControlWordCurrent /\ (OrderlyPrograms => FSDirty)
  BY DEF Inv
<1>3. Typed' /\ InBlock' /\ ControlWordCurrent'
  BY <1>1, <1>2 DEF Typed, InBlock, ControlWordCurrent
<1>4. BlocksKept'
  BY <1>1, <1>2, SameBlock DEF BlocksKept
<1>5. MisaTies'
  <2>1. CASE statusR
    BY <1>1, <1>2, <2>1 DEF statusR, MisaTies
  <2>2. CASE misaW
    BY <1>2, <2>2, MisaStep DEF Typed
  <2>3. CASE riscvCSRReset
    <3>1. misa' = cfg.arch /\ cfg.arch \in {{"F"}, {"D", "F"}}
      BY <1>2, <2>3, ConfigFacts DEF Typed, riscvCSRReset
    <3> QED BY <1>1, <3>1 DEF MisaTies
  <2> QED BY <2>1, <2>2, <2>3
<1>6. EnabledRespected' /\ BoxRespected' /\ RoundingCorrect'
  BY <1>1, <1>5, NothingDone
<1>7. OrderlyPrograms => FSDirty'
  <2>1. (FS' = 3 \/ (FS' = FS /\ unclean' = unclean) \/ ~unclean')
    BY DEF statusR, misaW, riscvCSRReset
  <2> QED BY <1>1, <1>2, <2>1 DEF FSDirty
<1> QED BY <1>3, <1>4, <1>5, <1>6, <1>7 DEF Inv

LEMMA InvStep == Inv /\ [Next]_vars => Inv'
<1> SUFFICES ASSUME Inv, [Next]_vars PROVE Inv'
  OBVIOUS
<1>1. CASE EnterBlock
  BY <1>1, EnterBlockStep
<1>2. CASE \E o \in Range(run) : Trap(o) \/ Execute(o) \/ WriteFCSR(o) \/ WriteFFlags(o) \/ WriteFS(o)
  BY <1>2, InstructionStep
<1>3. CASE statusR \/ misaW \/ riscvCSRReset
  BY <1>3, CSRStep
<1>4. CASE UNCHANGED vars
  <2>1. /\ cfg' = cfg /\ misa' = misa /\ FS' = FS /\ frm' = frm /\ currentArch' = currentArch
        /\ fpActiveRM' = fpActiveRM /\ hostRC' = hostRC /\ boxed' = boxed /\ cache' = cache
        /\ run' = run /\ last' = last /\ unclean' = unclean
    BY <1>4 DEF vars
  <2>2. Typed' /\ MisaTies' /\ ControlWordCurrent'
    BY <2>1 DEF Inv, Typed, MisaTies, ControlWordCurrent
  <2>3. BlocksKept'
    BY <2>1, SameBlock DEF Inv, BlocksKept
  <2>4. InBlock'
    <3>1. ASSUME NEW b, NEW bs, NEW k, At(b, bs, k) PROVE At(b, bs, k)'
      BY <2>1, <3>1, SameBlock DEF At, Usable
    <3>2. ASSUME NEW b, NEW bs, NEW k, Granted(bs, k) /\ FSGranted(b, bs, k)
          PROVE  Granted(bs, k)' /\ FSGranted(b, bs, k)'
      BY <2>1, <3>2 DEF Granted, FSGranted
    <3> QED BY <2>1, <3>1, <3>2 DEF Inv, InBlock
  <2>5. EnabledRespected' /\ BoxRespected'
    BY <2>1 DEF Inv, EnabledRespected, BoxRespected, riscvGetFlenArch
  <2>6. (RepresentableModes => RoundingCorrect') /\ (OrderlyPrograms => FSDirty')
    BY <2>1 DEF Inv, RoundingCorrect, FSDirty
  <2> QED BY <2>2, <2>3, <2>4, <2>5, <2>6 DEF Inv
<1> QED BY <1>1, <1>2, <1>3, <1>4 DEF Next

LEMMA Invariance == Spec => []Inv
  BY InvInit, InvStep, PTL DEF Spec

\* emitSetRM, refreshFPCW and refreshFPCR: whatever blocks are translated, kept
\* and entered again, the host is in the rounding mode fpActiveRM records.
THEOREM HostModeKnown == Spec => []ControlWordCurrent
<1>1. Inv => ControlWordCurrent
  BY DEF Inv
<1> QED BY <1>1, Invariance, PTL

\* emitBlockMask and misaW: for every configuration, no kept block executes an
\* instruction whose registers misa or FS has disabled since it was translated,
\* none traps one that they enable, and D is not left enabled without F.
THEOREM OnlyEnabledExecute == Spec => []EnabledRespected
<1>1. Inv => EnabledRespected
  BY DEF Inv
<1> QED BY <1>1, Invariance, PTL

\* riscvGetVMIRegFS and riscvWriteRegSize: the test for a boxed single that the
\* translation leaves out, because an earlier instruction of the block wrote the
\* register, is never missed.
THEOREM NarrowReadsChecked == Spec => []BoxRespected
<1>1. Inv => BoxRespected
  BY DEF Inv
<1> QED BY <1>1, Invariance, PTL

\* emitSetRM, isRMMActive and vmimtValidateBlockMaskR: every result is rounded
\* in the mode that is current, whatever mode its block was translated for,
\* provided software does not use both RMM and reserved values of frm.
THEOREM RoundedAsAsked ==
    ASSUME RepresentableModes
    PROVE  Spec => []RoundingCorrect
<1>1. Inv => RoundingCorrect
  BY DEF Inv
<1> QED BY <1>1, Invariance, PTL

\* updateFS, once per block: FS is dirty when a register or a floating point CSR
\* has been written since software wrote FS, for programs in which no block
\* writes FS after one instruction that sets it, a write of fflags among them,
\* and before another.
THEOREM WritesMakeFSDirty ==
    ASSUME OrderlyPrograms
    PROVE  Spec => []FSDirty
<1>1. Inv => FSDirty
  BY DEF Inv
<1> QED BY <1>1, Invariance, PTL

==============================================================================
