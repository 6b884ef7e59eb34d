------------------------------ MODULE RiscvExec ------------------------------
(***************************************************************************)
(* Fetch, decode and execution of the integer instructions (riscvDecode.c, *)
(* riscvMorph.c).  A hart with instruction `instr' at its pc decodes it and *)
(* runs the code its morph function emits.                                 *)
(*                                                                         *)
(* Data is scaled: a byte has ByteBits bits instead of 8, so a 32-bit      *)
(* register has 4 * ByteBits.  Encodings are not scaled.  What a vmimt     *)
(* primitive computes (an addition, a comparison, a memory access) is      *)
(* external to the repository and given by its meaning; what the morph     *)
(* functions make of these primitives is the model.                        *)
(***************************************************************************)
EXTENDS RiscvDecode, RiscvCSR, RVSpec

CONSTANTS Cells,        \* bytes of memory, at addresses from 0
          Fetches,      \* set of halfwords an instruction may begin with
          Seconds,      \* set of second halfwords of a 32-bit encoding
          Runs,         \* set of [instrs, harts, regs] that are executed
          CSRVals,      \* set of states of the CSR and the counters
          PCs           \* program counters of the instructions

VARIABLES phase,        \* "idle", "decoded", "run", "done"
          instr,        \* halfwords of the instruction
          info,         \* the decoded instruction
          hart,         \* [xlen, archXlen, arch, unaligned, atomicUnaligned,
                        \*  mode, TSR, TW, TVM, wfiNop, tvec_align, causeMask,
                        \*  counters, mcounteren, scounteren, cycles,
                        \*  instructions, time]
          x, mem, pc,   \* registers, memory, program counter
          csr,          \* the register a CSR instruction accesses, counter bases
          trap,         \* "none" or the exception taken
          call,         \* helper called: "none", "WFI", "ECALL", ...
          pre           \* x, mem, pc and csr before the instruction

vars == <<phase, instr, info, hart, x, mem, pc, csr, trap, call, pre>>

-----------------------------------------------------------------------------
(* Scaled values *)

SInt(v, bits) == IF Mod(v, bits) >= 2^(W(bits) - 1) THEN Mod(v, bits) - 2^W(bits) ELSE Mod(v, bits)

\* vmimtMoveExtendRR: the register's full width from its low bits.
Extend(v, from, to) == SInt(v, from) % 2^W(to)

-----------------------------------------------------------------------------
(* VMI operations, external *)

BitAnd[n \in Nat, a \in Nat, b \in Nat] ==
    IF n = 0 THEN 0 ELSE 2 * BitAnd[n - 1, a \div 2, b \div 2] + (a % 2) * (b % 2)

Truncated(a, b) ==
    LET abs(v) == IF v < 0 THEN -v ELSE v
        q      == abs(a) \div abs(b)
    IN  IF (a < 0) = (b < 0) THEN q ELSE -q

\* riscvArithResult: the results of a division by zero and of the signed
\* overflow, when the VMI asks for them.
riscvArithResult(dividend, divisor) ==
    IF divisor = 0 THEN [quotient |-> -1, remainder |-> dividend]
    ELSE [quotient |-> dividend, remainder |-> 0]

Divide(a, b, bits, signed) ==
    LET i == IF signed THEN SInt(a, bits) ELSE Mod(a, bits)
        j == IF signed THEN SInt(b, bits) ELSE Mod(b, bits)
    IN  IF j = 0 \/ (signed /\ j = -1 /\ i = -(2^(W(bits) - 1)))
        THEN riscvArithResult(i, j)
        ELSE [quotient |-> Truncated(i, j), remainder |-> i - j * Truncated(i, j)]

binop(op, a, b, bits) ==
    LET and == BitAnd[W(bits), Mod(a, bits), Mod(b, bits)]
    IN  CASE op = "ADD" -> Mod(a + b, bits)
          [] op = "SUB" -> Mod(a - b, bits)
          [] op = "AND" -> and
          [] op = "OR"  -> Mod(a, bits) + Mod(b, bits) - and
          [] op = "XOR" -> Mod(a, bits) + Mod(b, bits) - 2 * and
          [] op = "ANDN" -> Mod(a, bits) - and
          [] op = "SHL" -> Mod(Mod(a, bits) * 2^(b % W(bits)), bits)
          [] op = "SHR" -> Mod(a, bits) \div 2^(b % W(bits))
          [] op = "SAR" -> Mod(SInt(a, bits) \div 2^(b % W(bits)), bits)
          [] op = "MUL" -> Mod(Mod(a, bits) * Mod(b, bits), bits)
          [] op \in {"IDIV", "DIV"} -> Mod(Divide(a, b, bits, op = "IDIV").quotient, bits)
          [] op \in {"IREM", "REM"} -> Mod(Divide(a, b, bits, op = "IREM").remainder, bits)

cond(c, a, b, bits) ==
    CASE c = "EQ" -> Mod(a, bits) = Mod(b, bits)
      [] c = "NE" -> Mod(a, bits) # Mod(b, bits)
      [] c = "L"  -> SInt(a, bits) < SInt(b, bits)
      [] c = "NL" -> SInt(a, bits) >= SInt(b, bits)
      [] c = "B"  -> Mod(a, bits) < Mod(b, bits)
      [] c = "NB" -> Mod(a, bits) >= Mod(b, bits)

Access(a, bits) == a..(a + bits \div 8 - 1)

Value(m, a, bits) ==
    MapThenSumSet(LAMBDA k : m[a + k] * 2^(k * ByteBits), 0..(bits \div 8 - 1))

Stored(m, a, bits, v) ==
    [k \in DOMAIN m |-> IF k \in Access(a, bits) THEN (v \div 2^((k - a) * ByteBits)) % 2^ByteBits ELSE m[k]]

-----------------------------------------------------------------------------
(* The dispatch table: the operation or condition of each instruction type *)

dispatchTable ==
       "ADD_R" :> "ADD" @@ "AND_R" :> "AND" @@ "OR_R" :> "OR" @@ "SLL_R" :> "SHL"
    @@ "SLT_R" :> "L" @@ "SLTU_R" :> "B" @@ "SRA_R" :> "SAR" @@ "SRL_R" :> "SHR"
    @@ "SUB_R" :> "SUB" @@ "XOR_R" :> "XOR" @@ "DIV_R" :> "IDIV" @@ "DIVU_R" :> "DIV"
    @@ "MUL_R" :> "MUL" @@ "MULH_R" :> "IMUL" @@ "MULHU_R" :> "MUL" @@ "REM_R" :> "IREM"
    @@ "REMU_R" :> "REM" @@ "ADDI_I" :> "ADD" @@ "ANDI_I" :> "AND" @@ "ORI_I" :> "OR"
    @@ "SLTI_I" :> "L" @@ "SLTIU_I" :> "B" @@ "SLLI_I" :> "SHL" @@ "SRAI_I" :> "SAR"
    @@ "SRLI_I" :> "SHR" @@ "XORI_I" :> "XOR" @@ "AUIPC_U" :> "ADD" @@ "BEQ_B" :> "EQ"
    @@ "BGE_B" :> "NL" @@ "BGEU_B" :> "NB" @@ "BLT_B" :> "L" @@ "BLTU_B" :> "B"
    @@ "BNE_B" :> "NE" @@ "AMOADD_R" :> "ADD" @@ "AMOAND_R" :> "AND" @@ "AMOMAX_R" :> "NL"
    @@ "AMOMAXU_R" :> "NB" @@ "AMOMIN_R" :> "L" @@ "AMOMINU_R" :> "B" @@ "AMOOR_R" :> "OR"
    @@ "AMOXOR_R" :> "XOR"

-----------------------------------------------------------------------------
(* Checks made while the instruction is translated *)

\* riscvInstructionEnabled: XLEN first, then the features.
riscvInstructionEnabled(arch) ==
    /\ XLENarch(hart.xlen) \in arch
    /\ arch \ RVANY \subseteq hart.arch

\* riscvGetVMIReg: the upper sixteen X registers are absent with E.
RegistersPresent(r) ==
    \A k \in 1..4 : (r[k].file = "X" /\ r[k].index >= 16) => "E" \notin hart.arch

\* riscvMorph: the instruction is known, enabled, and its registers exist.
Legal == /\ info.type # "LAST"
         /\ riscvInstructionEnabled(info.arch)
         /\ RegistersPresent(info.r)

requireModeMT(m) == hart.mode >= m

\* emitTrapInstructionMask: not in Machine mode.
emitTrapInstructionMask(bit) == hart.mode # 3 /\ bit

-----------------------------------------------------------------------------
(* Register and control transfers *)

X0(r) == r.index = 0
reg(r) == IF X0(r) THEN 0 ELSE x[r.index]

\* riscvWriteRegSize: sign-extension to the register file's width, whatever
\* the current XLEN.
riscvWriteRegSize(r, v, srcBits) ==
    x' = IF X0(r) THEN x ELSE [x EXCEPT ![r.index] = Extend(v, srcBits, hart.archXlen)]

writeReg(r, v) == riscvWriteRegSize(r, v, r.bits)

nextPC == pc + Bytes(instr)

Finish == phase' = "done" /\ UNCHANGED <<instr, info, pre>>
Done == Finish /\ UNCHANGED <<hart, csr>>
Advance == pc' = nextPC /\ trap' = "none"

Trap(cause) == /\ trap' = cause /\ call' = "none"
               /\ UNCHANGED <<x, mem, pc>> /\ Done

Running(types) == phase = "run" /\ Legal /\ info.type \in types

NoCall == call' = "none"
r1 == info.r[1]
r2 == info.r[2]
r3 == info.r[3]

-----------------------------------------------------------------------------
(* Morph functions: arithmetic *)

Undefined == /\ phase = "run" /\ ~Legal /\ Trap("IllegalInstruction")

emitNOP == /\ Running({"FENCE_I", "FENCEI_I"})
           /\ NoCall /\ Advance /\ Done /\ UNCHANGED <<x, mem>>

emitMoveRR == /\ Running({"MV_R"})
              /\ writeReg(r1, reg(r2))
              /\ NoCall /\ Advance /\ Done /\ UNCHANGED mem

emitMoveRC == /\ Running({"MV_C"})
              /\ writeReg(r1, info.c)
              /\ NoCall /\ Advance /\ Done /\ UNCHANGED mem

emitMoveRPC == /\ Running({"AUIPC_U"})
               /\ writeReg(r1, binop(dispatchTable[info.type], pc, info.c, r1.bits))
               /\ NoCall /\ Advance /\ Done /\ UNCHANGED mem

emitBinopRRR == /\ Running({"ADD_R", "AND_R", "OR_R", "SLL_R", "SRA_R", "SRL_R", "SUB_R", "XOR_R",
                            "DIV_R", "DIVU_R", "MUL_R", "REM_R", "REMU_R"})
                /\ writeReg(r1, binop(dispatchTable[info.type], reg(r2), reg(r3), r1.bits))
                /\ NoCall /\ Advance /\ Done /\ UNCHANGED mem

\* The product of two registers as <<high half, low half>>.
Product(a, b, bits) == LET p == a * b IN <<Mod(p \div 2^W(bits), bits), Mod(p, bits)>>

emitMulopHRRR ==
    LET signed == dispatchTable[info.type] = "IMUL"
        v(r)   == IF signed THEN SInt(reg(r), r1.bits) ELSE Mod(reg(r), r1.bits)
    IN  /\ Running({"MULH_R", "MULHU_R"})
        /\ writeReg(r1, Product(v(r2), v(r3), r1.bits)[1])
        /\ NoCall /\ Advance /\ Done /\ UNCHANGED mem

\* Mutant of doNEG128H: the carry into the upper half is dropped.
NegateNoCarry(h, l, bits) == Mod(-1 - h, bits)

\* The high half of minus the value <<high, low>>; emitNegate uses the VMI's
\* negation up to 64 bits and this one for 128.
doNEG128H(h, l, bits) ==
    LET nl == Mod(-l, bits)
        nh == Mod(-1 - h, bits)
    IN  IF nl = 0 THEN Mod(nh + 1, bits) ELSE nh

\* rs1 is made positive, multiplied unsigned, and the product negated again.
emitMULHSU ==
    LET neg == SInt(reg(r2), r1.bits) < 0
        abs == IF neg THEN Mod(-reg(r2), r1.bits) ELSE Mod(reg(r2), r1.bits)
        p   == Product(abs, Mod(reg(r3), r1.bits), r1.bits)
    IN  /\ Running({"MULHSU_R"})
        /\ writeReg(r1, IF neg THEN doNEG128H(p[1], p[2], r1.bits) ELSE p[1])
        /\ NoCall /\ Advance /\ Done /\ UNCHANGED mem

Flag(b) == IF b THEN 1 ELSE 0

emitCmpopRRR == /\ Running({"SLT_R", "SLTU_R"})
                /\ riscvWriteRegSize(r1, Flag(cond(dispatchTable[info.type], reg(r2), reg(r3), r1.bits)), 8)
                /\ NoCall /\ Advance /\ Done /\ UNCHANGED mem

emitBinopRRC == /\ Running({"ADDI_I", "ANDI_I", "ORI_I", "SLLI_I", "SRAI_I", "SRLI_I", "XORI_I"})
                /\ writeReg(r1, binop(dispatchTable[info.type], reg(r2), info.c, r1.bits))
                /\ NoCall /\ Advance /\ Done /\ UNCHANGED mem

emitCmpopRRC == /\ Running({"SLTI_I", "SLTIU_I"})
                /\ riscvWriteRegSize(r1, Flag(cond(dispatchTable[info.type], reg(r2), info.c, r1.bits)), 8)
                /\ NoCall /\ Advance /\ Done /\ UNCHANGED mem

-----------------------------------------------------------------------------
(* Morph functions: memory *)

\* An access of the given size: misaligned where the constraint asks for
\* alignment, a fault where no memory is, or fine.
Outcome(a, bits, constrained, kind) ==
    IF constrained /\ a % (bits \div 8) # 0 THEN kind \o "AddressMisaligned"
    ELSE IF ~(Access(a, bits) \subseteq DOMAIN mem) THEN kind \o "AccessFault"
    ELSE "none"

getLoadStoreConstraint == ~hart.unaligned
getLoadStoreConstraintA == IF hart.atomicUnaligned THEN getLoadStoreConstraint ELSE TRUE

Address(r) == Mod(reg(r) + info.c, hart.xlen)

emitLoad ==
    LET a == Address(r2)
        o == Outcome(a, info.memBits, getLoadStoreConstraint, "Load")
        v == Value(mem, a, info.memBits)
    IN  /\ Running({"L_I"})
        /\ \/ o # "none" /\ Trap(o)
           \/ /\ o = "none"
              /\ writeReg(r1, IF info.unsExt THEN v ELSE SInt(v, info.memBits))
              /\ NoCall /\ Advance /\ Done /\ UNCHANGED mem

emitStore ==
    LET a == Address(r2)
        o == Outcome(a, info.memBits, getLoadStoreConstraint, "Store")
    IN  /\ Running({"S_I"})
        /\ \/ o # "none" /\ Trap(o)
           \/ /\ o = "none"
              /\ mem' = Stored(mem, a, info.memBits, reg(r1))
              /\ NoCall /\ Advance /\ Done /\ UNCHANGED x

\* emitAMOBinopRRRCB, emitAMOCmpopRRRCB and emitAMOSwapRRRCB.
Combine(old, src, bits) ==
    CASE info.type = "AMOSWAP_R" -> src
      [] info.type \in {"AMOADD_R", "AMOAND_R", "AMOOR_R", "AMOXOR_R"} ->
             binop(dispatchTable[info.type], old, src, bits)
      [] OTHER -> IF cond(dispatchTable[info.type], old, src, bits) THEN old ELSE src

\* A store is tried first, so that a failure is a store failure; then load,
\* combine, store and write the loaded value.
emitAMOCommonRRR ==
    LET bits == r1.bits
        a    == Mod(reg(r3), hart.xlen)
        o    == Outcome(a, bits, getLoadStoreConstraintA, "Store")
        old  == Value(mem, a, bits)
    IN  /\ Running({"AMOADD_R", "AMOAND_R", "AMOOR_R", "AMOXOR_R", "AMOSWAP_R",
                    "AMOMAX_R", "AMOMAXU_R", "AMOMIN_R", "AMOMINU_R"})
        /\ \/ o # "none" /\ Trap(o)
           \/ /\ o = "none"
              /\ mem' = Stored(mem, a, bits, Combine(old, reg(r2), bits))
              /\ writeReg(r1, old)
              /\ NoCall /\ Advance /\ Done

-----------------------------------------------------------------------------
(* Morph functions: control transfer *)

\* isTargetAddressAlignedC, checkTargetAddressAlignedR.
isTargetAddressAligned(t) == (t \div 2) % 2 = 0 \/ "C" \in hart.arch

\* Fetch drops bit 0 of an address.
JumpTo(t) == pc' = t - (t % 2) /\ trap' = "none"

emitBranchRR ==
    LET taken == cond(dispatchTable[info.type], reg(r1), reg(r2), r1.bits)
    IN  /\ Running({"BEQ_B", "BGE_B", "BGEU_B", "BLT_B", "BLTU_B", "BNE_B"})
        /\ \/ taken /\ ~isTargetAddressAligned(info.c) /\ Trap("InstructionAddressMisaligned")
           \/ /\ taken => isTargetAddressAligned(info.c)
              /\ IF taken THEN JumpTo(Mod(info.c, hart.xlen)) ELSE Advance
              /\ NoCall /\ Done /\ UNCHANGED <<x, mem>>

getLinkPC == nextPC

\* vmimtUncondJump, vmimtUncondJumpReg: the link register is written by the
\* simulator's jump, not by writeReg.
LinkedJump(lr, linkPC, target) ==
    /\ x' = IF X0(lr) THEN x ELSE [x EXCEPT ![lr.index] = Mod(linkPC, hart.archXlen)]
    /\ JumpTo(target)

emitJAL ==
    /\ Running({"JAL_J"})
    /\ \/ ~isTargetAddressAligned(info.c) /\ Trap("InstructionAddressMisaligned")
       \/ /\ isTargetAddressAligned(info.c)
          /\ LinkedJump(r1, getLinkPC, Mod(info.c, hart.xlen))
          /\ NoCall /\ Done /\ UNCHANGED mem

emitJALR ==
    LET t == binop("ADD", reg(r2), info.c, r1.bits)
    IN  /\ Running({"JALR_I"})
        /\ \/ ~isTargetAddressAligned(t) /\ Trap("InstructionAddressMisaligned")
           \/ /\ isTargetAddressAligned(t)
              /\ LinkedJump(r1, getLinkPC, t)
              /\ NoCall /\ Done /\ UNCHANGED mem

-----------------------------------------------------------------------------
(* Morph functions: system *)

Calls(helper) == /\ call' = helper /\ trap' = "none"
                 /\ Done /\ UNCHANGED <<x, mem, pc>>

emitECALL == Running({"ECALL_I"}) /\ Calls("ECALL")

emitEBREAK == Running({"EBREAK_I"}) /\ Calls("EBREAK")

emitMRET == /\ Running({"MRET_I"})
            /\ \/ ~requireModeMT(3) /\ Trap("IllegalInstruction")
               \/ requireModeMT(3) /\ Calls("MRET")

checkHaveSModeMT == hart.mode = 1 \/ "S" \in hart.arch

emitSRET ==
    LET ok == checkHaveSModeMT /\ requireModeMT(1) /\ ~emitTrapInstructionMask(hart.TSR)
    IN  /\ Running({"SRET_I"})
        /\ \/ ~ok /\ Trap("IllegalInstruction")
           \/ ok /\ Calls("SRET")

checkHaveUModeMT == hart.mode = 0 \/ "U" \in hart.arch

emitURET == /\ Running({"URET_I"})
            /\ \/ ~checkHaveUModeMT /\ Trap("IllegalInstruction")
               \/ checkHaveUModeMT /\ Calls("URET")

emitWFI ==
    LET ok == ("N" \in hart.arch \/ requireModeMT(1)) /\ ~emitTrapInstructionMask(hart.TW)
    IN  /\ Running({"WFI_I"})
        /\ \/ ~ok /\ Trap("IllegalInstruction")
           \/ /\ ok
              /\ call' = IF hart.wfiNop THEN "none" ELSE "WFI"
              /\ Advance /\ Done /\ UNCHANGED <<x, mem>>

\* Which registers are x0 selects what is invalidated.
emitSFENCE_VMA ==
    LET ok == requireModeMT(1) /\ ~emitTrapInstructionMask(hart.TVM)
    IN  /\ Running({"FENCE_VMA_R"})
        /\ \/ ~ok /\ Trap("IllegalInstruction")
           \/ /\ ok
              /\ call' = CASE X0(r1) /\ X0(r2) -> "InvalidateAll"
                           [] X0(r1) /\ ~X0(r2) -> "InvalidateAllASID"
                           [] ~X0(r1) /\ X0(r2) -> "InvalidateVA"
                           [] OTHER -> "InvalidateVAASID"
              /\ Advance /\ Done /\ UNCHANGED <<x, mem>>

emitCustomAbsent == Running({"CUSTOM"}) /\ Trap("IllegalInstruction")

-----------------------------------------------------------------------------
(* CSR instructions *)

RV_CSR_RW == 1
RV_CSR_RS == 2

doCSRRead == ~X0(r1) \/ info.csrUpdate # RV_CSR_RW
doCSRWriteRS1 == ~X0(r2) \/ info.csrUpdate = RV_CSR_RW
doCSRWriteImm == info.c # 0 \/ info.csrUpdate = RV_CSR_RW

\* A source of x0 is no register, so the constant, which is zero for CSRR,
\* is used instead. `call' notes whether the register was read and written.
emitCSRRCommon(write, useRS1) ==
    LET attrs == riscvValidateCSRAccess(hart, info.csr, write)
        old == IF doCSRRead THEN riscvEmitCSRRead(hart, csr, attrs) ELSE 0
        src == IF useRS1 THEN reg(r2) ELSE info.c
        new == CASE info.csrUpdate = RV_CSR_RW -> Mod(src, r1.bits)
                 [] info.csrUpdate = RV_CSR_RS -> binop("OR", old, src, r1.bits)
                 [] OTHER -> binop("ANDN", old, src, r1.bits)
        ok  == /\ attrs # NoCSR
               /\ ~(attrs.TVMT /\ emitTrapInstructionMask(hart.TVM))
               /\ hpmAccessValid(hart, attrs)
    IN  \/ ~ok /\ Trap("IllegalInstruction")
        \/ /\ ok
           /\ call' = IF ~doCSRRead THEN "Write" ELSE IF write THEN "ReadWrite" ELSE "Read"
           /\ csr' = IF write THEN riscvEmitCSRWrite(hart, csr, attrs, new) ELSE csr
           /\ hart' = IF write THEN CountersEnabled(hart, info.csr, csr'.value) ELSE hart
           /\ writeReg(r1, old)
           /\ Advance /\ Finish /\ UNCHANGED mem

emitCSRR == Running({"CSRR_I"}) /\ emitCSRRCommon(doCSRWriteRS1, ~X0(r2))

emitCSRRI == Running({"CSRRI_I"}) /\ emitCSRRCommon(doCSRWriteImm, FALSE)

-----------------------------------------------------------------------------
(* The specification *)

Base(xlen) == [xlen |-> xlen, archXlen |-> xlen, arch |-> {"M", "A", "C", "S", "U", "N"},
               unaligned |-> FALSE, atomicUnaligned |-> FALSE, mode |-> 3,
               TSR |-> FALSE, TW |-> FALSE, TVM |-> FALSE, wfiNop |-> FALSE, tvec_align |-> 0,
               causeMask |-> 2^W(xlen) - 1, counters |-> 0..31, mcounteren |-> 0..31, scounteren |-> 0..31,
               cycles |-> 300, instructions |-> 255, time |-> 1000]

NoInfo == [type |-> "LAST"]
NoRegs == [k \in {} |-> 0]
NoCounters == [value |-> 0, baseCycles |-> 0, baseInstructions |-> 0]
Memory == [a \in 0..(Cells - 1) |-> (a + 1) % 2^ByteBits]

Init == /\ phase = "idle" /\ instr = <<1>> /\ info = NoInfo /\ hart \in {Base(32), Base(64)}
        /\ x = NoRegs /\ mem = NoRegs /\ pc \in PCs /\ csr = NoCounters
        /\ trap = "none" /\ call = "none"
        /\ pre = [x |-> NoRegs, mem |-> NoRegs, pc |-> 0, csr |-> NoCounters]

\* An encoding is fetched and decoded.  The second halfword is fetched when
\* the first asks for it.
Fetch(low) ==
    /\ phase' = IF getInstructionSize(low, TRUE) = 4 THEN "fetch2" ELSE "decoded"
    /\ instr' = <<low>>
    /\ info' = IF phase' = "decoded" THEN riscvDecode(instr', hart.xlen, pc) ELSE NoInfo
    /\ UNCHANGED <<hart, x, mem, pc, csr, trap, call, pre>>

Fetch2(high) ==
    /\ phase' = "decoded" /\ instr' = Append(instr, high)
    /\ info' = riscvDecode(instr', hart.xlen, pc)
    /\ UNCHANGED <<hart, x, mem, pc, csr, trap, call, pre>>

\* An instruction is run in a given state.  The counter enable registers hold
\* what the hart's counters are enabled by.
Start(i, h, r) ==
    /\ phase' = "run" /\ instr' = i /\ hart' = h
    /\ info' = riscvDecode(i, h.xlen, pc)
    /\ x' = r /\ mem' = Memory
    /\ \E c \in CSRVals :
          csr' = CASE Bytes(i) = 4 /\ info'.csr = \h306 -> [c EXCEPT !.value = EnableValue(h.mcounteren)]
                   [] Bytes(i) = 4 /\ info'.csr = \h106 -> [c EXCEPT !.value = EnableValue(h.scounteren)]
                   [] OTHER -> c
    /\ pre' = [x |-> r, mem |-> Memory, pc |-> pc, csr |-> csr']
    /\ UNCHANGED <<pc, trap, call>>

riscvMorph ==
    \/ Undefined \/ emitNOP \/ emitMoveRR \/ emitMoveRC \/ emitMoveRPC
    \/ emitBinopRRR \/ emitMulopHRRR \/ emitMULHSU \/ emitCmpopRRR
    \/ emitBinopRRC \/ emitCmpopRRC \/ emitLoad \/ emitStore \/ emitAMOCommonRRR
    \/ emitBranchRR \/ emitJAL \/ emitJALR
    \/ emitECALL \/ emitEBREAK \/ emitMRET \/ emitSRET \/ emitURET \/ emitWFI
    \/ emitSFENCE_VMA \/ emitCustomAbsent \/ emitCSRR \/ emitCSRRI

Next ==
    \/ /\ phase = "idle"
       /\ \/ \E low \in Fetches : Fetch(low)
          \/ \E s \in Runs : \E i \in s.instrs : \E h \in {g \in s.harts : g.xlen = hart.xlen} : \E r \in s.regs[h] : Start(i, h, r)
    \/ phase = "fetch2" /\ \E high \in Seconds : Fetch2(high)
    \/ riscvMorph

Spec == Init /\ [][Next]_vars

-----------------------------------------------------------------------------
(* Properties of decoding *)

\* The pseudo-instructions the table introduces, as what they stand for.
BaseType(t) ==
    CASE t = "FABS_R" -> "FSGNJX_R" [] t = "FMV_R" -> "FSGNJ_R" [] t = "FNEG_R" -> "FSGNJN_R"
      [] OTHER -> t

\* The decoded instruction as an operation of the manual.
Meaning(d, xlen) ==
    LET regs == [k \in 1..Cardinality({j \in 1..4 : d.r[j].file # "NA"}) |->
                    <<d.r[k].file, d.r[k].index, d.r[k].bits, d.r[k].uns>>]
        bothX == Len(regs) = 2 /\ regs[1][1] = "X" /\ regs[2][1] = "X"
        o(t, rs) == [op |-> t, regs |-> rs, c |-> d.c, mem |-> d.memBits, uns |-> d.unsExt,
                     csr |-> <<d.csr, d.csrUpdate>>, aqrl |-> d.aqrl, fence |-> d.fence,
                     rm |-> d.rm, needs |-> d.arch \ RVANY]
        addi == d.type = "ADDI_I" \/ (d.type = "MV_R" /\ bothX)
    IN  IF d.type = "LAST" \/ XLENarch(xlen) \notin d.arch THEN Illegal
        ELSE IF addi /\ regs[2][2] = 0 THEN o("MV_C", <<regs[1]>>)
        ELSE IF addi THEN o("ADDI_I", regs)
        ELSE o(BaseType(d.type), regs)

\* Exactly one row of the table wins: the more specific rows, which stand for
\* pseudo-instructions and reserved encodings, never tie with one another.
DecodeUnambiguous ==
    phase = "decoded" =>
        Cardinality(IF Bytes(instr) = 4 THEN getInstructionType32(instr)
                    ELSE getInstructionType16(instr, hart.xlen)) <= 1

\* A 32-bit encoding is decoded as the operation the manuals give it at this
\* XLEN, with its operands, or as illegal where they say so: no
\* pseudo-instruction row takes an encoding that means something else.
DecodesAsISA ==
    (phase = "decoded" /\ Bytes(instr) = 4) =>
        LET m == Meaning32(instr, hart.xlen, pc)
        IN  m = Unspecified \/ Meaning(info, hart.xlen) = m

\* Every 16-bit encoding is decoded as the instruction it expands to at this
\* XLEN, with the scattered bits of its constant in place, or as illegal.
CompressedExpands ==
    (phase = "decoded" /\ Bytes(instr) = 2) =>
        Meaning(info, hart.xlen) = Meaning16(instr, hart.xlen, pc)

-----------------------------------------------------------------------------
(* Properties of execution: what the manuals say the instruction does *)

LOCAL BitsOf(v, n) == {k \in 0..(n - 1) : (v \div 2^k) % 2 = 1}
LOCAL FromBits(s) == MapThenSumSet(LAMBDA k : 2^k, s)

\* The result of a register operation on w-bit values a and b.
ISAResult(op, a, b, w) ==
    LET n == W(w)  ua == Mod(a, w)  ub == Mod(b, w)  sa == SInt(a, w)  sb == SInt(b, w)
        A == BitsOf(ua, n)  B == BitsOf(ub, n)
        mag(i) == IF i < 0 THEN -i ELSE i
        Quotient(i, j) == IF i * j < 0 THEN -(mag(i) \div mag(j)) ELSE mag(i) \div mag(j)
        overflow == sa = -(2^(n - 1)) /\ sb = -1
    IN  CASE op \in {"ADD_R", "ADDI_I", "AUIPC_U"} -> ua + ub
          [] op = "SUB_R" -> ua - ub
          [] op \in {"AND_R", "ANDI_I"} -> FromBits(A \cap B)
          [] op \in {"OR_R", "ORI_I"} -> FromBits(A \cup B)
          [] op \in {"XOR_R", "XORI_I"} -> FromBits((A \ B) \cup (B \ A))
          [] op \in {"SLL_R", "SLLI_I"} -> FromBits({k \in 0..(n - 1) : k - (ub % n) \in A})
          [] op \in {"SRL_R", "SRLI_I"} -> FromBits({k \in 0..(n - 1) : k + (ub % n) \in A})
          [] op \in {"SRA_R", "SRAI_I"} ->
                FromBits({k \in 0..(n - 1) : (IF k + (ub % n) < n THEN k + (ub % n) ELSE n - 1) \in A})
          [] op \in {"SLT_R", "SLTI_I"} -> IF sa < sb THEN 1 ELSE 0
          [] op \in {"SLTU_R", "SLTIU_I"} -> IF ua < ub THEN 1 ELSE 0
          [] op = "MUL_R" -> sa * sb
          [] op = "MULH_R" -> (sa * sb) \div 2^n
          [] op = "MULHU_R" -> (ua * ub) \div 2^n
          [] op = "MULHSU_R" -> (sa * ub) \div 2^n
          [] op = "DIV_R" -> IF sb = 0 THEN -1 ELSE IF overflow THEN sa ELSE Quotient(sa, sb)
          [] op = "DIVU_R" -> IF ub = 0 THEN -1 ELSE ua \div ub
          [] op = "REM_R" -> IF sb = 0 THEN sa ELSE IF overflow THEN 0 ELSE sa - sb * Quotient(sa, sb)
          [] op = "REMU_R" -> IF ub = 0 THEN ua ELSE ua % ub
          [] OTHER -> 0

ISAAmo(op, old, src, w) ==
    LET lt == SInt(old, w) < SInt(src, w)  below == Mod(old, w) < Mod(src, w)
    IN  CASE op = "AMOSWAP_R" -> src
          [] op = "AMOADD_R" -> old + src
          [] op = "AMOAND_R" -> ISAResult("AND_R", old, src, w)
          [] op = "AMOOR_R" -> ISAResult("OR_R", old, src, w)
          [] op = "AMOXOR_R" -> ISAResult("XOR_R", old, src, w)
          [] op = "AMOMIN_R" -> IF lt THEN old ELSE src
          [] op = "AMOMAX_R" -> IF lt THEN src ELSE old
          [] op = "AMOMINU_R" -> IF below THEN old ELSE src
          [] op = "AMOMAXU_R" -> IF below THEN src ELSE old

ISATaken(op, a, b, w) ==
    CASE op = "BEQ_B" -> Mod(a, w) = Mod(b, w) [] op = "BNE_B" -> Mod(a, w) # Mod(b, w)
      [] op = "BLT_B" -> SInt(a, w) < SInt(b, w) [] op = "BGE_B" -> SInt(b, w) <= SInt(a, w)
      [] op = "BLTU_B" -> Mod(a, w) < Mod(b, w) [] op = "BGEU_B" -> Mod(b, w) <= Mod(a, w)

\* Privileged instructions are illegal below their mode, and below Machine
\* mode where mstatus traps them.
ISAPrivileged(op) ==
    LET trapped(bit) == hart.mode < 3 /\ bit
    IN  CASE op = "MRET_I" -> hart.mode = 3
          [] op = "SRET_I" -> hart.mode >= 1 /\ ("S" \in hart.arch \/ hart.mode = 1) /\ ~trapped(hart.TSR)
          [] op = "FENCE_VMA_R" -> hart.mode >= 1 /\ ~trapped(hart.TVM)
          [] op = "WFI_I" -> (hart.mode >= 1 \/ "N" \in hart.arch) /\ ~trapped(hart.TW)
          [] op = "CUSTOM" -> FALSE
          [] OTHER -> TRUE

ISAHelper(op) ==
    CASE op = "MRET_I" -> "MRET" [] op = "SRET_I" -> "SRET" [] op = "URET_I" -> "URET"
      [] op = "ECALL_I" -> "ECALL" [] op = "EBREAK_I" -> "EBREAK" [] OTHER -> "none"

\* The register is not written when the source is x0 or a zero immediate
\* (unless CSRRW), and not read when CSRRW discards the value.
ISAAccess(i) ==
    LET rw == Field(i, 13, 12) = 1
        rd == Field(i, 11, 7)  src == Field(i, 19, 15)
    IN  IF rw /\ rd = 0 THEN "Write" ELSE IF rw \/ src # 0 THEN "ReadWrite" ELSE "Read"

\* The registers of debug mode, which the manuals define in no other mode.
DebugCSRs == \h7B0..\h7B2

\* The registers the manuals define for the hart's features.
ISACSRPresent(n) ==
    LET has(f) == f \in hart.arch
        counter == n % 32 \in hart.counters
    IN  CASE n \in {\h000, \h004, \h005} \cup (\h040..\h044) -> has("N")
          [] n \in 1..3 -> has("F") \/ has("D")
          [] n \in (\hC00..\hC1F) \cup (\hB00..\hB1F) -> counter /\ n # \hB01
          [] n \in (\hC80..\hC9F) \cup (\hB80..\hB9F) -> counter /\ hart.xlen = 32 /\ n # \hB81
          [] n \in {\h100, \h104, \h105, \h106, \h180} \cup (\h140..\h144) -> has("S")
          [] n \in {\h102, \h103} -> has("S") /\ has("N")
          [] n \in {\h302, \h303} -> has("S") \/ has("N")
          [] n = \h306 -> has("S") \/ has("U")
          [] n \in {\h3A1, \h3A3} -> hart.xlen = 32
          [] OTHER -> n \in {\h300, \h301, \h304, \h305, \h3A0, \h3A2} \cup (\h340..\h344)
                              \cup (\h3B0..\h3BF) \cup (\hF11..\hF14) \cup (\h323..\h33F) \cup (\h7A0..\h7A3)

\* Bits 9:8 of the number give the lowest mode, bits 11:10 read-only access;
\* TVM and the counter enables restrict further.
ISACSRAllowed(n, access) ==
    /\ ISACSRPresent(n)
    /\ hart.mode >= (n \div 256) % 4
    /\ n >= \hC00 => access = "Read"
    /\ n = \h180 => ~(hart.mode = 1 /\ hart.TVM)
    /\ n \in \hC00..\hCFF => /\ hart.mode < 3 => n % 32 \in hart.mcounteren
                             /\ hart.mode = 0 /\ "S" \in hart.arch => n % 32 \in hart.scounteren

Two64 == 2^W(64)
Half  == 2^W(32)

\* The counters as the instruction, and as the next one, reads them.
Count(k, c, after) == IF k = 0 THEN (hart.cycles + after - c.baseCycles) % Two64
                      ELSE (hart.instructions + after - c.baseInstructions) % Two64
Counter(n) == n \in {\hC00, \hC02, \hC80, \hC82, \hB00, \hB02, \hB80, \hB82}
Upper(n)   == (n \div 128) % 2 = 1

ISACSRValue(n) ==
    LET half(v) == IF Upper(n) THEN v \div Half ELSE v % 2^W(hart.xlen)
    IN  IF Counter(n) THEN half(Count(n % 32, pre.csr, 0))
        ELSE IF n \in {\hC01, \hC81} THEN half(hart.time)
        ELSE IF n \in (\hC03..\hCFF) \cup (\hB03..\hBFF) \cup (\h323..\h33F) \cup (\h7A0..\h7A3) THEN 0
        ELSE pre.csr.value

\* What a write of v leaves in a register of which the bits are not all
\* writable, and what the next instruction reads of a counter: the one that
\* writes it does not count.
ISACSRWritten(n, v) ==
    LET vectored == v % 2 = 1 /\ hart.tvec_align # 0
        old == Count(n % 32, pre.csr, 0)
    IN  CASE Counter(n) -> Count(n % 32, csr, 1) = IF Upper(n) THEN (old % Half) + Half * v
                                                   ELSE IF hart.xlen = 32 THEN old - (old % Half) + v ELSE v
          [] n \in {\h005, \h105, \h305} ->
                /\ csr.value % 4 = v % 2
                /\ vectored => csr.value - 1 = v - (v % hart.tvec_align)
                /\ ~vectored => csr.value \div 4 = v \div 4
          [] n \in {\h041, \h141, \h341} ->
                csr.value = v - (v % (IF "C" \in hart.arch THEN 2 ELSE 4))
          [] n \in {\h040, \h043, \h140, \h143, \h340, \h343} -> csr.value = v
          [] n \in {\h042, \h142, \h342} ->
                LET bits(u) == BitsOf(u, W(hart.xlen))  held == bits(hart.causeMask)
                IN  bits(csr.value) = (bits(v) \cap held) \cup (bits(pre.csr.value) \ held)
          [] n \in {\h106, \h306} ->
                LET enabled == BitsOf(v, W(32)) \cap hart.counters
                IN  /\ BitsOf(csr.value, W(hart.xlen)) = enabled
                    /\ enabled = IF n = \h306 THEN hart.mcounteren ELSE hart.scounteren
          [] OTHER -> csr = pre.csr

ISAStep(o) ==
    LET n(k)   == o.regs[k][2]
        w      == IF o.regs = <<>> THEN hart.xlen ELSE o.regs[1][3]
        v(k)   == IF n(k) = 0 THEN 0 ELSE pre.x[n(k)]
        len    == IF Bytes(instr) = 4 THEN 4 ELSE 2
        state(rs, m, p) == [x |-> rs, mem |-> m, pc |-> p, trap |-> "none"]
        fails(t) == [x |-> pre.x, mem |-> pre.mem, pc |-> pre.pc, trap |-> t]
        set(val) == IF n(1) = 0 THEN pre.x ELSE [pre.x EXCEPT ![n(1)] = SInt(val, w) % 2^W(hart.archXlen)]
        a      == (v(IF o.op \in {"L_I", "S_I"} THEN 2 ELSE 3) + o.c) % 2^W(hart.xlen)
        size   == (IF o.mem = 0 THEN w ELSE o.mem) \div 8
        amo    == o.needs \ {"C"} = {"A"}
        mayMis == IF amo THEN hart.atomicUnaligned /\ hart.unaligned ELSE hart.unaligned
        fault  == IF a % size # 0 /\ ~mayMis THEN "AddressMisaligned"
                  ELSE IF a + size > Cells THEN "AccessFault" ELSE "none"
        word   == MapThenSumSet(LAMBDA k : pre.mem[a + k] * 2^(k * ByteBits), 0..(size - 1))
        put(val) == [k \in DOMAIN pre.mem |->
                        IF k >= a /\ k < a + size THEN (val \div 2^((k - a) * ByteBits)) % 2^ByteBits ELSE pre.mem[k]]
        to(t, rs) == IF "C" \in hart.arch \/ (t \div 2) % 2 = 0 THEN state(rs, pre.mem, t - (t % 2))
                     ELSE fails("InstructionAddressMisaligned")
        old    == ISACSRValue(o.csr[1])
        illegal == \/ o = Illegal \/ ~(o.needs \subseteq hart.arch) \/ ~ISAPrivileged(o.op)
                   \/ "E" \in hart.arch /\ \E k \in DOMAIN o.regs : n(k) > 15
    IN  IF illegal THEN fails("IllegalInstruction") ELSE
        CASE o.op = "MV_C" -> state(set(o.c), pre.mem, pre.pc + len)
          [] o.op = "AUIPC_U" -> state(set(pre.pc + o.c), pre.mem, pre.pc + len)
          [] o.op = "L_I" -> IF fault # "none" THEN fails("Load" \o fault)
                             ELSE state(set(IF o.uns THEN word ELSE SInt(word, o.mem)), pre.mem, pre.pc + len)
          [] o.op = "S_I" -> IF fault # "none" THEN fails("Store" \o fault)
                             ELSE state(pre.x, put(v(1)), pre.pc + len)
          [] amo -> IF fault # "none" THEN fails("Store" \o fault)
                    ELSE state(set(word), put(Mod(ISAAmo(o.op, word, v(2), w), w)), pre.pc + len)
          [] o.op = "JAL_J" -> to(o.c % 2^W(hart.xlen), set(pre.pc + len))
          [] o.op = "JALR_I" -> to((v(2) + o.c) % 2^W(hart.xlen), set(pre.pc + len))
          [] o.op \in {"BEQ_B", "BNE_B", "BLT_B", "BGE_B", "BLTU_B", "BGEU_B"} ->
                IF ISATaken(o.op, v(1), v(2), w) THEN to(o.c % 2^W(hart.xlen), pre.x)
                ELSE state(pre.x, pre.mem, pre.pc + len)
          [] o.op \in {"CSRR_I", "CSRRI_I"} ->
                IF ISACSRAllowed(o.csr[1], ISAAccess(instr)) THEN state(set(old), pre.mem, pre.pc + len)
                ELSE fails("IllegalInstruction")
          [] ISAHelper(o.op) # "none" -> state(pre.x, pre.mem, pre.pc)
          [] o.op \in {"WFI_I", "FENCE_VMA_R", "FENCE_I", "FENCEI_I"} -> state(pre.x, pre.mem, pre.pc + len)
          [] OTHER -> state(set(ISAResult(o.op, v(2), IF Len(o.regs) = 3 THEN v(3) ELSE o.c, w)),
                            pre.mem, pre.pc + len)

\* The value a CSR instruction writes.
ISAUpdate(o) ==
    LET old == ISACSRValue(o.csr[1])
        w   == hart.xlen
        src == IF o.op = "CSRR_I" THEN (IF o.regs[2][2] = 0 THEN 0 ELSE pre.x[o.regs[2][2]]) ELSE o.c
    IN  CASE o.csr[2] = 1 -> Mod(src, w) [] o.csr[2] = 2 -> ISAResult("OR_R", old, src, w) % 2^W(w)
          [] OTHER -> (old - ISAResult("AND_R", old, src, w)) % 2^W(w)

\* An instruction that was run did what the manuals define for its encoding:
\* the registers, sign-extended to the width of the register file, the memory
\* and the program counter, or the exception taken with nothing changed; it
\* called the helper it should.  The registers of debug mode are left to
\* DebugCSRsUndefined.
ExecutesAsISA ==
    phase = "done" =>
        LET i == instr
            o == IF Bytes(i) = 4 THEN Meaning32(i, hart.xlen, pre.pc) ELSE Meaning16(i, hart.xlen, pre.pc)
        IN  o = Unspecified \/ o.csr[1] \in DebugCSRs \/
            /\ [x |-> x, mem |-> mem, pc |-> pc, trap |-> trap] = ISAStep(o)
            /\ (trap = "none" /\ ISAHelper(o.op) # "none") => call = ISAHelper(o.op)

\* A CSR instruction reads and writes the register exactly when the manuals say
\* so (a source or destination of x0 suppresses side effects), leaves in it the
\* value that can be written, and the next instruction reads in a counter what
\* was written to it, the other half kept (riscvCSR.c, cycleW and instretW).
CSRAccessAsISA ==
    (phase = "done" /\ trap = "none" /\ info.type \in {"CSRR_I", "CSRRI_I"}) =>
        LET o == Meaning32(instr, hart.xlen, pre.pc) IN
        /\ call = ISAAccess(instr)
        /\ IF call = "Read" THEN csr = pre.csr ELSE ISACSRWritten(o.csr[1], ISAUpdate(o))

\* The registers of debug mode are undefined in every mode that the model has,
\* as the comment above their rows of the table says: access to them traps.
DebugCSRsUndefined ==
    (phase = "done" /\ info.type \in {"CSRR_I", "CSRRI_I"} /\ info.csr \in DebugCSRs) =>
        trap = "IllegalInstruction"
=============================================================================
