----------------------------- MODULE RiscvDecode -----------------------------
(***************************************************************************)
(* Instruction decode (riscvDecode.c, riscvInstructionInfo.h).             *)
(*                                                                         *)
(* An instruction is the sequence of its halfwords, low one first, as      *)
(* riscvGetInstruction fetches it.  A row of a decode table has a pattern, *)
(* the set of its fixed fields <<high bit, low bit, value>>; several rows  *)
(* may match an instruction and the one of highest priority, normally the  *)
(* one with most fixed bits, wins.  What only the disassembler uses        *)
(* (opcode names, formats, quiet and explicit types) is left out, so some  *)
(* of the ATTR macros are the same here.                                   *)
(***************************************************************************)
EXTENDS Integers, Sequences, FiniteSets, TLC

-----------------------------------------------------------------------------
(* Field extraction *)

\* U_<h>_<l> and S_<h>_<l>: an unsigned and a sign-extended field.
U(i, h, l) ==
    IF h < 16 THEN (i[1] \div 2^l) % 2^(h - l + 1)
    ELSE IF l >= 16 THEN (i[2] \div 2^(l - 16)) % 2^(h - l + 1)
    ELSE (i[1] \div 2^l) + 2^(16 - l) * (i[2] % 2^(h - 15))

S(i, h, l) ==
    LET u == U(i, h, l) IN IF u >= 2^(h - l) THEN u - 2^(h - l + 1) ELSE u

is4ByteInstruction(low) == low % 4 = 3

-----------------------------------------------------------------------------
(* Instruction descriptions: where each row takes its operands from *)

NA == <<"NA">>

X(h, l)  == <<"X", h, l, 0, 0>>
XP8(h, l) == <<"X", h, l, 8, 0>>
XFix(n)  == <<"X", -1, 0, n, 0>>
F(h, l)  == <<"F", h, l, 0, 0>>
FP8(h, l) == <<"F", h, l, 8, 0>>
FBits(h, l, b) == <<"F", h, l, 0, b>>

opAttrs ==
    [r1 |-> NA, r2 |-> NA, r3 |-> NA, r4 |-> NA, cs |-> "NA", csr |-> FALSE,
     wX |-> "NA", wF |-> "NA", aqrl |-> FALSE, fence |-> FALSE,
     memBits |-> "NA", unsExt |-> FALSE, rm |-> FALSE, priDelta |-> 0]

ATTR32_NOP   == opAttrs
ATTR32_NOPI  == [opAttrs EXCEPT !.r1 = X(11, 7), !.r2 = X(19, 15), !.cs = "S_31_20"]
ATTR32_JR    == ATTR32_NOPI
ATTR32_JR0   == ATTR32_NOPI
ATTR32_JALR  == ATTR32_NOPI
ATTR32_ADDI  == [ATTR32_NOPI EXCEPT !.wX = "3"]
ATTR32_NOT   == ATTR32_ADDI
ATTR32_SLLI  == [ATTR32_ADDI EXCEPT !.cs = "SHAMT_25_20"]
ATTR32_ADD   == [opAttrs EXCEPT !.r1 = X(11, 7), !.r2 = X(19, 15), !.r3 = X(24, 20), !.wX = "3"]
ATTR32_NEG   == ATTR32_ADD
ATTR32_SLTZ  == [ATTR32_ADD EXCEPT !.priDelta = 1]
ATTR32_LB    == [ATTR32_NOPI EXCEPT !.memBits = "13_12", !.unsExt = TRUE]
ATTR32_SB    == [opAttrs EXCEPT !.r1 = X(24, 20), !.r2 = X(19, 15),
                    !.cs = "S_31_25_11_7", !.memBits = "13_12"]
ATTR32_CSRRC == [opAttrs EXCEPT !.r1 = X(11, 7), !.r2 = X(19, 15), !.csr = TRUE]
ATTR32_CSRR  == [ATTR32_CSRRC EXCEPT !.priDelta = 1]
ATTR32_CSRC  == ATTR32_CSRRC
ATTR32_RDX1  == ATTR32_CSRRC
ATTR32_FRSR  == ATTR32_CSRRC
ATTR32_FSSR  == ATTR32_CSRRC
ATTR32_CSRRCI == [opAttrs EXCEPT !.r1 = X(11, 7), !.cs = "U_19_15", !.csr = TRUE]
ATTR32_CSRCI == ATTR32_CSRRCI
ATTR32_CUSTOM == opAttrs
ATTR32_FENCE == [opAttrs EXCEPT !.fence = TRUE]
ATTR32_AUIPC == [opAttrs EXCEPT !.r1 = X(11, 7), !.cs = "AUIPC"]
ATTR32_BEQ   == [opAttrs EXCEPT !.r1 = X(19, 15), !.r2 = X(24, 20), !.cs = "B"]
ATTR32_BEQZ  == ATTR32_BEQ
ATTR32_BGTZ  == [ATTR32_BEQ EXCEPT !.priDelta = 1]
ATTR32_JAL   == [opAttrs EXCEPT !.r1 = X(11, 7), !.cs = "J"]
ATTR32_J     == ATTR32_JAL
ATTR32_AMOADD == [opAttrs EXCEPT !.r1 = X(11, 7), !.r2 = X(24, 20), !.r3 = X(19, 15),
                     !.wX = "12", !.aqrl = TRUE]
ATTR32_LR    == [opAttrs EXCEPT !.r1 = X(11, 7), !.r2 = X(19, 15), !.wX = "12", !.aqrl = TRUE]
ATTR32_FENCE_VMA == [opAttrs EXCEPT !.r1 = X(19, 15), !.r2 = X(24, 20)]
ATTR32_FSQRT == [opAttrs EXCEPT !.r1 = F(11, 7), !.r2 = F(19, 15), !.wF = "25", !.rm = TRUE]
ATTR32_FADD  == [ATTR32_FSQRT EXCEPT !.r3 = F(24, 20)]
ATTR32_FMADD == [ATTR32_FADD EXCEPT !.r4 = F(31, 27)]
ATTR32_FMAX  == [ATTR32_FADD EXCEPT !.rm = FALSE]
ATTR32_FCLASS == [opAttrs EXCEPT !.r1 = X(11, 7), !.r2 = F(19, 15), !.wF = "25"]
ATTR32_FEQ   == [ATTR32_FCLASS EXCEPT !.r3 = F(24, 20)]
ATTR32_FCVT(dst, src) == [opAttrs EXCEPT !.r1 = dst, !.r2 = src, !.wX = "21_U_20",
                             !.wF = "25", !.rm = TRUE]
ATTR32_FL    == [opAttrs EXCEPT !.r1 = F(11, 7), !.r2 = X(19, 15), !.cs = "S_31_20",
                    !.memBits = "12", !.wF = "MEM"]
ATTR32_FS    == [ATTR32_FL EXCEPT !.r1 = F(24, 20), !.cs = "S_31_25_11_7"]
ATTR32_FMVFX == [opAttrs EXCEPT !.r1 = F(11, 7), !.r2 = X(19, 15), !.wF = "25", !.wX = "25"]
ATTR32_FMVXF == [opAttrs EXCEPT !.r1 = X(11, 7), !.r2 = F(19, 15), !.wF = "25", !.wX = "25"]

ATTR16_NOP   == opAttrs
ATTR16_ADD   == [opAttrs EXCEPT !.r1 = X(11, 7), !.r2 = X(11, 7), !.r3 = X(6, 2)]
ATTR16_AND   == [opAttrs EXCEPT !.r1 = XP8(9, 7), !.r2 = XP8(9, 7), !.r3 = XP8(4, 2)]
ATTR16_ADDW  == [ATTR16_AND EXCEPT !.wX = "W1"]
ATTR16_MV    == [opAttrs EXCEPT !.r1 = X(11, 7), !.r2 = X(6, 2)]
ATTR16_ADDI  == [opAttrs EXCEPT !.r1 = X(11, 7), !.r2 = X(11, 7), !.cs = "C_ADDI"]
ATTR16_ADDI16SP == [opAttrs EXCEPT !.r1 = XFix(2), !.r2 = XFix(2), !.cs = "C_ADDI16SP"]
ATTR16_ADDI4SPN == [opAttrs EXCEPT !.r1 = XP8(4, 2), !.r2 = XFix(2), !.cs = "C_ADDI4SPN"]
ATTR16_ADDIW == [ATTR16_ADDI EXCEPT !.wX = "W1"]
ATTR16_ANDI  == [opAttrs EXCEPT !.r1 = XP8(9, 7), !.r2 = XP8(9, 7), !.cs = "C_ADDI"]
ATTR16_SLLI  == [ATTR16_ADDI EXCEPT !.cs = "C_SLLI"]
ATTR16_SRAI  == [ATTR16_ANDI EXCEPT !.cs = "C_SLLI"]
ATTR16_BEQZ  == [opAttrs EXCEPT !.r1 = XP8(9, 7), !.r2 = XFix(0), !.cs = "C_B"]
ATTR16_J     == [opAttrs EXCEPT !.r1 = XFix(0), !.cs = "C_J"]
ATTR16_JAL   == [opAttrs EXCEPT !.r1 = XFix(1), !.cs = "C_J"]
ATTR16_JR    == [opAttrs EXCEPT !.r1 = XFix(0), !.r2 = X(11, 7)]
ATTR16_JALR  == [opAttrs EXCEPT !.r1 = XFix(1), !.r2 = X(11, 7)]
ATTR16_LI    == [opAttrs EXCEPT !.r1 = X(11, 7), !.r2 = XFix(0), !.cs = "C_ADDI"]
ATTR16_LUI   == [ATTR16_LI EXCEPT !.cs = "C_LUI"]
ATTR16_LD    == [opAttrs EXCEPT !.r1 = XP8(4, 2), !.r2 = XP8(9, 7), !.cs = "C_LD", !.memBits = "D"]
ATTR16_LDSP  == [opAttrs EXCEPT !.r1 = X(11, 7), !.r2 = XFix(2), !.cs = "C_LDSP", !.memBits = "D"]

\* Mutant of ATTR16_SDSP: the constant of the load.
SDSPAsLDSP == [ATTR16_LDSP EXCEPT !.r1 = X(6, 2)]

ATTR16_SDSP  == [ATTR16_LDSP EXCEPT !.r1 = X(6, 2), !.cs = "C_SDSP"]

ATTR16_LW    == [ATTR16_LD EXCEPT !.cs = "C_LW", !.memBits = "W", !.wF = "MEM"]
ATTR16_LWSP  == [ATTR16_LDSP EXCEPT !.cs = "C_LWSP", !.memBits = "W", !.wF = "MEM"]
ATTR16_SWSP  == [ATTR16_SDSP EXCEPT !.cs = "C_SWSP", !.memBits = "W"]
ATTR16_FLD   == [ATTR16_LD EXCEPT !.r1 = FP8(4, 2), !.wF = "MEM"]
ATTR16_FLDSP == [ATTR16_LDSP EXCEPT !.r1 = F(11, 7), !.wF = "MEM"]
ATTR16_FSDSP == [ATTR16_SDSP EXCEPT !.r1 = F(6, 2), !.wF = "MEM"]
ATTR16_FLW   == [ATTR16_LW EXCEPT !.r1 = FP8(4, 2)]
ATTR16_FLWSP == [ATTR16_LWSP EXCEPT !.r1 = F(11, 7)]
ATTR16_FSWSP == [ATTR16_SWSP EXCEPT !.r1 = F(6, 2), !.wF = "MEM"]

-----------------------------------------------------------------------------
(* Rows and patterns *)

\* An architecture is a set of features; the XLENs are two of them.
XLENarch(xlen) == IF xlen = 32 THEN "XLEN_32" ELSE "XLEN_64"

RVANY  == {"XLEN_32", "XLEN_64"}
RVANYM == RVANY \cup {"M"}
RVANYA == RVANY \cup {"A"}
RVANYN == RVANY \cup {"N"}
RVANYC == RVANY \cup {"C"}
RVANYCD == RVANYC \cup {"D"}
RV64   == {"XLEN_64"}
RV64C  == {"XLEN_64", "C"}
RV32C  == {"XLEN_32", "C"}
RV32CF == {"XLEN_32", "C", "F"}

\* The instruction bits a pattern fixes.
FixedBits(pattern) == UNION {f[2]..f[1] : f \in pattern}

\* Mutant of priority: the adjustments of the rows are lost.
PriorityNoDelta(pattern, attrs) == Cardinality(FixedBits(pattern))

\* VMID_DERIVE_PRIORITY + priDelta.
priority(pattern, attrs) == Cardinality(FixedBits(pattern)) + attrs.priDelta

Entry(type, attrs, arch, pattern) ==
    [type |-> type, attrs |-> attrs, arch |-> arch, pattern |-> pattern,
     priority |-> priority(pattern, attrs)]

Op(v)  == {<<6, 0, v>>}
OpW(v) == {<<6, 4, v \div 16>>, <<2, 0, v % 8>>}
Rd0    == {<<11, 7, 0>>}
F3(v)  == {<<14, 12, v>>}
F3A    == {<<14, 13, 1>>}
Rs1(v) == {<<19, 15, v>>}
Rs2(v) == {<<24, 20, v>>}
F7(v)  == {<<31, 25, v>>}
F6(v)  == {<<31, 26, v>>}
F5(v)  == {<<31, 27, v>>}
I12(v) == {<<31, 20, v>>}
R4     == {<<26, 26, 0>>}

\* The rows of attrsArray32 for R-type instructions.
Rtype ==
  { Entry("ADD_R",  ATTR32_ADD,  RVANY, F7(0)  \cup F3(0) \cup OpW(51)),
    Entry("AND_R",  ATTR32_ADD,  RVANY, F7(0)  \cup F3(7) \cup Op(51)),
    Entry("SUB_R",  ATTR32_NEG,  RVANY, F7(32) \cup Rs1(0) \cup F3(0) \cup OpW(51)),
    Entry("OR_R",   ATTR32_ADD,  RVANY, F7(0)  \cup F3(6) \cup Op(51)),
    Entry("SLT_R",  ATTR32_NEG,  RVANY, F7(0)  \cup Rs1(0) \cup F3(2) \cup Op(51)),
    Entry("SLL_R",  ATTR32_ADD,  RVANY, F7(0)  \cup F3(1) \cup OpW(51)),
    Entry("SLT_R",  ATTR32_ADD,  RVANY, F7(0)  \cup F3(2) \cup Op(51)),
    Entry("SLTU_R", ATTR32_ADD,  RVANY, F7(0)  \cup F3(3) \cup Op(51)),
    Entry("SLT_R",  ATTR32_SLTZ, RVANY, F7(0)  \cup Rs2(0) \cup F3(2) \cup Op(51)),
    Entry("SLTU_R", ATTR32_NEG,  RVANY, F7(0)  \cup Rs1(0) \cup F3(3) \cup Op(51)),
    Entry("SRA_R",  ATTR32_ADD,  RVANY, F7(32) \cup F3(5) \cup OpW(51)),
    Entry("SRL_R",  ATTR32_ADD,  RVANY, F7(0)  \cup F3(5) \cup OpW(51)),
    Entry("SUB_R",  ATTR32_ADD,  RVANY, F7(32) \cup F3(0) \cup OpW(51)),
    Entry("XOR_R",  ATTR32_ADD,  RVANY, F7(0)  \cup F3(4) \cup Op(51)),
    Entry("DIV_R",  ATTR32_ADD,  RVANYM, F7(1) \cup F3(4) \cup OpW(51)),
    Entry("DIVU_R", ATTR32_ADD,  RVANYM, F7(1) \cup F3(5) \cup OpW(51)),
    Entry("MUL_R",  ATTR32_ADD,  RVANYM, F7(1) \cup F3(0) \cup OpW(51)),
    Entry("MULH_R", ATTR32_ADD,  RVANYM, F7(1) \cup F3(1) \cup Op(51)),
    Entry("MULHSU_R", ATTR32_ADD, RVANYM, F7(1) \cup F3(2) \cup Op(51)),
    Entry("MULHU_R", ATTR32_ADD, RVANYM, F7(1) \cup F3(3) \cup Op(51)),
    Entry("REM_R",  ATTR32_ADD,  RVANYM, F7(1) \cup F3(6) \cup OpW(51)),
    Entry("REMU_R", ATTR32_ADD,  RVANYM, F7(1) \cup F3(7) \cup OpW(51)) }

\* ... for I-type instructions, loads and stores.
Itype ==
  { Entry("ADDI_I",  ATTR32_ADDI, RVANY, F3(0) \cup OpW(19)),
    Entry("ANDI_I",  ATTR32_ADDI, RVANY, F3(7) \cup Op(19)),
    Entry("JALR_I",  ATTR32_JR,   RVANY, F3(0) \cup Rd0 \cup Op(103)),
    Entry("JALR_I",  ATTR32_JR0,  RVANY, I12(0) \cup F3(0) \cup Rd0 \cup Op(103)),
    Entry("JALR_I",  ATTR32_JALR, RVANY, F3(0) \cup Op(103)),
    Entry("JALR_I",  ATTR32_NOT,  RVANY, I12(0) \cup F3(0) \cup Op(103)),
    Entry("MV_R",    ATTR32_NOT,  RVANY, I12(0) \cup F3(0) \cup Op(19)),
    Entry("ADDI_I",  ATTR32_NOPI, RVANY, I12(0) \cup Rs1(0) \cup F3(0) \cup Rd0 \cup Op(19)),
    Entry("XORI_I",  ATTR32_NOT,  RVANY, I12(4095) \cup F3(4) \cup Op(19)),
    Entry("ORI_I",   ATTR32_ADDI, RVANY, F3(6) \cup Op(19)),
    Entry("JALR_I",  ATTR32_NOPI, RVANY, I12(0) \cup Rs1(1) \cup F3(0) \cup Rd0 \cup Op(103)),
    Entry("SLTIU_I", ATTR32_NOT,  RVANY, I12(1) \cup F3(3) \cup Op(19)),
    Entry("ADDI_I",  ATTR32_NOT,  RVANY, I12(0) \cup F3(0) \cup Op(27)),
    Entry("SLLI_I",  ATTR32_SLLI, RVANY, F6(0) \cup F3(1) \cup OpW(19)),
    Entry("SLTI_I",  ATTR32_ADDI, RVANY, F3(2) \cup Op(19)),
    Entry("SLTIU_I", ATTR32_ADDI, RVANY, F3(3) \cup Op(19)),
    Entry("SRAI_I",  ATTR32_SLLI, RVANY, F6(16) \cup F3(5) \cup OpW(19)),
    Entry("SRLI_I",  ATTR32_SLLI, RVANY, F6(0) \cup F3(5) \cup OpW(19)),
    Entry("XORI_I",  ATTR32_ADDI, RVANY, F3(4) \cup Op(19)) }
  \cup {Entry("L_I", ATTR32_LB, IF f \in {3, 6} THEN RV64 ELSE RVANY, F3(f) \cup Op(3)) : f \in 0..6}
  \cup {Entry("S_I", ATTR32_SB, IF f = 3 THEN RV64 ELSE RVANY, F3(f) \cup Op(35)) : f \in 0..3}

\* ... for CSR accesses, system instructions and fences, and custom codes.
System ==
  {Entry("CSRR_I", ATTR32_CSRRC, RVANY, F3(f) \cup Op(115)) : f \in 1..3}
  \cup {Entry("CSRR_I", ATTR32_CSRC, RVANY, F3(f) \cup Rd0 \cup Op(115)) : f \in 1..3}
  \cup {Entry("CSRRI_I", ATTR32_CSRRCI, RVANY, F3(f) \cup Op(115)) : f \in 5..7}
  \cup {Entry("CSRRI_I", ATTR32_CSRCI, RVANY, F3(f) \cup Rd0 \cup Op(115)) : f \in 5..7}
  \cup {Entry("CSRR_I", ATTR32_FRSR, RVANY, I12(c) \cup Rs1(0) \cup F3(2) \cup Op(115)) : c \in 1..3}
  \cup {Entry("CSRR_I", ATTR32_FSSR, RVANY, I12(c) \cup F3(1) \cup Op(115)) : c \in 1..3}
  \cup {Entry("CUSTOM", ATTR32_CUSTOM, RVANY, Op(o)) : o \in {11, 43, 91, 123}}
  \cup
  { Entry("CSRR_I", ATTR32_CSRR, RVANY, Rs1(0) \cup F3(2) \cup Op(115)),
    Entry("CSRR_I", ATTR32_RDX1, RVANY, {<<31, 28, 12>>, <<26, 21, 0>>} \cup Rs1(0) \cup F3(2) \cup Op(115)),
    Entry("CSRR_I", ATTR32_RDX1, RVANY, {<<31, 28, 12>>, <<26, 20, 2>>} \cup Rs1(0) \cup F3(2) \cup Op(115)),
    Entry("EBREAK_I", ATTR32_NOP, RVANY, I12(1) \cup Rs1(0) \cup F3(0) \cup Rd0 \cup Op(115)),
    Entry("ECALL_I", ATTR32_NOP, RVANY, I12(0) \cup Rs1(0) \cup F3(0) \cup Rd0 \cup Op(115)),
    Entry("FENCEI_I", ATTR32_NOP, RVANY, I12(0) \cup Rs1(0) \cup F3(1) \cup Rd0 \cup Op(15)),
    Entry("MRET_I", ATTR32_NOP, RVANY, I12(770) \cup Rs1(0) \cup F3(0) \cup Rd0 \cup Op(115)),
    Entry("SRET_I", ATTR32_NOP, RVANY, I12(258) \cup Rs1(0) \cup F3(0) \cup Rd0 \cup Op(115)),
    Entry("URET_I", ATTR32_NOP, RVANYN, I12(2) \cup Rs1(0) \cup F3(0) \cup Rd0 \cup Op(115)),
    Entry("WFI_I", ATTR32_NOP, RVANY, I12(261) \cup Rs1(0) \cup F3(0) \cup Rd0 \cup Op(115)),
    Entry("FENCE_I", ATTR32_FENCE, RVANY, {<<31, 28, 0>>} \cup Rs1(0) \cup F3(0) \cup Rd0 \cup Op(15)),
    Entry("FENCE_VMA_R", ATTR32_FENCE_VMA, RVANY, F7(9) \cup F3(0) \cup Rd0 \cup Op(115)) }

\* ... for upper immediates, branches, jumps and atomics.
UBJAtype ==
  { Entry("AUIPC_U", ATTR32_AUIPC, RVANY, Op(23)),
    Entry("MV_C",    ATTR32_AUIPC, RVANY, Op(55)),
    Entry("BEQ_B",   ATTR32_BEQ,   RVANY, F3(0) \cup Op(99)),
    Entry("BEQ_B",   ATTR32_BEQZ,  RVANY, Rs2(0) \cup F3(0) \cup Op(99)),
    Entry("BGE_B",   ATTR32_BEQ,   RVANY, F3(5) \cup Op(99)),
    Entry("BGE_B",   ATTR32_BEQZ,  RVANY, Rs2(0) \cup F3(5) \cup Op(99)),
    Entry("BGE_B",   ATTR32_BGTZ,  RVANY, Rs1(0) \cup F3(5) \cup Op(99)),
    Entry("BGEU_B",  ATTR32_BEQ,   RVANY, F3(7) \cup Op(99)),
    Entry("BLT_B",   ATTR32_BEQ,   RVANY, F3(4) \cup Op(99)),
    Entry("BLT_B",   ATTR32_BEQZ,  RVANY, Rs2(0) \cup F3(4) \cup Op(99)),
    Entry("BLT_B",   ATTR32_BGTZ,  RVANY, Rs1(0) \cup F3(4) \cup Op(99)),
    Entry("BLTU_B",  ATTR32_BEQ,   RVANY, F3(6) \cup Op(99)),
    Entry("BNE_B",   ATTR32_BEQ,   RVANY, F3(1) \cup Op(99)),
    Entry("BNE_B",   ATTR32_BEQZ,  RVANY, Rs2(0) \cup F3(1) \cup Op(99)),
    Entry("JAL_J",   ATTR32_J,     RVANY, Rd0 \cup Op(111)),
    Entry("JAL_J",   ATTR32_JAL,   RVANY, Op(111)),
    Entry("AMOADD_R",  ATTR32_AMOADD, RVANYA, F5(0)  \cup F3A \cup Op(47)),
    Entry("AMOAND_R",  ATTR32_AMOADD, RVANYA, F5(12) \cup F3A \cup Op(47)),
    Entry("AMOMAX_R",  ATTR32_AMOADD, RVANYA, F5(20) \cup F3A \cup Op(47)),
    Entry("AMOMAXU_R", ATTR32_AMOADD, RVANYA, F5(28) \cup F3A \cup Op(47)),
    Entry("AMOMIN_R",  ATTR32_AMOADD, RVANYA, F5(16) \cup F3A \cup Op(47)),
    Entry("AMOMINU_R", ATTR32_AMOADD, RVANYA, F5(24) \cup F3A \cup Op(47)),
    Entry("AMOOR_R",   ATTR32_AMOADD, RVANYA, F5(8)  \cup F3A \cup Op(47)),
    Entry("AMOSWAP_R", ATTR32_AMOADD, RVANYA, F5(1)  \cup F3A \cup Op(47)),
    Entry("AMOXOR_R",  ATTR32_AMOADD, RVANYA, F5(4)  \cup F3A \cup Op(47)),
    Entry("LR_R",      ATTR32_LR,     RVANYA, F5(2)  \cup Rs2(0) \cup F3A \cup Op(47)),
    Entry("SC_R",      ATTR32_AMOADD, RVANYA, F5(3)  \cup F3A \cup Op(47)) }

\* ... for floating point instructions.
FDtype ==
  { Entry("FADD_R",   ATTR32_FADD,   RVANY, F6(0) \cup Op(83)),
    Entry("FCLASS_R", ATTR32_FCLASS, RVANY, F6(56) \cup Rs2(0) \cup F3(1) \cup Op(83)),
    Entry("FCVT_R", ATTR32_FCVT(F(11, 7), X(19, 15)), RVANY, F6(52) \cup {<<24, 22, 0>>} \cup Op(83)),
    Entry("FCVT_R", ATTR32_FCVT(X(11, 7), F(19, 15)), RVANY, F6(48) \cup {<<24, 22, 0>>} \cup Op(83)),
    Entry("FCVT_R", ATTR32_FCVT(F(11, 7), FBits(19, 15, 32)), RVANY, F7(33) \cup Rs2(0) \cup Op(83)),
    Entry("FCVT_R", ATTR32_FCVT(F(11, 7), FBits(19, 15, 64)), RVANY, F7(32) \cup Rs2(1) \cup Op(83)),
    Entry("FDIV_R",   ATTR32_FADD,   RVANY, F6(6) \cup Op(83)),
    Entry("FEQ_R",    ATTR32_FEQ,    RVANY, F6(40) \cup F3(2) \cup Op(83)),
    Entry("FLE_R",    ATTR32_FEQ,    RVANY, F6(40) \cup F3(0) \cup Op(83)),
    Entry("FLT_R",    ATTR32_FEQ,    RVANY, F6(40) \cup F3(1) \cup Op(83)),
    Entry("FMAX_R",   ATTR32_FMAX,   RVANY, F6(10) \cup F3(1) \cup Op(83)),
    Entry("FMIN_R",   ATTR32_FMAX,   RVANY, F6(10) \cup F3(0) \cup Op(83)),
    Entry("FMUL_R",   ATTR32_FADD,   RVANY, F6(4) \cup Op(83)),
    Entry("FSGNJ_R",  ATTR32_FMAX,   RVANY, F6(8) \cup F3(0) \cup Op(83)),
    Entry("FSGNJN_R", ATTR32_FMAX,   RVANY, F6(8) \cup F3(1) \cup Op(83)),
    Entry("FSGNJX_R", ATTR32_FMAX,   RVANY, F6(8) \cup F3(2) \cup Op(83)),
    Entry("MV_R",     ATTR32_FMVFX,  RVANY, F6(60) \cup Rs2(0) \cup F3(0) \cup Op(83)),
    Entry("MV_R",     ATTR32_FMVXF,  RVANY, F6(56) \cup Rs2(0) \cup F3(0) \cup Op(83)),
    Entry("FSQRT_R",  ATTR32_FSQRT,  RVANY, F6(22) \cup Rs2(0) \cup Op(83)),
    Entry("FSUB_R",   ATTR32_FADD,   RVANY, F6(2) \cup Op(83)),
    Entry("FMADD_R4",  ATTR32_FMADD, RVANY, R4 \cup Op(67)),
    Entry("FMSUB_R4",  ATTR32_FMADD, RVANY, R4 \cup Op(71)),
    Entry("FNMADD_R4", ATTR32_FMADD, RVANY, R4 \cup Op(79)),
    Entry("FNMSUB_R4", ATTR32_FMADD, RVANY, R4 \cup Op(75)),
    Entry("L_I",      ATTR32_FL,     RVANY, F3A \cup Op(7)),
    Entry("S_I",      ATTR32_FS,     RVANY, F3A \cup Op(39)) }

attrsArray32 == Rtype \cup Itype \cup System \cup UBJAtype \cup FDtype

Q(f3, q)  == {<<15, 13, f3>>, <<1, 0, q>>}
B12(v)    == {<<12, 12, v>>}
Rd16(v)   == {<<11, 7, v>>}
Rs16(v)   == {<<6, 2, v>>}

attrsArray16 ==
  { Entry("ADD_R",  ATTR16_ADD,  RVANYC, Q(4, 2) \cup B12(1)),
    Entry("ADD_R",  ATTR16_ADDW, RV64C,  {<<15, 10, 39>>, <<6, 5, 1>>, <<1, 0, 1>>}),
    Entry("AND_R",  ATTR16_AND,  RVANYC, {<<15, 10, 35>>, <<6, 5, 3>>, <<1, 0, 1>>}),
    Entry("MV_R",   ATTR16_MV,   RVANYC, Q(4, 2) \cup B12(0)),
    Entry("OR_R",   ATTR16_AND,  RVANYC, {<<15, 10, 35>>, <<6, 5, 2>>, <<1, 0, 1>>}),
    Entry("SUB_R",  ATTR16_AND,  RVANYC, {<<15, 10, 35>>, <<6, 5, 0>>, <<1, 0, 1>>}),
    Entry("SUB_R",  ATTR16_ADDW, RV64C,  {<<15, 10, 39>>, <<6, 5, 0>>, <<1, 0, 1>>}),
    Entry("XOR_R",  ATTR16_AND,  RVANYC, {<<15, 10, 35>>, <<6, 5, 1>>, <<1, 0, 1>>}),
    Entry("ADDI_I", ATTR16_ADDI, RVANYC, Q(0, 1)),
    Entry("ADDI_I", ATTR16_ADDI16SP, RVANYC, Q(3, 1) \cup Rd16(2)),
    Entry("ADDI_I", ATTR16_ADDI4SPN, RVANYC, Q(0, 0)),
    Entry("ADDI_I", ATTR16_ADDIW, RV64C, Q(1, 1)),
    Entry("ANDI_I", ATTR16_ANDI, RVANYC, Q(4, 1) \cup {<<11, 10, 2>>}),
    Entry("SLLI_I", ATTR16_SLLI, RVANYC, Q(0, 2)),
    Entry("SRAI_I", ATTR16_SRAI, RVANYC, Q(4, 1) \cup {<<11, 10, 1>>}),
    Entry("SRLI_I", ATTR16_SRAI, RVANYC, Q(4, 1) \cup {<<11, 10, 0>>}),
    Entry("ADDI_I", ATTR16_LI,   RVANYC, Q(2, 1)),
    Entry("ADDI_I", ATTR16_LUI,  RVANYC, Q(3, 1)),
    Entry("JALR_I", ATTR16_JR,   RVANYC, Q(4, 2) \cup B12(0) \cup Rs16(0)),
    Entry("JALR_I", ATTR16_JALR, RVANYC, Q(4, 2) \cup B12(1) \cup Rs16(0)),
    Entry("L_I",    ATTR16_LD,   RV64C,  Q(3, 0)),
    Entry("L_I",    ATTR16_LDSP, RV64C,  Q(3, 2)),
    Entry("L_I",    ATTR16_LW,   RVANYC, Q(2, 0)),
    Entry("L_I",    ATTR16_LWSP, RVANYC, Q(2, 2)),
    Entry("S_I",    ATTR16_LD,   RV64C,  Q(7, 0)),
    Entry("S_I",    ATTR16_SDSP, RV64C,  Q(7, 2)),
    Entry("S_I",    ATTR16_LW,   RVANYC, Q(6, 0)),
    Entry("S_I",    ATTR16_SWSP, RVANYC, Q(6, 2)),
    Entry("EBREAK_I", ATTR16_NOP, RVANYC, Q(4, 2) \cup B12(1) \cup Rd16(0) \cup Rs16(0)),
    Entry("BEQ_B",  ATTR16_BEQZ, RVANYC, Q(6, 1)),
    Entry("BNE_B",  ATTR16_BEQZ, RVANYC, Q(7, 1)),
    Entry("JAL_J",  ATTR16_J,    RVANYC, Q(5, 1)),
    Entry("JAL_J",  ATTR16_JAL,  RV32C,  Q(1, 1)),
    Entry("L_I",    ATTR16_FLD,  RVANYCD, Q(1, 0)),
    Entry("L_I",    ATTR16_FLDSP, RVANYCD, Q(1, 2)),
    Entry("L_I",    ATTR16_FLW,  RV32CF, Q(3, 0)),
    Entry("L_I",    ATTR16_FLWSP, RV32CF, Q(3, 2)),
    Entry("S_I",    ATTR16_FLD,  RVANYCD, Q(5, 0)),
    Entry("S_I",    ATTR16_FSDSP, RVANYCD, Q(5, 2)),
    Entry("S_I",    ATTR16_FLW,  RV32CF, Q(7, 0)),
    Entry("S_I",    ATTR16_FSWSP, RV32CF, Q(7, 2)),
    Entry("LAST",   ATTR16_NOP,  RVANYC, Q(0, 0) \cup {<<12, 2, 0>>}),
    Entry("LAST",   ATTR16_NOP,  RVANYC, Q(0, 0) \cup {<<12, 5, 0>>}),
    Entry("LAST",   ATTR16_NOP,  RVANYC, Q(3, 1) \cup B12(0) \cup Rs16(0)),
    Entry("LAST",   ATTR16_NOP,  RVANYC, Q(4, 2) \cup B12(0) \cup Rd16(0) \cup Rs16(0)),
    Entry("LAST",   ATTR16_NOP,  RV64C,  Q(1, 1) \cup Rd16(0)),
    Entry("LAST",   ATTR16_NOP,  RVANYC, Q(2, 2) \cup Rd16(0)),
    Entry("LAST",   ATTR16_NOP,  RV64C,  Q(3, 2) \cup Rd16(0)) }

\* The entry of both arrays for an undecoded instruction.
ATTR_LAST == [type |-> "LAST", attrs |-> opAttrs, arch |-> {}]

-----------------------------------------------------------------------------
(* Decode tables *)

Matches(i, pattern) == \A f \in pattern : U(i, f[1], f[2]) = f[3]

createDecodeTable32 == attrsArray32

\* One table for each XLEN, because the patterns are reused.
createDecodeTable16(xlen) == {e \in attrsArray16 : XLENarch(xlen) \in e.arch}

\* vmidNewDecodeTable: the rows by the bits all patterns look at, the opcode of
\* a 32-bit instruction, and the quadrant and bits 15:13 of a 16-bit one.
Rows32(ops) ==
    [op \in ops |-> {e \in createDecodeTable32 :
                        Matches(<<op>>, {f \in e.pattern : f[1] <= 6})}]

Rows16(xlen) ==
    [k \in {xlen} \X (0..2) \X (0..7) |->
        {e \in createDecodeTable16(xlen) :
            Matches(<<k[2] + 8192 * k[3]>>, {f \in e.pattern : f[1] = 1 \/ f[2] = 13})}]

\* Joining functions makes TLC evaluate the tables once.
decodeTable32 == Rows32(0..63) @@ Rows32(64..127)

decodeTables16 == Rows16(32) @@ Rows16(64)

\* vmidDecode: the matching rows of highest priority; more than one would
\* make the choice depend on the order of the table.
Best(i, rows) ==
    LET m == {e \in rows : Matches(i, e.pattern)}
    IN  {e \in m : \A o \in m : o.priority <= e.priority}

getInstructionType32(i) == Best(i, decodeTable32[U(i, 6, 0)])

getInstructionType16(i, xlen) == Best(i, decodeTables16[<<xlen, U(i, 1, 0), U(i, 15, 13)>>])

-----------------------------------------------------------------------------
(* Operands *)

getMemBits(i, m) ==
    CASE m = "NA" -> 0  [] m = "12" -> 32 * 2^U(i, 12, 12)
      [] m = "13_12" -> 8 * 2^U(i, 13, 12)  [] m = "W" -> 32  [] m = "D" -> 64

\* The X register width; forceWidth32 is for W instructions, absent at XLEN 32.
forceWidth32(i, w) == w = "W1" \/ (w = "3" /\ U(i, 3, 3) = 1)

getXWidth(i, xlen, w) ==
    CASE forceWidth32(i, w) -> 32
      [] w \in {"NA", "3"} -> xlen
      [] w = "12" -> 32 * 2^U(i, 12, 12)
      [] w = "25" -> 32 * 2^U(i, 25, 25)
      [] w = "21_U_20" -> 32 * 2^U(i, 21, 21)

getFWidth(i, w, memBits) ==
    CASE w = "NA" -> 0
      [] w = "25" -> 32 * 2^U(i, 25, 25)
      [] w = "MEM" -> IF memBits = 64 THEN 64 ELSE 32

\* Mutant of validateShift: the amount is only compared with XLEN.
ShiftUnchecked(shift, xlen, bits) == IF shift >= xlen THEN "XLEN" ELSE "OK"

\* Whether a shift amount makes the instruction illegal: because of XLEN, or
\* because of the operand size.
validateShift(shift, xlen, bits) ==
    IF shift >= xlen THEN "XLEN" ELSE IF shift >= bits THEN "LAST" ELSE "OK"

getConstant(i, c, pc) ==
    CASE c = "NA" -> 0
      [] c = "U_19_15" -> U(i, 19, 15)
      [] c = "S_31_20" -> S(i, 31, 20)
      [] c = "S_31_25_11_7" -> S(i, 31, 25) * 32 + U(i, 11, 7)
      [] c = "SHAMT_25_20" -> U(i, 25, 20)
      [] c = "AUIPC" -> S(i, 31, 12) * 4096
      [] c = "J" -> S(i, 31, 31) * 2^20 + U(i, 19, 12) * 2^12 + U(i, 20, 20) * 2^11
                      + U(i, 30, 21) * 2 + pc
      [] c = "B" -> S(i, 31, 31) * 2^12 + U(i, 7, 7) * 2^11 + U(i, 30, 25) * 2^5
                      + U(i, 11, 8) * 2 + pc
      [] c = "C_ADDI" -> S(i, 12, 12) * 32 + U(i, 6, 2)
      [] c = "C_SLLI" -> U(i, 12, 12) * 32 + U(i, 6, 2)
      [] c = "C_ADDI16SP" -> S(i, 12, 12) * 512 + U(i, 4, 3) * 128 + U(i, 5, 5) * 64
                               + U(i, 2, 2) * 32 + U(i, 6, 6) * 16
      [] c = "C_ADDI4SPN" -> U(i, 10, 7) * 64 + U(i, 12, 11) * 16 + U(i, 5, 5) * 8
                               + U(i, 6, 6) * 4
      [] c = "C_LUI" -> S(i, 12, 12) * 2^17 + U(i, 6, 2) * 2^12
      [] c = "C_LW" -> U(i, 5, 5) * 64 + U(i, 12, 10) * 8 + U(i, 6, 6) * 4
      [] c = "C_LD" -> U(i, 6, 5) * 64 + U(i, 12, 10) * 8
      [] c = "C_LWSP" -> U(i, 3, 2) * 64 + U(i, 12, 12) * 32 + U(i, 6, 4) * 4
      [] c = "C_LDSP" -> U(i, 4, 2) * 64 + U(i, 12, 12) * 32 + U(i, 6, 5) * 8
      [] c = "C_SWSP" -> U(i, 8, 7) * 64 + U(i, 12, 9) * 4
      [] c = "C_SDSP" -> U(i, 9, 7) * 64 + U(i, 12, 10) * 8
      [] c = "C_B" -> S(i, 12, 12) * 256 + U(i, 6, 5) * 64 + U(i, 2, 2) * 32
                        + U(i, 11, 10) * 8 + U(i, 4, 3) * 2 + pc
      [] c = "C_J" -> S(i, 12, 12) * 2^11 + U(i, 8, 8) * 2^10 + U(i, 10, 9) * 2^8
                        + U(i, 6, 6) * 128 + U(i, 7, 7) * 64 + U(i, 2, 2) * 32
                        + U(i, 11, 11) * 16 + U(i, 5, 3) * 2 + pc

\* A register operand: its file, its index, its width, and the unsigned
\* marker of an X register in a conversion.
getRegister(i, r, wX, wF, uns) ==
    IF r = NA THEN [file |-> "NA"]
    ELSE [file  |-> r[1],
          index |-> (IF r[2] < 0 THEN 0 ELSE U(i, r[2], r[3])) + r[4],
          bits  |-> IF r[5] # 0 THEN r[5] ELSE IF r[1] = "X" THEN wX ELSE wF,
          uns   |-> uns /\ r[1] = "X"]

\* An X register wider than XLEN makes the instruction illegal.
TooWide(r, xlen) == r.file = "X" /\ r.bits > xlen

getRM(i, rm) ==
    IF rm THEN <<"RTE", "RTZ", "RDN", "RUP", "RMM", "BAD5", "BAD6", "CURRENT">>[U(i, 14, 12) + 1]
    ELSE "NA"

fixFPPseudoInstructions(type, r) ==
    IF type \in {"FSGNJX_R", "FSGNJ_R", "FSGNJN_R"} /\ r[2] = r[3]
    THEN CASE type = "FSGNJX_R" -> "FABS_R" [] type = "FSGNJ_R" -> "FMV_R"
           [] type = "FSGNJN_R" -> "FNEG_R"
    ELSE type

interpretInstruction(i, xlen, pc, e) ==
    LET a       == e.attrs
        memBits == getMemBits(i, a.memBits)
        wX      == getXWidth(i, xlen, a.wX)
        wF      == getFWidth(i, a.wF, memBits)
        uns     == a.wX = "21_U_20" /\ U(i, 20, 20) = 1
        c       == getConstant(i, a.cs, pc)
        shift   == IF a.cs \in {"SHAMT_25_20", "C_SLLI"} THEN validateShift(c, xlen, wX) ELSE "OK"
        r       == <<getRegister(i, a.r1, wX, wF, uns), getRegister(i, a.r2, wX, wF, uns),
                     getRegister(i, a.r3, wX, wF, uns), getRegister(i, a.r4, wX, wF, uns)>>
        arch    == (e.arch \ (IF forceWidth32(i, a.wX) THEN {"XLEN_32"} ELSE {}))
                     \ (IF shift = "XLEN" \/ \E k \in 1..4 : TooWide(r[k], xlen) THEN {XLENarch(xlen)} ELSE {})
    IN  [type    |-> fixFPPseudoInstructions(IF shift = "LAST" THEN "LAST" ELSE e.type, r),
         arch    |-> arch, memBits |-> memBits, c |-> c, r |-> r,
         unsExt  |-> a.unsExt /\ U(i, 14, 14) = 1,
         csr     |-> IF a.csr THEN U(i, 31, 20) ELSE 0,
         csrUpdate |-> IF a.csr THEN U(i, 13, 12) ELSE 0,
         aqrl    |-> IF a.aqrl THEN U(i, 26, 25) ELSE 0,
         fence   |-> IF a.fence THEN <<U(i, 27, 24), U(i, 23, 20)>> ELSE <<0, 0>>,
         rm      |-> getRM(i, a.rm)]

-----------------------------------------------------------------------------
(* Decode *)

Select(rows) == IF rows = {} THEN ATTR_LAST ELSE CHOOSE e \in rows : TRUE

decode32(i, xlen, pc) == interpretInstruction(i, xlen, pc, Select(getInstructionType32(i)))

decode16(i, xlen, pc) == interpretInstruction(i, xlen, pc, Select(getInstructionType16(i, xlen)))

\* The size of an instruction is known from its first halfword.
Bytes(i) == IF is4ByteInstruction(i[1]) THEN 4 ELSE 2

riscvDecode(i, xlen, pc) ==
    IF Bytes(i) = 4 THEN decode32(i, xlen, pc) ELSE decode16(i, xlen, pc)

\* riscvGetInstruction: with compressed instructions a second halfword is
\* fetched, at an address that wraps at the top of a 32-bit space, only when
\* the first asks for it; without, four bytes are fetched in one go.
riscvGetInstruction(fetch2(_), pc, addresses, hasC) ==
    IF ~hasC \/ is4ByteInstruction(fetch2(pc))
    THEN <<fetch2(pc), fetch2((pc + 2) % addresses)>>
    ELSE <<fetch2(pc)>>

getInstructionSize(low, hasC) == IF ~hasC \/ is4ByteInstruction(low) THEN 4 ELSE 2
=============================================================================
