------------------------------- MODULE RVSpec --------------------------------
(***************************************************************************)
(* What the RISC-V user and privileged manuals say of an encoding: the     *)
(* operation it stands for and its operands, or that it is illegal.  The   *)
(* opcode map is laid out as in the manuals, by opcode, funct3 and funct7, *)
(* immediates by the list of the bits each instruction bit provides, and a *)
(* compressed instruction by the instruction it expands to.  This is the   *)
(* reference RiscvDecode is compared with; it models no code.              *)
(***************************************************************************)
EXTENDS Integers, Sequences, FiniteSetsExt, TLC

LOCAL Bit(i, n) == IF n < 16 THEN (i[1] \div 2^n) % 2 ELSE (i[2] \div 2^(n - 16)) % 2

\* The value whose bits `bits' are, from left to right, the bits of the
\* instruction from `top' downwards.
Scatter(i, top, bits) ==
    MapThenSumSet(LAMBDA k : 2^bits[k] * Bit(i, top - k + 1), DOMAIN bits)

Field(i, h, l) ==
    LET low(n) == i[1] % 2^n  high(n) == i[2] % 2^n
    IN  IF l > 15 THEN high(h - 15) \div 2^(l - 16)
        ELSE IF h < 16 THEN low(h + 1) \div 2^l
        ELSE (i[1] \div 2^l) + high(h - 15) * 2^(16 - l)

\* Sign extension from bit n.
Signed(v, n) == IF v >= 2^n THEN v - 2^(n + 1) ELSE v

-----------------------------------------------------------------------------
(* Operations *)

XReg(n, w) == <<"X", n, w, FALSE>>
UReg(n, w) == <<"X", n, w, TRUE>>
FReg(n, w) == <<"F", n, w, FALSE>>

Operation(op, regs) ==
    [op |-> op, regs |-> regs, c |-> 0, mem |-> 0, uns |-> FALSE, csr |-> <<0, 0>>,
     aqrl |-> 0, fence |-> <<0, 0>>, rm |-> "NA", needs |-> {}]

Illegal == Operation("ILLEGAL", <<>>)

\* An encoding whose reserved fields the manuals leave to later extensions.
Unspecified == Operation("UNSPECIFIED", <<>>)

Imm(o, v) == [o EXCEPT !.c = v]
Need(o, s) == [o EXCEPT !.needs = s]

\* ADDI with a zero source is a load of a constant, whichever encoding it has.
Addi(rd, rs, w, v) ==
    IF rs = 0 THEN Imm(Operation("MV_C", <<XReg(rd, w)>>), v)
    ELSE Imm(Operation("ADDI_I", <<XReg(rd, w), XReg(rs, w)>>), v)

-----------------------------------------------------------------------------
(* 32-bit instructions *)

OP == <<0, 0>> :> "ADD_R"  @@ <<32, 0>> :> "SUB_R" @@ <<0, 1>> :> "SLL_R"
   @@ <<0, 2>> :> "SLT_R"  @@ <<0, 3>> :> "SLTU_R" @@ <<0, 4>> :> "XOR_R"
   @@ <<0, 5>> :> "SRL_R"  @@ <<32, 5>> :> "SRA_R" @@ <<0, 6>> :> "OR_R"
   @@ <<0, 7>> :> "AND_R"  @@ <<1, 0>> :> "MUL_R"  @@ <<1, 1>> :> "MULH_R"
   @@ <<1, 2>> :> "MULHSU_R" @@ <<1, 3>> :> "MULHU_R" @@ <<1, 4>> :> "DIV_R"
   @@ <<1, 5>> :> "DIVU_R" @@ <<1, 6>> :> "REM_R"  @@ <<1, 7>> :> "REMU_R"

OP_32 == {<<0, 0>>, <<32, 0>>, <<0, 1>>, <<0, 5>>, <<32, 5>>,
          <<1, 0>>, <<1, 4>>, <<1, 5>>, <<1, 6>>, <<1, 7>>}

OP_IMM == 0 :> "ADDI_I" @@ 2 :> "SLTI_I" @@ 3 :> "SLTIU_I" @@ 4 :> "XORI_I"
       @@ 6 :> "ORI_I" @@ 7 :> "ANDI_I"

BRANCH == 0 :> "BEQ_B" @@ 1 :> "BNE_B" @@ 4 :> "BLT_B" @@ 5 :> "BGE_B"
       @@ 6 :> "BLTU_B" @@ 7 :> "BGEU_B"

AMO == 0 :> "AMOADD_R" @@ 1 :> "AMOSWAP_R" @@ 3 :> "SC_R" @@ 4 :> "AMOXOR_R"
    @@ 8 :> "AMOOR_R" @@ 12 :> "AMOAND_R" @@ 16 :> "AMOMIN_R" @@ 20 :> "AMOMAX_R"
    @@ 24 :> "AMOMINU_R" @@ 28 :> "AMOMAXU_R"

PRIV == 0 :> "ECALL_I" @@ 1 :> "EBREAK_I" @@ 2 :> "URET_I" @@ 258 :> "SRET_I"
     @@ 770 :> "MRET_I" @@ 261 :> "WFI_I"

FARITH == 0 :> "FADD_R" @@ 1 :> "FSUB_R" @@ 2 :> "FMUL_R" @@ 3 :> "FDIV_R"
FSIGN  == 0 :> "FSGNJ_R" @@ 1 :> "FSGNJN_R" @@ 2 :> "FSGNJX_R"
FMINMAX == 0 :> "FMIN_R" @@ 1 :> "FMAX_R"
FCMP   == 0 :> "FLE_R" @@ 1 :> "FLT_R" @@ 2 :> "FEQ_R"
FMA    == 67 :> "FMADD_R4" @@ 71 :> "FMSUB_R4" @@ 75 :> "FNMSUB_R4" @@ 79 :> "FNMADD_R4"

RoundingMode == <<"RTE", "RTZ", "RDN", "RUP", "RMM", "BAD5", "BAD6", "CURRENT">>

LOCAL Arithmetic(i, w) ==
    LET k == <<Field(i, 31, 25), Field(i, 14, 12)>>
    IN  Need(Operation(OP[k], <<XReg(Field(i, 11, 7), w), XReg(Field(i, 19, 15), w),
                                XReg(Field(i, 24, 20), w)>>),
             IF k[1] = 1 THEN {"M"} ELSE {})

\* Immediate operations; the shift amount has log2 w bits and the bits above
\* it select the shift.
LOCAL Immediate(i, w) ==
    LET f3 == Field(i, 14, 12)  rd == Field(i, 11, 7)  rs == Field(i, 19, 15)
        n  == IF w = 64 THEN 26 ELSE 25
        hi == Field(i, 31, n) * 2^(n - 25)
        sh == Field(i, n - 1, 20)
        Shift(op) == Imm(Operation(op, <<XReg(rd, w), XReg(rs, w)>>), sh)
        v  == Signed(Field(i, 31, 20), 11)
    IN  CASE f3 = 0 -> Addi(rd, rs, w, v)
          [] f3 = 1 -> IF hi = 0 THEN Shift("SLLI_I") ELSE Illegal
          [] f3 = 5 -> IF hi = 0 THEN Shift("SRLI_I") ELSE IF hi = 32 THEN Shift("SRAI_I") ELSE Illegal
          [] OTHER  -> Imm(Operation(OP_IMM[f3], <<XReg(rd, w), XReg(rs, w)>>), v)

LOCAL SystemOp(i, xlen) ==
    LET f3 == Field(i, 14, 12)  rd == Field(i, 11, 7)  rs1 == Field(i, 19, 15)
        rs2 == Field(i, 24, 20)  csr == Field(i, 31, 20)
    IN  CASE f3 \in 1..3 -> [Operation("CSRR_I", <<XReg(rd, xlen), XReg(rs1, xlen)>>)
                                EXCEPT !.csr = <<csr, f3>>]
          [] f3 \in 5..7 -> [Operation("CSRRI_I", <<XReg(rd, xlen)>>)
                                EXCEPT !.csr = <<csr, f3 - 4>>, !.c = rs1]
          [] f3 = 0 /\ rd = 0 /\ rs1 = 0 /\ csr \in DOMAIN PRIV ->
                Need(Operation(PRIV[csr], <<>>), IF csr = 2 THEN {"N"} ELSE {})
          [] f3 = 0 /\ rd = 0 /\ Field(i, 31, 25) = 9 ->
                Operation("FENCE_VMA_R", <<XReg(rs1, xlen), XReg(rs2, xlen)>>)
          [] OTHER -> Illegal

LOCAL AtomicOp(i) ==
    LET f5 == Field(i, 31, 27)  w == 32 * 2^Field(i, 12, 12)
        rd == XReg(Field(i, 11, 7), w)  rs1 == XReg(Field(i, 19, 15), w)
        rs2 == XReg(Field(i, 24, 20), w)
        A(o) == [o EXCEPT !.aqrl = Field(i, 26, 25), !.needs = {"A"}]
    IN  CASE f5 = 2 /\ rs2[2] = 0 -> A(Operation("LR_R", <<rd, rs1>>))
          [] f5 \in DOMAIN AMO -> A(Operation(AMO[f5], <<rd, rs2, rs1>>))
          [] OTHER -> Illegal

LOCAL FloatOp(i, xlen) ==
    LET f5 == Field(i, 31, 27)  fmt == Field(i, 25, 25)  w == 32 * 2^fmt
        f3 == Field(i, 14, 12)  sub == Field(i, 24, 20)
        fd == FReg(Field(i, 11, 7), w)  fs1 == FReg(Field(i, 19, 15), w)  fs2 == FReg(sub, w)
        xd == XReg(Field(i, 11, 7), xlen)
        cw == 32 * 2^Field(i, 21, 21)
        CvtX(n) == IF Field(i, 20, 20) = 1 THEN UReg(n, cw) ELSE XReg(n, cw)
        Round(o) == [o EXCEPT !.rm = RoundingMode[f3 + 1]]
    IN  CASE f5 \in DOMAIN FARITH -> Round(Operation(FARITH[f5], <<fd, fs1, fs2>>))
          [] f5 = 11 /\ sub = 0 -> Round(Operation("FSQRT_R", <<fd, fs1>>))
          [] f5 = 4 /\ f3 \in DOMAIN FSIGN -> Operation(FSIGN[f3], <<fd, fs1, fs2>>)
          [] f5 = 5 /\ f3 \in DOMAIN FMINMAX -> Operation(FMINMAX[f3], <<fd, fs1, fs2>>)
          [] f5 = 20 /\ f3 \in DOMAIN FCMP -> Operation(FCMP[f3], <<xd, fs1, fs2>>)
          [] f5 = 8 /\ sub + fmt = 1 -> Round(Operation("FCVT_R", <<fd, FReg(fs1[2], 32 * 2^sub)>>))
          [] f5 = 24 /\ sub < 4 /\ cw <= xlen -> Round(Operation("FCVT_R", <<CvtX(xd[2]), fs1>>))
          [] f5 = 26 /\ sub < 4 /\ cw <= xlen -> Round(Operation("FCVT_R", <<fd, CvtX(fs1[2])>>))
          [] f5 = 28 /\ sub = 0 /\ f3 = 1 -> Operation("FCLASS_R", <<xd, fs1>>)
          [] f5 = 28 /\ sub = 0 /\ f3 = 0 /\ w <= xlen -> Operation("MV_R", <<XReg(xd[2], w), fs1>>)
          [] f5 = 30 /\ sub = 0 /\ f3 = 0 /\ w <= xlen -> Operation("MV_R", <<fd, XReg(fs1[2], w)>>)
          [] OTHER -> Illegal

Meaning32(i, xlen, pc) ==
    LET op == Field(i, 6, 0)   f3 == Field(i, 14, 12)  f7 == Field(i, 31, 25)
        rd == Field(i, 11, 7)  rs1 == Field(i, 19, 15)  rs2 == Field(i, 24, 20)
        I  == Signed(Field(i, 31, 20), 11)
        St == Signed(Scatter(i, 31, <<11, 10, 9, 8, 7, 6, 5>>) + Scatter(i, 11, <<4, 3, 2, 1, 0>>), 11)
        B  == Signed(Scatter(i, 31, <<12, 10, 9, 8, 7, 6, 5>>) + Scatter(i, 11, <<4, 3, 2, 1, 11>>), 12)
        J  == Signed(Scatter(i, 31, <<20, 10, 9, 8, 7, 6, 5, 4, 3, 2, 1, 11,
                                      19, 18, 17, 16, 15, 14, 13, 12>>), 20)
        Up == 4096 * Signed(Field(i, 31, 12), 19)
        fw == 32 * 2^Field(i, 12, 12)
        Mem(o, v, w) == [o EXCEPT !.c = v, !.mem = w]
    IN  CASE op = 51 /\ <<f7, f3>> \in DOMAIN OP -> Arithmetic(i, xlen)
          [] op = 59 /\ xlen = 64 /\ <<f7, f3>> \in OP_32 -> Arithmetic(i, 32)
          [] op = 19 -> Immediate(i, xlen)
          [] op = 27 /\ xlen = 64 /\ f3 \in {0, 1, 5} -> Immediate(i, 32)
          [] op = 3 /\ f3 # 7 /\ (xlen = 64 \/ f3 \notin {3, 6}) ->
                [Mem(Operation("L_I", <<XReg(rd, xlen), XReg(rs1, xlen)>>), I, 8 * 2^(f3 % 4))
                    EXCEPT !.uns = f3 >= 4]
          [] op = 35 /\ f3 <= (IF xlen = 64 THEN 3 ELSE 2) ->
                Mem(Operation("S_I", <<XReg(rs2, xlen), XReg(rs1, xlen)>>), St, 8 * 2^f3)
          [] op = 99 /\ f3 \in DOMAIN BRANCH ->
                Imm(Operation(BRANCH[f3], <<XReg(rs1, xlen), XReg(rs2, xlen)>>), B + pc)
          [] op = 103 /\ f3 = 0 -> Imm(Operation("JALR_I", <<XReg(rd, xlen), XReg(rs1, xlen)>>), I)
          [] op = 111 -> Imm(Operation("JAL_J", <<XReg(rd, xlen)>>), J + pc)
          [] op = 55 -> Imm(Operation("MV_C", <<XReg(rd, xlen)>>), Up)
          [] op = 23 -> Imm(Operation("AUIPC_U", <<XReg(rd, xlen)>>), Up)
          [] op = 115 -> SystemOp(i, xlen)
          [] op = 15 /\ f3 < 2 ->
                IF Field(i, 31, 28) # 0 \/ rd # 0 \/ rs1 # 0 THEN Unspecified
                ELSE IF f3 = 0 THEN [Operation("FENCE_I", <<>>)
                                        EXCEPT !.fence = <<Field(i, 27, 24), Field(i, 23, 20)>>]
                ELSE IF Field(i, 31, 20) = 0 THEN Operation("FENCEI_I", <<>>) ELSE Unspecified
          [] op = 47 /\ (f3 = 2 \/ (f3 = 3 /\ xlen = 64)) -> AtomicOp(i)
          [] op = 7 /\ f3 \in {2, 3} -> Mem(Operation("L_I", <<FReg(rd, fw), XReg(rs1, xlen)>>), I, fw)
          [] op = 39 /\ f3 \in {2, 3} -> Mem(Operation("S_I", <<FReg(rs2, fw), XReg(rs1, xlen)>>), St, fw)
          [] op = 83 /\ Field(i, 26, 26) = 0 -> FloatOp(i, xlen)
          [] op \in DOMAIN FMA /\ Field(i, 26, 26) = 0 ->
                LET w == 32 * 2^Field(i, 25, 25)
                IN  [Operation(FMA[op], <<FReg(rd, w), FReg(rs1, w), FReg(rs2, w), FReg(Field(i, 31, 27), w)>>)
                        EXCEPT !.rm = RoundingMode[f3 + 1]]
          [] op \in {11, 43, 91, 123} -> Operation("CUSTOM", <<>>)
          [] OTHER -> Illegal

-----------------------------------------------------------------------------
(* 16-bit instructions: the operation each expands to *)

LOCAL Expand0(i, xlen, f3) ==
    LET a == Field(i, 4, 2) + 8  b == Field(i, 9, 7) + 8
        sp == Scatter(i, 12, <<5, 4, 9, 8, 7, 6, 2, 3>>)
        w  == Scatter(i, 12, <<5, 4, 3>>) + Scatter(i, 6, <<2, 6>>)
        d  == Scatter(i, 12, <<5, 4, 3>>) + Scatter(i, 6, <<7, 6>>)
        M(op, r, v, m) == [Operation(op, <<r, XReg(b, xlen)>>) EXCEPT !.c = v, !.mem = m]
    IN  CASE f3 = 0 -> IF sp = 0 THEN Illegal ELSE Addi(a, 2, xlen, sp)
          [] f3 = 1 -> Need(M("L_I", FReg(a, 64), d, 64), {"D"})
          [] f3 = 2 -> M("L_I", XReg(a, xlen), w, 32)
          [] f3 = 3 -> IF xlen = 64 THEN M("L_I", XReg(a, 64), d, 64) ELSE Need(M("L_I", FReg(a, 32), w, 32), {"F"})
          [] f3 = 4 -> Illegal
          [] f3 = 5 -> Need(M("S_I", FReg(a, 64), d, 64), {"D"})
          [] f3 = 6 -> M("S_I", XReg(a, xlen), w, 32)
          [] f3 = 7 -> IF xlen = 64 THEN M("S_I", XReg(a, 64), d, 64) ELSE Need(M("S_I", FReg(a, 32), w, 32), {"F"})

LOCAL Expand1(i, xlen, f3, pc) ==
    LET rd == Field(i, 11, 7)  b == Field(i, 9, 7) + 8  a == Field(i, 4, 2) + 8
        u == Scatter(i, 12, <<5>>) + Scatter(i, 6, <<4, 3, 2, 1, 0>>)
        n == Signed(u, 5)
        j == Signed(Scatter(i, 12, <<11, 4, 9, 8, 10, 6, 7, 3, 2, 1, 5>>), 11) + pc
        t == Signed(Scatter(i, 12, <<8, 4, 3>>) + Scatter(i, 6, <<7, 6, 2, 1, 5>>), 8) + pc
        k == Signed(Scatter(i, 12, <<9>>) + Scatter(i, 6, <<4, 6, 8, 7, 5>>), 9)
        sub == Field(i, 11, 10)  alu == Field(i, 6, 5)
        R(op, w) == Operation(op, <<XReg(b, w), XReg(b, w), XReg(a, w)>>)
        Sh(op) == IF u >= xlen THEN Illegal ELSE Imm(Operation(op, <<XReg(b, xlen), XReg(b, xlen)>>), u)
    IN  CASE f3 = 0 -> Addi(rd, rd, xlen, n)
          [] f3 = 1 -> IF xlen = 32 THEN Imm(Operation("JAL_J", <<XReg(1, 32)>>), j)
                       ELSE IF rd = 0 THEN Illegal ELSE Addi(rd, rd, 32, n)
          [] f3 = 2 -> Addi(rd, 0, xlen, n)
          [] f3 = 3 -> IF n = 0 THEN Illegal
                       ELSE IF rd = 2 THEN Addi(2, 2, xlen, k) ELSE Addi(rd, 0, xlen, n * 4096)
          [] f3 = 4 -> (CASE sub = 0 -> Sh("SRLI_I")
                         [] sub = 1 -> Sh("SRAI_I")
                         [] sub = 2 -> Imm(Operation("ANDI_I", <<XReg(b, xlen), XReg(b, xlen)>>), n)
                         [] sub = 3 -> IF u < 32 THEN R(<<"SUB_R", "XOR_R", "OR_R", "AND_R">>[alu + 1], xlen)
                                       ELSE IF xlen = 64 /\ alu < 2 THEN R(<<"SUB_R", "ADD_R">>[alu + 1], 32)
                                       ELSE Illegal)
          [] f3 = 5 -> Imm(Operation("JAL_J", <<XReg(0, xlen)>>), j)
          [] f3 = 6 -> Imm(Operation("BEQ_B", <<XReg(b, xlen), XReg(0, xlen)>>), t)
          [] f3 = 7 -> Imm(Operation("BNE_B", <<XReg(b, xlen), XReg(0, xlen)>>), t)

LOCAL Expand2(i, xlen, f3) ==
    LET rd == Field(i, 11, 7)  rs == Field(i, 6, 2)
        u  == Scatter(i, 12, <<5>>) + Scatter(i, 6, <<4, 3, 2, 1, 0>>)
        lw == Scatter(i, 12, <<5>>) + Scatter(i, 6, <<4, 3, 2, 7, 6>>)
        ld == Scatter(i, 12, <<5>>) + Scatter(i, 6, <<4, 3, 8, 7, 6>>)
        sw == Scatter(i, 12, <<5, 4, 3, 2, 7, 6>>)
        sd == Scatter(i, 12, <<5, 4, 3, 8, 7, 6>>)
        M(op, r, v, m) == [Operation(op, <<r, XReg(2, xlen)>>) EXCEPT !.c = v, !.mem = m]
        link == Field(i, 12, 12)
    IN  CASE f3 = 0 -> IF u >= xlen THEN Illegal
                       ELSE Imm(Operation("SLLI_I", <<XReg(rd, xlen), XReg(rd, xlen)>>), u)
          [] f3 = 1 -> Need(M("L_I", FReg(rd, 64), ld, 64), {"D"})
          [] f3 = 2 -> IF rd = 0 THEN Illegal ELSE M("L_I", XReg(rd, xlen), lw, 32)
          [] f3 = 3 -> IF xlen = 32 THEN Need(M("L_I", FReg(rd, 32), lw, 32), {"F"})
                       ELSE IF rd = 0 THEN Illegal ELSE M("L_I", XReg(rd, 64), ld, 64)
          [] f3 = 4 -> (CASE rs # 0 /\ link = 0 -> Addi(rd, rs, xlen, 0)
                         [] rs # 0 /\ link = 1 ->
                                Operation("ADD_R", <<XReg(rd, xlen), XReg(rd, xlen), XReg(rs, xlen)>>)
                         [] rs = 0 /\ rd # 0 -> Operation("JALR_I", <<XReg(link, xlen), XReg(rd, xlen)>>)
                         [] rs = 0 /\ rd = 0 -> IF link = 0 THEN Illegal ELSE Operation("EBREAK_I", <<>>))
          [] f3 = 5 -> Need(M("S_I", FReg(rs, 64), sd, 64), {"D"})
          [] f3 = 6 -> M("S_I", XReg(rs, xlen), sw, 32)
          [] f3 = 7 -> IF xlen = 64 THEN M("S_I", XReg(rs, 64), sd, 64)
                       ELSE Need(M("S_I", FReg(rs, 32), sw, 32), {"F"})

Meaning16(i, xlen, pc) ==
    LET f3 == Field(i, 15, 13)  q == Field(i, 1, 0)
        o  == CASE q = 0 -> Expand0(i, xlen, f3) [] q = 1 -> Expand1(i, xlen, f3, pc)
                [] q = 2 -> Expand2(i, xlen, f3)
    IN  IF o = Illegal THEN o ELSE [o EXCEPT !.needs = @ \cup {"C"}]
=============================================================================
