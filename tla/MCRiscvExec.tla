---------------------------- MODULE MCRiscvExec ------------------------------
(* All compressed encodings, a sample of 32-bit ones, and instructions run on *)
(* operands at the boundaries of the scaled data.                             *)
EXTENDS RiscvExec

Funct7 == 0..127

Low(op, rd, f3, rs1)  == op + 128 * rd + 4096 * f3 + 32768 * (rs1 % 2)
High(rs1, rs2, f7)    == (rs1 \div 2) + 16 * rs2 + 512 * f7
Assemble(op, rd, f3, rs1, rs2, f7) == <<Low(op, rd, f3, rs1), High(rs1, rs2, f7)>>

\* Every major opcode, the custom and reserved ones among them.
Opcodes == {4 * k + 3 : k \in 0..31}

\* Every compressed encoding; 32-bit ones with the field values that matter.
Compressed == {h \in 0..65535 : h % 4 # 3}
Firsts == Compressed \cup {Low(op, r[1], f3, r[2]) :
              op \in Opcodes, r \in {<<0, 0>>, <<18, 0>>, <<18, 1>>}, f3 \in 0..7}
SecondHalves == {High(0, rs2, f7) : rs2 \in {0, 1, 2, 5, 31}, f7 \in Funct7}

-----------------------------------------------------------------------------
(* Executions *)

Harts == {Base(32), Base(64), [Base(32) EXCEPT !.archXlen = 64]}

Operands(h) == IF h.xlen = 32 THEN {0, 1, 127, 128, 255} ELSE {0, 1, 32767, 32768, 46340}

\* At width 64 the product of two operands must stay in TLC's integers.
Regs(h) == {1 :> a @@ 2 :> b @@ 3 :> 0 :
              a \in {Extend(v, h.xlen, h.archXlen) : v \in Operands(h)},
              b \in {Extend(v, h.xlen, h.archXlen) : v \in Operands(h)}}
           \cup IF h.xlen = 64 THEN {1 :> 32768 @@ 2 :> 65535 @@ 3 :> 0} ELSE {}

Case(is, hs, rs(_)) == [instrs |-> is, harts |-> hs, regs |-> [h \in hs |-> rs(h)]]

\* Register and immediate arithmetic, with rd equal to a source and not.
Arithmetic3 == {Assemble(op, rd, k[2], 1, 2, k[1]) : op \in {51, 59}, rd \in {0, 1, 3}, k \in DOMAIN OP}
Arithmetic2 == {Assemble(op, 3, f3, rs1, rs2, f7) : op \in {19, 27}, f3 \in 0..7, rs1 \in {0, 1},
                    rs2 \in {0, 1, 7}, f7 \in {0, 32, 127}}
Regs2(h) == {r \in Regs(h) : r[2] = 0}
ArithmeticRuns  == Case(Arithmetic3, Harts, Regs)
ImmediateRuns   == Case(Arithmetic2, Harts, Regs2)

\* Loads, stores and atomics at and around the end of memory.
Loads  == {Assemble(op, 3, f3, 1, rs2, 0) : op \in {3, 35}, f3 \in 0..7, rs2 \in {0, 3}}
Atomics == {Assemble(47, rd, f3, 1, 2, f7) : rd \in {2, 3}, f3 \in {2, 3}, f7 \in {4 * k : k \in DOMAIN AMO \ {3}}}
MemoryRegs(h) == {1 :> a @@ 2 :> b @@ 3 :> 0 : a \in {0, 1, 2, 4, 8, 14, 30}, b \in {0, 3, 2^W(h.xlen) - 1}}
MemoryHarts == {[h EXCEPT !.unaligned = u, !.atomicUnaligned = v] : h \in {Base(32), Base(64)},
                   u \in BOOLEAN, v \in BOOLEAN}
MemoryRuns == Case(Loads \cup Atomics, MemoryHarts, MemoryRegs)

\* Jumps and branches, with and without compressed instructions.
Jumps == {Assemble(111, rd, 0, 0, rs2, 0) : rd \in {0, 1}, rs2 \in {4, 6}}
    \cup {Assemble(103, rd, 0, 1, rs2, 0) : rd \in {0, 1}, rs2 \in {0, 1, 2}}
    \cup {Assemble(99, rd, f3, 1, 2, 0) : rd \in {8, 10}, f3 \in 0..7}
    \cup {Assemble(op, 3, 0, 0, 0, 0) : op \in {23, 55, 15, 11}}
    \cup {Assemble(15, 0, f3, 0, rs2, 0) : f3 \in {0, 1}, rs2 \in {0, 17}}
    \cup {<<40961>>, <<33026>>, <<37122>>, <<16385>>, <<32906>>}
JumpHarts == {[h EXCEPT !.arch = a] : h \in {Base(32), Base(64)}, a \in {{}, {"C"}, {"C", "E"}}}
JumpRegs(h) == {(18 :> 0) @@ q : q \in Regs(h)}
JumpRuns == Case(Jumps \cup {Assemble(51, 18, 0, 1, 2, 0)}, JumpHarts, JumpRegs)

\* System instructions in every mode.
Systems == {Assemble(115, rd, 0, rs1, rs2, f7) : rd \in {0, 1}, rs1 \in {0, 1, 2},
               rs2 \in {0, 1, 2, 5}, f7 \in {0, 8, 9, 24}}
SystemHarts == {[Base(32) EXCEPT !.mode = m, !.TSR = t, !.TW = t, !.TVM = t, !.arch = a, !.wfiNop = t] :
                   m \in {0, 1, 3}, t \in BOOLEAN, a \in {{"S", "U"}, {"S", "U", "N"}, {}}}
SystemRegs(h) == {1 :> 5 @@ 2 :> 2}
SystemRuns == Case(Systems, {h \in SystemHarts : h.mode = 3 \/ h.arch # {}}, SystemRegs)

\* CSR instructions: registers of every kind, and numbers of none.
CSRs == {\h000, \h002, \h005, \h041, \h042, \h102, \h105, \h106, \h140, \h142, \h180, \h305, \h306, \h323,
         \h340, \h341, \h342, \h3A1, \h7A0, \h7B0, \hB00, \hB01, \hB02, \hB03, \hB80, \hB82, \hC00, \hC01, \hC02, \hC80, \hC81, \hC82, \hF11, \hFFF}
CSRInstrs == {Assemble(115, rd, f3, rs1, n % 32, n \div 32) : rd \in {0, 1}, f3 \in (1..3) \cup (5..7),
                 rs1 \in {0, 1, 2}, n \in CSRs}
CSRHarts == {[Base(w) EXCEPT !.mode = m, !.TVM = t, !.arch = a, !.mcounteren = IF t THEN {0} ELSE {0, 1},
                 !.counters = IF t THEN (0..31) \ {1} ELSE 0..31, !.causeMask = IF t THEN 2^(W(w) - 1) + 15 ELSE @,
                 !.scounteren = IF "S" \in a THEN {0} ELSE 0..31, !.tvec_align = IF t THEN 16 ELSE 0] :
                w \in {32, 64}, m \in {0, 1, 3}, t \in BOOLEAN, a \in {{"S", "U", "C"}, {"U", "N"}, {"S", "U", "N", "F"}, {}}}
CSRRuns == Case(CSRInstrs, {h \in CSRHarts : (h.mode = 0 => "U" \in h.arch) /\ (h.mode = 1 => "S" \in h.arch)},
                LAMBDA h : {1 :> 255 @@ 2 :> 130})

AllRuns == {ArithmeticRuns, ImmediateRuns, MemoryRuns, JumpRuns, SystemRuns, CSRRuns}

\* Counters at the end of a half and past it.
SomeCSRVals == {[value |-> 12, baseCycles |-> 45, baseInstructions |-> 65535]}
=============================================================================
