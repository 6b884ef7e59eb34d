------------------------------ MODULE RiscvCSR -------------------------------
(***************************************************************************)
(* Access to the control and status registers by CSR instructions          *)
(* (riscvCSR.c): which registers exist, who may access them, and the       *)
(* registers that are plain or masked values, trap vectors or counters.    *)
(* Registers whose callbacks change other state are modelled where that    *)
(* state is: status, interrupt and translation registers in RiscvHart,     *)
(* fcsr and misa in RiscvFP, the PMP registers in RiscvPMP.                *)
(*                                                                         *)
(* h is the hart's record; c holds a register's value and the bases of the *)
(* counters.  Data is scaled to ByteBits per byte, numbers are not.        *)
(***************************************************************************)
EXTENDS Integers, FiniteSetsExt

CONSTANT ByteBits     \* bits of a byte

W(bits) == (bits \div 8) * ByteBits
Mod(v, bits) == v % 2^W(bits)

-----------------------------------------------------------------------------
(* The table of registers *)

\* A register with number num that needs one of the features (all of them if
\* both is TRUE), or none if there are none; kind stands for its callbacks.
Attrs(num, features, both, kind) ==
    [csrNum |-> num, arch |-> features, and |-> both, kind |-> kind, TVMT |-> num = \h180]

Always(nums, kind)           == {Attrs(n, {}, FALSE, kind) : n \in nums}
Needs(nums, features, kind)  == {Attrs(n, features, FALSE, kind) : n \in nums}

userCSRs ==
    Needs({\h000, \h004, \h044}, {"N"}, "other") \cup Needs({\h001, \h002, \h003}, {"D", "F"}, "other")
      \cup Needs({\h005}, {"N"}, "tvec") \cup Needs({\h040, \h043}, {"N"}, "raw")
      \cup Needs({\h041}, {"N"}, "epc") \cup Needs({\h042}, {"N"}, "cause")
      \cup Always({\hC00}, "cycle") \cup Always({\hC01}, "time") \cup Always({\hC02}, "instret")
      \cup Always(\hC03..\hC1F, "hpm")
      \cup Needs({\hC80}, {"RV32"}, "cycleh") \cup Needs({\hC81}, {"RV32"}, "timeh")
      \cup Needs({\hC82}, {"RV32"}, "instreth") \cup Needs(\hC83..\hC9F, {"RV32"}, "hpm")

supervisorCSRs ==
    Needs({\h100, \h104, \h144, \h180}, {"S"}, "other") \cup Needs({\h106}, {"S"}, "counteren")
      \cup {Attrs(n, {"S", "N"}, TRUE, "other") : n \in {\h102, \h103}}
      \cup Needs({\h105}, {"S"}, "tvec") \cup Needs({\h140, \h143}, {"S"}, "raw")
      \cup Needs({\h141}, {"S"}, "epc") \cup Needs({\h142}, {"S"}, "cause")

machineCSRs ==
    Always(\hF11..\hF14, "raw") \cup Always({\h300, \h301, \h304, \h344}, "other")
      \cup Needs({\h302, \h303}, {"S", "N"}, "other") \cup Needs({\h306}, {"S", "U"}, "counteren")
      \cup Always({\h305}, "tvec") \cup Always({\h340, \h343}, "raw") \cup Always({\h341}, "epc")
      \cup Always({\h342}, "cause")

\* PMP, counters, and the debug registers that are not implemented.
machineCSRs2 ==
    Always({\h3A0, \h3A2}, "other") \cup Needs({\h3A1, \h3A3}, {"RV32"}, "other")
      \cup Always(\h3B0..\h3BF, "other")
      \cup Always({\hB00}, "cycle") \cup Always({\hB02}, "instret") \cup Always(\hB03..\hB1F, "hpm")
      \cup Needs({\hB80}, {"RV32"}, "cycleh") \cup Needs({\hB82}, {"RV32"}, "instreth")
      \cup Needs(\hB83..\hB9F, {"RV32"}, "hpm") \cup Always(\h323..\h33F, "hpm")
      \cup Always((\h7A0..\h7A3) \cup (\h7B0..\h7B2), "NIP")

csrs == userCSRs \cup supervisorCSRs \cup machineCSRs \cup machineCSRs2

NoCSR == Attrs(-1, {}, FALSE, "none")

getCSRAttrs(num) == IF \E a \in csrs : a.csrNum = num THEN CHOOSE a \in csrs : a.csrNum = num ELSE NoCSR

-----------------------------------------------------------------------------
(* Access checks *)

\* The fields of a number: the lowest mode, and read-only access.
CSRMode(num)    == (num \div 256) % 4
CSRReadOnly(num) == (num \div 1024) % 4 = 3

getAccess(a) == IF CSRReadOnly(a.csrNum) THEN {"R"} ELSE {"R", "W"}

\* The features in effect, the width of registers among them.
currentArch(h) == h.arch \cup {IF h.xlen = 32 THEN "RV32" ELSE "RV64"}

getMissingCSRFeatures(a, actual) ==
    IF a.and THEN a.arch \ actual
    ELSE IF a.arch \cap actual = {} THEN a.arch ELSE {}

\* The register, or none if the access is not allowed.
riscvValidateCSRAccess(h, num, write) ==
    LET a == getCSRAttrs(num) IN
    IF \/ a = NoCSR
       \/ getMissingCSRFeatures(a, currentArch(h)) # {}
       \/ write /\ "W" \notin getAccess(a)
       \/ h.mode < CSRMode(num)
    THEN NoCSR ELSE a

\* Counters accessible in the current mode; h.counters are those defined.
getHPMMask(h) ==
    {k \in h.counters : (h.mode < 3 => k \in h.mcounteren) /\ (h.mode < 1 => k \in h.scounteren)}

Monitors == {"cycle", "cycleh", "time", "timeh", "instret", "instreth", "hpm"}

hpmAccessValid(h, a) == a.kind \in Monitors => a.csrNum % 32 \in getHPMMask(h)

-----------------------------------------------------------------------------
(* Counters: h.cycles and h.instructions are what the simulator has counted  *)
(* before this instruction.                                                  *)

setLower(new, old) == Mod(new, 32) + 2^W(32) * (old \div 2^W(32))
setUpper(new, old) == Mod(old, 32) + 2^W(32) * Mod(new, 32)
upper(v) == v \div 2^W(32)

getXLENValue(h, v) == Mod(v, h.xlen)

cycleR(h, c)   == Mod(h.cycles - c.baseCycles, 64)
instretR(h, c) == Mod(h.instructions - c.baseInstructions, 64)

\* The count is notionally incremented before the write.
cycleW(h, c, new) == [c EXCEPT !.baseCycles = Mod(h.cycles - new + 1, 64)]

\* Mutant of instretW: the instruction that writes the counter counts.
InstretWCounts(h, c, new) == [c EXCEPT !.baseInstructions = Mod(h.instructions - new, 64)]

instretW(h, c, new) == [c EXCEPT !.baseInstructions = Mod(h.instructions - new + 1, 64)]

mcycleW(h, c, new) == cycleW(h, c, IF h.xlen = 32 THEN setLower(new, cycleR(h, c)) ELSE new)
mcyclehW(h, c, new) == cycleW(h, c, setUpper(new, cycleR(h, c)))
minstretW(h, c, new) == instretW(h, c, IF h.xlen = 32 THEN setLower(new, instretR(h, c)) ELSE new)
minstrethW(h, c, new) == instretW(h, c, setUpper(new, instretR(h, c)))

-----------------------------------------------------------------------------
(* Reads and writes *)

RoundTo(v, unit) == v - (v % unit)
Bit(v, k) == (v \div 2^k) % 2

\* The mask leaves out bit 1; in vectored mode the base is aligned further.
tvecW(h, old, new) ==
    LET masked == new - 2 * Bit(new, 1) + 2 * Bit(old, 1)
    IN  IF h.tvec_align # 0 /\ masked % 2 = 1 THEN RoundTo(masked, h.tvec_align) + 1 ELSE masked

\* The low bits of an epc register that are not written.
maskEPC(h) == IF "C" \in h.arch THEN 2 ELSE 4

\* Values of the counter enable registers; of the counters, the scaled word
\* has a bit for the first W(32).
Enables(v)       == {k \in 0..(W(32) - 1) : Bit(v, k) = 1}
EnableValue(set) == MapThenSumSet(LAMBDA k : 2^k, set \cap 0..(W(32) - 1))

\* The enables of counters that are defined can be written.
counterenMask(h) == EnableValue(h.counters)

getCSRWriteMask(h, a) == IF a.kind = "cause" THEN h.causeMask ELSE counterenMask(h)

\* (old & ~mask) | (new & mask)
MaskedWrite(h, old, new, mask) ==
    MapThenSumSet(LAMBDA k : 2^k * Bit(IF Bit(mask, k) = 1 THEN new ELSE old, k), 0..(W(h.xlen) - 1))

riscvEmitCSRRead(h, c, a) ==
    CASE a.kind = "cycle"    -> getXLENValue(h, cycleR(h, c))
      [] a.kind = "cycleh"   -> upper(cycleR(h, c))
      [] a.kind = "instret"  -> getXLENValue(h, instretR(h, c))
      [] a.kind = "instreth" -> upper(instretR(h, c))
      [] a.kind = "time"     -> getXLENValue(h, h.time)
      [] a.kind = "timeh"    -> upper(h.time)
      [] a.kind \in {"hpm", "NIP"} -> 0
      [] OTHER -> c.value

riscvEmitCSRWrite(h, c, a, new) ==
    CASE a.kind = "cycle"    -> mcycleW(h, c, new)
      [] a.kind = "cycleh"   -> mcyclehW(h, c, new)
      [] a.kind = "instret"  -> minstretW(h, c, new)
      [] a.kind = "instreth" -> minstrethW(h, c, new)
      [] a.kind = "tvec"     -> [c EXCEPT !.value = tvecW(h, c.value, new)]
      [] a.kind = "epc"      -> [c EXCEPT !.value = RoundTo(new, maskEPC(h)) + (@ % maskEPC(h))]
      [] a.kind \in {"cause", "counteren"} ->
             [c EXCEPT !.value = MaskedWrite(h, @, new, getCSRWriteMask(h, a))]
      [] a.kind = "raw"      -> [c EXCEPT !.value = new]
      [] OTHER -> c

\* The enables that getHPMMask reads, after register num was written.
CountersEnabled(h, num, value) ==
    IF num = \h306 THEN [h EXCEPT !.mcounteren = Enables(value)]
    ELSE IF num = \h106 THEN [h EXCEPT !.scounteren = Enables(value)]
    ELSE h
=============================================================================
