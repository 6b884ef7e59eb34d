----------------------------- MODULE FlatMemory ------------------------------
(* What the virtual memory test environment promises the test that runs in    *)
(* it: an ordinary machine, with registers and a flat memory of whole pages.  *)
(* It executes the test's instructions one at a time, each with its whole     *)
(* effect and with no other, until one calls the environment to exit or       *)
(* accesses a page outside the memory.                                        *)
CONSTANTS Registers,     \* the registers of the test
          Pages,         \* the pages the test may access
          Instructions,  \* records: op, and the register, page or word it names
          Images,        \* what the memory may be loaded with
          Zero,          \* the word registers hold at the start
          None           \* no instruction

VARIABLES regs,          \* [Registers -> words]
          memory,        \* [Pages -> words]
          instr,         \* the instruction being executed, or None
          running        \* FALSE once the test has exited or failed

flatVars == <<regs, memory, instr, running>>

FlatInit == /\ regs = [r \in Registers |-> Zero]
            /\ memory \in Images
            /\ instr = None
            /\ running = TRUE

\* The test goes on to an instruction.
Start(in) == /\ running /\ instr = None
             /\ instr' = in
             /\ UNCHANGED <<regs, memory, running>>

Completes(op) == /\ running /\ instr # None /\ instr.op = op
                 /\ instr' = None
                 /\ UNCHANGED running

LoadImmediate == /\ Completes("li")
                 /\ regs' = [regs EXCEPT ![instr.reg] = instr.word]
                 /\ UNCHANGED memory

Load == /\ Completes("load") /\ instr.page \in Pages
        /\ regs' = [regs EXCEPT ![instr.reg] = memory[instr.page]]
        /\ UNCHANGED memory

Store == /\ Completes("store") /\ instr.page \in Pages
         /\ memory' = [memory EXCEPT ![instr.page] = regs[instr.reg]]
         /\ UNCHANGED regs

\* Nothing is promised about the registers and the memory after that.
Exit == /\ running /\ instr # None
        /\ \/ instr.op = "ecall"
           \/ instr.op \in {"load", "store"} /\ instr.page \notin Pages
        /\ running' = FALSE

FlatNext == \/ \E in \in Instructions : Start(in)
            \/ LoadImmediate \/ Load \/ Store
            \/ Exit
            \/ ~running /\ running' = FALSE

FlatSpec == FlatInit /\ [][FlatNext]_flatVars
=============================================================================
