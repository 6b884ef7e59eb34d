# TLA+ models of the RISC-V processor model (riscvOVPsim) and its test environment

This directory specifies and verifies the core of this repository's own programs: the
processor model in `riscv-ovpsim/source`, the reference simulator that the compliance suite
is run on, and the virtual memory environment in `riscv-test-env/v` that tests run in.

Modelled are the control logic on which everything that runs on the processor model depends
(privilege modes and traps, interrupts and WFI, physical memory protection, address
translation, exclusive accesses, translated blocks and the floating point state they depend
on), the computations (instruction decode, integer and CSR instructions, floating point
arithmetic) against independent references, and the demand-paging environment, which is
shown to implement a flat memory.

Contents: 1 inventory, 2 what is hard in this code, 3 modules and their relation to
the code, 4 model checking, 5 proofs, 6 disagreements found, 7 not modelled, 8 plan.

## 1. Inventory

The processor model is a set of C callbacks that an external simulator calls: to
translate an instruction ("morph"), when a fetch or access is not permitted, when an
input signal changes, when it switches from one hart to another, on save and restore.
In turn the model calls the simulator (`vmirt...`) to select memory domains and ASIDs,
to map memory, to halt and restart a hart, to redirect its PC. A hart's callbacks never
run in parallel; the hard part is the order in which they come.

| Component | Source | State | Operations | Correct when |
|---|---|---|---|---|
| Traps, interrupts, reset, NMI | `riscvExceptions.c` | mode, mstatus, xepc/xcause/xtval, signal latches `netValue`, `swip`, reasons `disable` | take an exception, MRET/SRET/URET, WFI, fetch check, signal callbacks | no interrupt is lost; WFI ends; halts and restarts match; traps only go to implemented modes |
| CSRs | `riscvCSR.c`, `riscvCSR.h` | the registers, masks | read, write callbacks, access check, reset | caches derived from a CSR are refreshed by each write |
| PMP | `riscvVM.c` 1934-2454 | `pmpcfg`, `pmpaddr`; privileges in the PMP domains | register writes, lazy mapping, reset | the domains never permit what the registers deny; locks hold |
| Translation | `riscvVM.c` 240-1640, 2589-2885 | TLB (range table), mappings in the virtual domains, simulated ASID | miss, walk, fence, satp and mstatus writes, save and restore | a fence takes effect in both caches; no mapping without its TLB entry; SUM and MXR are obeyed |
| Exclusive accesses | `riscvMorph.c` 1345-1487, `riscvUtils.c` 440-503 | `exclusiveTag`; write callbacks | LR, SC, context switch, trap, reset, restore | SC succeeds only if no other hart wrote the granule |
| Modes and XLEN | `riscvUtils.c` | dictionary mode, `currentArch` | `riscvSetMode`, `riscvSetCurrentArch` | translated code matches the mode and extensions it was made for |
| Floating point control | `riscvMorph.c` 2314-2860, `riscvCSR.c` | `fcsr`, `mstatus.FS`, `fpActiveRM`, block state | translation, refresh of the host's mode, writes of frm, FS and misa | results are rounded as the instruction or frm asks; FS becomes dirty; disabled instructions trap |
| Floating point arithmetic | `riscvSoftFloat.c`, `riscvMorph.c` 1800-2310 | flags | 33 operations, min, max, sign, class | IEEE 754 results and flags |
| Decode | `riscvDecode.c`, `riscvInstructionInfo.h` | decode tables | encoding to instruction | one decoding per encoding, the one of the manual |
| Semantics | `riscvMorph.c` | registers, memory, PC | one emitter per instruction | the result of the manual, also at the limits |
| Save and restore | `riscvMain.c`, and callbacks in CSR, VM, Exceptions | all of the above | save, restore | a restored hart continues as the saved one |
| Configuration | `riscvParameters.c`, `riscvConfigList.c`, `riscvMain.c`, `riscvCluster.c` | `configInfo` | constructor | - |
| Disassembly, debug, documentation, ports | `riscvDisassemble.c`, `riscvDebug.c`, `riscvDoc.c`, `riscvBus.c`, ... | none of their own | tables, text | - |
| VM test environment | `riscv-test-env/v` | page table, free list, user pages, trap frame | boot, fault, evict, exit | the test sees a flat memory; no page is lost; results are kept |
| Test entry and exit, test suites, target ports | `riscv-test-env/p`, `riscv-test-suite`, `riscv-target` | none | straight-line code | - |
| Compliance flow | `Makefile`, `riscv-test-env/verify.sh` | signature files | build, simulate, compare | a failing test is reported |

How they interact. Traps, returns and CSR writes change the mode or mstatus; through
`riscvSetMode` and `riscvVMRefreshMPRVDomain` this selects the simulator's code and
data domain, and through `riscvVMSetASID` its ASID. Accesses that a domain does not
permit come back as a miss: `riscvVMMiss` walks the page table, maps the TLB entry and
then asks PMP to install privileges. Every handler that can make an interrupt eligible
calls `riscvTestInterrupt`, which wakes the hart from WFI and asks the simulator to check
the next fetch; `riscvIFetchExcept` then takes the interrupt. Traps and returns end a
reservation. Context switches install and remove its watch. The translator specialises a block
on what it knows (rounding mode, enabled extensions, boxed registers) and tells the simulator
under which conditions the block may be used again; CSR writes change what was known.

## 2. What is hard in this code

* **Lost wakeups.** An interrupt becomes eligible in nine handlers, each of which must
  remember to test for it, and may arrive just as the hart goes to sleep.
* **Caches that must follow registers.** Memory domains, simulated ASIDs, PMP privileges,
  TLB entries and mappings are all caches of CSRs or of page tables, invalidated by hand.
  A wrong invalidation shows only in a later access, in another mode.
* **Order within a handler.** Reset selects a domain before mstatus is reset; a PMP write
  stores all bytes before it validates each; SC stores before the tag is cleared.
* **Several harts.** A store of another hart must end a reservation whose watch is only
  installed while the hart does not run, in a domain that may change meanwhile.

* **Specialised blocks.** Code is translated once and kept; each assumption made then must be
  validated by the block, or ended by the CSR write that breaks it.
* **Numeric limits.** Rounding, cancellation, remainders that are examined only when they
  can matter, double-width negation, shift amounts, scattered immediates, halves of counters.
* **A kernel on a hart with a TLB.** `vm.c` changes page table entries under a hart that may
  hold or drop translations at any time, and asserts A and D bits that the hart or itself set.

`PROJECT.json` lists each of these hazards at its line, with the properties that cover it.

## 3. Modules

| Module | Models |
|---|---|
| `RiscvPriv` | the stateless part of the privileged architecture: modes, masks, mstatus merging and stacking, delegation, interrupt enables, domains |
| `RiscvHart` (extends `RiscvPriv`) | one hart: traps, returns, WFI, CSR writes, fetch checks, reset, NMI and interrupt signals, the domains and ASID in effect |
| `RiscvHartProofs` | theorems on `RiscvHart` |
| `RiscvPMP` | PMP registers and the lazily filled PMP domains |
| `RiscvPMPProofs` | theorems on `RiscvPMP` |
| `RiscvTLB` | page walks, TLB, mappings in the virtual domains, fences, ASIDs |
| `RiscvTLBProofs` | theorems on `RiscvTLB` |
| `RiscvLRSC` | reservations and watches of several harts |
| `RiscvLRSCProofs` | theorems on `RiscvLRSC` |
| `SoftFloat` | the arithmetic of `riscvSoftFloat.c`, for any two formats |
| `FloatSpec` (extends `SoftFloat`) | the reference: IEEE 754 results on exact rationals |
| `RiscvFPValues` | NaN, zero and class predicates, min, max and sign injection of `riscvMorph.c` |
| `SoftFloatVMI` (extends both) | the entry points the simulator calls, their rounding mode and flags |
| `SoftFloatVMIProofs` | theorems on `SoftFloatVMI` |
| `RecipSqrt32` | the reciprocal root and the root of `f32_sqrt` in their own width |
| `RiscvFP` | translated blocks and floating point state |
| `RiscvFPProofs` | theorems on `RiscvFP` |
| `RiscvDecode` | the decode tables and the interpretation of fields |
| `RiscvCSR` | the CSR table, access checks, counters, vectors |
| `RVSpec` | the reference: the instruction set manual's opcode map and expansions |
| `RiscvExec` (extends the three) | fetch, decode and execution of instructions |
| `VMTestEnv` | the demand-paging environment on a hart with a TLB |
| `FlatMemory` | what it promises: instructions executed on registers and a flat memory |
| `VMTestEnvProofs` | theorems on `VMTestEnv`, with the refinement |
| `IterationTheorems` | induction for loops, powers of two, division |
| `MC...` | values of the constants for TLC |

### RiscvHart

A CSR that is a bit mask is the set of its 1 bits. Variables have the names of the CSRs
and fields; `halted`, `fetchCheck`, `dataDomain`, `simASID` are the simulator's side. The
one assumption about the simulator is `fetchCheck`: after `vmirtDoSynchronousInterrupt` and
after `vmirtSetPCException` (used for traps, reset and NMI) the next fetch goes through
`riscvIFetchExcept` before any instruction is executed. Returns set the PC with
`vmirtSetPC`, which gives no such guarantee, and call `riscvTestInterrupt` instead.

One action is one callback or instruction, with everything it calls: `IeW`, for instance,
merges by the alias's mask, stores, and tests for interrupts if the register changed, as
`ieW` does. Instructions that are not permitted (MRET below Machine mode, SRET with
TSR, WFI with TW, satp with TVM) raise an illegal instruction exception, which is an
instance of `Exception`. A debugger may write CSRs at any time when `DebugWrites` holds.
Signals toggle at any time. PCs and the trap registers that nothing reads back are left out.

### RiscvPMP

`pmpcfg` and `pmpaddr` are arrays of entries; `priv[m][a]` are the privileges installed in
the PMP domain of mode `m`. An `Access` that lacks privileges maps the range around each of
its addresses (`MapPMP`, `MapRange`, `RefineRange`: the loops of `mapPMP` and `mapPMPInt` as
recursive functions) and is retried. `WritePMPCFG` keeps the order of the loop: all bytes
are stored, then entry by entry restored, or invalidated under its old and its new
specification. The variable `config` never changes: it is the processor and the software that
TLC starts with, one of `Configs`, so that one run covers several grains. `rewriteLocked` and
`moveTORBase` say whether software does the two things for which the code leaves stale
privileges (section 6); `debugger` allows writes that ignore locks.

### RiscvTLB

`pt` is memory with page tables, `tlb` the set of entries, `maps[m][va]` the mappings of mode
`m`. `Miss` is `tlbMiss`: look for an entry that covers the page and matches the ASID,
otherwise walk; check permissions and update A and D in the table; then map, after deleting
mappings made under another simulated ASID if SUM or MXR matter for the entry. The range
table and the domains are external. Where several entries or mappings fit, any of them may be
used, so the properties do not depend on the simulator's choice. `recent` is a history
variable: translations that the page tables gave since the last fence that covers them. As in
`RiscvPMP`, a rigid `config` selects the tables, ASIDs and options of a behaviour. The walk is a
recursive function of the level (`WalkFrom`); a table has `2^VPNShift` entries, as in the code,
where the shift is 10 or 9.

### RiscvLRSC

`tag[h]` is `exclusiveTag`, `watches` the write callbacks, `domain[h]` the data domain in which
they are installed or removed. One hart runs at a time. `intact` is a history variable: which
reserved bytes no other hart has written. All domains are taken to show the same memory.
`NoTag` is the address with all bits set, as in the code; that no granule starts there is
proved, not assumed. `LRSCAssumption` asks that grain, access size and address space be multiples
of each other, as powers of two are; the grain may be less than the access. It is with the code's
default, `lr_sc_grain` of one byte: LR then reserves all that it read (`Reserved`), but only the first
byte is watched (`Granule`). `StoresMeetGranule` says when a store cannot miss it: the granule holds
the access, or no store is narrower than the access.

### SoftFloat, FloatSpec, RiscvFPValues, SoftFloatVMI

The code's routines for `float32_t` and `float64_t` differ in their constants only, so a format is
a record of three widths (exponent, fraction, guard bits) and each literal of the code is
written as what it is in the format. `FormatAssumption` lists the relations between the widths
that the algorithms use, `ConversionAssumption` those that only the conversions use. The code's
formats satisfy both: 8, 23 and 7 bits in words of 32, and 11, 52 and 10 bits in words of 64, with
integer results of 32 bits that are rounded with 12 guard bits. The steps are those of the code: align, add or subtract, normalise,
`roundPack` with its tests for overflow and underflow; quotients and roots from approximate
reciprocals with the remainder examined only near a rounding boundary; double-width products
for the fused operations; saturation of conversions. The reciprocal root, which the code takes from a
table and a Newton step, is here any value that the contract in its header comment allows (top bit
set, never above the true reciprocal, at most 2.06 units below), as a table does not scale to
other formats. `SoftFloatVMI` adds the entry points
`riscvFADD32` ... with their rounding mode and flags, and the host conversions that the code
uses where they need no rounding.

`FloatSpec` shares only the layout of bit patterns with this: a result is the exact value, as a
fraction times a power of two, rounded once, with tininess detected after rounding.

`RecipSqrt32` is the reciprocal root itself: the code's tables and Newton step in their own 32 bits,
and the part of `f32_sqrt` that makes a root of it. Words are sequences of 12-bit digits, as they are
wider than TLC's integers. That the contract is kept, and that the roots at risk are right, are two
assumptions of `MCSoftFloat` over the inputs named in section 4; TLC evaluates them in the run
`softfloat` (`RecipSqrtAssumption`, `RootF32Assumption`). The second is needed: in the full width the
contract alone is not enough for `f32_sqrt`. For a few operands just below 4 (`NearHalf` in
`MCSoftFloat` has four) a reciprocal two units low would lose an exact or half-way root; there the
table is at most one unit low. `f64_sqrt`, which goes on from the same reciprocal, is checked by the
contract only, in the narrow format.

### RiscvFP

A block is a sequence of instructions. `riscvMorph` folds them over the block state
(`fpActiveRMMT`, `fpInstDone`, `fpNaNBoxMask`) and yields what was emitted for each, with the
features and the bit of frm that the block validates. `EnterBlock` uses a kept block if it is
still valid, or translates; operations are then executed one by one, and software may write
frm or fcsr (which ends the block), fflags and FS (which do not) and misa. `hostRC` is the host's own rounding
control, which has no RMM. The block cache is external. Floating point values are not needed
here: `last` records in which mode the last result was rounded and how its source was read.

`unclean` is a history variable: a floating point register or CSR was written since software wrote FS.
Flags that a comparison or a conversion to an integer raises are not counted as such a write; the code
sets FS for writes of registers and CSRs only.

`ConfigAssumption` asks that only implemented ones of D and F be writable in misa, as
`riscvMain.c` sees to, and `ProgramAssumption` that an instruction that rounds has a rounding mode
field. `misaW` ties D and F only where both are implemented.

### RiscvDecode, RiscvCSR, RVSpec, RiscvExec

Each row of the tables is a pattern (its fixed fields), its priority and where its operands come
from, as in the `ATTR` macros; the decode library's table is indexed by opcode (external). `RVSpec` is written from the manual's opcode map, immediates
as bit lists and compressed instructions by expansion, and shares no definition with the decoder.

`RiscvExec` executes: `Fetch`, decode, then the emitter of the instruction on registers, memory
and PC. Encodings have their real widths. Data is scaled to `ByteBits` bits per byte, so that a
32-bit register has 8 and a 64-bit one 16 bits in the run, and multiplication and counters stay
within TLC's integers. What a `vmimt` primitive computes is external; what the emitters make
of it (widths, sign extension, order of register writes, operand negation, checks) is the
model. `RiscvCSR` supplies the CSR table, the check of an access, and reads and writes of plain and
masked registers, vectors, counters and counter enables; registers that steer other state are in the
modules above. The link of a jump is written by the simulator's own primitive (`LinkedJump`), not by
`writeReg`; how wide a link is on a hart whose XLEN is less than its architecture's is the simulator's
matter, and the runs do not have such a hart jump.

### VMTestEnv and FlatMemory

One action is one step of the kernel between which the hart may act: the handler's entry
(`handle_fault`, up to the page table write), the fence after it, the copy, the second write of the
entry, the last fence with the return; one page of `evict`; the exit. The hart is external: its
TLB may be filled ahead of need and dropped at any time, and it either sets A and D bits or
faults, chosen at the start. The test executes any sequence of loads, stores, moves and calls,
each fetched from some page. A page holds one word; the generator that orders the free pages
has `LFSRBits` bits instead of 6, and all seeds are initial states. `FullPeriod` says that the
generator goes through all its values from any seed; TLC evaluates it for the run's two bits and
for the code's six (`FullPeriodAssumption` in `MCVMTestEnv`).

`Transparent` is a refinement: with the test's registers taken from the trap frame while the
handler runs, and a page's content from its copy once that is filled, every behaviour is one of
`FlatMemory`. The instruction being executed is a variable of `FlatMemory` and is mapped to the
test's own, so a step that completes it must have its whole effect: a load must return the word last
stored to that page, a store must change that page, and neither anything else. Stuttering is left
for what the test cannot see, the handler's steps and the TLB's.

## 4. Model checking

Run as `tlc -config X.cfg M` in this directory.

| Run | Config | Properties | Shows |
|---|---|---|---|
| `hart_interrupts` | `MCRiscvHartInterrupts` | `NoLostInterrupt`, `WFIEndsWhenPending`, `HaltReasonsConsistent`, `MipComposed`, `InterruptTargetSound`, `InterruptsServed` | a User and a Machine interrupt with double delegation, WFI, reset and NMI in any order |
| `hart_domains` | `MCRiscvHartDomains` | `TypeOK`, `ModesImplemented`, `FetchDomainConsistent`, `DataDomainStaleOnlyAfterReset`, `SimASIDFollows`, `PrivilegeRaisedByTrap`, `ReservationWithinMode` | domains, ASID and privilege follow mstatus, satp and the mode, also when a debugger writes CSRs of a halted hart |
| `pmp` | `MCRiscvPMP` | `NoStalePrivilege`, `AccessDecision`, `LockedUntilReset` | two entries of every mode, locked and unlocked; a grain of four units with writes that ignore locks; software that tries to change locked entries |
| `tlb` | `MCRiscvTLB` | `MappingOwned`, `FenceRespected`, `AllowedNow` | user and global pages, two ASIDs, SUM and MXR; superpages, all ways a walk fails, a table that cannot be written, resets |
| `lrsc` | `MCRiscvLRSC` | `SCIsAtomic`, `SuspendedReservationWatched` | two harts, context switches, signals, restores |
| `softfloat` | `MCSoftFloat` | `AddSubCorrect`, `MulDivSqrtCorrect`, `FusedCorrect`, `ConvertCorrect`, `MinMaxSignCorrect` | every operation against IEEE 754; the table of the reciprocal root |
| `fp` | `MCRiscvFP` | `RoundingCorrect`, `EnabledRespected`, `BoxRespected`, `FSDirty`, `ControlWordCurrent` | kept blocks under changing frm, fflags, FS and misa |
| `isa` | `MCRiscvExec` | `DecodeUnambiguous`, `DecodesAsISA`, `CompressedExpands`, `ExecutesAsISA`, `CSRAccessAsISA` | decode and execution against the manual |
| `vmtest` | `MCVMTestEnv` | `AssertionsHold`, `PagesAccounted`, `Transparent`, `InstructionCompletes` | the test environment executes each instruction as a flat memory does |
| `pmp_tor_base` | `MCRiscvPMPTorBase` | `NoStalePrivilege` | violated, section 6 |
| `fp_rewritten_fs` | `MCRiscvFPRewriteFS` | `FSDirty` | violated, section 6 |
| `vm_results` | `MCVMTestEnvResults` | `ResultsWrittenBack` | violated, section 6 |

Bounds, and why they suffice.

* Hart: two interrupts of different level are the least with which priority, delegation of
  one but not the other, and a trap taken while another is pending occur; a User-level one
  with N goes through both delegation registers. A single exception code stands for all that
  are handled alike; in `hart_domains` a fetch fault is added. mstatus values vary the fields
  that a run is about; `hart_domains` includes an MPP that names no mode, and switches satp between
  bare and translated with another ASID. Two ASIDs suffice to tell a stale one.
* PMP: two entries show priority, a TOR base, and a locked entry below an unlocked one. Four
  address units hold regions of one, two and all units and an inverted TOR range; eight with
  a grain of four hold two regions. One privilege stands for all: the code handles them as a
  mask. An access covers one or two units, so it can straddle two regions.
* TLB: two levels, two entries per table (`VPNShift` = 1), `MaxTLB` = 2 entries (an entry and one to replace or to
  overlap it). `Levels` up to 4 would repeat the same step of the walk.
* LR/SC: two granules of four bytes, reserved accesses of two, stores of one, two harts, two
  domains. The default granule of one byte is covered by the theorem (section 5). Harts and domains are symmetric and all properties of this run are invariants.
* Arithmetic: a 9-bit and a 19-bit format in words of 11 and 22 bits, for which `FormatAssumption`
  and `ConversionAssumption` hold. All patterns of the small format are used for roots and conversions; two-operand
  and fused operations take zeros, subnormals, both ends of the range, neighbours in
  exponent (cancellation and alignment by one bit, by a few and by more than the word), infinities
  and both NaNs, in all rounding modes, given statically and by frm. A format of 32 or 64 bits is
  outside TLC's integers.
* Reciprocal root: both ends and the middle of each of the eight segments of the table, for both parities
  of the exponent, and inputs for which the result is two units low. Roots: all squares of twelve bits,
  whose roots are exact, their neighbours, and roots near a half.
* Blocks: `MaxBlocks` = 2 kept translations, blocks of up to four instructions over two
  registers, five processors: with D and without, misa's D and F read-only, writable, and tied to
  each other. A property that a block's assumption breaks needs one block and one CSR write.
* Instructions: all 16-bit encodings; every opcode, funct3 and funct7 of the 32-bit ones with the
  register and immediate values that tell rows apart, for RV32 and RV64; execution on operands at the limits of the scaled width,
  addresses around the end of memory, every mode and trap bit, and a CSR of every kind that the model tells apart, with counters that are defined, undefined
  and disabled and a masked xcause. `ExecutesAsISA` says nothing of dcsr, dpc and dscratch, which the
  manuals define in debug mode only (section 6).
* VM environment: a generator of two bits, so three frames and two pages that the test can
  use. The second page taken is the last but one of the free list, the case in which the tail is
  cleared; each page can be absent, clean, accessed or dirty at any time and when it is evicted.

Deadlock is checked in all runs but two: a test of `VMTestEnv` ends with its exit code, and an
instruction of `RiscvExec` is executed once.

Fairness. `InterruptsServed`: `LiveSpec` of `RiscvHart` adds `WF_vars(fetchCheck /\ Fetch)`, that the
simulator performs the fetch it was told to check. This is what a simulator does with a hart
that is not halted; no fairness is assumed of instructions, software or signals. The property's
right side includes `halted`: a reset or NMI signal may hold the hart for ever.
`InstructionCompletes`: `LiveSpec` of `VMTestEnv` says that the hart goes on executing (weak fairness of
`Execute`, `PageFault`, `Ecall` and of the handler). The TLB's prefetching and dropping of entries is
not assumed to happen, nor to stop. That the test begins another instruction is not assumed.

## 5. Proofs

`tlapm M.tla` checks the theorems of each module `M` below. They hold for every value of the
constants: any set of implemented modes (without S and U too), any interrupts and exceptions of the
code's table, any software-written values, any number of harts and any grain of reservations; any
number of PMP entries, grain and width of addresses; any page tables of one to four levels; any
registers, programs and number of kept blocks; any number of pages of the test environment; any two
floating point formats with the relations of the code's, the code's own included, and any operands.

| Module | Theorem | States |
|---|---|---|
| `RiscvHartProofs` | `TypeCorrect` | `Spec => []TypeOK` |
| | `InterruptsNeverLost` | `Spec => []NoLostInterrupt` |
| | `WaitCorrect` | `Spec => [](WFIEndsWhenPending /\ HaltReasonsConsistent)` |
| | `HaltFollowsReasons` | `Spec => []HaltReasonsConsistent` |
| | `OnlyImplementedModes` | `Spec => []ModesImplemented` |
| | `InterruptTargets` | `Spec => []InterruptTargetSound` |
| | `PendingComposed` | `Spec => []MipComposed` |
| | `FetchDomainFollows` | `Spec => []FetchDomainConsistent` |
| | `DataDomainFollows` | `Spec => []DataDomainStaleOnlyAfterReset` |
| | `SimulatedASIDFollows` | `Spec => []SimASIDFollows` |
| | `RaisedOnlyByTrap` | `Spec => PrivilegeRaisedByTrap` (action property) |
| | `ReservationEndsWithMode` | `Spec => ReservationWithinMode` (action property) |
| `RiscvLRSCProofs` | `SCAtomicity` | `StoresMeetGranule` gives `Spec => []SCIsAtomic` |
| | `SuspendedWatched` | `Spec => []SuspendedReservationWatched` |
| `RiscvPMPProofs` | `PMPTypeCorrect` | `Spec => []TypeOK` |
| | `PrivilegesNeverStale` | `CarefulSoftware` gives `Spec => []NoStalePrivilege` |
| | `AccessesDecided` | `CarefulSoftware` gives `Spec => []AccessDecision` |
| | `LocksHold` | `Spec => LockedUntilReset` (action property) |
| `RiscvTLBProofs` | `TranslationTypeCorrect` | `Spec => []TypeOK` |
| | `MappingsOwned` | `Spec => []MappingOwned` |
| | `FencesRespected` | `Spec => []FenceRespected` |
| | `OnlyAllowed` | `Spec => []AllowedNow` |
| `RiscvFPProofs` | `HostModeKnown` | `Spec => []ControlWordCurrent` |
| | `OnlyEnabledExecute` | `Spec => []EnabledRespected` |
| | `NarrowReadsChecked` | `Spec => []BoxRespected` |
| | `RoundedAsAsked` | `RepresentableModes` gives `Spec => []RoundingCorrect` |
| | `WritesMakeFSDirty` | `OrderlyPrograms` gives `Spec => []FSDirty` |
| `SoftFloatVMIProofs` | `MinMaxSign` | `Spec => []MinMaxSignCorrect` |
| | `AddSub` | `Spec => []AddSubCorrect` |
| | `Convert` | `Spec => []ConvertCorrect` |
| `VMTestEnvProofs` | `EnvironmentAssertions` | `FullPeriod` gives `Spec => []AssertionsHold` |
| | `EveryPageAccounted` | `FullPeriod` gives `Spec => []PagesAccounted` |
| | `EnvironmentTransparent` | `FullPeriod` gives `Spec => Transparent` (refinement) |

Assumptions. Those on the constants (`ConfigAssumption`, `InterruptsAssumption`, `LRSCAssumption`,
`TLBAssumption`, `ProgramAssumption`, `FormatAssumption` and so on) are evaluated by TLC in each run. Five theorems need
one more about software, which they name, and three need one about the generator:

* `CarefulSoftware`: software does not try to change a locked entry (`rewriteLocked`), and does not
  move the base of an unlocked TOR entry (`moveTORBase`).
  Without either the code leaves a stale privilege (section 6). Writes of all other kinds are
  unrestricted, and a debugger may ignore locks.
* `RepresentableModes`: software does not use both RMM and reserved values of frm. With both, a block
  made for RMM is used with a reserved value (section 6). Each alone is allowed.
* `OrderlyPrograms`: no block writes FS after an instruction that sets it and before another; a write
  of a floating point register or CSR, fflags included, sets it (section 6).
* `StoresMeetGranule`: the reservation granule holds what LR and SC access, or no store is narrower than
  that. With the default granule of one byte, word stores satisfy it and byte stores do not
  (section 6).
* `FullPeriod`, of the generator. It is a statement about one recurrence, for a width that the code
  fixes at 6, and TLC evaluates it there.

The arguments.

* `TypeCorrect` needs that a trap never lowers privilege (`ModeXType`), else SPP could be given
  Machine mode.
* `InterruptsNeverLost`: each action either tests for interrupts with the new values, or sets
  `fetchCheck`, or cannot make an interrupt eligible. The last case is the interesting one: a
  write of mstatus that enables nothing skips the test; `EnabledMonotone` shows that with fewer
  enables no interrupt becomes eligible.
* `WaitCorrect`: `WFIEndsWhenPending` is not inductive without `HaltReasonsConsistent`, as WFI is
  executed only by a hart that is not halted, which must imply that `disable` is empty.
* `OnlyImplementedModes` is not inductive either. `DelegInv` says what the delegation registers
  hold without Supervisor mode: nothing is delegated, or, with N, everything delegated goes on to
  User mode. Without it a trap could be taken to Supervisor mode.
* The domain and ASID theorems share `CopiesInv`, as each of the simulator's copies is refreshed by
  a different subset of the handlers. `RaisedOnlyByTrap` and `ReservationEndsWithMode` go through the
  actions under `TypeOK` and `ModesInv`: a return never raises (`ReturnNotRaised`), a trap stacks
  (`TrapStacks`).
* `SCAtomicity`: `LRSCInv` adds that the tag of each suspended hart is watched in some domain and
  that what is reserved is untouched while the tag is set. Its steps rest on arithmetic
  lemmas on multiples: the tag of an aligned access is never `NoTag` (`TagOfType`), what it reserves
  holds the access (`AccessReserved`), and an aligned store that writes to what is reserved writes to
  the watched bytes too (`StoreMeetsGranule`).
* PMP. `NoStalePrivilege` and `TypeOK` are inductive; the work is in the loops. `MapRangeSound`: the
  range that `mapPMPInt` narrows entry by entry gets exactly the privilege of the lowest match at
  each address. `MapPMPSound`: the iterations of `mapPMP` cover the access. `WriteElemSound`: after the
  k-th byte of a `pmpcfg` write, the domains are sound for the bytes decided so far (`WriteInv`), since
  a byte is invalidated under its old and its new region, and a region depends on its entry alone
  but for the base of TOR (`RegionLocal`). `ResetSound` is the same for reset, and `EnoughSound` the
  fact both use: invalidating where the decision may change is enough.
* TLB. `Consistent` is the invariant: every mapping is owned by an entry with its key, every entry
  has a translation in `recent` that witnesses it, and the entry grants no more than that. The walk
  is followed level by level (`WalkSteps`, `WalkReaches`); the update of A and D by one access keeps
  every other walk's result but for those bits (`WalkKept`, `FindLeafKept`), so entries remain backed.
* Blocks. `IsBlock(b, bs)` states what is known of a kept translation with block states `bs`, in terms
  of the configuration alone, so that it survives every CSR write; `InBlock` says that what is left
  to run is a suffix of such a block and that what was taken for granted at that point is so. A
  block that leaves a dynamic mode to the host either validates the top bit of frm or was made with a
  reserved one (`MorphBlock`, by induction over the block), which is what `RoundedAsAsked` needs.
* Arithmetic. The runs compare the code with IEEE 754 in narrow formats, on chosen operands; the
  theorems do so for the code's own widths and every operand. The state is small: `FlagsCleared`
  says that the flags are empty between two operations and `ModeChosen` which rounding modes an
  instruction has. The work is in the algorithms.
  `MinMaxSign`: the order of bit patterns that the code compares is the order of the values
  (section "The order of the numbers" of the module).
  `AddSub`: a value is X units of 2^L. What rounding at a place can see of it is how many halves of the
  last place it holds and whether anything is left; `Agree` relates two values alike in that.
  Each step of the code (the alignment with its sticky bit, the addition or subtraction, the
  normalisation by counting leading zeros) is shown to keep `Agree` with the exact sum, and
  `roundPack`, with its cases of overflow, underflow and the carry into the exponent, to return
  `ValueRounded`, the rounding of any value that agrees with its operand. The reference, which trims
  what is too small to matter, is shown to return the same (`StandsFor`). After cancellation or a
  subnormal result nothing was dropped; that part needs exact equality in place of `Agree`.
  `Convert`: the same for conversions from integers and between the formats (`PacksValue`,
  `NarrowCorrect`). Conversions to integers are `IntRounded`, rounding with the test for saturation;
  the code rounds words with `IntGuard` guard bits and long words with a separate word of extra bits,
  and `RoundsAlike` relates each to the exact value. What the host converts is corrected by
  `handleIndeterminate*`, and `HostCorrected` shows that the correction gives the saturated result.
* Test environment. `Inv` of `VMTestEnvProofs`: the TLB agrees with the page table but for the entry that
  the handler has just changed; a page is mapped with the bits that the fault at hand asked for; a
  page that was changed is dirty; the pages in use are those of the first nodes of the list. TLC
  checked `Inv` on the instance of `vmtest`. The refinement mapping of `Transparent` is followed action by
  action: an instruction that completes is a step of `FlatMemory`, the copy and the page table writes
  leave the mapped memory alone.
* Loops. The model's loops are recursive functions. `IterationTheorems` proves, from the least number
  principle, that such a function exists and that what each iteration preserves holds after the last
  (`LoopExists`, `LoopInduction`), with the loop body as a function rather than as an operator. Powers
  of two are obtained from the cardinality of power sets; on them and on the uniqueness of quotient
  and remainder rest the facts about shifts and masks (`NestedDiv`, `NestedMod`, `ShiftedDivMod`).

Only model-checked:

* `InterruptsServed` and `InstructionCompletes`, which are liveness under fairness.
* `MulDivSqrtCorrect` and `FusedCorrect`, and what is said of the table of the reciprocal root. Multiplication needs of a proof what addition has, for
  products of two significands. Quotients and roots need an error analysis of the approximate
  reciprocals (the bound that makes it enough to examine the remainder near a boundary), with
  products of three and more terms that the SMT backend does not decide, and the fused operations
  the arithmetic of 128-bit sums in two words.
* `DecodeUnambiguous`, `DecodesAsISA`, `CompressedExpands`, `ExecutesAsISA`, `CSRAccessAsISA`. They relate
  tables of some two hundred rows to an opcode map row by row: there is no argument shorter than the
  enumeration, which TLC does. The functions that execute are evaluated on scaled data.

## 6. Disagreements found

Three are runs that TLC ends with a counterexample; `PROJECT.json` quotes what they contradict.

* `pmp_tor_base`: a write of `pmpaddr[i]` does not invalidate the region of a TOR entry `i+1`, of
  which it is the lower bound.
* `fp_rewritten_fs`: FS is set to dirty once per block. In a block that has a floating point
  instruction or a write of fflags (which does not end the block), then a write of Initial or Clean to
  FS, then another floating point instruction, the last changes a register and FS stays as written.
  (`FSDirty` holds in the run `fp`, whose programs write FS only before the instructions of a block that
  set it, and is proved for all such programs: `WritesMakeFSDirty`.)
* `vm_results`: `evict` calls `memcpy` with the direction of `handle_fault`, so it overwrites the test's
  page with the loaded one. When the environment reports a pass, the memory the test was loaded
  to lacks its stores. Nothing in the environment reads the pages after that; a target that dumps
  a signature from that memory would.

The others can be reproduced by changing a configuration:

* `riscvReset` selects the data domain with the mstatus from before the reset (`riscvExceptions.c:1118`).
  With MPRV set, loads and stores after the reset use the domain of the old MPP until mstatus or
  satp is written or the mode changes: `DataDomainConsistent` is violated in `MCRiscvHartDomains`,
  and `DataDomainStaleOnlyAfterReset` bounds it. The simulated ASID likewise keeps SUM and MXR;
  `SimASIDFollows` and `AllowedNow` state what remains true.
* While a `pmpcfg` write is processed, a locked lower-priority entry is seen with the byte software
  tried to write, and Machine privileges are not invalidated (`riscvVM.c:2176`): `NoStalePrivilege` with
  `Configs <- LockedRewriteConfigs`. The lock itself holds: `LockedUntilReset` is proved for such software
  too, and the run `pmp` has some whose entries all grant the same.
* The reset of a suspended hart clears its tag without removing the watch (`riscvCSR.c:1927`), which then
  stays. It costs later reservations only, as an SC may then fail that should succeed.
* dcsr, dpc and dscratch (0x7B0 to 0x7B2) can be accessed in Machine mode, read as 0 and ignore writes
  (`riscvCSR.c:1368`), while the comment above their rows says "TODO: these are undefined in all modes" and
  the manuals have such an access trap: `DebugCSRsUndefined`, added to `MCRiscvExec`. `ExecutesAsISA` leaves
  these three registers out.
* With the default `lr_sc_grain` of one byte a byte store of another hart to the second byte of a reserved
  word is not seen, and the SC succeeds: `SCIsAtomic` with `Grain = 1` in `MCRiscvLRSC`.
  The generated documentation states the granule (`riscvDoc.c:441`) and promises no more.
* `riscvValidateCSRAccess` validates no feature when none is missing (`riscvCSR.c:2468`). A block whose only
  floating point access is to a CSR is then used unchanged after FS has become 0, and the access does
  not trap: `FPCSRChecked` with `Programs <- CSROnly`, `Configs <- CSROnlyConfigs`.
* A block made with frm = 4 is also used with frm 5 to 7, as only the top bit is validated. An
  addition is then emulated with a mode read beyond the end of `mapRM` (`riscvSoftFloat.c:6106`) if the host's
  mode needs no refresh: `RoundingCorrect` with `Programs <- RMPrograms`, `Configs <- RMConfigs`.
* `medeleg` of the test environment does not include illegal instructions (`vm.c:249`), so the branch of
  `handle_trap` that lets a floating point test pass on hardware without it is never reached.

## 7. Not modelled

* The simulator itself (`vmirt`, `vmimt`), the hart under the test environment and the test
  program: modelled from their use and marked external in the map.
* xepc, xcause, xtval and vectored dispatch of traps; XLEN changes at run time; save and restore of
  CSRs, signals and the TLB.
* Entries of the TLB that artifact (debugger) accesses create.
* Routines of `riscvSoftFloat.c` that no instruction reaches (80- and 128-bit formats).
* `coherence_torture` of the other harts of the test environment, which loads from memory and adds
  zero to it.
* Disassembly, documentation text, configuration lists, debug tables, test programs and their
  reference signatures, target headers: text, data or straight-line code without state. The
  scripts of the compliance flow are sequential; what is doubtful in them is listed as a hazard.

## 8. Plan

Done: all modules of section 3 and the theorems of section 5. Next:

1. Theorems: multiplication, then the fused operations, along the lines of `AddSub`; the error of
   the reciprocals; `FullPeriod` for a generator given by its polynomial.
2. Save and restore composed with `RiscvHart`; `riscvNetRestore` does not recompute mip.
3. Trap frame: xepc, xcause, xtval, vectored mode.
