---------------------------- MODULE MCVMTestEnv ------------------------------
(* Three test pages, of which the test can use two, and a free list of three. *)
EXTENDS VMTestEnv

\* Pages that differ from a frame that was never filled, and pages that do not.
Loaded == {[p \in UserPages |-> p % 2], [p \in UserPages |-> 0]}

\* The code's generator, of six bits, goes through all its values.
SixBits == INSTANCE VMTestEnv WITH LFSRBits <- 6, Images <- {}

ASSUME FullPeriodAssumption == FullPeriod /\ SixBits!FullPeriod
=============================================================================
