----------------------------- MODULE MCRiscvLRSC -----------------------------
(* Instances of RiscvLRSC for TLC. *)
EXTENDS RiscvLRSC, TLC

CONSTANTS h1, h2, d1, d2

TwoHarts == {h1, h2}
TwoDomains == {d1, d2}

\* Harts are interchangeable, and so are domains.
Symmetry == Permutations(TwoHarts) \cup Permutations(TwoDomains)

==============================================================================
