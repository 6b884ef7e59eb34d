----------------------------- MODULE MCRiscvTLB ------------------------------
(* Instances of RiscvTLB for TLC: a root table 0 and a second table 1. *)
EXTENDS RiscvTLB

Pointer(t) == [InvalidPte EXCEPT !.V = TRUE, !.ppn = t]
LeafPte(priv, u, g, ad, ppn) ==
    [V |-> TRUE, priv |-> priv, U |-> u, G |-> g, A |-> ad, D |-> ad, ppn |-> ppn]

\* A clean user page and a global page that is executable only.
UserAndGlobalPages ==
    {<<0, 0, Pointer(1)>>,
     <<1, 0, [LeafPte({"R", "W"}, TRUE, FALSE, FALSE, 2) EXCEPT !.A = TRUE]>>,
     <<1, 0, LeafPte({"X"}, FALSE, TRUE, TRUE, 2)>>}

\* A superpage of two pages, well aligned or not, in place of the table; and
\* entries that no walk accepts.
SuperPages == {<<0, 0, Pointer(1)>>,
               <<0, 0, LeafPte({"R", "W"}, TRUE, FALSE, FALSE, 2)>>,
               <<0, 0, LeafPte({"R", "W"}, TRUE, FALSE, FALSE, 3)>>,
               <<1, 0, LeafPte({"R"}, TRUE, FALSE, TRUE, 3)>>,
               <<1, 1, LeafPte({"R"}, TRUE, FALSE, FALSE, 3)>>,
               <<1, 1, Pointer(1)>>}

\* Two ASIDs of one page table; and no ASID bits, a table that a walk cannot
\* write, no hardware update of the dirty bit, and resets.
MCConfigs ==
    {[fixedTables |-> {}, vas |-> {0}, satps |-> {[asid |-> a, root |-> 0] : a \in {0, 1}},
      pteWrites |-> UserAndGlobalPages, updateA |-> TRUE, updateD |-> TRUE,
      hasASID |-> TRUE, userExec |-> FALSE, resets |-> FALSE],
     [fixedTables |-> {1}, vas |-> {0, 1, 4}, satps |-> {[asid |-> 0, root |-> 0]},
      pteWrites |-> SuperPages, updateA |-> TRUE, updateD |-> FALSE,
      hasASID |-> FALSE, userExec |-> TRUE, resets |-> TRUE]}

==============================================================================
