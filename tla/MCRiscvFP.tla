------------------------------ MODULE MCRiscvFP ------------------------------
(***************************************************************************)
(* Blocks of up to four instructions over two registers, for processors    *)
(* with and without D, with every tie between misa's D and F.              *)
(***************************************************************************)
EXTENDS RiscvFP

I(op, rm, bits, dst, src) ==
    [op |-> op, rm |-> rm, bits |-> bits, dst |-> dst, src |-> src]

Config(arch, mask, dirty, ties, frms) ==
    [arch |-> arch, archMask |-> mask, fs_always_dirty |-> dirty,
     d_requires_f |-> ties, frms |-> frms]

DF == {"D", "F"}

MCConfigs ==
    {Config(DF, {}, FALSE, FALSE, {0, 1, 4}),
     Config(DF, DF, FALSE, TRUE, {0, 3}),
     Config(DF, {"D"}, TRUE, FALSE, {0, 2, 7}),
     Config(DF, {"F"}, FALSE, FALSE, {2, 4}),
     Config({"F"}, {"F"}, FALSE, FALSE, {1, 5})}

Dyn == I("arith", "CURRENT", 32, "f0", "f0")

FFlags == I("fflags", "NA", 32, "f0", "f0")

MCPrograms ==
    {<<I("arith", "RTZ", 32, "f0", "f1"), Dyn, FFlags, Dyn>>,
     <<Dyn, I("minmax", "NA", 32, "f1", "f0"), I("cvtInt", "CURRENT", 32, "f0", "f0")>>,
     <<I("arith", "RMM", 64, "f1", "f1"), I("cvt", "CURRENT", 64, "f0", "f1")>>,
     <<I("load", "NA", 32, "f1", "f1"), I("load", "NA", 64, "f1", "f1"),
       I("move", "NA", 32, "f0", "f1")>>,
     <<I("widen", "CURRENT", 64, "f1", "f0"), I("cmp", "NA", 64, "f1", "f1")>>,
     <<I("cvt", "RUP", 64, "f0", "f1"), I("arith", "BAD", 32, "f0", "f0")>>,
     <<Dyn, I("csr", "NA", 32, "f0", "f0")>>,
     <<I("fs", "NA", 32, "f0", "f0"), FFlags, I("move", "NA", 32, "f1", "f0")>>}

\* Software that writes FS between two floating point instructions of a block.
RewriteFS ==
    LET fs == I("fs", "NA", 32, "f0", "f0") IN {<<fs>>, <<Dyn, fs, Dyn>>, <<FFlags, fs, Dyn>>}

RewriteConfigs == {Config(DF, {}, FALSE, FALSE, {0})}

\* A CSR access with no other floating point instruction in its block.
CSROnly == {<<I("csr", "NA", 32, "f0", "f0")>>, <<I("fs", "NA", 32, "f0", "f0")>>}

CSROnlyConfigs == {Config(DF, {}, FALSE, FALSE, {0, 1})}

\* One dynamic addition, with frm able to become invalid and then RMM.
RMPrograms == {<<Dyn>>, <<Dyn, I("csr", "NA", 32, "f0", "f0")>>} \cup CSROnly

RMConfigs == {Config(DF, {}, FALSE, FALSE, {0, 4, 5})}

MCFSVals == {0, 1, 2}

MCMisaVals == SUBSET DF

NoMisa == {}

=============================================================================
