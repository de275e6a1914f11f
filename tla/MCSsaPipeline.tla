--------------------------- MODULE MCSsaPipeline ----------------------------
(***************************************************************************)
(* Small instances of SsaPipeline for TLC.  The model values are           *)
(* interchangeable wherever the specification only compares them.          *)
(***************************************************************************)
EXTENDS SsaPipeline, TLC

CONSTANTS r1, r2, guid, link, v1, v2, o1, o2, b1, t1, x1, x2

MCReporters == {r1, r2}
MCOneReporter == {r1}
MCKeys == {guid, link}
MCExactKeys == {guid}
MCVals == {v1, v2}
MCOneVal == {v1}
MCOpts == {o1, o2}
MCOneOpt == {o1}
MCNoKeys == {}
MCBlocks == {b1}
MCTops == {t1}
MCLftVals == {x1, x2}

ValSymmetry == Permutations(MCVals)
LftSymmetry == Permutations(MCReporters) \cup Permutations(MCLftVals)
=============================================================================
