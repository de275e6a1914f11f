--------------------------- MODULE MCSsaLftTable ----------------------------
(* A small instance of SsaLftTable for TLC.                                *)
EXTENDS SsaLftTable, TLC

CONSTANTS x1, x2

MCLids == {1}
MCVals == {x1, x2}

Symmetry == Permutations(MCVals)
=============================================================================
