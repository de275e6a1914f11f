---------------------------- MODULE MCSsaCompare ----------------------------
(* Small instances of SsaCompare for TLC: a table of each family.          *)
EXTENDS SsaCompare, TLC

CONSTANTS v1, v2

MCKeys == 1..3
MCVals == {v1, v2}
MCTables == <<"guid_to_lid", "link">>
MCOneField == {"sm_state"}
MCTwoFields == {"sm_state", "subnet_timeout"}
MCOptVals == {0, 1}

Symmetry == Permutations(MCVals)
=============================================================================
