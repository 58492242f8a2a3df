----------------------------- MODULE MCAbiManager -----------------------------
(***************************************************************************)
(* Small instances of AbiManager.                                          *)
(***************************************************************************)
EXTENDS AbiManager, TLC

CONSTANTS i1, i2, t1, t2

Symmetry == Permutations({i1, i2}) \cup Permutations({t1, t2})
=============================================================================
