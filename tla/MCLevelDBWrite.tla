--------------------------- MODULE MCLevelDBWrite ---------------------------
(***************************************************************************)
(* Small instances of LevelDBWrite for TLC.                                *)
(***************************************************************************)
EXTENDS LevelDBWrite, TLC

CONSTANTS t1, t2, t3

MCSymmetry == Permutations(Threads)
=============================================================================
