-------------------------- MODULE MCLevelDBCompaction --------------------------
(***************************************************************************)
(* The levels alone: a big database whose compactions may cut an output    *)
(* between two entries of one key, and a small one in which a manual       *)
(* compaction has a gap between its inputs.                                *)
(***************************************************************************)
EXTENDS LevelDBCompaction, TLC

MCSnapshots == TRUE :> 1
MCNoSnapshots == FALSE :> 0
================================================================================
