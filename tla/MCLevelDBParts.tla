---------------------------- MODULE MCLevelDBParts ----------------------------
(***************************************************************************)
(* Parts of LevelDB that answer for themselves, in one run: part says      *)
(* which of them a behaviour is about, and the others stand still.  Here   *)
(* what several threads, processes or lives share: the levels, the         *)
(* directory lock, the log and the memtable.                               *)
(***************************************************************************)
EXTENDS LevelDBCompaction, FileLock, LogFormat, SkipList, TLC

VARIABLE part

partVars == <<part, compactionVars, lockVars, logVars, listVars>>

Parts == {"levels", "lock", "log", "memtable"}

MCSnapshots == FALSE :> 1 @@ TRUE :> 0
MCProc == 11 :> 1 @@ 12 :> 1 @@ 21 :> 2

Init ==
    /\ part \in Parts
    /\ CompactionInit /\ LockInit /\ LogInit /\ ListInit
    /\ part # "levels" => ~BigData

LevelsStep == part = "levels" /\ CompactionNext /\ UNCHANGED <<part, lockVars, logVars, listVars>>
LockStep == part = "lock" /\ LockNext /\ UNCHANGED <<part, compactionVars, logVars, listVars>>
LogStep == part = "log" /\ LogNext /\ UNCHANGED <<part, compactionVars, lockVars, listVars>>
MemTableStep ==
    part = "memtable" /\ ListNextState /\ UNCHANGED <<part, compactionVars, lockVars, logVars>>

Next == LevelsStep \/ LockStep \/ LogStep \/ MemTableStep

Spec == Init /\ [][Next]_partVars

\* Every part keeps its variables in their types, files are never empty and
\* a thread has a descriptor exactly while it should.
TypesOK == CompactionTypeOK /\ LockTypeOK /\ ListTypeOK
===============================================================================
