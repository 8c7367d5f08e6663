------------------------------ MODULE FileLock ------------------------------
(***************************************************************************)
(* The lock on a LevelDB directory: PosixEnv::LockFile and UnlockFile      *)
(* (env_posix.cc:416-448), each system call a step of its own, run by the  *)
(* threads of several processes that open, close and destroy one database. *)
(*                                                                         *)
(* POSIX record locks belong to a process and an inode: a second request   *)
(* of the owner succeeds, and the owner loses the lock when it closes ANY  *)
(* descriptor of the file.  The table of names that the code keeps beside  *)
(* them is what keeps two threads of one process apart.                    *)
(*                                                                         *)
(* The history variable apart says how the database has been used: no      *)
(* process began to open it while another of its threads was between open  *)
(* and close, and nobody destroyed it.                                     *)
(***************************************************************************)
EXTENDS Naturals

CONSTANTS
    Procs,          \* processes
    Openers,        \* their threads
    Proc,           \* the process of a thread
    NoProc,         \* nobody
    CanDestroy,     \* somebody calls DestroyDB
    MaxInodes       \* bound: lock files ever created

ASSUME FileLockAssumption ==
    /\ Proc \in [Openers -> Procs]
    /\ NoProc \notin Procs
    /\ CanDestroy \in BOOLEAN
    /\ MaxInodes \in Nat \ {0}

VARIABLES
    lockInode,      \* the inode of the name LOCK, 0 for none
    inodes,         \* inodes used so far
    lockOwner,      \* the process that has an inode locked
    locked_files_,  \* the processes that have the name in their table
    lockPc,         \* where each thread is
    lockFd,         \* the inode of its descriptor, 0 for none
    destroying,     \* threads that are in DestroyDB
    apart           \* history: opens of a process never overlapped

lockVars ==
    <<lockInode, inodes, lockOwner, locked_files_, lockPc, lockFd, destroying, apart>>

LockSteps == {"idle", "opened", "refused", "inserted", "failed", "closed", "held",
              "unlocked", "removed", "deleting"}

LockTypeOK ==
    /\ lockInode \in 0..MaxInodes /\ inodes \in 0..MaxInodes
    /\ lockOwner \in [1..MaxInodes -> Procs \cup {NoProc}]
    /\ locked_files_ \subseteq Procs
    /\ lockPc \in [Openers -> LockSteps]
    /\ lockFd \in [Openers -> 0..MaxInodes]
    /\ destroying \subseteq Openers /\ apart \in BOOLEAN
    /\ \A t \in Openers : lockFd[t] = 0 <=> lockPc[t] \in {"idle", "closed", "deleting"}

Goes(t, step) == lockPc' = [lockPc EXCEPT ![t] = step]

\* close(2): the descriptor is gone, and with it any lock of the process.
CloseFd(t) ==
    /\ lockOwner' = [i \in 1..MaxInodes |->
                        IF i = lockFd[t] /\ lockOwner[i] = Proc[t] THEN NoProc ELSE lockOwner[i]]
    /\ lockFd' = [lockFd EXCEPT ![t] = 0]

-----------------------------------------------------------------------------
(* LockFile.                                                               *)

\* open(2), which creates the file if need be.
OpenLockFile(t, destroy) ==
    /\ lockPc[t] = "idle"
    /\ destroy => CanDestroy
    /\ IF lockInode = 0
        THEN inodes < MaxInodes /\ inodes' = inodes + 1 /\ lockInode' = inodes'
        ELSE UNCHANGED <<lockInode, inodes>>
    /\ lockFd' = [lockFd EXCEPT ![t] = lockInode']
    /\ destroying' = IF destroy THEN destroying \cup {t} ELSE destroying \ {t}
    /\ apart' = (apart /\ ~destroy /\ \A u \in Openers : Proc[u] = Proc[t] => lockPc[u] = "idle")
    /\ Goes(t, "opened")
    /\ UNCHANGED <<lockOwner, locked_files_>>

\* Mutant: the table is not asked.
InsertNameAnyway(t) ==
    /\ lockPc[t] = "opened"
    /\ locked_files_' = locked_files_ \cup {Proc[t]}
    /\ Goes(t, "inserted")
    /\ UNCHANGED <<lockInode, inodes, lockOwner, lockFd, destroying, apart>>

\* locks_.Insert(fname).
InsertName(t) ==
    /\ lockPc[t] = "opened"
    /\ IF Proc[t] \in locked_files_
        THEN Goes(t, "refused") /\ UNCHANGED locked_files_
        ELSE Goes(t, "inserted") /\ locked_files_' = locked_files_ \cup {Proc[t]}
    /\ UNCHANGED <<lockInode, inodes, lockOwner, lockFd, destroying, apart>>

\* Mutant: the descriptor leaks.
CloseRefusedLeaks(t) ==
    /\ lockPc[t] = "refused"
    /\ Goes(t, "idle")
    /\ UNCHANGED <<lockInode, inodes, lockOwner, locked_files_, lockFd, destroying, apart>>

\* "already held by process": the descriptor is closed.
CloseRefused(t) ==
    /\ lockPc[t] = "refused"
    /\ CloseFd(t)
    /\ Goes(t, "idle")
    /\ UNCHANGED <<lockInode, inodes, locked_files_, destroying, apart>>

\* Mutant: F_RDLCK, which others may share.
SetLockShared(t) ==
    /\ lockPc[t] = "inserted"
    /\ lockOwner' = [lockOwner EXCEPT ![lockFd[t]] = IF @ = NoProc THEN Proc[t] ELSE @]
    /\ Goes(t, "held")
    /\ UNCHANGED <<lockInode, inodes, locked_files_, lockFd, destroying, apart>>

\* fcntl(F_SETLK), which does not wait.
SetLock(t) ==
    /\ lockPc[t] = "inserted"
    /\ IF lockOwner[lockFd[t]] \in {NoProc, Proc[t]}
        THEN lockOwner' = [lockOwner EXCEPT ![lockFd[t]] = Proc[t]] /\ Goes(t, "held")
        ELSE UNCHANGED lockOwner /\ Goes(t, "failed")
    /\ UNCHANGED <<lockInode, inodes, locked_files_, lockFd, destroying, apart>>

\* Somebody else has it: close, and then take the name out of the table.
CloseFailed(t) ==
    /\ lockPc[t] = "failed"
    /\ CloseFd(t)
    /\ Goes(t, "closed")
    /\ UNCHANGED <<lockInode, inodes, locked_files_, destroying, apart>>

RemoveFailed(t) ==
    /\ lockPc[t] = "closed"
    /\ locked_files_' = locked_files_ \ {Proc[t]}
    /\ Goes(t, "idle")
    /\ UNCHANGED <<lockInode, inodes, lockOwner, lockFd, destroying, apart>>

-----------------------------------------------------------------------------
(* UnlockFile, and the end of DestroyDB.                                   *)

\* Mutant: neither unlocked nor closed.
UnlockLeaks(t) ==
    /\ lockPc[t] = "held"
    /\ Goes(t, "idle")
    /\ locked_files_' = locked_files_ \ {Proc[t]}
    /\ lockFd' = [lockFd EXCEPT ![t] = 0]
    /\ UNCHANGED <<lockInode, inodes, lockOwner, destroying, apart>>

Unlock(t) ==
    /\ lockPc[t] = "held"
    /\ lockOwner' = [lockOwner EXCEPT ![lockFd[t]] = IF @ = Proc[t] THEN NoProc ELSE @]
    /\ Goes(t, "unlocked")
    /\ UNCHANGED <<lockInode, inodes, locked_files_, lockFd, destroying, apart>>

RemoveName(t) ==
    /\ lockPc[t] = "unlocked"
    /\ locked_files_' = locked_files_ \ {Proc[t]}
    /\ Goes(t, "removed")
    /\ UNCHANGED <<lockInode, inodes, lockOwner, lockFd, destroying, apart>>

CloseUnlocked(t) ==
    /\ lockPc[t] = "removed"
    /\ CloseFd(t)
    /\ Goes(t, IF t \in destroying THEN "deleting" ELSE "idle")
    /\ UNCHANGED <<lockInode, inodes, locked_files_, destroying, apart>>

\* env->DeleteFile(lockname), whichever file that is by now.
DeleteLockFile(t) ==
    /\ lockPc[t] = "deleting"
    /\ lockInode' = 0
    /\ Goes(t, "idle")
    /\ UNCHANGED <<inodes, lockOwner, locked_files_, lockFd, destroying, apart>>

\* "If the process exits, the lock will be automatically released."
ExitProcess(p) ==
    /\ lockOwner' = [i \in 1..MaxInodes |-> IF lockOwner[i] = p THEN NoProc ELSE lockOwner[i]]
    /\ locked_files_' = locked_files_ \ {p}
    /\ lockPc' = [t \in Openers |-> IF Proc[t] = p THEN "idle" ELSE lockPc[t]]
    /\ lockFd' = [t \in Openers |-> IF Proc[t] = p THEN 0 ELSE lockFd[t]]
    /\ UNCHANGED <<lockInode, inodes, destroying, apart>>

-----------------------------------------------------------------------------
LockInit ==
    /\ lockInode = 0 /\ inodes = 0
    /\ lockOwner = [i \in 1..MaxInodes |-> NoProc]
    /\ locked_files_ = {}
    /\ lockPc = [t \in Openers |-> "idle"]
    /\ lockFd = [t \in Openers |-> 0]
    /\ destroying = {} /\ apart = TRUE

LockFile(t) ==
    \/ \E destroy \in BOOLEAN : OpenLockFile(t, destroy)
    \/ InsertName(t) \/ CloseRefused(t) \/ SetLock(t) \/ CloseFailed(t) \/ RemoveFailed(t)

UnlockFile(t) == Unlock(t) \/ RemoveName(t) \/ CloseUnlocked(t) \/ DeleteLockFile(t)

LockNext ==
    \/ \E t \in Openers : LockFile(t) \/ UnlockFile(t)
    \/ \E p \in Procs : ExitProcess(p)

LockSpec == LockInit /\ [][LockNext]_lockVars

-----------------------------------------------------------------------------
\* Two threads of one process never have the database open together, in
\* every interleaving of their opens, closes and destructions: the table of
\* names, "since fcntl does not provide any protection against multiple
\* uses from the same process" (env_posix.cc:273).
OnePerProcess ==
    \A t, u \in Openers :
        lockPc[t] = "held" /\ lockPc[u] = "held" /\ Proc[t] = Proc[u] => t = u

\* "Used to prevent concurrent access to the same db by multiple processes"
\* (env.h:97): it does, as long as no process opens the database beside
\* another open or close of its own (any close of the file by the process
\* gives its lock away) and nobody destroys it (the name of the lock file
\* is removed after the lock).
Exclusive ==
    apart => \A t, u \in Openers : lockPc[t] = "held" /\ lockPc[u] = "held" => t = u

\* A process that dies in the middle of anything leaves no lock behind, and
\* neither does a close: a lock belongs to a process that is using it.
NoStaleLock ==
    \A i \in 1..MaxInodes : lockOwner[i] # NoProc =>
        \E t \in Openers : Proc[t] = lockOwner[i] /\ lockPc[t] # "idle"
=============================================================================
