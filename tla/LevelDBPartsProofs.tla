--------------------------- MODULE LevelDBPartsProofs ---------------------------
(***************************************************************************)
(* The parts of LevelDB that MCLevelDBParts puts side by side: the lock of *)
(* the directory, the memtable and the log, then the composition itself.   *)
(*                                                                         *)
(* The lock, for any processes and threads and any number of lock files:   *)
(* two threads of one process never hold it together, two processes do     *)
(* not as long as the opens of each are apart, and no lock outlives its    *)
(* users.  OnePerProcess rests on the table of names alone: a thread past  *)
(* Insert has its process in the table, and is the only one of its process *)
(* there.  Exclusive rests on the record lock: while opens are apart there *)
(* is one lock file, every descriptor is of it, and the thread that holds  *)
(* the lock is of its owner, since a close that could take the lock away   *)
(* would be of another thread of that process.                             *)
(*                                                                         *)
(* The memtable, for any keys and any height: readers that take no lock    *)
(* miss nothing that was inserted when their call began.  At every level   *)
(* the linked nodes are a sorted list without a gap, and a node that is    *)
(* linked at a level is linked below it, since Insert links from the       *)
(* bottom up: this is what lets a reader step down from wherever it is.    *)
(* The links that Insert will make are still where it found them, since it *)
(* is the only writer.                                                     *)
(*                                                                         *)
(* The log, for any block and header size and any records: whatever is     *)
(* done to the file, what is read are records that were written, in order, *)
(* and what is lost had a fragment in a block that was damaged.  Writer    *)
(* says how fragments follow one another, Reader that the fragments in     *)
(* hand are one record from its first on.  While no append was cut short,  *)
(* Layout says that fragments and fillers tile the file and keep to its    *)
(* blocks, and Loss that what the reader skipped lies in bad blocks.       *)
(***************************************************************************)
EXTENDS MCLevelDBParts, LevelDBCompactionProofs

-----------------------------------------------------------------------------
(* The lock.                                                               *)

\* Between Insert and Remove of the name.
Inside == {"inserted", "failed", "closed", "held", "unlocked"}

Named == \A t \in Openers : lockPc[t] \in Inside => Proc[t] \in locked_files_

OneInside ==
    \A t, u \in Openers :
        lockPc[t] \in Inside /\ lockPc[u] \in Inside /\ Proc[t] = Proc[u] => t = u

\* A lock is of a process with a descriptor of the file.
Used ==
    \A i \in 1..MaxInodes : lockOwner[i] # NoProc =>
        \E t \in Openers : Proc[t] = lockOwner[i] /\ lockFd[t] = i

\* The threads of a process are in LockFile and UnlockFile one at a time.
Alone ==
    \A t, u \in Openers :
        lockPc[t] # "idle" /\ lockPc[u] # "idle" /\ Proc[t] = Proc[u] => t = u

\* Nobody destroys.
NobodyDestroys == destroying = {} /\ \A t \in Openers : lockPc[t] # "deleting"

OneFile == \A t \in Openers : lockFd[t] \in {0, lockInode}

HeldOwns == \A t \in Openers : lockPc[t] = "held" => lockOwner[lockFd[t]] = Proc[t]

FInv ==
    /\ LockTypeOK
    /\ Named
    /\ OneInside
    /\ Used
    /\ apart => Alone /\ NobodyDestroys /\ OneFile /\ HeldOwns

-----------------------------------------------------------------------------
LEMMA FInvInit == LockInit => FInv
  BY FileLockAssumption
     DEF FileLockAssumption, LockInit, FInv, LockTypeOK, LockSteps, Inside, Named, OneInside, Used, Alone, NobodyDestroys,
         OneFile, HeldOwns

-----------------------------------------------------------------------------
LEMMA OpenLockFileKeeps ==
  ASSUME FInv, NEW t \in Openers, NEW destroy \in BOOLEAN, OpenLockFile(t, destroy)
  PROVE  FInv'
<1> USE FileLockAssumption DEF FileLockAssumption, FInv, LockTypeOK, LockSteps, Goes, OpenLockFile
<1>1. LockTypeOK'
  OBVIOUS
<1>2. Named'
  BY DEF Named, OneInside, Inside
<1>3. OneInside'
  BY DEF Named, OneInside, Inside
<1>4. Used'
  BY DEF Used
<1>5. ASSUME apart' PROVE Alone' /\ NobodyDestroys' /\ OneFile' /\ HeldOwns'
  <2>1. apart
    BY <1>5
  <2>2. Alone'
    BY <1>5, <2>1 DEF Alone
  <2>3. NobodyDestroys'
    BY <1>5, <2>1 DEF NobodyDestroys
  <2>4. OneFile'
    BY <1>5, <2>1 DEF OneFile, NobodyDestroys
  <2>5. HeldOwns'
    BY <1>5, <2>1 DEF HeldOwns, Alone, OneFile, NobodyDestroys
  <2>6. QED
    BY <2>2, <2>3, <2>4, <2>5
<1>6. QED
  BY <1>1, <1>2, <1>3, <1>4, <1>5

LEMMA InsertNameKeeps ==
  ASSUME FInv, NEW t \in Openers, InsertName(t)
  PROVE  FInv'
<1> USE FileLockAssumption DEF FileLockAssumption, FInv, LockTypeOK, LockSteps, Goes, InsertName
<1>1. LockTypeOK'
  <2>1. CASE Proc[t] \in locked_files_
    BY <2>1
  <2>2. CASE Proc[t] \notin locked_files_
    <3>1. locked_files_' \subseteq Procs
      <4>1. Proc[t] \in Procs
        OBVIOUS
      <4>2. locked_files_' = locked_files_ \cup {Proc[t]}
        BY <2>2
      <4>3. QED
        BY <4>1, <4>2
    <3>2. lockPc' \in [Openers -> LockSteps]
      BY <2>2
    <3>3. \A u \in Openers : lockFd'[u] = 0 <=> lockPc'[u] \in {"idle", "closed", "deleting"}
      BY <2>2
    <3>4. QED
      BY <3>1, <3>2, <3>3
  <2>3. QED
    BY <2>1, <2>2
<1>2. Named'
  BY DEF Named, OneInside, Inside
<1>3. OneInside'
  BY DEF Named, OneInside, Inside
<1>4. Used'
  BY DEF Used
<1>5. ASSUME apart' PROVE Alone' /\ NobodyDestroys' /\ OneFile' /\ HeldOwns'
  <2>1. apart
    BY <1>5
  <2>2. Alone'
    BY <1>5, <2>1 DEF Alone
  <2>3. NobodyDestroys'
    BY <1>5, <2>1 DEF NobodyDestroys
  <2>4. OneFile'
    BY <1>5, <2>1 DEF OneFile, NobodyDestroys
  <2>5. HeldOwns'
    BY <1>5, <2>1 DEF HeldOwns, Alone, OneFile, NobodyDestroys
  <2>6. QED
    BY <2>2, <2>3, <2>4, <2>5
<1>6. QED
  BY <1>1, <1>2, <1>3, <1>4, <1>5

LEMMA CloseRefusedKeeps ==
  ASSUME FInv, NEW t \in Openers, CloseRefused(t)
  PROVE  FInv'
<1> USE FileLockAssumption DEF FileLockAssumption, FInv, LockTypeOK, LockSteps, Goes, CloseRefused, CloseFd
<1>1. LockTypeOK'
  OBVIOUS
<1>2. Named'
  BY DEF Named, OneInside, Inside
<1>3. OneInside'
  BY DEF Named, OneInside, Inside
<1>4. Used'
  BY DEF Used
<1>5. ASSUME apart' PROVE Alone' /\ NobodyDestroys' /\ OneFile' /\ HeldOwns'
  <2>1. apart
    BY <1>5
  <2>2. Alone'
    BY <1>5, <2>1 DEF Alone
  <2>3. NobodyDestroys'
    BY <1>5, <2>1 DEF NobodyDestroys
  <2>4. OneFile'
    BY <1>5, <2>1 DEF OneFile, NobodyDestroys
  <2>5. HeldOwns'
    BY <1>5, <2>1 DEF HeldOwns, Alone, OneFile, NobodyDestroys
  <2>6. QED
    BY <2>2, <2>3, <2>4, <2>5
<1>6. QED
  BY <1>1, <1>2, <1>3, <1>4, <1>5

LEMMA SetLockKeeps ==
  ASSUME FInv, NEW t \in Openers, SetLock(t)
  PROVE  FInv'
<1> USE FileLockAssumption DEF FileLockAssumption, FInv, LockTypeOK, LockSteps, Goes, SetLock
<1>1. LockTypeOK'
  OBVIOUS
<1>2. Named'
  BY DEF Named, OneInside, Inside
<1>3. OneInside'
  BY DEF Named, OneInside, Inside
<1>4. Used'
  BY DEF Used
<1>5. ASSUME apart' PROVE Alone' /\ NobodyDestroys' /\ OneFile' /\ HeldOwns'
  <2>1. apart
    BY <1>5
  <2>2. Alone'
    BY <1>5, <2>1 DEF Alone
  <2>3. NobodyDestroys'
    BY <1>5, <2>1 DEF NobodyDestroys
  <2>4. OneFile'
    BY <1>5, <2>1 DEF OneFile, NobodyDestroys
  <2>5. HeldOwns'
    BY <1>5, <2>1 DEF HeldOwns, Alone, OneFile, NobodyDestroys
  <2>6. QED
    BY <2>2, <2>3, <2>4, <2>5
<1>6. QED
  BY <1>1, <1>2, <1>3, <1>4, <1>5

LEMMA CloseFailedKeeps ==
  ASSUME FInv, NEW t \in Openers, CloseFailed(t)
  PROVE  FInv'
<1> USE FileLockAssumption DEF FileLockAssumption, FInv, LockTypeOK, LockSteps, Goes, CloseFailed, CloseFd
<1>1. LockTypeOK'
  OBVIOUS
<1>2. Named'
  BY DEF Named, OneInside, Inside
<1>3. OneInside'
  BY DEF Named, OneInside, Inside
<1>4. Used'
  BY DEF Used
<1>5. ASSUME apart' PROVE Alone' /\ NobodyDestroys' /\ OneFile' /\ HeldOwns'
  <2>1. apart
    BY <1>5
  <2>2. Alone'
    BY <1>5, <2>1 DEF Alone
  <2>3. NobodyDestroys'
    BY <1>5, <2>1 DEF NobodyDestroys
  <2>4. OneFile'
    BY <1>5, <2>1 DEF OneFile, NobodyDestroys
  <2>5. HeldOwns'
    BY <1>5, <2>1 DEF HeldOwns, Alone, OneFile, NobodyDestroys
  <2>6. QED
    BY <2>2, <2>3, <2>4, <2>5
<1>6. QED
  BY <1>1, <1>2, <1>3, <1>4, <1>5

LEMMA RemoveFailedKeeps ==
  ASSUME FInv, NEW t \in Openers, RemoveFailed(t)
  PROVE  FInv'
<1> USE FileLockAssumption DEF FileLockAssumption, FInv, LockTypeOK, LockSteps, Goes, RemoveFailed
<1>1. LockTypeOK'
  OBVIOUS
<1>2. Named'
  BY DEF Named, OneInside, Inside
<1>3. OneInside'
  BY DEF Named, OneInside, Inside
<1>4. Used'
  BY DEF Used
<1>5. ASSUME apart' PROVE Alone' /\ NobodyDestroys' /\ OneFile' /\ HeldOwns'
  <2>1. apart
    BY <1>5
  <2>2. Alone'
    BY <1>5, <2>1 DEF Alone
  <2>3. NobodyDestroys'
    BY <1>5, <2>1 DEF NobodyDestroys
  <2>4. OneFile'
    BY <1>5, <2>1 DEF OneFile, NobodyDestroys
  <2>5. HeldOwns'
    BY <1>5, <2>1 DEF HeldOwns, Alone, OneFile, NobodyDestroys
  <2>6. QED
    BY <2>2, <2>3, <2>4, <2>5
<1>6. QED
  BY <1>1, <1>2, <1>3, <1>4, <1>5

LEMMA UnlockKeeps ==
  ASSUME FInv, NEW t \in Openers, Unlock(t)
  PROVE  FInv'
<1> USE FileLockAssumption DEF FileLockAssumption, FInv, LockTypeOK, LockSteps, Goes, Unlock
<1>1. LockTypeOK'
  OBVIOUS
<1>2. Named'
  BY DEF Named, OneInside, Inside
<1>3. OneInside'
  BY DEF Named, OneInside, Inside
<1>4. Used'
  BY DEF Used
<1>5. ASSUME apart' PROVE Alone' /\ NobodyDestroys' /\ OneFile' /\ HeldOwns'
  <2>1. apart
    BY <1>5
  <2>2. Alone'
    BY <1>5, <2>1 DEF Alone
  <2>3. NobodyDestroys'
    BY <1>5, <2>1 DEF NobodyDestroys
  <2>4. OneFile'
    BY <1>5, <2>1 DEF OneFile, NobodyDestroys
  <2>5. HeldOwns'
    BY <1>5, <2>1 DEF HeldOwns, Alone, OneFile, NobodyDestroys
  <2>6. QED
    BY <2>2, <2>3, <2>4, <2>5
<1>6. QED
  BY <1>1, <1>2, <1>3, <1>4, <1>5

LEMMA RemoveNameKeeps ==
  ASSUME FInv, NEW t \in Openers, RemoveName(t)
  PROVE  FInv'
<1> USE FileLockAssumption DEF FileLockAssumption, FInv, LockTypeOK, LockSteps, Goes, RemoveName
<1>1. LockTypeOK'
  OBVIOUS
<1>2. Named'
  BY DEF Named, OneInside, Inside
<1>3. OneInside'
  BY DEF Named, OneInside, Inside
<1>4. Used'
  BY DEF Used
<1>5. ASSUME apart' PROVE Alone' /\ NobodyDestroys' /\ OneFile' /\ HeldOwns'
  <2>1. apart
    BY <1>5
  <2>2. Alone'
    BY <1>5, <2>1 DEF Alone
  <2>3. NobodyDestroys'
    BY <1>5, <2>1 DEF NobodyDestroys
  <2>4. OneFile'
    BY <1>5, <2>1 DEF OneFile, NobodyDestroys
  <2>5. HeldOwns'
    BY <1>5, <2>1 DEF HeldOwns, Alone, OneFile, NobodyDestroys
  <2>6. QED
    BY <2>2, <2>3, <2>4, <2>5
<1>6. QED
  BY <1>1, <1>2, <1>3, <1>4, <1>5

LEMMA CloseUnlockedKeeps ==
  ASSUME FInv, NEW t \in Openers, CloseUnlocked(t)
  PROVE  FInv'
<1> USE FileLockAssumption DEF FileLockAssumption, FInv, LockTypeOK, LockSteps, Goes, CloseUnlocked, CloseFd
<1>1. LockTypeOK'
  OBVIOUS
<1>2. Named'
  BY DEF Named, OneInside, Inside
<1>3. OneInside'
  BY DEF Named, OneInside, Inside
<1>4. Used'
  BY DEF Used
<1>5. ASSUME apart' PROVE Alone' /\ NobodyDestroys' /\ OneFile' /\ HeldOwns'
  <2>1. apart
    BY <1>5
  <2>2. Alone'
    BY <1>5, <2>1 DEF Alone
  <2>3. NobodyDestroys'
    BY <1>5, <2>1 DEF NobodyDestroys
  <2>4. OneFile'
    BY <1>5, <2>1 DEF OneFile, NobodyDestroys
  <2>5. HeldOwns'
    BY <1>5, <2>1 DEF HeldOwns, Alone, OneFile, NobodyDestroys
  <2>6. QED
    BY <2>2, <2>3, <2>4, <2>5
<1>6. QED
  BY <1>1, <1>2, <1>3, <1>4, <1>5

LEMMA DeleteLockFileKeeps ==
  ASSUME FInv, NEW t \in Openers, DeleteLockFile(t)
  PROVE  FInv'
<1> USE FileLockAssumption DEF FileLockAssumption, FInv, LockTypeOK, LockSteps, Goes, DeleteLockFile
<1>1. LockTypeOK'
  OBVIOUS
<1>2. Named'
  BY DEF Named, OneInside, Inside
<1>3. OneInside'
  BY DEF Named, OneInside, Inside
<1>4. Used'
  BY DEF Used
<1>5. ASSUME apart' PROVE Alone' /\ NobodyDestroys' /\ OneFile' /\ HeldOwns'
  <2>1. apart
    BY <1>5
  <2>2. Alone'
    BY <1>5, <2>1 DEF Alone
  <2>3. NobodyDestroys'
    BY <1>5, <2>1 DEF NobodyDestroys
  <2>4. OneFile'
    BY <1>5, <2>1 DEF OneFile, NobodyDestroys
  <2>5. HeldOwns'
    BY <1>5, <2>1 DEF HeldOwns, Alone, OneFile, NobodyDestroys
  <2>6. QED
    BY <2>2, <2>3, <2>4, <2>5
<1>6. QED
  BY <1>1, <1>2, <1>3, <1>4, <1>5

LEMMA ExitProcessKeeps ==
  ASSUME FInv, NEW p \in Procs, ExitProcess(p)
  PROVE  FInv'
<1> USE FileLockAssumption DEF FileLockAssumption, FInv, LockTypeOK, LockSteps, Goes, ExitProcess
<1>1. LockTypeOK'
  OBVIOUS
<1>2. Named'
  BY DEF Named, OneInside, Inside
<1>3. OneInside'
  BY DEF Named, OneInside, Inside
<1>4. Used'
  BY DEF Used
<1>5. ASSUME apart' PROVE Alone' /\ NobodyDestroys' /\ OneFile' /\ HeldOwns'
  <2>1. apart
    BY <1>5
  <2>2. Alone'
    BY <1>5, <2>1 DEF Alone
  <2>3. NobodyDestroys'
    BY <1>5, <2>1 DEF NobodyDestroys
  <2>4. OneFile'
    BY <1>5, <2>1 DEF OneFile, NobodyDestroys
  <2>5. HeldOwns'
    <3>1. SUFFICES ASSUME NEW u \in Openers, lockPc'[u] = "held"
                   PROVE  lockOwner'[lockFd'[u]] = Proc[u]
      BY DEF HeldOwns
    <3>2. lockPc[u] = "held" /\ Proc[u] # p /\ lockFd'[u] = lockFd[u]
      BY <3>1
    <3>3. lockFd[u] \in 1..MaxInodes
      BY <3>2, SMTT(30)
    <3>4. HeldOwns
      BY <2>1
    <3>5. lockOwner[lockFd[u]] = Proc[u]
      BY <3>2, <3>4 DEF HeldOwns
    <3>6. QED
      BY <3>2, <3>3, <3>5
  <2>6. QED
    BY <2>2, <2>3, <2>4, <2>5
<1>6. QED
  BY <1>1, <1>2, <1>3, <1>4, <1>5

-----------------------------------------------------------------------------
LEMMA FInvStep == FInv /\ [LockNext]_lockVars => FInv'
<1> SUFFICES ASSUME FInv, [LockNext]_lockVars PROVE FInv'
  OBVIOUS
<1>1. CASE UNCHANGED lockVars
  BY <1>1 DEF FInv, LockTypeOK, Named, OneInside, Used, Alone, NobodyDestroys, OneFile, HeldOwns, lockVars
<1>2. ASSUME NEW t \in Openers, LockFile(t) PROVE FInv'
  BY <1>2, OpenLockFileKeeps, InsertNameKeeps, CloseRefusedKeeps, SetLockKeeps,
     CloseFailedKeeps, RemoveFailedKeeps
     DEF LockFile
<1>3. ASSUME NEW t \in Openers, UnlockFile(t) PROVE FInv'
  BY <1>3, UnlockKeeps, RemoveNameKeeps, CloseUnlockedKeeps, DeleteLockFileKeeps DEF UnlockFile
<1>4. ASSUME NEW p \in Procs, ExitProcess(p) PROVE FInv'
  BY <1>4, ExitProcessKeeps
<1>5. QED
  BY <1>1, <1>2, <1>3, <1>4 DEF LockNext

LEMMA FInvAlways == LockSpec => []FInv
  BY FInvInit, FInvStep, PTL DEF LockSpec

\* A thread has a descriptor of the lock file exactly while it should, on
\* every path through LockFile and UnlockFile.
THEOREM LockTypes == LockSpec => []LockTypeOK
<1>1. FInv => LockTypeOK
  BY DEF FInv
<1>2. QED
  BY <1>1, FInvAlways, PTL

\* Two threads of one process never have the database open together, for any
\* processes and threads (PosixLockTable).
THEOREM LockOnePerProcess == LockSpec => []OnePerProcess
<1>1. FInv => OnePerProcess
  BY DEF FInv, OneInside, Inside, OnePerProcess
<1>2. QED
  BY <1>1, FInvAlways, PTL

\* Two processes never have it open together while the opens of each are
\* apart and nobody destroys it (PosixEnv::LockFile).
THEOREM LockExclusive == LockSpec => []Exclusive
<1>1. FInv => Exclusive
  <2> SUFFICES ASSUME FInv, apart, NEW t \in Openers, NEW u \in Openers,
                      lockPc[t] = "held", lockPc[u] = "held"
               PROVE  t = u
    BY DEF Exclusive
  <2>1. lockFd[t] = lockInode /\ lockFd[u] = lockInode
    BY DEF FInv, LockTypeOK, OneFile
  <2>2. Proc[t] = Proc[u]
    BY <2>1 DEF FInv, HeldOwns
  <2>3. QED
    BY <2>2 DEF FInv, OneInside, Inside
<1>2. QED
  BY <1>1, FInvAlways, PTL

\* No lock outlives its users, whatever dies or closes when (PosixEnv::
\* UnlockFile, and the end of a process).
THEOREM LockNotStale == LockSpec => []NoStaleLock
<1>1. FInv => NoStaleLock
  BY DEF FInv, LockTypeOK, Used, NoStaleLock
<1>2. QED
  BY <1>1, FInvAlways, PTL

-----------------------------------------------------------------------------
(* The memtable.                                                           *)

Linked(n, l) == next_[n][l] # Junk

\* The list of a level is sorted, and has no gap.
Sorted ==
    \A n \in Nodes, l \in Levels : Linked(n, l) =>
        /\ n < next_[n][l]
        /\ next_[n][l] # Inf => Linked(next_[n][l], l)
        /\ \A m \in Nodes : Linked(m, l) => ~(n < m /\ m < next_[n][l])

\* Who is linked where.
Towers ==
    /\ heights # {}
    /\ \A l \in Levels : Linked(0, l)
    /\ \A n \in Nodes, l, m \in Levels : Linked(n, l) /\ m <= l => Linked(n, m)
    /\ \A k \in inserted : Linked(k, 1)
    /\ \A k \in ListKeys, l \in Levels : Linked(k, l) =>
            /\ k \in inserted \/ k = adding
            /\ \E h \in heights : l <= h

\* The insertion that is under way.
Adding ==
    adding # 0 =>
        /\ adding \in ListKeys \ inserted
        /\ height \in Levels /\ linked \in 0..height /\ \E h \in heights : height <= h
        /\ prev \in [Levels -> Nodes]
        /\ \A l \in Levels : IF l <= linked THEN Linked(adding, l)
            ELSE /\ ~Linked(adding, l)
                 /\ Linked(prev[l], l) /\ prev[l] < adding /\ adding < next_[prev[l]][l]

\* The reader.
Reading ==
    /\ known \subseteq inserted
    /\ found # Inf => Linked(found, 1)
    /\ walk # "no" => /\ Linked(node, level) /\ node < target
                      /\ target \in ListKeys \cup {Inf}

ListInv == ListTypeOK /\ Sorted /\ Towers /\ Adding /\ Reading /\ ReadersMissNothing

-----------------------------------------------------------------------------
(* Greatest elements.                                                      *)

LEMMA HasMax ==
  ASSUME NEW N \in Nat, NEW T, T \subseteq 0..N, T # {}
  PROVE  \E x \in T : \A y \in T : y <= x
<1> DEFINE U == {N - x : x \in T}
<1>0. \A x \in T : x \in Nat /\ x <= N
  OBVIOUS
<1>1. U \subseteq Nat /\ U # {}
  <2>1. \A x \in T : N - x \in Nat
    BY <1>0
  <2>2. QED
    BY <2>1
<1> HIDE DEF U
<1>2. PICK u \in U : \A v \in U : u <= v
  BY <1>1, LeastOfNumbers
<1>3. PICK x \in T : u = N - x
  BY DEF U
<1>4. \A y \in T : N - y \in U
  BY DEF U
<1>5. \A y \in T : y <= x
  BY <1>0, <1>2, <1>3, <1>4
<1>6. QED
  BY <1>5

\* max_height_ is a height, and above the others.
LEMMA TopHeight ==
  ASSUME ListInv
  PROVE  MaxHeightNow \in heights /\ \A h \in heights : h <= MaxHeightNow
<1>1. heights \subseteq 0..MaxHeight /\ heights # {} /\ MaxHeight \in Nat
  BY ListAssumption DEF ListInv, ListTypeOK, Levels, Towers, ListAssumption
<1>2. \E h \in heights : \A g \in heights : g <= h
  BY <1>1, HasMax
<1>3. QED
  BY <1>2 DEF MaxHeightNow

-----------------------------------------------------------------------------
LEMMA Numbers ==
  /\ Inf \in Nat /\ Nodes \subseteq Nat /\ \A n \in Nodes : n < Inf
  /\ Levels \subseteq Nat \ {0} /\ 1 \in Levels
  /\ \A k \in ListKeys : k \in Nat /\ 0 < k /\ k < Inf
  /\ 0 \in Nodes /\ 0 \notin ListKeys /\ ListKeys \subseteq Nodes
<1>1. Inf \in Nat /\ 0 < Inf /\ MaxHeight \in Nat \ {0}
  BY ListAssumption DEF ListAssumption
<1>2. \A k \in ListKeys : k \in Nat /\ 0 < k /\ k < Inf
  BY ListAssumption DEF ListAssumption
<1>3. Levels \subseteq Nat \ {0} /\ 1 \in Levels
  BY <1>1 DEF Levels
<1>4. QED
  BY <1>1, <1>2, <1>3 DEF Nodes

LEMMA ListInvInit == ListInit => ListInv
<1> SUFFICES ASSUME ListInit PROVE ListInv
  OBVIOUS
<1>1. \A n \in Nodes, l \in Levels : next_[n][l] = IF n = 0 THEN Inf ELSE Junk
  BY DEF ListInit
<1>2. \A n \in Nodes, l \in Levels : Linked(n, l) <=> n = 0
  BY <1>1, Numbers DEF Linked, Junk
<1>3. ListTypeOK
  <2>1. next_ \in [Nodes -> [Levels -> ListKeys \cup {Inf, Junk}]]
    BY DEF ListInit
  <2>2. 0 \in 0..MaxHeight
    BY ListAssumption DEF ListAssumption
  <2>3. QED
    BY <2>1, <2>2, Numbers DEF ListInit, ListTypeOK
<1>4. Sorted
  BY <1>1, <1>2, Numbers DEF Sorted
<1>5. Towers
  BY <1>2, Numbers DEF Towers, ListInit
<1>6. QED
  BY <1>2, <1>3, <1>4, <1>5 DEF ListInv, ListInit, Adding, Reading, ReadersMissNothing

-----------------------------------------------------------------------------
(* The writer.                                                             *)

\* Steps of the writer that neither unlink nor insert anything for a reader.
LEMMA ReaderStands ==
  ASSUME ListInv, UNCHANGED walkVars, inserted \subseteq inserted',
         \A n \in Nodes, l \in Levels : Linked(n, l) => Linked(n, l)'
  PROVE  Reading' /\ ReadersMissNothing'
<1>1. walk # "no" => node \in Nodes /\ level \in Levels
  BY DEF ListInv, ListTypeOK
<1>2. found # Inf => found \in Nodes /\ 1 \in Levels
  BY Numbers DEF ListInv, ListTypeOK
<1>3. Reading'
  BY <1>1, <1>2 DEF ListInv, Reading, walkVars
<1>4. ReadersMissNothing'
  BY <1>1 DEF ListInv, ReadersMissNothing, walkVars, Linked
<1>5. QED
  BY <1>3, <1>4

LEMMA NodeBeforeIs ==
  ASSUME ListInv, NEW k \in ListKeys, NEW l \in Levels, \A m \in Levels : ~Linked(k, m)
  PROVE  /\ NodeBefore(k, l) \in Nodes /\ Linked(NodeBefore(k, l), l)
         /\ NodeBefore(k, l) < k /\ k < next_[NodeBefore(k, l)][l]
<1> DEFINE B == {n \in Nodes : n < k /\ next_[n][l] # Junk}
           n == NodeBefore(k, l)
<1>1. 0 \in B
  BY Numbers DEF ListInv, Towers, Linked
<1>2. B \subseteq 0..k /\ k \in Nat
  <2>1. k \in Nat /\ \A m \in B : m \in Nat /\ m < k
    BY Numbers
  <2>2. QED
    BY <2>1
<1>3. \E x \in B : \A y \in B : y <= x
  BY <1>1, <1>2, HasMax
<1>4. n \in B /\ \A m \in B : m <= n
  BY <1>3 DEF NodeBefore
<1>5. n \in Nodes /\ Linked(n, l) /\ n < k
  BY <1>4 DEF Linked
<1> DEFINE m == next_[n][l]
<1>6. m \in ListKeys \cup {Inf}
  BY <1>5 DEF ListInv, ListTypeOK, Linked
<1>7. n < m /\ (m # Inf => Linked(m, l))
  BY <1>5 DEF ListInv, Sorted
<1> HIDE DEF B, n, m
<1>8. k < m
  <2>1. CASE m = Inf
    BY <2>1, Numbers
  <2>2. CASE m # Inf
    <3>1. m \in Nodes /\ Linked(m, l) /\ m # k
      BY <2>2, <1>6, <1>7, Numbers
    <3>2. ~(m < k)
      BY <3>1, <1>4, <1>5, <1>7, Numbers DEF B, Linked
    <3>3. QED
      BY <3>1, <3>2, Numbers
  <2>3. QED
    BY <2>1, <2>2
<1>9. QED
  BY <1>5, <1>8 DEF n, m

LEMMA StartInsertKeeps ==
  ASSUME ListInv, NEW k \in ListKeys, NEW h \in Levels, StartInsert(k, h)
  PROVE  ListInv'
<1>1. /\ adding = 0 /\ k \notin inserted /\ adding' = k /\ height' = h /\ linked' = 0
      /\ UNCHANGED <<next_, inserted, walkVars>>
      /\ prev' = [l \in Levels |-> IF l <= MaxHeightNow THEN NodeBefore(k, l) ELSE 0]
      /\ heights' = IF h > MaxHeightNow THEN heights \cup {h} ELSE heights
  BY DEF StartInsert
<1>2. \A n, l : Linked(n, l)' = Linked(n, l)
  BY <1>1 DEF Linked
<1>3. \A l \in Levels : ~Linked(k, l)
  BY <1>1, Numbers DEF ListInv, Towers
<1>4. ListTypeOK'
  BY <1>1, Numbers, ListAssumption DEF ListInv, ListTypeOK, walkVars, Levels, ListAssumption
<1>5. Sorted'
  BY <1>1, <1>2 DEF ListInv, Sorted
<1>6. heights \subseteq heights' /\ \E g \in heights' : h <= g
  <2>1. h \in Nat /\ MaxHeightNow \in Nat /\ MaxHeightNow \in heights
    BY TopHeight, Numbers DEF ListInv, ListTypeOK
  <2>2. CASE h > MaxHeightNow
    BY <1>1, <2>1, <2>2
  <2>3. CASE ~(h > MaxHeightNow)
    BY <1>1, <2>1, <2>3
  <2>4. QED
    BY <2>2, <2>3
<1>7. Towers'
  <2>1. \A n \in ListKeys, l \in Levels : Linked(n, l) => n \in inserted \/ n = k
    BY <1>1, Numbers DEF ListInv, Towers
  <2>2. QED
    BY <1>1, <1>2, <1>6, <2>1 DEF ListInv, Towers
<1>8. ASSUME NEW l \in Levels
      PROVE  prev'[l] \in Nodes /\ Linked(prev'[l], l) /\ prev'[l] < k /\ k < next_[prev'[l]][l]
  <2>1. CASE l <= MaxHeightNow
    BY <1>1, <1>3, <2>1, NodeBeforeIs
  <2>2. CASE ~(l <= MaxHeightNow)
    <3>1. prev'[l] = 0
      BY <1>1, <2>2
    <3>2. Linked(0, l) /\ next_[0][l] \in ListKeys \cup {Inf}
      BY Numbers DEF ListInv, Towers, ListTypeOK, Linked
    <3>3. next_[0][l] = Inf
      <4> SUFFICES ASSUME next_[0][l] # Inf PROVE FALSE
        OBVIOUS
      <4>1. Linked(next_[0][l], l) /\ next_[0][l] \in ListKeys
        BY <3>2, Numbers DEF ListInv, Sorted
      <4>2. PICK g \in heights : l <= g
        BY <4>1 DEF ListInv, Towers
      <4>3. g <= MaxHeightNow /\ MaxHeightNow \in heights
        BY TopHeight
      <4>4. l \in Nat /\ g \in Nat /\ MaxHeightNow \in Nat
        BY <4>3, Numbers DEF ListInv, ListTypeOK
      <4>5. QED
        BY <2>2, <4>2, <4>3, <4>4
    <3>4. QED
      BY <3>1, <3>2, <3>3, Numbers
  <2>3. QED
    BY <2>1, <2>2
<1>9. Adding'
  <2>1. prev' \in [Levels -> Nodes]
    BY <1>1, <1>8
  <2>2. \A l \in Levels : ~(l <= 0)
    BY Numbers
  <2>3. QED
    BY <1>1, <1>2, <1>3, <1>6, <1>8, <2>1, <2>2, Numbers DEF Adding
<1>10. Reading' /\ ReadersMissNothing'
  BY <1>1, <1>2, ReaderStands
<1>11. QED
  BY <1>4, <1>5, <1>7, <1>9, <1>10 DEF ListInv

LEMMA LinkLevelKeeps ==
  ASSUME ListInv, LinkLevel
  PROVE  ListInv'
<1> DEFINE i == linked + 1
<1>0. PICK k \in ListKeys : k = adding
  BY DEF ListInv, Adding, LinkLevel
<1>1. i \in Levels /\ linked \in Nat /\ linked < height /\ height \in Nat /\ i <= height
  BY Numbers, ListAssumption DEF ListInv, Adding, LinkLevel, Levels, ListAssumption
<1>2. PICK p \in Nodes : p = prev[i]
  BY <1>0, <1>1 DEF ListInv, Adding, LinkLevel
<1>3. Linked(p, i) /\ ~Linked(k, i) /\ p < k /\ k < next_[p][i] /\ k \notin inserted
  BY <1>0, <1>1, <1>2 DEF ListInv, Adding, LinkLevel
<1>4. PICK q \in ListKeys \cup {Inf} : q = next_[p][i]
  BY <1>1, <1>3 DEF ListInv, ListTypeOK, Linked
<1>5. PICK j \in Levels : j = i
  BY <1>1
<1>6. /\ linked' = j /\ UNCHANGED <<heights, adding, height, prev, inserted, walkVars>>
      /\ next_' = [next_ EXCEPT ![k][j] = q, ![p][j] = k]
  BY <1>0, <1>2, <1>4, <1>5 DEF LinkLevel
<1> HIDE DEF i
<1>7. p # k /\ p \in Nat /\ k \in Nat /\ q \in Nat /\ p < k /\ k < q /\ k # Inf /\ q # Junk /\ k # Junk /\ k # 0
  BY <1>3, <1>4, <1>5, Numbers DEF Junk
<1>8. next_ \in [Nodes -> [Levels -> ListKeys \cup {Inf, Junk}]] /\ k \in Nodes
  BY Numbers DEF ListInv, ListTypeOK
<1>9. \A n \in Nodes, l \in Levels : next_'[n][l] = IF l = j /\ n = k THEN q ELSE IF l = j /\ n = p THEN k ELSE next_[n][l]
  BY <1>6, <1>7, <1>8
<1>10. \A n \in Nodes, l \in Levels : Linked(n, l)' <=> Linked(n, l) \/ (n = k /\ l = j)
  BY <1>3, <1>5, <1>7, <1>9 DEF Linked
<1>11. ListTypeOK'
  <2>1. next_' \in [Nodes -> [Levels -> ListKeys \cup {Inf, Junk}]]
    BY <1>6, <1>8
  <2>2. QED
    BY <1>5, <1>6, <2>1 DEF ListInv, ListTypeOK, walkVars, Levels
<1>12. Sorted'
  <2> SUFFICES ASSUME NEW n \in Nodes, NEW l \in Levels, Linked(n, l)'
               PROVE  /\ n < next_'[n][l]
                      /\ next_'[n][l] # Inf => next_'[next_'[n][l]][l] # Junk
                      /\ \A m \in Nodes : Linked(m, l)' => ~(n < m /\ m < next_'[n][l])
    BY DEF Sorted, Linked
  <2>1. CASE l # j
    <3>1. Linked(n, l) /\ next_'[n][l] = next_[n][l]
      BY <1>9, <1>10, <2>1
    <3>2. next_[n][l] # Inf => next_[n][l] \in Nodes
      BY <3>1, <1>8, Numbers DEF Linked
    <3>3. QED
      BY <3>1, <3>2, <1>10, <2>1 DEF ListInv, Sorted, Linked
  <2>2. CASE l = j /\ n = k
    <3>1. next_'[n][l] = q
      BY <1>9, <2>2
    <3>2. q # Inf => q \in Nodes /\ Linked(q, j)
      BY <1>3, <1>4, <1>5, Numbers DEF ListInv, Sorted
    <3>3. \A m \in Nodes : Linked(m, j) => ~(p < m /\ m < q)
      BY <1>3, <1>4, <1>5 DEF ListInv, Sorted
    <3>4. ASSUME NEW m \in Nodes, Linked(m, l)' PROVE ~(n < m /\ m < q)
      BY <3>3, <3>4, <1>7, <1>10, <2>2, Numbers
    <3>5. QED
      BY <3>1, <3>2, <3>4, <1>7, <1>10, <2>2 DEF Linked
  <2>3. CASE l = j /\ n = p
    <3>1. next_'[n][l] = k
      BY <1>7, <1>9, <2>3
    <3>2. \A m \in Nodes : Linked(m, j) => ~(p < m /\ m < q)
      BY <1>3, <1>4, <1>5 DEF ListInv, Sorted
    <3>3. ASSUME NEW m \in Nodes, Linked(m, l)' PROVE ~(n < m /\ m < k)
      BY <3>2, <3>3, <1>7, <1>10, <2>3, Numbers
    <3>4. QED
      BY <3>1, <3>3, <1>7, <1>8, <1>10, <2>3 DEF Linked
  <2>4. CASE l = j /\ n # k /\ n # p
    <3>1. Linked(n, j) /\ next_'[n][l] = next_[n][j] /\ next_[n][j] \in ListKeys \cup {Inf}
      BY <1>8, <1>9, <1>10, <2>4 DEF Linked
    <3>2. /\ n < next_[n][j] /\ (next_[n][j] # Inf => Linked(next_[n][j], j))
          /\ \A m \in Nodes : Linked(m, j) => ~(n < m /\ m < next_[n][j])
      BY <3>1 DEF ListInv, Sorted
    <3>3. ~(n < k /\ k < next_[n][j])
      <4> SUFFICES ASSUME n < k, k < next_[n][j] PROVE FALSE
        OBVIOUS
      <4>1. ~(n < p /\ p < next_[n][j])
        BY <3>2, <1>3, <1>5
      <4>2. p < next_[n][j] /\ n \in Nat /\ next_[n][j] \in Nat
        <5>1. n \in Nat /\ next_[n][j] \in Nat
          BY <3>1, Numbers
        <5>2. QED
          BY <5>1, <1>7
      <4>3. p < n
        BY <4>1, <4>2, <1>7, <2>4
      <4>4. ~(p < n /\ n < q)
        BY <3>1, <1>3, <1>4, <1>5 DEF ListInv, Sorted
      <4>5. QED
        BY <4>2, <4>3, <4>4, <1>7
    <3>4. next_[n][j] # Inf => next_[n][j] \in Nodes
      BY <3>1, Numbers
    <3>5. QED
      BY <3>1, <3>2, <3>3, <3>4, <1>10, <2>4 DEF Linked
  <2>5. QED
    BY <2>1, <2>2, <2>3, <2>4
<1>13. Towers'
  <2>1. \A l \in Levels : Linked(0, l)'
    BY <1>10, Numbers DEF ListInv, Towers
  <2>2. \A l \in Levels : l <= j => Linked(k, l)'
    <3>1. \A l \in Levels : l <= linked => Linked(k, l)
      BY <1>0, <1>7 DEF ListInv, Adding
    <3>2. \A l \in Levels : l <= j <=> l <= linked \/ l = j
      BY <1>1, <1>5, Numbers DEF i
    <3>3. QED
      BY <3>1, <3>2, <1>8, <1>10
  <2>3. \A n \in Nodes, l, m \in Levels : Linked(n, l)' /\ m <= l => Linked(n, m)'
    BY <2>2, <1>10 DEF ListInv, Towers
  <2>4. \A x \in inserted' : Linked(x, 1)'
    BY <1>6, <1>10, Numbers DEF ListInv, Towers, ListTypeOK
  <2>5. \A x \in ListKeys, l \in Levels : Linked(x, l)' => x \in inserted' \/ x = adding'
    BY <1>0, <1>6, <1>10, Numbers DEF ListInv, Towers
  <2>6. \E h \in heights : j <= h
    <3>1. PICK h \in heights : height <= h
      BY <1>0, <1>7 DEF ListInv, Adding
    <3>2. h \in Nat
      BY Numbers DEF ListInv, ListTypeOK
    <3>3. QED
      BY <1>1, <1>5, <3>1, <3>2, Numbers
  <2>7. \A x \in ListKeys, l \in Levels : Linked(x, l)' => \E h \in heights' : l <= h
    BY <1>6, <1>10, <2>6, Numbers DEF ListInv, Towers
  <2>8. QED
    BY <2>1, <2>3, <2>4, <2>5, <2>7, <1>6 DEF ListInv, Towers
<1>14. Adding'
  <2>1. linked' \in 0..height
    BY <1>1, <1>5, <1>6, Numbers DEF i
  <2>2. ASSUME NEW l \in Levels
        PROVE  IF l <= j THEN Linked(k, l)'
               ELSE /\ ~Linked(k, l)'
                    /\ Linked(prev[l], l)' /\ prev[l] < k /\ k < next_'[prev[l]][l]
    <3>1. l <= j <=> l <= linked \/ l = j
      BY <1>1, <1>5, Numbers DEF i
    <3>2. IF l <= linked THEN Linked(k, l)
          ELSE ~Linked(k, l) /\ Linked(prev[l], l) /\ prev[l] < k /\ k < next_[prev[l]][l] /\ prev[l] \in Nodes
      BY <1>0, <1>7 DEF ListInv, Adding
    <3>3. QED
      BY <3>1, <3>2, <1>6, <1>8, <1>9, <1>10 DEF Linked
  <2>3. QED
    BY <1>0, <1>6, <1>7, <2>1, <2>2 DEF ListInv, Adding
<1>15. Reading' /\ ReadersMissNothing'
  BY <1>6, <1>10, ReaderStands
<1>16. QED
  BY <1>11, <1>12, <1>13, <1>14, <1>15 DEF ListInv

LEMMA InsertReturnsKeeps ==
  ASSUME ListInv, InsertReturns
  PROVE  ListInv'
<1>1. /\ adding # 0 /\ linked = height /\ inserted' = inserted \cup {adding} /\ adding' = 0
      /\ UNCHANGED <<next_, heights, height, prev, linked, walkVars>>
  BY DEF InsertReturns
<1>2. \A n, l : Linked(n, l)' = Linked(n, l)
  BY <1>1 DEF Linked
<1>3. adding \in ListKeys /\ Linked(adding, 1)
  BY <1>1, Numbers DEF ListInv, Adding
<1>4. ListTypeOK'
  BY <1>1, <1>3 DEF ListInv, ListTypeOK, walkVars
<1>5. Sorted'
  BY <1>1, <1>2 DEF ListInv, Sorted
<1>6. Towers'
  BY <1>1, <1>2, <1>3 DEF ListInv, Towers
<1>7. Adding'
  BY <1>1 DEF Adding
<1>8. Reading' /\ ReadersMissNothing'
  BY <1>1, <1>2, ReaderStands
<1>9. QED
  BY <1>4, <1>5, <1>6, <1>7, <1>8 DEF ListInv

-----------------------------------------------------------------------------
(* The reader.                                                             *)

\* What the writer has is unchanged.
LEMMA WriterStands ==
  ASSUME ListInv, UNCHANGED insertVars
  PROVE  Sorted' /\ Towers' /\ Adding' /\ (\A n, l : Linked(n, l)' = Linked(n, l))
<1>1. \A n, l : Linked(n, l)' = Linked(n, l)
  BY DEF Linked, insertVars
<1>2. Sorted'
  BY <1>1 DEF ListInv, Sorted, insertVars, Linked
<1>3. Towers'
  BY <1>1 DEF ListInv, Towers, insertVars
<1>4. Adding'
  BY <1>1 DEF ListInv, Adding, insertVars, Linked
<1>5. QED
  BY <1>1, <1>2, <1>3, <1>4

LEMMA StartsKeeps ==
  ASSUME ListInv, NEW how \in {"greaterOrEqual", "lessThan", "last"}, NEW k \in ListKeys \cup {Inf}, Starts(how, k)
  PROVE  ListInv'
<1>1. /\ walk' = how /\ node' = 0 /\ level' \in heights /\ target' = k /\ known' = inserted
      /\ UNCHANGED <<insertVars, found, gap>>
  BY DEF Starts
<1>2. ListTypeOK'
  BY <1>1, Numbers DEF ListInv, ListTypeOK, insertVars
<1>3. level' \in Levels /\ 0 < k
  BY <1>1, Numbers DEF ListInv, ListTypeOK
<1>4. Linked(0, level') /\ next_' = next_
  BY <1>1, <1>3 DEF ListInv, Towers, insertVars
<1>5. Reading'
  BY <1>1, <1>3, <1>4, WriterStands DEF ListInv, Reading, Linked, insertVars
<1>6. ReadersMissNothing'
  BY <1>1, <1>4 DEF ReadersMissNothing, Linked
<1>7. QED
  BY <1>1, <1>2, <1>5, <1>6, WriterStands DEF ListInv

LEMMA NextOfKeeps ==
  ASSUME ListInv, NEW n \in Nodes, Linked(n, 1), NextOf(n)
  PROVE  ListInv'
<1>1. /\ walk' = "no" /\ found' = next_[n][1] /\ gap' = <<n, next_[n][1]>> /\ known' = inserted
      /\ UNCHANGED <<insertVars, node, level, target>>
  BY DEF NextOf
<1>2. next_[n][1] \in ListKeys \cup {Inf}
  BY Numbers DEF ListInv, ListTypeOK, Linked
<1>3. ListTypeOK'
  BY <1>1, <1>2 DEF ListInv, ListTypeOK, insertVars
<1>4. Reading'
  BY <1>1, <1>2, Numbers DEF ListInv, Reading, Sorted, Linked, insertVars
<1>5. ReadersMissNothing'
  <2>1. \A k \in inserted : k \in Nodes /\ Linked(k, 1)
    BY Numbers DEF ListInv, Towers, ListTypeOK
  <2>2. \A k \in inserted : ~(n < k /\ k < next_[n][1])
    BY <2>1, Numbers DEF ListInv, Sorted
  <2>3. QED
    BY <1>1, <2>2 DEF ReadersMissNothing
<1>6. QED
  BY <1>1, <1>3, <1>4, <1>5, WriterStands DEF ListInv

LEMMA WalkTurnKeeps ==
  ASSUME ListInv, WalkTurn
  PROVE  ListInv'
<1> DEFINE n == next_[node][level]
<1>1. /\ walk # "no" /\ Linked(node, level) /\ node \in Nodes /\ level \in Levels /\ node < target
      /\ target \in ListKeys \cup {Inf} /\ known \subseteq inserted
  BY DEF WalkTurn, ListInv, Reading, ListTypeOK
<1>2. n \in ListKeys \cup {Inf}
  BY <1>1 DEF ListInv, ListTypeOK, Linked
<1>3. n # Inf => n \in Nodes /\ Linked(n, level)
  BY <1>1, <1>2, Numbers DEF ListInv, Sorted
<1>4. CASE Follows(n)
  <2>1. node' = n /\ UNCHANGED <<insertVars, walk, level, target, found, known, gap>> /\ n # Inf /\ n < target
    BY <1>4 DEF WalkTurn, Follows
  <2>2. ListTypeOK'
    BY <1>3, <2>1 DEF ListInv, ListTypeOK, insertVars
  <2>3. Reading' /\ ReadersMissNothing'
    BY <1>1, <1>3, <2>1 DEF ListInv, Reading, ReadersMissNothing, Linked, insertVars
  <2>4. QED
    BY <2>1, <2>2, <2>3, WriterStands DEF ListInv
<1>5. CASE ~Follows(n) /\ level > 1
  <2>1. level' = level - 1 /\ UNCHANGED <<insertVars, walk, node, target, found, known, gap>>
    BY <1>5 DEF WalkTurn
  <2>2. level - 1 \in Levels /\ level - 1 <= level
    BY <1>1, <1>5, ListAssumption DEF Levels, ListAssumption
  <2>3. Linked(node, level - 1)
    <3>1. CASE node = 0
      BY <2>2, <3>1 DEF ListInv, Towers
    <3>2. CASE node # 0
      BY <1>1, <2>2, <3>2 DEF ListInv, Towers
    <3>3. QED
      BY <3>1, <3>2
  <2>4. ListTypeOK'
    BY <2>1, <2>2 DEF ListInv, ListTypeOK, insertVars
  <2>5. Reading' /\ ReadersMissNothing'
    BY <1>1, <2>1, <2>3 DEF ListInv, Reading, ReadersMissNothing, Linked, insertVars
  <2>6. QED
    BY <2>1, <2>4, <2>5, WriterStands DEF ListInv
<1>6. CASE ~Follows(n) /\ ~(level > 1)
  <2>1. level = 1
    BY <1>1, <1>6, Numbers
  <2>2. \A k \in known : k \in Nodes /\ Linked(k, 1)
    BY <1>1, Numbers DEF ListInv, Towers, ListTypeOK
  <2>3. \A k \in known : ~(node < k /\ k < n)
    BY <1>1, <2>1, <2>2 DEF ListInv, Sorted
  <2>4. target <= n /\ n \in Nat /\ target \in Nat /\ node \in Nat /\ node < target
    <3>1. \A k \in ListKeys \cup {Inf} : k \in Nat /\ k <= Inf
      <4> SUFFICES ASSUME NEW k \in ListKeys \cup {Inf} PROVE k \in Nat /\ k <= Inf
        OBVIOUS
      <4>1. CASE k = Inf
        <5>1. Inf \in Nat /\ Inf <= Inf
          BY Numbers
        <5>2. QED
          BY <4>1, <5>1
      <4>2. CASE k \in ListKeys
        BY <4>2, Numbers
      <4>3. QED
        BY <4>1, <4>2
    <3>2. node \in Nat
      BY <1>1, Numbers
    <3>3. n = Inf \/ ~(n < target)
      BY <1>6 DEF Follows
    <3> HIDE DEF n
    <3>4. n \in Nat /\ target \in Nat /\ target <= Inf
      BY <1>1, <1>2, <3>1
    <3>5. QED
      BY <1>1, <3>2, <3>3, <3>4
  <2>5. ASSUME NEW k \in known PROVE ~(node < k /\ k < target) /\ ~(target - 1 < k /\ k < n)
    <3>1. k \in Nat
      BY <2>2, Numbers
    <3>2. QED
      BY <2>3, <2>4, <3>1
  <2>6. /\ walk' = "no" /\ UNCHANGED <<insertVars, node, level, target, known>>
        /\ \/ found' = n /\ gap' = <<target - 1, n>>
           \/ found' = (IF node = 0 THEN Inf ELSE node) /\ gap' = <<node, target>>
    BY <1>6 DEF WalkTurn, Finds
  <2>7. found' \in ListKeys \cup {Inf} /\ (found' # Inf => Linked(found', 1))
    BY <1>1, <1>2, <1>3, <2>1, <2>6 DEF Nodes
  <2>8. ListTypeOK'
    BY <2>6, <2>7 DEF ListInv, ListTypeOK, insertVars
  <2>9. Reading'
    BY <1>1, <2>6, <2>7 DEF Reading, Linked, insertVars
  <2>10. ReadersMissNothing'
    BY <2>5, <2>6 DEF ReadersMissNothing
  <2>11. QED
    BY <2>6, <2>8, <2>9, <2>10, WriterStands DEF ListInv
<1>7. QED
  BY <1>4, <1>5, <1>6

LEMMA ListInvStep == ListInv /\ [ListNextState]_listVars => ListInv'
<1> SUFFICES ASSUME ListInv, [ListNextState]_listVars PROVE ListInv'
  OBVIOUS
<1>1. CASE \E k \in ListKeys : ListSeek(k)
  BY <1>1, StartsKeeps DEF ListSeek
<1>2. CASE ListPrev
  <2>1. found \in ListKeys
    BY <1>2 DEF ListPrev, ListInv, ListTypeOK
  <2>2. QED
    BY <1>2, <2>1, StartsKeeps DEF ListPrev
<1>3. CASE ListLast
  BY <1>3, StartsKeeps DEF ListLast
<1>4. CASE ListNext
  <2>1. found \in Nodes /\ Linked(found, 1)
    BY <1>4, Numbers DEF ListNext, ListInv, ListTypeOK, Reading
  <2>2. QED
    BY <1>4, <2>1, NextOfKeeps DEF ListNext
<1>5. CASE ListFirst
  <2>1. Linked(0, 1)
    BY Numbers DEF ListInv, Towers
  <2>2. QED
    BY <1>5, <2>1, Numbers, NextOfKeeps DEF ListFirst
<1>6. CASE UNCHANGED listVars
  <2>1. UNCHANGED insertVars /\ UNCHANGED walkVars
    BY <1>6 DEF listVars
  <2>2. ListTypeOK'
    BY <2>1 DEF ListInv, ListTypeOK, insertVars, walkVars
  <2>3. Reading' /\ ReadersMissNothing'
    BY <2>1, WriterStands, ReaderStands DEF insertVars
  <2>4. QED
    BY <2>1, <2>2, <2>3, WriterStands DEF ListInv
<1>7. QED
  BY <1>1, <1>2, <1>3, <1>4, <1>5, <1>6, StartInsertKeeps, LinkLevelKeeps, InsertReturnsKeeps, WalkTurnKeeps
     DEF ListNextState

-----------------------------------------------------------------------------
\* Links and the reader's place are of their types: a thread never stands
\* at a level that does not exist (SkipList).
THEOREM ListTypes == ListSpec => []ListTypeOK
<1>1. ListInv => ListTypeOK
  BY DEF ListInv
<1>2. QED
  BY <1>1, ListInvInit, ListInvStep, PTL DEF ListSpec

\* Readers that take no lock find the nearest of all keys whose insertion had
\* returned when their call began, whatever the writer links meanwhile and
\* whichever value of max_height_ they see, and follow no link that is unset.
THEOREM MemTableMissesNothing == ListSpec => []ReadersMissNothing
<1>1. ListInv => ReadersMissNothing
  BY DEF ListInv
<1>2. QED
  BY <1>1, ListInvInit, ListInvStep, PTL DEF ListSpec

-----------------------------------------------------------------------------
(* The log.                                                                *)

Opens == {"none", "first", "full"}
Closes == {"full", "last"}
PhysicalRecords == [rec : Nat, type : Opens \cup Closes \cup {"middle"}, len : Nat, at : Nat]
CellValues == [p : Nat, i : Nat]

\* Where a physical record ends, if it is all there.
EndOf(p) == phys[p].at + HeaderSize + phys[p].len

-----------------------------------------------------------------------------
(* The invariant.                                                          *)

WriterTypes ==
    /\ phys \in Seq(PhysicalRecords) /\ cells \in Seq(CellValues)
    /\ blockOffset \in 0..BlockSize /\ left \in Nat \cup {-1} /\ torn \in BOOLEAN
    /\ reading \in {"no", "yes", "done"}

\* Physical records are in the order of their records, and a fragment that is
\* not the first follows the whole one before it.
RecordsInOrder ==
    /\ \A p, q \in DOMAIN phys : p < q =>
        /\ phys[p].rec <= phys[q].rec
        /\ phys[q].type \in Opens \/ phys[p].type \in Closes => phys[p].rec < phys[q].rec
        /\ phys[p].at <= phys[q].at
    /\ \A q \in DOMAIN phys : phys[q].type \in {"middle", "last"} =>
        q > 1 /\ phys[q - 1].rec = phys[q].rec /\ EndOf(q - 1) <= phys[q].at

WriterAtWork ==
    /\ left >= 0 =>
        /\ phys # <<>> /\ phys[Len(phys)].type \in {"none", "first", "middle"}
        /\ phys[Len(phys)].type # "none" /\ reading = "no" => EndOf(Len(phys)) <= Len(cells)
    /\ reading = "no" => \A p \in DOMAIN phys : phys[p].at <= Len(cells)
    /\ \A p \in DOMAIN phys : phys[p].type = "none" => p = Len(phys) /\ left >= 0

\* A cell knows its place, and later physical records begin behind it.
CellsKnown ==
    \A j \in DOMAIN cells :
        /\ cells[j].p = 0 => cells[j] = Trailer
        /\ cells[j].p # 0 =>
            /\ cells[j].p \in DOMAIN phys /\ phys[cells[j].p].type # "none"
            /\ j = phys[cells[j].p].at + cells[j].i /\ cells[j].i > 0
            /\ \A q \in DOMAIN phys : cells[j].p < q => j <= phys[q].at

Writer == WriterTypes /\ RecordsInOrder /\ WriterAtWork /\ CellsKnown

-----------------------------------------------------------------------------
(* What a turn of AddRecord does.                                          *)

Offset == IF HeaderFits THEN blockOffset ELSE 0
Filling(filled) == IF HeaderFits \/ ~filled THEN 0 ELSE BlockSize - blockOffset
Size == Lower(left, BlockSize - Offset - HeaderSize)
TurnOf == IF phys[Len(phys)].type = "none" THEN Len(phys) ELSE Len(phys) + 1

\* The physical record p, of which k cells got to the file behind a filler.
Emitted(k, filler, p) ==
    /\ phys' \in Seq(PhysicalRecords) /\ Len(phys') = p
    /\ \A q \in 1..p - 1 : phys'[q] = phys[q]
    /\ phys'[p].rec = phys[Len(phys)].rec /\ phys'[p].at = Len(cells) + filler
    /\ cells' \in Seq(CellValues) /\ Len(cells') = Len(cells) + filler + k
    /\ \A j \in 1..Len(cells) : cells'[j] = cells[j]
    /\ \A j \in Len(cells) + 1..Len(cells) + filler : cells'[j] = Trailer
    /\ \A i \in 1..k : cells'[Len(cells) + filler + i] = [p |-> p, i |-> i]

LEMMA OffsetIs ==
  ASSUME WriterTypes, left >= 0
  PROVE  /\ Offset \in 0..BlockSize - HeaderSize
         /\ Size \in Nat /\ Size <= left /\ Offset + HeaderSize + Size <= BlockSize
         /\ \A filled \in BOOLEAN : Filling(filled) \in Nat /\ Filling(filled) < HeaderSize
BY LogAssumption DEF WriterTypes, Offset, Size, Filling, HeaderFits, Lower

LEMMA PhysIs ==
  ASSUME WriterTypes
  PROVE  /\ Len(phys) \in Nat /\ DOMAIN phys = 1..Len(phys)
         /\ \A p \in 1..Len(phys) : phys[p] \in PhysicalRecords /\ EndOf(p) \in Nat /\ EndOf(p) >= phys[p].at + HeaderSize
         /\ Len(cells) \in Nat /\ DOMAIN cells = 1..Len(cells)
         /\ \A j \in 1..Len(cells) : cells[j].p \in Nat /\ cells[j].i \in Nat
         /\ phys # <<>> => Len(phys) \in 1..Len(phys)
<1>1. Len(phys) \in Nat /\ DOMAIN phys = 1..Len(phys) /\ Len(cells) \in Nat /\ DOMAIN cells = 1..Len(cells)
  BY LenProperties DEF WriterTypes
<1>2. \A p \in 1..Len(phys) : phys[p] \in PhysicalRecords
  BY ElementOfSeq DEF WriterTypes
<1>3. \A j \in 1..Len(cells) : cells[j] \in CellValues
  BY ElementOfSeq DEF WriterTypes
<1>4. \A p \in 1..Len(phys) : phys[p].at \in Nat /\ phys[p].len \in Nat
  BY <1>2 DEF PhysicalRecords
<1>5. \A p \in 1..Len(phys) : EndOf(p) \in Nat /\ EndOf(p) >= phys[p].at + HeaderSize
  BY <1>4, LogAssumption DEF EndOf
<1>6. \A j \in 1..Len(cells) : cells[j].p \in Nat /\ cells[j].i \in Nat
  BY <1>3 DEF CellValues
<1>7. phys # <<>> => Len(phys) \in 1..Len(phys)
  <2>1. phys # <<>> => Len(phys) \in Nat \ {0}
    BY EmptySeq DEF WriterTypes
  <2>2. QED
    BY <1>1, <2>1
<1>8. QED
  BY <1>1, <1>2, <1>5, <1>6, <1>7

LEMMA EmitIs ==
  ASSUME WriterTypes, WriterAtWork, NEW k \in 0..BlockSize, NEW filled \in BOOLEAN,
         NEW ok \in BOOLEAN, EmitPhysicalRecord(k, filled, ok)
  PROVE  /\ Emitted(k, Filling(filled), TurnOf) /\ (ok => k = HeaderSize + Size)
         /\ phys'[TurnOf].len = Size /\ k \in 0..HeaderSize + Size
         /\ phys'[TurnOf].type = IF phys[Len(phys)].type = "none"
                               THEN IF Size = left THEN "full" ELSE "first"
                               ELSE IF Size = left THEN "last" ELSE "middle"
         /\ left' = IF Size = left \/ ~ok THEN -1 ELSE left - Size
         /\ blockOffset' = Offset + HeaderSize + Size
         /\ torn' = (torn \/ k < HeaderSize + Size \/ ~filled)
         /\ reading = "no" /\ left >= 0 /\ phys # <<>>
         /\ UNCHANGED <<damaged, reading, readerVars>>
         /\ filled \/ ~HeaderFits
<1> DEFINE filler == [j \in 1..Filling(filled) |-> Trailer]
           p == TurnOf
           type == IF phys[Len(phys)].type = "none"
                   THEN IF Size = left THEN "full" ELSE "first"
                   ELSE IF Size = left THEN "last" ELSE "middle"
           record == [rec |-> phys[Len(phys)].rec, type |-> type, len |-> Size, at |-> Len(cells) + Len(filler)]
           tail == [i \in 1..k |-> [p |-> p, i |-> i]]
<1>1. /\ reading = "no" /\ left >= 0 /\ (filled \/ ~HeaderFits) /\ UNCHANGED <<damaged, reading, readerVars>>
      /\ k \in 0..HeaderSize + Size /\ (ok => k = HeaderSize + Size)
      /\ phys' = IF phys[Len(phys)].type = "none" THEN [phys EXCEPT ![p] = record] ELSE Append(phys, record)
      /\ cells' = cells \o filler \o tail
      /\ blockOffset' = Offset + HeaderSize + Size
      /\ torn' = (torn \/ k < HeaderSize + Size \/ ~filled)
      /\ left' = IF Size = left \/ ~ok THEN -1 ELSE left - Size
  BY DEF EmitPhysicalRecord, Offset, Filling, Size, TurnOf
<1>2. phys # <<>> /\ Len(phys) \in 1..Len(phys) /\ Len(phys) \in Nat /\ Len(cells) \in Nat
  BY <1>1, PhysIs DEF WriterAtWork
<1>3. Size \in Nat /\ Filling(filled) \in Nat
  BY <1>1, OffsetIs
<1> HIDE DEF Filling, Size
<1>4. p \in 1..Len(phys) + 1 /\ p \in Nat /\ (phys[Len(phys)].type = "none" => p = Len(phys))
      /\ (phys[Len(phys)].type # "none" => p = Len(phys) + 1)
  BY <1>2 DEF TurnOf
<1> HIDE DEF p
<1>5. filler \in Seq(CellValues) /\ Len(filler) = Filling(filled)
  <2>1. Trailer \in CellValues
    BY DEF Trailer, CellValues
  <2>2. filler \in [1..Filling(filled) -> CellValues]
    BY <2>1
  <2>3. QED
    BY <1>3, <2>2
<1>6. tail \in Seq(CellValues) /\ Len(tail) = k
  <2>1. \A i \in 1..k : [p |-> p, i |-> i] \in CellValues
    BY <1>4 DEF CellValues
  <2>2. tail \in [1..k -> CellValues] /\ k \in Nat
    BY <2>1, LogAssumption
  <2>3. QED
    BY <2>2
<1>7. record \in PhysicalRecords
  <2>1. phys[Len(phys)] \in PhysicalRecords
    BY <1>2, PhysIs
  <2>2. type \in Opens \cup Closes \cup {"middle"}
    BY DEF Opens, Closes
  <2> HIDE DEF type, filler
  <2>3. QED
    BY <1>2, <1>3, <1>5, <2>1, <2>2 DEF PhysicalRecords
<1>8. record.rec = phys[Len(phys)].rec /\ record.at = Len(cells) + Filling(filled) /\ record.len = Size /\ record.type = type
  BY <1>5
<1> HIDE DEF record
<1>9. /\ phys' \in Seq(PhysicalRecords) /\ Len(phys') = p /\ phys'[p] = record
      /\ \A q \in 1..p - 1 : phys'[q] = phys[q]
  <2>1. CASE phys[Len(phys)].type = "none"
    <3>1. phys' = [phys EXCEPT ![p] = record] /\ p = Len(phys)
      BY <1>1, <1>4, <2>1
    <3>2. /\ phys' \in Seq(PhysicalRecords) /\ Len(phys') = Len(phys)
          /\ \A q \in 1..Len(phys) : phys'[q] = IF q = p THEN record ELSE phys[q]
      BY <1>2, <1>7, <3>1, ExceptSeq DEF WriterTypes
    <3>3. QED
      BY <1>2, <3>1, <3>2
  <2>2. CASE phys[Len(phys)].type # "none"
    <3>1. phys' = Append(phys, record) /\ p = Len(phys) + 1
      BY <1>1, <1>4, <2>2
    <3>2. /\ phys' \in Seq(PhysicalRecords) /\ Len(phys') = Len(phys) + 1 /\ phys'[Len(phys) + 1] = record
          /\ \A q \in 1..Len(phys) : phys'[q] = phys[q]
      BY <1>7, <3>1, AppendProperties DEF WriterTypes
    <3>3. QED
      BY <1>2, <3>1, <3>2
  <2>3. QED
    BY <2>1, <2>2
<1>10. \A j \in 1..Filling(filled) : filler[j] = Trailer
  OBVIOUS
<1>11. \A i \in 1..k : tail[i] = [p |-> p, i |-> i]
  OBVIOUS
<1> HIDE DEF filler, tail
<1> DEFINE c == cells \o filler
<1>12. /\ c \in Seq(CellValues) /\ Len(c) = Len(cells) + Filling(filled)
       /\ \A j \in 1..Len(cells) + Filling(filled) : c[j] = IF j <= Len(cells) THEN cells[j] ELSE filler[j - Len(cells)]
  <2>1. cells \in Seq(CellValues)
    BY DEF WriterTypes
  <2>2. /\ cells \o filler \in Seq(CellValues) /\ Len(cells \o filler) = Len(cells) + Len(filler)
        /\ \A j \in 1..Len(cells) + Len(filler) :
              (cells \o filler)[j] = IF j <= Len(cells) THEN cells[j] ELSE filler[j - Len(cells)]
    BY <1>5, <2>1, ConcatProperties
  <2>3. QED
    BY <1>5, <2>2
<1> HIDE DEF c
<1>13. /\ cells' \in Seq(CellValues) /\ Len(cells') = Len(cells) + Filling(filled) + k
       /\ \A j \in 1..Len(cells) + Filling(filled) + k :
            cells'[j] = IF j <= Len(c) THEN c[j] ELSE tail[j - Len(c)]
  <2>1. cells' = c \o tail
    BY <1>1 DEF c
  <2>2. /\ c \o tail \in Seq(CellValues) /\ Len(c \o tail) = Len(c) + Len(tail)
        /\ \A j \in 1..Len(c) + Len(tail) : (c \o tail)[j] = IF j <= Len(c) THEN c[j] ELSE tail[j - Len(c)]
    BY <1>6, <1>12, ConcatProperties
  <2>3. Len(c) + Len(tail) = Len(cells) + Filling(filled) + k
    BY <1>6, <1>12
  <2>4. QED
    BY <2>1, <2>2, <2>3
<1>14. k \in Nat
  BY LogAssumption
<1>15. \A j \in 1..Len(cells) : cells'[j] = cells[j]
  BY <1>2, <1>3, <1>12, <1>13, <1>14
<1>16. \A j \in Len(cells) + 1..Len(cells) + Filling(filled) : cells'[j] = Trailer
  <2> TAKE j \in Len(cells) + 1..Len(cells) + Filling(filled)
  <2>1. j - Len(cells) \in 1..Filling(filled) /\ j \in 1..Len(cells) + Filling(filled) /\ ~(j <= Len(cells))
    BY <1>2, <1>3
  <2>2. c[j] = filler[j - Len(cells)]
    BY <1>12, <2>1
  <2>3. j \in 1..Len(cells) + Filling(filled) + k /\ j <= Len(c)
    BY <1>2, <1>3, <1>12, <1>14, <2>1
  <2>4. QED
    BY <1>10, <1>13, <2>1, <2>2, <2>3
<1>17. \A i \in 1..k : cells'[Len(cells) + Filling(filled) + i] = [p |-> p, i |-> i]
  <2> TAKE i \in 1..k
  <2> DEFINE j == Len(cells) + Filling(filled) + i
  <2>1. j \in 1..Len(cells) + Filling(filled) + k /\ ~(j <= Len(c)) /\ j - Len(c) = i
    BY <1>2, <1>3, <1>12, <1>14, SMTT(30)
  <2>2. QED
    BY <1>11, <1>13, <2>1
<1>18. Emitted(k, Filling(filled), p)
  BY <1>8, <1>9, <1>13, <1>15, <1>16, <1>17 DEF Emitted
<1>19. QED
  BY <1>1, <1>2, <1>8, <1>9, <1>18 DEF p, type

LEMMA BeginIs ==
  ASSUME WriterTypes, WriterAtWork, NEW n \in RecordSizes, BeginRecord(n)
  PROVE  /\ reading = "no" /\ left = -1 /\ left' = n
         /\ phys' \in Seq(PhysicalRecords) /\ Len(phys') = Len(phys) + 1
         /\ \A q \in 1..Len(phys) : phys'[q] = phys[q]
         /\ phys'[Len(phys) + 1] = [rec |-> 1 + IF Len(phys) = 0 THEN 0 ELSE phys[Len(phys)].rec,
                                    type |-> "none", len |-> 0, at |-> Len(cells)]
         /\ UNCHANGED <<cells, blockOffset, torn, damaged, reading, readerVars>>
<1> DEFINE r == [rec |-> 1 + IF phys = <<>> THEN 0 ELSE phys[Len(phys)].rec,
                 type |-> "none", len |-> 0, at |-> Len(cells)]
<1>1. /\ reading = "no" /\ left = -1 /\ left' = n /\ phys' = Append(phys, r)
      /\ UNCHANGED <<cells, blockOffset, torn, damaged, reading, readerVars>>
  BY DEF BeginRecord
<1>2. phys = <<>> <=> Len(phys) = 0
  BY EmptySeq DEF WriterTypes
<1>3. r \in PhysicalRecords
  <2>1. phys # <<>> => phys[Len(phys)].rec \in Nat
    BY PhysIs DEF PhysicalRecords
  <2>2. Len(cells) \in Nat
    BY PhysIs
  <2>3. QED
    BY <2>1, <2>2 DEF PhysicalRecords, Opens
<1>4. /\ phys' \in Seq(PhysicalRecords) /\ Len(phys') = Len(phys) + 1 /\ phys'[Len(phys) + 1] = r
      /\ \A q \in 1..Len(phys) : phys'[q] = phys[q]
  <2> HIDE DEF r
  <2>1. QED
    BY <1>1, <1>3, AppendProperties DEF WriterTypes
<1>5. QED
  BY <1>1, <1>2, <1>4

LEMMA BeginKeepsWriter ==
  ASSUME Writer, NEW n \in RecordSizes, BeginRecord(n)
  PROVE  Writer'
<1> USE DEF Writer
<1> DEFINE L == Len(phys)
           r == phys'[L + 1]
<1>1. /\ reading = "no" /\ left = -1 /\ left' = n
      /\ phys' \in Seq(PhysicalRecords) /\ Len(phys') = L + 1
      /\ \A q \in 1..L : phys'[q] = phys[q]
      /\ r.rec = 1 + IF L = 0 THEN 0 ELSE phys[L].rec
      /\ r.type = "none" /\ r.len = 0 /\ r.at = Len(cells)
      /\ UNCHANGED <<cells, blockOffset, torn, damaged, reading>>
  BY BeginIs
<1>2. /\ L \in Nat /\ DOMAIN phys = 1..L /\ Len(cells) \in Nat /\ DOMAIN cells = 1..Len(cells)
      /\ \A p \in 1..L : phys[p].rec \in Nat /\ phys[p].at \in Nat /\ phys[p].len \in Nat
      /\ \A j \in 1..Len(cells) : cells[j].p \in Nat /\ cells[j].i \in Nat
  BY PhysIs DEF PhysicalRecords
<1>3. DOMAIN phys' = 1..L + 1
  BY <1>1, <1>2, LenProperties
<1>4. n \in Nat
  BY LogAssumption
<1>5. WriterTypes'
  BY <1>1, <1>4 DEF WriterTypes
<1>6. \A q \in 1..L : EndOf(q)' = EndOf(q)
  BY <1>1 DEF EndOf
<1> HIDE DEF r
<1>7. \A p \in 1..L : phys[p].at <= Len(cells) /\ phys[p].type # "none"
  <2>1. ~(left >= 0)
    BY <1>1
  <2>2. QED
    BY <1>1, <1>2, <2>1 DEF WriterAtWork
<1>8. RecordsInOrder'
  <2>1. ASSUME NEW p \in 1..L + 1, NEW q \in 1..L + 1, p < q
        PROVE  /\ phys'[p].rec <= phys'[q].rec
               /\ phys'[q].type \in Opens \/ phys'[p].type \in Closes => phys'[p].rec < phys'[q].rec
               /\ phys'[p].at <= phys'[q].at
    <3>1. p \in 1..L /\ phys'[p] = phys[p]
      BY <1>1, <1>2, <2>1
    <3>2. CASE q = L + 1
      <4>1. phys'[q] = r /\ L # 0 /\ r.rec = 1 + phys[L].rec /\ L \in 1..L
        BY <1>1, <1>2, <3>1, <3>2 DEF r
      <4>2. p = L \/ phys[p].rec <= phys[L].rec
        <5>1. p < L => phys[p].rec <= phys[L].rec
          BY <1>2, <3>1, <4>1 DEF RecordsInOrder
        <5>2. p \in Nat /\ p <= L
          BY <1>2, <3>1
        <5>3. L \in Nat
          BY <1>2
        <5>4. QED
          BY <5>1, <5>2, <5>3
      <4>3. phys[p].rec \in Nat /\ phys[L].rec \in Nat /\ phys[p].at <= Len(cells)
        BY <1>2, <1>7, <3>1, <4>1
      <4>4. QED
        BY <1>1, <3>1, <4>1, <4>2, <4>3, SMTT(30)
    <3>3. CASE q # L + 1
      <4>1. q \in 1..L /\ phys'[q] = phys[q]
        BY <1>1, <1>2, <3>3
      <4>2. QED
        BY <1>2, <2>1, <3>1, <4>1 DEF RecordsInOrder
    <3>4. QED
      BY <3>2, <3>3
  <2>2. ASSUME NEW q \in 1..L + 1, phys'[q].type \in {"middle", "last"}
        PROVE  q > 1 /\ phys'[q - 1].rec = phys'[q].rec /\ EndOf(q - 1)' <= phys'[q].at
    <3>1. q # L + 1
      BY <1>1, <2>2 DEF r
    <3>2. q \in 1..L /\ phys'[q] = phys[q]
      BY <1>1, <1>2, <3>1
    <3>3. q > 1 /\ phys[q - 1].rec = phys[q].rec /\ EndOf(q - 1) <= phys[q].at
      BY <1>2, <2>2, <3>2 DEF RecordsInOrder
    <3>4. q - 1 \in 1..L
      BY <1>2, <3>2, <3>3
    <3>5. QED
      BY <1>1, <1>6, <3>2, <3>3, <3>4
  <2>3. QED
    BY <1>3, <2>1, <2>2 DEF RecordsInOrder
<1>9. WriterAtWork'
  <2>1. phys' # <<>>
    BY <1>1, <1>2, EmptySeq
  <2>2. \A p \in 1..L + 1 : phys'[p].at <= Len(cells)
    <3> TAKE p \in 1..L + 1
    <3>1. p = L + 1 \/ p \in 1..L
      BY <1>2
    <3>2. QED
      BY <1>1, <1>2, <1>7, <3>1 DEF r
  <2>3. \A p \in 1..L + 1 : phys'[p].type = "none" => p = L + 1
    <3> TAKE p \in 1..L + 1
    <3>1. p = L + 1 \/ p \in 1..L
      BY <1>2
    <3>2. QED
      BY <1>1, <1>7, <3>1
  <2>4. QED
    BY <1>1, <1>3, <1>4, <2>1, <2>2, <2>3 DEF WriterAtWork, r
<1>10. CellsKnown'
  <2>1. ASSUME NEW j \in 1..Len(cells), cells[j].p # 0
        PROVE  /\ cells[j].p \in 1..L + 1 /\ phys'[cells[j].p].type # "none"
               /\ j = phys'[cells[j].p].at + cells[j].i /\ cells[j].i > 0
               /\ \A q \in 1..L + 1 : cells[j].p < q => j <= phys'[q].at
    <3>1. /\ cells[j].p \in 1..L /\ phys[cells[j].p].type # "none"
          /\ j = phys[cells[j].p].at + cells[j].i /\ cells[j].i > 0
          /\ \A q \in 1..L : cells[j].p < q => j <= phys[q].at
      BY <1>2, <2>1 DEF CellsKnown
    <3>2. \A q \in 1..L + 1 : cells[j].p < q => j <= phys'[q].at
      <4> TAKE q \in 1..L + 1
      <4>1. q = L + 1 \/ q \in 1..L
        BY <1>2
      <4>2. QED
        BY <1>1, <1>2, <3>1, <4>1, SMTT(30) DEF r
    <3>3. cells[j].p \in 1..L + 1 /\ phys'[cells[j].p] = phys[cells[j].p]
      BY <1>1, <1>2, <3>1
    <3>4. QED
      BY <3>1, <3>2, <3>3
  <2>2. \A j \in 1..Len(cells) : cells[j].p = 0 => cells[j] = Trailer
    BY <1>2 DEF CellsKnown
  <2>3. QED
    BY <1>1, <1>2, <1>3, <2>1, <2>2 DEF CellsKnown
<1>11. QED
  BY <1>5, <1>8, <1>9, <1>10

LEMMA EmitKeepsWriter ==
  ASSUME Writer, NEW k \in 0..BlockSize, NEW filled \in BOOLEAN, NEW ok \in BOOLEAN,
         EmitPhysicalRecord(k, filled, ok)
  PROVE  Writer'
<1> USE DEF Writer
<1>0. PICK L, C, F, p, t : L = Len(phys) /\ C = Len(cells) /\ F = Filling(filled) /\ p = TurnOf /\ t = phys'[p].type
  OBVIOUS
<1>1. /\ Emitted(k, F, p) /\ (ok => k = HeaderSize + Size)
      /\ phys'[p].len = Size /\ k \in 0..HeaderSize + Size
      /\ t = IF phys[L].type = "none"
             THEN IF Size = left THEN "full" ELSE "first"
             ELSE IF Size = left THEN "last" ELSE "middle"
      /\ left' = IF Size = left \/ ~ok THEN -1 ELSE left - Size
      /\ blockOffset' = Offset + HeaderSize + Size
      /\ torn' = (torn \/ k < HeaderSize + Size \/ ~filled)
      /\ reading = "no" /\ left >= 0 /\ phys # <<>> /\ reading' = reading
  BY <1>0, EmitIs
<1>2. /\ L \in Nat /\ DOMAIN phys = 1..L /\ C \in Nat /\ DOMAIN cells = 1..C /\ L \in 1..L
      /\ \A q \in 1..L : phys[q].rec \in Nat /\ phys[q].at \in Nat /\ phys[q].len \in Nat
      /\ \A j \in 1..C : cells[j].p \in Nat /\ cells[j].i \in Nat
  BY <1>0, <1>1, PhysIs DEF PhysicalRecords
<1>3. /\ Offset \in 0..BlockSize - HeaderSize /\ Size \in Nat /\ Size <= left
      /\ Offset + HeaderSize + Size <= BlockSize /\ F \in Nat
  BY <1>0, <1>1, OffsetIs
<1>4. p \in {L, L + 1} /\ (phys[L].type = "none" <=> p = L) /\ p \in Nat \ {0}
  <2>1. L \in Nat /\ L >= 1
    BY <1>2
  <2>2. p = IF phys[L].type = "none" THEN L ELSE L + 1
    BY <1>0 DEF TurnOf
  <2>3. QED
    BY <2>1, <2>2
<1>5. /\ phys' \in Seq(PhysicalRecords) /\ Len(phys') = p /\ DOMAIN phys' = 1..p
      /\ \A q \in 1..p - 1 : q \in 1..L /\ phys'[q] = phys[q] /\ EndOf(q)' = EndOf(q)
      /\ phys'[p].rec = phys[L].rec /\ phys'[p].at = C + F
      /\ cells' \in Seq(CellValues) /\ Len(cells') = C + F + k /\ DOMAIN cells' = 1..C + F + k
      /\ \A j \in 1..C : cells'[j] = cells[j]
      /\ \A j \in C + 1..C + F : cells'[j] = Trailer
      /\ \A i \in 1..k : cells'[C + F + i] = [p |-> p, i |-> i]
  <2>1. Emitted(k, F, p)
    BY <1>1
  <2>2. \A q \in 1..p - 1 : q \in 1..L
    <3>1. L \in Nat /\ (p = L \/ p = L + 1)
      BY <1>2, <1>4
    <3>2. QED
      BY <3>1
  <2>3. DOMAIN phys' = 1..Len(phys') /\ DOMAIN cells' = 1..Len(cells')
    BY <2>1, LenProperties DEF Emitted
  <2>4. QED
    BY <1>0, <2>1, <2>2, <2>3 DEF Emitted, EndOf
<1>6. k \in Nat
  BY LogAssumption
<1>7. left' \in Nat \cup {-1} /\ left \in Nat
  BY <1>1, <1>3 DEF WriterTypes
<1>8. WriterTypes'
  <2>1. blockOffset' \in 0..BlockSize
    BY <1>1, <1>3, LogAssumption
  <2>2. torn' \in BOOLEAN
    BY <1>1 DEF WriterTypes
  <2>3. QED
    BY <1>1, <1>5, <1>7, <2>1, <2>2 DEF WriterTypes
<1>9. phys[L].type \in {"none", "first", "middle"} /\ (phys[L].type # "none" => EndOf(L) <= C)
  BY <1>0, <1>1, <1>2 DEF WriterAtWork
<1>10. \A q \in 1..L : phys[q].at <= C
  BY <1>0, <1>1, <1>2 DEF WriterAtWork
<1>11. RecordsInOrder'
  <2>1. ASSUME NEW a \in 1..p, NEW b \in 1..p, a < b
        PROVE  /\ phys'[a].rec <= phys'[b].rec
               /\ phys'[b].type \in Opens \/ phys'[a].type \in Closes => phys'[a].rec < phys'[b].rec
               /\ phys'[a].at <= phys'[b].at
    <3>1. a \in 1..p - 1 /\ a \in 1..L /\ phys'[a] = phys[a]
      <4>1. a \in 1..p - 1
        BY <1>4, <2>1
      <4>2. QED
        BY <1>5, <4>1
    <3>2. CASE b # p
      <4>1. b \in 1..p - 1
        BY <1>4, <3>2
      <4>2. b \in 1..L /\ phys'[b] = phys[b]
        BY <1>5, <4>1
      <4>3. QED
        BY <1>2, <2>1, <3>1, <4>2 DEF RecordsInOrder
    <3>3. CASE b = p
      <4>1. phys'[b].rec = phys[L].rec /\ phys'[b].at = C + F /\ phys'[b].type = t
        BY <1>0, <1>5, <3>3
      <4>2. phys[a].at <= C + F
        BY <1>2, <1>3, <1>10, <3>1
      <4>3. /\ phys[a].rec <= phys[L].rec
            /\ t \in Opens \/ phys[a].type \in Closes => phys[a].rec < phys[L].rec
        <5>1. CASE a = L
          <6>1. p = L + 1
            <7>1. L \in Nat /\ (p = L \/ p = L + 1) /\ a \in 1..p - 1
              BY <1>2, <1>4, <3>1
            <7>2. QED
              BY <5>1, <7>1
          <6>2. t \notin Opens /\ phys[a].type \notin Closes
            <7>1. phys[L].type # "none" /\ phys[L].type \in {"first", "middle"}
              <8>1. L # L + 1
                BY <1>2
              <8>2. QED
                BY <1>4, <1>9, <6>1, <8>1
            <7>2. t \in {"middle", "last"}
              BY <1>1, <7>1
            <7>3. QED
              BY <5>1, <7>1, <7>2 DEF Opens, Closes
          <6>3. QED
            BY <1>2, <5>1, <6>2
        <5>2. CASE a # L
          <6>1. a < L
            <7>1. L \in Nat /\ a \in 1..L
              BY <1>2, <3>1
            <7>2. QED
              BY <5>2, <7>1
          <6>2. /\ phys[a].rec <= phys[L].rec
                /\ phys[L].type \in Opens \/ phys[a].type \in Closes => phys[a].rec < phys[L].rec
            BY <1>2, <3>1, <6>1 DEF RecordsInOrder
          <6>3. t \in Opens => phys[L].type \in Opens
            BY <1>1 DEF Opens
          <6>4. QED
            BY <6>2, <6>3
        <5>3. QED
          BY <5>1, <5>2
      <4>4. QED
        BY <3>1, <4>1, <4>2, <4>3
    <3>4. QED
      BY <3>2, <3>3
  <2>2. ASSUME NEW q \in 1..p, phys'[q].type \in {"middle", "last"}
        PROVE  q > 1 /\ phys'[q - 1].rec = phys'[q].rec /\ EndOf(q - 1)' <= phys'[q].at
    <3>1. CASE q # p
      <4>1. q \in 1..p - 1
        BY <1>4, <3>1
      <4>2. q \in 1..L /\ phys'[q] = phys[q]
        BY <1>5, <4>1
      <4>3. q > 1 /\ phys[q - 1].rec = phys[q].rec /\ EndOf(q - 1) <= phys[q].at
        BY <1>2, <2>2, <4>2 DEF RecordsInOrder
      <4>4. q - 1 \in 1..p - 1
        BY <1>4, <4>1, <4>3
      <4>5. QED
        BY <1>5, <4>2, <4>3, <4>4
    <3>2. CASE q = p
      <4>1. phys[L].type # "none" /\ p = L + 1
        BY <1>0, <1>1, <1>4, <2>2, <3>2
      <4>2. L \in 1..p - 1 /\ q - 1 = L /\ q > 1
        BY <1>2, <3>2, <4>1
      <4>3. EndOf(L) <= C + F
        <5>1. EndOf(L) \in Nat /\ EndOf(L) <= C
          BY <1>2, <1>9, <4>1, PhysIs
        <5>2. QED
          BY <1>2, <1>3, <5>1
      <4>4. phys'[L] = phys[L] /\ EndOf(L)' = EndOf(L)
        BY <1>5, <4>2
      <4>5. phys'[q].rec = phys[L].rec /\ phys'[q].at = C + F
        BY <1>5, <3>2
      <4>6. EndOf(q - 1)' = EndOf(L)
        BY <4>2, <4>4 DEF EndOf
      <4>7. QED
        BY <4>2, <4>3, <4>4, <4>5, <4>6
    <3>3. QED
      BY <3>1, <3>2
  <2>3. QED
    BY <1>5, <2>1, <2>2 DEF RecordsInOrder
<1>12. t # "none"
  BY <1>1
<1>13. \A q \in 1..p : phys'[q].type # "none"
  <2> TAKE q \in 1..p
  <2>1. CASE q = p
    BY <1>0, <1>12, <2>1
  <2>2. CASE q # p
    <3>1. q \in 1..p - 1 /\ q \in 1..L
      <4>1. q \in 1..p - 1
        BY <1>4, <2>2
      <4>2. QED
        BY <1>5, <4>1
    <3>2. phys[q].type # "none"
      <4>1. phys[q].type = "none" => q = L
        BY <1>0, <1>2, <3>1 DEF WriterAtWork
      <4>2. L \in Nat /\ (p = L \/ p = L + 1) /\ (phys[L].type = "none" => p = L)
        BY <1>2, <1>4
      <4>3. q = L => p # L
        BY <3>1, <4>2
      <4>4. QED
        BY <4>1, <4>2, <4>3
    <3>3. QED
      BY <1>5, <3>1, <3>2
  <2>3. QED
    BY <2>1, <2>2
<1>14. WriterAtWork'
  <2>1. left' >= 0 => /\ phys' # <<>> /\ t \in {"first", "middle"}
                      /\ EndOf(p)' = C + F + k
    <3> HAVE left' >= 0
    <3>1. Size # left /\ k = HeaderSize + Size
      BY <1>1, <1>3, <1>6, LogAssumption
    <3>2. t \in {"first", "middle"}
      BY <1>1, <3>1
    <3>3. EndOf(p)' = C + F + HeaderSize + Size
      BY <1>1, <1>5 DEF EndOf
    <3>4. phys' # <<>>
      BY <1>4, <1>5, EmptySeq
    <3>5. QED
      BY <1>2, <1>3, <3>1, <3>2, <3>3, <3>4, LogAssumption
  <2>2. \A q \in 1..p : phys'[q].at <= C + F + k
    <3> TAKE q \in 1..p
    <3>1. CASE q = p
      BY <1>2, <1>3, <1>5, <1>6, <3>1
    <3>2. CASE q # p
      <4>1. q \in 1..p - 1
        BY <1>4, <3>2
      <4>2. QED
        BY <1>2, <1>3, <1>5, <1>6, <1>10, <4>1
    <3>3. QED
      BY <3>1, <3>2
  <2>3. (phys' # <<>> /\ left' >= 0) => (EndOf(Len(phys)))' = C + F + k
    BY <1>5, <2>1 DEF EndOf
  <2>4. p \in Nat /\ Len(phys') = p /\ DOMAIN phys' = 1..p /\ Len(cells') = C + F + k /\ C + F + k \in Nat /\ reading' = "no"
    BY <1>1, <1>2, <1>3, <1>4, <1>5, <1>6
  <2>5. left' >= 0 => /\ phys' # <<>> /\ phys'[Len(phys')].type \in {"none", "first", "middle"}
                      /\ (EndOf(Len(phys)))' <= Len(cells')
    <3> HAVE left' >= 0
    <3>1. phys' # <<>> /\ phys'[Len(phys')].type = t /\ t \in {"first", "middle"}
      BY <1>0, <2>1, <2>4
    <3>2. (EndOf(Len(phys)))' = Len(cells')
      BY <2>3, <2>4, <3>1
    <3>3. QED
      BY <2>4, <3>1, <3>2
  <2>6. QED
    BY <1>13, <2>2, <2>4, <2>5 DEF WriterAtWork
<1>15. CellsKnown'
  <2>1. ASSUME NEW j \in 1..C + F + k
        PROVE  /\ cells'[j].p = 0 => cells'[j] = Trailer
               /\ cells'[j].p # 0 =>
                    /\ cells'[j].p \in 1..p /\ phys'[cells'[j].p].type # "none"
                    /\ j = phys'[cells'[j].p].at + cells'[j].i /\ cells'[j].i > 0
                    /\ \A q \in 1..p : cells'[j].p < q => j <= phys'[q].at
    <3>1. CASE j \in 1..C
      <4> DEFINE c == cells[j].p
      <4>1. cells'[j] = cells[j]
        BY <1>5, <3>1
      <4>2. c = 0 => cells[j] = Trailer
        BY <1>2, <3>1 DEF CellsKnown
      <4>3. ASSUME c # 0
            PROVE  /\ c \in 1..p /\ phys'[c].type # "none"
                   /\ j = phys'[c].at + cells[j].i /\ cells[j].i > 0
                   /\ \A q \in 1..p : c < q => j <= phys'[q].at
        <5>1. /\ c \in 1..L /\ phys[c].type # "none"
              /\ j = phys[c].at + cells[j].i /\ cells[j].i > 0
              /\ \A q \in 1..L : c < q => j <= phys[q].at
          BY <1>2, <3>1, <4>3 DEF CellsKnown
        <5>2. c \in 1..p - 1
          <6>1. L \in Nat /\ (p = L \/ p = L + 1) /\ (p = L => phys[L].type = "none") /\ c \in 1..L
            BY <1>2, <1>4, <5>1
          <6>2. p = L => c # L
            BY <5>1, <6>1
          <6>3. QED
            BY <6>1, <6>2
        <5>3. phys'[c] = phys[c]
          BY <1>5, <5>2
        <5>4. \A q \in 1..p : c < q => j <= phys'[q].at
          <6> TAKE q \in 1..p
          <6>1. CASE q = p
            BY <1>2, <1>3, <1>5, <3>1, <6>1
          <6>2. CASE q # p
            <7>1. q \in 1..p - 1
              BY <1>4, <6>2
            <7>2. QED
              BY <1>5, <5>1, <7>1
          <6>3. QED
            BY <6>1, <6>2
        <5>5. c \in 1..p
          BY <1>4, <5>2
        <5>6. QED
          BY <5>1, <5>3, <5>4, <5>5
      <4>4. QED
        BY <4>1, <4>2, <4>3
    <3>2. CASE j \in C + 1..C + F
      BY <1>5, <3>2 DEF Trailer
    <3>3. CASE j \notin 1..C /\ j \notin C + 1..C + F
      <4> DEFINE i == j - (C + F)
      <4>1. i \in 1..k /\ j = C + F + i
        BY <1>2, <1>3, <1>6, <3>3
      <4>2. cells'[j] = [p |-> p, i |-> i]
        BY <1>5, <4>1
      <4>3. phys'[p].at + i = j /\ i > 0
        BY <1>2, <1>3, <1>5, <4>1
      <4>4. p \in 1..p /\ \A q \in 1..p : ~(p < q)
        BY <1>4
      <4>5. QED
        BY <1>13, <4>2, <4>3, <4>4
    <3>4. QED
      BY <3>1, <3>2, <3>3
  <2>2. QED
    BY <1>5, <2>1 DEF CellsKnown
<1>16. QED
  BY <1>8, <1>11, <1>14, <1>15

LEMMA CutKeepsWriter ==
  ASSUME Writer, NEW n \in 0..Len(cells), Cut(n)
  PROVE  /\ Writer' /\ Len(cells') = n
         /\ \A j \in 1..n : cells'[j] = cells[j]
<1> USE DEF Writer
<1>1. /\ reading' = "yes" /\ cells' = SubSeq(cells, 1, n)
      /\ UNCHANGED <<phys, blockOffset, left, torn, damaged>>
  BY DEF Cut
<1>2. Len(cells) \in Nat /\ DOMAIN cells = 1..Len(cells)
  BY PhysIs
<1>3. /\ cells' \in Seq(CellValues) /\ Len(cells') = n
      /\ \A j \in 1..n : cells'[j] = cells[j]
  <2>1. \A j \in 1..n : j \in 1..Len(cells) /\ cells[j] \in CellValues
    <3>1. \A j \in 1..n : j \in 1..Len(cells)
      BY <1>2
    <3>2. QED
      BY <3>1, ElementOfSeq DEF WriterTypes
  <2>2. \A j \in 1..n : 1 + j - 1 = j
    BY <1>2
  <2>3. n \in Nat /\ n = (IF 1 <= n THEN n - 1 + 1 ELSE 0) /\ 1 \in 1..Len(cells) + 1
    BY <1>2
  <2>4. QED
    BY <1>1, <1>2, <2>1, <2>3 DEF WriterTypes
<1>4. DOMAIN cells' = 1..n
  BY <1>2, <1>3, LenProperties
<1>5. WriterTypes'
  BY <1>1, <1>3 DEF WriterTypes
<1>6. RecordsInOrder'
  BY <1>1 DEF RecordsInOrder, EndOf
<1>7. WriterAtWork'
  BY <1>1 DEF WriterAtWork, EndOf
<1>8. CellsKnown'
  <2>1. \A j \in 1..n : j \in DOMAIN cells /\ cells'[j] = cells[j]
    BY <1>2, <1>3
  <2>2. QED
    BY <1>1, <1>4, <2>1 DEF CellsKnown
<1>9. QED
  BY <1>3, <1>5, <1>6, <1>7, <1>8

LEMMA OthersKeepWriter ==
  ASSUME Writer, UNCHANGED <<cells, phys, blockOffset, left, torn>>,
         reading' \in {"yes", "done"} \/ reading' = reading
  PROVE  Writer'
<1>1. WriterTypes' /\ RecordsInOrder' /\ CellsKnown'
  BY DEF Writer, WriterTypes, RecordsInOrder, CellsKnown, EndOf
<1>2. WriterAtWork'
  BY DEF Writer, WriterAtWork, EndOf
<1>3. QED
  BY <1>1, <1>2 DEF Writer

-----------------------------------------------------------------------------
(* What the reader has collected.                                          *)

Read(p) == EndOf(p) \in DOMAIN cells /\ EndOf(p) <= pos /\ cells[EndOf(p)].p = p

\* Physical records of one record, one behind the other, all read.
Run(s) ==
    /\ s \in Seq(DOMAIN phys) /\ s # <<>>
    /\ \A i \in DOMAIN s : s[i] = s[1] + (i - 1) /\ phys[s[i]].rec = phys[s[1]].rec /\ Read(s[i])

ReaderTypes ==
    /\ eof_ \in BOOLEAN /\ inFragment \in BOOLEAN
    /\ pos \in Nat /\ bufferEnd \in Nat /\ pos <= bufferEnd /\ bufferEnd <= Len(cells)
    /\ returned \in Seq(Seq(Nat))
    /\ reading = "no" => pos = 0 /\ bufferEnd = 0 /\ ~eof_ /\ ~inFragment /\ returned = <<>>

\* Between the last fragment collected and the buffer there is no room for
\* another.
Collected ==
    inFragment =>
        /\ Run(scratch) /\ phys[scratch[1]].type = "first"
        /\ pos < EndOf(scratch[Len(scratch)]) + HeaderSize
        /\ pos = EndOf(scratch[Len(scratch)]) \/ bufferEnd - pos >= HeaderSize \/ eof_
        /\ \A j \in DOMAIN returned : returned[j][1] < scratch[1]

Whole(s) == Run(s) /\ phys[s[1]].type \in {"first", "full"} /\ phys[s[Len(s)]].type \in Closes
Handed ==
    /\ \A j \in DOMAIN returned : Whole(returned[j])
    /\ \A j, k \in DOMAIN returned : j < k => returned[j][1] < returned[k][1]

Reader == ReaderTypes /\ Collected /\ Handed

LEMMA RunIs ==
  ASSUME Writer, NEW s, Run(s)
  PROVE  /\ Len(s) \in Nat \ {0} /\ DOMAIN s = 1..Len(s) /\ s \in Seq(1..Len(phys)) /\ s \in Seq(Nat)
         /\ \A i \in 1..Len(s) : /\ s[i] \in 1..Len(phys) /\ s[i] = s[1] + (i - 1)
                                 /\ phys[s[i]].rec = phys[s[1]].rec /\ Read(s[i])
         /\ 1 \in 1..Len(s) /\ Len(s) \in 1..Len(s)
<1>1. DOMAIN phys = 1..Len(phys) /\ Len(phys) \in Nat
  BY PhysIs DEF Writer
<1>2. s \in Seq(1..Len(phys)) /\ s # <<>>
  BY <1>1 DEF Run
<1>3. Len(s) \in Nat \ {0} /\ DOMAIN s = 1..Len(s)
  BY <1>2, EmptySeq, LenProperties
<1>4. \A i \in 1..Len(s) : s[i] \in 1..Len(phys)
  BY <1>2, ElementOfSeq
<1>5. s \in Seq(Nat)
  BY <1>2
<1>6. \A i \in 1..Len(s) : s[i] = s[1] + (i - 1) /\ phys[s[i]].rec = phys[s[1]].rec /\ Read(s[i])
  BY <1>3 DEF Run
<1>7. 1 \in 1..Len(s) /\ Len(s) \in 1..Len(s)
  BY <1>3
<1>8. QED
  BY <1>2, <1>3, <1>4, <1>5, <1>6, <1>7

LEMMA RunStays ==
  ASSUME ReaderTypes, UNCHANGED <<phys, cells>>, pos' \in Nat, pos' >= pos, Writer, NEW s
  PROVE  (Run(s) => Run(s)') /\ (Whole(s) => Whole(s)')
<1>1. \A p \in DOMAIN phys : Read(p) => Read(p)'
  <2> TAKE p \in DOMAIN phys
  <2>1. EndOf(p) \in Nat /\ EndOf(p)' = EndOf(p)
    BY PhysIs DEF Writer, EndOf
  <2>2. QED
    BY <2>1 DEF Read, ReaderTypes
<1>2. ASSUME Run(s) PROVE Run(s)'
  <2>1. \A i \in DOMAIN s : s[i] \in DOMAIN phys
    BY <1>2, RunIs, PhysIs DEF Writer
  <2>2. QED
    BY <1>1, <1>2, <2>1 DEF Run
<1>3. QED
  BY <1>2 DEF Whole

\* The record that Intact sees.
LEMMA IntactIs ==
  ASSUME Writer, ReaderTypes, bufferEnd - pos >= HeaderSize, Intact # 0
  PROVE  /\ Intact \in 1..Len(phys) /\ phys[Intact].at = pos /\ phys[Intact].type # "none"
         /\ EndOf(Intact) \in Nat /\ EndOf(Intact) <= bufferEnd /\ EndOf(Intact) > pos
         /\ EndOf(Intact) = pos + HeaderSize + phys[Intact].len
         /\ EndOf(Intact) \in DOMAIN cells /\ cells[EndOf(Intact)].p = Intact
         /\ \A i \in pos + 1..EndOf(Intact) : i \notin damaged
<1> DEFINE p == cells[pos + 1].p
           e == pos + HeaderSize + phys[p].len
<1>1. /\ Intact = p /\ e <= bufferEnd /\ p # 0
      /\ \A i \in pos + 1..e : cells[i] = [p |-> p, i |-> i - pos] /\ i \notin damaged
  BY DEF Intact
<1>2. /\ pos \in Nat /\ bufferEnd \in Nat /\ bufferEnd <= Len(cells) /\ Len(cells) \in Nat
      /\ DOMAIN cells = 1..Len(cells) /\ DOMAIN phys = 1..Len(phys)
  BY PhysIs DEF Writer, ReaderTypes
<1>3. pos + 1 \in DOMAIN cells
  BY <1>2, LogAssumption
<1>4. p \in 1..Len(phys) /\ phys[p].type # "none" /\ pos + 1 = phys[p].at + cells[pos + 1].i
  BY <1>1, <1>2, <1>3 DEF Writer, CellsKnown
<1>5. phys[p].at \in Nat /\ phys[p].len \in Nat
  BY <1>4, PhysIs DEF Writer, PhysicalRecords
<1> HIDE DEF p
<1>6. pos + 1 \in pos + 1..e /\ e \in pos + 1..e /\ e \in Nat /\ e > pos /\ e \in DOMAIN cells
  <2>1. HeaderSize \in Nat \ {0}
    BY LogAssumption
  <2>2. e \in Nat /\ e > pos
    BY <1>2, <1>5, <2>1, SMTT(30)
  <2> HIDE DEF e
  <2>3. pos + 1 \in pos + 1..e /\ e \in pos + 1..e
    BY <1>2, <2>2
  <2>4. e \in DOMAIN cells
    BY <1>1, <1>2, <2>2
  <2>5. QED
    BY <2>2, <2>3, <2>4
<1>7. cells[pos + 1].i = (pos + 1) - pos /\ cells[e].p = p
  <2> HIDE DEF e
  <2>1. \A i \in pos + 1..e : cells[i] = [p |-> p, i |-> i - pos]
    BY <1>1
  <2>2. cells[pos + 1] = [p |-> p, i |-> (pos + 1) - pos]
    BY <1>6, <2>1
  <2>3. cells[e] = [p |-> p, i |-> e - pos]
    BY <1>6, <2>1
  <2>4. QED
    BY <2>2, <2>3
<1>8. phys[p].at = pos
  BY <1>2, <1>4, <1>5, <1>7
<1>9. EndOf(p) = e
  BY <1>8 DEF EndOf
<1>10. QED
  <2> HIDE DEF e
  <2>1. e = pos + HeaderSize + phys[p].len
    BY DEF e
  <2>2. QED
    BY <1>1, <1>4, <1>6, <1>7, <1>8, <1>9, <2>1

\* What has been read was written before it.
LEMMA ReadIsBefore ==
  ASSUME Writer, ReaderTypes, bufferEnd - pos >= HeaderSize, Intact # 0, NEW f \in 1..Len(phys), Read(f)
  PROVE  f < Intact
<1> DEFINE q == Intact
<1>1. /\ q \in 1..Len(phys) /\ EndOf(q) > pos /\ EndOf(q) \in DOMAIN cells /\ cells[EndOf(q)].p = q
      /\ EndOf(q) \in Nat
  BY IntactIs
<1> HIDE DEF q
<1>2. /\ pos \in Nat /\ Len(phys) \in Nat /\ DOMAIN phys = 1..Len(phys)
      /\ phys[f].at \in Nat /\ EndOf(f) \in Nat /\ EndOf(f) > phys[f].at /\ EndOf(f) <= pos
  <2>1. EndOf(f) \in Nat /\ EndOf(f) >= phys[f].at + HeaderSize /\ phys[f].at \in Nat /\ Len(phys) \in Nat
        /\ DOMAIN phys = 1..Len(phys)
    BY PhysIs DEF Writer, PhysicalRecords
  <2>2. QED
    BY <2>1, LogAssumption DEF Read, ReaderTypes
<1>3. f # q
  BY <1>1, <1>2
<1>4. ~(q < f)
  <2> SUFFICES ASSUME q < f PROVE FALSE
    OBVIOUS
  <2>1. q # 0
    BY <1>1
  <2>2. EndOf(q) <= phys[f].at
    BY <1>1, <1>2, <2>1 DEF Writer, CellsKnown
  <2>3. QED
    BY <1>1, <1>2, <2>2
<1>5. QED
  BY <1>1, <1>2, <1>3, <1>4 DEF q

\* A fragment that is not the first follows the last one collected.
LEMMA NextFragment ==
  ASSUME Writer, ReaderTypes, Collected, inFragment, bufferEnd - pos >= HeaderSize, Intact # 0,
         phys[Intact].type \in {"middle", "last"}
  PROVE  /\ Intact = scratch[Len(scratch)] + 1
         /\ phys[Intact].rec = phys[scratch[1]].rec
<1> DEFINE q == Intact
           l == scratch[Len(scratch)]
<1>1. /\ l \in 1..Len(phys) /\ Read(l) /\ phys[l].rec = phys[scratch[1]].rec
      /\ pos < EndOf(l) + HeaderSize
  BY RunIs DEF Collected
<1>2. l < q /\ q \in 1..Len(phys) /\ phys[q].at = pos
  BY <1>1, IntactIs, ReadIsBefore
<1> HIDE DEF q, l
<1>3. Len(phys) \in Nat /\ DOMAIN phys = 1..Len(phys) /\ pos \in Nat
  BY PhysIs DEF Writer, ReaderTypes
<1>4. q > 1 /\ phys[q - 1].rec = phys[q].rec /\ EndOf(q - 1) <= pos
  BY <1>2, <1>3 DEF Writer, RecordsInOrder, q
<1>5. q - 1 \in 1..Len(phys)
  BY <1>2, <1>3, <1>4
<1>6. /\ EndOf(l) \in Nat /\ EndOf(q - 1) \in Nat /\ EndOf(q - 1) >= phys[q - 1].at + HeaderSize
      /\ phys[q - 1].at \in Nat
  BY <1>1, <1>5, PhysIs DEF Writer, PhysicalRecords
<1>7. ~(l < q - 1)
  <2> SUFFICES ASSUME l < q - 1 PROVE FALSE
    OBVIOUS
  <2>1. EndOf(l) \in DOMAIN cells /\ cells[EndOf(l)].p = l /\ l # 0
    BY <1>1 DEF Read
  <2>2. EndOf(l) <= phys[q - 1].at
    BY <1>3, <1>5, <2>1 DEF Writer, CellsKnown
  <2>3. QED
    BY <1>1, <1>3, <1>4, <1>6, <2>2, LogAssumption
<1>8. q = l + 1
  BY <1>1, <1>2, <1>3, <1>7
<1>9. q - 1 = l
  BY <1>1, <1>3, <1>8
<1>10. QED
  BY <1>1, <1>4, <1>8, <1>9 DEF q, l

LEMMA ReaderStays ==
  ASSUME Writer, Reader, UNCHANGED <<phys, cells, returned>>,
         pos' \in Nat, pos' >= pos, inFragment' = FALSE \/ UNCHANGED <<inFragment, scratch, pos, bufferEnd, eof_>>,
         ReaderTypes'
  PROVE  Reader'
<1>1. Handed'
  BY RunStays DEF Reader, Handed
<1>2. Collected'
  <2>1. CASE inFragment' = FALSE
    BY <2>1 DEF Collected
  <2>2. CASE UNCHANGED <<inFragment, scratch, pos, bufferEnd, eof_>>
    <3>1. (Run(scratch))' = Run(scratch)
      BY <2>2 DEF Run, Read, EndOf
    <3>2. QED
      BY <2>2, <3>1 DEF Reader, Collected, EndOf
  <2>3. QED
    BY <2>1, <2>2
<1>3. QED
  BY <1>1, <1>2 DEF Reader

LEMMA WriterStepsKeepReader ==
  ASSUME Reader, Writer, Writer', reading = "no", UNCHANGED readerVars
  PROVE  Reader'
<1>1. pos = 0 /\ bufferEnd = 0 /\ ~eof_ /\ ~inFragment /\ returned = <<>>
  BY DEF Reader, ReaderTypes
<1>2. UNCHANGED <<pos, bufferEnd, eof_, inFragment, scratch, returned>>
  BY DEF readerVars
<1>3. Len(cells)' \in Nat
  BY LenProperties DEF Writer, WriterTypes
<1>4. ReaderTypes'
  BY <1>1, <1>2, <1>3 DEF Reader, ReaderTypes
<1>5. DOMAIN returned' = {}
  BY <1>1, <1>2
<1>6. QED
  BY <1>1, <1>2, <1>4, <1>5 DEF Reader, Collected, Handed

\* The buffer holds no header any more and is given up.
LEMMA BufferLeft ==
  ASSUME Writer, Reader, reading = "yes", reading' \in {"yes", "done"},
         bufferEnd - pos < HeaderSize, ~eof_, pos' = bufferEnd, eof_' \in BOOLEAN,
         bufferEnd' \in Nat, bufferEnd <= bufferEnd', bufferEnd' <= Len(cells),
         bufferEnd' - bufferEnd >= HeaderSize \/ eof_',
         UNCHANGED <<cells, phys, inFragment, scratch, returned>>
  PROVE  Reader'
<1>1. /\ pos \in Nat /\ bufferEnd \in Nat /\ pos <= bufferEnd /\ Len(cells) \in Nat
      /\ HeaderSize \in Nat
  BY PhysIs, LogAssumption DEF Writer, Reader, ReaderTypes
<1>2. pos' \in Nat /\ pos' >= pos
  BY <1>1
<1>3. ReaderTypes'
  BY <1>2 DEF Reader, ReaderTypes
<1>4. Handed'
  BY <1>2, RunStays DEF Reader, Handed
<1>5. Collected'
  <2>1. SUFFICES ASSUME inFragment
                 PROVE  (/\ Run(scratch) /\ phys[scratch[1]].type = "first"
                         /\ pos < EndOf(scratch[Len(scratch)]) + HeaderSize
                         /\ \A j \in DOMAIN returned : returned[j][1] < scratch[1])'
    BY DEF Collected
  <2>2. PICK s : s = scratch
    OBVIOUS
  <2>3. /\ Run(s) /\ phys[s[1]].type = "first" /\ pos = EndOf(s[Len(s)])
        /\ \A j \in DOMAIN returned : returned[j][1] < s[1]
    <3>1. ~(bufferEnd - pos >= HeaderSize)
      BY <1>1
    <3>2. QED
      BY <2>1, <2>2, <3>1 DEF Reader, Collected
  <2>4. Run(s)'
    BY <1>2, <2>3, RunStays DEF Reader
  <2>5. EndOf(s[Len(s)])' = pos /\ s = scratch'
    BY <2>2, <2>3 DEF EndOf
  <2>6. bufferEnd < pos + HeaderSize
    BY <1>1
  <2>7. QED
    BY <2>3, <2>4, <2>5, <2>6
<1>6. QED
  BY <1>3, <1>4, <1>5 DEF Reader

LEMMA RefillKeepsReader ==
  ASSUME Writer, Reader, Refill
  PROVE  Reader'
<1>1. /\ bufferEnd - pos < HeaderSize /\ ~eof_ /\ reading = "yes" /\ reading' = reading
      /\ pos' = bufferEnd
      /\ bufferEnd' = IF bufferEnd + BlockSize < Len(cells) THEN bufferEnd + BlockSize ELSE Len(cells)
      /\ eof_' = (bufferEnd' - bufferEnd < BlockSize)
      /\ UNCHANGED <<cells, phys, inFragment, scratch, returned>>
  BY DEF Refill, Lower, writerVars
<1>2. /\ bufferEnd \in Nat /\ bufferEnd <= Len(cells) /\ Len(cells) \in Nat
  BY PhysIs DEF Writer, Reader, ReaderTypes
<1>3. bufferEnd' \in Nat /\ bufferEnd <= bufferEnd' /\ bufferEnd' <= Len(cells)
  BY <1>1, <1>2, LogAssumption
<1>4. bufferEnd' - bufferEnd >= HeaderSize \/ eof_'
  <2>1. bufferEnd' - bufferEnd >= HeaderSize \/ bufferEnd' - bufferEnd < BlockSize
    <3>1. PICK d : d = bufferEnd' - bufferEnd
      OBVIOUS
    <3>2. d \in Int /\ HeaderSize \in Int /\ BlockSize \in Int /\ HeaderSize < BlockSize
      BY <1>2, <1>3, <3>1, LogAssumption
    <3>3. d >= HeaderSize \/ d < BlockSize
      BY <3>2
    <3>4. QED
      BY <3>1, <3>3
  <2>2. QED
    BY <1>1, <2>1
<1>5. QED
  BY <1>1, <1>3, <1>4, BufferLeft

LEMMA ReadFailsKeepsReader ==
  ASSUME Writer, Reader, ReadFails
  PROVE  Reader'
<1>1. /\ bufferEnd - pos < HeaderSize /\ ~eof_ /\ reading = "yes" /\ reading' = "done"
      /\ pos' = bufferEnd /\ bufferEnd' = bufferEnd /\ eof_' = TRUE
      /\ UNCHANGED <<cells, phys, inFragment, scratch, returned>>
  BY DEF ReadFails, writerVars
<1>2. bufferEnd \in Nat /\ bufferEnd <= bufferEnd /\ bufferEnd <= Len(cells)
  BY DEF Reader, ReaderTypes
<1>3. QED
  BY <1>1, <1>2, BufferLeft

LEMMA BadRecordKeepsReader ==
  ASSUME Writer, Reader, BadRecord
  PROVE  Reader'
<1>1. /\ reading = "yes" /\ reading' = reading /\ pos' = bufferEnd /\ inFragment' = FALSE
      /\ UNCHANGED <<cells, phys, returned, bufferEnd, eof_>>
  BY DEF BadRecord, writerVars
<1>2. pos' \in Nat /\ pos' >= pos /\ pos' <= bufferEnd
  BY <1>1 DEF Reader, ReaderTypes
<1>3. ReaderTypes'
  BY <1>1, <1>2 DEF Reader, ReaderTypes
<1>4. QED
  BY <1>1, <1>2, <1>3, ReaderStays

LEMMA GoodRecordKeepsReader ==
  ASSUME Writer, Reader, GoodRecord
  PROVE  Reader'
<1>0. PICK q : q = Intact
  OBVIOUS
<1> DEFINE type == phys[q].type
<1>1. /\ reading = "yes" /\ reading' = reading /\ bufferEnd - pos >= HeaderSize /\ Intact # 0
      /\ pos' = pos + HeaderSize + phys[q].len
      /\ CASE type = "full" ->
                    returned' = Append(returned, <<q>>) /\ inFragment' = FALSE /\ scratch' = <<>>
           [] type = "first" ->
                    inFragment' = TRUE /\ scratch' = <<q>> /\ UNCHANGED returned
           [] type = "middle" ->
                    /\ scratch' = IF inFragment THEN Append(scratch, q) ELSE scratch
                    /\ UNCHANGED <<inFragment, returned>>
           [] type = "last" ->
                    /\ returned' = IF inFragment THEN Append(returned, Append(scratch, q)) ELSE returned
                    /\ inFragment' = FALSE /\ scratch' = <<>>
      /\ UNCHANGED <<cells, phys, bufferEnd, eof_>>
  BY <1>0 DEF GoodRecord, writerVars
<1>2. /\ q \in 1..Len(phys) /\ phys[q].at = pos /\ type # "none"
      /\ EndOf(q) \in Nat /\ EndOf(q) <= bufferEnd /\ EndOf(q) > pos /\ pos' = EndOf(q)
      /\ EndOf(q) \in DOMAIN cells /\ cells[EndOf(q)].p = q
  BY <1>0, <1>1, IntactIs DEF Reader
<1>3. type \in {"full", "first", "middle", "last"}
  <2>1. type \in Opens \cup Closes \cup {"middle"}
    BY <1>2, PhysIs DEF Writer, PhysicalRecords
  <2>2. QED
    BY <1>2, <2>1 DEF Opens, Closes
<1>4. /\ pos \in Nat /\ bufferEnd \in Nat /\ Len(phys) \in Nat /\ DOMAIN phys = 1..Len(phys) /\ q \in Nat
      /\ returned \in Seq(Seq(Nat))
  BY <1>2, PhysIs DEF Reader, ReaderTypes, Writer
<1>5. pos' \in Nat /\ pos' >= pos /\ pos' <= bufferEnd
  BY <1>2, <1>4
<1>6. EndOf(q)' = EndOf(q) /\ Read(q)'
  BY <1>1, <1>2, <1>5 DEF EndOf, Read
<1>7. \A s : (Run(s) => Run(s)') /\ (Whole(s) => Whole(s)')
  BY <1>1, <1>5, RunStays DEF Reader
<1>8. Len(returned) \in Nat /\ DOMAIN returned = 1..Len(returned)
  BY <1>4, LenProperties
<1>9. \A s : Run(s) => s[1] < q
  <2> TAKE s
  <2> HAVE Run(s)
  <2>1. s[1] \in 1..Len(phys) /\ Read(s[1])
    BY RunIs
  <2>2. QED
    BY <1>0, <1>1, <2>1, ReadIsBefore DEF Reader
<1>10. ASSUME NEW s, Run(s), \A j \in DOMAIN returned : returned[j][1] < s[1], phys[s[1]].type = "first",
              inFragment, s = scratch, type \in {"middle", "last"}
       PROVE  /\ Run(Append(s, q))' /\ Append(s, q)[1] = s[1] /\ Append(s, q)[Len(Append(s, q))] = q
              /\ Append(s, q) \in Seq(Nat)
  <2> DEFINE u == Append(s, q)
  <2>1. /\ Len(s) \in Nat \ {0} /\ DOMAIN s = 1..Len(s) /\ s \in Seq(1..Len(phys)) /\ s \in Seq(Nat)
        /\ \A i \in 1..Len(s) : /\ s[i] \in 1..Len(phys) /\ s[i] = s[1] + (i - 1)
                                /\ phys[s[i]].rec = phys[s[1]].rec /\ Read(s[i])
    BY <1>10, RunIs
  <2>2. /\ u \in Seq(1..Len(phys)) /\ u \in Seq(Nat) /\ Len(u) = Len(s) + 1 /\ u[Len(s) + 1] = q
        /\ \A i \in 1..Len(s) : u[i] = s[i]
    BY <1>2, <1>4, <2>1, AppendProperties
  <2> HIDE DEF u
  <2>3. DOMAIN u = 1..Len(s) + 1 /\ u # <<>>
    BY <2>1, <2>2, LenProperties, EmptySeq
  <2>4. q = s[Len(s)] + 1 /\ phys[q].rec = phys[s[1]].rec
    BY <1>0, <1>1, <1>10, NextFragment DEF Reader
  <2>5. 1 \in 1..Len(s) /\ Len(s) \in 1..Len(s)
    BY <2>1
  <2>6. u[1] = s[1] /\ s[1] \in Nat /\ q = s[1] + (Len(s) + 1 - 1)
    <3>1. u[1] = s[1] /\ s[1] \in Nat /\ s[Len(s)] = s[1] + (Len(s) - 1)
      BY <1>4, <2>1, <2>2, <2>5
    <3>2. QED
      BY <2>1, <2>4, <3>1
  <2>7. \A i \in 1..Len(s) + 1 : u[i] = u[1] + (i - 1) /\ phys[u[i]].rec = phys[u[1]].rec /\ Read(u[i])'
    <3> TAKE i \in 1..Len(s) + 1
    <3>1. CASE i = Len(s) + 1
      BY <1>6, <2>1, <2>2, <2>4, <2>6, <3>1
    <3>2. CASE i # Len(s) + 1
      <4>1. i \in 1..Len(s)
        BY <2>1, <3>2
      <4>2. Read(s[i])'
        <5>1. Run(s)'
          BY <1>7, <1>10
        <5>2. QED
          BY <2>1, <4>1, <5>1 DEF Run
      <4>3. u[i] = s[i]
        BY <2>2, <4>1
      <4>4. Read(u[i])'
        BY <4>2, <4>3
      <4>5. QED
        BY <2>1, <2>6, <4>1, <4>3, <4>4
    <3>3. QED
      BY <3>1, <3>2
  <2>8. Run(u)'
    BY <1>1, <1>4, <2>2, <2>3, <2>7 DEF Run
  <2>9. QED
    BY <2>2, <2>6, <2>8 DEF u
<1>11. ReaderTypes' /\ Handed' /\ Collected'
  <2>1. ASSUME UNCHANGED returned PROVE Handed'
    BY <1>7, <2>1 DEF Reader, Handed
  <2>2. ASSUME NEW s, s \in Seq(Nat), returned' = Append(returned, s), Whole(s)',
               \A j \in DOMAIN returned : returned[j][1] < s[1]
        PROVE  Handed' /\ returned' \in Seq(Seq(Nat))
    <3>1. /\ returned' \in Seq(Seq(Nat)) /\ Len(returned') = Len(returned) + 1
          /\ returned'[Len(returned) + 1] = s
          /\ \A j \in 1..Len(returned) : returned'[j] = returned[j]
      BY <1>4, <2>2, AppendProperties
    <3>2. DOMAIN returned' = 1..Len(returned) + 1
      BY <3>1, LenProperties
    <3>3. \A j \in 1..Len(returned) + 1 : j \in 1..Len(returned) \/ j = Len(returned) + 1
      BY <1>8
    <3>4. \A j \in 1..Len(returned) : \E v : v = returned[j] /\ Whole(v)'
      <4> TAKE j \in 1..Len(returned)
      <4>1. PICK v : v = returned[j]
        OBVIOUS
      <4>2. Whole(v)
        BY <1>8, <4>1 DEF Reader, Handed
      <4>3. QED
        BY <1>7, <4>1, <4>2
    <3>5. \A j \in 1..Len(returned) + 1 : \E v : v = returned'[j] /\ Whole(v)'
      BY <2>2, <3>1, <3>3, <3>4
    <3>6. \A j, k \in 1..Len(returned) + 1 : j < k => returned'[j][1] < returned'[k][1]
      <4> TAKE j, k \in 1..Len(returned) + 1
      <4> HAVE j < k
      <4>1. j \in 1..Len(returned)
        BY <1>8
      <4>2. CASE k \in 1..Len(returned)
        BY <1>8, <3>1, <4>1, <4>2 DEF Reader, Handed
      <4>3. CASE k = Len(returned) + 1
        BY <1>8, <2>2, <3>1, <4>1, <4>3
      <4>4. QED
        BY <3>3, <4>2, <4>3
    <3>7. (\A j \in DOMAIN returned : Whole(returned[j]))'
      BY <3>2, <3>5 DEF Whole, Run, Read, EndOf
    <3>8. QED
      BY <3>1, <3>2, <3>6, <3>7 DEF Handed
  <2>3. ASSUME inFragment' \in BOOLEAN, returned' \in Seq(Seq(Nat)) PROVE ReaderTypes'
    BY <1>1, <1>2, <1>4, <1>5, <2>3 DEF Reader, ReaderTypes
  <2>4. ASSUME inFragment, type \in {"middle", "last"}
        PROVE  \E u : /\ u = Append(scratch, q) /\ u \in Seq(Nat)
                      /\ Run(u)' /\ phys[u[1]].type = "first" /\ u[Len(u)] = q
                      /\ \A j \in DOMAIN returned : returned[j][1] < u[1]
    <3>1. PICK s : s = scratch
      OBVIOUS
    <3>2. Run(s) /\ phys[s[1]].type = "first" /\ \A j \in DOMAIN returned : returned[j][1] < s[1]
      BY <2>4, <3>1 DEF Reader, Collected
    <3>3. PICK u : u = Append(s, q)
      OBVIOUS
    <3>4. Run(u)' /\ u[1] = s[1] /\ u[Len(u)] = q /\ u \in Seq(Nat)
      BY <1>10, <2>4, <3>1, <3>2, <3>3
    <3>5. QED
      BY <3>1, <3>2, <3>3, <3>4
  <2>5. Run(<<q>>)' /\ <<q>>[1] = q /\ Len(<<q>>) = 1 /\ <<q>> \in Seq(Nat)
    <3> DEFINE u == <<q>>
    <3>1. u \in Seq(1..Len(phys)) /\ u # <<>> /\ DOMAIN u = 1..1 /\ u[1] = q /\ u \in Seq(Nat) /\ Len(u) = 1
      BY <1>2, <1>4
    <3> HIDE DEF u
    <3>2. \A i \in 1..1 : i = 1 /\ u[i] = u[1] + (i - 1) /\ Read(u[i])'
      BY <1>4, <1>6, <3>1
    <3>3. Run(u)'
      BY <1>1, <1>4, <3>1, <3>2 DEF Run
    <3>4. QED
      BY <3>1, <3>3 DEF u
  <2>6. \A j \in DOMAIN returned : returned[j][1] < q
    BY <1>9 DEF Reader, Handed, Whole
  <2>7. CASE type = "full"
    <3>1. returned' = Append(returned, <<q>>) /\ inFragment' = FALSE
      BY <1>1, <2>7
    <3>2. Whole(<<q>>)'
      BY <1>1, <2>5, <2>7 DEF Whole, Closes
    <3>3. QED
      BY <2>2, <2>3, <2>5, <2>6, <3>1, <3>2 DEF Collected
  <2>8. CASE type = "first"
    <3>1. returned' = returned /\ inFragment' = TRUE /\ scratch' = <<q>>
      BY <1>1, <2>8
    <3>2. Collected'
      <4>1. Run(scratch)'
        BY <2>5, <3>1 DEF Run, Read, EndOf
      <4>2. scratch'[1] = q /\ scratch'[Len(scratch')] = q
        BY <2>5, <3>1
      <4>3. (EndOf(scratch[Len(scratch)]))' = pos'
        BY <1>2, <1>6, <4>2 DEF EndOf
      <4>4. QED
        BY <1>1, <1>5, <2>6, <2>8, <3>1, <4>1, <4>2, <4>3, LogAssumption DEF Collected
    <3>3. QED
      BY <1>4, <2>1, <2>3, <3>1, <3>2
  <2>9. CASE type = "middle"
    <3>1. returned' = returned /\ inFragment' = inFragment
          /\ scratch' = IF inFragment THEN Append(scratch, q) ELSE scratch
      BY <1>1, <2>9
    <3>2. Collected'
      <4>1. SUFFICES ASSUME inFragment PROVE Collected'
        BY <3>1 DEF Collected
      <4>2. PICK u : /\ u = Append(scratch, q) /\ u \in Seq(Nat)
                     /\ Run(u)' /\ phys[u[1]].type = "first" /\ u[Len(u)] = q
                     /\ \A j \in DOMAIN returned : returned[j][1] < u[1]
        BY <2>4, <2>9, <4>1
      <4>3. scratch' = u
        BY <3>1, <4>1, <4>2
      <4>4. scratch'[1] = u[1] /\ scratch'[Len(scratch')] = q
        BY <4>2, <4>3
      <4>5. Run(scratch)'
        BY <4>2, <4>3 DEF Run, Read, EndOf
      <4>6. (EndOf(scratch[Len(scratch)]))' = pos'
        BY <1>2, <1>6, <4>4 DEF EndOf
      <4>7. QED
        BY <1>1, <1>5, <3>1, <4>2, <4>4, <4>5, <4>6, LogAssumption DEF Collected
    <3>3. QED
      BY <1>4, <2>1, <2>3, <3>1, <3>2 DEF Reader, ReaderTypes
  <2>10. CASE type = "last"
    <3>1. returned' = (IF inFragment THEN Append(returned, Append(scratch, q)) ELSE returned) /\ inFragment' = FALSE
      BY <1>1, <2>10
    <3>2. CASE ~inFragment
      BY <1>4, <2>1, <2>3, <3>1, <3>2 DEF Collected
    <3>3. CASE inFragment
      <4>1. PICK u : /\ u = Append(scratch, q) /\ u \in Seq(Nat)
                     /\ Run(u)' /\ phys[u[1]].type = "first" /\ u[Len(u)] = q
                     /\ \A j \in DOMAIN returned : returned[j][1] < u[1]
        BY <2>4, <2>10, <3>3
      <4>2. returned' = Append(returned, u)
        BY <3>1, <3>3, <4>1
      <4>3. Whole(u)'
        BY <1>1, <2>10, <4>1 DEF Whole, Closes
      <4>4. QED
        BY <2>2, <2>3, <3>1, <4>1, <4>2, <4>3 DEF Collected
    <3>4. QED
      BY <3>2, <3>3
  <2>11. QED
    BY <1>3, <2>7, <2>8, <2>9, <2>10
<1>12. QED
  BY <1>11 DEF Reader

LEMMA LogStepKept ==
  ASSUME Writer, Reader, [LogNext]_logVars
  PROVE  Writer' /\ Reader'
<1>1. ASSUME NEW n \in RecordSizes, BeginRecord(n) PROVE Writer' /\ Reader'
  <2>1. reading = "no" /\ UNCHANGED readerVars
    BY <1>1 DEF BeginRecord
  <2>2. QED
    BY <1>1, <2>1, BeginKeepsWriter, WriterStepsKeepReader
<1>2. ASSUME NEW k \in 0..BlockSize, NEW filled \in BOOLEAN, NEW ok \in BOOLEAN,
         EmitPhysicalRecord(k, filled, ok) PROVE Writer' /\ Reader'
  <2>1. reading = "no" /\ UNCHANGED readerVars
    BY <1>2 DEF EmitPhysicalRecord
  <2>2. QED
    BY <1>2, <2>1, EmitKeepsWriter, WriterStepsKeepReader
<1>3. ASSUME NEW n \in 0..Len(cells), Cut(n) PROVE Writer' /\ Reader'
  <2>1. reading = "no" /\ UNCHANGED readerVars
    BY <1>3 DEF Cut
  <2>2. QED
    BY <1>3, <2>1, CutKeepsWriter, WriterStepsKeepReader
<1>4. ASSUME NEW i \in DOMAIN cells, Damage(i) PROVE Writer' /\ Reader'
  <2>1. UNCHANGED <<cells, phys, blockOffset, left, torn, reading, readerVars>>
    BY <1>4 DEF Damage
  <2>2. UNCHANGED <<pos, bufferEnd, eof_, inFragment, scratch, returned>>
    BY <2>1 DEF readerVars
  <2>3. ReaderTypes' /\ pos' \in Nat /\ pos' >= pos
    BY <2>1, <2>2 DEF Reader, ReaderTypes
  <2>4. QED
    BY <2>1, <2>2, <2>3, OthersKeepWriter, ReaderStays
<1>5. ASSUME Refill PROVE Writer' /\ Reader'
  <2>1. UNCHANGED <<cells, phys, blockOffset, left, torn>> /\ reading' = reading
    BY <1>5 DEF Refill, writerVars
  <2>2. QED
    BY <1>5, <2>1, OthersKeepWriter, RefillKeepsReader
<1>6. ASSUME EndOfFile PROVE Writer' /\ Reader'
  <2>1. /\ UNCHANGED <<cells, phys, blockOffset, left, torn>> /\ reading = "yes" /\ reading' = "done"
        /\ UNCHANGED <<pos, bufferEnd, eof_, inFragment, scratch, returned>>
    BY <1>6 DEF EndOfFile, writerVars, readerVars
  <2>2. ReaderTypes' /\ pos' \in Nat /\ pos' >= pos
    BY <2>1 DEF Reader, ReaderTypes
  <2>3. QED
    BY <2>1, <2>2, OthersKeepWriter, ReaderStays
<1>7. ASSUME BadRecord PROVE Writer' /\ Reader'
  <2>1. UNCHANGED <<cells, phys, blockOffset, left, torn>> /\ reading' = reading
    BY <1>7 DEF BadRecord, writerVars
  <2>2. QED
    BY <1>7, <2>1, OthersKeepWriter, BadRecordKeepsReader
<1>8. ASSUME GoodRecord PROVE Writer' /\ Reader'
  <2>1. UNCHANGED <<cells, phys, blockOffset, left, torn>> /\ reading' = reading
    BY <1>8 DEF GoodRecord, writerVars
  <2>2. QED
    BY <1>8, <2>1, OthersKeepWriter, GoodRecordKeepsReader
<1>9. ASSUME UNCHANGED logVars PROVE Writer' /\ Reader'
  <2>1. UNCHANGED <<cells, phys, blockOffset, left, torn, reading, pos, bufferEnd, eof_, inFragment, scratch, returned>>
    BY <1>9 DEF logVars, writerVars, readerVars
  <2>2. ReaderTypes' /\ pos' \in Nat /\ pos' >= pos
    BY <2>1 DEF Reader, ReaderTypes
  <2>3. QED
    BY <2>1, <2>2, OthersKeepWriter, ReaderStays
<1>10. ASSUME ReadFails PROVE Writer' /\ Reader'
  <2>1. /\ UNCHANGED <<cells, phys, blockOffset, left, torn>> /\ reading = "yes" /\ reading' = "done"
        /\ pos' = bufferEnd /\ eof_' = TRUE /\ UNCHANGED <<bufferEnd, inFragment, scratch, returned>>
    BY <1>10 DEF ReadFails, writerVars
  <2>2. QED
    BY <1>10, <2>1, OthersKeepWriter, ReadFailsKeepsReader
<1>11. QED
  BY <1>1, <1>2, <1>3, <1>4, <1>5, <1>6, <1>7, <1>8, <1>9, <1>10 DEF LogNext

LEMMA LogStart ==
  ASSUME LogInit
  PROVE  Writer /\ Reader
<1>1. phys = <<>> /\ cells = <<>> /\ Len(cells) = 0 /\ DOMAIN phys = {} /\ DOMAIN cells = {} /\ DOMAIN returned = {}
  BY DEF LogInit
<1>2. Writer
  <2>1. WriterTypes
    <3>1. <<>> \in Seq(PhysicalRecords) /\ <<>> \in Seq(CellValues)
      OBVIOUS
    <3>2. blockOffset \in 0..BlockSize /\ left = -1 /\ torn = FALSE /\ reading = "no"
      BY LogAssumption DEF LogInit
    <3>3. phys = <<>> /\ cells = <<>>
      BY <1>1
    <3>4. QED
      BY <3>1, <3>2, <3>3 DEF WriterTypes
  <2>2. RecordsInOrder /\ CellsKnown
    BY <1>1 DEF RecordsInOrder, CellsKnown
  <2>3. WriterAtWork
    BY <1>1 DEF LogInit, WriterAtWork
  <2>4. QED
    BY <2>1, <2>2, <2>3 DEF Writer
<1>3. Reader
  <2>1. ReaderTypes
    <3>1. <<>> \in Seq(Seq(Nat))
      OBVIOUS
    <3>2. pos = 0 /\ bufferEnd = 0 /\ returned = <<>> /\ eof_ = FALSE /\ inFragment = FALSE
      BY DEF LogInit
    <3>3. pos \in Nat /\ bufferEnd \in Nat /\ pos <= bufferEnd /\ bufferEnd <= Len(cells)
      BY <1>1, <3>2
    <3>4. eof_ \in BOOLEAN /\ inFragment \in BOOLEAN /\ ~eof_ /\ ~inFragment
      BY <3>2
    <3>5. QED
      BY <3>1, <3>2, <3>3, <3>4 DEF ReaderTypes
  <2>2. Collected /\ Handed
    BY <1>1 DEF LogInit, Collected, Handed
  <2>3. QED
    BY <2>1, <2>2 DEF Reader
<1>4. QED
  BY <1>2, <1>3

\* The physical records of one record, from its first to its last.
Assembled(s) ==
    /\ s \in Seq(DOMAIN phys) /\ s # <<>>
    /\ \A i \in DOMAIN s : s[i] = s[1] + (i - 1) /\ phys[s[i]].rec = phys[s[1]].rec
    /\ phys[s[1]].type \in {"first", "full"} /\ phys[s[Len(s)]].type \in Closes

LEMMA AssembledIsARecord ==
  ASSUME Writer, NEW s, Assembled(s)
  PROVE  /\ phys[s[1]].rec \in RecordNumbers /\ Complete(phys[s[1]].rec)
         /\ Lists(s, phys[s[1]].rec)
<1> DEFINE r == phys[s[1]].rec
           n == Len(s)
<1>1. /\ n \in Nat \ {0} /\ DOMAIN s = 1..n
      /\ \A i \in 1..n : /\ s[i] \in 1..Len(phys) /\ s[i] = s[1] + (i - 1) /\ phys[s[i]].rec = r
      /\ 1 \in 1..n /\ n \in 1..n
  <2>1. DOMAIN phys = 1..Len(phys)
    BY PhysIs DEF Writer
  <2>2. n \in Nat \ {0} /\ DOMAIN s = 1..n
    BY EmptySeq, LenProperties DEF Assembled
  <2>3. \A i \in 1..n : s[i] \in 1..Len(phys)
    BY <2>1, ElementOfSeq DEF Assembled
  <2>4. 1 \in 1..n /\ n \in 1..n
    BY <2>2
  <2>5. QED
    BY <2>2, <2>3, <2>4 DEF Assembled
<1>2. DOMAIN phys = 1..Len(phys) /\ Len(phys) \in Nat /\ \A p \in 1..Len(phys) : phys[p].rec \in Nat
  BY PhysIs DEF Writer, PhysicalRecords
<1>3. r \in RecordNumbers
  BY <1>1, <1>2 DEF RecordNumbers
<1>4. Complete(r)
  BY <1>1, <1>2 DEF Assembled, Complete, Closes
<1>5. \A i, j \in DOMAIN s : i < j => s[i] < s[j]
  <2> TAKE i, j \in DOMAIN s
  <2>1. s[i] = s[1] + (i - 1) /\ s[j] = s[1] + (j - 1) /\ s[1] \in Nat /\ i \in Nat /\ j \in Nat
    BY <1>1, <1>2
  <2>2. QED
    BY <2>1
<1>6. \A p \in 1..Len(phys) : phys[p].rec = r => \E i \in 1..n : s[i] = p
  <2> TAKE p \in 1..Len(phys)
  <2> HAVE phys[p].rec = r
  <2>1. s[1] \in 1..Len(phys) /\ s[n] \in 1..Len(phys) /\ s[n] = s[1] + (n - 1) /\ phys[s[n]].rec = r
    BY <1>1
  <2>2. ~(p < s[1])
    <3>1. p < s[1] => phys[p].rec < r
      BY <1>2, <2>1 DEF Writer, RecordsInOrder, Assembled, Opens
    <3>2. QED
      BY <1>2, <3>1
  <2>3. ~(s[n] < p)
    <3>1. s[n] < p => phys[s[n]].rec < phys[p].rec
      BY <1>2, <2>1 DEF Writer, RecordsInOrder, Assembled
    <3>2. QED
      BY <1>2, <2>1, <3>1
  <2>4. (p - s[1]) + 1 \in 1..n
    BY <1>1, <1>2, <2>1, <2>2, <2>3
  <2>5. s[(p - s[1]) + 1] = p
    BY <1>1, <1>2, <2>1, <2>4
  <2>6. QED
    BY <2>4, <2>5
<1>7. {s[i] : i \in DOMAIN s} = {p \in DOMAIN phys : phys[p].rec = r}
  <2> HIDE DEF n, r
  <2>1. \A i \in DOMAIN s : s[i] \in {p \in DOMAIN phys : phys[p].rec = r}
    BY <1>1, <1>2
  <2>2. \A p \in {p \in DOMAIN phys : phys[p].rec = r} : \E i \in DOMAIN s : s[i] = p
    BY <1>1, <1>2, <1>6
  <2>3. QED
    BY <2>1, <2>2
<1>8. QED
  BY <1>3, <1>4, <1>5, <1>7 DEF Lists

LEMMA WholeIsARecord ==
  ASSUME Writer, NEW s, Whole(s)
  PROVE  \E r \in RecordNumbers : Complete(r) /\ Lists(s, r)
<1>1. Assembled(s)
  BY DEF Whole, Run, Assembled
<1>2. QED
  BY <1>1, AssembledIsARecord

\* Whatever a crash, a failed append and damage leave of the file, the reader
\* returns whole records that were written, once and in order.
THEOREM ReaderReturnsRecords == LogSpec => []OnlyTrueRecords
<1>1. LogInit => Writer /\ Reader
  BY LogStart
<1>2. Writer /\ Reader /\ [LogNext]_logVars => Writer' /\ Reader'
  BY LogStepKept
<1>3. Writer /\ Reader => OnlyTrueRecords
  BY WholeIsARecord DEF Reader, Handed, OnlyTrueRecords
<1>4. QED
  BY <1>1, <1>2, <1>3, PTL DEF LogSpec

-----------------------------------------------------------------------------
(* Blocks.                                                                 *)

BlockStarts == {b * BlockSize : b \in Nat}
Written == {p \in DOMAIN phys : phys[p].type # "none"}
InBlock(a, p) == a <= phys[p].at /\ EndOf(p) <= a + BlockSize

\* q begins where p ends, or in the next block when no header fits there.
NextTo(p, q) ==
    \/ phys[q].at = EndOf(p)
    \/ \E a \in BlockStarts :
        /\ phys[q].at = a + BlockSize
        /\ a < EndOf(p) /\ EndOf(p) <= a + BlockSize /\ a + BlockSize < EndOf(p) + HeaderSize

\* The physical records lie behind each other, none of them over the edge of
\* a block, and what the file has of them is what was written.
Tiled ==
    /\ \A p \in Written : \E a \in BlockStarts : InBlock(a, p)
    /\ \A p, q \in DOMAIN phys : p < q => EndOf(p) <= phys[q].at
    /\ \A q \in Written : IF q = 1 THEN phys[q].at = 0 ELSE NextTo(q - 1, q)
    /\ \A p \in Written : \A i \in 1..HeaderSize + phys[p].len :
            phys[p].at + i <= Len(cells) => cells[phys[p].at + i] = [p |-> p, i |-> i]

LastWritten == IF phys # <<>> /\ phys[Len(phys)].type = "none" THEN Len(phys) - 1 ELSE Len(phys)

\* The writer's place in its block.
WriterInBlock ==
    reading = "no" =>
        /\ \E a \in BlockStarts : Len(cells) = a + blockOffset
        /\ Len(cells) = IF LastWritten = 0 THEN 0 ELSE EndOf(LastWritten)
        /\ \A p \in Written : EndOf(p) <= Len(cells)

LEMMA BlocksAre ==
  /\ 0 \in BlockStarts
  /\ \A a \in BlockStarts : a \in Nat /\ a + BlockSize \in BlockStarts
  /\ \A a, c \in BlockStarts : a < c => a + BlockSize <= c
  /\ \A a \in BlockStarts : \A x, y \in Nat :
        a <= x /\ x < a + BlockSize /\ a <= y /\ y < a + BlockSize => x \div BlockSize = y \div BlockSize
<1>1. BlockSize \in Nat \ {0}
  BY LogAssumption
<1>2. \A b \in Nat : b * BlockSize \in Nat /\ (b + 1) * BlockSize = b * BlockSize + BlockSize
  BY <1>1
<1>3. \A b, d \in Nat : b * BlockSize < d * BlockSize => b * BlockSize + BlockSize <= d * BlockSize
  <2> TAKE b, d \in Nat
  <2> HAVE b * BlockSize < d * BlockSize
  <2>1. b < d
    <3>1. d <= b => d * BlockSize <= b * BlockSize
      <4> HAVE d <= b
      <4>1. PICK e \in Nat : b = d + e
        <5>1. b - d \in Nat /\ b = d + (b - d)
          OBVIOUS
        <5>2. QED
          BY <5>1
      <4>2. b * BlockSize = d * BlockSize + e * BlockSize /\ e * BlockSize \in Nat /\ d * BlockSize \in Nat
        BY <1>1, <4>1
      <4>3. QED
        BY <4>2
    <3>2. b * BlockSize \in Nat /\ d * BlockSize \in Nat
      BY <1>2
    <3>3. QED
      BY <3>1, <3>2
  <2>2. PICK e \in Nat : d = (b + 1) + e
    <3>1. d - (b + 1) \in Nat /\ d = (b + 1) + (d - (b + 1))
      BY <2>1
    <3>2. QED
      BY <3>1
  <2>3. d * BlockSize = (b + 1) * BlockSize + e * BlockSize /\ e * BlockSize \in Nat
    BY <1>1, <2>2
  <2>4. b * BlockSize \in Nat /\ (b + 1) * BlockSize = b * BlockSize + BlockSize
    BY <1>2
  <2>5. QED
    BY <1>1, <2>3, <2>4
<1>4. \A b \in Nat : \A x \in Nat : b * BlockSize <= x /\ x < b * BlockSize + BlockSize => x \div BlockSize = b
  <2> TAKE b \in Nat
  <2> TAKE x \in Nat
  <2> HAVE b * BlockSize <= x /\ x < b * BlockSize + BlockSize
  <2>1. PICK r \in Nat : x = b * BlockSize + r /\ r < BlockSize
    <3>1. b * BlockSize \in Nat
      BY <1>2
    <3>2. x - b * BlockSize \in Nat /\ x = b * BlockSize + (x - b * BlockSize) /\ x - b * BlockSize < BlockSize
      BY <1>1, <3>1
    <3>3. QED
      BY <3>2
  <2>2. (b * BlockSize + r) \div BlockSize = b
    BY <1>1, <2>1
  <2>3. QED
    BY <2>1, <2>2
<1>5. \A a \in BlockStarts : \E b \in Nat : a = b * BlockSize
  BY DEF BlockStarts
<1>6. \A b \in Nat : b * BlockSize \in BlockStarts
  BY DEF BlockStarts
<1>7. 0 \in BlockStarts
  <2>1. 0 * BlockSize = 0
    BY <1>1
  <2>2. QED
    BY <1>6, <2>1
<1>8. \A a \in BlockStarts : a \in Nat /\ a + BlockSize \in BlockStarts
  <2> TAKE a \in BlockStarts
  <2>1. PICK b \in Nat : a = b * BlockSize
    BY <1>5
  <2>2. (b + 1) * BlockSize \in BlockStarts /\ (b + 1) * BlockSize = a + BlockSize /\ a \in Nat
    <3>1. b + 1 \in Nat
      OBVIOUS
    <3>2. QED
      BY <1>2, <1>6, <2>1, <3>1
  <2>3. QED
    BY <2>2
<1>9. \A a, c \in BlockStarts : a < c => a + BlockSize <= c
  BY <1>3, <1>5
<1>10. \A a \in BlockStarts : \A x, y \in Nat :
        a <= x /\ x < a + BlockSize /\ a <= y /\ y < a + BlockSize => x \div BlockSize = y \div BlockSize
  <2> TAKE a \in BlockStarts
  <2> TAKE x, y \in Nat
  <2> HAVE a <= x /\ x < a + BlockSize /\ a <= y /\ y < a + BlockSize
  <2>1. PICK b \in Nat : a = b * BlockSize
    BY <1>5
  <2>2. x \div BlockSize = b /\ y \div BlockSize = b
    BY <1>4, <2>1
  <2>3. QED
    BY <2>2
<1>11. QED
  BY <1>7, <1>8, <1>9, <1>10

LEMMA WrittenIs ==
  ASSUME Writer
  PROVE  /\ DOMAIN phys = 1..Len(phys) /\ Len(phys) \in Nat
         /\ \A p \in Written : p \in 1..Len(phys) /\ p \in Nat /\ phys[p].type # "none"
         /\ \A p \in 1..Len(phys) : /\ EndOf(p) \in Nat /\ EndOf(p) >= phys[p].at + HeaderSize
                                    /\ phys[p].at \in Nat /\ phys[p].len \in Nat
                                    /\ phys[p].type # "none" => p \in Written
         /\ HeaderSize \in Nat \ {0} /\ BlockSize \in Nat /\ HeaderSize < BlockSize /\ Len(cells) \in Nat
<1>1. DOMAIN phys = 1..Len(phys) /\ Len(phys) \in Nat /\ Len(cells) \in Nat
  BY PhysIs DEF Writer
<1>2. \A p \in 1..Len(phys) : EndOf(p) \in Nat /\ EndOf(p) >= phys[p].at + HeaderSize /\ phys[p] \in PhysicalRecords
  BY PhysIs DEF Writer
<1>3. \A p \in 1..Len(phys) : phys[p].at \in Nat /\ phys[p].len \in Nat
  BY <1>2 DEF PhysicalRecords
<1>4. QED
  BY <1>1, <1>2, <1>3, LogAssumption, SMTT(30) DEF Written

Layout == Tiled /\ WriterInBlock

LEMMA BeginKeepsLayout ==
  ASSUME Writer, Layout, NEW n \in RecordSizes, BeginRecord(n)
  PROVE  Layout'
<1>0. PICK L, C : L = Len(phys) /\ C = Len(cells)
  OBVIOUS
<1>1. /\ reading = "no" /\ left = -1
      /\ phys' \in Seq(PhysicalRecords) /\ Len(phys') = L + 1
      /\ \A q \in 1..L : phys'[q] = phys[q]
      /\ phys'[L + 1].type = "none" /\ phys'[L + 1].at = C
      /\ cells' = cells /\ blockOffset' = blockOffset /\ reading' = reading
  BY <1>0, BeginIs DEF Writer
<1>2. /\ L \in Nat /\ C \in Nat /\ DOMAIN phys = 1..L
      /\ \A q \in 1..L : EndOf(q) \in Nat
  BY <1>0, WrittenIs
<1>3. DOMAIN phys' = 1..L + 1
  BY <1>1, LenProperties
<1>4. Written = 1..L
  <2>1. \A q \in 1..L : phys[q].type # "none"
    BY <1>0, <1>1, <1>2 DEF Writer, WriterAtWork
  <2>2. QED
    BY <1>2, <2>1 DEF Written
<1>5. \A q \in 1..L + 1 : q \in 1..L \/ q = L + 1
  BY <1>2
<1>6. Written' = 1..L
  <2>1. \A q \in Written' : q \in 1..L
    BY <1>1, <1>3, <1>5 DEF Written
  <2>2. \A q \in 1..L : q \in Written'
    BY <1>1, <1>2, <1>3, <1>4 DEF Written
  <2>3. QED
    BY <2>1, <2>2
<1>7. \A q \in 1..L : EndOf(q)' = EndOf(q)
  BY <1>1 DEF EndOf
<1>8. /\ \A q \in 1..L : EndOf(q) <= C
      /\ C = IF L = 0 THEN 0 ELSE EndOf(L)
      /\ \E a \in BlockStarts : C = a + blockOffset
  <2>1. LastWritten = L
    <3>1. CASE L = 0
      BY <1>0, <1>3, <3>1, EmptySeq DEF LastWritten, Writer, WriterTypes
    <3>2. CASE L # 0
      BY <1>0, <1>2, <1>4, <3>2 DEF LastWritten, Written
    <3>3. QED
      BY <3>1, <3>2
  <2>2. QED
    BY <1>0, <1>1, <1>4, <2>1 DEF Layout, WriterInBlock
<1>9. Tiled'
  <2>1. \A q \in 1..L : \E a \in BlockStarts : InBlock(a, q)'
    BY <1>1, <1>4, <1>7 DEF Layout, Tiled, InBlock
  <2>2. \A q, r \in 1..L + 1 : q < r => EndOf(q)' <= phys'[r].at
    <3> TAKE q, r \in 1..L + 1
    <3> HAVE q < r
    <3>1. q \in 1..L
      BY <1>2
    <3>2. CASE r = L + 1
      BY <1>1, <1>7, <1>8, <3>1, <3>2
    <3>3. CASE r \in 1..L
      <4>1. EndOf(q) <= phys[r].at
        BY <1>2, <3>1, <3>3 DEF Layout, Tiled
      <4>2. QED
        BY <1>1, <1>7, <3>1, <3>3, <4>1
    <3>4. QED
      BY <1>5, <3>2, <3>3
  <2>3. \A q \in 1..L : IF q = 1 THEN phys'[q].at = 0 ELSE NextTo(q - 1, q)'
    <3> TAKE q \in 1..L
    <3>1. IF q = 1 THEN phys[q].at = 0 ELSE NextTo(q - 1, q)
      BY <1>4 DEF Layout, Tiled
    <3>2. q # 1 => q - 1 \in 1..L
      BY <1>2
    <3>3. q # 1 => EndOf(q - 1)' = EndOf(q - 1)
      BY <1>7, <3>2
    <3>4. QED
      BY <1>1, <3>1, <3>2, <3>3 DEF NextTo
  <2>4. \A q \in 1..L : \A i \in 1..HeaderSize + phys'[q].len :
            phys'[q].at + i <= Len(cells') => cells'[phys'[q].at + i] = [p |-> q, i |-> i]
    BY <1>1, <1>4 DEF Layout, Tiled
  <2>5. QED
    BY <1>3, <1>6, <2>1, <2>2, <2>3, <2>4 DEF Tiled
<1>10. WriterInBlock'
  <2>1. LastWritten' = L
    <3>1. phys' # <<>>
      BY <1>1, <1>2, EmptySeq
    <3>2. QED
      BY <1>1, <1>2, <3>1 DEF LastWritten
  <2>2. (L # 0 => (EndOf(LastWritten))' = EndOf(L)) /\ Len(cells') = C
    BY <1>0, <1>1, <1>2, <1>7, <2>1 DEF EndOf
  <2>3. Len(cells') = IF LastWritten' = 0 THEN 0 ELSE (EndOf(LastWritten))'
    BY <1>8, <2>1, <2>2
  <2>4. \A q \in 1..L : EndOf(q)' <= Len(cells')
    BY <1>7, <1>8, <2>2
  <2>5. QED
    BY <1>1, <1>6, <1>8, <2>2, <2>3, <2>4 DEF WriterInBlock
<1>11. QED
  BY <1>9, <1>10 DEF Layout

LEMMA CutKeepsLayout ==
  ASSUME Writer, Tiled, NEW n \in 0..Len(cells), Cut(n)
  PROVE  Layout'
<1>1. /\ reading' = "yes" /\ phys' = phys /\ Len(cells') = n /\ n \in Nat /\ n <= Len(cells)
      /\ \A j \in 1..n : cells'[j] = cells[j]
  <2>1. n \in Nat /\ n <= Len(cells)
    BY WrittenIs
  <2>2. QED
    BY <2>1, CutKeepsWriter DEF Cut
<1>2. WriterInBlock'
  BY <1>1 DEF WriterInBlock
<1>3. Written' = Written /\ \A p : EndOf(p)' = EndOf(p) /\ phys'[p] = phys[p]
  BY <1>1 DEF Written, EndOf
<1>4. \A p \in Written : \A i \in 1..HeaderSize + phys[p].len :
            phys[p].at + i <= n => cells'[phys[p].at + i] = [p |-> p, i |-> i]
  <2> TAKE p \in Written
  <2> TAKE i \in 1..HeaderSize + phys[p].len
  <2> HAVE phys[p].at + i <= n
  <2>1. phys[p].at \in Nat /\ phys[p].len \in Nat /\ HeaderSize \in Nat /\ Len(cells) \in Nat
    BY WrittenIs
  <2>2. phys[p].at + i \in 1..n /\ phys[p].at + i <= Len(cells)
    BY <1>1, <2>1, SMTT(30)
  <2>3. QED
    BY <1>1, <2>2 DEF Tiled
<1>5. Tiled'
  <2>1. \A p \in Written : \E a \in BlockStarts : InBlock(a, p)'
    BY <1>3 DEF Tiled, InBlock
  <2>2. \A q \in Written : IF q = 1 THEN phys[q].at = 0 ELSE NextTo(q - 1, q)'
    BY <1>3 DEF Tiled, NextTo
  <2>3. \A p, q \in DOMAIN phys : p < q => EndOf(p)' <= phys[q].at
    BY <1>3 DEF Tiled
  <2>4. QED
    BY <1>1, <1>3, <1>4, <2>1, <2>2, <2>3 DEF Tiled
<1>6. QED
  BY <1>2, <1>5 DEF Layout

LEMMA LayoutStays ==
  ASSUME Layout, UNCHANGED <<cells, phys, blockOffset>>, reading' \in {"yes", "done"} \/ reading' = reading
  PROVE  Layout'
<1>1. Written' = Written /\ LastWritten' = LastWritten /\ \A p : EndOf(p)' = EndOf(p) /\ phys'[p] = phys[p]
  BY DEF Written, EndOf, LastWritten
<1>2. (EndOf(LastWritten))' = EndOf(LastWritten)
  BY <1>1 DEF EndOf
<1>3. WriterInBlock'
  BY <1>1, <1>2 DEF Layout, WriterInBlock
<1>4. \A p, q : NextTo(p, q)' = NextTo(p, q)
  BY <1>1 DEF NextTo
<1>5. \A a, p : InBlock(a, p)' = InBlock(a, p)
  BY <1>1 DEF InBlock
<1>6. Tiled'
  BY <1>1, <1>4, <1>5 DEF Layout, Tiled
<1>7. QED
  BY <1>3, <1>6 DEF Layout

LEMMA EmitKeepsLayout ==
  ASSUME Writer, Layout, NEW k \in 0..BlockSize, NEW filled \in BOOLEAN, NEW ok \in BOOLEAN,
         EmitPhysicalRecord(k, filled, ok), ~torn'
  PROVE  Layout'
<1>0. PICK L, C, F, p, b, n : /\ L = Len(phys) /\ C = Len(cells) /\ F = Filling(filled) /\ p = TurnOf
                              /\ b = blockOffset /\ n = Size
  OBVIOUS
<1>1. /\ Emitted(k, F, p) /\ phys'[p].len = n /\ k \in 0..HeaderSize + n
      /\ phys'[p].type \in {"full", "first", "last", "middle"}
      /\ blockOffset' = Offset + HeaderSize + n
      /\ torn' = (torn \/ k < HeaderSize + n \/ ~filled)
      /\ reading = "no" /\ left >= 0 /\ phys # <<>> /\ reading' = reading
  <2>1. phys'[p].type = IF phys[L].type = "none"
                        THEN IF Size = left THEN "full" ELSE "first"
                        ELSE IF Size = left THEN "last" ELSE "middle"
    BY <1>0, EmitIs DEF Writer
  <2>2. QED
    BY <1>0, <2>1, EmitIs DEF Writer
<1>2. /\ DOMAIN phys = 1..L /\ L \in Nat /\ C \in Nat /\ L \in 1..L
      /\ \A q \in 1..L : EndOf(q) \in Nat /\ EndOf(q) > phys[q].at /\ phys[q].at \in Nat /\ phys[q].len \in Nat
      /\ HeaderSize \in Nat \ {0} /\ BlockSize \in Nat /\ HeaderSize < BlockSize
  <2>1. L \in 1..L
    BY <1>0, <1>1, PhysIs DEF Writer
  <2>2. \A q \in 1..L : EndOf(q) \in Nat /\ EndOf(q) >= phys[q].at + HeaderSize /\ phys[q].at \in Nat /\ phys[q].len \in Nat
    BY <1>0, WrittenIs
  <2>3. HeaderSize \in Nat \ {0} /\ BlockSize \in Nat /\ HeaderSize < BlockSize /\ C \in Nat /\ L \in Nat /\ DOMAIN phys = 1..L
    BY <1>0, WrittenIs
  <2>4. \A q \in 1..L : EndOf(q) > phys[q].at
    BY <2>2, <2>3
  <2>5. QED
    BY <2>1, <2>2, <2>3, <2>4
<1>3. n \in Nat /\ F \in Nat /\ Offset \in Nat /\ Offset + HeaderSize + n <= BlockSize /\ b \in 0..BlockSize
  BY <1>0, <1>1, OffsetIs, LogAssumption DEF Writer, WriterTypes
<1>4. k = HeaderSize + n /\ filled
  <2>1. filled /\ ~(k < HeaderSize + n)
    BY <1>1
  <2>2. k = HeaderSize + n
    <3>1. PICK m : m = HeaderSize + n
      OBVIOUS
    <3>2. m \in Nat /\ k \in 0..m /\ ~(k < m)
      BY <1>1, <1>2, <1>3, <2>1, <3>1
    <3>3. k = m
      BY <3>2
    <3>4. QED
      BY <3>1, <3>3
  <2>3. QED
    BY <2>1, <2>2
<1>5. /\ (p = L \/ p = L + 1) /\ (phys[L].type = "none" <=> p = L) /\ p \in Nat /\ p >= 1
  <2>1. p = IF phys[L].type = "none" THEN L ELSE L + 1
    BY <1>0 DEF TurnOf
  <2>2. L \in Nat /\ L >= 1
    BY <1>2
  <2>3. QED
    BY <2>1, <2>2
<1>6. /\ Len(phys') = p /\ DOMAIN phys' = 1..p /\ phys' # <<>>
      /\ \A q \in 1..p - 1 : q \in 1..L /\ phys'[q] = phys[q] /\ EndOf(q)' = EndOf(q)
      /\ phys'[p].at = C + F
      /\ Len(cells') = C + F + k /\ C + F \in Nat
      /\ \A j \in 1..C : cells'[j] = cells[j]
      /\ \A i \in 1..k : cells'[(C + F) + i] = [p |-> p, i |-> i]
  <2>1. Emitted(k, F, p)
    BY <1>1
  <2>2. \A q \in 1..p - 1 : q \in 1..L
    <3>1. L \in Nat /\ (p = L \/ p = L + 1)
      BY <1>2, <1>5
    <3>2. QED
      BY <3>1
  <2>3. DOMAIN phys' = 1..p /\ phys' # <<>>
    BY <1>5, <2>1, LenProperties, EmptySeq DEF Emitted
  <2>4. C + F \in Nat
    BY <1>2, <1>3
  <2>5. QED
    BY <1>0, <2>1, <2>2, <2>3, <2>4 DEF Emitted, EndOf
<1>7. EndOf(p)' = (C + F) + k
  BY <1>1, <1>2, <1>3, <1>4, <1>6 DEF EndOf
<1>8. \A q \in 1..p : q \in 1..p - 1 \/ q = p
  BY <1>5
<1>9. \A q \in 1..p - 1 : q \in Written
  <2> TAKE q \in 1..p - 1
  <2>1. q \in 1..L
    BY <1>6
  <2>2. phys[q].type # "none"
    <3>1. phys[q].type = "none" => q = L
      BY <1>0, <1>2, <2>1 DEF Writer, WriterAtWork
    <3>2. q = L => p = L + 1
      BY <1>5
    <3>3. q = L => phys[L].type # "none"
      <4>1. L + 1 # L
        BY <1>2
      <4>2. QED
        BY <1>5, <3>2, <4>1
    <3>4. QED
      BY <3>1, <3>3
  <2>3. QED
    BY <1>2, <2>1, <2>2 DEF Written
<1>10. Written' = 1..p
  <2>1. \A q \in 1..p : phys'[q].type # "none"
    BY <1>1, <1>6, <1>8, <1>9 DEF Written
  <2>2. QED
    BY <1>6, <2>1 DEF Written
<1>11. /\ C = IF p = 1 THEN 0 ELSE EndOf(p - 1)
       /\ \E a \in BlockStarts : C = a + b
       /\ \A q \in 1..p - 1 : EndOf(q) <= C
  <2>1. LastWritten = p - 1
    BY <1>0, <1>1, <1>2, <1>5 DEF LastWritten
  <2>2. p - 1 = 0 <=> p = 1
    BY <1>5
  <2>3. QED
    BY <1>0, <1>1, <1>9, <2>1, <2>2 DEF Layout, WriterInBlock
<1>12. PICK a \in BlockStarts : C = a + b
  BY <1>11
<1>13. a \in Nat /\ a + BlockSize \in BlockStarts
  BY BlocksAre
<1>14. PICK c \in BlockStarts : c <= C + F /\ C + F + k <= c + BlockSize /\ C + F + k = c + blockOffset'
  <2>1. CASE HeaderFits
    <3>1. F = 0 /\ Offset = b
      BY <1>0, <2>1 DEF Filling, Offset
    <3>2. QED
      BY <1>1, <1>2, <1>3, <1>4, <1>12, <1>13, <3>1
  <2>2. CASE ~HeaderFits
    <3>1. F = BlockSize - b /\ Offset = 0
      BY <1>0, <1>4, <2>2 DEF Filling, Offset
    <3>2. C + F = a + BlockSize
      BY <1>2, <1>3, <1>12, <1>13, <3>1
    <3>3. QED
      BY <1>1, <1>2, <1>3, <1>4, <1>12, <1>13, <3>1, <3>2
  <2>3. QED
    BY <2>1, <2>2
<1>15. IF p = 1 THEN phys'[p].at = 0 ELSE NextTo(p - 1, p)'
  <2>1. CASE HeaderFits
    <3>1. F = 0
      BY <1>0, <2>1 DEF Filling
    <3>2. phys'[p].at = C
      BY <1>2, <1>6, <3>1
    <3>3. p # 1 => EndOf(p - 1)' = C
      <4>1. p # 1 => p - 1 \in 1..p - 1
        BY <1>5
      <4>2. QED
        BY <1>6, <1>11, <4>1
    <3>4. QED
      BY <1>11, <3>2, <3>3 DEF NextTo
  <2>2. CASE ~HeaderFits
    <3>1. F = BlockSize - b /\ ~(BlockSize - b >= HeaderSize)
      BY <1>0, <1>4, <2>2 DEF Filling, HeaderFits
    <3>2. C + F = a + BlockSize /\ a < C /\ C <= a + BlockSize /\ a + BlockSize < C + HeaderSize
      BY <1>2, <1>3, <1>12, <1>13, <3>1
    <3>3. p # 1
      BY <1>11, <1>13, <3>2
    <3>4. p - 1 \in 1..p - 1
      BY <1>5, <3>3
    <3>5. EndOf(p - 1)' = C
      BY <1>6, <1>11, <3>3, <3>4
    <3>6. phys'[p].at = a + BlockSize
      BY <1>6, <3>2
    <3>7. NextTo(p - 1, p)'
      BY <3>2, <3>5, <3>6 DEF NextTo
    <3>8. QED
      BY <3>3, <3>7
  <2>3. QED
    BY <2>1, <2>2
<1>16. Tiled'
  <2>1. \A q \in 1..p : \E d \in BlockStarts : InBlock(d, q)'
    <3> TAKE q \in 1..p
    <3>1. CASE q = p
      BY <1>6, <1>7, <1>14, <3>1 DEF InBlock
    <3>2. CASE q \in 1..p - 1
      BY <1>6, <1>9, <3>2 DEF Layout, Tiled, InBlock
    <3>3. QED
      BY <1>8, <3>1, <3>2
  <2>2. \A q, r \in 1..p : q < r => EndOf(q)' <= phys'[r].at
    <3> TAKE q, r \in 1..p
    <3> HAVE q < r
    <3>1. q \in 1..p - 1
      BY <1>5
    <3>2. CASE r = p
      <4>1. EndOf(q) \in Nat /\ EndOf(q) <= C
        BY <1>2, <1>6, <1>11, <3>1
      <4>2. QED
        BY <1>2, <1>3, <1>6, <3>1, <3>2, <4>1, SMTT(30)
    <3>3. CASE r \in 1..p - 1
      <4>1. EndOf(q) <= phys[r].at
        BY <1>2, <1>6, <3>1, <3>3 DEF Layout, Tiled
      <4>2. QED
        BY <1>6, <3>1, <3>3, <4>1
    <3>4. QED
      BY <1>8, <3>2, <3>3
  <2>3. \A q \in 1..p : IF q = 1 THEN phys'[q].at = 0 ELSE NextTo(q - 1, q)'
    <3> TAKE q \in 1..p
    <3>1. CASE q = p
      BY <1>15, <3>1
    <3>2. CASE q \in 1..p - 1
      <4>1. IF q = 1 THEN phys[q].at = 0 ELSE NextTo(q - 1, q)
        BY <1>9, <3>2 DEF Layout, Tiled
      <4>2. q # 1 => q - 1 \in 1..p - 1
        BY <1>5, <3>2
      <4>3. q # 1 => EndOf(q - 1)' = EndOf(q - 1)
        BY <1>6, <4>2
      <4>4. phys'[q] = phys[q]
        BY <1>6, <3>2
      <4>5. QED
        BY <4>1, <4>3, <4>4 DEF NextTo
    <3>3. QED
      BY <1>8, <3>1, <3>2
  <2>4. \A q \in 1..p : \A i \in 1..HeaderSize + phys'[q].len :
            phys'[q].at + i <= Len(cells') => cells'[phys'[q].at + i] = [p |-> q, i |-> i]
    <3> TAKE q \in 1..p
    <3> TAKE i \in 1..HeaderSize + phys'[q].len
    <3>1. CASE q = p
      <4>1. i \in 1..k /\ phys'[q].at + i = (C + F) + i
        BY <1>1, <1>4, <1>6, <3>1
      <4>2. QED
        BY <1>6, <3>1, <4>1
    <3>2. CASE q \in 1..p - 1
      <4>1. phys'[q] = phys[q] /\ EndOf(q) <= C /\ q \in 1..L
        BY <1>6, <1>11, <3>2
      <4>2. i \in 1..HeaderSize + phys[q].len
        BY <4>1
      <4>3. phys[q].at + i \in 1..C
        <5>1. EndOf(q) = phys[q].at + HeaderSize + phys[q].len
          BY DEF EndOf
        <5>2. phys[q].at \in Nat /\ phys[q].len \in Nat /\ C \in Nat /\ HeaderSize \in Nat
          BY <1>2, <4>1
        <5>3. QED
          BY <4>1, <4>2, <5>1, <5>2
      <4>4. cells[phys[q].at + i] = [p |-> q, i |-> i]
        <5>1. phys[q].at + i <= Len(cells)
          BY <1>0, <1>2, <4>3
        <5>2. QED
          BY <1>9, <3>2, <4>2, <5>1 DEF Layout, Tiled
      <4>5. QED
        BY <1>6, <4>1, <4>3, <4>4
    <3>3. QED
      BY <1>8, <3>1, <3>2
  <2>5. QED
    BY <1>6, <1>10, <2>1, <2>2, <2>3, <2>4 DEF Tiled
<1>17. WriterInBlock'
  <2>1. LastWritten' = p
    BY <1>1, <1>6 DEF LastWritten
  <2>2. (EndOf(LastWritten))' = Len(cells')
    BY <1>6, <1>7, <2>1 DEF EndOf
  <2>3. \A q \in 1..p : EndOf(q)' <= Len(cells')
    <3> TAKE q \in 1..p
    <3>1. CASE q = p
      BY <1>2, <1>3, <1>4, <1>6, <1>7, <3>1
    <3>2. CASE q \in 1..p - 1
      BY <1>2, <1>3, <1>4, <1>6, <1>11, <3>2, SMTT(30)
    <3>3. QED
      BY <1>8, <3>1, <3>2
  <2>4. p # 0 /\ Len(cells') = c + blockOffset'
    BY <1>5, <1>6, <1>14
  <2>5. QED
    BY <1>10, <2>1, <2>2, <2>3, <2>4 DEF WriterInBlock
<1>18. QED
  BY <1>16, <1>17 DEF Layout

-----------------------------------------------------------------------------
(* What the reader may not lose.                                           *)

\* The buffer is what is left of a block, and begins where a physical record
\* may begin.
BufferIs ==
    /\ eof_ => bufferEnd = Len(cells)
    /\ \/ bufferEnd = 0
       \/ \E a \in BlockStarts :
            /\ a <= pos /\ a < bufferEnd /\ bufferEnd <= a + BlockSize
            /\ bufferEnd = a + BlockSize \/ eof_
    /\ pos = bufferEnd \/ pos \in BlockStarts \/ \E q \in Written : pos = EndOf(q)

Unharmed(p) == \A i \in damaged : (i - 1) \div BlockSize # phys[p].at \div BlockSize
Good(r) == Complete(r) /\ \A p \in DOMAIN phys : phys[p].rec = r => EndOf(p) <= Len(cells) /\ Unharmed(p)

\* A record that is all there and has been read is returned; one that has been
\* read in part is being put together.
NoneLost ==
    \A r \in RecordNumbers : Good(r) =>
        /\ (\A p \in DOMAIN phys : phys[p].rec = r => EndOf(p) <= pos)
            => \E j \in DOMAIN returned : Lists(returned[j], r)
        /\ (\E p, q \in DOMAIN phys : phys[p].rec = r /\ phys[q].rec = r /\ EndOf(p) <= pos /\ pos < EndOf(q))
            => inFragment /\ phys[scratch[1]].rec = r

AllPassed == reading = "done" /\ bufferEnd = Len(cells) => \A p \in Written : EndOf(p) <= Len(cells) => EndOf(p) <= pos

LEMMA FirstUnread ==
  ASSUME Writer, ReaderTypes, NEW p \in Written, pos < EndOf(p)
  PROVE  \E q \in Written : /\ q <= p /\ pos < EndOf(q)
                            /\ \A x \in 1..Len(phys) : x < q => EndOf(x) <= pos
<1> DEFINE S == {q \in 1..Len(phys) : pos < EndOf(q)}
<1>1. /\ DOMAIN phys = 1..Len(phys) /\ Len(phys) \in Nat /\ p \in 1..Len(phys) /\ pos \in Nat
      /\ \A q \in 1..Len(phys) : EndOf(q) \in Nat
  BY WrittenIs DEF ReaderTypes
<1>2. PICK q \in S : \A x \in S : q <= x
  <2>1. p \in S /\ S \subseteq Nat
    BY <1>1
  <2>2. PICK q \in S : \A x \in S : ~ (<<x, q>> \in OpToRel(<, Nat))
    BY <2>1, NatLessThanWellFounded, WFMin
  <2>3. \A x \in S : ~(x < q)
    BY <2>1, <2>2 DEF OpToRel
  <2>4. QED
    BY <2>1, <2>3
<1>3. q <= p /\ q \in 1..Len(phys) /\ pos < EndOf(q)
  BY <1>1, <1>2
<1>4. \A x \in 1..Len(phys) : x < q => EndOf(x) <= pos
  BY <1>1, <1>2
<1>5. phys[q].type # "none"
  <2>1. phys[q].type = "none" => q = Len(phys)
    BY <1>1, <1>3 DEF Writer, WriterAtWork
  <2>2. q = Len(phys) => q = p
    <3>1. p \in Nat /\ q \in Nat /\ p <= Len(phys) /\ q <= p
      BY <1>1, <1>3
    <3>2. QED
      BY <3>1
  <2>3. QED
    BY <2>1, <2>2, WrittenIs
<1>6. QED
  BY <1>1, <1>3, <1>4, <1>5 DEF Written

LEMMA CompleteIsWritten ==
  ASSUME Writer, NEW r, Complete(r), NEW p \in DOMAIN phys, phys[p].rec = r
  PROVE  p \in Written
<1>1. PICK q \in DOMAIN phys : phys[q].rec = r /\ phys[q].type \in {"full", "last"}
  BY DEF Complete
<1>2. DOMAIN phys = 1..Len(phys) /\ Len(phys) \in Nat /\ phys[q].rec \in Nat
  BY <1>1, PhysIs DEF Writer, PhysicalRecords
<1>3. SUFFICES ASSUME phys[p].type = "none" PROVE FALSE
  BY DEF Written
<1>4. p = Len(phys) /\ phys[p].type \in Opens /\ p # q
  BY <1>1, <1>3 DEF Writer, WriterAtWork, Opens
<1>5. q < p
  BY <1>2, <1>4
<1>6. phys[q].rec < phys[p].rec
  BY <1>4, <1>5 DEF Writer, RecordsInOrder
<1>7. QED
  BY <1>1, <1>2, <1>6

\* With room for a header in the buffer, the first record that has not been
\* read is where the reader is.
LEMMA NextIsHere ==
  ASSUME Writer, ReaderTypes, Tiled, BufferIs, bufferEnd - pos >= HeaderSize,
         NEW q \in Written, pos < EndOf(q), \A x \in 1..Len(phys) : x < q => EndOf(x) <= pos
  PROVE  /\ phys[q].at = pos
         /\ \E a \in BlockStarts : InBlock(a, q) /\ a <= pos /\ bufferEnd <= a + BlockSize
                                   /\ (bufferEnd = a + BlockSize \/ bufferEnd = Len(cells))
<1>1. /\ pos \in Nat /\ bufferEnd \in Nat /\ HeaderSize \in Nat \ {0} /\ BlockSize \in Nat /\ HeaderSize < BlockSize
      /\ DOMAIN phys = 1..Len(phys) /\ Len(phys) \in Nat /\ q \in 1..Len(phys)
      /\ \A p \in 1..Len(phys) : EndOf(p) \in Nat /\ phys[p].at \in Nat /\ EndOf(p) >= phys[p].at + HeaderSize
  BY WrittenIs DEF ReaderTypes
<1>2. \A a \in BlockStarts : a \in Nat /\ a + BlockSize \in BlockStarts
  BY BlocksAre
<1>3. \A a, d \in BlockStarts : a < d => a + BlockSize <= d
  BY BlocksAre
<1>4. bufferEnd # 0 /\ pos < bufferEnd
  BY <1>1
<1>5. PICK a \in BlockStarts : /\ a <= pos /\ a < bufferEnd /\ bufferEnd <= a + BlockSize
                               /\ bufferEnd = a + BlockSize \/ eof_
  BY <1>4 DEF BufferIs
<1>6. PICK c \in BlockStarts : c <= phys[q].at /\ EndOf(q) <= c + BlockSize
  BY DEF Tiled, InBlock
<1>7. a \in Nat /\ c \in Nat
  BY <1>2
<1>8. ASSUME phys[q].at <= a, a = pos PROVE phys[q].at = pos
  <2>1. ~(c < a)
    <3>1. c < a => c + BlockSize <= a
      BY <1>3
    <3>2. QED
      BY <1>1, <1>6, <1>7, <1>8, <3>1
  <2>2. QED
    BY <1>1, <1>6, <1>7, <1>8, <2>1
<1>9. phys[q].at = pos
  <2>1. CASE q = 1
    <3>1. phys[q].at = 0 /\ 0 <= a
      BY <1>7, <2>1 DEF Tiled
    <3>2. EndOf(q) <= BlockSize
      <4>1. c = 0
        BY <1>1, <1>6, <1>7, <3>1
      <4>2. QED
        BY <1>1, <1>6, <4>1
    <3>3. ~(0 < a)
      <4>1. 0 < a => BlockSize <= a
        <5>1. 0 \in BlockStarts
          BY BlocksAre
        <5>2. 0 < a => 0 + BlockSize <= a
          BY <1>3, <5>1
        <5>3. QED
          BY <1>1, <5>2
      <4>2. QED
        BY <1>1, <1>5, <1>7, <3>2, <4>1
    <3>4. a = 0
      BY <1>7, <3>3
    <3>5. CASE pos \in BlockStarts
      <4>1. ~(a < pos)
        <5>1. a < pos => a + BlockSize <= pos
          BY <1>3, <3>5
        <5>2. QED
          BY <1>1, <1>4, <1>5, <1>7, <5>1
      <4>2. QED
        BY <1>1, <1>5, <1>7, <3>1, <3>4, <4>1
    <3>6. CASE \E p \in Written : pos = EndOf(p)
      <4>1. PICK p \in Written : pos = EndOf(p)
        BY <3>6
      <4>2. p \in 1..Len(phys) /\ p # q
        BY <1>1, <4>1, WrittenIs
      <4>3. q < p
        BY <1>1, <2>1, <4>2
      <4>4. EndOf(q) <= phys[p].at
        BY <1>1, <4>2, <4>3 DEF Tiled
      <4>5. QED
        BY <1>1, <4>1, <4>2, <4>4
    <3>7. QED
      BY <1>1, <1>4, <3>5, <3>6 DEF BufferIs
  <2>2. CASE q # 1
    <3>1. NextTo(q - 1, q)
      BY <2>2 DEF Tiled
    <3>2. q - 1 \in 1..Len(phys) /\ q - 1 < q /\ EndOf(q - 1) <= pos
      <4>1. q - 1 \in 1..Len(phys) /\ q - 1 < q
        BY <1>1, <2>2
      <4>2. QED
        BY <4>1
    <3>3. EndOf(q - 1) \in Nat
      BY <1>1, <3>2
    <3>4. CASE pos \in BlockStarts
      <4>1. ~(a < pos)
        <5>1. a < pos => a + BlockSize <= pos
          BY <1>3, <3>4
        <5>2. QED
          BY <1>1, <1>4, <1>5, <1>7, <5>1
      <4>2. a = pos
        BY <1>1, <1>5, <1>7, <4>1
      <4>3. CASE phys[q].at = EndOf(q - 1)
        BY <1>8, <3>2, <4>2, <4>3
      <4>4. CASE phys[q].at # EndOf(q - 1)
        <5>1. PICK d \in BlockStarts : phys[q].at = d + BlockSize /\ d < EndOf(q - 1)
          BY <3>1, <4>4 DEF NextTo
        <5>2. d < a
          <6>1. d \in Nat
            BY <1>2, <5>1
          <6>2. d < EndOf(q - 1) /\ EndOf(q - 1) <= a
            BY <3>2, <4>2, <5>1
          <6>3. QED
            BY <1>7, <3>3, <6>1, <6>2
        <5>3. QED
          BY <1>3, <1>8, <4>2, <5>1, <5>2
      <4>5. QED
        BY <4>3, <4>4
    <3>5. CASE \E p \in Written : pos = EndOf(p)
      <4>1. PICK p \in Written : pos = EndOf(p)
        BY <3>5
      <4>2. p \in 1..Len(phys) /\ p # q
        BY <1>1, <4>1, WrittenIs
      <4>3. ~(q < p)
        <5>1. q < p => EndOf(q) <= phys[p].at
          BY <1>1, <4>2 DEF Tiled
        <5>2. QED
          BY <1>1, <4>1, <4>2, <5>1
      <4>4. ~(p < q - 1)
        <5>1. p < q - 1 => EndOf(p) <= phys[q - 1].at
          BY <1>1, <3>2, <4>2 DEF Tiled
        <5>2. EndOf(q - 1) > phys[q - 1].at /\ phys[q - 1].at \in Nat
          BY <1>1, <3>2, SMTT(30)
        <5>3. QED
          BY <1>1, <3>2, <3>3, <4>1, <5>1, <5>2
      <4>5. EndOf(q - 1) = pos
        <5>1. p = q - 1
          BY <1>1, <4>2, <4>3, <4>4
        <5>2. QED
          BY <4>1, <5>1
      <4>6. CASE phys[q].at = EndOf(q - 1)
        BY <4>5, <4>6
      <4>7. CASE phys[q].at # EndOf(q - 1)
        <5>1. PICK d \in BlockStarts : /\ phys[q].at = d + BlockSize /\ d < EndOf(q - 1)
                                       /\ EndOf(q - 1) <= d + BlockSize /\ d + BlockSize < EndOf(q - 1) + HeaderSize
          BY <3>1, <4>7 DEF NextTo
        <5>2. d \in Nat
          BY <1>2
        <5>3. d < a
          BY <1>1, <1>5, <1>7, <4>5, <5>1, <5>2
        <5>4. d + BlockSize <= a
          BY <1>3, <5>3
        <5>5. QED
          BY <1>1, <1>5, <1>7, <4>5, <5>1, <5>2, <5>4
      <4>8. QED
        BY <4>6, <4>7
    <3>6. QED
      BY <1>1, <1>4, <3>4, <3>5 DEF BufferIs
  <2>3. QED
    BY <2>1, <2>2
<1>10. a = c
  <2>1. ~(a < c)
    <3>1. a < c => a + BlockSize <= c
      BY <1>3
    <3>2. QED
      BY <1>1, <1>4, <1>5, <1>6, <1>7, <1>9, <3>1
  <2>2. ~(c < a)
    <3>1. c < a => c + BlockSize <= a
      BY <1>3
    <3>2. QED
      BY <1>1, <1>5, <1>6, <1>7, <3>1
  <2>3. QED
    BY <1>7, <2>1, <2>2
<1>11. InBlock(a, q)
  BY <1>6, <1>10 DEF InBlock
<1>12. bufferEnd = a + BlockSize \/ bufferEnd = Len(cells)
  BY <1>5 DEF BufferIs
<1>13. QED
  BY <1>5, <1>9, <1>11, <1>12

\* In a tail with no room for a header nothing ends.
LEMMA TailHasNone ==
  ASSUME Writer, ReaderTypes, Tiled, BufferIs, bufferEnd - pos < HeaderSize,
         NEW p \in Written, pos < EndOf(p)
  PROVE  bufferEnd < EndOf(p)
<1>1. /\ pos \in Nat /\ bufferEnd \in Nat /\ pos <= bufferEnd /\ HeaderSize \in Nat \ {0} /\ BlockSize \in Nat
      /\ HeaderSize < BlockSize
      /\ DOMAIN phys = 1..Len(phys) /\ Len(phys) \in Nat /\ p \in 1..Len(phys)
      /\ \A q \in 1..Len(phys) : EndOf(q) \in Nat /\ phys[q].at \in Nat /\ EndOf(q) >= phys[q].at + HeaderSize
  BY WrittenIs DEF ReaderTypes
<1>2. \A a \in BlockStarts : a \in Nat
  BY BlocksAre
<1>3. SUFFICES ASSUME EndOf(p) <= bufferEnd PROVE FALSE
  BY <1>1
<1>4. pos < bufferEnd
  BY <1>1, <1>3
<1>5. CASE pos \in BlockStarts
  <2>1. PICK c \in BlockStarts : c <= phys[p].at /\ EndOf(p) <= c + BlockSize
    BY DEF Tiled, InBlock
  <2>2. ~(c < pos)
    <3>1. c < pos => c + BlockSize <= pos
      BY <1>5, BlocksAre
    <3>2. QED
      BY <1>1, <1>2, <2>1, <3>1
  <2>3. QED
    BY <1>1, <1>2, <1>3, <2>1, <2>2
<1>6. CASE \E q \in Written : pos = EndOf(q)
  <2>1. PICK q \in Written : pos = EndOf(q)
    BY <1>6
  <2>2. q \in 1..Len(phys) /\ q # p
    BY <1>1, <2>1, WrittenIs
  <2>3. ~(p < q)
    <3>1. p < q => EndOf(p) <= phys[q].at
      BY <1>1, <2>2 DEF Tiled
    <3>2. QED
      BY <1>1, <2>1, <2>2, <3>1
  <2>4. q < p
    BY <1>1, <2>2, <2>3
  <2>5. EndOf(q) <= phys[p].at
    BY <1>1, <2>2, <2>4 DEF Tiled
  <2>6. QED
    BY <1>1, <1>3, <2>1, <2>5
<1>7. QED
  BY <1>1, <1>4, <1>5, <1>6 DEF BufferIs

\* With room for a header, the first record that has not been read is there
\* for the reader if all its cells are.
LEMMA PresentIsIntact ==
  ASSUME Writer, ReaderTypes, Tiled, BufferIs, bufferEnd - pos >= HeaderSize,
         NEW p \in Written, pos < EndOf(p), EndOf(p) <= Len(cells), Unharmed(p),
         NEW q \in Written, q <= p, pos < EndOf(q), \A x \in 1..Len(phys) : x < q => EndOf(x) <= pos,
         p = q \/ EndOf(p) <= bufferEnd
  PROVE  Intact = q
<1>1. /\ pos \in Nat /\ bufferEnd \in Nat /\ HeaderSize \in Nat \ {0} /\ BlockSize \in Nat
      /\ DOMAIN phys = 1..Len(phys) /\ Len(phys) \in Nat /\ q \in 1..Len(phys) /\ p \in 1..Len(phys)
      /\ \A x \in 1..Len(phys) : EndOf(x) \in Nat /\ phys[x].at \in Nat /\ phys[x].len \in Nat /\ EndOf(x) >= phys[x].at + HeaderSize
      /\ Len(cells) \in Nat /\ bufferEnd <= Len(cells)
  BY WrittenIs DEF ReaderTypes
<1>2. phys[q].at = pos
  BY NextIsHere
<1>3. PICK a \in BlockStarts : InBlock(a, q) /\ a <= pos /\ bufferEnd <= a + BlockSize
                               /\ (bufferEnd = a + BlockSize \/ bufferEnd = Len(cells))
  BY NextIsHere
<1>4. a \in Nat /\ \A c \in BlockStarts : c \in Nat
  BY BlocksAre
<1>5. EndOf(q) <= EndOf(p)
  <2>1. CASE q < p
    <3>1. EndOf(q) <= phys[p].at
      BY <1>1, <2>1 DEF Tiled
    <3>2. QED
      BY <1>1, <3>1
  <2>2. QED
    BY <1>1, <2>1
<1>6. EndOf(q) <= bufferEnd /\ EndOf(q) <= a + BlockSize
  BY <1>1, <1>3, <1>4, <1>5 DEF InBlock
<1>7. InBlock(a, p)
  <2>1. CASE p = q
    BY <1>3, <2>1
  <2>2. CASE p # q
    <3>1. PICK c \in BlockStarts : c <= phys[p].at /\ EndOf(p) <= c + BlockSize
      BY DEF Tiled, InBlock
    <3>2. EndOf(p) <= a + BlockSize
      BY <1>1, <1>3, <1>4, <2>2
    <3>3. ~(c < a)
      <4>1. c < a => c + BlockSize <= a
        BY BlocksAre
      <4>2. QED
        BY <1>1, <1>3, <1>4, <3>1, <4>1
    <3>4. QED
      BY <1>1, <1>4, <3>1, <3>2, <3>3 DEF InBlock
  <2>3. QED
    BY <2>1, <2>2
<1>8. \A i \in pos + 1..EndOf(q) : i \notin damaged
  <2> TAKE i \in pos + 1..EndOf(q)
  <2>1. i - 1 \in Nat /\ a <= i - 1 /\ i - 1 < a + BlockSize
    BY <1>1, <1>3, <1>4, <1>6
  <2>2. phys[p].at \in Nat /\ a <= phys[p].at /\ phys[p].at < a + BlockSize
    <3>1. EndOf(p) \in Nat /\ phys[p].at \in Nat /\ EndOf(p) >= phys[p].at + HeaderSize
      BY <1>1
    <3>2. QED
      BY <1>1, <1>4, <1>7, <3>1 DEF InBlock
  <2>3. (i - 1) \div BlockSize = phys[p].at \div BlockSize
    BY <2>1, <2>2, BlocksAre
  <2>4. QED
    BY <2>3 DEF Unharmed
<1>9. EndOf(q) = pos + HeaderSize + phys[q].len
  BY <1>2 DEF EndOf
<1>10. \A i \in pos + 1..EndOf(q) : cells[i] = [p |-> q, i |-> i - pos]
  <2> TAKE i \in pos + 1..EndOf(q)
  <2>1. i - pos \in 1..HeaderSize + phys[q].len /\ pos + (i - pos) = i /\ i <= Len(cells)
    BY <1>1, <1>6, <1>9, SMTT(30)
  <2>2. cells[phys[q].at + (i - pos)] = [p |-> q, i |-> i - pos]
    BY <1>2, <2>1 DEF Tiled
  <2>3. QED
    BY <1>2, <2>1, <2>2
<1>11. pos + 1 \in pos + 1..EndOf(q)
  BY <1>1, <1>9
<1>12. cells[pos + 1].p = q /\ cells[pos + 1] # Trailer
  <2>1. cells[pos + 1] = [p |-> q, i |-> (pos + 1) - pos]
    BY <1>10, <1>11
  <2>2. q # 0
    BY <1>1
  <2>3. QED
    BY <2>1, <2>2 DEF Trailer
<1>13. QED
  BY <1>6, <1>8, <1>9, <1>10, <1>12 DEF Intact

Loss == (reading # "done" => BufferIs) /\ NoneLost /\ AllPassed

\* Nothing has been read yet.
LEMMA NothingRead ==
  ASSUME Writer, ReaderTypes, pos = 0, bufferEnd = 0, ~eof_, reading # "done"
  PROVE  Loss
<1>1. \A p \in DOMAIN phys : ~(EndOf(p) <= pos)
  <2> TAKE p \in DOMAIN phys
  <2>1. EndOf(p) \in Nat /\ EndOf(p) >= phys[p].at + HeaderSize /\ phys[p].at \in Nat /\ HeaderSize \in Nat \ {0}
    BY WrittenIs
  <2>2. QED
    BY <2>1
<1>2. BufferIs
  BY DEF BufferIs
<1>3. NoneLost
  <2>1. \A r \in RecordNumbers : \E p \in DOMAIN phys : phys[p].rec = r
    BY DEF RecordNumbers
  <2>2. QED
    BY <1>1, <2>1 DEF NoneLost
<1>4. QED
  BY <1>2, <1>3 DEF Loss, AllPassed

LEMMA SameGood ==
  ASSUME UNCHANGED <<phys, cells, damaged>>
  PROVE  /\ RecordNumbers' = RecordNumbers /\ Written' = Written
         /\ \A p : EndOf(p)' = EndOf(p)
         /\ \A r : Good(r)' = Good(r) /\ Complete(r)' = Complete(r)
         /\ \A s, r : Lists(s, r)' = Lists(s, r)
<1>1. \A p : EndOf(p)' = EndOf(p) /\ Unharmed(p)' = Unharmed(p)
  BY DEF EndOf, Unharmed
<1>2. \A r : Complete(r)' = Complete(r)
  BY DEF Complete
<1>3. \A r : Good(r)' = Good(r)
  BY <1>1, <1>2 DEF Good
<1>4. QED
  BY <1>1, <1>2, <1>3 DEF RecordNumbers, Written, Lists

\* What is given up with the buffer holds no physical record that is all there.
LEMMA BufferLeftHeldNone ==
  ASSUME Writer, ReaderTypes, Tiled, Loss, reading = "yes", bufferEnd - pos < HeaderSize,
         pos' = bufferEnd, UNCHANGED <<cells, phys, damaged, inFragment, scratch, returned>>
  PROVE  NoneLost' /\ \A p \in Written : EndOf(p) <= bufferEnd <=> EndOf(p) <= pos
<1>2. /\ pos \in Nat /\ bufferEnd \in Nat /\ pos <= bufferEnd
  BY DEF ReaderTypes
<1>3. /\ RecordNumbers' = RecordNumbers /\ Written' = Written
      /\ \A p : EndOf(p)' = EndOf(p)
      /\ \A r : Good(r)' = Good(r)
      /\ \A s, r : Lists(s, r)' = Lists(s, r)
  BY SameGood
<1>4. \A p \in Written : EndOf(p) <= bufferEnd <=> EndOf(p) <= pos
  <2> TAKE p \in Written
  <2>1. EndOf(p) \in Nat
    BY WrittenIs
  <2>2. pos < EndOf(p) => bufferEnd < EndOf(p)
    BY TailHasNone DEF Loss
  <2>3. QED
    BY <1>2, <2>1, <2>2
<1>5. NoneLost'
  <2>1. SUFFICES ASSUME NEW r \in RecordNumbers, Good(r)
        PROVE  /\ (\A p \in DOMAIN phys : phys[p].rec = r => EndOf(p) <= bufferEnd)
                   => \E j \in DOMAIN returned : Lists(returned[j], r)
               /\ (\E p, q \in DOMAIN phys : phys[p].rec = r /\ phys[q].rec = r /\ EndOf(p) <= bufferEnd /\ bufferEnd < EndOf(q))
                   => inFragment /\ phys[scratch[1]].rec = r
    BY <1>3 DEF NoneLost
  <2>2. \A p \in DOMAIN phys : phys[p].rec = r => (EndOf(p) <= bufferEnd <=> EndOf(p) <= pos) /\ EndOf(p) \in Nat
    BY <1>4, <2>1, CompleteIsWritten, WrittenIs DEF Good
  <2>3. \A p \in DOMAIN phys : phys[p].rec = r => (bufferEnd < EndOf(p) <=> pos < EndOf(p))
    <3> TAKE p \in DOMAIN phys
    <3> HAVE phys[p].rec = r
    <3>1. (EndOf(p) <= bufferEnd <=> EndOf(p) <= pos) /\ EndOf(p) \in Nat
      BY <2>2
    <3>2. QED
      BY <1>2, <3>1
  <2>4. QED
    BY <2>1, <2>2, <2>3 DEF Loss, NoneLost
<1>6. QED
  BY <1>4, <1>5

LEMMA RefillLosesNone ==
  ASSUME Writer, ReaderTypes, Tiled, Loss, Refill
  PROVE  Loss'
<1>1. /\ bufferEnd - pos < HeaderSize /\ ~eof_ /\ reading = "yes" /\ reading' = reading
      /\ pos' = bufferEnd
      /\ bufferEnd' = IF bufferEnd + BlockSize < Len(cells) THEN bufferEnd + BlockSize ELSE Len(cells)
      /\ eof_' = (bufferEnd' - bufferEnd < BlockSize)
      /\ UNCHANGED <<cells, phys, damaged, inFragment, scratch, returned>>
  BY DEF Refill, Lower, writerVars
<1>2. /\ pos \in Nat /\ bufferEnd \in Nat /\ pos <= bufferEnd /\ bufferEnd <= Len(cells) /\ Len(cells) \in Nat
      /\ BlockSize \in Nat \ {0}
  BY WrittenIs DEF ReaderTypes
<1>3. /\ RecordNumbers' = RecordNumbers /\ Written' = Written
      /\ \A p : EndOf(p)' = EndOf(p)
      /\ \A r : Good(r)' = Good(r)
      /\ \A s, r : Lists(s, r)' = Lists(s, r)
  BY <1>1, SameGood
<1>5. NoneLost'
  BY <1>1, BufferLeftHeldNone
<1>6. BufferIs'
  <2>1. eof_' => bufferEnd' = Len(cells')
    <3>1. bufferEnd' - bufferEnd < BlockSize => bufferEnd' = Len(cells)
      BY <1>1, <1>2
    <3>2. QED
      BY <1>1, <3>1
  <2>2. bufferEnd \in BlockStarts
    BY <1>1, BlocksAre DEF Loss, BufferIs
  <2>3. pos' \in BlockStarts
    BY <1>1, <2>2
  <2>4. CASE bufferEnd < Len(cells)
    <3>1. bufferEnd < bufferEnd' /\ bufferEnd' <= bufferEnd + BlockSize
      BY <1>1, <1>2, <2>4
    <3>2. bufferEnd' = bufferEnd + BlockSize \/ eof_'
      <4>1. bufferEnd' = bufferEnd + BlockSize \/ bufferEnd' - bufferEnd < BlockSize
        BY <1>1, <1>2, <2>4
      <4>2. QED
        BY <1>1, <4>1
    <3>3. bufferEnd <= pos'
      BY <1>1, <1>2
    <3>4. QED
      BY <2>1, <2>2, <2>3, <3>1, <3>2, <3>3 DEF BufferIs
  <2>5. CASE ~(bufferEnd < Len(cells))
    <3>1. bufferEnd' = bufferEnd /\ pos' = bufferEnd
      BY <1>1, <1>2, <2>5
    <3>2. CASE bufferEnd = 0
      BY <2>1, <2>3, <3>1, <3>2 DEF BufferIs
    <3>3. CASE bufferEnd # 0
      <4>1. PICK a \in BlockStarts : a <= pos /\ a < bufferEnd /\ bufferEnd <= a + BlockSize /\ bufferEnd = a + BlockSize
        BY <1>1, <3>3 DEF Loss, BufferIs
      <4>2. a <= pos'
        BY <1>2, <3>1, <4>1, BlocksAre
      <4>3. QED
        BY <2>1, <2>3, <3>1, <4>1, <4>2 DEF BufferIs
    <3>4. QED
      BY <3>2, <3>3
  <2>6. QED
    BY <2>4, <2>5
<1>7. AllPassed'
  BY <1>1 DEF AllPassed
<1>8. QED
  BY <1>5, <1>6, <1>7 DEF Loss

LEMMA ReadFailsLosesNone ==
  ASSUME Writer, ReaderTypes, Tiled, Loss, ReadFails
  PROVE  Loss'
<1>1. /\ bufferEnd - pos < HeaderSize /\ reading = "yes" /\ reading' = "done"
      /\ pos' = bufferEnd /\ bufferEnd' = bufferEnd
      /\ UNCHANGED <<cells, phys, damaged, inFragment, scratch, returned>>
  BY DEF ReadFails, writerVars
<1>2. NoneLost'
  BY <1>1, BufferLeftHeldNone
<1>3. AllPassed'
  <2>1. Written' = Written /\ \A p : EndOf(p)' = EndOf(p)
    BY <1>1, SameGood
  <2>2. QED
    BY <1>1, <2>1 DEF AllPassed
<1>4. QED
  BY <1>1, <1>2, <1>3 DEF Loss

LEMMA EndOfFileLosesNone ==
  ASSUME Writer, ReaderTypes, Tiled, Loss, EndOfFile
  PROVE  Loss'
<1>1. /\ bufferEnd - pos < HeaderSize /\ eof_ /\ reading = "yes" /\ reading' = "done"
      /\ UNCHANGED <<cells, phys, damaged, pos, bufferEnd, eof_, inFragment, scratch, returned>>
  BY DEF EndOfFile, writerVars, readerVars
<1>2. pos \in Nat /\ bufferEnd \in Nat /\ bufferEnd = Len(cells)
  BY <1>1 DEF Loss, BufferIs, ReaderTypes
<1>3. \A p \in Written : EndOf(p) <= Len(cells) => EndOf(p) <= pos
  <2> TAKE p \in Written
  <2>1. EndOf(p) \in Nat
    BY WrittenIs
  <2>2. pos < EndOf(p) => bufferEnd < EndOf(p)
    BY <1>1, TailHasNone DEF Loss
  <2>3. QED
    BY <1>2, <2>1, <2>2
<1>4. /\ RecordNumbers' = RecordNumbers /\ Written' = Written
      /\ \A p : EndOf(p)' = EndOf(p)
      /\ \A r : Good(r)' = Good(r)
      /\ \A s, r : Lists(s, r)' = Lists(s, r)
  BY <1>1, SameGood
<1>5. NoneLost'
  BY <1>1, <1>4 DEF Loss, NoneLost
<1>6. AllPassed'
  BY <1>1, <1>3, <1>4 DEF AllPassed
<1>7. QED
  BY <1>1, <1>5, <1>6 DEF Loss

LEMMA BadRecordLosesNone ==
  ASSUME Writer, ReaderTypes, Tiled, Loss, BadRecord
  PROVE  Loss'
<1>1. /\ bufferEnd - pos >= HeaderSize /\ Intact = 0 /\ reading = "yes" /\ reading' = reading
      /\ pos' = bufferEnd
      /\ UNCHANGED <<cells, phys, damaged, bufferEnd, eof_, returned>>
  BY DEF BadRecord, writerVars
<1>2. /\ pos \in Nat /\ bufferEnd \in Nat /\ pos <= bufferEnd /\ bufferEnd <= Len(cells) /\ Len(cells) \in Nat
      /\ DOMAIN phys = 1..Len(phys) /\ Len(phys) \in Nat
      /\ \A p \in 1..Len(phys) : EndOf(p) \in Nat /\ phys[p].at \in Nat /\ EndOf(p) > phys[p].at
  <2>1. \A p \in 1..Len(phys) : EndOf(p) \in Nat /\ phys[p].at \in Nat /\ EndOf(p) >= phys[p].at + HeaderSize
    BY WrittenIs
  <2>2. HeaderSize \in Nat \ {0} /\ Len(cells) \in Nat /\ DOMAIN phys = 1..Len(phys) /\ Len(phys) \in Nat
    BY WrittenIs
  <2>3. \A p \in 1..Len(phys) : EndOf(p) \in Nat /\ phys[p].at \in Nat
    BY WrittenIs
  <2>4. \A p \in 1..Len(phys) : EndOf(p) > phys[p].at
    BY <2>1, <2>2, <2>3, SMTT(30)
  <2>5. pos \in Nat /\ bufferEnd \in Nat /\ pos <= bufferEnd /\ bufferEnd <= Len(cells)
    BY DEF ReaderTypes
  <2>6. QED
    BY <2>2, <2>3, <2>4, <2>5
<1>3. /\ RecordNumbers' = RecordNumbers /\ Written' = Written
      /\ \A p : EndOf(p)' = EndOf(p)
      /\ \A r : Good(r)' = Good(r)
      /\ \A s, r : Lists(s, r)' = Lists(s, r)
  BY <1>1, SameGood
<1>4. ASSUME NEW r, Good(r), NEW p \in 1..Len(phys), phys[p].rec = r, pos < EndOf(p)
      PROVE  /\ bufferEnd < EndOf(p)
             /\ \A z \in 1..Len(phys) : phys[z].rec = r => ~(EndOf(z) <= pos)
  <2>1. \A z \in 1..Len(phys) : phys[z].rec = r => z \in Written /\ EndOf(z) <= Len(cells) /\ Unharmed(z)
    BY <1>2, <1>4, CompleteIsWritten DEF Good
  <2>2. PICK q \in Written : /\ q <= p /\ pos < EndOf(q)
                             /\ \A x \in 1..Len(phys) : x < q => EndOf(x) <= pos
    BY <1>4, <2>1, FirstUnread
  <2>3. q \in 1..Len(phys) /\ q # 0
    BY WrittenIs
  <2>4. bufferEnd < EndOf(p)
    <3>1. EndOf(p) <= bufferEnd => Intact = q
      BY <1>1, <1>4, <2>1, <2>2, PresentIsIntact DEF Loss
    <3>2. QED
      BY <1>1, <1>2, <2>3, <3>1
  <2>5. ASSUME NEW z \in 1..Len(phys), phys[z].rec = r, EndOf(z) <= pos PROVE FALSE
    <3>1. ~(q < z)
      <4>1. q < z => EndOf(q) <= phys[z].at
        BY <1>2, <2>3 DEF Tiled
      <4>2. QED
        BY <1>2, <2>2, <2>3, <2>5, <4>1, SMTT(30)
    <3>2. z # q
      BY <1>2, <2>2, <2>3, <2>5
    <3>3. z < q
      BY <1>2, <2>3, <3>1, <3>2
    <3>4. phys[q].rec = r
      <4>1. \A x \in 1..Len(phys) : phys[x].rec \in Nat
        BY PhysIs DEF Writer, PhysicalRecords
      <4>2. phys[z].rec <= phys[q].rec
        BY <1>2, <2>3, <3>3 DEF Writer, RecordsInOrder
      <4>3. q = p \/ q < p
        BY <1>2, <2>2, <2>3
      <4>4. q < p => phys[q].rec <= phys[p].rec
        BY <1>2, <2>3 DEF Writer, RecordsInOrder
      <4>5. phys[q].rec \in Nat /\ phys[p].rec \in Nat
        BY <2>3, <4>1
      <4>6. QED
        BY <1>4, <2>5, <4>2, <4>3, <4>4, <4>5
    <3>5. EndOf(q) <= Len(cells) /\ Unharmed(q) /\ q <= q
      BY <1>2, <2>1, <2>3, <3>4
    <3>6. Intact = q
      BY <1>1, <2>2, <3>5, PresentIsIntact DEF Loss
    <3>7. QED
      BY <1>1, <2>3, <3>6
  <2>6. QED
    BY <2>4, <2>5
<1>5. NoneLost'
  <2>1. SUFFICES ASSUME NEW r \in RecordNumbers, Good(r)
        PROVE  /\ (\A p \in DOMAIN phys : phys[p].rec = r => EndOf(p) <= bufferEnd)
                   => \E j \in DOMAIN returned : Lists(returned[j], r)
               /\ ~\E p, q \in DOMAIN phys : phys[p].rec = r /\ phys[q].rec = r /\ EndOf(p) <= bufferEnd /\ bufferEnd < EndOf(q)
    BY <1>1, <1>3 DEF NoneLost
  <2>2. ASSUME NEW p \in DOMAIN phys, phys[p].rec = r, EndOf(p) <= bufferEnd PROVE EndOf(p) <= pos
    <3>1. pos < EndOf(p) => bufferEnd < EndOf(p)
      BY <1>2, <1>4, <2>1, <2>2
    <3>2. EndOf(p) \in Nat
      BY <1>2
    <3>3. QED
      BY <1>2, <2>2, <3>1, <3>2
  <2>3. ASSUME NEW p \in DOMAIN phys, NEW q \in DOMAIN phys,
               phys[p].rec = r, phys[q].rec = r, EndOf(p) <= bufferEnd, bufferEnd < EndOf(q)
        PROVE  FALSE
    <3>1. EndOf(p) <= pos
      BY <2>2, <2>3
    <3>2. pos < EndOf(q)
      <4>1. EndOf(q) \in Nat
        BY <1>2
      <4>2. QED
        BY <1>2, <2>3, <4>1
    <3>3. QED
      BY <1>2, <1>4, <2>1, <2>3, <3>1, <3>2
  <2>4. QED
    BY <2>1, <2>2, <2>3 DEF Loss, NoneLost
<1>6. BufferIs'
  <2>1. bufferEnd = 0 \/ \E a \in BlockStarts :
            /\ a <= bufferEnd /\ a < bufferEnd /\ bufferEnd <= a + BlockSize
            /\ bufferEnd = a + BlockSize \/ eof_
    <3>1. \A a \in BlockStarts : a < bufferEnd => a <= bufferEnd
      <4>1. \A a \in BlockStarts : a \in Nat
        BY BlocksAre
      <4>2. bufferEnd \in Nat
        BY <1>2
      <4>3. QED
        BY <4>1, <4>2
    <3>2. QED
      BY <1>1, <3>1 DEF Loss, BufferIs
  <2>2. QED
    BY <1>1, <2>1 DEF Loss, BufferIs
<1>7. AllPassed'
  BY <1>1 DEF AllPassed
<1>8. QED
  BY <1>5, <1>6, <1>7 DEF Loss

LEMMA GoodRecordLosesNone ==
  ASSUME Writer, Reader, Reader', Tiled, Loss, GoodRecord
  PROVE  Loss'
<1>0. PICK q : q = Intact
  OBVIOUS
<1> DEFINE type == phys[q].type
<1>1. /\ reading = "yes" /\ reading' = reading /\ bufferEnd - pos >= HeaderSize /\ Intact # 0
      /\ pos' = pos + HeaderSize + phys[q].len
      /\ CASE type = "full" ->
                    returned' = Append(returned, <<q>>) /\ inFragment' = FALSE /\ scratch' = <<>>
           [] type = "first" ->
                    inFragment' = TRUE /\ scratch' = <<q>> /\ UNCHANGED returned
           [] type = "middle" ->
                    /\ scratch' = IF inFragment THEN Append(scratch, q) ELSE scratch
                    /\ UNCHANGED <<inFragment, returned>>
           [] type = "last" ->
                    /\ returned' = IF inFragment THEN Append(returned, Append(scratch, q)) ELSE returned
                    /\ inFragment' = FALSE /\ scratch' = <<>>
      /\ UNCHANGED <<cells, phys, damaged, bufferEnd, eof_>>
  BY <1>0 DEF GoodRecord, writerVars
<1>2. /\ q \in 1..Len(phys) /\ phys[q].at = pos /\ type # "none"
      /\ EndOf(q) \in Nat /\ EndOf(q) <= bufferEnd /\ EndOf(q) > pos /\ pos' = EndOf(q)
  BY <1>0, <1>1, IntactIs DEF Reader
<1>3. /\ pos \in Nat /\ bufferEnd \in Nat /\ DOMAIN phys = 1..Len(phys) /\ Len(phys) \in Nat
      /\ \A p \in 1..Len(phys) : EndOf(p) \in Nat /\ phys[p].at \in Nat /\ EndOf(p) > phys[p].at /\ phys[p].rec \in Nat
      /\ returned \in Seq(Seq(Nat)) /\ q \in Nat
  <2>1. \A p \in 1..Len(phys) : EndOf(p) \in Nat /\ phys[p].at \in Nat /\ EndOf(p) >= phys[p].at + HeaderSize
    BY WrittenIs
  <2>2. HeaderSize \in Nat \ {0} /\ DOMAIN phys = 1..Len(phys) /\ Len(phys) \in Nat
    BY WrittenIs
  <2>3. \A p \in 1..Len(phys) : EndOf(p) > phys[p].at
    BY <2>1, <2>2
  <2>4. \A p \in 1..Len(phys) : phys[p].rec \in Nat
    BY PhysIs DEF Writer, PhysicalRecords
  <2>5. pos \in Nat /\ bufferEnd \in Nat /\ returned \in Seq(Seq(Nat))
    BY DEF Reader, ReaderTypes
  <2>6. q \in Nat
    BY <1>2, <2>2
  <2>7. QED
    BY <2>1, <2>2, <2>3, <2>4, <2>5, <2>6
<1>4. type \in {"full", "first", "middle", "last"}
  <2>1. type \in Opens \cup Closes \cup {"middle"}
    BY <1>2, PhysIs DEF Writer, PhysicalRecords
  <2>2. QED
    BY <1>2, <2>1 DEF Opens, Closes
<1>5. /\ RecordNumbers' = RecordNumbers /\ Written' = Written
      /\ \A p : EndOf(p)' = EndOf(p)
      /\ \A r : Good(r)' = Good(r)
      /\ \A s, r : Lists(s, r)' = Lists(s, r)
  BY <1>1, SameGood
<1>6. \A p \in 1..Len(phys) : (EndOf(p) <= pos <=> p < q) /\ (EndOf(p) <= pos' <=> p <= q)
                              /\ (pos < EndOf(p) <=> q <= p) /\ (pos' < EndOf(p) <=> q < p)
  <2> TAKE p \in 1..Len(phys)
  <2>1. p < q => EndOf(p) <= pos
    BY <1>2, <1>3 DEF Tiled
  <2>2. q < p => EndOf(q) <= phys[p].at
    BY <1>2, <1>3 DEF Tiled
  <2>3. EndOf(p) \in Nat /\ phys[p].at \in Nat /\ EndOf(p) > phys[p].at /\ p \in Nat /\ q \in Nat
    BY <1>2, <1>3
  <2>4. p = q => EndOf(p) = EndOf(q)
    OBVIOUS
  <2>5. QED
    BY <1>2, <1>3, <2>1, <2>2, <2>3, <2>4
\* What was returned still is, and what is returned now is the record of q.
<1>7. ASSUME NEW r, \E j \in DOMAIN returned : Lists(returned[j], r)
      PROVE  \E j \in DOMAIN returned' : Lists(returned'[j], r)
  <2>1. CASE returned' = returned
    BY <1>7, <2>1
  <2>2. ASSUME NEW u, returned' = Append(returned, u)
        PROVE  \A j \in DOMAIN returned : j \in DOMAIN returned' /\ returned'[j] = returned[j]
    BY <1>3, <2>2
  <2>3. QED
    BY <1>1, <1>4, <1>7, <2>1, <2>2
<1>8. ASSUME NEW u, returned' = Append(returned, u), NEW r, phys[u[1]].rec = r
      PROVE  \E j \in DOMAIN returned' : Lists(returned'[j], r)
  <2>1. Len(returned) + 1 \in DOMAIN returned' /\ returned'[Len(returned) + 1] = u
    BY <1>3, <1>8
  <2>2. Assembled(u)
    <3>1. (\A j \in DOMAIN returned : Whole(returned[j]))'
      BY DEF Reader, Handed
    <3>2. \A j \in DOMAIN returned' : Assembled(returned'[j])
      BY <1>1, <3>1 DEF Whole, Run, Assembled
    <3>3. QED
      BY <2>1, <3>2
  <2>3. Lists(u, r)
    BY <1>8, <2>2, AssembledIsARecord
  <2>4. QED
    BY <2>1, <2>3
\* A fragment that is not the first belongs to the record being put together.
<1>9. ASSUME NEW r \in RecordNumbers, Good(r), phys[q].rec = r, type \in {"middle", "last"}
      PROVE  inFragment /\ phys[scratch[1]].rec = r
  <2>1. q > 1 /\ phys[q - 1].rec = r
    BY <1>2, <1>3, <1>9 DEF Writer, RecordsInOrder
  <2>2. q - 1 \in 1..Len(phys) /\ q - 1 < q
    BY <1>2, <1>3, <2>1
  <2>3. EndOf(q - 1) <= pos /\ pos < EndOf(q)
    BY <1>2, <1>6, <2>2
  <2>4. QED
    BY <1>2, <1>3, <1>9, <2>1, <2>2, <2>3 DEF Loss, NoneLost
<1>10. inFragment => scratch \in Seq(Nat) /\ Len(scratch) \in Nat \ {0}
  BY RunIs DEF Reader, Collected
<1>11. inFragment => Append(scratch, q)[1] = scratch[1]
  BY <1>3, <1>10
<1>12. NoneLost'
  <2>1. SUFFICES ASSUME NEW r \in RecordNumbers, Good(r)
        PROVE  /\ (\A p \in DOMAIN phys : phys[p].rec = r => EndOf(p) <= pos')
                   => \E j \in DOMAIN returned' : Lists(returned'[j], r)
               /\ (\E p, z \in DOMAIN phys : phys[p].rec = r /\ phys[z].rec = r /\ EndOf(p) <= pos' /\ pos' < EndOf(z))
                   => inFragment' /\ phys[scratch'[1]].rec = r
    BY <1>1, <1>5 DEF NoneLost
  <2>2. ASSUME \A p \in DOMAIN phys : phys[p].rec = r => EndOf(p) <= pos'
        PROVE  \E j \in DOMAIN returned' : Lists(returned'[j], r)
    <3>1. CASE phys[q].rec # r
      <4>1. \A p \in 1..Len(phys) : phys[p].rec = r => EndOf(p) <= pos
        <5> TAKE p \in 1..Len(phys)
        <5> HAVE phys[p].rec = r
        <5>1. p <= q /\ p # q
          BY <1>3, <1>6, <2>2, <3>1
        <5>2. p < q
          BY <1>3, <5>1
        <5>3. QED
          BY <1>6, <5>2
      <4>2. QED
        BY <1>3, <1>7, <2>1, <4>1 DEF Loss, NoneLost
    <3>2. CASE phys[q].rec = r
      <4>1. PICK z \in DOMAIN phys : phys[z].rec = r /\ phys[z].type \in {"full", "last"}
        BY <2>1 DEF Good, Complete
      <4>2. z \in 1..Len(phys) /\ z <= q
        BY <1>3, <1>6, <2>2, <4>1
      <4>3. ~(z < q)
        <5>1. z < q => phys[z].rec < phys[q].rec
          BY <1>2, <1>3, <4>1, <4>2 DEF Writer, RecordsInOrder, Closes
        <5>2. phys[z].rec \in Nat
          BY <1>3, <4>2
        <5>3. QED
          BY <3>2, <4>1, <5>1, <5>2
      <4>4. z = q
        BY <1>2, <1>3, <4>2, <4>3
      <4>5. CASE type = "full"
        <5>1. returned' = Append(returned, <<q>>) /\ <<q>>[1] = q
          BY <1>1, <4>5
        <5>2. QED
          BY <1>8, <3>2, <5>1
      <4>6. CASE type = "last"
        <5>1. inFragment /\ phys[scratch[1]].rec = r
          BY <1>9, <2>1, <3>2, <4>6
        <5>2. returned' = Append(returned, Append(scratch, q)) /\ phys[Append(scratch, q)[1]].rec = r
          BY <1>1, <1>11, <4>6, <5>1
        <5>3. QED
          BY <1>8, <5>2
      <4>7. QED
        BY <4>1, <4>4, <4>5, <4>6
    <3>3. QED
      BY <3>1, <3>2
  <2>3. ASSUME NEW p \in DOMAIN phys, NEW z \in DOMAIN phys,
               phys[p].rec = r, phys[z].rec = r, EndOf(p) <= pos', pos' < EndOf(z)
        PROVE  inFragment' /\ phys[scratch'[1]].rec = r
    <3>1. p \in 1..Len(phys) /\ z \in 1..Len(phys) /\ p <= q /\ q < z
      BY <1>3, <1>6, <2>3
    <3>2. phys[q].rec < phys[z].rec \/ (type \notin Closes /\ phys[q].rec <= phys[z].rec)
      BY <1>2, <1>3, <3>1 DEF Writer, RecordsInOrder
    <3>3. phys[p].rec <= phys[q].rec
      <4>1. p < q => phys[p].rec <= phys[q].rec
        BY <1>2, <1>3, <3>1 DEF Writer, RecordsInOrder
      <4>2. p = q \/ p < q
        BY <1>3, <3>1
      <4>3. phys[q].rec \in Nat
        BY <1>2, <1>3
      <4>4. QED
        BY <4>1, <4>2, <4>3
    <3>4. phys[q].rec = r /\ type \notin Closes
      <4>1. phys[q].rec \in Nat /\ phys[p].rec \in Nat /\ phys[z].rec \in Nat
        BY <1>2, <1>3, <3>1
      <4>2. ~(phys[q].rec < phys[z].rec)
        BY <2>3, <3>3, <4>1
      <4>3. phys[q].rec = r
        BY <2>3, <3>2, <3>3, <4>1, <4>2
      <4>4. QED
        BY <3>2, <4>2, <4>3
    <3>5. type = "first" \/ type = "middle"
      BY <1>4, <3>4 DEF Closes
    <3>6. CASE type = "first"
      BY <1>1, <3>4, <3>6
    <3>7. CASE type = "middle"
      <4>1. inFragment /\ phys[scratch[1]].rec = r
        BY <1>9, <2>1, <3>4, <3>7
      <4>2. scratch' = Append(scratch, q) /\ inFragment' = inFragment
        BY <1>1, <3>7, <4>1
      <4>3. QED
        BY <1>11, <4>1, <4>2
    <3>8. QED
      BY <3>5, <3>6, <3>7
  <2>4. QED
    BY <2>2, <2>3
<1>13. BufferIs'
  <2>1. q \in Written
    BY <1>2, <1>3 DEF Written
  <2>2. \E z \in Written : pos' = EndOf(z)
    BY <1>2, <2>1
  <2>3. \A a \in BlockStarts : a <= pos => a <= pos'
    <3>1. \A a \in BlockStarts : a \in Nat
      BY BlocksAre
    <3>2. pos \in Nat /\ pos' \in Nat /\ pos <= pos'
      BY <1>2, <1>3
    <3>3. QED
      BY <3>1, <3>2
  <2>4. bufferEnd = 0 \/ \E a \in BlockStarts :
            /\ a <= pos' /\ a < bufferEnd /\ bufferEnd <= a + BlockSize
            /\ bufferEnd = a + BlockSize \/ eof_
    BY <1>1, <2>3 DEF Loss, BufferIs
  <2>5. QED
    BY <1>1, <1>5, <2>2, <2>4 DEF Loss, BufferIs
<1>14. AllPassed'
  BY <1>1 DEF AllPassed
<1>15. QED
  BY <1>12, <1>13, <1>14 DEF Loss

LEMMA NoLossStep ==
  ASSUME Writer, Reader, Writer', Reader', ~torn => Layout /\ Loss, [LogNext]_logVars, ~torn'
  PROVE  Layout' /\ Loss'
<1>1. ASSUME NEW n \in RecordSizes, BeginRecord(n) PROVE Layout' /\ Loss'
  <2>1. reading = "no" /\ reading' = reading /\ torn' = torn
        /\ UNCHANGED <<pos, bufferEnd, eof_, inFragment, scratch, returned>>
    BY <1>1 DEF BeginRecord, readerVars
  <2>2. Layout'
    BY <1>1, <2>1, BeginKeepsLayout
  <2>3. (pos = 0 /\ bufferEnd = 0 /\ ~eof_ /\ reading # "done")'
    BY <2>1 DEF Reader, ReaderTypes
  <2>4. Loss'
    BY <2>3, NothingRead, PTL DEF Reader
  <2>5. QED
    BY <2>2, <2>4
<1>2. ASSUME NEW k \in 0..BlockSize, NEW filled \in BOOLEAN, NEW ok \in BOOLEAN,
         EmitPhysicalRecord(k, filled, ok) PROVE Layout' /\ Loss'
  <2>1. /\ reading = "no" /\ reading' = reading /\ (torn => torn')
        /\ UNCHANGED <<pos, bufferEnd, eof_, inFragment, scratch, returned>>
    BY <1>2 DEF EmitPhysicalRecord, readerVars
  <2>2. Layout'
    BY <1>2, <2>1, EmitKeepsLayout
  <2>3. (pos = 0 /\ bufferEnd = 0 /\ ~eof_ /\ reading # "done")'
    BY <2>1 DEF Reader, ReaderTypes
  <2>4. Loss'
    BY <2>3, NothingRead, PTL DEF Reader
  <2>5. QED
    BY <2>2, <2>4
<1>3. ASSUME NEW n \in 0..Len(cells), Cut(n) PROVE Layout' /\ Loss'
  <2>1. /\ reading = "no" /\ reading' = "yes" /\ torn' = torn
        /\ UNCHANGED <<pos, bufferEnd, eof_, inFragment, scratch, returned>>
    BY <1>3 DEF Cut, readerVars
  <2>2. Layout'
    BY <1>3, <2>1, CutKeepsLayout DEF Layout
  <2>3. (pos = 0 /\ bufferEnd = 0 /\ ~eof_ /\ reading # "done")'
    BY <2>1 DEF Reader, ReaderTypes
  <2>4. Loss'
    BY <2>3, NothingRead, PTL DEF Reader
  <2>5. QED
    BY <2>2, <2>4
<1>4. ASSUME NEW i \in DOMAIN cells, Damage(i) PROVE Layout' /\ Loss'
  <2>1. /\ UNCHANGED <<cells, phys, blockOffset, left, torn, reading, readerVars>>
        /\ pos = 0 /\ bufferEnd = 0 /\ ~eof_ /\ reading = "yes"
    BY <1>4 DEF Damage
  <2>2. Layout'
    BY <2>1, LayoutStays
  <2>3. (pos = 0 /\ bufferEnd = 0 /\ ~eof_ /\ reading # "done")'
    BY <2>1 DEF readerVars
  <2>4. Loss'
    BY <2>3, NothingRead, PTL DEF Reader
  <2>5. QED
    BY <2>2, <2>4
<1>5. ASSUME Refill PROVE Layout' /\ Loss'
  <2>1. UNCHANGED <<cells, phys, blockOffset, torn, reading>>
    BY <1>5 DEF Refill, writerVars
  <2>2. QED
    BY <1>5, <2>1, LayoutStays, RefillLosesNone DEF Layout, Reader
<1>6. ASSUME EndOfFile PROVE Layout' /\ Loss'
  <2>1. UNCHANGED <<cells, phys, blockOffset, torn>> /\ reading' = "done"
    BY <1>6 DEF EndOfFile, writerVars
  <2>2. QED
    BY <1>6, <2>1, LayoutStays, EndOfFileLosesNone DEF Layout, Reader
<1>7. ASSUME BadRecord PROVE Layout' /\ Loss'
  <2>1. UNCHANGED <<cells, phys, blockOffset, torn, reading>>
    BY <1>7 DEF BadRecord, writerVars
  <2>2. QED
    BY <1>7, <2>1, LayoutStays, BadRecordLosesNone DEF Layout, Reader
<1>8. ASSUME GoodRecord PROVE Layout' /\ Loss'
  <2>1. UNCHANGED <<cells, phys, blockOffset, torn, reading>>
    BY <1>8 DEF GoodRecord, writerVars
  <2>2. QED
    BY <1>8, <2>1, LayoutStays, GoodRecordLosesNone DEF Layout
<1>9. ASSUME UNCHANGED logVars PROVE Layout' /\ Loss'
  <2>1. /\ UNCHANGED <<cells, phys, blockOffset, left, torn, damaged, reading>>
        /\ UNCHANGED <<pos, bufferEnd, eof_, inFragment, scratch, returned>>
    BY <1>9 DEF logVars, writerVars, readerVars
  <2>2. Layout'
    BY <2>1, LayoutStays
  <2>3. /\ RecordNumbers' = RecordNumbers /\ Written' = Written
        /\ \A p : EndOf(p)' = EndOf(p)
        /\ \A r : Good(r)' = Good(r)
        /\ \A s, r : Lists(s, r)' = Lists(s, r)
    BY <2>1, SameGood
  <2>4. (reading # "done" => BufferIs') /\ NoneLost' /\ AllPassed'
    BY <2>1, <2>3 DEF Loss, BufferIs, NoneLost, AllPassed
  <2>5. QED
    BY <2>1, <2>2, <2>4 DEF Loss
<1>10. ASSUME ReadFails PROVE Layout' /\ Loss'
  <2>1. UNCHANGED <<cells, phys, blockOffset, torn>> /\ reading' = "done"
    BY <1>10 DEF ReadFails, writerVars
  <2>2. QED
    BY <1>10, <2>1, LayoutStays, ReadFailsLosesNone DEF Layout, Reader
<1>11. QED
  BY <1>1, <1>2, <1>3, <1>4, <1>5, <1>6, <1>7, <1>8, <1>9, <1>10 DEF LogNext

LEMMA LogStartLayout ==
  ASSUME LogInit
  PROVE  Layout /\ Loss
<1>1. Writer /\ Reader
  BY LogStart
<1>2. Loss
  BY <1>1, NothingRead DEF LogInit, Reader
<1>3. phys = <<>> /\ Len(cells) = 0 /\ DOMAIN phys = {} /\ Written = {} /\ blockOffset = 0 /\ Len(phys) = 0
  BY DEF LogInit, Written
<1>4. Tiled
  BY <1>3 DEF Tiled
<1>5. WriterInBlock
  <2>1. LastWritten = 0
    BY <1>3 DEF LastWritten
  <2>2. QED
    BY <1>3, <2>1, BlocksAre DEF WriterInBlock
<1>6. QED
  BY <1>2, <1>4, <1>5 DEF Layout

LEMMA LossStaysLocal ==
  ASSUME Writer, Loss, reading = "done", bufferEnd = Len(cells), NEW r \in RecordNumbers, Complete(r),
         \A p \in DOMAIN phys : phys[p].rec = r =>
            /\ phys[p].at + HeaderSize + phys[p].len <= Len(cells)
            /\ \A i \in damaged : (i - 1) \div BlockSize # phys[p].at \div BlockSize
  PROVE  \E j \in DOMAIN returned : Lists(returned[j], r)
<1>1. Good(r)
  BY DEF Good, EndOf, Unharmed
<1>2. \A p \in DOMAIN phys : phys[p].rec = r => EndOf(p) <= pos
  <2> TAKE p \in DOMAIN phys
  <2> HAVE phys[p].rec = r
  <2>1. p \in Written /\ EndOf(p) <= Len(cells)
    BY <1>1, CompleteIsWritten DEF Good
  <2>2. QED
    BY <2>1 DEF Loss, AllPassed
<1>3. QED
  BY <1>1, <1>2 DEF Loss, NoneLost

\* While no append fails, a record is lost only to damage in one of its own
\* blocks, or because the file ends before it does: dropping the rest of the
\* buffer behind a bad record costs no other.
THEOREM LossStaysInItsBlocks == LogSpec => []LossIsLocal
<1> DEFINE LogInv == Writer /\ Reader /\ (~torn => Layout /\ Loss)
<1>1. LogInit => LogInv
  BY LogStart, LogStartLayout
<1>2. LogInv /\ [LogNext]_logVars => LogInv'
  BY LogStepKept, NoLossStep
<1>3. LogInv => LossIsLocal
  BY LossStaysLocal DEF LossIsLocal
<1>4. QED
  BY <1>1, <1>2, <1>3, PTL DEF LogSpec

-----------------------------------------------------------------------------
(* The composition.                                                        *)

\* A behaviour of the composition is one of each of its parts: the theorems
\* about a part are theorems about what the runs of the composition check.
THEOREM PartsAreParts == Spec => CompactionSpec /\ LockSpec /\ LogSpec /\ ListSpec
<1>1. Init => CompactionInit /\ LockInit /\ LogInit /\ ListInit
  BY DEF Init
<1>2. [Next]_partVars => [CompactionNext]_compactionVars
  BY DEF Next, LevelsStep, LockStep, LogStep, MemTableStep, partVars
<1>3. [Next]_partVars => [LockNext]_lockVars
  BY DEF Next, LevelsStep, LockStep, LogStep, MemTableStep, partVars
<1>4. [Next]_partVars => [LogNext]_logVars
  BY DEF Next, LevelsStep, LockStep, LogStep, MemTableStep, partVars
<1>5. [Next]_partVars => [ListNextState]_listVars
  BY DEF Next, LevelsStep, LockStep, LogStep, MemTableStep, partVars
<1>6. QED
  BY <1>1, <1>2, <1>3, <1>4, <1>5, PTL DEF Spec, CompactionSpec, LockSpec, LogSpec, ListSpec

\* Every part keeps its variables in their types, with manual compactions
\* too; no file is empty, so each has the ends that searches go by, and no
\* descriptor of the lock file is left behind.
THEOREM PartsTypes == Spec => []TypesOK
<1>1. CompactionTypeOK /\ LockTypeOK /\ ListTypeOK => TypesOK
  BY DEF TypesOK
<1>2. QED
  BY <1>1, PartsAreParts, CompactionTypes, LockTypes, ListTypes, PTL
=================================================================================
