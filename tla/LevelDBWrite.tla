---------------------------- MODULE LevelDBWrite ----------------------------
(***************************************************************************)
(* The write path of LevelDB's DBImpl: the queue of writers and its group  *)
(* commit, the write-ahead log, the two memtables, the background thread   *)
(* that flushes one of them to a table, the manifest, the deletion of old  *)
(* logs, and what opening the database makes of the files after a crash of *)
(* the process or of the machine.                                          *)
(*                                                                         *)
(* A batch is a number; batch 0 is the NULL batch with which CompactRange  *)
(* forces the memtable out.  An entry is <<sequence number, batch>>.  A    *)
(* memtable holds MemCap batches (write_buffer_size) and a group takes at  *)
(* most MaxGroup of them (max_size).  What tables hold is the union of     *)
(* what the manifest names; the number of level-0 files drives the two     *)
(* thresholds that hold writers back, and starts the compactions.          *)
(*                                                                         *)
(* The manifest is what VersionSet::Recover makes of the file.  A record   *)
(* of it that failed is there or not (a failed sync), or, with the fault   *)
(* "tear", is there in part: unnoticed as long as it is the last, but with *)
(* another record behind it the file is corrupt and DB::Open refuses it.   *)
(***************************************************************************)
EXTENDS Integers, Sequences, FiniteSets

CONSTANTS
    Threads,        \* threads that write
    MaxBatches,     \* bound: calls of Write
    MaxLogs,        \* bound: log files numbered 1..MaxLogs
    MemCap,         \* batches a memtable holds before it is full
    MaxGroup,       \* batches one group takes
    L0Compact, L0Slow, L0Stop,  \* kL0_CompactionTrigger and the two others
    CanSync,        \* callers may set WriteOptions.sync
    CanForce,       \* callers may call CompactRange
    Faults,         \* I/O that may fail: "append", "sync", "newlog",
                    \*   "table", "manifest", "tear"
    Crashes         \* what may happen: "process", "machine"

ASSUME WriteAssumption ==
    /\ MemCap \in Nat \ {0} /\ MaxGroup \in Nat \ {0}
    /\ L0Compact \in Nat \ {0} /\ L0Compact <= L0Slow /\ L0Slow <= L0Stop
    /\ CanSync \in BOOLEAN /\ CanForce \in BOOLEAN

VARIABLES
    queue,          \* writers_
    pc,             \* where each thread is
    req,            \* its Writer: batch and sync
    awake,          \* FALSE while it sleeps on its condition variable
    status,         \* the status a leader left for it, FALSE once read
    force, delay,   \* locals of the leader in MakeRoomForWrite, else FALSE
    group,          \* the batches the leader is writing
    mem, imm,       \* entries of the two memtables
    hasImm,         \* imm_ is not NULL
    lastSeq,        \* versions_->LastSequence()
    bg,             \* the background thread
    compacting,     \* files of level 0 it is compacting in DoCompactionWork
    bgError,        \* bg_error_ is not OK
    up,             \* "up", "opening" and "opened" (in DB::Open) or "down"
    logs,           \* the log files: records, how many are synced, torn
    logNo,          \* logfile_number_
    nextFile,       \* next_file_number_
    logNumber,      \* versions_->LogNumber(): older logs are obsolete
    manifest,       \* on disk: log number, next file, entries in tables
    halfEdit,       \* it ends with part of a record
    l0,             \* files of level 0 in the current version; behind an
                    \*   error, or when closed, in the version on disk
    ops,            \* batches handed out
    acked,          \* history: entries whose writer was told OK
    ackedSync       \* history: those of them written with sync

volatile == <<queue, pc, req, awake, status, force, delay, group, mem, imm,
              hasImm, bg, compacting, bgError>>
tables == <<manifest, halfEdit, l0>>
disk == <<logs, tables>>
history == <<ops, acked, ackedSync>>
vars == <<volatile, disk, lastSeq, logNo, nextFile, logNumber, up, history>>

\* Groups of unchanged variables.
writerVars == <<queue, pc, req, awake, status, force, delay, group>>
memVars == <<mem, imm, hasImm, lastSeq>>
bgVars == <<bg, compacting, bgError>>
numbers == <<logNo, nextFile, logNumber>>

NoReq == [id |-> 0, sync |-> FALSE]
EmptyLog == [recs |-> <<>>, synced |-> 0, torn |-> FALSE]

TypeOK ==
    /\ queue \in Seq(Threads) /\ Len(queue) <= Cardinality(Threads)
    /\ pc \in [Threads -> {"idle", "queued", "lead", "log", "sync", "mem", "done", "flush"}]
    /\ req \in [Threads -> [id : 0..MaxBatches, sync : BOOLEAN]]
    /\ awake \in [Threads -> BOOLEAN] /\ status \in [Threads -> BOOLEAN]
    /\ force \in BOOLEAN /\ delay \in BOOLEAN
    /\ group \in Seq(Threads)
    /\ mem \subseteq Nat \X (1..MaxBatches) /\ imm \subseteq Nat \X (1..MaxBatches)
    /\ hasImm \in BOOLEAN /\ lastSeq \in Nat
    /\ bg \in {"idle", "scheduled", "compact", "build", "manifest", "commit", "merged", "moved"}
    /\ compacting \in 0..l0 /\ bgError \in BOOLEAN
    /\ up \in {"up", "opening", "opened", "down"}
    /\ DOMAIN logs \subseteq 1..MaxLogs /\ logNo \in 0..MaxLogs /\ logNumber \in 0..logNo
    /\ nextFile \in Nat /\ l0 \in Nat
    /\ manifest.log \in 0..MaxLogs + 1 /\ manifest.next \in Nat /\ halfEdit \in BOOLEAN
    /\ ops \in 0..MaxBatches

-----------------------------------------------------------------------------
\* What the files hold.
Max0(S) == IF S = {} THEN 0 ELSE CHOOSE x \in S : \A y \in S : y <= x

RecordEntries(n, upTo) ==
    UNION {logs[n].recs[i].entries : i \in {j \in 1..upTo : logs[n].recs[j].readable}}

\* Mutant: an off-by-one in the choice of the logs to replay.
LiveLogsAfter == {n \in DOMAIN logs : n > manifest.log}

LiveLogs == {n \in DOMAIN logs : n >= manifest.log}

\* What opening the database finds: the tables of the manifest and every
\* record of the logs that are not older than the manifest's.
Recoverable ==
    manifest.entries \cup UNION {RecordEntries(n, Len(logs[n].recs)) : n \in LiveLogs}

\* What is left of it if the page cache is lost now.
Synced ==
    manifest.entries \cup UNION {RecordEntries(n, logs[n].synced) : n \in LiveLogs}

-----------------------------------------------------------------------------
\* MaybeScheduleCompaction, with the values its caller leaves behind.
NeedsCompaction(files) == files >= L0Compact
MaybeSchedule(thread, err, immutable, files) ==
    IF thread = "idle" /\ ~err /\ (immutable \/ NeedsCompaction(files))
        THEN "scheduled" ELSE thread

\* bg_cv_.SignalAll() wakes a leader and the threads of TEST_CompactMemTable.
OnSignal == {t \in Threads : pc[t] \in {"lead", "flush"}}
SignalAll == awake' = [t \in Threads |-> awake[t] \/ t \in OnSignal]

-----------------------------------------------------------------------------
(* Writers.                                                                *)

\* DBImpl::Write up to its first wait.  Only the head of the queue goes on.
Write(t, sync, null) ==
    /\ up = "up" /\ pc[t] = "idle"
    /\ sync => CanSync
    /\ null => CanForce /\ ~sync
    /\ ops < MaxBatches
    /\ ops' = ops + 1
    /\ req' = [req EXCEPT ![t] = [id |-> IF null THEN 0 ELSE ops + 1, sync |-> sync]]
    /\ pc' = [pc EXCEPT ![t] = "queued"]
    /\ awake' = [awake EXCEPT ![t] = queue = <<>>]
    /\ queue' = Append(queue, t)
    /\ UNCHANGED <<status, force, delay, group, memVars, bgVars, disk, numbers, up, acked, ackedSync>>

\* The head of the queue enters MakeRoomForWrite.
Lead(t) ==
    /\ up = "up" /\ pc[t] = "queued" /\ awake[t] /\ Head(queue) = t
    /\ pc' = [pc EXCEPT ![t] = "lead"]
    /\ force' = (req[t].id = 0)
    /\ delay' = (req[t].id # 0)
    /\ UNCHANGED <<queue, req, awake, status, group, memVars, bgVars, disk,
                   numbers, up, history>>

InRoom(t) == up = "up" /\ pc[t] = "lead" /\ awake[t]
Slowed == delay /\ l0 >= L0Slow
MemFull == Cardinality(mem) >= MemCap

\* Mutant: the leader stays on the queue.
FinishKeepsHead(t, g, ok) ==
    /\ pc' = [m \in Threads |-> IF m = t THEN "idle" ELSE pc[m]]
    /\ group' = <<>> /\ force' = FALSE /\ delay' = FALSE
    /\ UNCHANGED <<queue, req, awake, status>>

\* The end of Write: the leader takes its group off the queue, hands it its
\* status and wakes it, and wakes the new head; others may have been woken
\* before.
FinishWaking(t, g, ok, others) ==
    LET rest == SubSeq(queue, Len(g) + 1, Len(queue))
        members == {g[i] : i \in 1..Len(g)}
        wake == members \cup {rest[i] : i \in 1..(IF rest = <<>> THEN 0 ELSE 1)}
        after(m) == IF m # t THEN "done"
                    ELSE IF req[t].id = 0 /\ ok THEN "flush" ELSE "idle"
    IN  /\ queue' = rest
        /\ pc' = [m \in Threads |-> IF m \in members THEN after(m) ELSE pc[m]]
        /\ status' = [m \in Threads |-> IF m \in members \ {t} THEN ok ELSE status[m]]
        /\ awake' = [m \in Threads |-> awake[m] \/ m \in wake \cup others]
        /\ group' = <<>>
        /\ force' = FALSE /\ delay' = FALSE
        /\ UNCHANGED req
Finish(t, g, ok) == FinishWaking(t, g, ok, {})

\* An earlier background error fails the leader, and the leader alone.
RoomError(t) ==
    /\ InRoom(t) /\ bgError
    /\ Finish(t, <<t>>, FALSE)
    /\ UNCHANGED <<memVars, bgVars, disk, numbers, up, history>>

\* Close to the limit of level-0 files a write sleeps once, unlocked.
RoomDelay(t) ==
    /\ InRoom(t) /\ ~bgError /\ Slowed
    /\ delay' = FALSE
    /\ UNCHANGED <<queue, pc, req, awake, status, force, group, memVars, bgVars,
                   disk, numbers, up, history>>

\* No room, and the flush of the other memtable or the compaction of level
\* 0 has to come first: wait on bg_cv_.
RoomWait(t) ==
    /\ InRoom(t) /\ ~bgError /\ ~Slowed /\ (force \/ MemFull)
    /\ hasImm \/ l0 >= L0Stop
    /\ awake' = [awake EXCEPT ![t] = FALSE]
    /\ UNCHANGED <<queue, pc, req, status, force, delay, group, memVars, bgVars,
                   disk, numbers, up, history>>

\* Mutant: the flush of the other memtable is not waited for.
CanSwitchOver(t) ==
    /\ InRoom(t) /\ ~bgError /\ ~Slowed /\ (force \/ MemFull)
    /\ l0 < L0Stop

CanSwitch(t) ==
    /\ InRoom(t) /\ ~bgError /\ ~Slowed /\ (force \/ MemFull)
    /\ ~hasImm /\ l0 < L0Stop

\* A new log and a new memtable; the old memtable is handed to the
\* background thread.
RoomSwitch(t) ==
    /\ CanSwitch(t)
    /\ nextFile <= MaxLogs
    /\ nextFile' = nextFile + 1
    /\ logNo' = nextFile
    /\ logs' = [n \in DOMAIN logs \cup {nextFile} |->
                    IF n = nextFile THEN EmptyLog ELSE logs[n]]
    /\ imm' = mem /\ mem' = {} /\ hasImm' = TRUE
    /\ force' = FALSE
    /\ bg' = MaybeSchedule(bg, bgError, TRUE, l0)
    /\ UNCHANGED <<queue, pc, req, awake, status, delay, group, lastSeq, compacting,
                   bgError, tables, logNumber, up, history>>

\* The new log cannot be created: its number is given back.
RoomNoLog(t) ==
    /\ CanSwitch(t) /\ "newlog" \in Faults
    /\ Finish(t, <<t>>, FALSE)
    /\ UNCHANGED <<memVars, bgVars, disk, numbers, up, history>>

\* Mutant: a synced write joins any group.
JoinsAnySync(n) == Cardinality({i \in 1..n : req[queue[i]].id # 0}) <= MaxGroup

Batched(n) == Cardinality({i \in 1..n : req[queue[i]].id # 0})
\* BuildBatchGroup: the longest prefix of the queue that fits; a synced
\* write never joins a leader that does not sync; NULL batches join freely.
Joins(n) ==
    \A i \in 2..n :
        /\ req[queue[i]].sync => req[queue[1]].sync
        /\ req[queue[i]].id # 0 => Batched(i) <= MaxGroup
GroupSize == CHOOSE n \in 1..Len(queue) :
                Joins(n) /\ (n = Len(queue) \/ ~Joins(n + 1))

\* There is room: a NULL batch is done, any other starts its group.
RoomOk(t) ==
    /\ InRoom(t) /\ ~bgError /\ ~Slowed /\ ~force /\ ~MemFull
    /\ IF req[t].id = 0
        THEN Finish(t, <<t>>, TRUE)
        ELSE /\ group' = SubSeq(queue, 1, GroupSize)
             /\ pc' = [pc EXCEPT ![t] = "log"]
             /\ UNCHANGED <<queue, req, awake, status, force, delay>>
    /\ UNCHANGED <<memVars, bgVars, disk, numbers, up, history>>

\* The entries of the group: consecutive numbers, NULL batches left out.
GroupEntries ==
    LET place(i) == Cardinality({j \in 1..i : req[group[j]].id # 0})
    IN  {<<lastSeq + place(i), req[group[i]].id>> :
            i \in {j \in 1..Len(group) : req[group[j]].id # 0}}

\* Mutant: the record holds the batch of the leader, not that of its group.
AddLeaderRecord(ok, torn) ==
    LET own == {e \in GroupEntries : e[2] = req[group[1]].id}
    IN  logs' = [logs EXCEPT ![logNo] =
            [recs |-> Append(@.recs, [entries |-> own, readable |-> ok]),
             synced |-> @.synced, torn |-> torn]]

AddRecord(ok, torn) ==
    logs' = [logs EXCEPT ![logNo] =
        [recs |-> Append(@.recs, [entries |-> GroupEntries, readable |-> ok]),
         synced |-> @.synced, torn |-> torn]]

\* The group is one record of the log, written without the mutex.  Behind a
\* torn record of the same block it cannot be read back; it may also be the
\* first of a new block.
AppendRecord(t) ==
    /\ up = "up" /\ pc[t] = "log"
    /\ \/ ~logs[logNo].torn /\ AddRecord(TRUE, FALSE)
       \/ logs[logNo].torn /\ \E ok \in BOOLEAN : AddRecord(ok, ~ok)
    /\ pc' = [pc EXCEPT ![t] = IF req[t].sync THEN "sync" ELSE "mem"]
    /\ UNCHANGED <<queue, req, awake, status, force, delay, group, memVars, bgVars,
                   tables, numbers, up, history>>

\* Mutant: one number for the whole group.
AdvanceByOne == lastSeq' = lastSeq + 1

\* The sequence numbers of the group are used up, whatever its status.
Advance == lastSeq' = lastSeq + Cardinality(GroupEntries)

\* The append fails, leaving part of a record or none.
AppendFails(t) ==
    /\ up = "up" /\ pc[t] = "log" /\ "append" \in Faults
    /\ \/ AddRecord(FALSE, TRUE)
       \/ UNCHANGED logs
    /\ Advance
    /\ Finish(t, group, FALSE)
    /\ UNCHANGED <<mem, imm, hasImm, bgVars, tables, numbers, up,
                   history>>

\* The leader has the log to itself: the record goes in, or it fails.
WriteLog(t) == pc[t] = "log" /\ (AppendRecord(t) \/ AppendFails(t))

SyncLog(t) ==
    /\ up = "up" /\ pc[t] = "sync"
    /\ logs' = [logs EXCEPT ![logNo].synced = Len(logs[logNo].recs)]
    /\ pc' = [pc EXCEPT ![t] = "mem"]
    /\ UNCHANGED <<queue, req, awake, status, force, delay, group, memVars, bgVars,
                   tables, numbers, up, history>>

\* After a failed sync nobody knows what the log holds: all later writes
\* fail, and the first error wakes those who wait on bg_cv_.
SyncFails(t) ==
    /\ up = "up" /\ pc[t] = "sync" /\ "sync" \in Faults
    /\ bgError' = TRUE
    /\ Advance
    /\ FinishWaking(t, group, FALSE, IF bgError THEN {} ELSE OnSignal)
    /\ UNCHANGED <<mem, imm, hasImm, bg, compacting, disk, numbers, up,
                   history>>

\* The group goes into the memtable, still unlocked; then, locked, its
\* sequence numbers become visible and its writers are told OK.
InsertMem(t) ==
    /\ up = "up" /\ pc[t] = "mem"
    /\ mem' = mem \cup GroupEntries
    /\ Advance
    /\ acked' = acked \cup GroupEntries
    /\ ackedSync' = ackedSync \cup
        {e \in GroupEntries : \E i \in 1..Len(group) : req[group[i]] = [id |-> e[2], sync |-> TRUE]}
    /\ Finish(t, group, TRUE)
    /\ UNCHANGED <<imm, hasImm, bgVars, disk, numbers, up, ops>>

\* A member of somebody's group wakes up and returns.
Return(t) ==
    /\ up = "up" /\ pc[t] = "done" /\ awake[t]
    /\ pc' = [pc EXCEPT ![t] = IF req[t].id = 0 /\ status[t] THEN "flush" ELSE "idle"]
    /\ status' = [status EXCEPT ![t] = FALSE]
    /\ UNCHANGED <<queue, req, awake, force, delay, group, memVars, bgVars,
                   disk, numbers, up, history>>

\* TEST_CompactMemTable waits until there is no immutable memtable.
FlushWait(t) ==
    /\ up = "up" /\ pc[t] = "flush" /\ awake[t]
    /\ IF hasImm /\ ~bgError
        THEN awake' = [awake EXCEPT ![t] = FALSE] /\ UNCHANGED pc
        ELSE pc' = [pc EXCEPT ![t] = "idle"] /\ UNCHANGED awake
    /\ UNCHANGED <<queue, req, status, force, delay, group, memVars, bgVars, disk,
                   numbers, up, history>>

\* Who slept goes on when it is signalled.
WakeUp(t) == awake[t] /\ (Return(t) \/ FlushWait(t))

-----------------------------------------------------------------------------
(* The background thread.                                                  *)

\* Mutant: the broadcast at the end of BackgroundCall is forgotten.
BGDoneSilently(err, immutable, files) ==
    /\ bg' = MaybeSchedule("idle", err, immutable, files)
    /\ UNCHANGED awake

\* The end of BackgroundCall.
BGDone(err, immutable, files) ==
    /\ bg' = MaybeSchedule("idle", err, immutable, files)
    /\ SignalAll

\* A record of the manifest is written and synced.  Behind part of a record
\* it makes the file corrupt: no table and no log of it counts.
Unreadable == [log |-> MaxLogs + 1, next |-> 0, entries |-> {}]
WriteEdit(edit) == manifest' = IF halfEdit THEN Unreadable ELSE edit

\* That fails: the record is there, with its effect on the files of level 0,
\* or not, or in part.
EditFails(edit, files) ==
    \/ WriteEdit(edit) /\ l0' \in files /\ UNCHANGED halfEdit
    \/ UNCHANGED tables
    \/ "tear" \in Faults /\ WriteEdit(manifest) /\ halfEdit' = TRUE /\ UNCHANGED l0

\* BackgroundCall, unless an error stands: the memtable first ...
BGStart ==
    /\ up = "up" /\ bg = "scheduled"
    /\ \/ /\ bgError \/ (~hasImm /\ ~NeedsCompaction(l0))
          /\ BGDone(bgError, hasImm, l0)
          /\ UNCHANGED compacting
       \/ ~bgError /\ hasImm /\ bg' = "build" /\ UNCHANGED <<awake, compacting>>
       \/ /\ ~bgError /\ ~hasImm /\ NeedsCompaction(l0)
          /\ bg' = "compact" /\ compacting' \in 1..l0
          /\ UNCHANGED awake
    /\ UNCHANGED <<queue, pc, req, status, force, delay, group, memVars, bgError, disk,
                   numbers, up, history>>

\* DoCompactionWork flushes a memtable that appears under it, unless it has
\* come to the last key; after a failure it tries again at the next key
\* (bound: only while level 0 is within its limit).
BGFlushInside ==
    /\ up = "up" /\ bg = "compact" /\ hasImm
    /\ bgError => l0 <= L0Stop
    /\ bg' = "build"
    /\ UNCHANGED <<writerVars, memVars, compacting, bgError, disk, numbers, up, history>>

\* RecordBackgroundError: no background work and no write succeeds again.  A
\* flush inside a compaction lets that go on.
BGFails(after) ==
    /\ bgError' = TRUE
    /\ compacting' = IF after = "compact" THEN compacting ELSE 0
    /\ bg' = after /\ SignalAll
    /\ UNCHANGED <<queue, pc, req, status, force, delay, group, memVars, logs,
                   numbers, up, history>>
FlushFails == BGFails(IF compacting > 0 THEN "compact" ELSE "idle")

\* WriteLevel0Table, unlocked; the table is synced.
BuildTable ==
    /\ up = "up" /\ bg = "build"
    /\ \/ bg' = "manifest" /\ UNCHANGED <<writerVars, memVars, compacting, bgError,
                                disk, numbers, up, history>>
       \/ "table" \in Faults /\ FlushFails /\ UNCHANGED tables

\* LogAndApply: the edit names the table and the current log, unlocked.  The
\* table lands in level 0 or deeper.
NewManifest == [log |-> logNo, next |-> nextFile, entries |-> manifest.entries \cup imm]
FlushedFiles == IF imm = {} THEN {l0} ELSE {l0, l0 + 1}
LogAndApply ==
    /\ up = "up" /\ bg = "manifest"
    /\ \/ /\ WriteEdit(NewManifest)
          /\ bg' = "commit"
          /\ UNCHANGED <<writerVars, memVars, compacting, bgError, logs, halfEdit, l0,
                         numbers, up, history>>
       \/ "manifest" \in Faults /\ FlushFails /\ EditFails(NewManifest, FlushedFiles)

\* Locked again: the new version, the end of the immutable memtable, and
\* DeleteObsoleteFiles, which does nothing behind an error.
ObsoleteLogs == {n \in DOMAIN logs : n < logNumber'}
DeleteObsolete ==
    IF bgError THEN UNCHANGED logs
    ELSE logs' = [n \in DOMAIN logs \ ObsoleteLogs |-> logs[n]]
CommitFlush ==
    /\ up = "up" /\ bg = "commit"
    /\ imm' = {} /\ hasImm' = FALSE
    /\ logNumber' = logNo
    /\ l0' \in FlushedFiles
    /\ DeleteObsolete
    /\ IF compacting > 0 THEN bg' = "compact" /\ SignalAll ELSE BGDone(bgError, FALSE, l0')
    /\ UNCHANGED <<queue, pc, req, status, force, delay, group, mem, lastSeq, compacting,
                   bgError, manifest, halfEdit, logNo, nextFile, up, history>>

\* The merge of a compaction fails.
BGMergeFails ==
    /\ up = "up" /\ bg = "compact" /\ "table" \in Faults
    /\ BGFails("idle")
    /\ UNCHANGED tables

\* The edit of a compaction moves files down and keeps the log number of the
\* current version.
MovedManifest == [log |-> logNumber, next |-> nextFile, entries |-> manifest.entries]
ApplyMove(files, done) ==
    \/ /\ WriteEdit(MovedManifest)
       /\ bg' = done
       /\ UNCHANGED <<writerVars, memVars, compacting, bgError, logs, halfEdit, l0,
                      numbers, up, history>>
    \/ "manifest" \in Faults /\ BGFails("idle") /\ EditFails(MovedManifest, {l0 - files})

\* ... then level 0: a single file is moved, as long as nothing below is in
\* its way, and anything else is merged by DoCompactionWork, whose results
\* are installed even behind an error of a flush inside it.
BGMove ==
    /\ up = "up" /\ bg = "scheduled" /\ ~bgError /\ ~hasImm /\ NeedsCompaction(l0)
    /\ ApplyMove(1, "moved")
BGInstall ==
    /\ up = "up" /\ bg = "compact"
    /\ ApplyMove(compacting, "merged")

\* Locked again, the new version; only DoCompactionWork's end deletes files.
BGCompacted ==
    /\ up = "up" /\ bg \in {"merged", "moved"}
    /\ l0' = l0 - (IF bg = "moved" THEN 1 ELSE compacting)
    /\ compacting' = 0
    /\ UNCHANGED numbers
    /\ IF bg = "moved" THEN UNCHANGED logs ELSE DeleteObsolete
    /\ BGDone(bgError, hasImm, l0')
    /\ UNCHANGED <<queue, pc, req, status, force, delay, group, memVars, bgError,
                   manifest, halfEdit, up, history>>

-----------------------------------------------------------------------------
(* Crashes and DB::Open.                                                   *)

\* Files of level 0 in the version on disk.
FilesOnDisk ==
    IF bg = "commit" THEN FlushedFiles
    ELSE {l0 - (IF bg = "moved" THEN 1 ELSE IF bg = "merged" THEN compacting ELSE 0)}

Forget ==
    /\ queue' = <<>> /\ group' = <<>>
    /\ pc' = [t \in Threads |-> "idle"]
    /\ req' = [t \in Threads |-> NoReq]
    /\ awake' = [t \in Threads |-> TRUE]
    /\ status' = [t \in Threads |-> FALSE]
    /\ force' = FALSE /\ delay' = FALSE
    /\ mem' = {} /\ imm' = {} /\ hasImm' = FALSE
    /\ l0' \in FilesOnDisk
    /\ bg' = "idle" /\ compacting' = 0 /\ bgError' = FALSE
    /\ up' = "down"

\* The process dies, or DB::Open fails: what was handed to the operating
\* system stays.
ProcessCrash ==
    /\ "process" \in Crashes /\ up # "down" /\ nextFile < MaxLogs
    /\ Forget
    /\ UNCHANGED <<logs, manifest, halfEdit, lastSeq, numbers, history>>

\* The machine dies: each log keeps what was synced and perhaps more, and of
\* what was told OK only that is still promised.
MachineCrash ==
    /\ "machine" \in Crashes /\ up # "down" /\ nextFile < MaxLogs
    /\ Forget
    /\ \E keep \in [DOMAIN logs -> 0..MaxBatches] :
        /\ \A n \in DOMAIN logs : keep[n] \in logs[n].synced..Len(logs[n].recs)
        /\ logs' = [n \in DOMAIN logs |->
                [recs |-> SubSeq(logs[n].recs, 1, keep[n]), synced |-> keep[n],
                 torn |-> FALSE]]
    /\ acked' = ackedSync
    /\ UNCHANGED <<manifest, halfEdit, lastSeq, numbers, ops, ackedSync>>

\* The number for the new log: above all that were used.
FreshNumber == Max0({manifest.next + 1} \cup {n + 1 : n \in LiveLogs})
NewLogAs(new) ==
    /\ logNo' = new /\ nextFile' = new + 1
    /\ logs' = [n \in DOMAIN logs \cup {new} |-> IF n = new THEN EmptyLog ELSE logs[n]]

\* Mutant: the last sequence number is taken from the tables alone.
RecoverOldSequence ==
    /\ up = "down" /\ manifest # Unreadable
    /\ up' = "opening"
    /\ lastSeq' = Max0({e[1] : e \in manifest.entries})
    /\ logNumber' = manifest.log
    /\ NewLogAs(FreshNumber)
    /\ UNCHANGED <<volatile, tables, history>>

\* DB::Open: replay the manifest, unless it is corrupt, and the logs, create
\* the new log ...
Recover ==
    /\ up = "down" /\ manifest # Unreadable
    /\ up' = "opening"
    /\ lastSeq' = Max0({e[1] : e \in Recoverable})
    /\ logNumber' = manifest.log
    /\ NewLogAs(FreshNumber)
    /\ UNCHANGED <<volatile, tables, history>>

\* ... install, in a manifest of its own, the tables that the replay built: a
\* log whose records can be read makes one, and one more whenever the
\* memtable is full ...
Replayed(n) == {i \in 1..Len(logs[n].recs) : logs[n].recs[i].readable}
ReplayedLogs == {n \in LiveLogs : Replayed(n) # {}}
OpenInstall ==
    /\ up = "opening"
    /\ manifest' = [log |-> logNo, next |-> nextFile, entries |-> Recoverable]
    /\ halfEdit' = FALSE
    /\ logNumber' = logNo
    /\ \E built \in Cardinality(ReplayedLogs)..Cardinality(UNION {{n} \X Replayed(n) : n \in ReplayedLogs}) :
            l0' = l0 + built
    /\ up' = "opened"
    /\ UNCHANGED <<volatile, lastSeq, logs, logNo, nextFile, history>>

\* ... and delete what is obsolete.
Open ==
    /\ up = "opened"
    /\ up' = "up"
    /\ UNCHANGED numbers
    /\ DeleteObsolete
    /\ bg' = MaybeSchedule("idle", FALSE, FALSE, l0)
    /\ UNCHANGED <<writerVars, memVars, compacting, bgError, tables, history>>

-----------------------------------------------------------------------------
\* A new database: NewDB's manifest, and DB::Open's first log.
Init ==
    /\ queue = <<>> /\ group = <<>>
    /\ pc = [t \in Threads |-> "idle"]
    /\ req = [t \in Threads |-> NoReq]
    /\ awake = [t \in Threads |-> TRUE]
    /\ status = [t \in Threads |-> FALSE]
    /\ force = FALSE /\ delay = FALSE
    /\ mem = {} /\ imm = {} /\ hasImm = FALSE /\ lastSeq = 0
    /\ bg = "idle" /\ compacting = 0 /\ bgError = FALSE
    /\ up = "up"
    /\ logs = [n \in {1} |-> EmptyLog] /\ logNo = 1 /\ nextFile = 2 /\ logNumber = 1
    /\ manifest = [log |-> 1, next |-> 2, entries |-> {}] /\ halfEdit = FALSE
    /\ l0 = 0
    /\ ops = 0 /\ acked = {} /\ ackedSync = {}

WriterNext(t) ==
    \/ Lead(t) \/ RoomError(t) \/ RoomDelay(t) \/ RoomWait(t) \/ RoomSwitch(t)
    \/ RoomNoLog(t) \/ RoomOk(t) \/ WriteLog(t)
    \/ SyncLog(t) \/ SyncFails(t) \/ InsertMem(t) \/ WakeUp(t)

BGNext ==
    \/ BGStart \/ BGFlushInside \/ BuildTable \/ LogAndApply \/ CommitFlush
    \/ BGMergeFails \/ BGMove \/ BGInstall \/ BGCompacted

Next ==
    \/ \E t \in Threads, sync, null \in BOOLEAN : Write(t, sync, null)
    \/ \E t \in Threads : WriterNext(t)
    \/ BGNext
    \/ ProcessCrash \/ MachineCrash \/ Recover \/ OpenInstall \/ Open

Spec == Init /\ [][Next]_vars

\* A thread that can run does, and so does the background thread.
Fairness == (\A t \in Threads : WF_vars(WriterNext(t))) /\ WF_vars(BGNext)
FairSpec == Spec /\ Fairness

-----------------------------------------------------------------------------
\* A write that was told OK survives the death of the process (options.h:176:
\* "no writes will be lost even if sync==false"), whatever the flushes, log
\* switches, compactions and deletions of logs around it and the syncs, new
\* logs, tables and manifest records that fail; provided that no write to a
\* file stops halfway, neither an append to the log (the fault "append":
\* the records behind the torn one may be unreadable) nor one to the
\* manifest (the fault "tear": another record is written behind it).
AckedSurvive == acked \subseteq Recoverable

\* A write that was told OK with sync survives the death of the machine: no
\* synced write rides in a group whose leader does not sync, and a log is
\* not deleted before its entries are in a synced table.
SyncedSurvive == ackedSync \subseteq Synced

\* Write-ahead: whatever a memtable shows to readers, a reopening finds.
WriteAhead == up = "up" => mem \cup imm \subseteq Recoverable

\* What is told OK is readable until the process dies: the switch of
\* memtables and the commit of a flush leave no gap.
AckedReadable == up = "up" => acked \subseteq mem \cup imm \cup manifest.entries

\* Sequence numbers follow the order of the calls, across groups, failures
\* and recoveries, and none is used twice.
CallOrder == \A e, f \in Recoverable : e[1] <= f[1] <=> e[2] <= f[2]

\* The disk implements the durable log of the documentation.
Durable == INSTANCE DurableLog WITH content <- Recoverable, safe <- Synced
ImplementsDurableLog == Durable!Spec

\* Every write returns, with an error if need be: no wake-up is lost between
\* the writers, the full memtables, the limit of level 0 and the background
\* thread.
WritesReturn == \A t \in Threads : pc[t] # "idle" ~> pc[t] = "idle"
=============================================================================
