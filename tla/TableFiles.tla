------------------------------ MODULE TableFiles ------------------------------
(***************************************************************************)
(* The table files of LevelDB and everything that must agree about them:   *)
(* the directory, the versions with their reference counts, the outputs    *)
(* that are being written, the manifest, and the cache of open tables,     *)
(* while flushes run inside compactions, readers hold on to old versions,  *)
(* I/O fails and the process dies.                                         *)
(*                                                                         *)
(* A table is its number and the run of the process that wrote it: numbers *)
(* are used again after a crash.  Only the background thread builds and    *)
(* deletes tables; each step is what it does between two unlocks.  Levels, *)
(* logs and the torn record that a failed append leaves are not modelled   *)
(* here, and moves of a file between levels change none of this.           *)
(***************************************************************************)
EXTENDS Integers, Sequences, FiniteSets

CONSTANTS
    Readers,        \* threads in Get, or with an iterator
    Capacity,       \* tables that the cache holds open
    MaxNumber,      \* bound: file numbers
    MaxRuns         \* bound: lives of the process

ASSUME FilesAssumption == IsFiniteSet(Readers) /\ {Capacity, MaxNumber, MaxRuns} \subseteq Nat \ {0}

VARIABLES
    disk,           \* the tables in the directory
    versions,       \* the list of versions: their tables and refs_
    currentV,       \* current_
    nextNumber,     \* next_file_number_
    pendingOutputs, \* pending_outputs_
    manifests,      \* what the manifest may describe, should the process die
    bgFailed,       \* bg_error_ is set
    flushing,       \* CompactMemTable: where it is, its number, its base version
    merging,        \* DoCompactionWork: where it is, inputs, outputs, input version
    readers,        \* the version of each reader, the table it looks for, its handle
    lru,            \* the handles of the table cache, oldest first
    handles,        \* the handles that are not freed: their table and refs
    run,            \* lives of the process so far
    opened          \* DB::Open has returned

fileVars == <<disk, versions, currentV, nextNumber, pendingOutputs, manifests, bgFailed,
              flushing, merging, readers, lru, handles, run, opened>>
cacheVars == <<lru, handles>>
versionVars == <<versions, currentV>>
lifeVars == <<run, opened>>

Tables == [n : 1..MaxNumber, run : 1..MaxRuns]
NotRunning == [at |-> "no"]
NoReader == [v |-> 0, wants |-> {}, handle |-> 0]

FilesTypeOK ==
    /\ disk \subseteq Tables
    /\ \A v \in DOMAIN versions : versions[v].files \subseteq Tables /\ versions[v].refs > 0
    /\ \A h \in DOMAIN handles : handles[h].file \in Tables /\ handles[h].refs > 0
    /\ currentV \in DOMAIN versions
    /\ \A r \in Readers : readers[r].v = 0 \/ readers[r].v \in DOMAIN versions
    /\ pendingOutputs \subseteq 1..nextNumber - 1

LeastFree(used) == CHOOSE i \in 1..Cardinality(used) + 1 :
                        i \notin used /\ \A j \in 1..i - 1 : j \in used
Restricted(f, S) == [x \in S |-> f[x]]

\* The sequence without these elements (SelectSeq, which has no theorems).
Without(s, H) ==
    LET w[i \in 0..Len(s)] == IF i = 0 THEN <<>>
                              ELSE IF s[i] \in H THEN w[i - 1] ELSE Append(w[i - 1], s[i])
    IN  w[Len(s)]

-----------------------------------------------------------------------------
(* The list of versions.                                                   *)

Ref(vs, v) == [vs EXCEPT ![v].refs = @ + 1]
Unref(vs, v) ==
    IF vs[v].refs > 1 THEN [vs EXCEPT ![v].refs = @ - 1] ELSE Restricted(vs, DOMAIN vs \ {v})

\* AppendVersion: current_ moves on to a new version with these tables.
NewVersion(vs) == LeastFree(DOMAIN vs)
AppendVersion(vs, fs) ==
    Unref([v \in DOMAIN vs \cup {NewVersion(vs)} |->
                IF v = NewVersion(vs) THEN [files |-> fs, refs |-> 1] ELSE vs[v]], currentV)

-----------------------------------------------------------------------------
(* The table cache: its handles and their LRU order.                       *)

cache == [lru |-> lru, handles |-> handles]
Becomes(c) == lru' = c.lru /\ handles' = c.handles

Listed(c) == {c.lru[i] : i \in DOMAIN c.lru}
Cached(c, f) == {h \in Listed(c) : c.handles[h].file = f}

\* Mutant: the handle stays when its last reference goes.
ReleaseKeeps(c, h) == [c EXCEPT !.handles = [c.handles EXCEPT ![h].refs = @ - 1]]

\* LRUCache::Release: the last reference frees the handle.
Release(c, h) ==
    [c EXCEPT !.handles = IF c.handles[h].refs > 1 THEN [c.handles EXCEPT ![h].refs = @ - 1]
                          ELSE Restricted(c.handles, DOMAIN c.handles \ {h})]

\* Handles leave list and hash table, and lose the reference of the cache.
Delisted(c, H) ==
    [lru |-> Without(c.lru, H),
     handles |-> [h \in {g \in DOMAIN c.handles : g \notin H \/ c.handles[g].refs > 1} |->
                    [c.handles[h] EXCEPT !.refs = IF h \in H THEN @ - 1 ELSE @]]]

\* LRUCache::Lookup of a handle that is there.
Touched(c, h) ==
    [lru |-> Append(Without(c.lru, {h}), h),
     handles |-> [c.handles EXCEPT ![h].refs = @ + 1]]

\* The oldest handles go while too many are in use, whoever holds them.
Shrunk(c) ==
    LET oldest(k) == {c.lru[i] : i \in 1..k}
        full(k) == Cardinality(DOMAIN Delisted(c, oldest(k)).handles) > Capacity
    IN  Delisted(c, oldest(CHOOSE k \in 0..Len(c.lru) :
                                (full(k) => k = Len(c.lru)) /\ \A j \in 0..k - 1 : full(j)))

\* LRUCache::Insert: one reference for the cache and one for the caller; a
\* handle of the same table, which a second thread has opened, is replaced.
NewHandle(c) == LeastFree(DOMAIN c.handles)
Insert(c, f) ==
    LET h == NewHandle(c)
        added == [lru |-> Append(c.lru, h),
                  handles |-> [g \in DOMAIN c.handles \cup {h} |->
                                IF g = h THEN [file |-> f, refs |-> 2] ELSE c.handles[g]]]
    IN  Shrunk(Delisted(added, Cached(c, f)))

\* "Verify that the table is usable": it is cached from now on.
Verified(c, f) == Release(Insert(c, f), NewHandle(c))

-----------------------------------------------------------------------------
(* The directory and the manifest.                                         *)

\* NewWritableFile truncates what has the same number.
Truncating(f) == {g \in disk : g.n # f.n} \cup {f}

\* An edit, applied to all that the manifest may describe.
Logged(edit) ==
    {[files |-> (m.files \ edit.del) \cup edit.add, next |-> edit.next] : m \in manifests}

\* LogAndApply's record is there; or nobody knows.
ManifestWritten(edit) == manifests' = Logged(edit)
ManifestFails(edit) == manifests' \in {manifests, manifests \cup Logged(edit)}

\* Mutant: the outputs that are being written are not counted.
LiveNotPending(vs, pend) == UNION {vs[v].files : v \in DOMAIN vs}

\* AddLiveFiles, and the pending outputs.
Live(vs, pend) == (UNION {vs[v].files : v \in DOMAIN vs}) \cup {f \in disk : f.n \in pend}

\* Mutant: although an edit may or may not have been committed.
ObsoleteAlways(vs, pend) == disk \ Live(vs, pend)

\* Nothing is collected after an error.
Obsolete(vs, pend) == IF bgFailed' THEN {} ELSE disk \ Live(vs, pend)

DeleteObsoleteFiles(vs, pend) ==
    /\ disk' = disk \ Obsolete(vs, pend)
    /\ Becomes(Delisted(cache, UNION {Cached(cache, f) : f \in Obsolete(vs, pend)}))

-----------------------------------------------------------------------------
(* CompactMemTable, on its own or in the middle of a compaction; there it   *)
(* is tried again although it failed before.                               *)

StartFlush ==
    /\ opened /\ flushing = NotRunning /\ merging.at \in {"no", "reading", "writing"}
    /\ merging.at = "no" => ~bgFailed
    /\ nextNumber <= MaxNumber
    /\ nextNumber' = nextNumber + 1
    /\ pendingOutputs' = pendingOutputs \cup {nextNumber}
    /\ flushing' = [at |-> "building", n |-> nextNumber, base |-> currentV]
    /\ versions' = Ref(versions, currentV)
    /\ UNCHANGED <<disk, currentV, manifests, bgFailed, merging, readers, cacheVars, lifeVars>>

flushed == [n |-> flushing.n, run |-> run]
FlushEdit == [del |-> {}, add |-> {flushed}, next |-> nextNumber]

\* BuildTable, unlocked.
BuildTableFile ==
    /\ flushing.at = "building"
    /\ disk' = Truncating(flushed)
    /\ Becomes(Verified(cache, flushed))
    /\ flushing' = [flushing EXCEPT !.at = "built"]
    /\ UNCHANGED <<versionVars, nextNumber, pendingOutputs, manifests, bgFailed, merging, readers, lifeVars>>

\* ... fails: before it opens the file, or later, and then it deletes what bears
\* that name, an older file too.  Or the database is being closed once the table
\* is built, and the flush ends there.
BuildTableFails ==
    /\ \/ flushing.at = "building" /\ disk' \in {disk, {f \in disk : f.n # flushing.n}}
       \/ flushing.at = "built" /\ UNCHANGED disk
    /\ bgFailed' = TRUE
    /\ pendingOutputs' = pendingOutputs \ {flushing.n}
    /\ versions' = Unref(versions, flushing.base)
    /\ flushing' = NotRunning
    /\ UNCHANGED <<currentV, nextNumber, manifests, merging, readers, cacheVars, lifeVars>>

\* The table is no pending output any more when LogAndApply unlocks to write
\* the manifest.
FlushLogs ==
    /\ flushing.at = "built"
    /\ pendingOutputs' = pendingOutputs \ {flushing.n}
    /\ versions' = Unref(versions, flushing.base)
    /\ flushing' = [flushing EXCEPT !.at = "logging"]
    /\ UNCHANGED <<disk, currentV, nextNumber, manifests, bgFailed, merging, readers, cacheVars, lifeVars>>

FlushLogged ==
    /\ flushing.at = "logging"
    /\ ManifestWritten(FlushEdit)
    /\ versions' = AppendVersion(versions, versions[currentV].files \cup {flushed})
    /\ currentV' = NewVersion(versions)
    /\ UNCHANGED bgFailed
    /\ DeleteObsoleteFiles(versions', pendingOutputs)
    /\ flushing' = NotRunning
    /\ UNCHANGED <<nextNumber, pendingOutputs, merging, readers, lifeVars>>

FlushLogFails ==
    /\ flushing.at = "logging"
    /\ ManifestFails(FlushEdit)
    /\ bgFailed' = TRUE
    /\ flushing' = NotRunning
    /\ UNCHANGED <<disk, versionVars, nextNumber, pendingOutputs, merging, readers, cacheVars, lifeVars>>

-----------------------------------------------------------------------------
(* DoCompactionWork.                                                       *)

StartMerge(in) ==
    /\ opened /\ flushing = NotRunning /\ merging = NotRunning /\ ~bgFailed
    /\ in # {}
    /\ merging' = [at |-> "reading", in |-> in, out |-> {}, base |-> currentV]
    /\ versions' = Ref(versions, currentV)
    /\ UNCHANGED <<disk, currentV, nextNumber, pendingOutputs, manifests, bgFailed, flushing, readers, cacheVars, lifeVars>>

MergeRuns(at) == merging.at = at /\ flushing = NotRunning

\* OpenCompactionOutputFile.
OpenOutput ==
    /\ MergeRuns("reading")
    /\ nextNumber <= MaxNumber
    /\ nextNumber' = nextNumber + 1
    /\ pendingOutputs' = pendingOutputs \cup {nextNumber}
    /\ disk' = Truncating([n |-> nextNumber, run |-> run])
    /\ merging' = [merging EXCEPT !.at = "writing", !.out = @ \cup {[n |-> nextNumber, run |-> run]}]
    /\ UNCHANGED <<versionVars, manifests, bgFailed, flushing, readers, cacheVars, lifeVars>>

Newest(F) == CHOOSE f \in F : \A g \in F : g.n <= f.n

\* FinishCompactionOutputFile.
FinishOutput ==
    /\ MergeRuns("writing")
    /\ Becomes(Verified(cache, Newest(merging.out)))
    /\ merging' = [merging EXCEPT !.at = "reading"]
    /\ UNCHANGED <<disk, versionVars, nextNumber, pendingOutputs, manifests, bgFailed, flushing, readers, lifeVars>>

MergeEdit == [del |-> merging.in, add |-> merging.out, next |-> nextNumber]

\* InstallCompactionResults, up to the unlock of LogAndApply.
MergeLogs ==
    /\ MergeRuns("reading")
    /\ merging' = [merging EXCEPT !.at = "logging"]
    /\ UNCHANGED <<disk, versionVars, nextNumber, pendingOutputs, manifests, bgFailed, flushing, readers, cacheVars, lifeVars>>

\* Mutant: the outputs stay pending.
CleanupForgets(vs) ==
    /\ UNCHANGED pendingOutputs
    /\ versions' = Unref(vs, merging.base)
    /\ merging' = NotRunning

\* CleanupCompaction and ReleaseInputs.
Cleanup(vs) ==
    /\ pendingOutputs' = pendingOutputs \ {f.n : f \in merging.out}
    /\ versions' = Unref(vs, merging.base)
    /\ merging' = NotRunning

MergeLogged ==
    /\ MergeRuns("logging")
    /\ ManifestWritten(MergeEdit)
    /\ currentV' = NewVersion(versions)
    /\ UNCHANGED bgFailed
    /\ Cleanup(AppendVersion(versions, (versions[currentV].files \ merging.in) \cup merging.out))
    /\ DeleteObsoleteFiles(versions', pendingOutputs')
    /\ UNCHANGED <<nextNumber, flushing, readers, lifeVars>>

\* A failing input, output or manifest, or a shutdown.
MergeFails ==
    /\ merging # NotRunning /\ flushing = NotRunning
    /\ IF merging.at = "logging" THEN ManifestFails(MergeEdit) ELSE UNCHANGED manifests
    /\ bgFailed' = TRUE
    /\ Cleanup(versions)
    /\ DeleteObsoleteFiles(versions', pendingOutputs')
    /\ UNCHANGED <<currentV, nextNumber, flushing, readers, lifeVars>>

-----------------------------------------------------------------------------
(* Readers.                                                                *)

ReaderBegins(r) ==
    /\ opened /\ readers[r] = NoReader
    /\ readers' = [readers EXCEPT ![r].v = currentV]
    /\ versions' = Ref(versions, currentV)
    /\ UNCHANGED <<disk, currentV, nextNumber, pendingOutputs, manifests, bgFailed, flushing, merging, cacheVars, lifeVars>>

ReaderRests(r) == readers[r].v # 0 /\ readers[r].wants = {}

\* FindTable: in the cache, or not.
FindTable(r, f) ==
    /\ ReaderRests(r)
    /\ LET H == Cached(cache, f)
           h == CHOOSE h \in H : TRUE
       IN  /\ readers' = [readers EXCEPT ![r].wants = {f}, ![r].handle = IF H = {} THEN 0 ELSE h]
           /\ Becomes(IF H = {} THEN cache ELSE Touched(cache, h))
    /\ UNCHANGED <<disk, versionVars, nextNumber, pendingOutputs, manifests, bgFailed, flushing, merging, lifeVars>>

\* Not: the file is opened and inserted.
OpenTable(r) ==
    /\ readers[r].wants # {} /\ readers[r].handle = 0
    /\ readers[r].wants \subseteq disk
    /\ readers' = [readers EXCEPT ![r].handle = NewHandle(cache)]
    /\ Becomes(Insert(cache, CHOOSE f \in readers[r].wants : TRUE))
    /\ UNCHANGED <<disk, versionVars, nextNumber, pendingOutputs, manifests, bgFailed, flushing, merging, lifeVars>>

ReaderReleases(r) ==
    /\ readers[r].handle # 0
    /\ Becomes(Release(cache, readers[r].handle))
    /\ readers' = [readers EXCEPT ![r].wants = {}, ![r].handle = 0]
    /\ UNCHANGED <<disk, versionVars, nextNumber, pendingOutputs, manifests, bgFailed, flushing, merging, lifeVars>>

ReaderEnds(r) ==
    /\ ReaderRests(r)
    /\ versions' = Unref(versions, readers[r].v)
    /\ readers' = [readers EXCEPT ![r] = NoReader]
    /\ UNCHANGED <<disk, currentV, nextNumber, pendingOutputs, manifests, bgFailed, flushing, merging, cacheVars, lifeVars>>

-----------------------------------------------------------------------------
(* Death, and DB::Open.                                                    *)

\* VersionSet::Recover: the manifest itself takes the first number.
RecoverNumber(m) == m.next + 1

\* The process dies, and VersionSet::Recover reads what the manifest says.
DieAndRecover(m) ==
    /\ run < MaxRuns
    /\ run' = run + 1 /\ opened' = FALSE
    /\ manifests' = {m}
    /\ versions' = [v \in {1} |-> [files |-> m.files, refs |-> 1]] /\ currentV' = 1
    /\ nextNumber' = RecoverNumber(m)
    /\ pendingOutputs' = {} /\ bgFailed' = FALSE
    /\ flushing' = NotRunning /\ merging' = NotRunning
    /\ readers' = [r \in Readers |-> NoReader]
    /\ lru' = <<>> /\ handles' = [h \in {} |-> NoReader]
    /\ UNCHANGED disk

\* RecoverLogFile writes what it replays to a table (to one, here).
ReplayLog ==
    /\ ~opened /\ flushing = NotRunning
    /\ nextNumber <= MaxNumber
    /\ nextNumber' = nextNumber + 1
    /\ flushing' = [at |-> "replayed", n |-> nextNumber, base |-> currentV]
    /\ disk' = Truncating([n |-> nextNumber, run |-> run])
    /\ Becomes(Verified(cache, [n |-> nextNumber, run |-> run]))
    /\ UNCHANGED <<versionVars, pendingOutputs, manifests, bgFailed, merging, readers, lifeVars>>

\* The end of DB::Open: a new manifest, and everything obsolete goes.
OpenDB ==
    /\ ~opened /\ opened' = TRUE
    /\ LET now == versions[currentV].files \cup IF flushing = NotRunning THEN {} ELSE {flushed}
       IN  /\ manifests' = {[files |-> now, next |-> nextNumber]}
           /\ versions' = AppendVersion(versions, now)
    /\ currentV' = NewVersion(versions)
    /\ flushing' = NotRunning
    /\ UNCHANGED bgFailed
    /\ DeleteObsoleteFiles(versions', pendingOutputs)
    /\ UNCHANGED <<nextNumber, pendingOutputs, merging, readers, run>>

-----------------------------------------------------------------------------
FilesInit ==
    /\ disk = {} /\ nextNumber = 1 /\ pendingOutputs = {}
    /\ versions = [v \in {1} |-> [files |-> {}, refs |-> 1]] /\ currentV = 1
    /\ manifests = {[files |-> {}, next |-> 1]}
    /\ bgFailed = FALSE /\ flushing = NotRunning /\ merging = NotRunning
    /\ readers = [r \in Readers |-> NoReader]
    /\ lru = <<>> /\ handles = [h \in {} |-> NoReader]
    /\ run = 1 /\ opened = TRUE

FilesNext ==
    \/ StartFlush \/ BuildTableFile \/ BuildTableFails \/ FlushLogs \/ FlushLogged \/ FlushLogFails
    \/ \E in \in SUBSET versions[currentV].files : StartMerge(in)
    \/ OpenOutput \/ FinishOutput \/ MergeLogs \/ MergeLogged \/ MergeFails
    \/ \E r \in Readers : \/ ReaderBegins(r) \/ OpenTable(r) \/ ReaderReleases(r) \/ ReaderEnds(r)
                          \/ readers[r].v # 0 /\ \E f \in versions[readers[r].v].files : FindTable(r, f)
    \/ \E m \in manifests : DieAndRecover(m)
    \/ ReplayLog \/ OpenDB

FilesSpec == FilesInit /\ [][FilesNext]_fileVars

-----------------------------------------------------------------------------
\* Whatever a flush, a compaction with a flush inside it, or a failure
\* deletes: every table of a version that somebody holds is in the directory
\* as it was written, and a handle in use is alive and of the right table
\* (DeleteObsoleteFiles, pending_outputs_, Version::Unref, the LRU cache).
TablesFound ==
    /\ \A v \in DOMAIN versions : versions[v].files \subseteq disk
    /\ \A r \in Readers : readers[r].handle # 0 =>
        readers[r].handle \in DOMAIN handles /\ {handles[readers[r].handle].file} = readers[r].wants

\* "After a background error, we don't know whether a new version may or may
\* not have been committed, so we cannot safely garbage collect"
\* (db_impl.cc:220): whatever a reopening may find in the manifest, it finds
\* those tables, and no later life has written over them.
RecoverableFiles == \A m \in manifests : m.files \subseteq disk

\* When nobody reads, flushes or compacts, nothing is left behind: the only
\* version is the current one, no output is pending, and the cache holds at
\* most its capacity, each table once and none that is deleted.
NothingLeaks ==
    opened /\ flushing = NotRunning /\ merging = NotRunning /\ (\A r \in Readers : readers[r] = NoReader) =>
        /\ DOMAIN versions = {currentV} /\ versions[currentV].refs = 1
        /\ pendingOutputs = {}
        /\ Cardinality(DOMAIN handles) <= Capacity
        /\ \A h \in DOMAIN handles :
            /\ handles[h].refs = 1 /\ handles[h].file \in disk
            /\ Cached(cache, handles[h].file) = {h}
===============================================================================
