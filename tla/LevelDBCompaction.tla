-------------------------- MODULE LevelDBCompaction --------------------------
(***************************************************************************)
(* The levels of LevelDB's version set: where a flushed memtable lands,    *)
(* which files a compaction takes, which entries it drops, and how a read  *)
(* at a sequence number finds its way through memtable and levels while    *)
(* all that goes on.                                                       *)
(*                                                                         *)
(* A file is the set of its entries.  The files of level 0 may overlap and *)
(* form a sequence, oldest first; those of a deeper level form a set.  The *)
(* value of an entry is its sequence number.                               *)
(*                                                                         *)
(* Sizes are abstracted: in a small database (~BigData) nothing reaches a  *)
(* size limit, in a big one every comparison with one may go either way.   *)
(* The file with which an automatic compaction starts is any file: the     *)
(* code takes it by size, by a pointer that walks round the level, or by   *)
(* the seeks that reads have charged to it.                                *)
(***************************************************************************)
EXTENDS Integers, Sequences, FiniteSets

CONSTANTS
    Keys,           \* user keys, in comparator order
    MaxSeq,         \* bound: writes
    MaxSnapshots,   \* bound: live snapshots, in a small and in a big database
    NumLevels,      \* config::kNumLevels
    MaxMemCompactLevel, \* config::kMaxMemCompactLevel
    Deletes,        \* the kinds of writes: {FALSE} puts, {TRUE} deletions
    Sizes,          \* the databases: {FALSE} small, {TRUE} big
    Manual          \* callers may call CompactRange

ASSUME CompactionAssumption ==
    /\ Keys \subseteq Nat \ {0} /\ Keys # {} /\ IsFiniteSet(Keys)
    /\ MaxSeq \in Nat
    /\ Deletes \subseteq BOOLEAN /\ Sizes \subseteq BOOLEAN /\ Sizes # {}
    /\ MaxSnapshots \in [Sizes -> Nat]
    /\ NumLevels \in Nat /\ NumLevels >= 2
    /\ MaxMemCompactLevel \in 0..NumLevels - 2

VARIABLES
    BigData,        \* sizes may reach the limits
    mem,            \* entries not in any table
    l0,             \* level 0: files, oldest first
    lv,             \* the deeper levels: sets of files
    lastSeq,        \* versions_->LastSequence()
    snapshots,      \* numbers of the live snapshots
    comp,           \* the compaction that runs unlocked
    latest,         \* history: the last value written under each key
    frozen          \* history: what that was at each live snapshot

compactionVars == <<BigData, mem, l0, lv, lastSeq, snapshots, comp, latest, frozen>>

Entries == [k : Keys, s : 1..MaxSeq, del : BOOLEAN]
NoComp == [level |-> -1]

Level(n) == IF n = 0 THEN {l0[i] : i \in DOMAIN l0} ELSE lv[n]

CompactionTypeOK ==
    /\ mem \subseteq Entries
    /\ DOMAIN l0 = 1..Len(l0) /\ DOMAIN lv = 1..NumLevels - 1
    /\ \A n \in 0..NumLevels - 1 : \A f \in Level(n) : f # {} /\ f \subseteq Entries
    /\ lastSeq \in 0..MaxSeq
    /\ snapshots \subseteq 0..lastSeq
    /\ comp.level \in -1..NumLevels - 2

-----------------------------------------------------------------------------
(* Files and ranges.                                                       *)

\* InternalKeyComparator: by user key, then by descending sequence number.
Before(e, f) == e.k < f.k \/ (e.k = f.k /\ e.s > f.s)
Smallest(f) == CHOOSE e \in f : \A g \in f \ {e} : Before(e, g)
Largest(f) == CHOOSE e \in f : \A g \in f \ {e} : Before(g, e)

\* The user keys at the ends of a set of files (GetRange).
Lo(F) == CHOOSE k \in {e.k : e \in UNION F} : \A e \in UNION F : k <= e.k
Hi(F) == CHOOSE k \in {e.k : e \in UNION F} : \A e \in UNION F : k >= e.k

Overlaps(f, b, e) == Lo({f}) <= e /\ Hi({f}) >= b
OverlapInLevel(n, b, e) == \E f \in Level(n) : Overlaps(f, b, e)

\* Mutant: in level 0 the range is not widened by the files it meets.
GetOverlappingNarrow(n, b, e) == {f \in Level(n) : Overlaps(f, b, e)}

\* GetOverlappingInputs: in level 0 the range grows until no file sticks out.
GetOverlappingInputs(n, b, e) ==
    LET closed(lo, hi) == \A f \in Level(n) : Overlaps(f, lo, hi) => lo <= Lo({f}) /\ Hi({f}) <= hi
        grown == IF n # 0 THEN <<b, e>>
                 ELSE CHOOSE r \in Keys \X Keys :
                        /\ r[1] <= b /\ e <= r[2] /\ closed(r[1], r[2])
                        /\ \A q \in Keys \X Keys :
                            q[1] <= b /\ e <= q[2] /\ closed(q[1], q[2]) => q[1] <= r[1] /\ r[2] <= q[2]
    IN  {f \in Level(n) : Overlaps(f, grown[1], grown[2])}

-----------------------------------------------------------------------------
(* Reads.                                                                  *)

None == [k |-> 0, s |-> 0, del |-> TRUE]
NewestIn(f, k, s) ==
    LET C == {e \in f : e.k = k /\ e.s <= s}
    IN  IF C = {} THEN None ELSE CHOOSE e \in C : \A g \in C : g.s <= e.s

\* Mutant: level 0 from the oldest file to the newest.
OldestFirst(k, s) ==
    LET I == {i \in DOMAIN l0 : NewestIn(l0[i], k, s) # None}
    IN  IF I = {} THEN None ELSE NewestIn(l0[CHOOSE i \in I : \A j \in I : j >= i], k, s)

\* Level 0: the files whose range holds the key, from newest to oldest.
NewestFirst(k, s) ==
    LET I == {i \in DOMAIN l0 : NewestIn(l0[i], k, s) # None}
    IN  IF I = {} THEN None ELSE NewestIn(l0[CHOOSE i \in I : \A j \in I : j <= i], k, s)

\* A deeper level: only the first file that does not end before <<k, s>>.
FindFile(n, k, s) ==
    LET F == {f \in lv[n] : ~Before(Largest(f), [k |-> k, s |-> s])}
    IN  IF F = {} THEN {} ELSE CHOOSE f \in F : \A g \in F \ {f} : Before(Largest(f), Largest(g))
InLevel(n, k, s) ==
    LET f == FindFile(n, k, s)
    IN  IF f = {} \/ k < Smallest(f).k THEN None ELSE NewestIn(f, k, s)

\* DBImpl::Get at a sequence number: the memtable, then level by level; the
\* first entry found decides.
Get(k, s) ==
    LET at(n) == IF n = -1 THEN NewestIn(mem, k, s)
                 ELSE IF n = 0 THEN NewestFirst(k, s) ELSE InLevel(n, k, s)
        hits == {n \in -1..NumLevels - 1 : at(n) # None}
        e == IF hits = {} THEN None ELSE at(CHOOSE n \in hits : \A m \in hits : n <= m)
    IN  IF e.del THEN 0 ELSE e.s

-----------------------------------------------------------------------------
(* Writes, snapshots, flushes.                                             *)

Put(k, del) ==
    /\ lastSeq < MaxSeq
    /\ lastSeq' = lastSeq + 1
    /\ mem' = mem \cup {[k |-> k, s |-> lastSeq + 1, del |-> del]}
    /\ latest' = [latest EXCEPT ![k] = IF del THEN 0 ELSE lastSeq + 1]
    /\ UNCHANGED <<BigData, l0, lv, snapshots, comp, frozen>>

GetSnapshot ==
    /\ Cardinality(snapshots) < MaxSnapshots[BigData]
    /\ lastSeq \notin snapshots
    /\ snapshots' = snapshots \cup {lastSeq}
    /\ frozen' = [s \in snapshots' |-> IF s = lastSeq THEN latest ELSE frozen[s]]
    /\ UNCHANGED <<BigData, mem, l0, lv, lastSeq, comp, latest>>

ReleaseSnapshot(s) ==
    /\ snapshots' = snapshots \ {s}
    /\ frozen' = [t \in snapshots' |-> frozen[t]]
    /\ UNCHANGED <<BigData, mem, l0, lv, lastSeq, comp, latest>>

\* Mutant: the levels below 0 are not looked at.
PickLevelPastOverlap(b, e) == {IF OverlapInLevel(0, b, e) THEN 0 ELSE MaxMemCompactLevel}

\* PickLevelForMemTableOutput: as deep as nothing overlaps, in a big
\* database perhaps less deep for the sake of the grandparents.
PickLevelForMemTableOutput(b, e) ==
    LET free == {n \in 0..MaxMemCompactLevel : \A m \in 0..n : ~OverlapInLevel(m, b, e)}
    IN  IF free = {} THEN {0}
        ELSE IF BigData THEN free ELSE {CHOOSE n \in free : \A m \in free : m <= n}

\* CompactMemTable, also in the middle of a compaction.
Flush(n) ==
    /\ mem # {}
    /\ n \in PickLevelForMemTableOutput(Lo({mem}), Hi({mem}))
    /\ IF n = 0 THEN l0' = Append(l0, mem) /\ UNCHANGED lv
                ELSE lv' = [lv EXCEPT ![n] = @ \cup {mem}] /\ UNCHANGED l0
    /\ mem' = {}
    /\ UNCHANGED <<BigData, lastSeq, snapshots, comp, latest, frozen>>

-----------------------------------------------------------------------------
(* Compactions.                                                            *)

\* SetupOtherInputs: the overlapping files of the next level, and more files
\* of this one if that costs none of the next.
Inputs(n, in0) ==
    LET in1 == GetOverlappingInputs(n + 1, Lo(in0), Hi(in0))
        exp0 == GetOverlappingInputs(n, Lo(in0 \cup in1), Hi(in0 \cup in1))
        exp1 == GetOverlappingInputs(n + 1, Lo(exp0), Hi(exp0))
        grows == in1 # {} /\ Cardinality(exp0) > Cardinality(in0)
                    /\ Cardinality(exp1) = Cardinality(in1)
    IN  (IF grows THEN {<<exp0, exp1>>} ELSE {})
            \cup (IF ~grows \/ BigData THEN {<<in0, in1>>} ELSE {})

\* PickCompaction, from file f of level n.
Picks(n, f) == Inputs(n, IF n = 0 THEN GetOverlappingInputs(0, Lo({f}), Hi({f})) ELSE {f})

\* The sequence without these files (SelectSeq, which has no theorems).
Without(s, F) ==
    LET w[i \in 0..Len(s)] == IF i = 0 THEN <<>>
                              ELSE IF s[i] \in F THEN w[i - 1] ELSE Append(w[i - 1], s[i])
    IN  w[Len(s)]

\* A single file without anything below it moves down as it is.
TrivialMove(n, f) ==
    /\ comp = NoComp
    /\ <<{f}, {}>> \in Picks(n, f)
    /\ l0' = IF n = 0 THEN Without(l0, {f}) ELSE l0
    /\ lv' = [m \in DOMAIN lv |->
                IF m = n THEN lv[m] \ {f} ELSE IF m = n + 1 THEN lv[m] \cup {f} ELSE lv[m]]
    /\ UNCHANGED <<BigData, mem, lastSeq, snapshots, comp, latest, frozen>>

\* No reader will ever ask for less than this.
SmallestSnapshot ==
    IF snapshots = {} THEN lastSeq ELSE CHOOSE s \in snapshots : \A t \in snapshots : s <= t

\* DoCompactionWork up to the unlock: inputs, oldest snapshot and the
\* deeper levels of the input version are fixed.
Begin(n, in) ==
    comp' = [level |-> n, in0 |-> in[1], in1 |-> in[2], snap |-> SmallestSnapshot,
             deep |-> UNION {Level(m) : m \in n + 2..NumLevels - 1}]

StartCompaction(n, f) ==
    /\ comp = NoComp
    /\ \E in \in Picks(n, f) :
        /\ (Cardinality(in[1]) = 1 /\ in[2] = {}) => BigData
        /\ Begin(n, in)
    /\ UNCHANGED <<BigData, mem, l0, lv, lastSeq, snapshots, latest, frozen>>

\* VersionSet::CompactRange: every file of the level in the range; in a big
\* database the first ones of a deeper level.
StartManual(n, b, e) ==
    /\ Manual /\ comp = NoComp /\ b <= e
    /\ LET all == GetOverlappingInputs(n, b, e)
           firsts == {F \in (SUBSET all) \ {{}} :
                        \A f \in F, g \in all \ F : Before(Largest(f), Largest(g))}
       IN  \E in0 \in IF n > 0 /\ BigData THEN firsts ELSE {all} \ {{}} :
                \E in \in Inputs(n, in0) : Begin(n, in)
    /\ UNCHANGED <<BigData, mem, l0, lv, lastSeq, snapshots, latest, frozen>>

\* Mutant: a deletion marker is dropped although deeper levels hold the key.
DroppedAnyMarker(e) ==
    \/ \E g \in UNION (comp.in0 \cup comp.in1) : g.k = e.k /\ g.s > e.s /\ g.s <= comp.snap
    \/ e.del /\ e.s <= comp.snap

\* The loop of DoCompactionWork drops what a newer entry hides from every
\* snapshot, and deletions that have nothing left to hide.
Dropped(e) ==
    \/ \E g \in UNION (comp.in0 \cup comp.in1) : g.k = e.k /\ g.s > e.s /\ g.s <= comp.snap
    \/ /\ e.del /\ e.s <= comp.snap
       /\ ~\E f \in comp.deep : Overlaps(f, e.k, e.k)

Kept == {e \in UNION (comp.in0 \cup comp.in1) : ~Dropped(e)}

\* Mutant: a file is written even when every entry was dropped.
OutputsWithEmpty == {{Kept}}

\* The output files: one, or in a big database a cut anywhere in the order.
Outputs ==
    IF Kept = {} THEN {{}}
    ELSE {{Kept}} \cup
        IF ~BigData THEN {}
        ELSE {{{e \in Kept : ~Before(c, e)}, {e \in Kept : Before(c, e)}} :
                c \in Kept \ {Largest(Kept)}}

\* InstallCompactionResults.
FinishCompaction ==
    /\ comp # NoComp
    /\ \E out \in Outputs :
        lv' = [m \in DOMAIN lv |->
                IF m = comp.level THEN lv[m] \ comp.in0
                ELSE IF m = comp.level + 1 THEN (lv[m] \ comp.in1) \cup out
                ELSE lv[m]]
    /\ l0' = IF comp.level = 0 THEN Without(l0, comp.in0) ELSE l0
    /\ comp' = NoComp
    /\ UNCHANGED <<BigData, mem, lastSeq, snapshots, latest, frozen>>

-----------------------------------------------------------------------------
CompactionInit ==
    /\ BigData \in Sizes
    /\ mem = {} /\ l0 = <<>> /\ lv = [n \in 1..NumLevels - 1 |-> {}]
    /\ lastSeq = 0 /\ snapshots = {} /\ comp = NoComp
    /\ latest = [k \in Keys |-> 0] /\ frozen = [s \in {} |-> latest]

CompactionNext ==
    \/ \E k \in Keys, del \in Deletes : Put(k, del)
    \/ GetSnapshot
    \/ \E s \in snapshots : ReleaseSnapshot(s)
    \/ \E n \in 0..MaxMemCompactLevel : Flush(n)
    \/ \E n \in 0..NumLevels - 2 : \E f \in Level(n) : TrivialMove(n, f) \/ StartCompaction(n, f)
    \/ \E n \in 0..NumLevels - 2, b, e \in Keys : StartManual(n, b, e)
    \/ FinishCompaction

CompactionSpec == CompactionInit /\ [][CompactionNext]_compactionVars

-----------------------------------------------------------------------------
\* The files of a level below 0 do not overlap: the assertion of
\* MaybeAddFile (version_set.cc:756) and what its binary search relies on.
LevelsDisjoint ==
    \A n \in DOMAIN lv : \A f, g \in lv[n] :
        f # g => Before(Largest(f), Smallest(g)) \/ Before(Largest(g), Smallest(f))

\* "Entries never hop across levels.  Therefore we are guaranteed that if we
\* find data in an smaller level, later levels are irrelevant"
\* (version_set.cc:337): whatever is found first is the newest.
NewerAbove ==
    /\ \A n \in DOMAIN lv, i \in DOMAIN l0 : \A e \in l0[i], g \in UNION lv[n] : e.k = g.k => e.s > g.s
    /\ \A m, n \in DOMAIN lv : m < n =>
        \A e \in UNION lv[m], g \in UNION lv[n] : e.k = g.k => e.s > g.s

\* Flushes, moves and compactions change nothing that a read sees, neither
\* of the latest state nor of a live snapshot (db.h:94).
ReadsRight ==
    \A k \in Keys :
        /\ Get(k, lastSeq) = latest[k]
        /\ \A s \in snapshots : Get(k, s) = frozen[s][k]
=============================================================================
