------------------------------ MODULE TableIndex ------------------------------
(***************************************************************************)
(* One table file of LevelDB: its blocks, the index of shortened keys that *)
(* the builder writes, and the two ways to read it, Table::InternalGet and *)
(* the two-level iterator, over blocks with restart points.                *)
(*                                                                         *)
(* A user key is a sequence of bytes, for an internal key a number is      *)
(* added.  A block ends after any entry (block_size is data here); inside  *)
(* it keys are whole: what the prefix compression drops it puts back.      *)
(* Without a filter, as the wrapper opens its databases; damaged blocks    *)
(* are not modelled.                                                       *)
(***************************************************************************)
EXTENDS Integers, Sequences

CONSTANTS
    MaxByte,            \* the byte 0xff
    UserStrings,        \* the user keys
    TopSeq,             \* kMaxSequenceNumber
    RestartInterval,    \* of a data block; an index block has 1
    MaxEntries          \* bound: entries of the table

ASSUME IndexAssumption ==
    /\ MaxByte \in Nat /\ UserStrings \subseteq Seq(0..MaxByte)
    /\ TopSeq \in Nat /\ {RestartInterval, MaxEntries} \subseteq Nat \ {0}

VARIABLES
    entries,        \* the internal keys, in the order they were added
    ends,           \* where the finished blocks end
    index,          \* the keys of the index block
    pendingIndex,   \* pending_index_entry
    closed,         \* Finish has returned
    it,             \* a TwoLevelIterator: index_iter_, its block, data_iter_
    place            \* what it should show: an entry, or 0

tableVars == <<entries, ends, index, pendingIndex, closed, it, place>>

TableKeys == [u : UserStrings, s : 1..TopSeq - 1]
LargestOf(S) == CHOOSE x \in S : \A y \in S : y <= x
SmallestOf(S) == CHOOSE x \in S : \A y \in S : x <= y

-----------------------------------------------------------------------------
(* Orders and shortened keys.                                              *)

\* Slice::compare
BytesBefore(a, b) ==
    \E i \in 1..Len(b) :
        /\ i <= Len(a) + 1 /\ \A j \in 1..i - 1 : a[j] = b[j]
        /\ i <= Len(a) => a[i] < b[i]

KeyBefore(x, y) == BytesBefore(x.u, y.u) \/ (x.u = y.u /\ x.s > y.s)

\* The string up to byte i, which is raised by one.
Raised(a, i) == Append(SubSeq(a, 1, i - 1), a[i] + 1)

\* BytewiseComparator::FindShortestSeparator
BytesSeparator(a, b) ==
    LET differ == {i \in 1..Len(a) : i <= Len(b) /\ a[i] # b[i]}
        i == SmallestOf(differ)
    IN  IF differ = {} \/ a[i] = MaxByte \/ a[i] + 1 >= b[i] THEN a ELSE Raised(a, i)

\* BytewiseComparator::FindShortSuccessor
BytesSuccessor(a) ==
    LET I == {i \in 1..Len(a) : a[i] # MaxByte}
    IN  IF I = {} THEN a ELSE Raised(a, SmallestOf(I))

\* Shorter and larger: it takes the first place of its user key.
Shortened(k, u) ==
    IF Len(u) < Len(k.u) /\ BytesBefore(k.u, u) THEN [u |-> u, s |-> TopSeq] ELSE k

\* InternalKeyComparator::FindShortSuccessor
FindShortSuccessor(k) == Shortened(k, BytesSuccessor(k.u))

\* Mutant: shortened without a look at the next block.
SeparatorUnlimited(k, limit) == FindShortSuccessor(k)

\* InternalKeyComparator::FindShortestSeparator
FindShortestSeparator(k, limit) == Shortened(k, BytesSeparator(k.u, limit.u))

-----------------------------------------------------------------------------
(* A block and its iterator: the entry it is at, and restart_index_.       *)

NoPos == [cur |-> 0, restart |-> 0]
Restarts(b, R) == 0..(Len(b) - 1) \div R
Point(i, R) == 1 + i * R

\* ParseNextKey, up to entry p.
Parsed(b, R, r, p) ==
    IF p > Len(b) THEN NoPos
    ELSE [cur |-> p, restart |-> LargestOf({r} \cup {i \in Restarts(b, R) : Point(i, R) < p})]

BlockFirst(b, R) == Parsed(b, R, 0, 1)
BlockLast(b, R) == Parsed(b, R, LargestOf(Restarts(b, R)), Len(b))
BlockNext(b, R, p) == Parsed(b, R, p.restart, p.cur + 1)

\* Mutant: back to a restart point that may be the entry itself.
BlockPrevStays(b, R, p) ==
    LET before == {i \in 0..p.restart : Point(i, R) <= p.cur}
        r == LargestOf(before)
    IN  IF p.cur = 1 THEN NoPos ELSE Parsed(b, R, r, LargestOf({Point(r, R), p.cur - 1}))

\* Back to a restart point before the entry, and on to the one before it.
BlockPrev(b, R, p) ==
    LET before == {i \in 0..p.restart : Point(i, R) < p.cur}
    IN  IF before = {} THEN NoPos
        ELSE LET r == LargestOf(before)
             IN  Parsed(b, R, r, LargestOf({Point(r, R), p.cur - 1}))

\* The binary search of Block::Iter::Seek.
LastRestartBefore(b, R, k) ==
    LET search[p \in Restarts(b, R) \X Restarts(b, R)] ==   \* p: left and right
            LET mid == (p[1] + p[2] + 1) \div 2
            IN  IF p[1] >= p[2] THEN p[1]
                ELSE IF KeyBefore(b[Point(mid, R)], k) THEN search[<<mid, p[2]>>]
                ELSE search[<<p[1], mid - 1>>]
    IN  search[<<0, LargestOf(Restarts(b, R))>>]

BlockSeek(b, R, k) ==
    LET r == LastRestartBefore(b, R, k)
        reached == {e \in Point(r, R)..Len(b) : ~KeyBefore(b[e], k)}
    IN  IF reached = {} THEN NoPos ELSE Parsed(b, R, r, SmallestOf(reached))

-----------------------------------------------------------------------------
(* Building.                                                               *)

\* TableBuilder::Add, and Flush when the block is full.
AddKey(k, full) ==
    /\ ~closed /\ Len(entries) < MaxEntries
    /\ entries # <<>> => KeyBefore(entries[Len(entries)], k)
    /\ index' = IF pendingIndex
                THEN Append(index, FindShortestSeparator(entries[Len(entries)], k)) ELSE index
    /\ entries' = Append(entries, k)
    /\ ends' = IF full THEN Append(ends, Len(entries')) ELSE ends
    /\ pendingIndex' = full
    /\ UNCHANGED <<closed, it, place>>

\* TableBuilder::Finish; a table without entries is abandoned.
FinishTable ==
    /\ ~closed /\ entries # <<>>
    /\ closed' = TRUE
    /\ ends' = IF pendingIndex THEN ends ELSE Append(ends, Len(entries))
    /\ index' = Append(index, FindShortSuccessor(entries[Len(entries)]))
    /\ pendingIndex' = FALSE
    /\ UNCHANGED <<entries, it, place>>

-----------------------------------------------------------------------------
(* Reading.                                                                *)

StartOf(n) == IF n = 1 THEN 0 ELSE ends[n - 1]
DataBlock(n) == SubSeq(entries, StartOf(n) + 1, ends[n])

\* The entry at a place of a block, or 0.
EntryAt(n, p) == IF n = 0 \/ p.cur = 0 THEN 0 ELSE StartOf(n) + p.cur

\* Table::InternalGet
InternalGet(k) ==
    LET n == BlockSeek(index, 1, k).cur
    IN  IF n = 0 THEN 0 ELSE EntryAt(n, BlockSeek(DataBlock(n), RestartInterval, k))

\* InitDataBlock: a block that is there already stays, and its iterator too.
InitDataBlock(i) ==
    IF i.data = i.index.cur THEN i ELSE [i EXCEPT !.data = i.index.cur, !.pos = NoPos]

\* The iterator of the block, if there is one, is moved.
InBlock(i, Move(_)) == IF i.data = 0 THEN i ELSE [i EXCEPT !.pos = Move(DataBlock(i.data))]

FirstIn(b) == BlockFirst(b, RestartInterval)
LastIn(b) == BlockLast(b, RestartInterval)

\* Mutant: the end of a block is the end.
SkipNothing(i) == i

\* SkipEmptyDataBlocksForward and -Backward: no block is empty, so one step
\* of the index is enough.
SkipForward(i) ==
    IF EntryAt(i.data, i.pos) # 0 \/ i.index.cur = 0 THEN i
    ELSE InBlock(InitDataBlock([i EXCEPT !.index = BlockNext(index, 1, i.index)]), FirstIn)
SkipBackward(i) ==
    IF EntryAt(i.data, i.pos) # 0 \/ i.index.cur = 0 THEN i
    ELSE InBlock(InitDataBlock([i EXCEPT !.index = BlockPrev(index, 1, i.index)]), LastIn)

\* A call of the iterator, and the entry it should then show.
Call(i, shown) ==
    /\ closed
    /\ it' = i /\ place' = shown
    /\ UNCHANGED <<entries, ends, index, pendingIndex, closed>>

\* The first entry that is not before k, or 0.
FirstFrom(k) ==
    LET E == {e \in DOMAIN entries : ~KeyBefore(entries[e], k)}
    IN  IF E = {} THEN 0 ELSE SmallestOf(E)

TableSeek(k) ==
    Call(SkipForward(InBlock(InitDataBlock([it EXCEPT !.index = BlockSeek(index, 1, k)]),
                             LAMBDA b : BlockSeek(b, RestartInterval, k))),
         FirstFrom(k))
TableSeekToFirst ==
    Call(SkipForward(InBlock(InitDataBlock([it EXCEPT !.index = BlockFirst(index, 1)]), FirstIn)), 1)
TableSeekToLast ==
    Call(SkipBackward(InBlock(InitDataBlock([it EXCEPT !.index = BlockLast(index, 1)]), LastIn)),
         Len(entries))

Shown == EntryAt(it.data, it.pos)

TableNext ==
    /\ Shown # 0
    /\ Call(SkipForward(InBlock(it, LAMBDA b : BlockNext(b, RestartInterval, it.pos))),
            IF place = Len(entries) THEN 0 ELSE place + 1)
TablePrev ==
    /\ Shown # 0
    /\ Call(SkipBackward(InBlock(it, LAMBDA b : BlockPrev(b, RestartInterval, it.pos))), place - 1)

-----------------------------------------------------------------------------
TableInit ==
    /\ entries = <<>> /\ ends = <<>> /\ index = <<>>
    /\ pendingIndex = FALSE /\ closed = FALSE
    /\ it = [index |-> NoPos, data |-> 0, pos |-> NoPos] /\ place = 0

TableNextState ==
    \/ \E k \in TableKeys, full \in BOOLEAN : AddKey(k, full)
    \/ FinishTable
    \/ \E k \in TableKeys : TableSeek(k)
    \/ TableSeekToFirst \/ TableSeekToLast \/ TableNext \/ TablePrev

TableSpec == TableInit /\ [][TableNextState]_tableVars

-----------------------------------------------------------------------------
\* Whatever keys are cut to for the index, a lookup finds the newest entry
\* of its key that is not too new, and it never finds a later entry in place
\* of an earlier one (Table::InternalGet, FindShortestSeparator).
GetFindsEntry ==
    closed => \A k \in TableKeys :
        LET e == FirstFrom(k)
        IN  /\ InternalGet(k) \in {0, e}
            /\ e # 0 /\ entries[e].u = k.u => InternalGet(k) = e

\* The two-level iterator is a cursor over all entries: after any sequence
\* of moves, across blocks and restart points, it shows the entry at the
\* place where it should be (TwoLevelIterator, Block::Iter).
TableIsACursor == closed => Shown = place
===============================================================================
