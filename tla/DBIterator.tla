----------------------------- MODULE DBIterator -----------------------------
(***************************************************************************)
(* A LevelDB iterator: DBIter (db_iter.cc), which turns internal entries   *)
(* into user keys as of a sequence number, over a MergingIterator          *)
(* (merger.cc) of memtable and tables.  One step is one call of the        *)
(* program, or one turn of a loop inside it, which moves the merging       *)
(* iterator once; between steps, and in the one call that moves a child    *)
(* twice, other threads may write to the memtable the iterator stands on,  *)
(* which takes no lock.                                                    *)
(*                                                                         *)
(* The children are sorted sets of entries (an entry's value is its        *)
(* sequence number).  Child 1 is the memtable; the newer entry of a key is *)
(* in the earlier child.  The history variable cursor is where a cursor    *)
(* over the plain table of the snapshot would stand, 0 for nowhere.        *)
(***************************************************************************)
EXTENDS Integers, FiniteSets

CONSTANTS
    UserKeys,       \* user keys, in comparator order
    Children,       \* 1 for the memtable, and the tables
    StoredSeq,      \* entries when the iterator is made: numbers 1..StoredSeq
    MaxWrites       \* bound: writes while it lives

ASSUME IteratorAssumption ==
    /\ UserKeys \subseteq Nat \ {0} /\ IsFiniteSet(UserKeys)
    /\ Children \subseteq Nat \ {0} /\ 1 \in Children
    /\ StoredSeq \in Nat \ {0} /\ MaxWrites \in Nat

VARIABLES
    child,          \* the entries of each child
    sequence_,      \* what the iterator may see
    written,        \* the last sequence number
    at,             \* the position of each child
    current_,       \* the child the merging iterator stands on, 0 for none
    mergeDir,       \* MergingIterator::direction_
    direction_,     \* DBIter::direction_
    valid_,
    saved,          \* saved_key_ and saved_value_, as an entry
    loop,           \* the loop it is in: FindNextUserEntry, FindPrevUserEntry, Prev
    flag,           \* skipping, or value_type = kTypeDeletion
    cursor

iterVars == <<child, sequence_, written, at, current_, mergeDir, direction_, valid_,
              saved, loop, flag, cursor>>
dataVars == <<child, sequence_, written>>

IterEntries == [k : UserKeys, s : 1..StoredSeq + MaxWrites, del : BOOLEAN]
Nowhere == [k |-> 0, s |-> 0, del |-> TRUE]

IterTypeOK ==
    /\ child \in [Children -> SUBSET IterEntries]
    /\ at \in [Children -> IterEntries \cup {Nowhere}]
    /\ current_ \in Children \cup {0} /\ saved \in IterEntries \cup {Nowhere}
    /\ mergeDir \in {"forward", "reverse"} /\ direction_ \in {"forward", "reverse"}
    /\ loop \in {"none", "next", "prev", "back"}
    /\ current_ = 0 => loop \in {"none", "prev"}

-----------------------------------------------------------------------------
(* The children and the merging iterator.                                  *)

Precedes(e, f) == e.k < f.k \/ (e.k = f.k /\ e.s > f.s)
First(F) == IF F = {} THEN Nowhere ELSE CHOOSE e \in F : \A f \in F \ {e} : Precedes(e, f)
Last(F) == IF F = {} THEN Nowhere ELSE CHOOSE e \in F : \A f \in F \ {e} : Precedes(f, e)
After(c, e) == First({f \in child[c] : Precedes(e, f)})
Prior(c, e) == Last({f \in child[c] : Precedes(f, e)})

Standing(pos) == {c \in Children : pos[c] # Nowhere}
FindSmallest(pos) ==
    IF Standing(pos) = {} THEN 0
    ELSE CHOOSE c \in Standing(pos) : pos[c] = First({pos[d] : d \in Standing(pos)})
FindLargest(pos) ==
    IF Standing(pos) = {} THEN 0
    ELSE CHOOSE c \in Standing(pos) : pos[c] = Last({pos[d] : d \in Standing(pos)})

Forward(pos) == at' = pos /\ current_' = FindSmallest(pos) /\ mergeDir' = "forward"
Reverse(pos) == at' = pos /\ current_' = FindLargest(pos) /\ mergeDir' = "reverse"

entry == at[current_]

\* Mutant: a change of direction leaves the other children where they are.
MergeNextOnly == Forward([at EXCEPT ![current_] = After(current_, entry)])

\* MergingIterator::Next and Prev: the other children are placed beside the
\* current entry when the direction changes.
MergeNext ==
    Forward([c \in Children |-> IF c = current_ \/ mergeDir = "reverse" THEN After(c, entry) ELSE at[c]])
MergePrev ==
    Reverse([c \in Children |-> IF c = current_ \/ mergeDir = "forward" THEN Prior(c, entry) ELSE at[c]])
MergeFirst == Forward([c \in Children |-> First(child[c])])
MergeLast == Reverse([c \in Children |-> Last(child[c])])
MergeSeek(e) == Forward([c \in Children |-> First({f \in child[c] : ~Precedes(f, e)})])
MergeStays == UNCHANGED <<at, current_, mergeDir>>

-----------------------------------------------------------------------------
(* The table of the snapshot, and a cursor over it.                        *)

Visible(k) == {e \in UNION {child[c] : c \in Children} : e.k = k /\ e.s <= sequence_}
Shows(k) == Visible(k) # {} /\ ~First(Visible(k)).del
Table == {k \in UserKeys : Shows(k)}
Least(S) == IF S = {} THEN 0 ELSE CHOOSE k \in S : \A j \in S : k <= j
Greatest(S) == IF S = {} THEN 0 ELSE CHOOSE k \in S : \A j \in S : k >= j

-----------------------------------------------------------------------------
(* DBIter.                                                                 *)

\* A call ends: valid_ and what was saved.
Ends(v, e) == loop' = "none" /\ valid_' = v /\ saved' = e /\ UNCHANGED flag
\* A call goes on in a loop.
Enters(l, f) == loop' = l /\ flag' = f /\ UNCHANGED valid_

\* The common end of Seek and SeekToFirst.  What saved_key_ holds from before
\* is never looked at: nothing is skipped until an entry has been saved.
FindFirst ==
    /\ direction_' = "forward"
    /\ IF current_' = 0 THEN Ends(FALSE, Nowhere) ELSE Enters("next", FALSE) /\ saved' = Nowhere
    /\ UNCHANGED dataVars

Seek(target) ==
    /\ loop = "none"
    /\ MergeSeek([k |-> target, s |-> sequence_])
    /\ FindFirst
    /\ cursor' = Least({k \in Table : k >= target})

SeekToFirst ==
    /\ loop = "none"
    /\ MergeFirst
    /\ FindFirst
    /\ cursor' = Least(Table)

SeekToLast ==
    /\ loop = "none"
    /\ MergeLast
    /\ direction_' = "reverse"
    /\ Enters("prev", TRUE)
    /\ saved' = Nowhere
    /\ cursor' = Greatest(Table)
    /\ UNCHANGED dataVars

NextKey ==
    /\ loop = "none" /\ valid_
    /\ direction_' = "forward"
    /\ IF direction_ = "forward"
        THEN MergeStays /\ Enters("next", TRUE) /\ saved' = entry
        ELSE /\ IF current_ = 0 THEN MergeFirst ELSE MergeNext
             /\ IF current_' = 0 THEN Ends(FALSE, Nowhere) ELSE Enters("next", TRUE) /\ UNCHANGED saved
    /\ cursor' = Least({k \in Table : k > cursor})
    /\ UNCHANGED dataVars

\* One turn of FindNextUserEntry.
NextTurn ==
    /\ loop = "next"
    /\ LET sees == entry.s <= sequence_
           hides == flag /\ entry.k <= saved.k
       IN  IF sees /\ ~entry.del /\ ~hides
            THEN MergeStays /\ Ends(TRUE, Nowhere)
            ELSE /\ MergeNext
                 /\ IF current_' = 0 THEN Ends(FALSE, Nowhere)
                    ELSE IF sees /\ entry.del THEN Enters("next", TRUE) /\ saved' = entry
                    ELSE UNCHANGED <<loop, flag, valid_, saved>>
    /\ UNCHANGED <<direction_, cursor>> /\ UNCHANGED dataVars

PrevKey ==
    /\ loop = "none" /\ valid_
    /\ IF direction_ = "forward"
        THEN Enters("back", TRUE) /\ saved' = entry
        ELSE Enters("prev", TRUE) /\ UNCHANGED saved
    /\ MergeStays
    /\ cursor' = Greatest({k \in Table : k < cursor})
    /\ UNCHANGED direction_ /\ UNCHANGED dataVars

\* The loop in Prev, which leaves the entries of the key.
LeavesKey ==
    IF current_' = 0 THEN Ends(FALSE, Nowhere) /\ UNCHANGED direction_
    ELSE IF at'[current_'].k < saved.k
        THEN Enters("prev", TRUE) /\ direction_' = "reverse" /\ UNCHANGED saved
    ELSE UNCHANGED <<loop, flag, valid_, saved, direction_>>

\* One turn of it.
BackTurn ==
    /\ loop = "back"
    /\ MergePrev
    /\ LeavesKey
    /\ UNCHANGED cursor /\ UNCHANGED dataVars

Writing(k, del) == [k |-> k, s |-> written + 1, del |-> del]

\* Another thread writes into the memtable.
Writes(k, del) ==
    /\ written < StoredSeq + MaxWrites
    /\ written' = written + 1
    /\ child' = [child EXCEPT ![1] = @ \cup {Writing(k, del)}]
    /\ UNCHANGED sequence_

\* Another thread writes in the midst of a turn: to change its direction the
\* iterator of the memtable is set to the current entry or behind it and, in
\* a second call, back by one; it comes to stand on what has been written in
\* between, although that lies behind the current entry.
BackTurnBeside(k, del) ==
    /\ loop = "back" /\ mergeDir = "forward" /\ current_ # 1
    /\ Precedes(entry, Writing(k, del))
    /\ \A f \in child[1] : Precedes(entry, f) => Precedes(Writing(k, del), f)
    /\ Writes(k, del)
    /\ Reverse([c \in Children |-> IF c = 1 THEN Writing(k, del) ELSE Prior(c, entry)])
    /\ LeavesKey
    /\ UNCHANGED cursor

\* The end of FindPrevUserEntry.
PrevEnds(deletion) ==
    IF deletion THEN Ends(FALSE, Nowhere) /\ direction_' = "forward"
                ELSE Ends(TRUE, saved) /\ UNCHANGED direction_

\* Mutant: stops at the first entry of an earlier key, though it is deleted.
PrevTurnStops ==
    /\ loop = "prev"
    /\ IF current_ = 0 \/ (saved # Nowhere /\ entry.k < saved.k)
        THEN PrevEnds(flag) /\ MergeStays
        ELSE /\ IF entry.s <= sequence_
                THEN flag' = entry.del /\ saved' = IF entry.del THEN Nowhere ELSE entry
                ELSE UNCHANGED <<flag, saved>>
             /\ MergePrev
             /\ UNCHANGED <<loop, valid_, direction_>>
    /\ UNCHANGED cursor /\ UNCHANGED dataVars

\* One turn of FindPrevUserEntry: up to the newest visible entry of a key
\* that is not deleted, and one entry further.
PrevTurn ==
    /\ loop = "prev"
    /\ IF current_ = 0 \/ (entry.s <= sequence_ /\ ~flag /\ entry.k < saved.k)
        THEN PrevEnds(flag) /\ MergeStays
        ELSE /\ IF entry.s <= sequence_
                THEN flag' = entry.del /\ saved' = IF entry.del THEN Nowhere ELSE entry
                ELSE UNCHANGED <<flag, saved>>
             /\ MergePrev
             /\ UNCHANGED <<loop, valid_, direction_>>
    /\ UNCHANGED cursor /\ UNCHANGED dataVars

\* ... or between two turns.
WriteBeside(k, del) ==
    /\ Writes(k, del)
    /\ UNCHANGED <<at, current_, mergeDir, direction_, valid_, saved, loop, flag, cursor>>

-----------------------------------------------------------------------------
\* Some database: where each entry is, and which of them a snapshot shows.
IterInit ==
    /\ \E home \in [1..StoredSeq -> Children], keyOf \in [1..StoredSeq -> UserKeys],
          dels \in SUBSET (1..StoredSeq) :
        /\ \A s, t \in 1..StoredSeq : s < t /\ keyOf[s] = keyOf[t] => home[t] <= home[s]
        /\ child = [c \in Children |-> {[k |-> keyOf[s], s |-> s, del |-> s \in dels] :
                                            s \in {t \in 1..StoredSeq : home[t] = c}}]
    /\ sequence_ \in StoredSeq - 1..StoredSeq
    /\ written = StoredSeq
    /\ at = [c \in Children |-> Nowhere] /\ current_ = 0
    /\ mergeDir = "forward" /\ direction_ = "forward"
    /\ valid_ = FALSE /\ saved = Nowhere /\ loop = "none" /\ flag = FALSE /\ cursor = 0

IterNext ==
    \/ \E k \in UserKeys : Seek(k)
    \/ SeekToFirst \/ SeekToLast \/ NextKey \/ PrevKey
    \/ NextTurn \/ BackTurn \/ PrevTurn
    \/ \E k \in UserKeys, del \in BOOLEAN : WriteBeside(k, del) \/ BackTurnBeside(k, del)

IterSpec == IterInit /\ [][IterNext]_iterVars

-----------------------------------------------------------------------------
\* "the internal iterator is positioned at the exact entry that yields
\* this->key()" and, in reverse, "just before all entries whose user key ==
\* this->key()" (db_iter.cc:42-45): after any calls in any order, with
\* changes of direction and writes beside them, the iterator shows the key
\* and the value of a cursor over the snapshot's table.
IteratorIsACursor ==
    loop = "none" =>
        /\ valid_ <=> cursor # 0
        /\ valid_ /\ direction_ = "forward" => entry = First(Visible(cursor))
        /\ valid_ /\ direction_ = "reverse" =>
            /\ saved = First(Visible(cursor))
            /\ current_ # 0 => entry.k < cursor
=============================================================================
