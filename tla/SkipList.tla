------------------------------ MODULE SkipList ------------------------------
(***************************************************************************)
(* LevelDB's memtable (skiplist.h): one writer at a time links nodes,      *)
(* level by level, while readers walk the list without a lock.             *)
(*                                                                         *)
(* A node is its key; the head is 0 and NULL, which sorts after all keys,  *)
(* is Inf.  Links are read and written one at a time, as their acquire     *)
(* loads and release stores order them; max_height_ has no barrier, and a  *)
(* reader may find any value it ever had.  Readers do not disturb each     *)
(* other, so one of them is enough.                                        *)
(***************************************************************************)
EXTENDS Integers

CONSTANTS
    ListKeys,       \* the keys that may be inserted, within 1..Inf - 1
    Inf,            \* NULL
    MaxHeight       \* kMaxHeight

ASSUME ListAssumption ==
    /\ Inf \in Nat \ {0} /\ ListKeys \subseteq 1..Inf - 1
    /\ MaxHeight \in Nat \ {0}

VARIABLES
    next_,          \* the links of each node at each level, Junk before they are set
    heights,        \* the values max_height_ has had
    adding,         \* the key that is being inserted, 0 for none
    height,         \* the height of its node
    prev,           \* the nodes before it at each level
    linked,         \* how many of its levels are linked
    inserted,       \* keys whose Insert has returned
    walk,           \* what the reader does: FindGreaterOrEqual, FindLessThan, FindLast, Next
    node, level,    \* x and level of its loop
    target,         \* the key it looks for
    found,          \* node_ of the iterator
    known,          \* history: what had been inserted when its call began
    gap             \* history: the keys its last call says are not there

insertVars == <<next_, heights, adding, height, prev, linked, inserted>>
walkVars == <<walk, node, level, target, found, known, gap>>
listVars == <<insertVars, walkVars>>

Levels == 1..MaxHeight
Nodes == ListKeys \cup {0}
Junk == -1
NoGap == <<0, 0>>

ListTypeOK ==
    /\ next_ \in [Nodes -> [Levels -> ListKeys \cup {Inf, Junk}]]
    /\ heights \subseteq Levels /\ linked \in 0..MaxHeight
    /\ inserted \subseteq ListKeys
    /\ node \in Nodes /\ level \in Levels
    /\ found \in ListKeys \cup {Inf}

MaxHeightNow == CHOOSE h \in heights : \A g \in heights : g <= h

-----------------------------------------------------------------------------
(* Insert.                                                                 *)

\* prev[l]: the last node before the key at a level (FindGreaterOrEqual of
\* the writer, whom nobody disturbs).
NodeBefore(k, l) ==
    LET B == {n \in Nodes : n < k /\ next_[n][l] # Junk}
    IN  CHOOSE n \in B : \A m \in B : m <= n

StartInsert(k, h) ==
    /\ adding = 0 /\ k \notin inserted
    /\ adding' = k /\ height' = h
    /\ prev' = [l \in Levels |-> IF l <= MaxHeightNow THEN NodeBefore(k, l) ELSE 0]
    /\ heights' = IF h > MaxHeightNow THEN heights \cup {h} ELSE heights
    /\ linked' = 0
    /\ UNCHANGED <<next_, inserted, walkVars>>

\* Mutant: from the top level down.
LinkLevelTopDown ==
    /\ adding # 0 /\ linked < height
    /\ linked' = linked + 1
    /\ LET l == height - linked
       IN  next_' = [next_ EXCEPT ![adding][l] = next_[prev[l]][l], ![prev[l]][l] = adding]
    /\ UNCHANGED <<heights, adding, height, prev, inserted, walkVars>>

\* One turn of the loop of Insert: the node's own link is published with the
\* link to the node.
LinkLevel ==
    /\ adding # 0 /\ linked < height
    /\ linked' = linked + 1
    /\ LET l == linked'
       IN  next_' = [next_ EXCEPT ![adding][l] = next_[prev[l]][l], ![prev[l]][l] = adding]
    /\ UNCHANGED <<heights, adding, height, prev, inserted, walkVars>>

InsertReturns ==
    /\ adding # 0 /\ linked = height
    /\ inserted' = inserted \cup {adding}
    /\ adding' = 0
    /\ UNCHANGED <<next_, heights, height, prev, linked, walkVars>>

-----------------------------------------------------------------------------
(* Iterator.                                                               *)

Starts(how, k) ==
    /\ walk = "no"
    /\ walk' = how /\ node' = 0 /\ level' \in heights /\ target' = k
    /\ known' = inserted
    /\ UNCHANGED <<insertVars, found, gap>>

ListSeek(k) == Starts("greaterOrEqual", k)
ListPrev == found # Inf /\ Starts("lessThan", found)
ListLast == Starts("last", Inf)

\* The call returns n, and says that no key is in between.
Finds(n, lo, hi) ==
    /\ walk' = "no" /\ found' = n /\ gap' = <<lo, hi>>
    /\ UNCHANGED <<insertVars, node, level, target, known>>

\* Iterator::Next and SeekToFirst: a single load.
NextOf(n) ==
    /\ walk = "no"
    /\ walk' = "no" /\ found' = next_[n][1] /\ gap' = <<n, next_[n][1]>>
    /\ known' = inserted
    /\ UNCHANGED <<insertVars, node, level, target>>

ListNext == found # Inf /\ NextOf(found)
ListFirst == NextOf(0)

\* The links that the three searches follow.
Follows(n) == n # Inf /\ n < target

\* One turn of FindGreaterOrEqual, FindLessThan or FindLast: a load of x's
\* link, and a step along it or down.
WalkTurn ==
    /\ walk # "no"
    /\ LET n == next_[node][level]
       IN  IF Follows(n) THEN node' = n /\ UNCHANGED <<insertVars, walk, level, target, found, known, gap>>
           ELSE IF level > 1 THEN level' = level - 1 /\ UNCHANGED <<insertVars, walk, node, target, found, known, gap>>
           ELSE IF walk = "greaterOrEqual" THEN Finds(n, target - 1, n)
           ELSE Finds(IF node = 0 THEN Inf ELSE node, node, target)

-----------------------------------------------------------------------------
ListInit ==
    /\ next_ = [n \in Nodes |-> [l \in Levels |-> IF n = 0 THEN Inf ELSE Junk]]
    /\ heights = {1} /\ adding = 0 /\ height = 1
    /\ prev = [l \in Levels |-> 0] /\ linked = 0 /\ inserted = {}
    /\ walk = "no" /\ node = 0 /\ level = 1 /\ target = Inf /\ found = Inf
    /\ known = {} /\ gap = NoGap

ListNextState ==
    \/ \E k \in ListKeys, h \in Levels : StartInsert(k, h)
    \/ LinkLevel \/ InsertReturns
    \/ \E k \in ListKeys : ListSeek(k)
    \/ ListPrev \/ ListLast \/ ListNext \/ ListFirst
    \/ WalkTurn

ListSpec == ListInit /\ [][ListNextState]_listVars

-----------------------------------------------------------------------------
\* "Reads require a guarantee that the SkipList will not be destroyed while
\* the read is in progress. Apart from that, reads progress without any
\* internal locking or synchronization" (skiplist.h:11): every call finds the
\* nearest key of those that had been inserted when it began, or one that
\* came meanwhile and is nearer; and it never follows a link that has not
\* been set.
ReadersMissNothing ==
    /\ walk = "no" => \A k \in known : ~(gap[1] < k /\ k < gap[2])
    /\ walk # "no" => next_[node][level] # Junk
=============================================================================
