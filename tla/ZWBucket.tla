------------------------------ MODULE ZWBucket ------------------------------
(***************************************************************************)
(* All the operations of ZWBucket: setItem, itemForKey, removeItemForKey,  *)
(* cleanBuckets and close, the blocks they leave behind, and the death of  *)
(* the process in the middle of them.                                      *)
(*                                                                         *)
(* cleanBuckets is one block that LevelDB runs as a loop: it takes an      *)
(* iterator, a snapshot of the keys, and deletes those keys one by one     *)
(* while other blocks go on writing.                                       *)
(*                                                                         *)
(* last, raced and lost are history: the value the latest call asked for,  *)
(* whether that call was made while another one touching the key was still *)
(* outstanding, and whether the process died before it took effect.        *)
(***************************************************************************)
EXTENDS BucketStore

VARIABLES
    open,           \* the database is open (FALSE after close)
    clean,          \* the block of cleanBuckets: "idle", "queued", "running"
    todo,           \* while it runs: keys of its snapshot it has not deleted
    last,           \* history: the value the latest call asked for
    raced,          \* history: that call overlapped another one on this key
    lost            \* history: the process died with writes of it pending

history == <<last, raced, lost>>
bucketVars == <<ldb, pending, open, clean, todo, last, raced, lost>>

BucketTypeOK ==
    /\ StoreTypeOK
    /\ open \in BOOLEAN
    /\ clean \in {"idle", "queued", "running"}
    /\ todo \subseteq Keys
    /\ last \in [Keys -> Values]
    /\ raced \in [Keys -> BOOLEAN]
    /\ lost \in [Keys -> BOOLEAN]

\* Some call that touches k has not taken its whole effect.
Outstanding(k) == WriteOutstanding(k) \/ clean # "idle"

BucketInit ==
    /\ StoreInit
    /\ open = TRUE
    /\ clean = "idle"
    /\ todo = {}
    /\ last = [k \in Keys |-> NoValue]
    /\ raced = [k \in Keys |-> FALSE]
    /\ lost = [k \in Keys |-> FALSE]

\* History of a call that asks for v under every key of K.
Asked(K, v) ==
    /\ last' = [k \in Keys |-> IF k \in K THEN v ELSE last[k]]
    /\ raced' = [k \in Keys |-> IF k \in K THEN Outstanding(k) ELSE raced[k]]
    /\ lost' = [k \in Keys |-> IF k \in K THEN FALSE ELSE lost[k]]

\* Mutant: the caller's thread writes as well as the block.
SetItemTwice(k, v) ==
    /\ v # NoValue
    /\ Dispatch({<<k, v>>})
    /\ Asked({k}, v)
    /\ ldb' = [ldb EXCEPT ![k] = v]
    /\ UNCHANGED <<open, clean, todo>>

\* setItem:forKey: - the value is never nil; the block is only handed over.
SetItem(k, v) ==
    /\ v # NoValue
    /\ Dispatch({<<k, v>>})
    /\ Asked({k}, v)
    /\ UNCHANGED <<ldb, open, clean, todo>>

\* removeItemForKey:
RemoveItem(k) ==
    /\ Dispatch({<<k, NoValue>>})
    /\ Asked({k}, NoValue)
    /\ UNCHANGED <<ldb, open, clean, todo>>

\* cleanBuckets (bound: one such block at a time).
CleanBuckets ==
    /\ clean = "idle"
    /\ clean' = "queued"
    /\ Asked(Keys, NoValue)
    /\ UNCHANGED <<ldb, pending, open, todo>>

\* The queue runs a write on the open database.
RunWrite(k, v) ==
    /\ open
    /\ RunBlock(k, v)
    /\ UNCHANGED <<open, clean, todo, history>>

\* removeAllObjects starts: the iterator fixes the keys it will delete.
CleanStart ==
    /\ open
    /\ clean = "queued"
    /\ clean' = "running"
    /\ todo' = {k \in Keys : ldb[k] # NoValue}
    /\ UNCHANGED <<ldb, pending, open, history>>

\* ... deletes the next of them ...
CleanDelete(k) ==
    /\ open
    /\ clean = "running"
    /\ k \in todo
    /\ todo' = todo \ {k}
    /\ ldb' = [ldb EXCEPT ![k] = NoValue]
    /\ UNCHANGED <<pending, open, clean, history>>

\* Mutant: the loop ends before the end of its snapshot.
CleanEndEarly ==
    /\ open
    /\ clean = "running"
    /\ clean' = "idle"
    /\ todo' = {}
    /\ UNCHANGED <<ldb, pending, open, history>>

\* ... and ends at the end of its snapshot.
CleanEnd ==
    /\ open
    /\ clean = "running"
    /\ todo = {}
    /\ clean' = "idle"
    /\ UNCHANGED <<ldb, pending, open, todo, history>>

\* Mutant: the files stay on disk.
CloseKeepsFiles ==
    /\ open
    /\ open' = FALSE
    /\ last' = [k \in Keys |-> NoValue]
    /\ UNCHANGED <<ldb, pending, clean, todo, raced, lost>>

\* close: on the caller's thread, and the files are deleted with it.
Close ==
    /\ open
    /\ open' = FALSE
    /\ ldb' = [k \in Keys |-> NoValue]
    /\ last' = [k \in Keys |-> NoValue]
    /\ UNCHANGED <<pending, clean, todo, raced, lost>>

\* The process is killed, or a block asserts on the closed database; the
\* app is started again and opens (or creates) the database.
Relaunch ==
    /\ LoseBlocks
    /\ open' = TRUE
    /\ clean' = "idle"
    /\ todo' = {}
    /\ lost' = [k \in Keys |-> lost[k] \/ Outstanding(k)]
    /\ UNCHANGED <<last, raced>>

BucketNext ==
    \/ \E k \in Keys, v \in Values : SetItem(k, v)
    \/ \E k \in Keys : RemoveItem(k)
    \/ CleanBuckets
    \/ \E k \in Keys, v \in Values : RunWrite(k, v)
    \/ CleanStart
    \/ \E k \in Keys : CleanDelete(k)
    \/ CleanEnd
    \/ Close
    \/ Relaunch

BucketSpec == BucketInit /\ [][BucketNext]_bucketVars

-----------------------------------------------------------------------------
\* When nothing that touches k is on its way, its latest call ran alone and
\* the process did not die under it, a read of k gives what that call asked
\* for: single-file use of the bucket is a hash table (setItem, itemForKey,
\* removeItemForKey, cleanBuckets and close, over the concurrent queue).
CalmReads ==
    \A k \in Keys :
        ~Outstanding(k) /\ ~raced[k] /\ ~lost[k] => Item(k) = last[k]

\* The bucket used as a hash table, as ZWBucket.h:13 offers it: once every
\* block has run, with no death in between, a read gives the latest value
\* asked for.  Two calls on one key without a wait in between break it.
LastWriteWins ==
    \A k \in Keys : ~Outstanding(k) /\ ~lost[k] => Item(k) = last[k]

\* What may still surface under k, as the abstract table sees it.
MaySurface(k) ==
    {v \in Values : pending[<<k, v>>] > 0}
        \cup IF clean # "idle" THEN {NoValue} ELSE {}

Table == INSTANCE AsyncHashTable WITH
    val <- ldb, may <- [k \in Keys |-> MaySurface(k)]

\* The bucket implements the asynchronous hash table: no value surfaces
\* that was not asked for under that key by a call still outstanding, not
\* even while a cleaning loop runs between the writes.
ImplementsTable == Table!Spec

-----------------------------------------------------------------------------
\* Why CalmReads holds.  Of a call that ran alone there is at most one
\* block, and it carries that call's value; a cleaning loop that ran alone
\* still has before it every key it has to delete.
LoneWrite(k) ==
    /\ clean # "idle" => ~WriteOutstanding(k) /\ last[k] = NoValue
    /\ \A v \in Values : pending[<<k, v>>] > 0 =>
        v = last[k] /\ pending[<<k, v>>] = 1
    /\ clean = "running" => k \in todo \/ ldb[k] = NoValue

IInv ==
    /\ BucketTypeOK
    /\ CalmReads
    /\ open => \A k \in Keys : ~raced[k] => LoneWrite(k)
    /\ ~open => \A k \in Keys :
        ldb[k] = NoValue /\ (~Outstanding(k) => last[k] = NoValue)
=============================================================================
