---------------------------- MODULE BucketStore ----------------------------
(***************************************************************************)
(* The persistent key-value bucket of the app (ZWBucket over LevelDB), as  *)
(* every other part of the program sees it.                                *)
(*                                                                         *)
(* A write is a block handed to a GLOBAL concurrent dispatch queue.        *)
(* dispatch_barrier_async has no barrier effect on a global queue, so the  *)
(* blocks run concurrently: any block that has been handed over may be the *)
(* next one to reach the database, whatever the order of the calls.  A     *)
(* read is synchronous and sees only the blocks that have run.  What was   *)
(* handed over and has not run dies with the process; the database lives.  *)
(***************************************************************************)
EXTENDS Integers

CONSTANTS
    Keys,           \* the keys in use
    Values,         \* what can be stored, NoValue included
    NoValue,        \* reading a key the database does not hold gives nil
    MaxPending      \* bound: equal blocks (same key, same value) outstanding

ASSUME BucketAssumption ==
    /\ NoValue \in Values
    /\ MaxPending \in Nat

VARIABLES
    ldb,            \* the database: the value under each key
    pending         \* how many blocks writing v under k have not run yet

storeVars == <<ldb, pending>>

\* A block writes one value under one key; writing NoValue removes the key.
Blocks == Keys \X Values

StoreTypeOK ==
    /\ ldb \in [Keys -> Values]
    /\ pending \in [Blocks -> 0..MaxPending]

StoreInit ==
    /\ ldb = [k \in Keys |-> NoValue]
    /\ pending = [b \in Blocks |-> 0]

\* A synchronous read: what the blocks that have run left there.
Item(k) == ldb[k]

\* Some write of k has been asked for and has not reached the database.
WriteOutstanding(k) == \E v \in Values : pending[<<k, v>>] > 0

\* Hand over one block for each member of S, a set of writes.
Dispatch(S) ==
    /\ \A b \in S : pending[b] < MaxPending
    /\ pending' = [b \in Blocks |-> IF b \in S THEN pending[b] + 1 ELSE pending[b]]

\* Mutant: a block that may run again after it has run.
RunBlockAgain(k, v) ==
    /\ pending' = [pending EXCEPT ![<<k, v>>] = @ - 1]
    /\ ldb' = [ldb EXCEPT ![k] = v]

\* The queue runs one block that writes v under k.
RunBlock(k, v) ==
    /\ pending[<<k, v>>] > 0
    /\ pending' = [pending EXCEPT ![<<k, v>>] = @ - 1]
    /\ ldb' = [ldb EXCEPT ![k] = v]

\* The process dies: its queues go with it, the database stays.
LoseBlocks ==
    /\ pending' = [b \in Blocks |-> 0]
    /\ UNCHANGED ldb
=============================================================================
