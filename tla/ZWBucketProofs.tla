--------------------------- MODULE ZWBucketProofs ---------------------------
(***************************************************************************)
(* Proofs about ZWBucket for any keys, any values and any bound: the       *)
(* inductive invariant IInv, from it BucketTypeOK and CalmReads, and that the    *)
(* bucket implements AsyncHashTable.                                       *)
(***************************************************************************)
EXTENDS ZWBucket, TLAPS

\* A dispatch keeps the counters in range and never lowers one.
LEMMA DispatchGrows ==
    ASSUME NEW S, S \subseteq Blocks, StoreTypeOK, Dispatch(S)
    PROVE  /\ pending' \in [Blocks -> 0..MaxPending]
           /\ \A b \in Blocks \ S : pending'[b] = pending[b]
           /\ \A b \in S : pending'[b] = pending[b] + 1
  <1> USE BucketAssumption DEF Dispatch, StoreTypeOK
  <1>1. pending' = [b \in Blocks |-> IF b \in S THEN pending[b] + 1 ELSE pending[b]]
    OBVIOUS
  <1>2. \A b \in Blocks : pending[b] \in 0..MaxPending
    OBVIOUS
  <1>3. \A b \in S : pending[b] + 1 \in 0..MaxPending
    OBVIOUS
  <1> QED  BY <1>1, <1>2, <1>3

\* Running a block lowers its own counter only and writes its own key only.
LEMMA RunBlockEffect ==
    ASSUME NEW k \in Keys, NEW v \in Values, StoreTypeOK, RunBlock(k, v)
    PROVE  /\ ldb' \in [Keys -> Values]
           /\ pending' \in [Blocks -> 0..MaxPending]
           /\ pending'[<<k, v>>] = pending[<<k, v>>] - 1
           /\ \A b \in Blocks : b # <<k, v>> => pending'[b] = pending[b]
           /\ ldb'[k] = v
           /\ \A j \in Keys \ {k} : ldb'[j] = ldb[j]
  <1> USE BucketAssumption DEF RunBlock, StoreTypeOK
  <1>1. <<k, v>> \in Blocks
    BY DEF Blocks
  <1>2. pending[<<k, v>>] \in 0..MaxPending
    BY <1>1
  <1>3. pending[<<k, v>>] - 1 \in 0..MaxPending
    BY <1>2
  <1> QED  BY <1>1, <1>2, <1>3

-----------------------------------------------------------------------------
\* The state stays well-formed: what every operation and every death of the
\* process leaves has the types declared in ZWBucket.
LEMMA TypeStep ==
    ASSUME BucketTypeOK, [BucketNext]_bucketVars
    PROVE  BucketTypeOK'
  <1> USE BucketAssumption DEF BucketTypeOK
  <1>0. StoreTypeOK
    OBVIOUS
  <1>1. ASSUME NEW k \in Keys, NEW v \in Values, SetItem(k, v)
        PROVE  BucketTypeOK'
    <2>1. {<<k, v>>} \subseteq Blocks
      BY DEF Blocks
    <2>2. StoreTypeOK'
      BY <1>1, <2>1, <1>0, DispatchGrows DEF SetItem, StoreTypeOK
    <2> QED  BY <1>1, <2>2 DEF SetItem, Asked, Outstanding, WriteOutstanding
  <1>2. ASSUME NEW k \in Keys, RemoveItem(k)
        PROVE  BucketTypeOK'
    <2>1. {<<k, NoValue>>} \subseteq Blocks
      BY DEF Blocks
    <2>2. StoreTypeOK'
      BY <1>2, <2>1, <1>0, DispatchGrows DEF RemoveItem, StoreTypeOK
    <2> QED  BY <1>2, <2>2 DEF RemoveItem, Asked, Outstanding, WriteOutstanding
  <1>3. ASSUME CleanBuckets
        PROVE  BucketTypeOK'
    BY <1>3 DEF CleanBuckets, Asked, Outstanding, WriteOutstanding, StoreTypeOK
  <1>4. ASSUME NEW k \in Keys, NEW v \in Values, RunWrite(k, v)
        PROVE  BucketTypeOK'
    <2>1. StoreTypeOK'
      BY <1>4, <1>0, RunBlockEffect DEF RunWrite, StoreTypeOK
    <2> QED  BY <1>4, <2>1 DEF RunWrite, history
  <1>5. ASSUME CleanStart
        PROVE  BucketTypeOK'
    BY <1>5 DEF CleanStart, history, StoreTypeOK
  <1>6. ASSUME NEW k \in Keys, CleanDelete(k)
        PROVE  BucketTypeOK'
    BY <1>6 DEF CleanDelete, history, StoreTypeOK
  <1>7. ASSUME CleanEnd
        PROVE  BucketTypeOK'
    BY <1>7 DEF CleanEnd, history, StoreTypeOK
  <1>8. ASSUME Close
        PROVE  BucketTypeOK'
    BY <1>8 DEF Close, StoreTypeOK
  <1>9. ASSUME Relaunch
        PROVE  BucketTypeOK'
    BY <1>9 DEF Relaunch, LoseBlocks, Outstanding, WriteOutstanding, StoreTypeOK, Blocks
  <1>10. ASSUME UNCHANGED bucketVars
         PROVE  BucketTypeOK'
    BY <1>10 DEF bucketVars, StoreTypeOK
  <1> QED
    BY <1>1, <1>2, <1>3, <1>4, <1>5, <1>6, <1>7, <1>8, <1>9, <1>10 DEF BucketNext

-----------------------------------------------------------------------------
\* A call that asks for a value under one key: the key it touches is either
\* marked as raced or holds the lone block of this call; no other changes.
LEMMA OneKeyCall ==
    ASSUME IInv, BucketTypeOK', NEW k \in Keys, NEW v \in Values,
           Dispatch({<<k, v>>}), Asked({k}, v),
           UNCHANGED <<ldb, open, clean, todo>>
    PROVE  IInv'
  <1> USE BucketAssumption DEF IInv, BucketTypeOK
  <1>1. {<<k, v>>} \subseteq Blocks
    BY DEF Blocks
  <1>2. /\ \A j \in Keys, w \in Values :
              <<j, w>> # <<k, v>> => pending'[<<j, w>>] = pending[<<j, w>>]
        /\ pending'[<<k, v>>] = pending[<<k, v>>] + 1
    <2>1. \A b \in Blocks \ {<<k, v>>} : pending'[b] = pending[b]
      BY <1>1, DispatchGrows
    <2> QED  BY <1>1, <2>1, DispatchGrows DEF Blocks
  <1>3. \A j \in Keys, w \in Values : pending[<<j, w>>] \in Nat
    BY DEF StoreTypeOK, Blocks
  <1>4. /\ WriteOutstanding(k)'
        /\ \A j \in Keys \ {k} : WriteOutstanding(j)' <=> WriteOutstanding(j)
    <2>1. pending'[<<k, v>>] > 0
      BY <1>2, <1>3
    <2>2. \A j \in Keys \ {k}, w \in Values : pending'[<<j, w>>] = pending[<<j, w>>]
      BY <1>2
    <2> QED  BY <2>1, <2>2 DEF WriteOutstanding
  <1>5. /\ last' = [last EXCEPT ![k] = v]
        /\ lost' = [lost EXCEPT ![k] = FALSE]
        /\ \A j \in Keys \ {k} : raced'[j] = raced[j]
        /\ raced'[k] = Outstanding(k)
    BY DEF Asked
  <1>6. CalmReads'
    BY <1>4, <1>5 DEF CalmReads, Outstanding, Item
  <1>7. ASSUME open', NEW j \in Keys, ~raced'[j]
        PROVE  LoneWrite(j)'
    <2>1. CASE j # k
      BY <2>1, <1>2, <1>4, <1>5, <1>7 DEF LoneWrite
    <2>2. CASE j = k
      <3>1. ~WriteOutstanding(k) /\ clean = "idle"
        BY <2>2, <1>5, <1>7 DEF Outstanding
      <3>2. ASSUME NEW w \in Values
            PROVE  pending[<<k, w>>] = 0
        <4>1. pending[<<k, w>>] \in Nat
          BY <1>3
        <4>2. ~(pending[<<k, w>>] > 0)
          BY <3>1 DEF WriteOutstanding
        <4> QED  BY <4>1, <4>2
      <3>3. \A w \in Values : pending'[<<k, w>>] > 0 => w = v /\ pending'[<<k, w>>] = 1
        BY <3>2, <1>2
      <3>4. last'[k] = v
        BY <1>5
      <3> QED  BY <2>2, <3>1, <3>3, <3>4 DEF LoneWrite
    <2> QED  BY <2>1, <2>2
  <1>8. ASSUME ~open', NEW j \in Keys
        PROVE  (ldb[j] = NoValue /\ (~Outstanding(j) => last[j] = NoValue))'
    BY <1>4, <1>5, <1>8 DEF Outstanding
  <1> QED  BY <1>6, <1>7, <1>8

\* Every step of the bucket keeps the strengthened invariant.
LEMMA InvStep ==
    ASSUME IInv, [BucketNext]_bucketVars
    PROVE  IInv'
  <1> USE BucketAssumption
  <1>0. BucketTypeOK /\ BucketTypeOK' /\ StoreTypeOK
    BY TypeStep DEF IInv, BucketTypeOK
  <1>p. \A j \in Keys, w \in Values : pending[<<j, w>>] \in Nat
    BY <1>0 DEF StoreTypeOK, Blocks
  <1>1. ASSUME NEW k \in Keys, NEW v \in Values, SetItem(k, v)
        PROVE  IInv'
    BY <1>0, <1>1, OneKeyCall DEF SetItem
  <1>2. ASSUME NEW k \in Keys, RemoveItem(k)
        PROVE  IInv'
    BY <1>0, <1>2, OneKeyCall DEF RemoveItem
  <1>3. ASSUME CleanBuckets
        PROVE  IInv'
    <2>1. /\ \A j \in Keys : last'[j] = NoValue /\ raced'[j] = Outstanding(j)
          /\ clean' = "queued" /\ clean = "idle"
          /\ UNCHANGED <<ldb, pending, open, todo>>
      BY <1>3 DEF CleanBuckets, Asked
    <2>2. CalmReads'
      BY <2>1 DEF CalmReads, Outstanding
    <2>3. ASSUME open', NEW j \in Keys, ~raced'[j]
          PROVE  LoneWrite(j)'
      <3>1. ~WriteOutstanding(j)
        BY <2>1, <2>3 DEF Outstanding
      <3> QED  BY <2>1, <3>1 DEF LoneWrite, WriteOutstanding
    <2>4. ASSUME ~open', NEW j \in Keys
          PROVE  (ldb[j] = NoValue /\ (~Outstanding(j) => last[j] = NoValue))'
      BY <2>1, <2>4 DEF IInv
    <2> QED  BY <1>0, <2>2, <2>3, <2>4 DEF IInv
  <1>4. ASSUME NEW k \in Keys, NEW v \in Values, RunWrite(k, v)
        PROVE  IInv'
    <2>0. RunBlock(k, v) /\ open /\ open' /\ UNCHANGED <<clean, todo, last, raced, lost>>
      BY <1>4 DEF RunWrite, history
    <2>1. /\ ldb'[k] = v
          /\ \A j \in Keys \ {k} : ldb'[j] = ldb[j]
          /\ pending'[<<k, v>>] = pending[<<k, v>>] - 1
          /\ \A j \in Keys, w \in Values :
                <<j, w>> # <<k, v>> => pending'[<<j, w>>] = pending[<<j, w>>]
          /\ pending[<<k, v>>] > 0
      <3>1. \A b \in Blocks : b # <<k, v>> => pending'[b] = pending[b]
        BY <1>0, <2>0, RunBlockEffect
      <3>2. pending[<<k, v>>] > 0
        BY <2>0 DEF RunBlock
      <3> QED  BY <1>0, <2>0, <3>1, <3>2, RunBlockEffect DEF Blocks
    <2>2. \A j \in Keys \ {k} : WriteOutstanding(j)' <=> WriteOutstanding(j)
      <3>1. \A j \in Keys \ {k}, w \in Values : pending'[<<j, w>>] = pending[<<j, w>>]
        BY <2>1
      <3> QED  BY <3>1 DEF WriteOutstanding
    <2>3. WriteOutstanding(k)
      BY <2>1 DEF WriteOutstanding
    <2>4. ASSUME NEW j \in Keys, ~raced'[j]
          PROVE  LoneWrite(j)'
      <3>1. LoneWrite(j)
        BY <2>0, <2>4 DEF IInv
      <3>2. CASE j # k
        BY <2>0, <2>1, <2>2, <3>1, <3>2 DEF LoneWrite
      <3>3. CASE j = k
        <4>1. clean = "idle" /\ v = last[k] /\ pending[<<k, v>>] = 1
          BY <2>1, <2>3, <3>1, <3>3, <1>0 DEF LoneWrite, BucketTypeOK
        <4>2. \A w \in Values : pending'[<<k, w>>] > 0 => w = last[k] /\ pending'[<<k, w>>] = 1
          BY <4>1, <2>1, <3>1, <3>3 DEF LoneWrite
        <4> QED  BY <4>1, <4>2, <2>0, <3>3 DEF LoneWrite
      <3> QED  BY <3>2, <3>3
    <2>5. ASSUME NEW j \in Keys, ~Outstanding(j)', ~raced'[j], ~lost'[j]
          PROVE  ldb'[j] = last'[j]
      <3>1. LoneWrite(j)
        BY <2>0, <2>5 DEF IInv
      <3>2. CASE j # k
        BY <2>0, <2>1, <2>2, <2>5, <3>2 DEF IInv, CalmReads, Outstanding, Item
      <3>3. CASE j = k
        BY <2>0, <2>1, <3>1, <3>3 DEF LoneWrite
      <3> QED  BY <3>2, <3>3
    <2> QED  BY <1>0, <2>0, <2>4, <2>5 DEF IInv, CalmReads, Item
  <1>5. ASSUME CleanStart
        PROVE  IInv'
    <2>0. /\ open /\ open' /\ clean = "queued" /\ clean' = "running"
          /\ todo' = {j \in Keys : ldb[j] # NoValue}
          /\ UNCHANGED <<ldb, pending, last, raced, lost>>
      BY <1>5 DEF CleanStart, history
    <2>1. CalmReads'
      BY <2>0 DEF CalmReads, Outstanding
    <2>2. ASSUME NEW j \in Keys, ~raced'[j]
          PROVE  LoneWrite(j)'
      <3>1. LoneWrite(j)
        BY <2>0, <2>2 DEF IInv
      <3> QED  BY <2>0, <3>1 DEF LoneWrite, WriteOutstanding
    <2> QED  BY <1>0, <2>0, <2>1, <2>2 DEF IInv
  <1>6. ASSUME NEW k \in Keys, CleanDelete(k)
        PROVE  IInv'
    <2>0. /\ open /\ open' /\ clean = "running" /\ clean' = clean
          /\ k \in todo /\ todo' = todo \ {k}
          /\ ldb' = [ldb EXCEPT ![k] = NoValue]
          /\ UNCHANGED <<pending, last, raced, lost>>
      BY <1>6 DEF CleanDelete, history
    <2>1. CalmReads'
      BY <2>0 DEF CalmReads, Outstanding
    <2>2. ASSUME NEW j \in Keys, ~raced'[j]
          PROVE  LoneWrite(j)'
      <3>1. LoneWrite(j)
        BY <2>0, <2>2 DEF IInv
      <3>2. \A i \in Keys : ldb'[i] = IF i = k THEN NoValue ELSE ldb[i]
        BY <1>0, <2>0 DEF StoreTypeOK
      <3> QED  BY <2>0, <3>1, <3>2 DEF LoneWrite, WriteOutstanding
    <2> QED  BY <1>0, <2>0, <2>1, <2>2 DEF IInv
  <1>7. ASSUME CleanEnd
        PROVE  IInv'
    <2>0. /\ open /\ open' /\ clean = "running" /\ clean' = "idle" /\ todo = {}
          /\ UNCHANGED <<ldb, pending, todo, last, raced, lost>>
      BY <1>7 DEF CleanEnd, history
    <2>1. ASSUME NEW j \in Keys, ~raced'[j]
          PROVE  LoneWrite(j)' /\ ldb'[j] = last'[j]
      <3>1. LoneWrite(j)
        BY <2>0, <2>1 DEF IInv
      <3> QED  BY <2>0, <3>1 DEF LoneWrite, WriteOutstanding
    <2> QED  BY <1>0, <2>0, <2>1 DEF IInv, CalmReads, Item
  <1>8. ASSUME Close
        PROVE  IInv'
    <2>0. /\ ~open'
          /\ \A j \in Keys : ldb'[j] = NoValue /\ last'[j] = NoValue
      BY <1>8 DEF Close
    <2> QED  BY <1>0, <2>0 DEF IInv, CalmReads, Item
  <1>9. ASSUME Relaunch
        PROVE  IInv'
    <2>0. /\ open' /\ clean' = "idle"
          /\ \A j \in Keys, w \in Values : pending'[<<j, w>>] = 0
          /\ \A j \in Keys : lost'[j] = (lost[j] \/ Outstanding(j))
          /\ UNCHANGED <<ldb, last, raced>>
      BY <1>9 DEF Relaunch, LoseBlocks, Blocks
    <2>1. CalmReads'
      BY <2>0 DEF IInv, CalmReads, Item
    <2>2. ASSUME NEW j \in Keys
          PROVE  LoneWrite(j)'
      BY <2>0 DEF LoneWrite
    <2> QED  BY <1>0, <2>0, <2>1, <2>2 DEF IInv
  <1>10. ASSUME UNCHANGED bucketVars
         PROVE  IInv'
    BY <1>10, <1>0 DEF bucketVars, IInv, CalmReads, Item, Outstanding, WriteOutstanding, LoneWrite
  <1> QED
    BY <1>1, <1>2, <1>3, <1>4, <1>5, <1>6, <1>7, <1>8, <1>9, <1>10 DEF BucketNext

\* The bucket starts in a state of the invariant.
LEMMA InvInit == BucketInit => IInv
  <1> SUFFICES ASSUME BucketInit PROVE IInv
    OBVIOUS
  <1> USE BucketAssumption DEF BucketInit, StoreInit
  <1>1. \A j \in Keys, w \in Values : pending[<<j, w>>] = 0
    BY DEF Blocks
  <1>2. BucketTypeOK
    BY DEF BucketTypeOK, StoreTypeOK
  <1>3. CalmReads
    BY DEF CalmReads, Item
  <1>4. ASSUME NEW j \in Keys
        PROVE  LoneWrite(j)
    <2>1. clean = "idle"
      OBVIOUS
    <2> QED  BY <1>1, <2>1 DEF LoneWrite
  <1> QED  BY <1>2, <1>3, <1>4 DEF IInv

\* IInv is an invariant of the bucket: a call that ran alone leaves at most
\* one block behind, and it carries that call's value.
THEOREM BucketInvariant == BucketSpec => []IInv
  <1>1. IInv /\ [BucketNext]_bucketVars => IInv'
    BY InvStep
  <1> QED  BY InvInit, <1>1, PTL DEF BucketSpec

\* The state of the bucket has its types in every reachable state.
THEOREM BucketTypes == BucketSpec => []BucketTypeOK
  <1>1. IInv => BucketTypeOK
    BY DEF IInv
  <1> QED  BY <1>1, BucketInvariant, PTL

\* For any keys, values and number of outstanding blocks: used one call at
\* a time on a key, the bucket over its concurrent queue reads like a hash
\* table, cleaning and closing included.
THEOREM BucketCalmReads == BucketSpec => []CalmReads
  <1>1. IInv => CalmReads
    BY DEF IInv
  <1> QED  BY <1>1, BucketInvariant, PTL

-----------------------------------------------------------------------------
\* An outstanding block may surface with its value.
LEMMA BlockMaySurface ==
    ASSUME NEW k \in Keys, NEW v \in Values, pending[<<k, v>>] > 0
    PROVE  v \in MaySurface(k)
  BY DEF MaySurface

\* One key's call asks for one value, or leaves the set as it was when an
\* equal block was already outstanding.
LEMMA OneKeyAsk ==
    ASSUME StoreTypeOK, NEW k \in Keys, NEW v \in Values, Dispatch({<<k, v>>}),
           UNCHANGED <<ldb, clean>>
    PROVE  Table!Ask({k}, v)
  <1> USE BucketAssumption
  <1>1. {<<k, v>>} \subseteq Blocks
    BY DEF Blocks
  <1>2. /\ \A b \in Blocks \ {<<k, v>>} : pending'[b] = pending[b]
        /\ pending'[<<k, v>>] = pending[<<k, v>>] + 1
    BY <1>1, DispatchGrows
  <1>3. \A j \in Keys, w \in Values :
            <<j, w>> # <<k, v>> => pending'[<<j, w>>] = pending[<<j, w>>]
    BY <1>2 DEF Blocks
  <1>4. pending[<<k, v>>] \in Nat
    BY DEF StoreTypeOK, Blocks
  <1>5. pending'[<<k, v>>] > 0
    BY <1>2, <1>4
  <1>6. ASSUME NEW j \in Keys
        PROVE  MaySurface(j)' = IF j \in {k} THEN MaySurface(j) \cup {v} ELSE MaySurface(j)
    <2>1. \A w \in Values : j = k /\ w = v => pending'[<<j, w>>] > 0
      BY <1>5
    <2>2. \A w \in Values : ~(j = k /\ w = v) => pending'[<<j, w>>] = pending[<<j, w>>]
      BY <1>3
    <2> QED  BY <2>1, <2>2 DEF MaySurface
  <1> QED  BY <1>6 DEF Table!Ask

\* Every step of the bucket is a step of the asynchronous hash table.
LEMMA TableStep ==
    ASSUME BucketTypeOK, BucketTypeOK', [BucketNext]_bucketVars
    PROVE  [Table!Next]_(Table!hashVars)
  <1> USE BucketAssumption
  <1>0. StoreTypeOK
    BY DEF BucketTypeOK
  <1>1. ASSUME NEW k \in Keys, NEW v \in Values, SetItem(k, v)
        PROVE  Table!Next
    BY <1>0, <1>1, OneKeyAsk DEF SetItem, Table!Next
  <1>2. ASSUME NEW k \in Keys, RemoveItem(k)
        PROVE  Table!Next
    BY <1>0, <1>2, OneKeyAsk DEF RemoveItem, Table!Next
  <1>3. ASSUME CleanBuckets
        PROVE  Table!Next
    <2>1. Table!Ask(Keys, NoValue)
      BY <1>3 DEF CleanBuckets, Table!Ask, MaySurface
    <2> QED  BY <2>1 DEF Table!Next
  <1>4. ASSUME NEW k \in Keys, NEW v \in Values, RunWrite(k, v)
        PROVE  Table!Next
    <2>1. RunBlock(k, v) /\ UNCHANGED clean /\ v \in MaySurface(k)
      BY <1>4, BlockMaySurface DEF RunWrite, RunBlock
    <2>2. ldb' = [ldb EXCEPT ![k] = v]
      BY <2>1 DEF RunBlock
    <2>3. /\ pending'[<<k, v>>] = pending[<<k, v>>] - 1
          /\ \A j \in Keys, w \in Values :
                <<j, w>> # <<k, v>> => pending'[<<j, w>>] = pending[<<j, w>>]
      <3>1. \A b \in Blocks : b # <<k, v>> => pending'[b] = pending[b]
        BY <1>0, <2>1, RunBlockEffect
      <3> QED  BY <1>0, <2>1, <3>1, RunBlockEffect DEF Blocks
    <2>4. ASSUME NEW j \in Keys, j # k
          PROVE  MaySurface(j)' = MaySurface(j)
      BY <2>1, <2>3, <2>4 DEF MaySurface
    <2>5. MaySurface(k)' \in {MaySurface(k), MaySurface(k) \ {v}}
      <3>1. \A w \in Values : w # v => pending'[<<k, w>>] = pending[<<k, w>>]
        BY <2>3
      <3>2. \A w \in Values \ {v} : w \in MaySurface(k)' <=> w \in MaySurface(k)
        BY <2>1, <3>1 DEF MaySurface
      <3>3. \A w \in MaySurface(k) \cup MaySurface(k)' : w \in Values
        BY DEF MaySurface
      <3> QED  BY <3>2, <3>3, <2>1
    <2>6. [j \in Keys |-> MaySurface(j)]'
            = [[j \in Keys |-> MaySurface(j)] EXCEPT ![k] = MaySurface(k)']
      BY <2>4
    <2>7. Table!Surface(k)
      BY <2>1, <2>2, <2>5, <2>6 DEF Table!Surface
    <2> QED  BY <2>7 DEF Table!Next
  <1>5. ASSUME CleanStart
        PROVE  UNCHANGED Table!hashVars
    BY <1>5 DEF CleanStart, Table!hashVars, MaySurface
  <1>6. ASSUME NEW k \in Keys, CleanDelete(k)
        PROVE  Table!Next
    <2>1. /\ NoValue \in MaySurface(k)
          /\ ldb' = [ldb EXCEPT ![k] = NoValue]
          /\ UNCHANGED <<pending, clean>>
      BY <1>6 DEF CleanDelete, MaySurface
    <2>2. [j \in Keys |-> MaySurface(j)]' = [j \in Keys |-> MaySurface(j)]
      BY <2>1 DEF MaySurface
    <2>3. [j \in Keys |-> MaySurface(j)]
            = [[j \in Keys |-> MaySurface(j)] EXCEPT ![k] = MaySurface(k)]
      OBVIOUS
    <2>4. Table!Surface(k)
      BY <2>1, <2>2, <2>3 DEF Table!Surface
    <2> QED  BY <2>4 DEF Table!Next
  <1>7. ASSUME CleanEnd
        PROVE  Table!Next
    <2>1. \A j \in Keys : MaySurface(j)' \subseteq MaySurface(j) /\ MaySurface(j)' \subseteq Values
      BY <1>7 DEF CleanEnd, MaySurface
    <2>2. Table!Fade
      BY <1>7, <2>1 DEF CleanEnd, Table!Fade
    <2> QED  BY <2>2 DEF Table!Next
  <1>8. ASSUME Close
        PROVE  Table!Next
    <2>1. Table!Wipe
      BY <1>8 DEF Close, Table!Wipe, MaySurface
    <2> QED  BY <2>1 DEF Table!Next
  <1>9. ASSUME Relaunch
        PROVE  Table!Next
    <2>1. /\ clean' = "idle" /\ UNCHANGED ldb
          /\ \A j \in Keys, w \in Values : pending'[<<j, w>>] = 0
      BY <1>9 DEF Relaunch, LoseBlocks, Blocks
    <2>2. \A j \in Keys : MaySurface(j)' = {}
      BY <2>1 DEF MaySurface
    <2>3. Table!Fade
      BY <2>1, <2>2 DEF Table!Fade
    <2> QED  BY <2>3 DEF Table!Next
  <1>10. ASSUME UNCHANGED bucketVars
         PROVE  UNCHANGED Table!hashVars
    BY <1>10 DEF bucketVars, Table!hashVars, MaySurface
  <1> QED
    BY <1>1, <1>2, <1>3, <1>4, <1>5, <1>6, <1>7, <1>8, <1>9, <1>10 DEF BucketNext

\* The bucket, blocks, cleaning loop, close and deaths included, implements
\* the asynchronous hash table: nothing surfaces under a key that a call
\* still outstanding did not ask for there.
THEOREM BucketImplementsTable == BucketSpec => ImplementsTable
  <1>1. BucketInit => Table!Init
    BY BucketAssumption DEF BucketInit, StoreInit, Table!Init, MaySurface, Blocks
  <1>2. BucketTypeOK /\ BucketTypeOK' /\ [BucketNext]_bucketVars => [Table!Next]_(Table!hashVars)
    BY TableStep
  <1> QED  BY <1>1, <1>2, BucketTypes, PTL DEF BucketSpec, ImplementsTable, Table!Spec
=============================================================================
