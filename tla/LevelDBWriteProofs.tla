-------------------------- MODULE LevelDBWriteProofs --------------------------
(***************************************************************************)
(* Proofs about LevelDBWrite, for any threads, bounds and limits, as long  *)
(* as no append to a log and no write to the manifest fails halfway: what  *)
(* was told OK survives the death of the process, what was synced that of  *)
(* the machine, and both are readable until then; the disk implements the  *)
(* durable log of DurableLog; and the numbers of the entries follow the    *)
(* order of the calls.                                                     *)
(*                                                                         *)
(* The leader of the queue works alone: its group is a prefix of the       *)
(* queue, which nobody changes until the leader takes it off.  A group     *)
(* that is about to enter the memtable is in the log, up to its synced     *)
(* part if the leader syncs, and no member syncs unless the leader does.   *)
(* What is in the memtable is in the current log; what is in the immutable *)
(* one is in the tables or in a log that the manifest has not passed.  The *)
(* log number of the current version, by which logs are deleted, is never  *)
(* ahead of the manifest's, and a compaction that takes the manifest's     *)
(* back to it makes only logs count again that are in the tables.          *)
(*                                                                         *)
(* For the refinement, the logs hold nothing but what is in memory, in the *)
(* tables, or about to be inserted, and the entries of a group have        *)
(* numbers of their own above every number in use.  For the order, the     *)
(* queue is in the order of the calls, behind everything in the logs.      *)
(***************************************************************************)
EXTENDS LevelDBWrite, FiniteSetTheorems, SequenceTheorems, WellFoundedInduction, TLAPS

Leading == {"lead", "log", "sync", "mem"}
PCs == Leading \cup {"idle", "queued", "done", "flush"}

QTypeOK ==
    /\ queue \in Seq(Threads) /\ group \in Seq(Threads)
    /\ pc \in [Threads -> PCs]
    /\ req \in [Threads -> [id : Nat, sync : BOOLEAN]]
    /\ ops \in Nat

\* Who waits and who leads.
QueueOK ==
    /\ \A i, j \in 1..Len(queue) : queue[i] = queue[j] => i = j
    /\ \A i \in 1..Len(queue) : pc[queue[i]] \in Leading \cup {"queued"}
    /\ \A t \in Threads : pc[t] = "queued" => \E i \in 1..Len(queue) : queue[i] = t
    /\ \A t \in Threads : pc[t] \in Leading => Len(queue) > 0 /\ queue[1] = t

\* The group of a leader past MakeRoomForWrite.
GroupOK ==
    \A t \in Threads : pc[t] \in {"log", "sync", "mem"} =>
        /\ Len(group) \in 1..Len(queue)
        /\ \A i \in 1..Len(group) : group[i] = queue[i] /\ (req[group[i]].sync => req[t].sync)

\* Nobody writes while the database is not open.
Quiet == up # "up" => queue = <<>> /\ \A t \in Threads : pc[t] = "idle"

QInv == QTypeOK /\ QueueOK /\ GroupOK /\ Quiet

\* No write to a file stops halfway.
WholeWrites == "append" \notin Faults /\ "tear" \notin Faults

-----------------------------------------------------------------------------
(* Greatest elements.                                                      *)

LEMMA HasMin == ASSUME NEW T, T \subseteq Nat, T # {} PROVE \E x \in T : \A y \in T : x <= y
<1>1. \E x \in T : \A y \in T : ~(<<y, x>> \in OpToRel(<, Nat))
  BY NatLessThanWellFounded, WFMin
<1>2. \A x, y \in T : <<y, x>> \in OpToRel(<, Nat) <=> y < x
  BY DEF OpToRel
<1>3. PICK x \in T : \A y \in T : ~(y < x)
  BY <1>1, <1>2
<1>4. \A y \in T : x \in Nat /\ y \in Nat
  OBVIOUS
<1>5. QED
  BY <1>3, <1>4

LEMMA HasMax ==
  ASSUME NEW N \in Nat, NEW T, T \subseteq 0..N, T # {}
  PROVE  \E x \in T : \A y \in T : y <= x
<1> DEFINE U == {N - x : x \in T}
<1>0. \A x \in T : x \in Nat /\ x <= N
  OBVIOUS
<1>1. U \subseteq Nat /\ U # {}
  <2>1. \A x \in T : N - x \in Nat
    BY <1>0
  <2>2. QED
    BY <2>1
<1> HIDE DEF U
<1>2. PICK u \in U : \A v \in U : u <= v
  BY <1>1, HasMin
<1>3. PICK x \in T : u = N - x
  BY DEF U
<1>4. \A y \in T : N - y \in U
  BY DEF U
<1>5. \A y \in T : y <= x
  BY <1>0, <1>2, <1>3, <1>4
<1>6. QED
  BY <1>5

-----------------------------------------------------------------------------
(* The queue.                                                              *)

LEMMA OneLeader ==
  ASSUME QInv, NEW t \in Threads, NEW u \in Threads, pc[t] \in Leading, pc[u] \in Leading
  PROVE  t = u
  BY DEF QInv, QueueOK

\* Lead takes the head, which is a thread of the queue.
LEMMA HeadLeads ==
  ASSUME QInv, NEW t \in Threads, pc[t] = "queued", Head(queue) = t
  PROVE  /\ Len(queue) > 0 /\ queue[1] = t
         /\ \A u \in Threads : pc[u] \notin Leading
<1>1. PICK i \in 1..Len(queue) : queue[i] = t
  BY DEF QInv, QueueOK
<1>2. Len(queue) \in Nat /\ Len(queue) > 0
  BY <1>1 DEF QInv, QTypeOK
<1>3. queue[1] = t
  BY <1>2 DEF QInv, QTypeOK
<1>4. QED
  BY <1>2, <1>3 DEF QInv, QueueOK, Leading

\* What Finish needs of the threads it lets go.
IsGroup(t, g) ==
    /\ pc[t] \in Leading /\ g \in Seq(Threads)
    /\ Len(g) \in 1..Len(queue)
    /\ \A i \in 1..Len(g) : g[i] = queue[i]

LEMMA LeaderAlone == ASSUME QInv, NEW t \in Threads, pc[t] \in Leading PROVE IsGroup(t, <<t>>)
  BY DEF QInv, QTypeOK, QueueOK, IsGroup

LEMMA LeaderGroup ==
  ASSUME QInv, NEW t \in Threads, pc[t] \in {"log", "sync", "mem"}
  PROVE  IsGroup(t, group)
  BY DEF QInv, QTypeOK, GroupOK, IsGroup, Leading

LEMMA FinishQueue ==
  ASSUME QInv, NEW t \in Threads, NEW g, NEW ok, NEW others, IsGroup(t, g),
         FinishWaking(t, g, ok, others), up' = up, ops' = ops
  PROVE  /\ QInv'
         /\ \A u \in Threads : pc'[u] \notin Leading
<1> DEFINE rest == SubSeq(queue, Len(g) + 1, Len(queue))
           members == {g[i] : i \in 1..Len(g)}
           after(m) == IF m # t THEN "done"
                       ELSE IF req[t].id = 0 /\ ok THEN "flush" ELSE "idle"
<1>1. /\ queue' = rest /\ group' = <<>> /\ req' = req
      /\ pc' = [m \in Threads |-> IF m \in members THEN after(m) ELSE pc[m]]
  BY DEF FinishWaking
<1>2. /\ queue \in Seq(Threads) /\ Len(queue) \in Nat /\ Len(g) \in 1..Len(queue)
      /\ \A i \in 1..Len(queue) : queue[i] \in Threads
      /\ \A i \in 1..Len(g) : g[i] = queue[i]
  BY DEF QInv, QTypeOK, IsGroup
<1>3. /\ rest \in Seq(Threads) /\ Len(rest) = Len(queue) - Len(g)
      /\ \A i \in 1..Len(rest) : rest[i] = queue[Len(g) + i]
  <2>1. Len(g) + 1 \in 1..Len(queue) + 1 /\ Len(queue) \in Len(g) + 1 - 1..Len(queue)
    BY <1>2
  <2>2. QED
    BY <1>2, <2>1, SubSeqProperties
<1>4. \A m \in Threads : after(m) \in {"done", "flush", "idle"}
  OBVIOUS
<1>5. pc' \in [Threads -> PCs]
  BY <1>1, <1>4 DEF QInv, QTypeOK, PCs
<1>6. t \in members
  <2>1. t = queue[1]
    BY DEF QInv, QueueOK, IsGroup
  <2>2. QED
    BY <1>2, <2>1
<1> HIDE DEF rest, members, after
<1>7. \A u \in Threads : pc'[u] \notin Leading
  <2> SUFFICES ASSUME NEW u \in Threads PROVE pc'[u] \notin Leading
    OBVIOUS
  <2>1. CASE u \in members
    BY <1>1, <1>4, <2>1 DEF Leading
  <2>2. CASE u \notin members
    BY <1>1, <1>6, <2>2, OneLeader DEF IsGroup
  <2>3. QED
    BY <2>1, <2>2
<1>8. \A i \in 1..Len(rest) : /\ Len(g) + i \in 1..Len(queue)
                              /\ rest[i] = queue[Len(g) + i] /\ rest[i] \in Threads /\ rest[i] \notin members
  <2> SUFFICES ASSUME NEW i \in 1..Len(rest)
               PROVE  /\ Len(g) + i \in 1..Len(queue)
                      /\ rest[i] = queue[Len(g) + i] /\ rest[i] \in Threads /\ rest[i] \notin members
    OBVIOUS
  <2>1. Len(g) + i \in 1..Len(queue) /\ rest[i] = queue[Len(g) + i]
    BY <1>2, <1>3
  <2>2. \A j \in 1..Len(g) : j \in 1..Len(queue) /\ j # Len(g) + i
    BY <1>2, <1>3
  <2>3. \A j \in 1..Len(g) : g[j] # queue[Len(g) + i]
    BY <1>2, <2>1, <2>2 DEF QInv, QueueOK
  <2>4. QED
    BY <1>2, <2>1, <2>3 DEF members
<1>9. QueueOK'
  <2>1. \A i, j \in 1..Len(queue') : queue'[i] = queue'[j] => i = j
    <3> SUFFICES ASSUME NEW i \in 1..Len(rest), NEW j \in 1..Len(rest), rest[i] = rest[j] PROVE i = j
      BY <1>1
    <3>1. queue[Len(g) + i] = queue[Len(g) + j]
      BY <1>8
    <3>2. Len(g) + i \in 1..Len(queue) /\ Len(g) + j \in 1..Len(queue)
      BY <1>8
    <3> HIDE DEF QInv
    <3>3. \A k, l \in 1..Len(queue) : queue[k] = queue[l] => k = l
      BY DEF QInv, QueueOK
    <3>4. Len(g) + i = Len(g) + j
      BY <3>1, <3>2, <3>3
    <3>5. QED
      BY <1>2, <1>3, <3>4
  <2>2. \A i \in 1..Len(queue') : pc'[queue'[i]] \in Leading \cup {"queued"}
    <3> SUFFICES ASSUME NEW i \in 1..Len(rest) PROVE pc'[rest[i]] \in Leading \cup {"queued"}
      BY <1>1
    <3>1. pc'[rest[i]] = pc[queue[Len(g) + i]]
      BY <1>1, <1>8
    <3>2. QED
      BY <1>8, <3>1 DEF QInv, QueueOK
  <2>3. \A u \in Threads : pc'[u] = "queued" => \E i \in 1..Len(queue') : queue'[i] = u
    <3> SUFFICES ASSUME NEW u \in Threads, pc'[u] = "queued" PROVE \E i \in 1..Len(rest) : rest[i] = u
      BY <1>1
    <3>1. u \notin members /\ pc[u] = "queued"
      BY <1>1, <1>4
    <3>2. PICK i \in 1..Len(queue) : queue[i] = u
      BY <3>1 DEF QInv, QueueOK
    <3>3. i \notin 1..Len(g)
      BY <1>2, <3>1, <3>2 DEF members
    <3>4. i - Len(g) \in 1..Len(rest) /\ Len(g) + (i - Len(g)) = i
      BY <1>2, <1>3, <3>3
    <3>5. QED
      BY <1>3, <3>2, <3>4
  <2>4. QED
    BY <1>7, <2>1, <2>2, <2>3 DEF QueueOK
<1>10. GroupOK'
  BY <1>7 DEF GroupOK, Leading
<1>11. Quiet'
  <2>1. up = "up"
    BY DEF QInv, Quiet, IsGroup, Leading
  <2>2. QED
    BY <2>1 DEF Quiet
<1>12. QTypeOK'
  BY <1>1, <1>3, <1>5 DEF QInv, QTypeOK
<1>13. QED
  BY <1>7, <1>9, <1>10, <1>11, <1>12 DEF QInv

\* A writer joins the queue at its end.
LEMMA WriteQueue ==
  ASSUME QInv, NEW t \in Threads, NEW sync \in BOOLEAN, NEW null \in BOOLEAN, Write(t, sync, null)
  PROVE  /\ QInv'
         /\ \A u \in Threads : pc'[u] \in Leading => pc[u] = pc'[u] /\ req'[u] = req[u]
         /\ \A u \in Threads : pc[u] \in {"log", "sync", "mem"} =>
                \A i \in 1..Len(group) : req'[group[i]] = req[group[i]]
<1>1. /\ queue' = Append(queue, t) /\ group' = group /\ up' = up /\ up = "up" /\ ops' = ops + 1
      /\ pc' = [pc EXCEPT ![t] = "queued"] /\ pc[t] = "idle"
      /\ \E r \in [id : Nat, sync : BOOLEAN] : req' = [req EXCEPT ![t] = r]
  <2>1. [id |-> IF null THEN 0 ELSE ops + 1, sync |-> sync] \in [id : Nat, sync : BOOLEAN]
    BY DEF QInv, QTypeOK
  <2>2. QED
    BY <2>1 DEF Write
<1>2. /\ queue \in Seq(Threads) /\ Len(queue) \in Nat /\ group \in Seq(Threads)
      /\ pc \in [Threads -> PCs] /\ req \in [Threads -> [id : Nat, sync : BOOLEAN]] /\ ops \in Nat
      /\ \A i \in 1..Len(queue) : queue[i] \in Threads
  BY DEF QInv, QTypeOK
<1>3. /\ queue' \in Seq(Threads) /\ Len(queue') = Len(queue) + 1
      /\ \A i \in 1..Len(queue) : queue'[i] = queue[i]
      /\ queue'[Len(queue) + 1] = t
  BY <1>1, <1>2
<1>4. \A i \in 1..Len(queue) : queue[i] # t
  BY <1>1 DEF QInv, QueueOK, Leading
<1>5. \A u \in Threads : pc'[u] = IF u = t THEN "queued" ELSE pc[u]
  BY <1>1, <1>2
<1>6. \A u \in Threads : u # t => req'[u] = req[u]
  BY <1>1, <1>2
<1>7. QTypeOK'
  <2>1. pc' \in [Threads -> PCs]
    BY <1>1, <1>2 DEF PCs
  <2>2. req' \in [Threads -> [id : Nat, sync : BOOLEAN]]
    BY <1>1, <1>2
  <2>3. QED
    BY <1>1, <1>2, <1>3, <2>1, <2>2 DEF QTypeOK
<1>8. QueueOK'
  <2>1. \A i \in 1..Len(queue') : i \in 1..Len(queue) \/ i = Len(queue) + 1
    BY <1>2, <1>3
  <2>2. \A i, j \in 1..Len(queue') : queue'[i] = queue'[j] => i = j
    BY <1>3, <1>4, <2>1 DEF QInv, QueueOK
  <2>3. \A i \in 1..Len(queue') : pc'[queue'[i]] \in Leading \cup {"queued"}
    <3>1. \A i \in 1..Len(queue) : pc'[queue'[i]] = pc[queue[i]]
      BY <1>2, <1>3, <1>4, <1>5
    <3>2. pc'[queue'[Len(queue) + 1]] = "queued"
      BY <1>3, <1>5
    <3>3. \A i \in 1..Len(queue) : pc'[queue'[i]] \in Leading \cup {"queued"}
      BY <3>1 DEF QInv, QueueOK
    <3>4. QED
      BY <2>1, <3>2, <3>3
  <2>4. \A u \in Threads : pc'[u] = "queued" => \E i \in 1..Len(queue') : queue'[i] = u
    <3>1. \A i \in 1..Len(queue) : i \in 1..Len(queue')
      BY <1>2, <1>3
    <3>2. Len(queue) + 1 \in 1..Len(queue')
      BY <1>2, <1>3
    <3>3. QED
      BY <1>3, <1>5, <3>1, <3>2 DEF QInv, QueueOK
  <2>5. \A u \in Threads : pc'[u] \in Leading => Len(queue') > 0 /\ queue'[1] = u
    <3> SUFFICES ASSUME NEW u \in Threads, pc'[u] \in Leading PROVE Len(queue') > 0 /\ queue'[1] = u
      OBVIOUS
    <3>1. pc[u] \in Leading
      BY <1>5 DEF Leading
    <3>2. Len(queue) > 0 /\ queue[1] = u
      BY <3>1 DEF QInv, QueueOK
    <3>3. 1 \in 1..Len(queue)
      BY <1>2, <3>2
    <3>4. queue'[1] = u
      BY <1>3, <3>2, <3>3
    <3>5. QED
      BY <1>2, <1>3, <3>4
  <2>6. QED
    BY <2>2, <2>3, <2>4, <2>5 DEF QueueOK
<1>9. \A u \in Threads : pc'[u] \in Leading => pc[u] = pc'[u] /\ req'[u] = req[u]
  BY <1>5, <1>6 DEF Leading
<1>10. \A u \in Threads : pc[u] \in {"log", "sync", "mem"} =>
          \A i \in 1..Len(group) : /\ i \in 1..Len(queue) /\ group[i] \in Threads
                                   /\ req'[group[i]] = req[group[i]]
  <2> SUFFICES ASSUME NEW u \in Threads, pc[u] \in {"log", "sync", "mem"}, NEW i \in 1..Len(group)
               PROVE  /\ i \in 1..Len(queue) /\ group[i] \in Threads
                      /\ req'[group[i]] = req[group[i]]
    OBVIOUS
  <2>1. Len(group) \in 1..Len(queue) /\ group[i] = queue[i]
    BY DEF QInv, GroupOK
  <2>2. i \in 1..Len(queue)
    BY <1>2, <2>1
  <2>3. QED
    BY <1>2, <1>4, <1>6, <2>1, <2>2
<1>11. GroupOK'
  <2> SUFFICES ASSUME NEW u \in Threads, pc'[u] \in {"log", "sync", "mem"}
               PROVE  /\ Len(group) \in 1..Len(queue')
                      /\ \A i \in 1..Len(group) :
                            group[i] = queue'[i] /\ (req'[group[i]].sync => req'[u].sync)
    BY <1>1 DEF GroupOK
  <2>1. pc[u] \in {"log", "sync", "mem"} /\ req'[u] = req[u]
    BY <1>9 DEF Leading
  <2>2. Len(group) \in 1..Len(queue)
    BY <2>1 DEF QInv, GroupOK
  <2>3. Len(group) \in 1..Len(queue')
    BY <1>2, <1>3, <2>2
  <2>4. \A i \in 1..Len(group) : group[i] = queue[i] /\ (req[group[i]].sync => req[u].sync)
    BY <2>1 DEF QInv, GroupOK
  <2>5. ASSUME NEW i \in 1..Len(group)
        PROVE  group[i] = queue'[i] /\ (req'[group[i]].sync => req'[u].sync)
    <3>1. i \in 1..Len(queue) /\ req'[group[i]] = req[group[i]]
      BY <1>10, <2>1
    <3>2. QED
      BY <1>3, <2>1, <2>4, <3>1
  <2>6. QED
    BY <2>3, <2>5
<1>12. Quiet'
  BY <1>1 DEF Quiet
<1>13. QED
  BY <1>7, <1>8, <1>9, <1>10, <1>11, <1>12 DEF QInv

\* The thread at the head of the queue goes on, alone.
LEMMA MoveOn ==
  ASSUME QInv, NEW t \in Threads, NEW to \in Leading, up = "up",
         pc[t] \in Leading \cup {"queued"}, Len(queue) > 0, queue[1] = t,
         UNCHANGED <<queue, req, ops, up>>, pc' = [pc EXCEPT ![t] = to], group' \in Seq(Threads),
         to # "lead" => /\ Len(group') \in 1..Len(queue)
                        /\ \A i \in 1..Len(group') :
                              group'[i] = queue[i] /\ (req[group'[i]].sync => req[t].sync)
  PROVE  /\ QInv'
         /\ \A u \in Threads : pc'[u] \in Leading => u = t /\ pc'[u] = to
<1>1. \A u \in Threads : pc'[u] = IF u = t THEN to ELSE pc[u]
  BY DEF QInv, QTypeOK
<1>2. \A u \in Threads : u # t => pc[u] \notin Leading
  BY DEF QInv, QueueOK
<1>3. \A u \in Threads : pc'[u] \in Leading => u = t /\ pc'[u] = to
  BY <1>1, <1>2
<1>4. QTypeOK'
  BY DEF QInv, QTypeOK, PCs
<1>5. QueueOK'
  <2>1. \A i \in 1..Len(queue) : queue[i] \in Threads
    BY DEF QInv, QTypeOK
  <2>2. \A i \in 1..Len(queue) : pc'[queue[i]] \in Leading \cup {"queued"}
    BY <1>1, <2>1 DEF QInv, QueueOK
  <2>3. \A u \in Threads : pc'[u] = "queued" => \E i \in 1..Len(queue) : queue[i] = u
    BY <1>1 DEF QInv, QueueOK, Leading
  <2>4. QED
    BY <1>3, <2>2, <2>3 DEF QInv, QueueOK
<1>6. GroupOK'
  <2> SUFFICES ASSUME NEW u \in Threads, pc'[u] \in {"log", "sync", "mem"}
               PROVE  /\ Len(group') \in 1..Len(queue)
                      /\ \A i \in 1..Len(group') :
                            group'[i] = queue[i] /\ (req[group'[i]].sync => req[u].sync)
    BY DEF GroupOK
  <2>1. u = t /\ to # "lead"
    BY <1>3 DEF Leading
  <2>2. QED
    BY <2>1
<1>7. Quiet'
  BY DEF Quiet
<1>8. QED
  BY <1>3, <1>4, <1>5, <1>6, <1>7 DEF QInv

\* A thread that is not on the queue goes on.
LEMMA MoveOut ==
  ASSUME QInv, NEW t \in Threads, NEW to \in {"idle", "flush"}, up = "up", pc[t] \in {"done", "flush"},
         UNCHANGED <<queue, group, req, ops, up>>, pc' = [pc EXCEPT ![t] = to] \/ pc' = pc
  PROVE  /\ QInv'
         /\ \A u \in Threads : pc'[u] \in Leading => pc[u] = pc'[u]
<1>1. \A u \in Threads : pc'[u] = pc[u] \/ (u = t /\ pc'[u] = to)
  BY DEF QInv, QTypeOK
<1>2. \A u \in Threads : pc'[u] \in Leading \cup {"queued"} => pc[u] = pc'[u]
  BY <1>1 DEF Leading
<1>3. pc' \in [Threads -> PCs]
  BY DEF QInv, QTypeOK, PCs
<1>4. \A u \in Threads : pc[u] \in Leading \cup {"queued"} => pc'[u] = pc[u]
  BY <1>1 DEF Leading
<1>5. QueueOK'
  <2>1. \A i \in 1..Len(queue) : queue[i] \in Threads
    BY DEF QInv, QTypeOK
  <2>2. QED
    BY <1>2, <1>4, <2>1 DEF QInv, QueueOK
<1>6. GroupOK'
  BY <1>2 DEF QInv, GroupOK, Leading
<1>7. QED
  BY <1>2, <1>3, <1>5, <1>6 DEF QInv, QTypeOK, Quiet

LEMMA SameQueue ==
  ASSUME QInv, UNCHANGED <<queue, group, pc, req, ops>>, up # "up" \/ up' = up
  PROVE  QInv'
  BY DEF QInv, QTypeOK, QueueOK, GroupOK, Quiet

LEMMA ForgetQueue == ASSUME QInv, Forget, ops' = ops PROVE QInv'
<1>1. /\ queue' = <<>> /\ group' = <<>> /\ pc' = [u \in Threads |-> "idle"]
      /\ req' = [u \in Threads |-> [id |-> 0, sync |-> FALSE]]
  BY DEF Forget, NoReq
<1>2. QTypeOK'
  BY <1>1 DEF QInv, QTypeOK, PCs
<1>3. \A u \in Threads : pc'[u] = "idle"
  BY <1>1
<1>4. Len(queue') = 0
  BY <1>1
<1>5. QueueOK' /\ GroupOK' /\ Quiet'
  BY <1>1, <1>3, <1>4 DEF QueueOK, GroupOK, Quiet, Leading
<1>6. QED
  BY <1>2, <1>5 DEF QInv

-----------------------------------------------------------------------------
(* Logs.                                                                   *)

IsLog(g) ==
    /\ \E S : g \in [recs : Seq(S), synced : Nat, torn : {FALSE}]
    /\ g.synced <= Len(g.recs)

\* The entries of the first k records.
First(g, k) == UNION {g.recs[i].entries : i \in {j \in 1..k : g.recs[j].readable}}
Full(g) == First(g, Len(g.recs))
Safe(g) == First(g, g.synced)

LEMMA InFirst ==
  ASSUME NEW g, NEW k, NEW e
  PROVE  e \in First(g, k) <=> \E i \in 1..k : g.recs[i].readable /\ e \in g.recs[i].entries
  BY DEF First

LEMMA SafeIsThere ==
  ASSUME NEW g, IsLog(g)
  PROVE  Len(g.recs) \in Nat /\ g.synced \in 0..Len(g.recs) /\ Safe(g) \subseteq Full(g)
<1>1. Len(g.recs) \in Nat /\ g.synced \in 0..Len(g.recs)
  BY DEF IsLog
<1>2. \A i \in 1..g.synced : i \in 1..Len(g.recs)
  BY <1>1
<1>3. QED
  BY <1>1, <1>2, InFirst DEF Full, Safe

LEMMA NothingLogged == IsLog(EmptyLog) /\ Full(EmptyLog) = {} /\ Safe(EmptyLog) = {}
<1>1. EmptyLog \in [recs : Seq({}), synced : Nat, torn : {FALSE}] /\ Len(EmptyLog.recs) = 0 /\ EmptyLog.synced = 0
  BY DEF EmptyLog
<1>2. IsLog(EmptyLog)
  <2>1. \E S : EmptyLog \in [recs : Seq(S), synced : Nat, torn : {FALSE}]
    BY <1>1
  <2>2. EmptyLog.synced <= Len(EmptyLog.recs)
    BY <1>1
  <2>3. QED
    BY <2>1, <2>2 DEF IsLog
<1>3. \A i : i \notin 1..0
  OBVIOUS
<1>4. QED
  BY <1>1, <1>2, <1>3, InFirst DEF Full, Safe

LEMMA OneMore ==
  ASSUME NEW g, IsLog(g), NEW E, NEW h,
         h = [recs |-> Append(g.recs, [entries |-> E, readable |-> TRUE]), synced |-> g.synced, torn |-> FALSE]
  PROVE  IsLog(h) /\ Full(h) = Full(g) \cup E /\ Safe(h) = Safe(g)
<1> DEFINE r == [entries |-> E, readable |-> TRUE]
<1>1. PICK S : g \in [recs : Seq(S), synced : Nat, torn : {FALSE}]
  BY DEF IsLog
<1>2. h = [recs |-> Append(g.recs, r), synced |-> g.synced, torn |-> FALSE]
  BY <1>1
<1>3. g.recs \in Seq(S \cup {r}) /\ r \in S \cup {r} /\ Len(g.recs) \in Nat
  BY <1>1
<1> HIDE DEF r
<1>4. /\ h.recs \in Seq(S \cup {r}) /\ Len(h.recs) = Len(g.recs) + 1
      /\ \A i \in 1..Len(g.recs) : h.recs[i] = g.recs[i]
      /\ h.recs[Len(g.recs) + 1] = r
      /\ h.synced = g.synced
  <2>1. h.recs = Append(g.recs, r) /\ h.synced = g.synced
    BY <1>2
  <2>2. QED
    BY <1>3, <2>1
<1>5. g.synced \in Nat /\ g.synced <= Len(g.recs)
  BY <1>1 DEF IsLog
<1>6. h \in [recs : Seq(S \cup {r}), synced : Nat, torn : {FALSE}]
  BY <1>2, <1>4, <1>5
<1>7. IsLog(h)
  <2>1. \E T : h \in [recs : Seq(T), synced : Nat, torn : {FALSE}]
    BY <1>6
  <2>2. h.synced <= Len(h.recs)
    BY <1>3, <1>4, <1>5
  <2>3. QED
    BY <2>1, <2>2 DEF IsLog
<1>8. \A i \in 1..Len(h.recs) : i \in 1..Len(g.recs) \/ i = Len(g.recs) + 1
  BY <1>3, <1>4
<1>9. \A i \in 1..Len(g.recs) : i \in 1..Len(h.recs)
  BY <1>3, <1>4
<1>10. Len(g.recs) + 1 \in 1..Len(h.recs)
  BY <1>3, <1>4
<1>11. r.readable /\ r.entries = E
  BY DEF r
<1>12. Full(h) = Full(g) \cup E
  <2> SUFFICES ASSUME NEW e PROVE e \in Full(h) <=> e \in Full(g) \/ e \in E
    OBVIOUS
  <2>1. e \in Full(h) <=> \E i \in 1..Len(h.recs) : h.recs[i].readable /\ e \in h.recs[i].entries
    BY InFirst DEF Full
  <2>2. e \in Full(g) <=> \E i \in 1..Len(g.recs) : g.recs[i].readable /\ e \in g.recs[i].entries
    BY InFirst DEF Full
  <2>3. QED
    BY <1>4, <1>8, <1>9, <1>10, <1>11, <2>1, <2>2
<1>13. Safe(h) = Safe(g)
  <2>1. \A i \in 1..g.synced : i \in 1..Len(g.recs)
    BY <1>3, <1>5
  <2>2. \A e : e \in First(h, g.synced) <=> e \in First(g, g.synced)
    <3>1. \A i \in 1..g.synced : h.recs[i] = g.recs[i]
      BY <1>4, <2>1
    <3>2. SUFFICES ASSUME NEW e PROVE e \in First(h, g.synced) <=> e \in First(g, g.synced)
      OBVIOUS
    <3>3. e \in First(h, g.synced) <=> \E i \in 1..g.synced : h.recs[i].readable /\ e \in h.recs[i].entries
      BY InFirst
    <3>4. e \in First(g, g.synced) <=> \E i \in 1..g.synced : g.recs[i].readable /\ e \in g.recs[i].entries
      BY InFirst
    <3>5. QED
      BY <3>1, <3>3, <3>4
  <2>3. QED
    BY <1>4, <2>2 DEF Safe
<1>14. QED
  BY <1>7, <1>12, <1>13

LEMMA AllSynced ==
  ASSUME NEW g, IsLog(g), NEW h, h = [g EXCEPT !.synced = Len(g.recs)]
  PROVE  IsLog(h) /\ Full(h) = Full(g) /\ Safe(h) = Full(g)
<1>1. PICK S : g \in [recs : Seq(S), synced : Nat, torn : {FALSE}]
  BY DEF IsLog
<1>2. Len(g.recs) \in Nat
  BY <1>1
<1>3. h \in [recs : Seq(S), synced : Nat, torn : {FALSE}] /\ h.recs = g.recs /\ h.synced = Len(g.recs)
  BY <1>1, <1>2
<1>4. IsLog(h)
  <2>1. h.synced <= Len(h.recs)
    BY <1>2, <1>3
  <2>2. QED
    BY <1>3, <2>1 DEF IsLog
<1>5. QED
  BY <1>3, <1>4 DEF Full, Safe, First

\* What a crash of the machine leaves of a log.
LEMMA CutOff ==
  ASSUME NEW g, IsLog(g), NEW k \in g.synced..Len(g.recs), NEW h,
         h = [recs |-> SubSeq(g.recs, 1, k), synced |-> k, torn |-> FALSE]
  PROVE  IsLog(h) /\ Safe(g) \subseteq Safe(h) /\ Safe(h) = Full(h) /\ Full(h) \subseteq Full(g)
<1>1. PICK S : g \in [recs : Seq(S), synced : Nat, torn : {FALSE}]
  BY DEF IsLog
<1>2. g.recs \in Seq(S) /\ Len(g.recs) \in Nat /\ g.synced \in Nat
  BY <1>1
<1>3. k \in Nat /\ g.synced <= k /\ k <= Len(g.recs)
  BY <1>2
<1>4. /\ SubSeq(g.recs, 1, k) \in Seq(S) /\ Len(SubSeq(g.recs, 1, k)) = k
      /\ \A i \in 1..k : SubSeq(g.recs, 1, k)[i] = g.recs[i]
  BY <1>2, <1>3
<1>5. h.recs = SubSeq(g.recs, 1, k) /\ h.synced = k /\ h \in [recs : Seq(S), synced : Nat, torn : {FALSE}]
  BY <1>3, <1>4
<1>6. IsLog(h) /\ Safe(h) = Full(h)
  <2>1. h.synced = Len(h.recs) /\ h.synced <= Len(h.recs)
    BY <1>3, <1>4, <1>5
  <2>2. QED
    BY <1>5, <2>1 DEF IsLog, Full, Safe
<1>7. \A i \in 1..g.synced : i \in 1..k
  BY <1>2, <1>3
<1>8. \A e : e \in First(g, g.synced) => e \in First(h, k)
  BY <1>4, <1>5, <1>7, InFirst
<1>9. \A i \in 1..k : i \in 1..Len(g.recs)
  BY <1>2, <1>3
<1>10. \A e : e \in First(h, k) => e \in First(g, Len(g.recs))
  BY <1>4, <1>5, <1>9, InFirst
<1>11. QED
  BY <1>4, <1>5, <1>6, <1>8, <1>10 DEF Safe, Full

\* What opening finds, log by log.
LEMMA OpeningFinds ==
  /\ \A e : e \in Recoverable <=>
        e \in manifest.entries \/ \E n \in DOMAIN logs : n >= manifest.log /\ e \in Full(logs[n])
  /\ \A e : e \in Synced <=>
        e \in manifest.entries \/ \E n \in DOMAIN logs : n >= manifest.log /\ e \in Safe(logs[n])
<1>1. \A n, k : RecordEntries(n, k) = First(logs[n], k)
  BY DEF RecordEntries, First
<1>2. QED
  BY <1>1 DEF Recoverable, Synced, LiveLogs, Full, Safe

LEMMA OpeningWillFind ==
  /\ \A e : e \in Recoverable' <=>
        e \in manifest'.entries \/ \E n \in DOMAIN logs' : n >= manifest'.log /\ e \in Full(logs'[n])
  /\ \A e : e \in Synced' <=>
        e \in manifest'.entries \/ \E n \in DOMAIN logs' : n >= manifest'.log /\ e \in Safe(logs'[n])
<1>1. \A n, k : RecordEntries(n, k)' = First(logs'[n], k)
  BY DEF RecordEntries, First
<1>2. QED
  BY <1>1 DEF Recoverable, Synced, LiveLogs, Full, Safe

-----------------------------------------------------------------------------
(* Where the entries are.                                                  *)

LogsOK ==
    /\ {logNo, nextFile, logNumber, manifest.log, manifest.next} \subseteq Nat
    /\ manifest.log <= manifest.next /\ ~halfEdit
    /\ logs = [n \in DOMAIN logs |-> logs[n]]
    /\ \E N \in Nat : DOMAIN logs \subseteq 0..N
    /\ \A n \in DOMAIN logs : IsLog(logs[n])

\* Nothing is left in memory while the database is not open.
Empty ==
    /\ up \in {"up", "opening", "opened", "down"}
    /\ up # "up" => mem = {} /\ imm = {} /\ ~hasImm /\ bg = "idle"

\* The current log is there, and the last one; the log number of the current
\* version is not ahead of the manifest's.
CurrentLog ==
    /\ up # "down" => logNo \in DOMAIN logs /\ logNo < nextFile /\ \A n \in DOMAIN logs : n <= logNo
    /\ up = "up" => logNumber <= manifest.log /\ manifest.log <= logNo
    /\ up \in {"opening", "opened"} => logs[logNo] = EmptyLog
    /\ up = "opened" => manifest.log = logNo /\ logNumber = logNo

\* The group is in the log before it is in the memtable.
Logged ==
    \A t \in Threads :
        /\ pc[t] \in {"sync", "mem"} => GroupEntries \subseteq Full(logs[logNo])
        /\ pc[t] = "mem" /\ req[t].sync => GroupEntries \subseteq Safe(logs[logNo])

\* The immutable memtable.
Immutable ==
    /\ ~hasImm => imm = {}
    /\ bg \in {"build", "manifest", "commit"} => hasImm
    /\ bg = "commit" => imm \subseteq manifest.entries /\ manifest.log = logNo

Places ==
    up = "up" =>
        /\ mem \subseteq Full(logs[logNo])
        /\ imm \subseteq Recoverable
        /\ ackedSync \subseteq manifest.entries \cup imm \cup Safe(logs[logNo])

DInv ==
    /\ LogsOK /\ Empty /\ CurrentLog /\ Logged /\ Immutable /\ Places
    /\ ackedSync \subseteq acked
    /\ AckedReadable /\ AckedSurvive /\ SyncedSurvive

WInv == QInv /\ DInv

LEMMA CurrentIsFound ==
  ASSUME DInv, up = "up"
  PROVE  /\ logNo \in DOMAIN logs /\ logNo >= manifest.log /\ IsLog(logs[logNo])
         /\ Full(logs[logNo]) \subseteq Recoverable /\ Safe(logs[logNo]) \subseteq Synced
         /\ Safe(logs[logNo]) \subseteq Full(logs[logNo])
<1>1. logNo \in DOMAIN logs /\ logNo >= manifest.log /\ IsLog(logs[logNo])
  BY DEF DInv, LogsOK, CurrentLog
<1>2. QED
  BY <1>1, OpeningFinds, SafeIsThere

LEMMA WriteAheadHolds == ASSUME DInv PROVE WriteAhead
  BY CurrentIsFound DEF DInv, Places, WriteAhead

LEMMA SameGroup ==
  ASSUME group \in Seq(Threads), group' = group, lastSeq' = lastSeq,
         \A i \in 1..Len(group) : req'[group[i]] = req[group[i]]
  PROVE  GroupEntries' = GroupEntries
<1> DEFINE before(i) == {j \in 1..i : req[group[j]].id # 0}
           after(i) == {j \in 1..i : req'[group[j]].id # 0}
<1>1. ASSUME NEW i \in 1..Len(group) PROVE after(i) = before(i)
  <2>1. \A j \in 1..i : j \in 1..Len(group)
    BY <1>1
  <2>2. QED
    BY <2>1
<1>2. QED
  BY <1>1 DEF GroupEntries

-----------------------------------------------------------------------------
(* Steps that leave memtables, logs and tables alone.                      *)

kept == <<mem, imm, hasImm, logs, manifest, halfEdit, logNo, nextFile, logNumber, up, acked, ackedSync>>

BackgroundOK ==
    /\ bg \in {"build", "manifest", "commit"} => hasImm
    /\ bg = "commit" => imm \subseteq manifest.entries /\ manifest.log = logNo

LEMMA KeptData == ASSUME DInv, UNCHANGED kept, Logged', BackgroundOK', up # "up" => bg' = bg PROVE DInv'
<1>1. Recoverable' = Recoverable /\ Synced' = Synced
  BY DEF kept, Recoverable, Synced, LiveLogs, RecordEntries
<1>2. LogsOK' /\ Empty' /\ CurrentLog' /\ Places'
  BY <1>1 DEF DInv, kept, LogsOK, Empty, CurrentLog, Places
<1>3. Immutable'
  BY DEF DInv, kept, Immutable, BackgroundOK
<1>4. QED
  BY <1>1, <1>2, <1>3 DEF DInv, kept, AckedReadable, AckedSurvive, SyncedSurvive

LEMMA KeptBackground == ASSUME DInv, UNCHANGED kept, bg' = bg PROVE BackgroundOK'
  BY DEF DInv, kept, Immutable, BackgroundOK

\* Nobody leads afterwards.
LEMMA NobodyLeads == ASSUME \A u \in Threads : pc'[u] \notin Leading PROVE Logged'
  BY DEF Logged, Leading

\* The threads that lead are where they were, with the group they had.
LEMMA SameLeader ==
  ASSUME WInv, UNCHANGED <<logs, logNo, group, lastSeq>>,
         \A u \in Threads : pc'[u] \in {"sync", "mem"} => pc[u] = pc'[u] /\ req'[u] = req[u],
         \A u \in Threads : pc[u] \in {"log", "sync", "mem"} =>
                \A i \in 1..Len(group) : req'[group[i]] = req[group[i]]
  PROVE  Logged'
<1> SUFFICES ASSUME NEW u \in Threads, pc'[u] \in {"sync", "mem"}
             PROVE  /\ GroupEntries' \subseteq Full(logs[logNo])
                    /\ pc'[u] = "mem" /\ req'[u].sync => GroupEntries' \subseteq Safe(logs[logNo])
  BY DEF Logged
<1>1. pc[u] = pc'[u] /\ req'[u] = req[u]
  OBVIOUS
<1>2. GroupEntries' = GroupEntries
  BY <1>1, SameGroup DEF WInv, QInv, QTypeOK
<1>3. QED
  BY <1>1, <1>2 DEF WInv, DInv, Logged

LEMMA WriteStep ==
  ASSUME WInv, NEW t \in Threads, NEW sync \in BOOLEAN, NEW null \in BOOLEAN, Write(t, sync, null)
  PROVE  WInv'
<1>1. UNCHANGED kept /\ bg' = bg /\ UNCHANGED <<group, lastSeq>>
  BY DEF Write, kept, memVars, bgVars, disk, tables, numbers
<1>2. /\ QInv'
      /\ \A u \in Threads : pc'[u] \in Leading => pc[u] = pc'[u] /\ req'[u] = req[u]
      /\ \A u \in Threads : pc[u] \in {"log", "sync", "mem"} =>
            \A i \in 1..Len(group) : req'[group[i]] = req[group[i]]
  BY WriteQueue DEF WInv
<1>3. Logged'
  BY <1>1, <1>2, SameLeader DEF kept, Leading
<1>4. QED
  BY <1>1, <1>2, <1>3, KeptBackground, KeptData DEF WInv

LEMMA LeadStep == ASSUME WInv, NEW t \in Threads, Lead(t) PROVE WInv'
<1>1. /\ UNCHANGED kept /\ bg' = bg /\ UNCHANGED <<queue, req, group, ops, up>>
      /\ pc' = [pc EXCEPT ![t] = "lead"] /\ up = "up" /\ pc[t] = "queued" /\ Head(queue) = t
  BY DEF Lead, kept, memVars, bgVars, disk, tables, numbers, history
<1>2. Len(queue) > 0 /\ queue[1] = t
  BY <1>1, HeadLeads DEF WInv
<1>3. /\ QInv'
      /\ \A u \in Threads : pc'[u] \in Leading => u = t /\ pc'[u] = "lead"
  BY <1>1, <1>2, MoveOn DEF WInv, QInv, QTypeOK, Leading
<1>4. Logged'
  BY <1>3 DEF Logged, Leading
<1>5. QED
  BY <1>1, <1>3, <1>4, KeptBackground, KeptData DEF WInv

\* The leader ends without having written: an error, or a NULL batch.
LEMMA FinishStep ==
  ASSUME WInv, NEW t \in Threads, NEW g, NEW ok, NEW others, IsGroup(t, g),
         FinishWaking(t, g, ok, others), UNCHANGED kept, bg' = bg, ops' = ops
  PROVE  WInv'
<1>1. QInv' /\ \A u \in Threads : pc'[u] \notin Leading
  BY FinishQueue DEF WInv, kept
<1>2. QED
  BY <1>1, NobodyLeads, KeptBackground, KeptData DEF WInv

LEMMA StayStep ==
  ASSUME WInv, UNCHANGED kept, UNCHANGED <<queue, group, pc, req, ops, lastSeq>>, BackgroundOK',
         up # "up" => bg' = bg
  PROVE  WInv'
<1>1. QInv'
  BY SameQueue DEF WInv, kept
<1>2. Logged'
  BY SameLeader DEF kept
<1>3. QED
  BY <1>1, <1>2, KeptData DEF WInv

LEMMA RoomSteps ==
  ASSUME WInv, NEW t \in Threads, RoomError(t) \/ RoomDelay(t) \/ RoomWait(t) \/ RoomNoLog(t)
  PROVE  WInv'
<1>1. UNCHANGED kept /\ bg' = bg /\ ops' = ops /\ UNCHANGED lastSeq /\ pc[t] \in Leading /\ up = "up"
  BY DEF RoomError, RoomDelay, RoomWait, RoomNoLog, CanSwitch, InRoom, kept, memVars, bgVars, disk, tables, numbers, history, Leading
<1>2. CASE RoomError(t) \/ RoomNoLog(t)
  <2>1. FinishWaking(t, <<t>>, FALSE, {})
    BY <1>2 DEF RoomError, RoomNoLog, Finish
  <2>2. IsGroup(t, <<t>>)
    BY <1>1, LeaderAlone DEF WInv
  <2>3. QED
    BY <1>1, <2>1, <2>2, FinishStep
<1>3. CASE RoomDelay(t) \/ RoomWait(t)
  <2>1. UNCHANGED <<queue, group, pc, req>>
    BY <1>3 DEF RoomDelay, RoomWait
  <2>2. QED
    BY <1>1, <2>1, KeptBackground, StayStep DEF WInv
<1>4. QED
  BY <1>2, <1>3

\* A group is a prefix of the queue that syncs only if its leader does.
LEMMA GroupSizeFits ==
  ASSUME QInv, Len(queue) > 0
  PROVE  GroupSize \in 1..Len(queue) /\ Joins(GroupSize)
<1>1. Len(queue) \in Nat
  BY DEF QInv, QTypeOK
<1> DEFINE T == {n \in 1..Len(queue) : Joins(n)}
<1>2. 1 \in T
  <2>1. 1 \in 1..Len(queue)
    BY <1>1
  <2>2. Joins(1)
    BY DEF Joins
  <2>3. QED
    BY <2>1, <2>2
<1>3. T \subseteq 0..Len(queue)
  OBVIOUS
<1>4. PICK n \in T : \A m \in T : m <= n
  <2> HIDE DEF T
  <2>1. QED
    BY <1>1, <1>2, <1>3, HasMax
<1>5. n = Len(queue) \/ ~Joins(n + 1)
  <2> SUFFICES ASSUME n # Len(queue), Joins(n + 1) PROVE FALSE
    OBVIOUS
  <2>1. n + 1 \in 1..Len(queue)
    BY <1>1
  <2>2. n + 1 \in T
    BY <2>1
  <2>3. QED
    BY <1>4, <2>2
<1>6. \E k \in 1..Len(queue) : Joins(k) /\ (k = Len(queue) \/ ~Joins(k + 1))
  BY <1>4, <1>5
<1>7. QED
  BY <1>6 DEF GroupSize

LEMMA RoomOkStep == ASSUME WInv, NEW t \in Threads, RoomOk(t) PROVE WInv'
<1>1. UNCHANGED kept /\ bg' = bg /\ ops' = ops /\ pc[t] = "lead" /\ up = "up"
  BY DEF RoomOk, InRoom, kept, memVars, bgVars, disk, tables, numbers, history
<1>2. CASE req[t].id = 0
  <2>1. FinishWaking(t, <<t>>, TRUE, {})
    BY <1>2 DEF RoomOk, Finish
  <2>2. IsGroup(t, <<t>>)
    BY <1>1, LeaderAlone DEF WInv, Leading
  <2>3. QED
    BY <1>1, <2>1, <2>2, FinishStep
<1>3. CASE req[t].id # 0
  <2>1. /\ group' = SubSeq(queue, 1, GroupSize) /\ pc' = [pc EXCEPT ![t] = "log"]
        /\ UNCHANGED <<queue, req>>
    BY <1>3 DEF RoomOk
  <2>2. Len(queue) > 0 /\ queue[1] = t
    BY <1>1 DEF WInv, QInv, QueueOK, Leading
  <2>3. GroupSize \in 1..Len(queue) /\ Joins(GroupSize)
    BY <2>2, GroupSizeFits DEF WInv
  <2>4. queue \in Seq(Threads) /\ Len(queue) \in Nat
    BY DEF WInv, QInv, QTypeOK
  <2> DEFINE n == GroupSize
  <2> HIDE DEF n
  <2>5. /\ group' \in Seq(Threads) /\ Len(group') = n /\ n \in 1..Len(queue)
        /\ \A i \in 1..n : group'[i] = queue[i]
    BY <2>1, <2>3, <2>4 DEF n
  <2>6. \A i \in 1..n : req[group'[i]].sync => req[t].sync
    <3> SUFFICES ASSUME NEW i \in 1..n, req[queue[i]].sync PROVE req[t].sync
      BY <2>5
    <3>1. i = 1 \/ i \in 2..n
      BY <2>5
    <3>2. QED
      BY <2>2, <2>3, <3>1 DEF Joins, n
  <2>7. /\ QInv'
        /\ \A u \in Threads : pc'[u] \in Leading => u = t /\ pc'[u] = "log"
    <3>1. /\ "log" \in Leading /\ pc[t] \in Leading \cup {"queued"} /\ up' = up
          /\ Len(group') \in 1..Len(queue)
      BY <1>1, <2>5 DEF Leading, kept
    <3>2. \A i \in 1..Len(group') : group'[i] = queue[i] /\ (req[group'[i]].sync => req[t].sync)
      BY <2>5, <2>6
    <3>3. QED
      BY <1>1, <2>1, <2>2, <2>5, <3>1, <3>2, MoveOn DEF WInv
  <2>8. Logged'
    BY <2>7 DEF Logged, Leading
  <2>9. QED
    BY <1>1, <2>7, <2>8, KeptBackground, KeptData DEF WInv
<1>4. QED
  BY <1>2, <1>3

LEMMA SyncFailsStep == ASSUME WInv, NEW t \in Threads, SyncFails(t) PROVE WInv'
<1>1. /\ UNCHANGED kept /\ bg' = bg /\ ops' = ops /\ pc[t] = "sync"
      /\ \E others : FinishWaking(t, group, FALSE, others)
  BY DEF SyncFails, kept, disk, tables, numbers, history
<1>2. IsGroup(t, group)
  BY <1>1, LeaderGroup DEF WInv
<1>3. QED
  BY <1>1, <1>2, FinishStep

LEMMA ReturnSteps == ASSUME WInv, NEW t \in Threads, Return(t) \/ FlushWait(t) PROVE WInv'
<1>1. /\ UNCHANGED kept /\ bg' = bg /\ UNCHANGED <<queue, group, req, ops, up, lastSeq>>
      /\ pc[t] \in {"done", "flush"} /\ up = "up"
  BY DEF Return, FlushWait, kept, memVars, bgVars, disk, tables, numbers, history
<1>2. \E to \in {"idle", "flush"} : pc' = [pc EXCEPT ![t] = to] \/ pc' = pc
  BY DEF Return, FlushWait
<1>3. QInv' /\ \A u \in Threads : pc'[u] \in Leading => pc[u] = pc'[u]
  BY <1>1, <1>2, MoveOut DEF WInv
<1>4. Logged'
  BY <1>1, <1>3, SameLeader DEF kept, Leading
<1>5. QED
  BY <1>1, <1>3, <1>4, KeptBackground, KeptData DEF WInv

LEMMA Scheduled ==
  ASSUME NEW err, NEW immutable, NEW files, NEW thread \in {"idle", "scheduled"}
  PROVE  MaybeSchedule(thread, err, immutable, files) \in {"idle", "scheduled"}
  BY DEF MaybeSchedule

LEMMA BGFailsDone ==
  ASSUME NEW after, BGFails(after)
  PROVE  /\ UNCHANGED <<queue, group, pc, req, ops, lastSeq, mem, imm, hasImm, logs, logNo, nextFile, logNumber, up>>
         /\ acked' = acked /\ ackedSync' = ackedSync /\ bg' = after /\ bgError' = TRUE
  BY DEF BGFails, memVars, numbers, history

LEMMA FlushFailsDone == ASSUME FlushFails PROVE \E after \in {"idle", "compact"} : BGFails(after)
  BY DEF FlushFails

\* What the steps that leave the disk alone do.
LEMMA BackgroundKeeps ==
  ASSUME BGStart \/ BGFlushInside \/ BuildTable \/ BGMergeFails
  PROVE  /\ UNCHANGED kept /\ UNCHANGED <<queue, group, pc, req, ops, lastSeq>>
         /\ up = "up" /\ bgError' \in {bgError, TRUE}
         /\ \/ bg' \in {"idle", "scheduled", "compact"}
            \/ bg' = "build" /\ hasImm
            \/ bg' = "manifest" /\ bg = "build"
<1>1. CASE BGStart
  BY <1>1, Scheduled DEF BGStart, BGDone, kept, memVars, disk, tables, numbers, history
<1>2. CASE BGFlushInside
  BY <1>2 DEF BGFlushInside, kept, writerVars, memVars, disk, tables, numbers, history
<1>3. CASE BuildTable
  <2>1. CASE FlushFails /\ UNCHANGED tables
    BY <1>3, <2>1, FlushFailsDone, BGFailsDone DEF BuildTable, kept, tables
  <2>2. CASE bg' = "manifest" /\ UNCHANGED <<writerVars, memVars, compacting, bgError, disk, numbers, up, history>>
    BY <1>3, <2>2 DEF BuildTable, kept, writerVars, memVars, disk, tables, numbers, history
  <2>3. QED
    BY <1>3, <2>1, <2>2 DEF BuildTable
<1>4. CASE BGMergeFails
  BY <1>4, BGFailsDone DEF BGMergeFails, kept, tables
<1>5. QED
  BY <1>1, <1>2, <1>3, <1>4

LEMMA BackgroundSteps ==
  ASSUME WInv, BGStart \/ BGFlushInside \/ BuildTable \/ BGMergeFails
  PROVE  WInv'
<1>1. BackgroundOK'
  BY BackgroundKeeps DEF WInv, DInv, Immutable, BackgroundOK, kept
<1>2. QED
  BY <1>1, BackgroundKeeps, StayStep

-----------------------------------------------------------------------------
(* Steps that write.                                                       *)

\* Opening finds what it found, and perhaps more.
LEMMA FindsMore ==
  ASSUME manifest' = manifest,
         \A n \in DOMAIN logs : n >= manifest.log =>
            /\ n \in DOMAIN logs'
            /\ Full(logs[n]) \subseteq Full(logs'[n]) /\ Safe(logs[n]) \subseteq Safe(logs'[n])
  PROVE  Recoverable \subseteq Recoverable' /\ Synced \subseteq Synced'
  BY OpeningFinds, OpeningWillFind

\* A new log is created, in the place of one that is not live if any.
LEMMA NewLog ==
  ASSUME LogsOK, NEW new \in Nat, {logNo', nextFile', logNumber'} \subseteq Nat,
         UNCHANGED <<manifest, halfEdit>>,
         \A n \in DOMAIN logs : n >= manifest.log => n # new,
         logs' = [n \in DOMAIN logs \cup {new} |-> IF n = new THEN EmptyLog ELSE logs[n]]
  PROVE  /\ LogsOK'
         /\ DOMAIN logs' = DOMAIN logs \cup {new} /\ logs'[new] = EmptyLog
         /\ Recoverable \subseteq Recoverable' /\ Synced \subseteq Synced'
<1>1. DOMAIN logs' = DOMAIN logs \cup {new} /\ logs'[new] = EmptyLog
  OBVIOUS
<1>2. \A n \in DOMAIN logs : n # new => logs'[n] = logs[n]
  OBVIOUS
<1>3. \E N \in Nat : DOMAIN logs' \subseteq 0..N
  <2>1. PICK N \in Nat : DOMAIN logs \subseteq 0..N
    BY DEF LogsOK
  <2>2. N + new \in Nat /\ \A n \in 0..N : n \in 0..N + new
    OBVIOUS
  <2>3. new \in 0..N + new
    OBVIOUS
  <2>4. QED
    BY <1>1, <2>1, <2>2, <2>3
<1>4. \A n \in DOMAIN logs' : IsLog(logs'[n])
  BY <1>1, <1>2, NothingLogged DEF LogsOK
<1>5. logs' = [n \in DOMAIN logs' |-> logs'[n]]
  BY <1>1
<1>6. LogsOK'
  <2>1. {logNo', nextFile', logNumber', manifest'.log, manifest'.next} \subseteq Nat /\ manifest'.log <= manifest'.next
    BY DEF LogsOK
  <2>2. QED
    BY <1>3, <1>4, <1>5, <2>1 DEF LogsOK
<1>7. QED
  BY <1>1, <1>2, <1>6, FindsMore

LEMMA RoomSwitchStep == ASSUME WInv, NEW t \in Threads, RoomSwitch(t) PROVE WInv'
<1>1. /\ UNCHANGED <<queue, group, pc, req, ops, up, lastSeq, manifest, halfEdit, logNumber, acked, ackedSync>>
      /\ pc[t] = "lead" /\ up = "up" /\ ~hasImm /\ hasImm' = TRUE
      /\ nextFile' = nextFile + 1 /\ logNo' = nextFile /\ imm' = mem /\ mem' = {}
      /\ logs' = [n \in DOMAIN logs \cup {nextFile} |-> IF n = nextFile THEN EmptyLog ELSE logs[n]]
      /\ bg' = MaybeSchedule(bg, bgError, TRUE, l0)
  BY DEF RoomSwitch, CanSwitch, InRoom, tables, history
<1>2. QInv'
  BY <1>1, SameQueue DEF WInv
<1>3. nextFile \in Nat /\ logNo \in Nat /\ manifest.log \in Nat /\ logNo < nextFile /\ manifest.log <= logNo
      /\ logNumber \in Nat /\ logNumber <= manifest.log
      /\ \A n \in DOMAIN logs : n \in Nat /\ n <= logNo
  BY <1>1 DEF WInv, DInv, LogsOK, CurrentLog
<1>4. \A n \in DOMAIN logs : n < nextFile /\ n # nextFile
  BY <1>3
<1>5. /\ LogsOK' /\ DOMAIN logs' = DOMAIN logs \cup {nextFile} /\ logs'[nextFile] = EmptyLog
      /\ Recoverable \subseteq Recoverable' /\ Synced \subseteq Synced'
  <2>1. {logNo', nextFile', logNumber'} \subseteq Nat
    BY <1>1, <1>3
  <2>2. /\ UNCHANGED <<manifest, halfEdit>>
        /\ logs' = [n \in DOMAIN logs \cup {nextFile} |-> IF n = nextFile THEN EmptyLog ELSE logs[n]]
    BY <1>1
  <2>3. LogsOK
    BY DEF WInv, DInv
  <2>4. QED
    BY <1>3, <1>4, <2>1, <2>2, <2>3, NewLog
<1>6. Logged'
  <2>1. \A u \in Threads : pc[u] \notin {"sync", "mem"}
    BY <1>1, OneLeader DEF WInv, Leading
  <2>2. QED
    BY <1>1, <2>1 DEF Logged
<1>7. bg \notin {"build", "manifest", "commit"}
  BY <1>1 DEF WInv, DInv, Immutable
<1>8. Immutable'
  <2>1. bg' \notin {"build", "manifest", "commit"}
    BY <1>1, <1>7 DEF MaybeSchedule
  <2>2. QED
    BY <1>1, <2>1 DEF Immutable
<1>9. imm = {}
  BY <1>1 DEF WInv, DInv, Immutable
<1>10. mem \subseteq Recoverable /\ acked \subseteq mem \cup manifest.entries
  BY <1>1, <1>9, CurrentIsFound DEF WInv, DInv, Places, AckedReadable
<1>11. Places' /\ AckedReadable'
  BY <1>1, <1>5, <1>10 DEF WInv, DInv, Places, AckedReadable
<1>12. CurrentLog' /\ Empty'
  BY <1>1, <1>3, <1>4, <1>5 DEF WInv, DInv, CurrentLog, Empty
<1>13. AckedSurvive' /\ SyncedSurvive'
  BY <1>1, <1>5 DEF WInv, DInv, AckedSurvive, SyncedSurvive
<1>14. QED
  BY <1>1, <1>2, <1>5, <1>6, <1>8, <1>11, <1>12, <1>13 DEF WInv, DInv

\* The current log is replaced by one that holds more.
LEMMA LogGrows ==
  ASSUME DInv, up = "up", NEW h, IsLog(h), logs' = [logs EXCEPT ![logNo] = h],
         Full(logs[logNo]) \subseteq Full(h), Safe(logs[logNo]) \subseteq Safe(h),
         UNCHANGED <<mem, imm, hasImm, manifest, halfEdit, logNo, nextFile, logNumber, up, bg, acked, ackedSync>>
  PROVE  /\ logs'[logNo] = h
         /\ Logged' => DInv'
<1>1. logNo \in DOMAIN logs
  BY DEF DInv, CurrentLog
<1>2. /\ DOMAIN logs' = DOMAIN logs /\ logs'[logNo] = h
      /\ \A n \in DOMAIN logs : n # logNo => logs'[n] = logs[n]
  BY <1>1
<1>3. Recoverable \subseteq Recoverable' /\ Synced \subseteq Synced'
  BY <1>2, FindsMore
<1>4. LogsOK'
  <2>1. \A n \in DOMAIN logs' : IsLog(logs'[n])
    BY <1>2 DEF DInv, LogsOK
  <2>2. logs' = [n \in DOMAIN logs' |-> logs'[n]]
    OBVIOUS
  <2>3. \E N \in Nat : DOMAIN logs' \subseteq 0..N
    BY <1>2 DEF DInv, LogsOK
  <2>4. QED
    BY <2>1, <2>2, <2>3 DEF DInv, LogsOK
<1>5. Places'
  BY <1>2, <1>3 DEF DInv, Places
<1>6. Empty' /\ CurrentLog' /\ Immutable'
  BY <1>2 DEF DInv, Empty, CurrentLog, Immutable
<1>7. AckedReadable' /\ AckedSurvive' /\ SyncedSurvive'
  BY <1>3 DEF DInv, AckedReadable, AckedSurvive, SyncedSurvive
<1>8. QED
  BY <1>2, <1>4, <1>5, <1>6, <1>7 DEF DInv

\* The leader takes the next step of its write.
LEMMA NextStage ==
  ASSUME WInv, NEW t \in Threads, NEW to \in {"sync", "mem"}, up = "up", pc[t] \in {"log", "sync", "mem"},
         UNCHANGED <<queue, group, req, ops, up, lastSeq>>, pc' = [pc EXCEPT ![t] = to]
  PROVE  /\ QInv'
         /\ GroupEntries' = GroupEntries
         /\ \A u \in Threads : pc'[u] \in Leading => u = t /\ pc'[u] = to
<1>1. Len(queue) > 0 /\ queue[1] = t
  BY DEF WInv, QInv, QueueOK, Leading
<1>2. QInv' /\ \A u \in Threads : pc'[u] \in Leading => u = t /\ pc'[u] = to
  <2>1. to \in Leading /\ pc[t] \in Leading \cup {"queued"}
    BY DEF Leading
  <2>2. group' \in Seq(Threads)
    BY DEF WInv, QInv, QTypeOK
  <2>3. /\ Len(group') \in 1..Len(queue)
        /\ \A i \in 1..Len(group') : group'[i] = queue[i] /\ (req[group'[i]].sync => req[t].sync)
    BY DEF WInv, QInv, GroupOK
  <2>4. QED
    BY <1>1, <2>1, <2>2, <2>3, MoveOn DEF WInv
<1>3. QED
  BY <1>2, SameGroup DEF WInv, QInv, QTypeOK

LEMMA AppendStep == ASSUME WInv, NEW t \in Threads, AppendRecord(t) PROVE WInv'
<1> DEFINE g == logs[logNo]
           to == IF req[t].sync THEN "sync" ELSE "mem"
           h == [recs |-> Append(g.recs, [entries |-> GroupEntries, readable |-> TRUE]), synced |-> g.synced,
                 torn |-> FALSE]
<1>1. /\ UNCHANGED <<queue, group, req, ops, up, lastSeq>>
      /\ UNCHANGED <<mem, imm, hasImm, manifest, halfEdit, logNo, nextFile, logNumber, up, bg, acked, ackedSync>>
      /\ pc[t] = "log" /\ up = "up" /\ pc' = [pc EXCEPT ![t] = to]
  BY DEF AppendRecord, memVars, bgVars, tables, numbers, history
<1>2. IsLog(g)
  BY <1>1, CurrentIsFound DEF WInv
<1>3. g.torn = FALSE /\ g = [recs |-> g.recs, synced |-> g.synced, torn |-> g.torn]
  BY <1>2 DEF IsLog
<1>4. logs' = [logs EXCEPT ![logNo] = h]
  <2>1. AddRecord(TRUE, FALSE)
    BY <1>3 DEF AppendRecord
  <2>2. QED
    BY <2>1 DEF AddRecord
<1>5. IsLog(h) /\ Full(h) = Full(g) \cup GroupEntries /\ Safe(h) = Safe(g)
  BY <1>2, OneMore
<1> HIDE DEF h
<1>6. logs'[logNo] = h /\ (Logged' => DInv')
  BY <1>1, <1>4, <1>5, LogGrows DEF WInv
<1>7. /\ QInv' /\ GroupEntries' = GroupEntries
      /\ \A u \in Threads : pc'[u] \in Leading => u = t /\ pc'[u] = to
  BY <1>1, NextStage
<1>8. Logged'
  BY <1>1, <1>5, <1>6, <1>7 DEF Logged, Leading
<1>9. QED
  BY <1>6, <1>7, <1>8 DEF WInv

LEMMA SyncStep == ASSUME WInv, NEW t \in Threads, SyncLog(t) PROVE WInv'
<1> DEFINE g == logs[logNo]
           h == [g EXCEPT !.synced = Len(g.recs)]
<1>1. /\ UNCHANGED <<queue, group, req, ops, up, lastSeq>>
      /\ UNCHANGED <<mem, imm, hasImm, manifest, halfEdit, logNo, nextFile, logNumber, up, bg, acked, ackedSync>>
      /\ pc[t] = "sync" /\ up = "up" /\ pc' = [pc EXCEPT ![t] = "mem"]
      /\ logs' = [logs EXCEPT ![logNo] = h]
  BY Zenon DEF SyncLog, memVars, bgVars, tables, numbers, history
<1>2. IsLog(g) /\ Safe(g) \subseteq Full(g)
  BY <1>1, CurrentIsFound DEF WInv
<1>3. IsLog(h) /\ Full(h) = Full(g) /\ Safe(h) = Full(g)
  BY <1>2, AllSynced
<1> HIDE DEF h
<1>4. logs'[logNo] = h /\ (Logged' => DInv')
  BY <1>1, <1>2, <1>3, LogGrows DEF WInv
<1>5. /\ QInv' /\ GroupEntries' = GroupEntries
      /\ \A u \in Threads : pc'[u] \in Leading => u = t /\ pc'[u] = "mem"
  BY <1>1, NextStage
<1>6. GroupEntries \subseteq Full(g)
  BY <1>1 DEF WInv, DInv, Logged
<1>7. Logged'
  BY <1>1, <1>3, <1>4, <1>5, <1>6 DEF Logged, Leading
<1>8. QED
  BY <1>4, <1>5, <1>7 DEF WInv

LEMMA InsertStep == ASSUME WInv, NEW t \in Threads, InsertMem(t) PROVE WInv'
<1>1. /\ UNCHANGED <<imm, hasImm, bg, logs, manifest, halfEdit, logNo, nextFile, logNumber, up, ops>>
      /\ pc[t] = "mem" /\ up = "up" /\ FinishWaking(t, group, TRUE, {})
      /\ mem' = mem \cup GroupEntries /\ acked' = acked \cup GroupEntries
      /\ ackedSync' = ackedSync \cup
            {e \in GroupEntries : \E i \in 1..Len(group) : req[group[i]] = [id |-> e[2], sync |-> TRUE]}
  BY DEF InsertMem, Finish, bgVars, disk, tables, numbers
<1>2. IsGroup(t, group)
  BY <1>1, LeaderGroup DEF WInv
<1>3. QInv' /\ \A u \in Threads : pc'[u] \notin Leading
  BY <1>1, <1>2, FinishQueue DEF WInv
<1>4. Recoverable' = Recoverable /\ Synced' = Synced
  BY <1>1 DEF Recoverable, Synced, LiveLogs, RecordEntries
<1>5. GroupEntries \subseteq Full(logs[logNo])
  BY <1>1 DEF WInv, DInv, Logged
<1>6. ackedSync' \subseteq ackedSync \cup GroupEntries /\ ackedSync' \subseteq ackedSync \cup Safe(logs[logNo])
  <2>1. \A i \in 1..Len(group) : req[group[i]].sync => req[t].sync
    BY <1>1 DEF WInv, QInv, GroupOK
  <2>2. \A e : (\E i \in 1..Len(group) : req[group[i]] = [id |-> e[2], sync |-> TRUE]) => req[t].sync
    BY <2>1
  <2>3. req[t].sync => GroupEntries \subseteq Safe(logs[logNo])
    BY <1>1 DEF WInv, DInv, Logged
  <2>4. QED
    BY <1>1, <2>2, <2>3
<1>7. /\ Full(logs[logNo]) \subseteq Recoverable /\ Safe(logs[logNo]) \subseteq Synced
      /\ Safe(logs[logNo]) \subseteq Full(logs[logNo])
  BY <1>1, CurrentIsFound DEF WInv
<1>8. LogsOK' /\ Empty' /\ CurrentLog' /\ Immutable'
  BY <1>1 DEF WInv, DInv, LogsOK, Empty, CurrentLog, Immutable
<1>9. Places' /\ AckedReadable'
  BY <1>1, <1>4, <1>5, <1>6 DEF WInv, DInv, Places, AckedReadable
<1>10. AckedSurvive' /\ SyncedSurvive' /\ ackedSync' \subseteq acked'
  BY <1>1, <1>4, <1>5, <1>6, <1>7 DEF WInv, DInv, AckedSurvive, SyncedSurvive
<1>11. QED
  BY <1>3, <1>8, <1>9, <1>10, NobodyLeads DEF WInv, DInv

-----------------------------------------------------------------------------
(* The manifest, crashes and recovery.                                     *)

\* A record of the manifest is there or not.
LEMMA EditOutcome ==
  ASSUME WholeWrites, ~halfEdit, NEW edit, NEW files,
         \/ WriteEdit(edit) /\ halfEdit' = halfEdit
         \/ EditFails(edit, files)
  PROVE  manifest' \in {manifest, edit} /\ halfEdit' = halfEdit
  BY DEF WholeWrites, EditFails, WriteEdit, tables

\* What LogAndApply does for a flush ...
LEMMA Applies ==
  ASSUME WholeWrites, WInv, LogAndApply
  PROVE  /\ UNCHANGED <<queue, group, pc, req, ops, lastSeq, mem, imm, hasImm, logs, halfEdit,
                        logNo, nextFile, logNumber, up, acked, ackedSync>>
         /\ manifest' \in {manifest, NewManifest}
         /\ up = "up" /\ bg = "manifest" /\ hasImm /\ bgError' \in {bgError, TRUE}
         /\ bg' \in {"idle", "compact"} \/ (bg' = "commit" /\ manifest' = NewManifest)
<1>1. up = "up" /\ bg = "manifest" /\ hasImm /\ ~halfEdit
  BY DEF LogAndApply, WInv, DInv, Immutable, LogsOK
<1>2. CASE FlushFails /\ EditFails(NewManifest, FlushedFiles)
  BY <1>1, <1>2, FlushFailsDone, BGFailsDone, EditOutcome
<1>3. CASE /\ WriteEdit(NewManifest) /\ bg' = "commit"
           /\ UNCHANGED <<writerVars, memVars, compacting, bgError, logs, halfEdit, l0, numbers, up, history>>
  BY <1>1, <1>3 DEF WriteEdit, writerVars, memVars, numbers, history
<1>4. QED
  BY <1>1, <1>2, <1>3 DEF LogAndApply

\* ... and for a compaction.
LEMMA Moves ==
  ASSUME WholeWrites, WInv, BGMove \/ BGInstall
  PROVE  /\ UNCHANGED <<queue, group, pc, req, ops, lastSeq, mem, imm, hasImm, logs, halfEdit,
                        logNo, nextFile, logNumber, up, acked, ackedSync>>
         /\ manifest' \in {manifest, MovedManifest}
         /\ up = "up" /\ bgError' \in {bgError, TRUE}
         /\ bg' \in {"idle", "merged", "moved"}
<1>1. up = "up" /\ ~halfEdit
  BY DEF BGMove, BGInstall, WInv, DInv, LogsOK
<1>2. \E files : \E done \in {"merged", "moved"} : ApplyMove(files, done)
  <2>1. ApplyMove(1, "moved") \/ ApplyMove(compacting, "merged")
    BY DEF BGMove, BGInstall
  <2>2. QED
    BY <2>1
<1> PICK files, done : done \in {"merged", "moved"} /\ ApplyMove(files, done)
  BY <1>2
<1>3. CASE BGFails("idle") /\ EditFails(MovedManifest, {l0 - files})
  BY <1>1, <1>3, BGFailsDone, EditOutcome
<1>4. CASE /\ WriteEdit(MovedManifest) /\ bg' = done
           /\ UNCHANGED <<writerVars, memVars, compacting, bgError, logs, halfEdit, l0, numbers, up, history>>
  BY <1>1, <1>4 DEF WriteEdit, writerVars, memVars, numbers, history
<1>5. QED
  BY <1>3, <1>4 DEF ApplyMove

\* The manifest names the current log: the older ones are only the immutable
\* memtable's, which is in a table now.
LEMMA ManifestStep == ASSUME WholeWrites, WInv, LogAndApply PROVE WInv'
<1>1. /\ UNCHANGED <<queue, group, pc, req, ops, lastSeq, mem, imm, hasImm, logs, halfEdit,
                     logNo, nextFile, logNumber, up, acked, ackedSync>>
      /\ manifest' \in {manifest, NewManifest}
      /\ up = "up" /\ bg = "manifest" /\ hasImm
      /\ bg' \in {"idle", "compact"} \/ (bg' = "commit" /\ manifest' = NewManifest)
  BY Applies
<1>2. CASE manifest' = manifest
  <2>1. BackgroundOK'
    BY <1>1, <1>2 DEF BackgroundOK, NewManifest
  <2>2. QED
    BY <1>1, <1>2, <2>1, StayStep DEF kept
<1>3. CASE manifest' = NewManifest
  <2>1. /\ manifest'.log = logNo /\ manifest'.next = nextFile
        /\ manifest'.entries = manifest.entries \cup imm
    BY <1>3 DEF NewManifest
  <2>2. /\ logNo \in DOMAIN logs /\ logNo \in Nat /\ nextFile \in Nat /\ logNo < nextFile
        /\ logNumber \in Nat /\ manifest.log \in Nat /\ logNumber <= manifest.log /\ manifest.log <= logNo
        /\ \A n \in DOMAIN logs : n <= logNo
    BY <1>1 DEF WInv, DInv, LogsOK, CurrentLog
  <2>3. /\ manifest.entries \cup imm \cup Full(logs[logNo]) \subseteq Recoverable'
        /\ manifest.entries \cup imm \cup Safe(logs[logNo]) \subseteq Synced'
    BY <1>1, <2>1, <2>2, OpeningWillFind
  <2>4. QInv'
    BY <1>1, SameQueue DEF WInv
  <2>5. Logged'
    BY <1>1, SameLeader
  <2>6. LogsOK' /\ Empty' /\ CurrentLog' /\ Immutable'
    BY <1>1, <2>1, <2>2 DEF WInv, DInv, LogsOK, Empty, CurrentLog, Immutable
  <2>7. Places' /\ AckedReadable'
    BY <1>1, <2>1, <2>3 DEF WInv, DInv, Places, AckedReadable
  <2>8. AckedSurvive' /\ SyncedSurvive'
    BY <1>1, <2>3 DEF WInv, DInv, Places, AckedReadable, AckedSurvive, SyncedSurvive
  <2>9. QED
    BY <1>1, <2>4, <2>5, <2>6, <2>7, <2>8 DEF WInv, DInv
<1>4. QED
  BY <1>1, <1>2, <1>3

\* A compaction takes the manifest's log number back to that of the current
\* version: more logs count again.
LEMMA InstallStep == ASSUME WholeWrites, WInv, BGMove \/ BGInstall PROVE WInv'
<1>1. /\ UNCHANGED <<queue, group, pc, req, ops, lastSeq, mem, imm, hasImm, logs, halfEdit,
                     logNo, nextFile, logNumber, up, acked, ackedSync>>
      /\ manifest' \in {manifest, MovedManifest}
      /\ up = "up" /\ bg' \in {"idle", "merged", "moved"}
  BY Moves
<1>2. CASE manifest' = manifest
  <2>1. BackgroundOK'
    BY <1>1, <1>2 DEF BackgroundOK
  <2>2. QED
    BY <1>1, <1>2, <2>1, StayStep DEF kept
<1>3. CASE manifest' = MovedManifest
  <2>1. manifest'.log = logNumber /\ manifest'.next = nextFile /\ manifest'.entries = manifest.entries
    BY <1>3 DEF MovedManifest
  <2>2. /\ logNo \in Nat /\ nextFile \in Nat /\ logNo < nextFile
        /\ logNumber \in Nat /\ manifest.log \in Nat /\ logNumber <= manifest.log /\ manifest.log <= logNo
        /\ \A n \in DOMAIN logs : n \in Nat
    BY <1>1 DEF WInv, DInv, LogsOK, CurrentLog
  <2>3. \A n \in DOMAIN logs : n >= manifest.log => n >= logNumber
    BY <2>2
  <2>4. Recoverable \subseteq Recoverable' /\ Synced \subseteq Synced'
    BY <1>1, <2>1, <2>3, OpeningFinds, OpeningWillFind
  <2>5. QInv'
    BY <1>1, SameQueue DEF WInv
  <2>6. Logged'
    BY <1>1, SameLeader
  <2>7. LogsOK' /\ Empty' /\ CurrentLog' /\ Immutable'
    BY <1>1, <2>1, <2>2 DEF WInv, DInv, LogsOK, Empty, CurrentLog, Immutable
  <2>8. Places' /\ AckedReadable'
    BY <1>1, <2>1, <2>4 DEF WInv, DInv, Places, AckedReadable
  <2>9. AckedSurvive' /\ SyncedSurvive'
    BY <1>1, <2>4 DEF WInv, DInv, AckedSurvive, SyncedSurvive
  <2>10. QED
    BY <1>1, <2>5, <2>6, <2>7, <2>8, <2>9 DEF WInv, DInv
<1>4. QED
  BY <1>1, <1>2, <1>3

\* Deleting obsolete logs spares the live ones.
LEMMA Deletes ==
  ASSUME LogsOK, DeleteObsolete, logNumber' \in Nat, logNumber' <= manifest.log
  PROVE  /\ DOMAIN logs' \subseteq DOMAIN logs
         /\ \A n \in DOMAIN logs' : logs'[n] = logs[n]
         /\ \A n \in DOMAIN logs : n >= manifest.log => n \in DOMAIN logs'
         /\ logs' = [n \in DOMAIN logs' |-> logs'[n]]
<1>1. CASE logs' = logs
  BY <1>1 DEF LogsOK
<1>2. CASE logs' = [n \in DOMAIN logs \ ObsoleteLogs |-> logs[n]]
  <2>1. manifest.log \in Nat /\ \A n \in DOMAIN logs : n \in Nat
    BY DEF LogsOK
  <2>2. \A n \in DOMAIN logs : n >= manifest.log => n \notin ObsoleteLogs
    BY <2>1 DEF ObsoleteLogs
  <2>3. QED
    BY <1>2, <2>2
<1>3. QED
  BY <1>1, <1>2 DEF DeleteObsolete

\* The end of a flush or of a compaction: the new version.
LEMMA Commits ==
  ASSUME WInv, CommitFlush \/ BGCompacted
  PROVE  /\ UNCHANGED <<queue, group, pc, req, ops, lastSeq, mem, manifest, halfEdit, logNo, nextFile, up,
                        bgError, acked, ackedSync>>
         /\ up = "up" /\ bg' \in {"idle", "scheduled", "compact"}
         /\ \/ UNCHANGED <<imm, hasImm>>
            \/ imm \subseteq manifest.entries /\ imm' = {} /\ hasImm' = FALSE
         /\ logNumber' \in Nat /\ logNumber <= logNumber' /\ logNumber' <= manifest.log
         /\ DOMAIN logs' \subseteq DOMAIN logs
         /\ \A n \in DOMAIN logs' : logs'[n] = logs[n]
         /\ \A n \in DOMAIN logs : n >= manifest.log => n \in DOMAIN logs'
         /\ logs' = [n \in DOMAIN logs' |-> logs'[n]]
<1>1. /\ UNCHANGED <<queue, group, pc, req, ops, lastSeq, mem, manifest, halfEdit, logNo, nextFile, up,
                     bgError, acked, ackedSync>>
      /\ up = "up" /\ bg' \in {"idle", "scheduled", "compact"}
  <2>1. CASE CommitFlush
    BY <2>1, Scheduled DEF CommitFlush, BGDone, history
  <2>2. CASE BGCompacted
    BY <2>2, Scheduled DEF BGCompacted, BGDone, memVars, numbers, history
  <2>3. QED
    BY <2>1, <2>2
<1>2. /\ LogsOK /\ logNumber \in Nat /\ manifest.log \in Nat /\ logNo \in Nat
      /\ logNumber <= manifest.log /\ manifest.log <= logNo
  BY <1>1 DEF WInv, DInv, LogsOK, CurrentLog
<1>3. /\ \/ UNCHANGED <<imm, hasImm>>
         \/ imm \subseteq manifest.entries /\ imm' = {} /\ hasImm' = FALSE
      /\ logNumber' \in Nat /\ logNumber <= logNumber' /\ logNumber' <= manifest.log
  <2>1. CASE CommitFlush
    BY <1>2, <2>1 DEF CommitFlush, WInv, DInv, Immutable
  <2>2. CASE BGCompacted
    BY <1>2, <2>2 DEF BGCompacted, memVars, numbers
  <2>3. QED
    BY <2>1, <2>2
<1>4. DeleteObsolete \/ logs' = logs
  BY DEF CommitFlush, BGCompacted
<1>5. QED
  <2>1. CASE DeleteObsolete
    BY <1>1, <1>2, <1>3, <2>1, Deletes
  <2>2. CASE logs' = logs
    BY <1>1, <1>2, <1>3, <2>2 DEF LogsOK
  <2>3. QED
    BY <1>4, <2>1, <2>2

LEMMA CommitStep == ASSUME WInv, CommitFlush \/ BGCompacted PROVE WInv'
<1>1. /\ UNCHANGED <<queue, group, pc, req, ops, lastSeq, mem, manifest, halfEdit, logNo, nextFile, up, acked, ackedSync>>
      /\ up = "up" /\ bg' \in {"idle", "scheduled", "compact"}
      /\ \/ UNCHANGED <<imm, hasImm>>
         \/ imm \subseteq manifest.entries /\ imm' = {} /\ hasImm' = FALSE
      /\ logNumber' \in Nat /\ logNumber' <= manifest.log
  BY Commits
<1>2. manifest.log \in Nat /\ logNo \in Nat /\ \A n \in DOMAIN logs : n \in Nat
  BY <1>1 DEF WInv, DInv, LogsOK
<1>3. /\ DOMAIN logs' \subseteq DOMAIN logs
      /\ \A n \in DOMAIN logs' : logs'[n] = logs[n]
      /\ \A n \in DOMAIN logs : n >= manifest.log => n \in DOMAIN logs'
      /\ logs' = [n \in DOMAIN logs' |-> logs'[n]]
  BY Commits
<1>4. Recoverable \subseteq Recoverable' /\ Synced \subseteq Synced'
  BY <1>1, <1>3, FindsMore
<1>5. LogsOK'
  <2>1. \E N \in Nat : DOMAIN logs' \subseteq 0..N
    BY <1>3 DEF WInv, DInv, LogsOK
  <2>2. \A n \in DOMAIN logs' : IsLog(logs'[n])
    BY <1>3 DEF WInv, DInv, LogsOK
  <2>3. QED
    BY <1>1, <1>3, <2>1, <2>2 DEF WInv, DInv, LogsOK
<1>6. CurrentLog' /\ logs'[logNo] = logs[logNo]
  BY <1>1, <1>2, <1>3 DEF WInv, DInv, CurrentLog
<1>7. QInv'
  BY <1>1, SameQueue DEF WInv
<1>8. Logged'
  <2>1. GroupEntries' = GroupEntries
    BY <1>1, SameGroup DEF WInv, QInv, QTypeOK
  <2>2. QED
    BY <1>1, <1>6, <2>1 DEF WInv, DInv, Logged
<1>9. Empty' /\ Immutable'
  BY <1>1 DEF WInv, DInv, Empty, Immutable
<1>10. Places' /\ AckedReadable'
  BY <1>1, <1>4, <1>6 DEF WInv, DInv, Places, AckedReadable
<1>11. AckedSurvive' /\ SyncedSurvive'
  BY <1>1, <1>4 DEF WInv, DInv, AckedSurvive, SyncedSurvive
<1>12. QED
  BY <1>1, <1>5, <1>6, <1>7, <1>8, <1>9, <1>10, <1>11 DEF WInv, DInv

\* A crash: nothing is left in memory, and the disk keeps what it promised.
LEMMA CrashKeeps ==
  ASSUME WInv, Forget, ops' = ops, ackedSync' = ackedSync, LogsOK',
         ackedSync \subseteq acked', acked' \subseteq Recoverable', Synced \subseteq Synced'
  PROVE  WInv'
<1>1. QInv'
  BY ForgetQueue DEF WInv
<1>2. /\ up' = "down" /\ mem' = {} /\ imm' = {} /\ hasImm' = FALSE /\ bg' = "idle"
      /\ \A u \in Threads : pc'[u] = "idle"
  BY DEF Forget
<1>3. Empty' /\ CurrentLog' /\ Logged' /\ Immutable' /\ Places' /\ AckedReadable'
  BY <1>2 DEF Empty, CurrentLog, Logged, Immutable, Places, AckedReadable
<1>4. AckedSurvive' /\ SyncedSurvive' /\ ackedSync' \subseteq acked'
  BY DEF WInv, DInv, AckedSurvive, SyncedSurvive
<1>5. QED
  BY <1>1, <1>3, <1>4 DEF WInv, DInv

LEMMA ProcessCrashStep == ASSUME WInv, ProcessCrash PROVE WInv'
<1>1. Forget /\ UNCHANGED <<logs, manifest, halfEdit, logNo, nextFile, logNumber, ops, acked, ackedSync>>
  BY DEF ProcessCrash, numbers, history
<1>2. Recoverable' = Recoverable /\ Synced' = Synced
  BY <1>1 DEF Recoverable, Synced, LiveLogs, RecordEntries
<1>3. LogsOK'
  BY <1>1 DEF WInv, DInv, LogsOK
<1>4. QED
  BY <1>1, <1>2, <1>3, CrashKeeps DEF WInv, DInv, AckedSurvive

LEMMA MachineCrashStep == ASSUME WInv, MachineCrash PROVE WInv'
<1>1. /\ Forget /\ UNCHANGED <<manifest, halfEdit, logNo, nextFile, logNumber, ops, ackedSync>> /\ acked' = ackedSync
  BY DEF MachineCrash, numbers
<1>2. PICK keep :
        /\ \A n \in DOMAIN logs : keep[n] \in logs[n].synced..Len(logs[n].recs)
        /\ logs' = [n \in DOMAIN logs |->
                        [recs |-> SubSeq(logs[n].recs, 1, keep[n]), synced |-> keep[n], torn |-> FALSE]]
  BY DEF MachineCrash
<1>3. DOMAIN logs' = DOMAIN logs
      /\ \A n \in DOMAIN logs : logs'[n] =
            [recs |-> SubSeq(logs[n].recs, 1, keep[n]), synced |-> keep[n], torn |-> FALSE]
  BY <1>2
<1>4. \A n \in DOMAIN logs : /\ IsLog(logs'[n])
                             /\ Safe(logs[n]) \subseteq Safe(logs'[n]) /\ Safe(logs'[n]) = Full(logs'[n])
  <2> SUFFICES ASSUME NEW n \in DOMAIN logs
               PROVE  /\ IsLog(logs'[n])
                      /\ Safe(logs[n]) \subseteq Safe(logs'[n]) /\ Safe(logs'[n]) = Full(logs'[n])
    OBVIOUS
  <2>1. IsLog(logs[n])
    BY DEF WInv, DInv, LogsOK
  <2>2. QED
    BY <1>2, <1>3, <2>1, CutOff
<1>5. Synced \subseteq Synced' /\ Synced \subseteq Recoverable'
  BY <1>1, <1>3, <1>4, OpeningFinds, OpeningWillFind
<1>6. LogsOK'
  <2>1. logs' = [n \in DOMAIN logs' |-> logs'[n]]
    BY <1>2
  <2>2. \E N \in Nat : DOMAIN logs' \subseteq 0..N
    BY <1>3 DEF WInv, DInv, LogsOK
  <2>3. QED
    BY <1>1, <1>3, <1>4, <2>1, <2>2 DEF WInv, DInv, LogsOK
<1>7. QED
  BY <1>1, <1>5, <1>6, CrashKeeps DEF WInv, DInv, SyncedSurvive

\* The number of the log that opening creates is above those of all logs:
\* of the live ones by its choice, of the others by that of the manifest.
LEMMA NextLogNumber ==
  ASSUME LogsOK
  PROVE  FreshNumber \in Nat /\ \A n \in DOMAIN logs : n \in Nat /\ n < FreshNumber
<1> DEFINE T == {manifest.next + 1} \cup {n + 1 : n \in LiveLogs}
           new == Max0(T)
<1>0. FreshNumber = new
  BY DEF FreshNumber
<1>1. manifest.next \in Nat /\ manifest.log \in Nat /\ manifest.log <= manifest.next
  BY DEF LogsOK
<1>2. PICK N \in Nat : DOMAIN logs \subseteq 0..N
  BY DEF LogsOK
<1>3. \A n \in LiveLogs : n \in Nat /\ n + 1 \in 0..N + manifest.next + 1
  BY <1>1, <1>2 DEF LiveLogs
<1>4. manifest.next + 1 \in 0..N + manifest.next + 1
  BY <1>1
<1>5. T \subseteq 0..N + manifest.next + 1 /\ T # {} /\ N + manifest.next + 1 \in Nat
  BY <1>1, <1>3, <1>4
<1> HIDE DEF T
<1>6. \E x \in T : \A y \in T : y <= x
  BY <1>5, HasMax
<1>7. Max0(T) \in T /\ \A y \in T : y <= Max0(T)
  BY <1>5, <1>6 DEF Max0
<1>8. \A n \in LiveLogs : n + 1 \in T
  BY DEF T
<1>9. new \in Nat
  <2>1. new \in 0..N + manifest.next + 1
    BY <1>5, <1>7
  <2>2. QED
    BY <1>5, <2>1
<1>10. (\A n \in LiveLogs : n + 1 <= new) /\ manifest.next + 1 <= new
  BY <1>7, <1>8 DEF T
<1> HIDE DEF new
<1>11. ASSUME NEW n \in DOMAIN logs PROVE n \in Nat /\ n < new
  <2>1. n \in Nat
    BY <1>2
  <2>2. CASE n >= manifest.log
    BY <1>9, <1>10, <2>1, <2>2 DEF LiveLogs
  <2>3. CASE ~(n >= manifest.log)
    BY <1>1, <1>9, <1>10, <2>1, <2>3
  <2>4. QED
    BY <2>2, <2>3
<1>12. QED
  BY <1>0, <1>9, <1>11

LEMMA RecoverStep == ASSUME WInv, Recover PROVE WInv'
<1> DEFINE new == FreshNumber
<1>1. /\ UNCHANGED <<queue, group, pc, req, ops, mem, imm, hasImm, bg, manifest, halfEdit, acked, ackedSync>>
      /\ up = "down" /\ up' = "opening" /\ logNo' = new /\ nextFile' = new + 1 /\ logNumber' = manifest.log
      /\ logs' = [n \in DOMAIN logs \cup {new} |-> IF n = new THEN EmptyLog ELSE logs[n]]
  BY DEF Recover, NewLogAs, volatile, tables, history
<1>2. new \in Nat /\ \A n \in DOMAIN logs : n \in Nat /\ n < new
  BY NextLogNumber DEF WInv, DInv
<1> HIDE DEF new
<1>3. \A n \in DOMAIN logs : n # new
  BY <1>2
<1>4. /\ LogsOK' /\ DOMAIN logs' = DOMAIN logs \cup {new} /\ logs'[new] = EmptyLog
      /\ Recoverable \subseteq Recoverable' /\ Synced \subseteq Synced'
  <2>1. {logNo', nextFile', logNumber'} \subseteq Nat
    BY <1>1, <1>2 DEF WInv, DInv, LogsOK
  <2>2. /\ UNCHANGED <<manifest, halfEdit>>
        /\ logs' = [n \in DOMAIN logs \cup {new} |-> IF n = new THEN EmptyLog ELSE logs[n]]
    BY <1>1
  <2>3. LogsOK
    BY DEF WInv, DInv
  <2>4. QED
    BY <1>2, <1>3, <2>1, <2>2, <2>3, NewLog
<1>5. QInv' /\ \A u \in Threads : pc'[u] = "idle"
  BY <1>1, SameQueue DEF WInv, QInv, Quiet
<1>6. Logged' /\ Empty' /\ CurrentLog' /\ Immutable' /\ Places'
  BY <1>1, <1>2, <1>4, <1>5 DEF WInv, DInv, Logged, Empty, CurrentLog, Immutable, Places
<1>7. AckedReadable' /\ AckedSurvive' /\ SyncedSurvive'
  BY <1>1, <1>4 DEF WInv, DInv, AckedReadable, AckedSurvive, SyncedSurvive
<1>8. QED
  BY <1>1, <1>4, <1>5, <1>6, <1>7 DEF WInv, DInv

LEMMA OpenInstallStep == ASSUME WInv, OpenInstall PROVE WInv'
<1>1. /\ UNCHANGED <<queue, group, pc, req, ops, mem, imm, hasImm, bg, logs, logNo, nextFile, acked, ackedSync>>
      /\ up = "opening" /\ up' = "opened" /\ logNumber' = logNo /\ halfEdit' = FALSE
      /\ manifest' = [log |-> logNo, next |-> nextFile, entries |-> Recoverable]
  BY DEF OpenInstall, volatile, history
<1>2. /\ logNo \in DOMAIN logs /\ logNo \in Nat /\ nextFile \in Nat /\ logNo < nextFile
      /\ logs[logNo] = EmptyLog /\ \A u \in Threads : pc[u] = "idle"
  BY <1>1 DEF WInv, QInv, Quiet, DInv, CurrentLog, LogsOK
<1>3. manifest'.log = logNo /\ manifest'.next = nextFile /\ manifest'.entries = Recoverable
  BY <1>1
<1>4. Recoverable \subseteq Recoverable' /\ Recoverable \subseteq Synced'
  BY <1>3, OpeningWillFind
<1>5. LogsOK'
  BY <1>1, <1>2, <1>3 DEF WInv, DInv, LogsOK
<1>6. QInv'
  BY <1>1, SameQueue DEF WInv
<1>7. Logged' /\ Empty' /\ CurrentLog' /\ Immutable' /\ Places'
  BY <1>1, <1>2, <1>3 DEF WInv, DInv, Logged, Empty, CurrentLog, Immutable, Places
<1>8. AckedReadable' /\ AckedSurvive' /\ SyncedSurvive' /\ ackedSync' \subseteq acked'
  BY <1>1, <1>4 DEF WInv, DInv, AckedReadable, AckedSurvive, SyncedSurvive
<1>9. QED
  BY <1>5, <1>6, <1>7, <1>8 DEF WInv, DInv

\* With the replayed tables installed, the logs hold nothing more.
LEMMA InstalledFinds == ASSUME DInv, up = "opened" PROVE Recoverable = manifest.entries
<1>1. /\ logNo \in Nat /\ manifest.log = logNo /\ logs[logNo] = EmptyLog
      /\ \A n \in DOMAIN logs : n \in Nat /\ n <= logNo
  BY DEF DInv, LogsOK, CurrentLog
<1>2. \A n \in DOMAIN logs : n >= manifest.log => Full(logs[n]) = {}
  BY <1>1, NothingLogged
<1>3. \A e : e \in Recoverable <=> e \in manifest.entries
  BY <1>2, OpeningFinds
<1>4. QED
  BY <1>3

LEMMA OpenStep == ASSUME WInv, Open PROVE WInv'
<1>1. /\ UNCHANGED <<queue, group, pc, req, ops, mem, imm, hasImm, logNo, nextFile, logNumber,
                     manifest, halfEdit, acked, ackedSync>>
      /\ up = "opened" /\ up' = "up" /\ DeleteObsolete
      /\ bg' \in {"idle", "scheduled"}
  BY Scheduled DEF Open, writerVars, memVars, tables, numbers, history
<1>2. mem = {} /\ imm = {} /\ ~hasImm /\ \A u \in Threads : pc[u] = "idle"
  BY <1>1 DEF WInv, QInv, Quiet, DInv, Empty
<1>3. /\ LogsOK /\ logNo \in DOMAIN logs /\ logNo \in Nat /\ nextFile \in Nat /\ logNo < nextFile
      /\ manifest.log = logNo /\ logNumber = logNo /\ \A n \in DOMAIN logs : n <= logNo
  BY <1>1 DEF WInv, DInv, CurrentLog, LogsOK
<1>4. /\ DOMAIN logs' \subseteq DOMAIN logs
      /\ \A n \in DOMAIN logs' : logs'[n] = logs[n]
      /\ \A n \in DOMAIN logs : n >= manifest.log => n \in DOMAIN logs'
      /\ logs' = [n \in DOMAIN logs' |-> logs'[n]]
  <2>1. logNumber' \in Nat /\ logNumber' <= manifest.log
    BY <1>1, <1>3
  <2>2. QED
    BY <1>1, <1>3, <2>1, Deletes
<1>5. LogsOK'
  <2>1. \E N \in Nat : DOMAIN logs' \subseteq 0..N
    BY <1>3, <1>4 DEF LogsOK
  <2>2. \A n \in DOMAIN logs' : IsLog(logs'[n])
    BY <1>3, <1>4 DEF LogsOK
  <2>3. QED
    BY <1>1, <1>3, <1>4, <2>1, <2>2 DEF LogsOK
<1>6. Recoverable \subseteq Recoverable' /\ Synced \subseteq Synced'
  BY <1>1, <1>4, FindsMore
<1>7. QInv'
  BY <1>1, SameQueue DEF WInv
<1>8. Logged' /\ Empty' /\ CurrentLog' /\ Immutable'
  BY <1>1, <1>2, <1>3, <1>4 DEF Logged, Empty, CurrentLog, Immutable
<1>9. acked \subseteq manifest.entries /\ ackedSync \subseteq acked
  BY <1>1, InstalledFinds DEF WInv, DInv, AckedSurvive
<1>10. Places' /\ AckedReadable' /\ AckedSurvive' /\ SyncedSurvive'
  BY <1>1, <1>2, <1>6, <1>9 DEF WInv, DInv, Places, AckedReadable, AckedSurvive, SyncedSurvive
<1>11. QED
  BY <1>1, <1>5, <1>7, <1>8, <1>9, <1>10 DEF WInv, DInv

-----------------------------------------------------------------------------
(* The invariant.                                                          *)

LEMMA WInvInit == ASSUME Init PROVE WInv
<1>1. /\ queue = <<>> /\ group = <<>> /\ pc = [t \in Threads |-> "idle"]
      /\ req = [t \in Threads |-> [id |-> 0, sync |-> FALSE]] /\ ops = 0
      /\ mem = {} /\ imm = {} /\ hasImm = FALSE /\ bg = "idle" /\ up = "up"
      /\ logs = [n \in {1} |-> EmptyLog] /\ logNo = 1 /\ nextFile = 2 /\ logNumber = 1
      /\ manifest = [log |-> 1, next |-> 2, entries |-> {}] /\ halfEdit = FALSE
      /\ acked = {} /\ ackedSync = {}
  BY DEF Init, NoReq
<1>2. QTypeOK
  BY <1>1 DEF QTypeOK, PCs
<1>3. Len(queue) = 0 /\ \A t \in Threads : pc[t] = "idle"
  BY <1>1
<1>4. QueueOK /\ GroupOK /\ Quiet
  BY <1>1, <1>3 DEF QueueOK, GroupOK, Quiet, Leading
<1>5. DOMAIN logs = {1} /\ logs[1] = EmptyLog /\ logs = [n \in DOMAIN logs |-> logs[n]]
  BY <1>1
<1>6. LogsOK
  <2>1. DOMAIN logs \subseteq 0..1 /\ 1 \in Nat
    BY <1>5
  <2>2. {logNo, nextFile, logNumber, manifest.log, manifest.next} \subseteq Nat /\ manifest.log <= manifest.next /\ ~halfEdit
    BY <1>1
  <2>3. QED
    BY <1>5, <2>1, <2>2, NothingLogged DEF LogsOK
<1>7. Empty /\ CurrentLog /\ Logged /\ Immutable /\ Places
  BY <1>1, <1>3, <1>5 DEF Empty, CurrentLog, Logged, Immutable, Places
<1>8. AckedReadable /\ AckedSurvive /\ SyncedSurvive /\ ackedSync \subseteq acked
  BY <1>1 DEF AckedReadable, AckedSurvive, SyncedSurvive
<1>9. QED
  BY <1>2, <1>4, <1>6, <1>7, <1>8 DEF WInv, QInv, DInv

LEMMA WInvStutters == ASSUME WInv, UNCHANGED vars PROVE WInv'
<1>1. UNCHANGED kept /\ UNCHANGED <<queue, group, pc, req, ops, lastSeq, bg>>
  BY DEF vars, volatile, disk, tables, history, kept
<1>2. QED
  BY <1>1, KeptBackground, StayStep DEF WInv

LEMMA WInvNext == ASSUME WholeWrites, WInv, [Next]_vars PROVE WInv'
<1>1. ASSUME NEW t \in Threads, WriterNext(t) PROVE WInv'
  <2>1. CASE Lead(t)
    BY <2>1, LeadStep
  <2>2. CASE RoomError(t) \/ RoomDelay(t) \/ RoomWait(t) \/ RoomNoLog(t)
    BY <2>2, RoomSteps
  <2>3. CASE RoomSwitch(t)
    BY <2>3, RoomSwitchStep
  <2>4. CASE RoomOk(t)
    BY <2>4, RoomOkStep
  <2>5. CASE AppendRecord(t)
    BY <2>5, AppendStep
  <2>6. CASE AppendFails(t)
    BY <2>6 DEF AppendFails, WholeWrites
  <2>7. CASE SyncLog(t)
    BY <2>7, SyncStep
  <2>8. CASE SyncFails(t)
    BY <2>8, SyncFailsStep
  <2>9. CASE InsertMem(t)
    BY <2>9, InsertStep
  <2>10. CASE Return(t) \/ FlushWait(t)
    BY <2>10, ReturnSteps
  <2>11. QED
    BY <1>1, <2>1, <2>2, <2>3, <2>4, <2>5, <2>6, <2>7, <2>8, <2>9, <2>10 DEF WriterNext, WriteLog, WakeUp
<1>2. CASE BGNext
  <2>1. CASE BGStart \/ BGFlushInside \/ BuildTable \/ BGMergeFails
    BY <2>1, BackgroundSteps
  <2>2. CASE LogAndApply
    BY <2>2, ManifestStep
  <2>3. CASE CommitFlush \/ BGCompacted
    BY <2>3, CommitStep
  <2>4. CASE BGMove \/ BGInstall
    BY <2>4, InstallStep
  <2>5. QED
    BY <1>2, <2>1, <2>2, <2>3, <2>4 DEF BGNext
<1>3. ASSUME NEW t \in Threads, NEW sync \in BOOLEAN, NEW null \in BOOLEAN, Write(t, sync, null) PROVE WInv'
  BY <1>3, WriteStep
<1>4. CASE ProcessCrash
  BY <1>4, ProcessCrashStep
<1>5. CASE MachineCrash
  BY <1>5, MachineCrashStep
<1>6. CASE Recover
  BY <1>6, RecoverStep
<1>7. CASE OpenInstall
  BY <1>7, OpenInstallStep
<1>8. CASE Open
  BY <1>8, OpenStep
<1>9. CASE UNCHANGED vars
  BY <1>9, WInvStutters
<1>10. QED
  BY <1>1, <1>2, <1>3, <1>4, <1>5, <1>6, <1>7, <1>8, <1>9 DEF Next

LEMMA Invariance == ASSUME WholeWrites PROVE Spec => []WInv
<1>1. Init => WInv
  BY WInvInit
<1>2. WInv /\ [Next]_vars => WInv'
  BY WInvNext
<1>3. QED
  BY <1>1, <1>2, PTL DEF Spec

\* A write that was told OK survives the death of the process, if no write
\* to a file stops halfway: db_impl.cc logs a group before it enters the
\* memtable, a flush installs its table with the number of the log that began
\* after it, and only logs older than that are deleted.
THEOREM WritesSurvive == ASSUME WholeWrites PROVE Spec => []AckedSurvive
<1>1. WInv => AckedSurvive
  BY DEF WInv, DInv
<1>2. QED
  BY <1>1, Invariance, PTL

\* A write that was told OK with sync survives the death of the machine: its
\* leader synced the log of the group, since BuildBatchGroup lets no synced
\* write join a leader that does not sync.
THEOREM SyncedWritesSurvive == ASSUME WholeWrites PROVE Spec => []SyncedSurvive
<1>1. WInv => SyncedSurvive
  BY DEF WInv, DInv
<1>2. QED
  BY <1>1, Invariance, PTL

\* What readers find in a memtable, a reopening finds: the log is written
\* first, and it is not passed by the manifest before the flush.
THEOREM LogIsAhead == ASSUME WholeWrites PROVE Spec => []WriteAhead
<1>1. WInv => WriteAhead
  BY WriteAheadHolds DEF WInv
<1>2. QED
  BY <1>1, Invariance, PTL

\* What was told OK stays readable while the database is open, across the
\* switch of the memtables and the commit of a flush.
THEOREM WritesReadable == ASSUME WholeWrites PROVE Spec => []AckedReadable
<1>1. WInv => AckedReadable
  BY DEF WInv, DInv
<1>2. QED
  BY <1>1, Invariance, PTL

-----------------------------------------------------------------------------
(* The numbers of a group.                                                 *)

Place(i) == Cardinality({j \in 1..i : req[group[j]].id # 0})

LEMMA PlaceIsNat ==
  ASSUME NEW i \in Nat
  PROVE  IsFiniteSet({j \in 1..i : req[group[j]].id # 0}) /\ Place(i) \in Nat
<1> DEFINE S == {j \in 1..i : req[group[j]].id # 0}
<1>1. IsFiniteSet(1..i) /\ S \in SUBSET (1..i)
  <2>1. IsFiniteSet(1..i)
    BY FS_Interval
  <2>2. S \in SUBSET (1..i)
    OBVIOUS
  <2> QED
    BY <2>1, <2>2
<1>2. IsFiniteSet(S)
  BY <1>1, FS_Subset
<1> QED
  BY <1>2, FS_CardinalityType DEF Place

LEMMA PlaceGrows ==
  ASSUME NEW i \in Nat, NEW k \in Nat, i <= k
  PROVE  /\ Place(i) <= Place(k)
         /\ i < k /\ req[group[k]].id # 0 => Place(i) < Place(k)
<1> DEFINE S(n) == {j \in 1..n : req[group[j]].id # 0}
<1>1. IsFiniteSet(S(i)) /\ IsFiniteSet(S(k)) /\ Cardinality(S(i)) \in Nat /\ Cardinality(S(k)) \in Nat
  BY PlaceIsNat DEF Place
<1>2. S(i) \in SUBSET S(k)
  OBVIOUS
<1>3. Cardinality(S(i)) <= Cardinality(S(k))
  BY <1>1, <1>2, FS_Subset
<1>4. ASSUME i < k, req[group[k]].id # 0 PROVE Cardinality(S(i)) < Cardinality(S(k))
  <2>1. k \in S(k) /\ S(i) \in SUBSET (S(k) \ {k})
    BY <1>4
  <2> HIDE DEF S
  <2>2. IsFiniteSet(S(k) \ {k}) /\ Cardinality(S(k) \ {k}) = Cardinality(S(k)) - 1
    BY <1>1, <2>1, FS_RemoveElement
  <2>3. Cardinality(S(i)) <= Cardinality(S(k) \ {k})
    BY <2>1, <2>2, FS_Subset
  <2> QED
    BY <1>1, <2>2, <2>3
<1> QED
  BY <1>3, <1>4 DEF Place

\* The entries of a group have numbers of their own, above the last one and
\* not above the next last one.
LEMMA GroupNumbers ==
  ASSUME group \in Seq(Threads), lastSeq \in Nat
  PROVE  /\ Cardinality(GroupEntries) \in Nat
         /\ \A e \in GroupEntries : e[1] \in Nat /\ lastSeq < e[1] /\ e[1] <= lastSeq + Cardinality(GroupEntries)
         /\ \A e, f \in GroupEntries : e[1] = f[1] => e = f
<1> DEFINE I == {j \in 1..Len(group) : req[group[j]].id # 0}
           entry == [i \in I |-> <<lastSeq + Place(i), req[group[i]].id>>]
<1>0. Len(group) \in Nat
  OBVIOUS
<1>1. GroupEntries = {entry[i] : i \in I}
  BY DEF GroupEntries, Place
<1>2. IsFiniteSet(I) /\ Cardinality(I) = Place(Len(group)) /\ Place(Len(group)) \in Nat
  BY <1>0, PlaceIsNat DEF Place
<1>3. \A i \in I : i \in Nat /\ 0 < i /\ i <= Len(group) /\ req[group[i]].id # 0
  BY <1>0
<1>4. \A i \in I : Place(i) \in Nat /\ 0 < Place(i) /\ Place(i) <= Place(Len(group))
  <2> SUFFICES ASSUME NEW i \in I PROVE Place(i) \in Nat /\ 0 < Place(i) /\ Place(i) <= Place(Len(group))
    OBVIOUS
  <2>1. i \in Nat /\ 0 < i /\ i <= Len(group) /\ req[group[i]].id # 0
    BY <1>3
  <2>2. Place(0) \in Nat /\ Place(i) \in Nat
    BY <2>1, PlaceIsNat
  <2>3. Place(0) < Place(i)
    BY <2>1, PlaceGrows
  <2>4. Place(i) <= Place(Len(group))
    BY <1>0, <2>1, PlaceGrows
  <2> QED
    BY <2>2, <2>3, <2>4
<1>5. \A i, k \in I : Place(i) = Place(k) => i = k
  <2> SUFFICES ASSUME NEW i \in I, NEW k \in I, i # k PROVE Place(i) # Place(k)
    OBVIOUS
  <2>1. i \in Nat /\ k \in Nat /\ req[group[i]].id # 0 /\ req[group[k]].id # 0
    BY <1>3
  <2>2. Place(i) \in Nat /\ Place(k) \in Nat
    BY <1>4
  <2>3. CASE i < k
    <3>1. Place(i) < Place(k)
      BY <2>1, <2>3, PlaceGrows
    <3> QED
      BY <2>2, <3>1
  <2>4. CASE k < i
    <3>1. Place(k) < Place(i)
      BY <2>1, <2>4, PlaceGrows
    <3> QED
      BY <2>2, <3>1
  <2> QED
    BY <2>1, <2>3, <2>4
<1>6. \A i \in I : entry[i] = <<lastSeq + Place(i), req[group[i]].id>> /\ entry[i][1] = lastSeq + Place(i)
  OBVIOUS
<1>7. Cardinality(GroupEntries) = Place(Len(group))
  <2>1. entry \in [I -> GroupEntries]
    BY <1>1
  <2>2. \A i, k \in I : entry[i] = entry[k] => i = k
    <3> SUFFICES ASSUME NEW i \in I, NEW k \in I, entry[i] = entry[k] PROVE i = k
      OBVIOUS
    <3>1. lastSeq + Place(i) = lastSeq + Place(k)
      BY <1>6
    <3> HIDE DEF entry, I
    <3>2. Place(i) \in Nat /\ Place(k) \in Nat
      BY <1>4
    <3> HIDE DEF Place
    <3>3. Place(i) = Place(k)
      BY <3>1, <3>2
    <3> QED
      BY <1>5, <3>3
  <2>3. \A e \in GroupEntries : \E i \in I : entry[i] = e
    BY <1>1
  <2> HIDE DEF entry, I
  <2>4. entry \in Bijection(I, GroupEntries)
    BY <2>1, <2>2, <2>3 DEF Bijection, Injection, Surjection, IsInjective
  <2>5. ExistsBijection(I, GroupEntries)
    BY <2>4 DEF ExistsBijection
  <2> QED
    BY <1>2, <2>5, FS_Bijection
<1> HIDE DEF entry, I
<1>8. \A e \in GroupEntries : e[1] \in Nat /\ lastSeq < e[1] /\ e[1] <= lastSeq + Cardinality(GroupEntries)
  <2> SUFFICES ASSUME NEW i \in I
               PROVE  /\ entry[i][1] \in Nat /\ lastSeq < entry[i][1]
                      /\ entry[i][1] <= lastSeq + Cardinality(GroupEntries)
    BY <1>1
  <2> QED
    BY <1>2, <1>4, <1>6, <1>7
<1>9. \A e, f \in GroupEntries : e[1] = f[1] => e = f
  <2> SUFFICES ASSUME NEW i \in I, NEW k \in I, entry[i][1] = entry[k][1] PROVE entry[i] = entry[k]
    BY <1>1
  <2>1. Place(i) = Place(k)
    <3>1. lastSeq + Place(i) = lastSeq + Place(k)
      BY <1>6
    <3> QED
      BY <1>4, <3>1
  <2> QED
    BY <1>5, <2>1
<1> QED
  BY <1>2, <1>7, <1>8, <1>9

-----------------------------------------------------------------------------
(* The disk as a durable log.                                              *)

\* The entries of a group that is in the log and not in the memtable.
Pending == {e \in GroupEntries : \E t \in Threads : pc[t] \in {"sync", "mem"}}

\* What the logs hold beyond the tables is in memory, unless an error stands;
\* so it is for those that count again when a compaction takes the log number
\* of the manifest back.
LogsInMemory ==
    up = "up" =>
        /\ ~bgError => Full(logs[logNo]) \subseteq mem \cup Pending
        /\ \A n \in DOMAIN logs : logNumber <= n /\ n < logNo =>
                Full(logs[n]) \subseteq manifest.entries \cup imm
        /\ \A n \in DOMAIN logs : logNumber <= n /\ n < manifest.log =>
                Full(logs[n]) \subseteq manifest.entries

\* The numbers in use.
Numbered ==
    /\ lastSeq \in Nat
    /\ \A e \in Recoverable : e[1] \in Nat /\ (up # "down" => e[1] <= lastSeq \/ e \in Pending)
    /\ \E N \in Nat : \A e \in Recoverable : e[1] <= N

RInv == LogsInMemory /\ Numbered

DiskStep == [Durable!Next]_<<Recoverable, Synced>>

\* Nothing is found or pending that was not before, and nothing is gone.
Steady == Recoverable' = Recoverable /\ Pending' = Pending

LEMMA NoPending ==
  /\ (\A u \in Threads : pc[u] \notin {"sync", "mem"}) => Pending = {}
  /\ (\A u \in Threads : pc'[u] \notin {"sync", "mem"}) => Pending' = {}
  BY DEF Pending

LEMMA SamePending ==
  ASSUME WInv, UNCHANGED <<group, lastSeq>>,
         \A u \in Threads : pc'[u] \in {"sync", "mem"} <=> pc[u] \in {"sync", "mem"},
         \A u \in Threads : pc[u] \in {"log", "sync", "mem"} =>
                \A i \in 1..Len(group) : req'[group[i]] = req[group[i]]
  PROVE  Pending' = Pending
<1>1. CASE \E u \in Threads : pc[u] \in {"sync", "mem"}
  <2>1. GroupEntries' = GroupEntries
    BY <1>1, SameGroup DEF WInv, QInv, QTypeOK
  <2>2. QED
    BY <1>1, <2>1 DEF Pending
<1>2. CASE ~\E u \in Threads : pc[u] \in {"sync", "mem"}
  BY <1>2, NoPending
<1>3. QED
  BY <1>1, <1>2

\* With a leader that has not appended, nothing is pending.
LEMMA LeaderNotPending ==
  ASSUME WInv, NEW t \in Threads, pc[t] \in {"lead", "log"}
  PROVE  \A u \in Threads : pc[u] \notin {"sync", "mem"}
  BY OneLeader DEF WInv, Leading

LEMMA KeptDisk ==
  ASSUME WInv, RInv, UNCHANGED kept, lastSeq' = lastSeq, bgError' \in {bgError, TRUE}, Pending' = Pending
  PROVE  RInv' /\ DiskStep /\ Steady
<1>1. Recoverable' = Recoverable /\ Synced' = Synced
  BY DEF kept, Recoverable, Synced, LiveLogs, RecordEntries
<1>2. LogsInMemory'
  BY DEF RInv, LogsInMemory, kept
<1>3. Numbered'
  BY <1>1 DEF RInv, Numbered, kept
<1>4. QED
  BY <1>1, <1>2, <1>3 DEF RInv, DiskStep, Steady

\* Nothing pending before or after.
LEMMA KeptNotPending ==
  ASSUME WInv, RInv, UNCHANGED kept, lastSeq' = lastSeq, bgError' \in {bgError, TRUE},
         \A u \in Threads : pc[u] \notin {"sync", "mem"}, \A u \in Threads : pc'[u] \notin {"sync", "mem"}
  PROVE  RInv' /\ DiskStep /\ Steady
  BY NoPending, KeptDisk

LEMMA WriteDisk ==
  ASSUME WInv, RInv, NEW t \in Threads, NEW sync \in BOOLEAN, NEW null \in BOOLEAN, Write(t, sync, null)
  PROVE  RInv' /\ DiskStep /\ Steady
<1>1. /\ UNCHANGED kept /\ UNCHANGED <<group, lastSeq, bgError>>
      /\ pc' = [pc EXCEPT ![t] = "queued"] /\ pc[t] = "idle"
  BY DEF Write, kept, memVars, bgVars, disk, tables, numbers
<1>2. \A u \in Threads : pc[u] \in {"log", "sync", "mem"} =>
            \A i \in 1..Len(group) : req'[group[i]] = req[group[i]]
  BY WriteQueue DEF WInv
<1>3. \A u \in Threads : pc'[u] \in {"sync", "mem"} <=> pc[u] \in {"sync", "mem"}
  BY <1>1 DEF WInv, QInv, QTypeOK
<1>4. Pending' = Pending
  BY <1>1, <1>2, <1>3, SamePending
<1>5. QED
  BY <1>1, <1>4, KeptDisk

LEMMA LeadDisk == ASSUME WInv, RInv, NEW t \in Threads, Lead(t) PROVE RInv' /\ DiskStep /\ Steady
<1>1. /\ UNCHANGED kept /\ UNCHANGED <<lastSeq, bgError>>
      /\ pc' = [pc EXCEPT ![t] = "lead"] /\ pc[t] = "queued" /\ Head(queue) = t
  BY DEF Lead, kept, memVars, bgVars, disk, tables, numbers, history
<1>2. \A u \in Threads : pc[u] \notin Leading
  BY <1>1, HeadLeads DEF WInv
<1>3. \A u \in Threads : pc'[u] = "lead" \/ pc'[u] = pc[u]
  BY <1>1 DEF WInv, QInv, QTypeOK
<1>4. QED
  BY <1>1, <1>2, <1>3, KeptNotPending DEF Leading

LEMMA RoomDisk ==
  ASSUME WInv, RInv, NEW t \in Threads,
         RoomError(t) \/ RoomDelay(t) \/ RoomWait(t) \/ RoomNoLog(t) \/ RoomOk(t)
  PROVE  RInv' /\ DiskStep /\ Steady
<1>1. UNCHANGED kept /\ UNCHANGED <<lastSeq, bgError>> /\ pc[t] = "lead" /\ ops' = ops
  BY DEF RoomError, RoomDelay, RoomWait, RoomNoLog, RoomOk, CanSwitch, InRoom, kept, memVars, bgVars, disk, tables, numbers, history
<1>2. \A u \in Threads : pc[u] \notin {"sync", "mem"}
  BY <1>1, LeaderNotPending
<1>3. \A u \in Threads : pc'[u] \notin {"sync", "mem"}
  <2>1. ASSUME NEW ok, FinishWaking(t, <<t>>, ok, {}) PROVE \A u \in Threads : pc'[u] \notin Leading
    <3>1. IsGroup(t, <<t>>)
      BY <1>1, LeaderAlone DEF WInv, Leading
    <3>2. QED
      BY <1>1, <2>1, <3>1, FinishQueue DEF WInv, kept
  <2>2. CASE pc' = pc
    BY <1>2, <2>2
  <2>3. CASE pc' = [pc EXCEPT ![t] = "log"]
    BY <1>2, <2>3 DEF WInv, QInv, QTypeOK
  <2>4. pc' = pc \/ pc' = [pc EXCEPT ![t] = "log"] \/ \E ok : FinishWaking(t, <<t>>, ok, {})
    BY DEF RoomError, RoomDelay, RoomWait, RoomNoLog, RoomOk, Finish
  <2>5. QED
    BY <2>1, <2>2, <2>3, <2>4 DEF Leading
<1>4. QED
  BY <1>1, <1>2, <1>3, KeptNotPending

LEMMA ReturnDisk == ASSUME WInv, RInv, NEW t \in Threads, Return(t) \/ FlushWait(t) PROVE RInv' /\ DiskStep /\ Steady
<1>1. /\ UNCHANGED kept /\ UNCHANGED <<group, req, lastSeq, bgError>> /\ pc[t] \in {"done", "flush"}
      /\ \E to \in {"idle", "flush"} : pc' = [pc EXCEPT ![t] = to] \/ pc' = pc
  BY DEF Return, FlushWait, kept, memVars, bgVars, disk, tables, numbers, history
<1>2. \A u \in Threads : pc'[u] \in {"sync", "mem"} <=> pc[u] \in {"sync", "mem"}
  BY <1>1 DEF WInv, QInv, QTypeOK
<1>3. Pending' = Pending
  BY <1>1, <1>2, SamePending
<1>4. QED
  BY <1>1, <1>3, KeptDisk

LEMMA BackgroundDisk ==
  ASSUME WInv, RInv, BGStart \/ BGFlushInside \/ BuildTable \/ BGMergeFails
  PROVE  RInv' /\ DiskStep /\ Steady
<1>1. Pending' = Pending
  BY BackgroundKeeps, SamePending
<1>2. QED
  BY <1>1, BackgroundKeeps, KeptDisk

\* The group's numbers are used up.
LEMMA Advanced ==
  ASSUME WInv, RInv, up = "up", Advance, Recoverable' = Recoverable
  PROVE  /\ lastSeq' \in Nat
         /\ \A e \in Recoverable' : e[1] \in Nat /\ e[1] <= lastSeq'
<1>1. lastSeq \in Nat /\ lastSeq' = lastSeq + Cardinality(GroupEntries)
  BY DEF RInv, Numbered, Advance
<1>2. /\ Cardinality(GroupEntries) \in Nat
      /\ \A e \in GroupEntries : e[1] \in Nat /\ e[1] <= lastSeq'
  BY <1>1, GroupNumbers DEF WInv, QInv, QTypeOK
<1>3. \A e \in Recoverable : e[1] \in Nat /\ (e[1] <= lastSeq \/ e \in GroupEntries)
  BY DEF RInv, Numbered, Pending
<1>4. QED
  BY <1>1, <1>2, <1>3

LEMMA SyncFailsDisk == ASSUME WInv, RInv, NEW t \in Threads, SyncFails(t) PROVE RInv' /\ DiskStep /\ Recoverable' = Recoverable
<1>1. UNCHANGED kept /\ ops' = ops /\ pc[t] = "sync" /\ up = "up" /\ Advance /\ bgError'
  BY DEF SyncFails, kept, disk, tables, numbers, history
<1>2. Recoverable' = Recoverable /\ Synced' = Synced
  BY <1>1 DEF kept, Recoverable, Synced, LiveLogs, RecordEntries
<1>3. LogsInMemory'
  BY <1>1 DEF RInv, LogsInMemory, kept
<1>4. Numbered'
  BY <1>1, <1>2, Advanced DEF Numbered
<1>5. QED
  BY <1>2, <1>3, <1>4 DEF RInv, DiskStep

LEMMA InsertDisk == ASSUME WInv, RInv, NEW t \in Threads, InsertMem(t) PROVE RInv' /\ DiskStep /\ Recoverable' = Recoverable
<1>1. /\ UNCHANGED <<imm, logs, manifest, logNo, logNumber, up, bgError>> /\ up = "up"
      /\ mem' = mem \cup GroupEntries /\ Advance
  BY DEF InsertMem, bgVars, disk, tables, numbers
<1>2. Recoverable' = Recoverable /\ Synced' = Synced
  BY <1>1 DEF Recoverable, Synced, LiveLogs, RecordEntries
<1>3. LogsInMemory'
  BY <1>1 DEF RInv, LogsInMemory, Pending
<1>4. Numbered'
  BY <1>1, <1>2, Advanced DEF Numbered
<1>5. QED
  BY <1>2, <1>3, <1>4 DEF RInv, DiskStep

\* The logs hold what they held, where it counts.
LEMMA FindsSame ==
  ASSUME manifest' = manifest,
         \A n \in DOMAIN logs : n >= manifest.log =>
            n \in DOMAIN logs' /\ Full(logs'[n]) = Full(logs[n]) /\ Safe(logs'[n]) = Safe(logs[n]),
         \A n \in DOMAIN logs' : n >= manifest.log => n \in DOMAIN logs \/ logs'[n] = EmptyLog
  PROVE  Recoverable' = Recoverable /\ Synced' = Synced
<1>1. Full(EmptyLog) = {} /\ Safe(EmptyLog) = {}
  BY NothingLogged
<1>2. \A e : e \in Recoverable' <=> e \in Recoverable
  BY <1>1, OpeningFinds, OpeningWillFind
<1>3. \A e : e \in Synced' <=> e \in Synced
  BY <1>1, OpeningFinds, OpeningWillFind
<1>4. QED
  BY <1>2, <1>3

LEMMA SyncedIsFound ==
  /\ LogsOK => Synced \subseteq Recoverable
  /\ LogsOK' => Synced' \subseteq Recoverable'
<1>1. LogsOK => Synced \subseteq Recoverable
  BY OpeningFinds, SafeIsThere DEF LogsOK
<1>2. LogsOK' => Synced' \subseteq Recoverable'
  BY OpeningWillFind, SafeIsThere DEF LogsOK
<1>3. QED
  BY <1>1, <1>2

LEMMA Hardens ==
  ASSUME Recoverable' = Recoverable, Synced \subseteq Synced', LogsOK'
  PROVE  DiskStep
  BY SyncedIsFound DEF DiskStep, Durable!Next, Durable!Harden

\* Nothing changes but the place.
LEMMA SameNumbers ==
  ASSUME RInv, Recoverable' = Recoverable, lastSeq' = lastSeq, up' = up, Pending' = Pending
  PROVE  Numbered'
  BY DEF RInv, Numbered

LEMMA SwitchDisk == ASSUME WInv, RInv, NEW t \in Threads, RoomSwitch(t) PROVE RInv' /\ DiskStep /\ Steady
<1>1. /\ UNCHANGED <<pc, lastSeq, up, manifest, logNumber>> /\ pc[t] = "lead" /\ up = "up" /\ ~hasImm /\ ~bgError
      /\ logNo' = nextFile /\ imm' = mem /\ mem' = {}
      /\ logs' = [n \in DOMAIN logs \cup {nextFile} |-> IF n = nextFile THEN EmptyLog ELSE logs[n]]
  BY DEF RoomSwitch, CanSwitch, InRoom, tables
<1>2. nextFile \in Nat /\ logNo \in Nat /\ manifest.log \in Nat /\ manifest.log <= logNo /\ logNo < nextFile
      /\ logNumber \in Nat
      /\ \A n \in DOMAIN logs : n \in Nat /\ n <= logNo /\ n < nextFile /\ n # nextFile
  BY <1>1 DEF WInv, DInv, LogsOK, CurrentLog
<1>3. /\ DOMAIN logs' = DOMAIN logs \cup {nextFile} /\ logs'[nextFile] = EmptyLog
      /\ \A n \in DOMAIN logs : logs'[n] = logs[n]
  BY <1>1, <1>2
<1>4. Recoverable' = Recoverable /\ Synced' = Synced
  BY <1>1, <1>3, FindsSame
<1>5. Pending = {} /\ Pending' = {}
  BY <1>1, LeaderNotPending, NoPending
<1>6. imm = {}
  BY <1>1 DEF WInv, DInv, Immutable
<1>7. \A n \in DOMAIN logs : logNumber <= n => Full(logs[n]) \subseteq manifest.entries \cup mem
  <2> SUFFICES ASSUME NEW n \in DOMAIN logs, logNumber <= n
               PROVE  Full(logs[n]) \subseteq manifest.entries \cup mem
    OBVIOUS
  <2>1. n = logNo \/ n < logNo
    BY <1>2
  <2>2. QED
    BY <1>1, <1>5, <1>6, <2>1 DEF RInv, LogsInMemory
<1>8. Full(EmptyLog) = {}
  BY NothingLogged
<1>9. LogsInMemory'
  <2>1. \A n \in DOMAIN logs' : n < nextFile \/ n < manifest.log => n \in DOMAIN logs
    BY <1>2, <1>3
  <2>2. \A n \in DOMAIN logs : logNumber <= n /\ n < manifest.log => Full(logs[n]) \subseteq manifest.entries
    BY <1>1 DEF RInv, LogsInMemory
  <2>3. QED
    BY <1>1, <1>3, <1>7, <1>8, <2>1, <2>2 DEF LogsInMemory
<1>10. QED
  BY <1>1, <1>4, <1>5, <1>9, SameNumbers DEF RInv, DiskStep, Steady

\* What an append changes on disk.
LEMMA AppendAdds ==
  ASSUME WInv, NEW t \in Threads, AppendRecord(t)
  PROVE  /\ logNo \in DOMAIN logs /\ logNo >= manifest.log
         /\ logs' = [logs EXCEPT ![logNo] = logs'[logNo]]
         /\ IsLog(logs'[logNo])
         /\ Full(logs'[logNo]) = Full(logs[logNo]) \cup GroupEntries
         /\ Safe(logs'[logNo]) = Safe(logs[logNo])
<1> DEFINE g == logs[logNo]
           h == [recs |-> Append(g.recs, [entries |-> GroupEntries, readable |-> TRUE]), synced |-> g.synced,
                 torn |-> FALSE]
<1>1. up = "up"
  BY DEF AppendRecord
<1>2. IsLog(g) /\ logNo \in DOMAIN logs /\ logNo >= manifest.log
  BY <1>1, CurrentIsFound DEF WInv
<1>3. g.torn = FALSE
  BY <1>2 DEF IsLog
<1>4. logs' = [logs EXCEPT ![logNo] = h]
  <2>1. AddRecord(TRUE, FALSE)
    BY <1>3 DEF AppendRecord
  <2>2. QED
    BY <2>1 DEF AddRecord
<1>5. IsLog(h) /\ Full(h) = Full(g) \cup GroupEntries /\ Safe(h) = Safe(g)
  BY <1>2, OneMore
<1> HIDE DEF h
<1>6. logs'[logNo] = h
  BY <1>2, <1>4
<1>7. QED
  BY <1>2, <1>4, <1>5, <1>6

LEMMA AppendDisk ==
  ASSUME WInv, RInv, NEW t \in Threads, AppendRecord(t)
  PROVE  RInv' /\ DiskStep
         /\ Recoverable' = Recoverable \cup GroupEntries /\ Pending = {} /\ Pending' = GroupEntries
<1>1. /\ UNCHANGED <<group, req, lastSeq, mem, imm, manifest, logNo, logNumber, up, bgError>>
      /\ pc[t] = "log" /\ up = "up"
      /\ pc' = [pc EXCEPT ![t] = IF req[t].sync THEN "sync" ELSE "mem"]
  BY DEF AppendRecord, memVars, bgVars, tables, numbers
<1>2. /\ logNo \in DOMAIN logs /\ logNo >= manifest.log
      /\ logs' = [logs EXCEPT ![logNo] = logs'[logNo]]
      /\ Full(logs'[logNo]) = Full(logs[logNo]) \cup GroupEntries
      /\ Safe(logs'[logNo]) = Safe(logs[logNo])
  BY AppendAdds
<1>3. DOMAIN logs' = DOMAIN logs /\ \A n \in DOMAIN logs : n # logNo => logs'[n] = logs[n]
  BY <1>2
<1>4. Recoverable' = Recoverable \cup GroupEntries
  <2> SUFFICES ASSUME NEW e PROVE e \in Recoverable' <=> e \in Recoverable \/ e \in GroupEntries
    OBVIOUS
  <2>1. e \in Recoverable <=>
            e \in manifest.entries \/ \E n \in DOMAIN logs : n >= manifest.log /\ e \in Full(logs[n])
    BY OpeningFinds
  <2>2. e \in Recoverable' <=>
            e \in manifest.entries \/ \E n \in DOMAIN logs : n >= manifest.log /\ e \in Full(logs'[n])
    BY <1>1, <1>3, OpeningWillFind
  <2>3. QED
    BY <1>2, <1>3, <2>1, <2>2
<1>5. Synced' = Synced
  <2>1. \A n \in DOMAIN logs : Safe(logs'[n]) = Safe(logs[n])
    BY <1>2, <1>3
  <2>2. \A e : e \in Synced' <=> e \in Synced
    BY <1>1, <1>3, <2>1, OpeningFinds, OpeningWillFind
  <2>3. QED
    BY <2>2
<1>6. Pending = {}
  BY <1>1, LeaderNotPending, NoPending
<1>7. pc'[t] \in {"sync", "mem"}
  BY <1>1 DEF WInv, QInv, QTypeOK
<1>8. Pending' = GroupEntries
  <2>1. GroupEntries' = GroupEntries
    BY <1>1, SameGroup DEF WInv, QInv, QTypeOK
  <2>2. QED
    BY <1>7, <2>1 DEF Pending
<1>9. lastSeq \in Nat /\ \A e \in Recoverable : e[1] \in Nat /\ e[1] <= lastSeq
  BY <1>1, <1>6 DEF RInv, Numbered
<1>10. /\ Cardinality(GroupEntries) \in Nat
       /\ \A e \in GroupEntries : e[1] \in Nat /\ lastSeq < e[1] /\ e[1] <= lastSeq + Cardinality(GroupEntries)
       /\ \A e, f \in GroupEntries : e[1] = f[1] => e = f
  BY <1>9, GroupNumbers DEF WInv, QInv, QTypeOK
<1>11. DiskStep
  <2>1. Recoverable \subseteq Recoverable' /\ \A e \in Recoverable' \ Recoverable : e \in GroupEntries
    BY <1>4
  <2>2. \A e \in Recoverable' \ Recoverable : \A f \in Recoverable : e[1] > f[1]
    BY <1>9, <1>10, <2>1
  <2>3. \A e \in Recoverable' \ Recoverable : \A f \in Recoverable' \ Recoverable : f[1] = e[1] => f = e
    BY <1>10, <2>1
  <2>4. Durable!Append
    BY <1>5, <2>1, <2>2, <2>3 DEF Durable!Append
  <2>5. QED
    BY <2>4 DEF DiskStep, Durable!Next
<1>12. Numbered'
  <2>1. lastSeq + Cardinality(GroupEntries) \in Nat
    BY <1>9, <1>10
  <2>2. \A e \in Recoverable' : e[1] <= lastSeq + Cardinality(GroupEntries)
    BY <1>4, <1>9, <1>10
  <2>3. \A e \in Recoverable' : e[1] \in Nat /\ (e[1] <= lastSeq \/ e \in Pending')
    BY <1>4, <1>8, <1>9, <1>10
  <2>4. QED
    BY <1>1, <1>9, <2>1, <2>2, <2>3 DEF Numbered
<1>13. LogsInMemory'
  <2>1. \A n \in DOMAIN logs : n < logNo \/ n < manifest.log => logs'[n] = logs[n]
    <3>1. logNo \in Nat /\ manifest.log \in Nat /\ \A n \in DOMAIN logs : n \in Nat
      BY DEF WInv, DInv, LogsOK
    <3>2. QED
      BY <1>2, <1>3, <3>1
  <2>2. QED
    BY <1>1, <1>2, <1>3, <1>6, <1>8, <2>1 DEF RInv, LogsInMemory
<1>14. QED
  BY <1>4, <1>6, <1>8, <1>11, <1>12, <1>13 DEF RInv

LEMMA SyncDisk == ASSUME WInv, RInv, NEW t \in Threads, SyncLog(t) PROVE RInv' /\ DiskStep /\ Steady
<1> DEFINE g == logs[logNo]
           h == [g EXCEPT !.synced = Len(g.recs)]
<1>1. /\ UNCHANGED <<group, req, lastSeq, mem, imm, manifest, logNo, logNumber, up, bgError>>
      /\ pc[t] = "sync" /\ up = "up" /\ pc' = [pc EXCEPT ![t] = "mem"]
      /\ logs' = [logs EXCEPT ![logNo] = h]
  BY Zenon DEF SyncLog, memVars, bgVars, tables, numbers
<1>2. IsLog(g) /\ Safe(g) \subseteq Full(g) /\ logNo \in DOMAIN logs
  BY <1>1, CurrentIsFound DEF WInv
<1>3. IsLog(h) /\ Full(h) = Full(g) /\ Safe(h) = Full(g)
  BY <1>2, AllSynced
<1> HIDE DEF h
<1>4. /\ DOMAIN logs' = DOMAIN logs
      /\ \A n \in DOMAIN logs : Full(logs'[n]) = Full(logs[n]) /\ Safe(logs[n]) \subseteq Safe(logs'[n])
  <2>1. DOMAIN logs' = DOMAIN logs /\ logs'[logNo] = h /\ \A n \in DOMAIN logs : n # logNo => logs'[n] = logs[n]
    BY <1>1, <1>2
  <2>2. QED
    BY <1>2, <1>3, <2>1
<1>5. Recoverable' = Recoverable /\ Synced \subseteq Synced'
  <2>1. \A e : e \in Recoverable' <=> e \in Recoverable
    BY <1>1, <1>4, OpeningFinds, OpeningWillFind
  <2>2. \A e : e \in Synced => e \in Synced'
    BY <1>1, <1>4, OpeningFinds, OpeningWillFind
  <2>3. QED
    BY <2>1, <2>2
<1>6. \A u \in Threads : pc'[u] \in {"sync", "mem"} <=> pc[u] \in {"sync", "mem"}
  BY <1>1 DEF WInv, QInv, QTypeOK
<1>7. Pending' = Pending
  BY <1>1, <1>6, SamePending
<1>8. LogsInMemory'
  BY <1>1, <1>2, <1>4, <1>7 DEF RInv, LogsInMemory
<1>9. LogsOK'
  BY SyncStep DEF WInv, DInv
<1>10. QED
  BY <1>1, <1>5, <1>7, <1>8, <1>9, Hardens, SameNumbers DEF RInv, Steady

LEMMA ManifestDisk == ASSUME WholeWrites, WInv, RInv, LogAndApply PROVE RInv' /\ DiskStep /\ Steady
<1>1. /\ UNCHANGED <<group, pc, req, lastSeq, mem, imm, hasImm, logs, halfEdit, logNo, nextFile, logNumber, up,
                     acked, ackedSync>>
      /\ manifest' \in {manifest, NewManifest} /\ up = "up" /\ bgError' \in {bgError, TRUE}
  BY Applies
<1>2. Pending' = Pending
  BY <1>1, SamePending
<1>3. CASE manifest' = manifest
  BY <1>1, <1>2, <1>3, KeptDisk DEF kept
<1>4. CASE manifest' = NewManifest
  <2>1. /\ manifest'.log = logNo
        /\ manifest'.entries = manifest.entries \cup imm
    BY <1>4 DEF NewManifest
  <2>2. /\ logNo \in DOMAIN logs /\ logNo \in Nat /\ manifest.log \in Nat /\ manifest.log <= logNo
        /\ logNumber \in Nat /\ logNumber <= manifest.log
        /\ \A n \in DOMAIN logs : n \in Nat /\ n <= logNo
    BY <1>1 DEF WInv, DInv, LogsOK, CurrentLog
  <2>3. \A n \in DOMAIN logs : n >= manifest.log => n = logNo \/ Full(logs[n]) \subseteq manifest.entries \cup imm
    <3> SUFFICES ASSUME NEW n \in DOMAIN logs, n >= manifest.log, n # logNo
                 PROVE  Full(logs[n]) \subseteq manifest.entries \cup imm
      OBVIOUS
    <3>1. logNumber <= n /\ n < logNo
      BY <2>2
    <3>2. QED
      BY <1>1, <3>1 DEF RInv, LogsInMemory
  <2>4. \A n \in DOMAIN logs : n >= logNo => n = logNo
    BY <2>2
  <2>5. imm \subseteq Recoverable
    BY <1>1 DEF WInv, DInv, Places
  <2>6. \A e : e \in Recoverable' <=> e \in manifest.entries \cup imm \/ e \in Full(logs[logNo])
    BY <1>1, <2>1, <2>2, <2>4, OpeningWillFind
  <2>7. Recoverable' = Recoverable
    <3>1. \A e : e \in Recoverable => e \in Recoverable'
      BY <2>3, <2>6, OpeningFinds
    <3>2. \A e : e \in Recoverable' => e \in Recoverable
      BY <2>2, <2>5, <2>6, OpeningFinds
    <3>3. QED
      BY <3>1, <3>2
  <2>8. \A e : e \in Synced' <=> e \in manifest.entries \cup imm \/ e \in Safe(logs[logNo])
    BY <1>1, <2>1, <2>2, <2>4, OpeningWillFind
  <2>9. Synced \subseteq Synced'
    <3>1. \A n \in DOMAIN logs : Safe(logs[n]) \subseteq Full(logs[n])
      BY SafeIsThere DEF WInv, DInv, LogsOK
    <3>2. QED
      BY <2>3, <2>8, <3>1, OpeningFinds
  <2>10. LogsInMemory'
    <3>1. \A n \in DOMAIN logs : logNumber <= n /\ n < logNo => Full(logs[n]) \subseteq manifest.entries \cup imm
      BY <1>1 DEF RInv, LogsInMemory
    <3>2. ~bgError' => Full(logs[logNo]) \subseteq mem \cup Pending
      <4>1. ~bgError => Full(logs[logNo]) \subseteq mem \cup Pending
        BY <1>1 DEF RInv, LogsInMemory
      <4>2. CASE bgError' = bgError
        BY <4>1, <4>2
      <4>3. CASE bgError' = TRUE
        BY <4>3
      <4>4. QED
        BY <1>1, <4>2, <4>3
    <3>3. /\ ~bgError' => Full(logs'[logNo']) \subseteq mem' \cup Pending'
          /\ \A n \in DOMAIN logs' : logNumber' <= n /\ n < logNo' => Full(logs'[n]) \subseteq manifest'.entries
          /\ manifest'.log = logNo'
      BY <1>1, <1>2, <2>1, <3>1, <3>2
    <3>4. QED
      BY <3>3 DEF LogsInMemory
  <2>11. LogsOK'
    BY ManifestStep DEF WInv, DInv
  <2>12. QED
    BY <1>1, <1>2, <2>7, <2>9, <2>10, <2>11, Hardens, SameNumbers DEF RInv, Steady
<1>5. QED
  BY <1>1, <1>3, <1>4

LEMMA InstallDisk == ASSUME WholeWrites, WInv, RInv, BGMove \/ BGInstall PROVE RInv' /\ DiskStep /\ Steady
<1>1. /\ UNCHANGED <<group, pc, req, lastSeq, mem, imm, hasImm, logs, halfEdit, logNo, nextFile, logNumber, up,
                     acked, ackedSync>>
      /\ manifest' \in {manifest, MovedManifest} /\ up = "up" /\ bgError' \in {bgError, TRUE}
  BY Moves
<1>2. Pending' = Pending
  BY <1>1, SamePending
<1>3. CASE manifest' = manifest
  BY <1>1, <1>2, <1>3, KeptDisk DEF kept
<1>4. CASE manifest' = MovedManifest
  <2>1. manifest'.log = logNumber /\ manifest'.entries = manifest.entries
    BY <1>4 DEF MovedManifest
  <2>2. /\ logNumber \in Nat /\ manifest.log \in Nat /\ logNumber <= manifest.log
        /\ \A n \in DOMAIN logs : n \in Nat
    BY <1>1 DEF WInv, DInv, LogsOK, CurrentLog
  <2>3. \A n \in DOMAIN logs : n >= logNumber => n >= manifest.log \/ Full(logs[n]) \subseteq manifest.entries
    <3> SUFFICES ASSUME NEW n \in DOMAIN logs, n >= logNumber, ~(n >= manifest.log)
                 PROVE  Full(logs[n]) \subseteq manifest.entries
      OBVIOUS
    <3>1. logNumber <= n /\ n < manifest.log
      BY <2>2
    <3>2. QED
      BY <1>1, <3>1 DEF RInv, LogsInMemory
  <2>4. \A n \in DOMAIN logs : n >= manifest.log => n >= logNumber
    BY <2>2
  <2>5. Recoverable' = Recoverable
    <3>1. \A e : e \in Recoverable' <=> e \in Recoverable
      BY <1>1, <2>1, <2>3, <2>4, OpeningFinds, OpeningWillFind
    <3>2. QED
      BY <3>1
  <2>6. Synced \subseteq Synced'
    BY <1>1, <2>1, <2>4, OpeningFinds, OpeningWillFind
  <2>7. LogsInMemory'
    <3>1. /\ ~bgError => Full(logs[logNo]) \subseteq mem \cup Pending
          /\ \A n \in DOMAIN logs : logNumber <= n /\ n < logNo => Full(logs[n]) \subseteq manifest.entries \cup imm
      BY <1>1 DEF RInv, LogsInMemory
    <3>2. \A n \in DOMAIN logs : ~(logNumber <= n /\ n < logNumber)
      BY <2>2
    <3>3. ~bgError' => ~bgError
      BY <1>1
    <3>4. QED
      BY <1>1, <1>2, <2>1, <3>1, <3>2, <3>3 DEF LogsInMemory
  <2>8. LogsOK'
    BY InstallStep DEF WInv, DInv
  <2>9. QED
    BY <1>1, <1>2, <2>5, <2>6, <2>7, <2>8, Hardens, SameNumbers DEF RInv, Steady
<1>5. QED
  BY <1>1, <1>3, <1>4

LEMMA CommitDisk == ASSUME WInv, RInv, CommitFlush \/ BGCompacted PROVE RInv' /\ DiskStep /\ Steady
<1>1. /\ UNCHANGED <<group, pc, req, lastSeq, mem, manifest, logNo, up, bgError>>
      /\ up = "up"
      /\ \/ UNCHANGED <<imm, hasImm>>
         \/ imm \subseteq manifest.entries /\ imm' = {} /\ hasImm' = FALSE
      /\ logNumber' \in Nat /\ logNumber <= logNumber' /\ logNumber' <= manifest.log
      /\ DOMAIN logs' \subseteq DOMAIN logs
      /\ \A n \in DOMAIN logs' : logs'[n] = logs[n]
      /\ \A n \in DOMAIN logs : n >= manifest.log => n \in DOMAIN logs'
  BY Commits
<1>2. /\ manifest.log \in Nat /\ logNumber \in Nat /\ logNo \in Nat
      /\ logNo \in DOMAIN logs /\ logNo >= manifest.log
      /\ \A n \in DOMAIN logs : n \in Nat
  BY <1>1 DEF WInv, DInv, LogsOK, CurrentLog
<1>3. Recoverable' = Recoverable /\ Synced' = Synced
  BY <1>1, FindsSame
<1>4. Pending' = Pending
  BY <1>1, SamePending
<1>5. LogsInMemory'
  <2>1. logs'[logNo] = logs[logNo]
    BY <1>1, <1>2
  <2>2. \A n \in DOMAIN logs' : logNumber' <= n => n \in DOMAIN logs /\ logNumber <= n /\ logs'[n] = logs[n]
    BY <1>1, <1>2
  <2>3. manifest.entries \cup imm \subseteq manifest'.entries \cup imm'
    BY <1>1
  <2>4. QED
    BY <1>1, <1>4, <2>1, <2>2, <2>3 DEF RInv, LogsInMemory
<1>6. QED
  BY <1>1, <1>3, <1>4, <1>5, SameNumbers DEF RInv, DiskStep, Steady

LEMMA ProcessCrashDisk == ASSUME WInv, RInv, ProcessCrash PROVE RInv' /\ DiskStep /\ Recoverable' = Recoverable
<1>1. up' = "down" /\ UNCHANGED <<logs, manifest, lastSeq>>
  BY DEF ProcessCrash, Forget
<1>2. Recoverable' = Recoverable /\ Synced' = Synced
  BY <1>1 DEF Recoverable, Synced, LiveLogs, RecordEntries
<1>3. QED
  BY <1>1, <1>2 DEF RInv, LogsInMemory, Numbered, DiskStep

LEMMA MachineCrashDisk == ASSUME WInv, RInv, MachineCrash PROVE RInv' /\ DiskStep /\ Recoverable' \subseteq Recoverable
<1>1. up' = "down" /\ UNCHANGED <<manifest, lastSeq>>
  BY DEF MachineCrash, Forget
<1>2. PICK keep :
        /\ \A n \in DOMAIN logs : keep[n] \in logs[n].synced..Len(logs[n].recs)
        /\ logs' = [n \in DOMAIN logs |->
                        [recs |-> SubSeq(logs[n].recs, 1, keep[n]), synced |-> keep[n], torn |-> FALSE]]
  BY DEF MachineCrash
<1>3. DOMAIN logs' = DOMAIN logs
      /\ \A n \in DOMAIN logs : logs'[n] =
            [recs |-> SubSeq(logs[n].recs, 1, keep[n]), synced |-> keep[n], torn |-> FALSE]
  BY <1>2
<1>4. \A n \in DOMAIN logs : /\ Safe(logs[n]) \subseteq Safe(logs'[n]) /\ Safe(logs'[n]) = Full(logs'[n])
                             /\ Full(logs'[n]) \subseteq Full(logs[n])
  <2> SUFFICES ASSUME NEW n \in DOMAIN logs
               PROVE  /\ Safe(logs[n]) \subseteq Safe(logs'[n]) /\ Safe(logs'[n]) = Full(logs'[n])
                      /\ Full(logs'[n]) \subseteq Full(logs[n])
    OBVIOUS
  <2>1. IsLog(logs[n])
    BY DEF WInv, DInv, LogsOK
  <2>2. QED
    BY <1>2, <1>3, <2>1, CutOff
<1>5. Synced \subseteq Recoverable' /\ Recoverable' \subseteq Recoverable /\ Synced' = Recoverable'
  <2>1. \A e : e \in Synced' <=> e \in Recoverable'
    BY <1>3, <1>4, OpeningWillFind
  <2>2. \A e : e \in Recoverable' => e \in Recoverable
    BY <1>1, <1>3, <1>4, OpeningFinds, OpeningWillFind
  <2>3. \A e : e \in Synced => e \in Synced'
    BY <1>1, <1>3, <1>4, OpeningFinds, OpeningWillFind
  <2>4. QED
    BY <2>1, <2>2, <2>3
<1>6. DiskStep
  BY <1>5 DEF DiskStep, Durable!Next, Durable!PowerCut
<1>7. QED
  BY <1>1, <1>5, <1>6 DEF RInv, LogsInMemory, Numbered

\* The last number is that of the newest entry found.
LEMMA LastNumber ==
  ASSUME NEW N \in Nat, \A e \in Recoverable : e[1] \in Nat /\ e[1] <= N
  PROVE  /\ Max0({e[1] : e \in Recoverable}) \in Nat
         /\ \A e \in Recoverable : e[1] <= Max0({f[1] : f \in Recoverable})
<1> DEFINE T == {e[1] : e \in Recoverable}
<1>1. T \subseteq 0..N
  OBVIOUS
<1>2. \A e \in Recoverable : e[1] \in T
  OBVIOUS
<1> HIDE DEF T
<1>3. CASE T = {}
  BY <1>2, <1>3 DEF Max0, T
<1>4. CASE T # {}
  <2>1. \E x \in T : \A y \in T : y <= x
    BY <1>1, <1>4, HasMax
  <2>2. Max0(T) \in T /\ \A y \in T : y <= Max0(T)
    BY <1>4, <2>1 DEF Max0
  <2>3. Max0(T) \in Nat
    <3>1. Max0(T) \in 0..N
      BY <1>1, <2>2
    <3>2. QED
      BY <3>1
  <2>4. QED
    BY <1>2, <2>2, <2>3 DEF T
<1>5. QED
  BY <1>3, <1>4

LEMMA RecoverDisk == ASSUME WInv, RInv, Recover PROVE RInv' /\ DiskStep /\ Recoverable' = Recoverable
<1> DEFINE new == FreshNumber
<1>1. /\ manifest' = manifest /\ up' = "opening"
      /\ lastSeq' = Max0({e[1] : e \in Recoverable})
      /\ logs' = [n \in DOMAIN logs \cup {new} |-> IF n = new THEN EmptyLog ELSE logs[n]]
  BY DEF Recover, NewLogAs, tables
<1>2. new \in Nat /\ \A n \in DOMAIN logs : n \in Nat /\ n < new
  BY NextLogNumber DEF WInv, DInv
<1> HIDE DEF new
<1>3. /\ DOMAIN logs' = DOMAIN logs \cup {new} /\ logs'[new] = EmptyLog
      /\ \A n \in DOMAIN logs : n # new => logs'[n] = logs[n]
  BY <1>1
<1>4. \A n \in DOMAIN logs : n # new
  BY <1>2
<1>5. Recoverable' = Recoverable /\ Synced' = Synced
  BY <1>1, <1>3, <1>4, FindsSame
<1>6. Numbered'
  <2>1. PICK N \in Nat : \A e \in Recoverable : e[1] <= N
    BY DEF RInv, Numbered
  <2>2. lastSeq' \in Nat /\ \A e \in Recoverable : e[1] \in Nat /\ e[1] <= lastSeq'
    BY <1>1, <2>1, LastNumber DEF RInv, Numbered
  <2>3. QED
    BY <1>5, <2>1, <2>2 DEF Numbered
<1>7. LogsInMemory'
  BY <1>1 DEF LogsInMemory
<1>8. QED
  BY <1>5, <1>6, <1>7 DEF RInv, DiskStep

LEMMA OpenInstallDisk ==
  ASSUME WInv, RInv, OpenInstall
  PROVE  RInv' /\ DiskStep /\ Recoverable' = Recoverable
<1>1. /\ UNCHANGED <<group, pc, req, lastSeq, logs, logNo>>
      /\ up = "opening" /\ up' = "opened"
      /\ manifest' = [log |-> logNo, next |-> nextFile, entries |-> Recoverable]
  BY DEF OpenInstall, volatile
<1>2. /\ logs[logNo] = EmptyLog /\ logNo \in Nat
      /\ \A n \in DOMAIN logs : n \in Nat /\ n <= logNo
      /\ \A u \in Threads : pc[u] = "idle"
  BY <1>1 DEF WInv, QInv, Quiet, DInv, CurrentLog, LogsOK
<1>3. manifest'.log = logNo /\ manifest'.entries = Recoverable
  BY <1>1
<1>4. \A n \in DOMAIN logs : n >= logNo => Full(logs[n]) = {} /\ Safe(logs[n]) = {}
  BY <1>2, NothingLogged
<1>5. Recoverable' = Recoverable /\ Synced' = Recoverable
  <2>1. \A e : e \in Recoverable' <=> e \in Recoverable
    BY <1>1, <1>3, <1>4, OpeningWillFind
  <2>2. \A e : e \in Synced' <=> e \in Recoverable
    BY <1>1, <1>3, <1>4, OpeningWillFind
  <2>3. QED
    BY <2>1, <2>2
<1>6. DiskStep
  <2>1. Synced \subseteq Recoverable
    BY SyncedIsFound DEF WInv, DInv
  <2>2. QED
    BY <1>5, <2>1 DEF DiskStep, Durable!Next, Durable!Harden
<1>7. Pending = {}
  BY <1>2, NoPending
<1>8. LogsInMemory'
  BY <1>1 DEF LogsInMemory
<1>9. Numbered'
  BY <1>1, <1>5, <1>7 DEF RInv, Numbered
<1>10. QED
  BY <1>5, <1>6, <1>8, <1>9 DEF RInv

LEMMA OpenDisk == ASSUME WInv, RInv, Open PROVE RInv' /\ DiskStep /\ Recoverable' = Recoverable
<1>1. /\ UNCHANGED <<group, pc, req, lastSeq, logNo, logNumber, manifest>>
      /\ up = "opened" /\ up' = "up" /\ DeleteObsolete
  BY DEF Open, writerVars, memVars, tables, numbers
<1>2. /\ LogsOK /\ logNo \in DOMAIN logs /\ logNo \in Nat /\ logs[logNo] = EmptyLog
      /\ manifest.log = logNo /\ logNumber = logNo /\ \A n \in DOMAIN logs : n \in Nat
      /\ \A u \in Threads : pc[u] = "idle"
  BY <1>1 DEF WInv, QInv, Quiet, DInv, CurrentLog, LogsOK
<1>3. /\ DOMAIN logs' \subseteq DOMAIN logs
      /\ \A n \in DOMAIN logs' : logs'[n] = logs[n]
      /\ \A n \in DOMAIN logs : n >= manifest.log => n \in DOMAIN logs'
  <2>1. logNumber' \in Nat /\ logNumber' <= manifest.log
    BY <1>1, <1>2
  <2>2. QED
    BY <1>1, <1>2, <2>1, Deletes
<1>4. Recoverable' = Recoverable /\ Synced' = Synced
  BY <1>1, <1>3, FindsSame
<1>5. Pending = {}
  BY <1>2, NoPending
<1>6. LogsInMemory'
  <2>1. \A n \in DOMAIN logs' : ~(logNo <= n /\ n < logNo)
    BY <1>2, <1>3
  <2>2. logs'[logNo] = EmptyLog /\ Full(EmptyLog) = {}
    BY <1>2, <1>3, NothingLogged
  <2>3. QED
    BY <1>1, <1>2, <2>1, <2>2 DEF LogsInMemory
<1>7. Numbered'
  BY <1>1, <1>4, <1>5 DEF RInv, Numbered
<1>8. QED
  BY <1>4, <1>6, <1>7 DEF RInv, DiskStep

-----------------------------------------------------------------------------
LEMMA RInvInit == ASSUME Init PROVE RInv /\ Durable!Init
<1>1. /\ logs = [n \in {1} |-> EmptyLog] /\ logNo = 1 /\ logNumber = 1 /\ lastSeq = 0 /\ up = "up"
      /\ manifest = [log |-> 1, next |-> 2, entries |-> {}]
  BY DEF Init
<1>2. DOMAIN logs = {1} /\ logs[1] = EmptyLog /\ Full(EmptyLog) = {} /\ Safe(EmptyLog) = {}
  BY <1>1, NothingLogged
<1>3. Recoverable = {} /\ Synced = {}
  BY <1>1, <1>2, OpeningFinds
<1>4. LogsInMemory
  BY <1>1, <1>2 DEF LogsInMemory
<1>5. Numbered
  BY <1>1, <1>3 DEF Numbered
<1>6. QED
  BY <1>3, <1>4, <1>5 DEF RInv, Durable!Init

LEMMA RInvNext == ASSUME WholeWrites, WInv, RInv, [Next]_vars PROVE RInv' /\ DiskStep
<1>1. ASSUME NEW t \in Threads, WriterNext(t) PROVE RInv' /\ DiskStep
  <2>1. CASE Lead(t)
    BY <2>1, LeadDisk
  <2>2. CASE RoomError(t) \/ RoomDelay(t) \/ RoomWait(t) \/ RoomNoLog(t) \/ RoomOk(t)
    BY <2>2, RoomDisk
  <2>3. CASE RoomSwitch(t)
    BY <2>3, SwitchDisk
  <2>4. CASE AppendRecord(t)
    BY <2>4, AppendDisk
  <2>5. CASE AppendFails(t)
    BY <2>5 DEF AppendFails, WholeWrites
  <2>6. CASE SyncLog(t)
    BY <2>6, SyncDisk
  <2>7. CASE SyncFails(t)
    BY <2>7, SyncFailsDisk
  <2>8. CASE InsertMem(t)
    BY <2>8, InsertDisk
  <2>9. CASE Return(t) \/ FlushWait(t)
    BY <2>9, ReturnDisk
  <2>10. QED
    BY <1>1, <2>1, <2>2, <2>3, <2>4, <2>5, <2>6, <2>7, <2>8, <2>9 DEF WriterNext, WriteLog, WakeUp
<1>2. CASE BGNext
  <2>1. CASE BGStart \/ BGFlushInside \/ BuildTable \/ BGMergeFails
    BY <2>1, BackgroundDisk
  <2>2. CASE LogAndApply
    BY <2>2, ManifestDisk
  <2>3. CASE CommitFlush \/ BGCompacted
    BY <2>3, CommitDisk
  <2>4. CASE BGMove \/ BGInstall
    BY <2>4, InstallDisk
  <2>5. QED
    BY <1>2, <2>1, <2>2, <2>3, <2>4 DEF BGNext
<1>3. ASSUME NEW t \in Threads, NEW sync \in BOOLEAN, NEW null \in BOOLEAN, Write(t, sync, null)
      PROVE  RInv' /\ DiskStep
  BY <1>3, WriteDisk
<1>4. CASE ProcessCrash
  BY <1>4, ProcessCrashDisk
<1>5. CASE MachineCrash
  BY <1>5, MachineCrashDisk
<1>6. CASE Recover
  BY <1>6, RecoverDisk
<1>7. CASE OpenInstall
  BY <1>7, OpenInstallDisk
<1>8. CASE Open
  BY <1>8, OpenDisk
<1>9. CASE UNCHANGED vars
  <2>1. UNCHANGED kept /\ UNCHANGED <<group, pc, req, lastSeq, bgError>>
    BY <1>9 DEF vars, volatile, disk, tables, history, kept
  <2>2. QED
    BY <2>1, SamePending, KeptDisk
<1>10. QED
  BY <1>1, <1>2, <1>3, <1>4, <1>5, <1>6, <1>7, <1>8, <1>9 DEF Next

\* LevelDB's logs, manifest and tables implement the durable log: what a
\* reopening finds grows by a group with new numbers when its record is
\* appended, and by nothing else; syncs, flushes, deletions and recoveries
\* only make it safer, and a power cut takes what was never synced.
THEOREM DiskIsDurable == ASSUME WholeWrites PROVE Spec => ImplementsDurableLog
<1>1. Init => WInv /\ RInv /\ Durable!Init
  BY WInvInit, RInvInit
<1>2. WInv /\ RInv /\ [Next]_vars => WInv' /\ RInv' /\ [Durable!Next]_<<Recoverable, Synced>>
  BY WInvNext, RInvNext DEF DiskStep
<1>3. QED
  BY <1>1, <1>2, PTL DEF Spec, ImplementsDurableLog, Durable!Spec

-----------------------------------------------------------------------------
(* The order of the calls.                                                 *)

\* The numbers of the calls increase along the queue.
QueueOrder ==
    /\ \A i \in 1..Len(queue) : req[queue[i]].id <= ops
    /\ \A i, j \in 1..Len(queue) :
            i < j /\ req[queue[i]].id # 0 /\ req[queue[j]].id # 0 => req[queue[i]].id < req[queue[j]].id

\* What is in the log was called before what still waits.
Called ==
    \A e \in Recoverable :
        /\ e[2] \in Nat /\ e[2] <= ops
        /\ \/ e \in Pending
           \/ \A i \in 1..Len(queue) : req[queue[i]].id # 0 => e[2] < req[queue[i]].id

OInv == QueueOrder /\ Called /\ CallOrder

LEMMA SameOrder == ASSUME OInv, Steady, UNCHANGED <<queue, req, ops>> PROVE OInv'
  BY DEF OInv, QueueOrder, Called, CallOrder, Steady

LEMMA NobodyWaits ==
  ASSUME OInv, Recoverable' \subseteq Recoverable, queue' = <<>>, ops' = ops
  PROVE  OInv'
<1>1. \A i \in 1..Len(queue') : FALSE
  OBVIOUS
<1>2. \A e \in Recoverable' : e[2] \in Nat /\ e[2] <= ops
  BY DEF OInv, Called
<1>3. CallOrder'
  BY DEF OInv, CallOrder
<1>4. QED
  BY <1>1, <1>2, <1>3 DEF OInv, QueueOrder, Called

LEMMA WriteOrder ==
  ASSUME WInv, RInv, OInv, NEW t \in Threads, NEW sync \in BOOLEAN, NEW null \in BOOLEAN,
         Write(t, sync, null)
  PROVE  OInv'
<1>1. /\ queue' = Append(queue, t) /\ ops' = ops + 1 /\ ops \in Nat /\ pc[t] = "idle"
      /\ queue \in Seq(Threads) /\ Len(queue) \in Nat
      /\ \A i \in 1..Len(queue) : queue[i] \in Threads
  BY DEF Write, WInv, QInv, QTypeOK
<1>2. /\ req \in [Threads -> [id : Nat, sync : BOOLEAN]]
      /\ req' = [req EXCEPT ![t] = [id |-> IF null THEN 0 ELSE ops + 1, sync |-> sync]]
  BY DEF Write, WInv, QInv, QTypeOK
<1>3. \A i \in 1..Len(queue) : queue[i] # t
  BY <1>1 DEF WInv, QInv, QueueOK, Leading
<1>4. /\ Len(queue') = Len(queue) + 1 /\ queue'[Len(queue) + 1] = t
      /\ \A i \in 1..Len(queue) : queue'[i] = queue[i]
  BY <1>1
<1>5. /\ req'[t].id \in {0, ops + 1}
      /\ \A i \in 1..Len(queue) : req'[queue'[i]].id = req[queue[i]].id /\ req[queue[i]].id \in Nat
  <2>1. req'[t].id \in {0, ops + 1}
    BY <1>2
  <2>2. \A i \in 1..Len(queue) : req'[queue[i]] = req[queue[i]] /\ req[queue[i]].id \in Nat
    BY <1>1, <1>2, <1>3
  <2>3. QED
    BY <1>4, <2>1, <2>2
<1>6. \A i \in 1..Len(queue') : i \in 1..Len(queue) \/ i = Len(queue) + 1
  BY <1>1, <1>4
<1>7. \A i \in 1..Len(queue) : req[queue[i]].id <= ops
  BY DEF OInv, QueueOrder
<1>8. QueueOrder'
  <2>1. \A i \in 1..Len(queue') : req'[queue'[i]].id <= ops + 1
    BY <1>1, <1>4, <1>5, <1>6, <1>7
  <2>2. ASSUME NEW i \in 1..Len(queue'), NEW j \in 1..Len(queue'), i < j,
               req'[queue'[i]].id # 0, req'[queue'[j]].id # 0
        PROVE  req'[queue'[i]].id < req'[queue'[j]].id
    <3>1. i \in 1..Len(queue)
      BY <1>1, <1>4, <2>2
    <3>2. CASE j \in 1..Len(queue)
      <4>1. req[queue[i]].id # 0 /\ req[queue[j]].id # 0
        BY <1>5, <2>2, <3>1, <3>2
      <4>2. req[queue[i]].id < req[queue[j]].id
        BY <2>2, <3>1, <3>2, <4>1 DEF OInv, QueueOrder
      <4>3. QED
        BY <1>5, <3>1, <3>2, <4>2
    <3>3. CASE j = Len(queue) + 1
      <4>1. req'[queue'[j]].id = ops + 1
        BY <1>4, <1>5, <2>2, <3>3
      <4>2. req'[queue'[i]].id <= ops /\ req'[queue'[i]].id \in Nat
        BY <1>5, <1>7, <3>1
      <4>3. QED
        BY <1>1, <4>1, <4>2
    <3>4. QED
      BY <1>6, <3>2, <3>3
  <2>3. QED
    BY <1>1, <2>1, <2>2 DEF QueueOrder
<1>9. Steady
  BY WriteDisk
<1>10. Called'
  <2> SUFFICES ASSUME NEW e \in Recoverable
               PROVE  /\ e[2] \in Nat /\ e[2] <= ops + 1
                      /\ \/ e \in Pending
                         \/ \A i \in 1..Len(queue') : req'[queue'[i]].id # 0 => e[2] < req'[queue'[i]].id
    BY <1>1, <1>9 DEF Called, Steady
  <2>1. /\ e[2] \in Nat /\ e[2] <= ops
        /\ \/ e \in Pending
           \/ \A i \in 1..Len(queue) : req[queue[i]].id # 0 => e[2] < req[queue[i]].id
    BY DEF OInv, Called
  <2>2. e[2] <= ops + 1 /\ e[2] < ops + 1
    BY <1>1, <2>1
  <2>3. ASSUME e \notin Pending, NEW i \in 1..Len(queue'), req'[queue'[i]].id # 0
        PROVE  e[2] < req'[queue'[i]].id
    BY <1>4, <1>5, <1>6, <2>1, <2>2, <2>3
  <2>4. QED
    BY <2>1, <2>2, <2>3
<1>11. CallOrder'
  BY <1>9 DEF OInv, CallOrder, Steady
<1>12. QED
  BY <1>8, <1>10, <1>11 DEF OInv

\* The leader takes its group off the queue: the rest was called later.
LEMMA FinishOrder ==
  ASSUME WInv, OInv, NEW t \in Threads, NEW g, NEW ok, NEW others, IsGroup(t, g),
         FinishWaking(t, g, ok, others), ops' = ops,
         Recoverable' = Recoverable,
         \A e \in Pending : \E i \in 1..Len(g) : e[2] = req[g[i]].id /\ req[g[i]].id # 0
  PROVE  OInv'
<1>1. queue' = SubSeq(queue, Len(g) + 1, Len(queue)) /\ req' = req
  BY DEF FinishWaking
<1>2. /\ queue \in Seq(Threads) /\ Len(queue) \in Nat /\ Len(g) \in 1..Len(queue)
      /\ \A i \in 1..Len(g) : g[i] = queue[i]
  BY DEF WInv, QInv, QTypeOK, IsGroup
<1>3. Len(queue') = Len(queue) - Len(g) /\ \A i \in 1..Len(queue') : queue'[i] = queue[Len(g) + i]
  <2>1. Len(g) + 1 \in 1..Len(queue) + 1 /\ Len(queue) \in Len(g) + 1 - 1..Len(queue)
    BY <1>2
  <2>2. QED
    BY <1>1, <1>2, <2>1, SubSeqProperties
<1>4. \A i \in 1..Len(queue') : i \in Nat /\ Len(g) + i \in 1..Len(queue)
  BY <1>2, <1>3
<1>5. QueueOrder'
  <2>1. \A i \in 1..Len(queue') : req[queue'[i]].id <= ops
    BY <1>3, <1>4 DEF OInv, QueueOrder
  <2>2. ASSUME NEW i \in 1..Len(queue'), NEW j \in 1..Len(queue'), i < j,
               req[queue'[i]].id # 0, req[queue'[j]].id # 0
        PROVE  req[queue'[i]].id < req[queue'[j]].id
    <3>1. Len(g) + i \in 1..Len(queue) /\ Len(g) + j \in 1..Len(queue) /\ Len(g) + i < Len(g) + j
      BY <1>2, <1>4, <2>2
    <3>2. queue'[i] = queue[Len(g) + i] /\ queue'[j] = queue[Len(g) + j]
      BY <1>3
    <3>3. QED
      BY <2>2, <3>1, <3>2 DEF OInv, QueueOrder
  <2>3. QED
    BY <1>1, <2>1, <2>2 DEF QueueOrder
<1>6. Called'
  <2> SUFFICES ASSUME NEW e \in Recoverable
               PROVE  /\ e[2] \in Nat /\ e[2] <= ops
                      /\ \A k \in 1..Len(queue') : req[queue'[k]].id # 0 => e[2] < req[queue'[k]].id
    BY <1>1 DEF Called
  <2>1. /\ e[2] \in Nat /\ e[2] <= ops
        /\ \/ e \in Pending
           \/ \A i \in 1..Len(queue) : req[queue[i]].id # 0 => e[2] < req[queue[i]].id
    BY DEF OInv, Called
  <2>2. ASSUME NEW k \in 1..Len(queue'), req[queue'[k]].id # 0 PROVE e[2] < req[queue'[k]].id
    <3>1. queue'[k] = queue[Len(g) + k] /\ Len(g) + k \in 1..Len(queue)
      BY <1>3, <1>4
    <3>2. CASE e \in Pending
      <4>1. PICK i \in 1..Len(g) : e[2] = req[g[i]].id /\ req[g[i]].id # 0
        BY <3>2
      <4>2. i \in 1..Len(queue) /\ g[i] = queue[i] /\ i < Len(g) + k
        BY <1>2, <1>4
      <4>3. QED
        BY <2>2, <3>1, <4>1, <4>2 DEF OInv, QueueOrder
    <3>3. CASE e \notin Pending
      BY <2>1, <2>2, <3>1, <3>3
    <3>4. QED
      BY <3>2, <3>3
  <2>3. QED
    BY <2>1, <2>2
<1>7. CallOrder'
  BY DEF OInv, CallOrder
<1>8. QED
  BY <1>5, <1>6, <1>7 DEF OInv

LEMMA LeaderFinishes ==
  ASSUME WInv, OInv, NEW t \in Threads, NEW ok, pc[t] = "lead", FinishWaking(t, <<t>>, ok, {}),
         ops' = ops, Steady
  PROVE  OInv'
<1>1. IsGroup(t, <<t>>)
  BY LeaderAlone DEF WInv, Leading
<1>2. Pending = {}
  BY LeaderNotPending, NoPending
<1>3. QED
  BY <1>1, <1>2, FinishOrder DEF Steady

LEMMA GroupFinishes ==
  ASSUME WInv, OInv, NEW t \in Threads, NEW ok, NEW others, pc[t] \in {"sync", "mem"},
         FinishWaking(t, group, ok, others), ops' = ops,
         Recoverable' = Recoverable
  PROVE  OInv'
<1>1. IsGroup(t, group)
  BY LeaderGroup DEF WInv
<1>2. ASSUME NEW e \in GroupEntries
      PROVE  \E i \in 1..Len(group) : e[2] = req[group[i]].id /\ req[group[i]].id # 0
  <2>1. PICK i \in 1..Len(group) : e = <<lastSeq + Place(i), req[group[i]].id>> /\ req[group[i]].id # 0
    BY DEF GroupEntries, Place
  <2>2. e[2] = req[group[i]].id
    BY <2>1
  <2>3. QED
    BY <2>1, <2>2
<1>3. \A e \in Pending : e \in GroupEntries
  BY DEF Pending
<1>4. QED
  BY <1>1, <1>2, <1>3, FinishOrder

\* A group enters the log behind everything that is there, in the order of
\* its calls.
LEMMA AppendOrder == ASSUME WInv, RInv, OInv, NEW t \in Threads, AppendRecord(t) PROVE OInv'
<1>1. UNCHANGED <<queue, req, ops>> /\ pc[t] = "log" /\ up = "up"
  BY DEF AppendRecord, history
<1>2. Recoverable' = Recoverable \cup GroupEntries /\ Pending = {} /\ Pending' = GroupEntries
  BY AppendDisk
<1>3. /\ lastSeq \in Nat /\ group \in Seq(Threads) /\ Len(group) \in Nat
      /\ queue \in Seq(Threads) /\ req \in [Threads -> [id : Nat, sync : BOOLEAN]]
  BY DEF WInv, QInv, QTypeOK, RInv, Numbered
<1>4. \A i \in 1..Len(group) : i \in 1..Len(queue) /\ group[i] = queue[i] /\ queue[i] \in Threads
  <2>1. Len(group) \in 1..Len(queue) /\ \A i \in 1..Len(group) : group[i] = queue[i]
    BY <1>1 DEF WInv, QInv, GroupOK
  <2>2. QED
    BY <1>3, <2>1
<1>5. \A e \in Recoverable : e[1] \in Nat /\ e[1] <= lastSeq /\ e[2] \in Nat /\ e[2] <= ops
  BY <1>1, <1>2 DEF RInv, Numbered, OInv, Called
<1>6. \A f \in GroupEntries : f[1] \in Nat /\ lastSeq < f[1]
  BY <1>3, GroupNumbers
<1>7. ASSUME NEW f \in GroupEntries
      PROVE  \E i \in 1..Len(group) : /\ f[1] = lastSeq + Place(i) /\ Place(i) \in Nat
                                      /\ f[2] = req[queue[i]].id /\ f[2] \in Nat /\ f[2] <= ops
                                      /\ req[queue[i]].id # 0
  <2>1. PICK i \in 1..Len(group) : f = <<lastSeq + Place(i), req[group[i]].id>> /\ req[group[i]].id # 0
    BY <1>7 DEF GroupEntries, Place
  <2>2. Place(i) \in Nat
    <3>1. i \in Nat
      BY <1>3
    <3>2. QED
      BY <3>1, PlaceIsNat
  <2>3. req[queue[i]].id \in Nat /\ req[queue[i]].id <= ops
    BY <1>3, <1>4 DEF OInv, QueueOrder
  <2>4. f[1] = lastSeq + Place(i) /\ f[2] = req[group[i]].id
    BY <2>1
  <2>5. QED
    BY <1>4, <2>1, <2>2, <2>3, <2>4
<1>8. ASSUME NEW e \in Recoverable, NEW f \in GroupEntries PROVE e[1] < f[1] /\ e[2] < f[2]
  <2>1. e[1] < f[1]
    BY <1>3, <1>5, <1>6
  <2>2. PICK i \in 1..Len(group) : f[2] = req[queue[i]].id /\ req[queue[i]].id # 0
    BY <1>7
  <2>3. QED
    BY <1>2, <1>4, <2>1, <2>2 DEF OInv, Called
<1>9. ASSUME NEW e \in GroupEntries, NEW f \in GroupEntries
      PROVE  \/ e[1] = f[1] /\ e[2] = f[2]
             \/ e[1] < f[1] /\ e[2] < f[2]
             \/ f[1] < e[1] /\ f[2] < e[2]
  <2>1. PICK i \in 1..Len(group) : /\ e[1] = lastSeq + Place(i) /\ Place(i) \in Nat
                                   /\ e[2] = req[queue[i]].id /\ req[queue[i]].id # 0
    BY <1>7
  <2>2. PICK k \in 1..Len(group) : /\ f[1] = lastSeq + Place(k) /\ Place(k) \in Nat
                                   /\ f[2] = req[queue[k]].id /\ req[queue[k]].id # 0
    BY <1>7
  <2>3. /\ i \in Nat /\ k \in Nat /\ i \in 1..Len(queue) /\ k \in 1..Len(queue)
        /\ req[group[i]].id # 0 /\ req[group[k]].id # 0
    <3>1. i \in Nat /\ k \in Nat
      BY <1>3
    <3>2. QED
      BY <1>4, <2>1, <2>2, <3>1
  <2>4. CASE i < k
    <3>1. Place(i) < Place(k)
      BY <2>3, <2>4, PlaceGrows
    <3>2. e[2] < f[2]
      BY <2>1, <2>2, <2>3, <2>4 DEF OInv, QueueOrder
    <3>3. QED
      BY <1>3, <2>1, <2>2, <3>1, <3>2
  <2>5. CASE k < i
    <3>1. Place(k) < Place(i)
      BY <2>3, <2>5, PlaceGrows
    <3>2. f[2] < e[2]
      BY <2>1, <2>2, <2>3, <2>5 DEF OInv, QueueOrder
    <3>3. QED
      BY <1>3, <2>1, <2>2, <3>1, <3>2
  <2>6. CASE i = k
    BY <2>1, <2>2, <2>6
  <2>7. QED
    BY <2>3, <2>4, <2>5, <2>6
<1>10. \A e \in Recoverable' : e[1] \in Nat /\ e[2] \in Nat /\ e[2] <= ops
  BY <1>2, <1>5, <1>6, <1>7
<1>11. CallOrder'
  <2> SUFFICES ASSUME NEW e \in Recoverable', NEW f \in Recoverable'
               PROVE  e[1] <= f[1] <=> e[2] <= f[2]
    BY DEF CallOrder
  <2>1. e[1] \in Nat /\ e[2] \in Nat /\ f[1] \in Nat /\ f[2] \in Nat
    BY <1>10
  <2>2. CASE e \in Recoverable /\ f \in Recoverable
    BY <2>2 DEF OInv, CallOrder
  <2>3. CASE e \in Recoverable /\ f \in GroupEntries
    BY <1>8, <2>1, <2>3
  <2>4. CASE e \in GroupEntries /\ f \in Recoverable
    BY <1>8, <2>1, <2>4
  <2>5. CASE e \in GroupEntries /\ f \in GroupEntries
    BY <1>9, <2>1, <2>5
  <2>6. QED
    BY <1>2, <2>2, <2>3, <2>4, <2>5
<1>12. QueueOrder'
  BY <1>1 DEF OInv, QueueOrder
<1>13. Called'
  <2>1. \A e \in Recoverable : \A i \in 1..Len(queue) : req[queue[i]].id # 0 => e[2] < req[queue[i]].id
    BY <1>2 DEF OInv, Called
  <2>2. QED
    BY <1>1, <1>2, <1>10, <2>1 DEF Called
<1>14. QED
  BY <1>11, <1>12, <1>13 DEF OInv

LEMMA OInvNext == ASSUME WholeWrites, WInv, RInv, OInv, [Next]_vars PROVE OInv'
<1>1. ASSUME NEW t \in Threads, WriterNext(t) PROVE OInv'
  <2>1. CASE Lead(t)
    BY <2>1, LeadDisk, SameOrder DEF Lead, history
  <2>2. CASE RoomError(t) \/ RoomDelay(t) \/ RoomWait(t) \/ RoomNoLog(t) \/ RoomOk(t)
    <3>1. Steady
      BY <2>2, RoomDisk
    <3>2. pc[t] = "lead" /\ ops' = ops
      BY <2>2 DEF RoomError, RoomDelay, RoomWait, RoomNoLog, RoomOk, CanSwitch, InRoom, history
    <3>3. UNCHANGED <<queue, req>> \/ \E ok : FinishWaking(t, <<t>>, ok, {})
      BY <2>2 DEF RoomError, RoomDelay, RoomWait, RoomNoLog, RoomOk, Finish
    <3>4. QED
      BY <3>1, <3>2, <3>3, SameOrder, LeaderFinishes
  <2>3. CASE RoomSwitch(t)
    BY <2>3, SwitchDisk, SameOrder DEF RoomSwitch, history
  <2>4. CASE AppendRecord(t)
    BY <2>4, AppendOrder
  <2>5. CASE AppendFails(t)
    BY <2>5 DEF AppendFails, WholeWrites
  <2>6. CASE SyncLog(t)
    BY <2>6, SyncDisk, SameOrder DEF SyncLog, history
  <2>7. CASE SyncFails(t)
    <3>1. Recoverable' = Recoverable
      BY <2>7, SyncFailsDisk
    <3>2. pc[t] = "sync" /\ (\E ok, others : FinishWaking(t, group, ok, others)) /\ ops' = ops
      BY <2>7 DEF SyncFails, history
    <3>3. QED
      BY <3>1, <3>2, GroupFinishes
  <2>8. CASE InsertMem(t)
    <3>1. Recoverable' = Recoverable
      BY <2>8, InsertDisk
    <3>2. pc[t] = "mem" /\ (\E ok, others : FinishWaking(t, group, ok, others)) /\ ops' = ops
      BY <2>8 DEF InsertMem, Finish
    <3>3. QED
      BY <3>1, <3>2, GroupFinishes
  <2>9. CASE Return(t) \/ FlushWait(t)
    BY <2>9, ReturnDisk, SameOrder DEF Return, FlushWait, history
  <2>10. QED
    BY <1>1, <2>1, <2>2, <2>3, <2>4, <2>5, <2>6, <2>7, <2>8, <2>9 DEF WriterNext, WriteLog, WakeUp
<1>2. CASE BGNext
  <2>1. CASE BGStart \/ BGFlushInside \/ BuildTable \/ BGMergeFails
    BY <2>1, BackgroundKeeps, BackgroundDisk, SameOrder
  <2>2. CASE LogAndApply
    BY <2>2, Applies, ManifestDisk, SameOrder
  <2>3. CASE CommitFlush \/ BGCompacted
    BY <2>3, Commits, CommitDisk, SameOrder
  <2>4. CASE BGMove \/ BGInstall
    BY <2>4, Moves, InstallDisk, SameOrder
  <2>5. QED
    BY <1>2, <2>1, <2>2, <2>3, <2>4 DEF BGNext
<1>3. ASSUME NEW t \in Threads, NEW sync \in BOOLEAN, NEW null \in BOOLEAN, Write(t, sync, null)
      PROVE  OInv'
  BY <1>3, WriteOrder
<1>4. CASE ProcessCrash
  BY <1>4, ProcessCrashDisk, NobodyWaits DEF ProcessCrash, Forget, history
<1>5. CASE MachineCrash
  BY <1>5, MachineCrashDisk, NobodyWaits DEF MachineCrash, Forget
<1>6. CASE Recover
  <2>1. up = "down" /\ UNCHANGED <<queue, ops>>
    BY <1>6 DEF Recover, volatile, history
  <2>2. queue = <<>>
    BY <2>1 DEF WInv, QInv, Quiet
  <2>3. QED
    BY <1>6, <2>1, <2>2, RecoverDisk, NobodyWaits
<1>7. CASE OpenInstall \/ Open
  <2>1. up # "up" /\ UNCHANGED <<queue, ops>>
    BY <1>7 DEF OpenInstall, Open, volatile, writerVars, history
  <2>2. queue = <<>>
    BY <2>1 DEF WInv, QInv, Quiet
  <2>3. QED
    BY <1>7, <2>1, <2>2, OpenInstallDisk, OpenDisk, NobodyWaits
<1>8. CASE UNCHANGED vars
  <2>1. UNCHANGED kept /\ UNCHANGED <<queue, ops, group, pc, req, lastSeq, bgError>>
    BY <1>8 DEF vars, volatile, disk, tables, history, kept
  <2>2. QED
    BY <2>1, SamePending, KeptDisk, SameOrder
<1>9. QED
  BY <1>1, <1>2, <1>3, <1>4, <1>5, <1>6, <1>7, <1>8 DEF Next

\* The numbers of the entries follow the order in which the writers called
\* Write, across groups, failed syncs, crashes and recoveries: no later call
\* is ever behind an earlier one in what a reopening finds.
THEOREM CallsInOrder == ASSUME WholeWrites PROVE Spec => []CallOrder
<1>1. Init => OInv
  <2> SUFFICES ASSUME Init PROVE OInv
    OBVIOUS
  <2>1. queue = <<>> /\ ops = 0
    BY DEF Init
  <2>2. \A i \in 1..Len(queue) : FALSE
    BY <2>1
  <2>3. Recoverable = {}
    BY RInvInit DEF Durable!Init
  <2>4. QED
    BY <2>1, <2>2, <2>3 DEF OInv, QueueOrder, Called, CallOrder
<1>2. Init => WInv /\ RInv
  BY WInvInit, RInvInit
<1>3. WInv /\ RInv /\ OInv /\ [Next]_vars => WInv' /\ RInv' /\ OInv'
  BY WInvNext, RInvNext, OInvNext
<1>4. OInv => CallOrder
  BY DEF OInv
<1>5. QED
  BY <1>1, <1>2, <1>3, <1>4, PTL DEF Spec
===============================================================================
