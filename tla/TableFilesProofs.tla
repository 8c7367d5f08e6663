---------------------------- MODULE TableFilesProofs ----------------------------
(***************************************************************************)
(* Table files, versions and the cache of open tables, for every number of *)
(* readers, every capacity and every bound: no needed table is deleted or  *)
(* written over, and nothing is left behind.                               *)
(*                                                                         *)
(* The invariant FInv has the exact number of references: a version has as *)
(* many as there are holders of it, and a handle as many as there are      *)
(* users of it, and one if it is listed.  The counting lemmas are about    *)
(* any list of versions and any cache; those about a step choose theirs.   *)
(***************************************************************************)
EXTENDS TableFiles, FiniteSetTheorems, SequenceTheorems, WellFoundedInduction, TLAPS

\* The elements of a sequence.
Elements(s) == {s[i] : i \in DOMAIN s}

LEMMA LeastOfNaturals ==
  ASSUME NEW S, S \subseteq Nat, S # {}
  PROVE  \E x \in S : \A y \in S : x <= y
<1>1. IsWellFoundedOn(OpToRel(<,Nat), Nat)
  BY NatLessThanWellFounded
<1>2. PICK x \in S : \A y \in S : ~ (<<y, x>> \in OpToRel(<,Nat))
  BY <1>1, WFMin
<1>3. \A y \in S : ~(y < x)
  BY <1>2 DEF OpToRel
<1>4. QED BY <1>3

\* The first k elements.
Upto(s, k) == {s[j] : j \in 1..k}

\* What Without does at the i-th element, and its first k turns.
Turn(s, H, v, i) == IF i = 0 THEN <<>> ELSE IF s[i] \in H THEN v[i - 1] ELSE Append(v[i - 1], s[i])
Turns(s, H, v, k) == v = [i \in 0..k |-> Turn(s, H, v, i)]

LEMMA TakesATurn ==
  ASSUME NEW s, NEW H, NEW k \in Nat \ {0}, \E v : Turns(s, H, v, k - 1)
  PROVE  \E v : Turns(s, H, v, k)
<1>1. PICK v : Turns(s, H, v, k - 1)
  OBVIOUS
<1> DEFINE x == [i \in 0..k |-> IF i = k THEN Turn(s, H, v, k) ELSE v[i]]
<1>2. \A i \in 0..k - 1 : x[i] = v[i]
  OBVIOUS
<1>3. x[k] = Turn(s, H, v, k)
  OBVIOUS
<1>4. DOMAIN x = 0..k /\ x = [i \in 0..k |-> x[i]]
  OBVIOUS
<1> HIDE DEF x
<1>5. \A i \in 0..k - 1 : v[i] = Turn(s, H, v, i)
  BY <1>1 DEF Turns
<1>6. \A i \in 0..k : Turn(s, H, x, i) = Turn(s, H, v, i)
  BY <1>2 DEF Turn
<1>7. \A i \in 0..k : x[i] = Turn(s, H, x, i)
  BY <1>2, <1>3, <1>5, <1>6
<1>8. QED
  BY <1>4, <1>7 DEF Turns

LEMMA AllTurns == ASSUME NEW s, NEW H, NEW n \in Nat PROVE \E v : Turns(s, H, v, n)
<1> DEFINE Bad == {k \in 0..n : ~ \E v : Turns(s, H, v, k)}
<1>1. ASSUME Bad # {} PROVE FALSE
  <2>1. PICK k \in Bad : \A m \in Bad : k <= m
    <3>1. Bad \subseteq Nat
      OBVIOUS
    <3> HIDE DEF Bad
    <3>2. QED
      BY <1>1, <3>1, LeastOfNaturals
  <2>2. Turns(s, H, [i \in 0..0 |-> <<>>], 0)
    BY DEF Turns, Turn
  <2>3. k \in Nat \ {0} /\ k - 1 \in 0..n /\ k - 1 \notin Bad
    <3>1. k # 0
      BY <2>1, <2>2
    <3>2. QED
      BY <2>1, <3>1
  <2>4. QED
    BY <2>1, <2>3, TakesATurn
<1>2. QED
  BY <1>1

\* After k turns, v has the first k elements without those of H.
Others(T, s, H, v, k) == v[k] \in Seq(T) /\ Elements(v[k]) = Upto(s, k) \ H

LEMMA TurnKeeps ==
  ASSUME NEW T, NEW s, NEW H, NEW k \in Nat \ {0}, s[k] \in T, NEW v, v[k] = Turn(s, H, v, k),
         Others(T, s, H, v, k - 1)
  PROVE  Others(T, s, H, v, k)
<1> DEFINE q == v[k - 1]
           p == Append(q, s[k])
<1>1. v[k] = IF s[k] \in H THEN q ELSE p
  BY DEF Turn
<1>2. Upto(s, k) = Upto(s, k - 1) \cup {s[k]}
  BY DEF Upto
<1>3. q \in Seq(T) /\ Elements(q) = Upto(s, k - 1) \ H
  BY DEF Others
<1>4. /\ p \in Seq(T) /\ DOMAIN q = 1..Len(q) /\ Len(q) \in Nat
      /\ DOMAIN p = 1..Len(q) + 1 /\ p[Len(q) + 1] = s[k]
      /\ \A i \in 1..Len(q) : p[i] = q[i]
  BY <1>3, AppendProperties, LenProperties
<1> HIDE DEF p, q
<1>5. Elements(p) = Elements(q) \cup {s[k]}
  BY <1>4 DEF Elements
<1>6. QED
  BY <1>1, <1>2, <1>3, <1>4, <1>5 DEF Others

LEMMA WithoutIs ==
  ASSUME NEW T, NEW s \in Seq(T), NEW H
  PROVE  Without(s, H) \in Seq(T) /\ Elements(Without(s, H)) = Elements(s) \ H
<1> DEFINE n == Len(s)
           w == CHOOSE v : Turns(s, H, v, n)
           Bad == {i \in 0..n : ~Others(T, s, H, w, i)}
<1>1. n \in Nat /\ DOMAIN s = 1..n /\ \A i \in 1..n : s[i] \in T
  BY LenProperties, ElementOfSeq
<1>2. Turns(s, H, w, n)
  BY <1>1, AllTurns
<1>3. Without(s, H) = w[n]
  BY DEF Without, Turn, Turns
<1> HIDE DEF w, n
<1>4. \A i \in 0..n : w[i] = Turn(s, H, w, i)
  BY <1>2 DEF Turns
<1>5. Others(T, s, H, w, 0)
  <2>1. w[0] = <<>>
    BY <1>1, <1>4 DEF Turn
  <2>2. QED
    BY <2>1, EmptySeq DEF Elements, Upto, Others
<1>6. ASSUME NEW i \in 1..n, Others(T, s, H, w, i - 1) PROVE Others(T, s, H, w, i)
  <2>1. i \in Nat \ {0} /\ s[i] \in T /\ w[i] = Turn(s, H, w, i)
    BY <1>1, <1>4
  <2>2. QED
    BY <1>6, <2>1, TurnKeeps
<1>7. ASSUME Bad # {} PROVE FALSE
  <2>1. PICK k \in Bad : \A m \in Bad : k <= m
    <3>1. Bad \subseteq Nat
      BY <1>1
    <3> HIDE DEF Bad
    <3>2. QED
      BY <1>7, <3>1, LeastOfNaturals
  <2>2. k \in 1..n /\ k - 1 \in 0..n
    BY <1>1, <1>5, <2>1
  <2>3. Others(T, s, H, w, k - 1)
    <3>1. k - 1 \notin Bad
      BY <1>1, <2>1, <2>2
    <3>2. QED
      BY <2>2, <3>1
  <2>4. QED
    BY <1>6, <2>1, <2>2, <2>3
<1>8. Others(T, s, H, w, n)
  <2>1. n \in 0..n
    BY <1>1
  <2>2. n \notin Bad
    <3> HIDE DEF Bad
    <3>1. QED
      BY <1>7
  <2>3. QED
    BY <2>1, <2>2
<1>9. Upto(s, n) = Elements(s)
  BY <1>1 DEF Elements, Upto
<1>10. QED
  BY <1>3, <1>8, <1>9 DEF Others
-----------------------------------------------------------------------------
(* Numbers that are given out, and counted references.                     *)

LEMMA LeastFreeIsFree ==
  ASSUME NEW used, IsFiniteSet(used)
  PROVE  LeastFree(used) \in Nat \ {0} /\ LeastFree(used) \notin used
<1> DEFINE n == Cardinality(used)
           Free == {i \in 1..n + 1 : i \notin used}
<1>1. n \in Nat
  BY FS_CardinalityType
<1>2. Free # {}
  <2> SUFFICES ASSUME Free = {} PROVE FALSE
    OBVIOUS
  <2>1. 1..n + 1 \in SUBSET used
    OBVIOUS
  <2>2. Cardinality(1..n + 1) <= n
    BY <2>1, FS_Subset
  <2>3. Cardinality(1..n + 1) = n + 1
    <3>1. 1 \in Int /\ n + 1 \in Int /\ ~(1 > n + 1)
      BY <1>1
    <3>2. Cardinality(1..n + 1) = (n + 1) - 1 + 1
      BY <3>1, FS_Interval
    <3>3. QED
      BY <1>1, <3>2
  <2>4. QED
    BY <1>1, <2>2, <2>3
<1>3. PICK i \in Free : \A j \in Free : i <= j
  <2>1. Free \subseteq Nat
    BY <1>1
  <2> HIDE DEF Free
  <2>2. QED
    BY <1>2, <2>1, LeastOfNaturals
<1>4. i \in 1..n + 1 /\ i \notin used /\ \A j \in 1..i - 1 : j \in used
  BY <1>1, <1>3
<1>5. LeastFree(used) \in 1..n + 1 /\ LeastFree(used) \notin used
  BY <1>4 DEF LeastFree
<1>6. QED
  BY <1>1, <1>5

\* Everybody who may hold on to a version or to a handle.
Everyone == {<<"current", 0>>, <<"flush", 0>>, <<"merge", 0>>} \cup {<<"reader", r>> : r \in Readers}

\* Those whose share, in the function f, is x.
Sharers(f, x) == {h \in Everyone : f[h] = x}

\* One of them changes from one share to another.
Changes(f, g, h, x) == f[h] = x /\ \A e \in Everyone \ {h} : f[e] = g[e]

LEMMA EveryoneFinite == IsFiniteSet(Everyone)
<1> DEFINE S == {<<"reader", r>> : r \in Readers}
           f == [r \in Readers |-> <<"reader", r>>]
<1>1. f \in Surjection(Readers, S)
  BY DEF Surjection
<1>2. IsFiniteSet(S)
  <2> HIDE DEF f, S
  <2>1. QED
    BY <1>1, FilesAssumption, FS_Surjection
<1>3. IsFiniteSet({<<"current", 0>>}) /\ IsFiniteSet({<<"flush", 0>>}) /\ IsFiniteSet({<<"merge", 0>>})
  BY FS_Singleton
<1>4. IsFiniteSet({<<"current", 0>>} \cup {<<"flush", 0>>} \cup {<<"merge", 0>>} \cup S)
  BY <1>2, <1>3, FS_Union
<1>5. Everyone = {<<"current", 0>>} \cup {<<"flush", 0>>} \cup {<<"merge", 0>>} \cup S
  BY DEF Everyone
<1>6. QED
  BY <1>4, <1>5

LEMMA SharersFinite ==
  ASSUME NEW f, NEW x
  PROVE  /\ IsFiniteSet(Sharers(f, x)) /\ Cardinality(Sharers(f, x)) \in Nat
         /\ Cardinality(Sharers(f, x)) = 0 <=> \A h \in Everyone : f[h] # x
<1>1. Sharers(f, x) \in SUBSET Everyone
  BY DEF Sharers
<1>2. IsFiniteSet(Sharers(f, x))
  BY <1>1, EveryoneFinite, FS_Subset
<1>3. Cardinality(Sharers(f, x)) = 0 <=> Sharers(f, x) = {}
  BY <1>2, FS_EmptySet
<1>4. QED
  BY <1>2, <1>3, FS_CardinalityType DEF Sharers

\* A change takes one sharer from here to there.
LEMMA SharesMove ==
  ASSUME NEW f, NEW g, NEW h \in Everyone, NEW x, Changes(f, g, h, x), g[h] # x, NEW y
  PROVE  Cardinality(Sharers(f, y)) = IF y = x THEN Cardinality(Sharers(g, y)) + 1
                                      ELSE IF y = g[h] THEN Cardinality(Sharers(g, y)) - 1
                                      ELSE Cardinality(Sharers(g, y))
<1>1. IsFiniteSet(Sharers(g, y))
  BY SharersFinite
<1>2. CASE y = x
  <2>1. Sharers(f, y) = Sharers(g, y) \cup {h} /\ h \notin Sharers(g, y)
    BY <1>2 DEF Sharers, Changes
  <2>2. QED
    BY <1>1, <1>2, <2>1, FS_AddElement
<1>3. CASE y # x /\ y = g[h]
  <2>1. Sharers(f, y) = Sharers(g, y) \ {h} /\ h \in Sharers(g, y)
    BY <1>3 DEF Sharers, Changes
  <2>2. QED
    BY <1>1, <1>3, <2>1, FS_RemoveElement
<1>4. CASE y # x /\ y # g[h]
  <2>1. Sharers(f, y) = Sharers(g, y)
    BY <1>4 DEF Sharers, Changes
  <2>2. QED
    BY <1>4, <2>1
<1>5. QED
  BY <1>2, <1>3, <1>4

-----------------------------------------------------------------------------
(* The list of versions.                                                   *)

\* The versions, whose references are counted, for the holders in holds.
Counted(vs, holds) ==
    /\ IsFiniteSet(DOMAIN vs) /\ DOMAIN vs \subseteq Nat \ {0}
    /\ vs \in [DOMAIN vs -> [files : SUBSET Tables, refs : Nat \ {0}]]
    /\ \A h \in Everyone : holds[h] \in DOMAIN vs \cup {0}
    /\ \A v \in DOMAIN vs : vs[v].refs = Cardinality(Sharers(holds, v))

\* Versions that are in both lists have the same tables.
SameFiles(vs, ws) == \A v \in DOMAIN vs \cap DOMAIN ws : vs[v].files = ws[v].files

LEMMA VersionHas ==
  ASSUME NEW vs, NEW holds, Counted(vs, holds)
  PROVE  \A v \in DOMAIN vs : vs[v].files \in SUBSET Tables /\ vs[v].refs \in Nat \ {0}
<1>1. \A v \in DOMAIN vs : vs[v] \in [files : SUBSET Tables, refs : Nat \ {0}]
  BY DEF Counted
<1>2. QED
  BY <1>1

LEMMA RefCounts ==
  ASSUME NEW vs, NEW holds, NEW new, Counted(vs, holds), NEW h \in Everyone, holds[h] = 0,
         NEW v \in DOMAIN vs, Changes(new, holds, h, v)
  PROVE  Counted(Ref(vs, v), new) /\ DOMAIN Ref(vs, v) = DOMAIN vs /\ SameFiles(Ref(vs, v), vs)
<1> DEFINE ws == Ref(vs, v)
<1>1. v \in Nat \ {0} /\ vs \in [DOMAIN vs -> [files : SUBSET Tables, refs : Nat \ {0}]]
  BY DEF Counted
<1>2. DOMAIN ws = DOMAIN vs
  BY DEF Ref
<1>3. \A u \in DOMAIN vs : /\ ws[u] \in [files : SUBSET Tables, refs : Nat \ {0}]
                          /\ ws[u].files = vs[u].files
                          /\ ws[u].refs = IF u = v THEN vs[u].refs + 1 ELSE vs[u].refs
  <2> SUFFICES ASSUME NEW u \in DOMAIN vs
               PROVE  /\ ws[u] \in [files : SUBSET Tables, refs : Nat \ {0}]
                      /\ ws[u].files = vs[u].files
                      /\ ws[u].refs = IF u = v THEN vs[u].refs + 1 ELSE vs[u].refs
    OBVIOUS
  <2>1. vs[u] \in [files : SUBSET Tables, refs : Nat \ {0}]
    BY <1>1
  <2>2. ws[u] = IF u = v THEN [vs[u] EXCEPT !.refs = @ + 1] ELSE vs[u]
    BY DEF Ref
  <2> HIDE DEF ws
  <2>3. QED
    BY <2>1, <2>2
<1>4. ws \in [DOMAIN ws -> [files : SUBSET Tables, refs : Nat \ {0}]]
  <2>1. ws = [u \in DOMAIN vs |-> ws[u]]
    BY DEF Ref
  <2> HIDE DEF ws
  <2>2. QED
    BY <1>2, <1>3, <2>1
<1> HIDE DEF ws
<1>5. \A u \in DOMAIN vs : Cardinality(Sharers(new, u)) = IF u = v THEN Cardinality(Sharers(holds, u)) + 1
                                                         ELSE Cardinality(Sharers(holds, u))
  <2>1. \A u \in DOMAIN vs : u # 0
    BY DEF Counted
  <2>2. QED
    BY <1>1, <2>1, SharesMove
<1>6. \A u \in DOMAIN vs : ws[u].refs = Cardinality(Sharers(new, u))
  <2> SUFFICES ASSUME NEW u \in DOMAIN vs PROVE ws[u].refs = Cardinality(Sharers(new, u))
    OBVIOUS
  <2>1. ws[u].refs = IF u = v THEN vs[u].refs + 1 ELSE vs[u].refs
    BY <1>3
  <2>2. vs[u].refs = Cardinality(Sharers(holds, u))
    BY DEF Counted
  <2>3. QED
    BY <1>5, <2>1, <2>2
<1>7. \A e \in Everyone : new[e] \in DOMAIN vs \cup {0}
  BY DEF Changes, Counted
<1>8. QED
  BY <1>2, <1>3, <1>4, <1>6, <1>7 DEF Counted, SameFiles, ws

LEMMA UnrefCounts ==
  ASSUME NEW vs, NEW holds, NEW new, Counted(vs, holds), NEW h \in Everyone, holds[h] # 0,
         Changes(new, holds, h, 0)
  PROVE  /\ Counted(Unref(vs, holds[h]), new)
         /\ DOMAIN Unref(vs, holds[h]) \subseteq DOMAIN vs
         /\ SameFiles(Unref(vs, holds[h]), vs)
<1> DEFINE v == holds[h]
           ws == Unref(vs, v)
<1>1. /\ vs \in [DOMAIN vs -> [files : SUBSET Tables, refs : Nat \ {0}]]
      /\ v \in DOMAIN vs /\ 0 \notin DOMAIN vs
  BY DEF Counted
<1>2. \A u \in DOMAIN vs : Cardinality(Sharers(new, u)) = IF u = v THEN Cardinality(Sharers(holds, u)) - 1
                                                         ELSE Cardinality(Sharers(holds, u))
  BY <1>1, SharesMove
<1>3. \A u \in DOMAIN vs : vs[u].refs = Cardinality(Sharers(holds, u))
  BY DEF Counted
<1>4. \A e \in Everyone : new[e] \in DOMAIN vs \cup {0}
  BY DEF Changes, Counted
<1>5. CASE vs[v].refs > 1
  <2>1. ws = [vs EXCEPT ![v].refs = @ - 1]
    BY <1>5 DEF Unref
  <2>2. DOMAIN ws = DOMAIN vs
    BY <2>1
  <2>3. \A u \in DOMAIN vs : /\ ws[u] \in [files : SUBSET Tables, refs : Nat \ {0}]
                            /\ ws[u].files = vs[u].files
                            /\ ws[u].refs = IF u = v THEN vs[u].refs - 1 ELSE vs[u].refs
    <3> SUFFICES ASSUME NEW u \in DOMAIN vs
                 PROVE  /\ ws[u] \in [files : SUBSET Tables, refs : Nat \ {0}]
                        /\ ws[u].files = vs[u].files
                        /\ ws[u].refs = IF u = v THEN vs[u].refs - 1 ELSE vs[u].refs
      OBVIOUS
    <3>1. vs[u] \in [files : SUBSET Tables, refs : Nat \ {0}]
      BY <1>1
    <3>2. ws[u] = IF u = v THEN [vs[u] EXCEPT !.refs = @ - 1] ELSE vs[u]
      BY <2>1
    <3> HIDE DEF ws, v
    <3>3. QED
      BY <1>5, <3>1, <3>2
  <2>4. ws = [u \in DOMAIN vs |-> ws[u]]
    BY <2>1
  <2> HIDE DEF ws, v
  <2>5. ws \in [DOMAIN ws -> [files : SUBSET Tables, refs : Nat \ {0}]]
    BY <2>2, <2>3, <2>4
  <2>6. \A u \in DOMAIN ws : ws[u].refs = Cardinality(Sharers(new, u))
    BY <1>2, <1>3, <2>2, <2>3
  <2>7. SameFiles(ws, vs)
    BY <2>2, <2>3 DEF SameFiles
  <2>8. QED
    BY <1>4, <2>2, <2>5, <2>6, <2>7 DEF Counted, ws, v
<1>6. CASE ~(vs[v].refs > 1)
  <2>1. ws = [u \in DOMAIN vs \ {v} |-> vs[u]]
    BY <1>6 DEF Unref, Restricted
  <2>2. vs[v].refs = 1
    BY <1>1, <1>6
  <2>3. \A e \in Everyone : new[e] # v
    <3>1. Cardinality(Sharers(new, v)) = 0
      BY <1>1, <1>2, <1>3, <2>2
    <3> HIDE DEF v
    <3>2. QED
      BY <3>1, SharersFinite
  <2>4. IsFiniteSet(DOMAIN vs \ {v})
    BY FS_RemoveElement DEF Counted
  <2>5. DOMAIN ws = DOMAIN vs \ {v} /\ \A u \in DOMAIN ws : ws[u] = vs[u]
    BY <2>1
  <2>6. ws \in [DOMAIN ws -> [files : SUBSET Tables, refs : Nat \ {0}]]
    BY <1>1, <2>1
  <2> HIDE DEF ws, v
  <2>7. QED
    BY <1>2, <1>3, <1>4, <2>3, <2>4, <2>5, <2>6 DEF Counted, SameFiles, ws, v
<1>7. QED
  BY <1>5, <1>6

LEMMA AppendCounts ==
  ASSUME NEW vs, NEW holds, NEW new, Counted(vs, holds), NEW fs \in SUBSET Tables,
         holds[<<"current", 0>>] = currentV, currentV # 0,
         Changes(new, holds, <<"current", 0>>, NewVersion(vs))
  PROVE  LET ws == AppendVersion(vs, fs)
             n == NewVersion(vs)
         IN  /\ Counted(ws, new)
             /\ n \in DOMAIN ws /\ n \notin DOMAIN vs /\ ws[n].files = fs
             /\ DOMAIN ws \subseteq DOMAIN vs \cup {n}
             /\ SameFiles(ws, vs)
<1> DEFINE n == NewVersion(vs)
           x == [v \in DOMAIN vs \cup {n} |-> IF v = n THEN [files |-> fs, refs |-> 1] ELSE vs[v]]
           v == currentV
           ws == Unref(x, v)
           D == IF vs[v].refs > 1 THEN DOMAIN vs \cup {n} ELSE (DOMAIN vs \cup {n}) \ {v}
<1>1. /\ vs \in [DOMAIN vs -> [files : SUBSET Tables, refs : Nat \ {0}]]
      /\ v \in DOMAIN vs /\ 0 \notin DOMAIN vs /\ IsFiniteSet(DOMAIN vs)
      /\ <<"current", 0>> \in Everyone
      /\ \A h \in Everyone : holds[h] \in DOMAIN vs \cup {0}
  BY DEF Counted, Everyone
<1>2. n \in Nat \ {0} /\ n \notin DOMAIN vs /\ n # v
  BY <1>1, LeastFreeIsFree DEF NewVersion
<1>3. AppendVersion(vs, fs) = ws
  BY DEF AppendVersion
<1>4. \A u \in DOMAIN vs \cup {n} : Cardinality(Sharers(new, u)) =
        IF u = n THEN Cardinality(Sharers(holds, u)) + 1
        ELSE IF u = v THEN Cardinality(Sharers(holds, u)) - 1
        ELSE Cardinality(Sharers(holds, u))
  <2> HIDE DEF n
  <2>1. QED
    BY <1>1, <1>2, SharesMove DEF n
<1>5. Cardinality(Sharers(holds, n)) = 0
  <2> HIDE DEF n
  <2>1. \A h \in Everyone : holds[h] # n
    BY <1>1, <1>2
  <2>2. QED
    BY <2>1, SharersFinite
<1>6. \A u \in DOMAIN vs : vs[u].refs = Cardinality(Sharers(holds, u)) /\ vs[u].refs \in Nat \ {0} /\ vs[u].files \in SUBSET Tables
  BY VersionHas DEF Counted
<1>7. /\ DOMAIN ws = D
      /\ \A u \in D : /\ ws[u] \in [files : SUBSET Tables, refs : Nat \ {0}]
                      /\ ws[u].files = IF u = n THEN fs ELSE vs[u].files
                      /\ ws[u].refs = IF u = n THEN 1 ELSE IF u = v THEN vs[u].refs - 1 ELSE vs[u].refs
  <2> HIDE DEF n
  <2>1. DOMAIN x = DOMAIN vs \cup {n} /\ x[v] = vs[v] /\ v \in DOMAIN x
    BY <1>1, <1>2
  <2>2. \A u \in DOMAIN x : x[u] = IF u = n THEN [files |-> fs, refs |-> 1] ELSE vs[u]
    BY <1>1
  <2> HIDE DEF x
  <2>3. CASE vs[v].refs > 1
    <3>1. ws = [x EXCEPT ![v].refs = @ - 1]
      BY <2>1, <2>3 DEF Unref
    <3>2. DOMAIN ws = D
      BY <2>1, <2>3, <3>1
    <3>3. ASSUME NEW u \in D
          PROVE  /\ ws[u] \in [files : SUBSET Tables, refs : Nat \ {0}]
                 /\ ws[u].files = IF u = n THEN fs ELSE vs[u].files
                 /\ ws[u].refs = IF u = n THEN 1 ELSE IF u = v THEN vs[u].refs - 1 ELSE vs[u].refs
      <4>1. u \in DOMAIN x
        BY <2>1, <2>3
      <4>2. ws[u] = IF u = v THEN [x[u] EXCEPT !.refs = @ - 1] ELSE x[u]
        BY <3>1, <4>1
      <4> HIDE DEF ws, v
      <4>3. CASE u = n
        BY <1>2, <2>2, <4>1, <4>2, <4>3
      <4>4. CASE u # n
        <5>1. x[u] = vs[u] /\ vs[u] \in [files : SUBSET Tables, refs : Nat \ {0}]
          BY <1>1, <2>1, <2>2, <4>1, <4>4
        <5>2. QED
          BY <2>3, <4>2, <4>4, <5>1
      <4>5. QED
        BY <4>3, <4>4
    <3>4. QED
      BY <3>2, <3>3
  <2>4. CASE ~(vs[v].refs > 1)
    <3>1. ws = [u \in DOMAIN x \ {v} |-> x[u]]
      BY <2>1, <2>4 DEF Unref, Restricted
    <3>2. DOMAIN ws = D
      BY <2>1, <2>4, <3>1
    <3>3. ASSUME NEW u \in D
          PROVE  /\ ws[u] \in [files : SUBSET Tables, refs : Nat \ {0}]
                 /\ ws[u].files = IF u = n THEN fs ELSE vs[u].files
                 /\ ws[u].refs = IF u = n THEN 1 ELSE IF u = v THEN vs[u].refs - 1 ELSE vs[u].refs
      <4>1. u \in DOMAIN x /\ u # v /\ ws[u] = x[u]
        BY <2>1, <2>4, <3>1
      <4> HIDE DEF ws, v
      <4>2. CASE u = n
        BY <1>2, <2>2, <4>1, <4>2
      <4>3. CASE u # n
        <5>1. x[u] = vs[u] /\ vs[u] \in [files : SUBSET Tables, refs : Nat \ {0}]
          BY <1>1, <2>1, <2>2, <4>1, <4>3
        <5>2. QED
          BY <4>1, <4>3, <5>1
      <4>4. QED
        BY <4>2, <4>3
    <3>4. QED
      BY <3>2, <3>3
  <2>5. QED
    BY <2>3, <2>4
<1>8. ws = [u \in D |-> ws[u]]
  <2>1. x = [u \in DOMAIN x |-> x[u]]
    OBVIOUS
  <2> HIDE DEF x
  <2>2. ws = [u \in DOMAIN ws |-> ws[u]]
    BY <2>1 DEF Unref, Restricted
  <2>3. QED
    BY <1>7, <2>2
<1> HIDE DEF n, x, ws
<1>9. D \subseteq DOMAIN vs \cup {n} /\ IsFiniteSet(D) /\ n \in D
  <2>1. IsFiniteSet(DOMAIN vs \cup {n})
    BY <1>1, FS_AddElement
  <2>2. IsFiniteSet((DOMAIN vs \cup {n}) \ {v})
    BY <2>1, FS_RemoveElement
  <2>3. QED
    BY <1>2, <2>1, <2>2
<1>11. ws \in [D -> [files : SUBSET Tables, refs : Nat \ {0}]]
  BY <1>7, <1>8
<1>12. \A u \in D : ws[u].refs = Cardinality(Sharers(new, u))
  <2> SUFFICES ASSUME NEW u \in D PROVE ws[u].refs = Cardinality(Sharers(new, u))
    OBVIOUS
  <2>1. ws[u].refs = IF u = n THEN 1 ELSE IF u = v THEN vs[u].refs - 1 ELSE vs[u].refs
    BY <1>7
  <2>2. QED
    BY <1>4, <1>5, <1>6, <1>9, <2>1
<1>13. \A e \in Everyone : new[e] \in D \cup {0}
  <2>1. \A e \in Everyone : e # <<"current", 0>> => new[e] = holds[e]
    BY DEF Changes
  <2>2. new[<<"current", 0>>] = n
    BY DEF Changes, n
  <2>3. CASE vs[v].refs > 1
    BY <1>1, <1>9, <2>1, <2>2, <2>3
  <2>4. CASE ~(vs[v].refs > 1)
    <3>1. Cardinality(Sharers(new, v)) = 0
      BY <1>1, <1>2, <1>4, <1>6, <2>4
    <3>2. \A e \in Everyone : new[e] # v
      <4> HIDE DEF v
      <4>1. QED
        BY <3>1, SharersFinite
    <3>3. QED
      BY <1>1, <1>9, <2>1, <2>2, <2>4, <3>2
  <2>5. QED
    BY <2>3, <2>4
<1>14. D \subseteq Nat \ {0}
  BY <1>2, <1>9 DEF Counted
<1> HIDE DEF D
<1>15. Counted(ws, new)
  BY <1>7, <1>9, <1>11, <1>12, <1>13, <1>14 DEF Counted
<1>16. SameFiles(ws, vs)
  BY <1>2, <1>7 DEF SameFiles
<1>17. QED
  BY <1>2, <1>3, <1>7, <1>9, <1>15, <1>16 DEF n
-----------------------------------------------------------------------------
(* The table cache.                                                        *)

\* The cache, whose references are counted, for the users in uses.
Referenced(c, uses) ==
    /\ IsFiniteSet(DOMAIN c.handles) /\ DOMAIN c.handles \subseteq Nat \ {0}
    /\ c.handles \in [DOMAIN c.handles -> [file : Tables, refs : Nat \ {0}]]
    /\ c.lru \in Seq(Nat) /\ Listed(c) \subseteq DOMAIN c.handles
    /\ \A e \in Everyone : uses[e] \in DOMAIN c.handles \cup {0}
    /\ \A h \in DOMAIN c.handles :
        c.handles[h].refs = (IF h \in Listed(c) THEN 1 ELSE 0) + Cardinality(Sharers(uses, h))

\* No table is listed twice.
Single(c) == \A g, h \in Listed(c) : c.handles[g].file = c.handles[h].file => g = h

\* The cache holds its capacity, or has nothing left to give up.
Slim(c) == Cardinality(DOMAIN c.handles) <= Capacity \/ Listed(c) = {}

CacheOK(c, uses) == Referenced(c, uses) /\ Single(c) /\ Slim(c)

\* The cache d has only handles of c, for the same tables.
Below(d, c) ==
    /\ DOMAIN d.handles \subseteq DOMAIN c.handles /\ Listed(d) \subseteq Listed(c)
    /\ \A h \in DOMAIN d.handles : d.handles[h].file = c.handles[h].file

LEMMA HandleHas ==
  ASSUME NEW c, NEW uses, Referenced(c, uses)
  PROVE  \A h \in DOMAIN c.handles : c.handles[h] \in [file : Tables, refs : Nat \ {0}]
  BY DEF Referenced

LEMMA BelowKeeps ==
  ASSUME NEW c, NEW d, NEW uses, Referenced(c, uses), Referenced(d, uses), Below(d, c)
  PROVE  (Single(c) => Single(d)) /\ (Slim(c) => Slim(d))
<1>1. Single(c) => Single(d)
  BY DEF Below, Single, Referenced
<1>2. Cardinality(DOMAIN d.handles) <= Cardinality(DOMAIN c.handles)
  BY FS_Subset DEF Below, Referenced
<1>3. Cardinality(DOMAIN d.handles) \in Nat /\ Cardinality(DOMAIN c.handles) \in Nat /\ Capacity \in Nat
  BY FilesAssumption, FS_CardinalityType DEF Referenced
<1>4. Slim(c) => Slim(d)
  BY <1>2, <1>3 DEF Slim, Below
<1>5. QED
  BY <1>1, <1>4

LEMMA AppendElements ==
  ASSUME NEW T, NEW q \in Seq(T), NEW e \in T
  PROVE  Append(q, e) \in Seq(T) /\ Elements(Append(q, e)) = Elements(q) \cup {e}
<1> DEFINE p == Append(q, e)
<1>1. /\ p \in Seq(T) /\ DOMAIN q = 1..Len(q) /\ Len(q) \in Nat
      /\ DOMAIN p = 1..Len(q) + 1 /\ p[Len(q) + 1] = e
      /\ \A i \in 1..Len(q) : p[i] = q[i]
  BY AppendProperties, LenProperties
<1> HIDE DEF p
<1>2. Elements(p) = Elements(q) \cup {e}
  BY <1>1 DEF Elements
<1>3. QED
  BY <1>1, <1>2 DEF p

\* Handles that leave the list stay for those who use them.
LEMMA Delists ==
  ASSUME NEW c, NEW uses, Referenced(c, uses), NEW H, H \subseteq Listed(c)
  PROVE  LET d == Delisted(c, H)
         IN  /\ Referenced(d, uses) /\ Below(d, c) /\ Listed(d) = Listed(c) \ H
<1> DEFINE d == Delisted(c, H)
           D == {g \in DOMAIN c.handles : g \notin H \/ c.handles[g].refs > 1}
<1>1. /\ d.lru = Without(c.lru, H)
      /\ d.handles = [h \in D |-> [c.handles[h] EXCEPT !.refs = IF h \in H THEN @ - 1 ELSE @]]
  BY DEF Delisted
<1>2. c.lru \in Seq(Nat) /\ Listed(c) = Elements(c.lru) /\ Listed(d) = Elements(d.lru)
  BY DEF Referenced, Listed, Elements
<1>3. d.lru \in Seq(Nat) /\ Listed(d) = Listed(c) \ H
  BY <1>1, <1>2, WithoutIs
<1> HIDE DEF d
<1>4. DOMAIN d.handles = D /\ D \subseteq DOMAIN c.handles
  BY <1>1
<1>5. IsFiniteSet(D) /\ D \subseteq Nat \ {0}
  BY FS_Subset DEF Referenced
<1>6. \A h \in D : /\ d.handles[h] \in [file : Tables, refs : Nat \ {0}]
                   /\ d.handles[h].file = c.handles[h].file
                   /\ d.handles[h].refs = IF h \in H THEN c.handles[h].refs - 1 ELSE c.handles[h].refs
  <2> SUFFICES ASSUME NEW h \in D
               PROVE  /\ d.handles[h] \in [file : Tables, refs : Nat \ {0}]
                      /\ d.handles[h].file = c.handles[h].file
                      /\ d.handles[h].refs = IF h \in H THEN c.handles[h].refs - 1 ELSE c.handles[h].refs
    OBVIOUS
  <2>1. c.handles[h] \in [file : Tables, refs : Nat \ {0}] /\ (h \in H => c.handles[h].refs > 1)
    BY HandleHas
  <2>2. d.handles[h] = [c.handles[h] EXCEPT !.refs = IF h \in H THEN @ - 1 ELSE @]
    BY <1>1
  <2> HIDE DEF D
  <2>3. CASE h \in H
    BY <2>1, <2>2, <2>3
  <2>4. CASE h \notin H
    BY <2>1, <2>2, <2>4
  <2>5. QED
    BY <2>3, <2>4
<1>7. d.handles \in [D -> [file : Tables, refs : Nat \ {0}]]
  <2>1. d.handles = [h \in D |-> d.handles[h]]
    BY <1>1
  <2>2. QED
    BY <1>6, <2>1
<1>8. \A h \in DOMAIN c.handles : c.handles[h].refs = (IF h \in Listed(c) THEN 1 ELSE 0) + Cardinality(Sharers(uses, h))
  BY DEF Referenced
<1>9. \A h : Cardinality(Sharers(uses, h)) \in Nat
  BY SharersFinite
<1>10. \A h \in D : d.handles[h].refs = (IF h \in Listed(d) THEN 1 ELSE 0) + Cardinality(Sharers(uses, h))
  <2> SUFFICES ASSUME NEW h \in D
               PROVE  d.handles[h].refs = (IF h \in Listed(d) THEN 1 ELSE 0) + Cardinality(Sharers(uses, h))
    OBVIOUS
  <2>1. h \in DOMAIN c.handles
    OBVIOUS
  <2> HIDE DEF D
  <2>2. QED
    BY <1>3, <1>6, <1>8, <1>9, <2>1
<1>11. \A e \in Everyone : uses[e] \in D \cup {0}
  <2> SUFFICES ASSUME NEW e \in Everyone, uses[e] # 0 PROVE uses[e] \in D
    OBVIOUS
  <2>1. uses[e] \in DOMAIN c.handles
    BY DEF Referenced
  <2>2. Cardinality(Sharers(uses, uses[e])) # 0
    BY SharersFinite
  <2>3. uses[e] \in H => c.handles[uses[e]].refs > 1
    BY <1>8, <1>9, <2>1, <2>2
  <2>4. QED
    BY <2>1, <2>3
<1>12. Listed(d) \subseteq D
  BY <1>3 DEF Referenced
<1> HIDE DEF D
<1>13. Referenced(d, uses)
  BY <1>3, <1>4, <1>5, <1>7, <1>10, <1>11, <1>12 DEF Referenced
<1>14. Below(d, c)
  BY <1>3, <1>4, <1>6 DEF Below
<1>15. QED
  BY <1>3, <1>13, <1>14 DEF d

LEMMA DelistsOK ==
  ASSUME NEW c, NEW uses, CacheOK(c, uses), NEW H, H \subseteq Listed(c)
  PROVE  CacheOK(Delisted(c, H), uses) /\ Below(Delisted(c, H), c) /\ Listed(Delisted(c, H)) = Listed(c) \ H
  BY Delists, BelowKeeps DEF CacheOK

\* A handle is freed with its last reference.
LEMMA Releases ==
  ASSUME NEW c, NEW uses, NEW new, CacheOK(c, uses), NEW u \in Everyone, uses[u] # 0,
         Changes(new, uses, u, 0)
  PROVE  LET d == Release(c, uses[u])
         IN  CacheOK(d, new) /\ Below(d, c) /\ Listed(d) = Listed(c)
<1> DEFINE h == uses[u]
           d == Release(c, h)
           D == IF c.handles[h].refs > 1 THEN DOMAIN c.handles ELSE DOMAIN c.handles \ {h}
<1>1. /\ c.handles \in [DOMAIN c.handles -> [file : Tables, refs : Nat \ {0}]]
      /\ h \in DOMAIN c.handles /\ DOMAIN c.handles \subseteq Nat \ {0} /\ IsFiniteSet(DOMAIN c.handles)
      /\ c.lru \in Seq(Nat) /\ Listed(c) \subseteq DOMAIN c.handles
      /\ Referenced(c, uses)
  BY DEF CacheOK, Referenced
<1>2. \A g \in DOMAIN c.handles :
        /\ c.handles[g].refs = (IF g \in Listed(c) THEN 1 ELSE 0) + Cardinality(Sharers(uses, g))
        /\ c.handles[g].refs \in Nat \ {0}
  BY HandleHas DEF CacheOK, Referenced
<1>3. \A g : Cardinality(Sharers(uses, g)) \in Nat /\ Cardinality(Sharers(new, g)) \in Nat
  BY SharersFinite
<1>4. \A g \in DOMAIN c.handles : Cardinality(Sharers(new, g)) = IF g = h THEN Cardinality(Sharers(uses, g)) - 1
                                                             ELSE Cardinality(Sharers(uses, g))
  <2>1. \A g \in DOMAIN c.handles : g # 0
    BY <1>1
  <2>2. QED
    BY <2>1, SharesMove
<1>5. d.lru = c.lru
  BY DEF Release
<1>6. Listed(d) = Listed(c)
  BY <1>5 DEF Listed
<1>7. d.handles = IF c.handles[h].refs > 1 THEN [c.handles EXCEPT ![h].refs = @ - 1]
                  ELSE [g \in DOMAIN c.handles \ {h} |-> c.handles[g]]
  BY DEF Release, Restricted
<1> HIDE DEF d, h
<1>8. /\ DOMAIN d.handles = D
      /\ d.handles = [g \in D |-> d.handles[g]]
      /\ \A g \in D : d.handles[g] = IF g = h /\ c.handles[h].refs > 1 THEN [c.handles[g] EXCEPT !.refs = @ - 1] ELSE c.handles[g]
  <2>1. CASE c.handles[h].refs > 1
    BY <1>7, <2>1
  <2>2. CASE ~(c.handles[h].refs > 1)
    BY <1>7, <2>2
  <2>3. QED
    BY <2>1, <2>2
<1>9. D \subseteq DOMAIN c.handles /\ IsFiniteSet(D) /\ (c.handles[h].refs > 1 \/ h \notin D)
  BY <1>1, FS_RemoveElement
<1>10. \A g \in D : /\ d.handles[g] \in [file : Tables, refs : Nat \ {0}]
                    /\ d.handles[g].file = c.handles[g].file
                    /\ d.handles[g].refs = IF g = h THEN c.handles[g].refs - 1 ELSE c.handles[g].refs
  <2> SUFFICES ASSUME NEW g \in D
               PROVE  /\ d.handles[g] \in [file : Tables, refs : Nat \ {0}]
                      /\ d.handles[g].file = c.handles[g].file
                      /\ d.handles[g].refs = IF g = h THEN c.handles[g].refs - 1 ELSE c.handles[g].refs
    OBVIOUS
  <2> HIDE DEF D
  <2>1. c.handles[g] \in [file : Tables, refs : Nat \ {0}]
    BY <1>1, <1>9, HandleHas
  <2>2. CASE g = h
    <3>1. c.handles[g].refs > 1 /\ d.handles[g] = [c.handles[g] EXCEPT !.refs = @ - 1]
      BY <1>8, <1>9, <2>2
    <3>2. QED
      BY <2>1, <2>2, <3>1
  <2>3. CASE g # h
    BY <1>8, <2>1, <2>3
  <2>4. QED
    BY <2>2, <2>3
<1>11. d.handles \in [D -> [file : Tables, refs : Nat \ {0}]]
  BY <1>8, <1>10
<1>12. Listed(d) \subseteq D
  <2>1. Cardinality(Sharers(uses, h)) # 0
    BY SharersFinite DEF h
  <2>2. h \in Listed(c) => c.handles[h].refs > 1
    BY <1>1, <1>2, <1>3, <2>1
  <2>3. QED
    BY <1>1, <1>6, <2>2
<1>13. \A e \in Everyone : new[e] \in D \cup {0}
  <2>1. \A e \in Everyone : new[e] \in DOMAIN c.handles \cup {0}
    BY DEF Changes, CacheOK, Referenced
  <2>2. ~(c.handles[h].refs > 1) => \A e \in Everyone : new[e] # h
    <3>1. ~(c.handles[h].refs > 1) => Cardinality(Sharers(new, h)) = 0
      BY <1>1, <1>2, <1>3, <1>4
    <3>2. QED
      BY <3>1, SharersFinite
  <2>3. QED
    BY <2>1, <2>2
<1>14. \A g \in D : d.handles[g].refs = (IF g \in Listed(d) THEN 1 ELSE 0) + Cardinality(Sharers(new, g))
  BY <1>2, <1>3, <1>4, <1>6, <1>9, <1>10
<1> HIDE DEF D
<1>15. D \subseteq Nat \ {0}
  BY <1>1, <1>9
<1>16. Referenced(d, new)
  BY <1>1, <1>5, <1>8, <1>9, <1>11, <1>12, <1>13, <1>14, <1>15 DEF Referenced
<1>17. Below(d, c)
  BY <1>6, <1>8, <1>9, <1>10 DEF Below
<1>18. Single(d)
  BY <1>1, <1>6, <1>8, <1>12, <1>17 DEF Single, Below, CacheOK
<1>19. Slim(d)
  <2>1. Cardinality(DOMAIN d.handles) <= Cardinality(DOMAIN c.handles)
    BY <1>1, <1>8, <1>9, FS_Subset
  <2>2. Cardinality(DOMAIN d.handles) \in Nat /\ Cardinality(DOMAIN c.handles) \in Nat /\ Capacity \in Nat
    BY <1>1, <1>8, <1>9, FilesAssumption, FS_CardinalityType
  <2>3. QED
    BY <1>6, <2>1, <2>2 DEF Slim, CacheOK
<1>20. QED
  BY <1>6, <1>16, <1>17, <1>18, <1>19 DEF CacheOK, d, h

\* A lookup puts the handle at the end of the list.
LEMMA Touches ==
  ASSUME NEW c, NEW uses, NEW new, CacheOK(c, uses), NEW u \in Everyone, uses[u] = 0,
         NEW h \in Listed(c), Changes(new, uses, u, h)
  PROVE  LET d == Touched(c, h)
         IN  CacheOK(d, new) /\ Below(d, c) /\ Listed(d) = Listed(c)
<1> DEFINE d == Touched(c, h)
           D == DOMAIN c.handles
           p == Without(c.lru, {h})
<1>1. /\ c.handles \in [D -> [file : Tables, refs : Nat \ {0}]]
      /\ h \in D /\ D \subseteq Nat \ {0} /\ IsFiniteSet(D)
      /\ c.lru \in Seq(Nat) /\ Listed(c) \subseteq D /\ Listed(c) = Elements(c.lru)
  BY DEF CacheOK, Referenced, Listed, Elements
<1>2. d.lru = Append(p, h) /\ d.handles = [c.handles EXCEPT ![h].refs = @ + 1]
  BY DEF Touched
<1>3. p \in Seq(Nat) /\ Elements(p) = Listed(c) \ {h}
  BY <1>1, WithoutIs
<1>4. d.lru \in Seq(Nat) /\ Elements(d.lru) = Elements(p) \cup {h}
  <2>1. h \in Nat
    BY <1>1
  <2> HIDE DEF d, p
  <2>2. QED
    BY <1>2, <1>3, <2>1, AppendElements
<1>5. Listed(d) = Listed(c)
  <2>1. Listed(d) = Elements(d.lru)
    BY DEF Listed, Elements
  <2> HIDE DEF d, p
  <2>2. QED
    BY <1>3, <1>4, <2>1
<1> HIDE DEF d, p
<1>6. DOMAIN d.handles = D /\ d.handles = [g \in D |-> d.handles[g]]
  BY <1>2
<1>7. \A g \in D : /\ d.handles[g] \in [file : Tables, refs : Nat \ {0}]
                   /\ d.handles[g].file = c.handles[g].file
                   /\ d.handles[g].refs = IF g = h THEN c.handles[g].refs + 1 ELSE c.handles[g].refs
  <2> SUFFICES ASSUME NEW g \in D
               PROVE  /\ d.handles[g] \in [file : Tables, refs : Nat \ {0}]
                      /\ d.handles[g].file = c.handles[g].file
                      /\ d.handles[g].refs = IF g = h THEN c.handles[g].refs + 1 ELSE c.handles[g].refs
    OBVIOUS
  <2>1. c.handles[g] \in [file : Tables, refs : Nat \ {0}]
    BY <1>1
  <2>2. d.handles[g] = IF g = h THEN [c.handles[g] EXCEPT !.refs = @ + 1] ELSE c.handles[g]
    BY <1>2
  <2> HIDE DEF D
  <2>3. CASE g = h
    BY <2>1, <2>2, <2>3
  <2>4. CASE g # h
    BY <2>1, <2>2, <2>4
  <2>5. QED
    BY <2>3, <2>4
<1>8. d.handles \in [D -> [file : Tables, refs : Nat \ {0}]]
  BY <1>6, <1>7
<1>9. \A g \in D : d.handles[g].refs = (IF g \in Listed(d) THEN 1 ELSE 0) + Cardinality(Sharers(new, g))
  <2> SUFFICES ASSUME NEW g \in D
               PROVE  d.handles[g].refs = (IF g \in Listed(d) THEN 1 ELSE 0) + Cardinality(Sharers(new, g))
    OBVIOUS
  <2>1. g # 0 /\ h # 0
    BY <1>1
  <2>2. Cardinality(Sharers(new, g)) = IF g = h THEN Cardinality(Sharers(uses, g)) + 1 ELSE Cardinality(Sharers(uses, g))
    BY <2>1, SharesMove
  <2>3. c.handles[g].refs = (IF g \in Listed(c) THEN 1 ELSE 0) + Cardinality(Sharers(uses, g))
    BY DEF CacheOK, Referenced
  <2>4. Cardinality(Sharers(uses, g)) \in Nat
    BY SharersFinite
  <2> HIDE DEF D
  <2>5. QED
    BY <1>5, <1>7, <2>2, <2>3, <2>4
<1>10. \A e \in Everyone : new[e] \in D \cup {0}
  BY <1>1 DEF Changes, CacheOK, Referenced
<1> HIDE DEF D
<1>11. Referenced(d, new)
  BY <1>1, <1>4, <1>5, <1>6, <1>8, <1>9, <1>10 DEF Referenced
<1>12. Below(d, c)
  BY <1>5, <1>6, <1>7 DEF Below, D
<1>13. Single(d)
  BY <1>1, <1>5, <1>6, <1>7 DEF Single, CacheOK
<1>14. Slim(d)
  BY <1>5, <1>6 DEF Slim, CacheOK, D
<1>15. QED
  BY <1>5, <1>11, <1>12, <1>13, <1>14 DEF CacheOK, d

\* The oldest handles go until the rest fits.
LEMMA Shrinks ==
  ASSUME NEW c, NEW uses, Referenced(c, uses)
  PROVE  Referenced(Shrunk(c), uses) /\ Below(Shrunk(c), c) /\ Slim(Shrunk(c))
<1> DEFINE oldest(k) == {c.lru[i] : i \in 1..k}
           full(k) == Cardinality(DOMAIN Delisted(c, oldest(k)).handles) > Capacity
           S == {k \in 0..Len(c.lru) : full(k) => k = Len(c.lru)}
           Fits(k) == (full(k) => k = Len(c.lru)) /\ \A j \in 0..k - 1 : full(j)
           k0 == CHOOSE k \in 0..Len(c.lru) : Fits(k)
<1>1. Len(c.lru) \in Nat /\ DOMAIN c.lru = 1..Len(c.lru)
  BY LenProperties DEF Referenced
<1>2. PICK k \in S : \A j \in S : k <= j
  <2>1. Len(c.lru) \in S /\ S \subseteq Nat
    BY <1>1
  <2> HIDE DEF S
  <2>2. QED
    BY <2>1, LeastOfNaturals
<1>3. k \in 0..Len(c.lru) /\ Fits(k)
  <2> HIDE DEF full
  <2>1. QED
    BY <1>1, <1>2
<1>4. k0 \in 0..Len(c.lru) /\ Fits(k0)
  <2> HIDE DEF Fits
  <2>1. QED
    BY <1>3
<1>5. Shrunk(c) = Delisted(c, oldest(k0))
  BY DEF Shrunk
<1> DEFINE H == oldest(k0)
<1> HIDE DEF k0, S
<1>6. H \subseteq Listed(c) /\ (k0 = Len(c.lru) => H = Listed(c))
  BY <1>1, <1>4 DEF Listed
<1>7. full(k0) <=> Cardinality(DOMAIN Delisted(c, H).handles) > Capacity
  OBVIOUS
<1> HIDE DEF H, full, oldest
<1> DEFINE d == Delisted(c, H)
<1>8. Referenced(d, uses) /\ Below(d, c) /\ Listed(d) = Listed(c) \ H
  BY <1>6, Delists
<1>9. Cardinality(DOMAIN d.handles) \in Nat /\ Capacity \in Nat
  <2>1. IsFiniteSet(DOMAIN d.handles)
    BY <1>8 DEF Referenced
  <2> HIDE DEF d
  <2>2. QED
    BY <2>1, FilesAssumption, FS_CardinalityType
<1>10. Slim(d)
  <2>1. full(k0) => k0 = Len(c.lru)
    BY <1>4
  <2>2. CASE full(k0)
    <3>1. Listed(d) = {}
      BY <1>6, <1>8, <2>1, <2>2
    <3>2. QED
      BY <3>1 DEF Slim
  <2>3. CASE ~full(k0)
    <3>1. ~(Cardinality(DOMAIN d.handles) > Capacity)
      BY <1>7, <2>3
    <3> HIDE DEF d
    <3>2. QED
      BY <1>9, <3>1 DEF Slim
  <2>4. QED
    BY <2>2, <2>3
<1>11. Shrunk(c) = d
  BY <1>5 DEF H
<1>12. QED
  BY <1>8, <1>10, <1>11

\* What the cache d has beyond c is the handle n, of the table f.
Beside(d, c, n, f) ==
    /\ n \notin DOMAIN c.handles
    /\ DOMAIN d.handles \subseteq DOMAIN c.handles \cup {n} /\ Listed(d) \subseteq Listed(c) \cup {n}
    /\ \A h \in DOMAIN d.handles : d.handles[h].file = IF h = n THEN f ELSE c.handles[h].file

\* A new handle, which its user holds, in place of an older one of the table.
LEMMA Inserts ==
  ASSUME NEW c, NEW uses, NEW new, CacheOK(c, uses), NEW f \in Tables, NEW u \in Everyone, uses[u] = 0,
         Changes(new, uses, u, NewHandle(c))
  PROVE  LET d == Insert(c, f)
             n == NewHandle(c)
         IN  CacheOK(d, new) /\ Beside(d, c, n, f) /\ n \in DOMAIN d.handles /\ n # 0
<1> DEFINE n == NewHandle(c)
           D == DOMAIN c.handles
           a == [lru |-> Append(c.lru, n),
                 handles |-> [g \in D \cup {n} |-> IF g = n THEN [file |-> f, refs |-> 2] ELSE c.handles[g]]]
           e == Delisted(a, Cached(c, f))
           d == Shrunk(e)
<1>1. /\ c.handles \in [D -> [file : Tables, refs : Nat \ {0}]]
      /\ D \subseteq Nat \ {0} /\ IsFiniteSet(D)
      /\ c.lru \in Seq(Nat) /\ Listed(c) \subseteq D /\ Listed(c) = Elements(c.lru)
      /\ \A x \in Everyone : uses[x] \in D \cup {0}
  BY DEF CacheOK, Referenced, Listed, Elements
<1>2. n \in Nat \ {0} /\ n \notin D
  BY <1>1, LeastFreeIsFree DEF NewHandle
<1>3. Insert(c, f) = d
  BY DEF Insert
<1>4. a.lru = Append(c.lru, n) /\ a.handles = [g \in D \cup {n} |-> IF g = n THEN [file |-> f, refs |-> 2] ELSE c.handles[g]]
  OBVIOUS
<1> HIDE DEF n, a
<1>5. a.lru \in Seq(Nat) /\ Listed(a) = Listed(c) \cup {n}
  <2>1. Append(c.lru, n) \in Seq(Nat) /\ Elements(Append(c.lru, n)) = Elements(c.lru) \cup {n}
    BY <1>1, <1>2, AppendElements
  <2>2. Listed(a) = Elements(a.lru)
    BY DEF Listed, Elements
  <2>3. QED
    BY <1>1, <1>4, <2>1, <2>2
<1>6. /\ DOMAIN a.handles = D \cup {n} /\ a.handles = [g \in D \cup {n} |-> a.handles[g]]
      /\ a.handles[n] = [file |-> f, refs |-> 2] /\ \A g \in D : a.handles[g] = c.handles[g]
  BY <1>2, <1>4
<1>7. a.handles \in [D \cup {n} -> [file : Tables, refs : Nat \ {0}]]
  <2>1. [file |-> f, refs |-> 2] \in [file : Tables, refs : Nat \ {0}]
    OBVIOUS
  <2>2. \A g \in D : a.handles[g] \in [file : Tables, refs : Nat \ {0}]
    <3>1. \A g \in D : c.handles[g] \in [file : Tables, refs : Nat \ {0}]
      BY HandleHas DEF CacheOK
    <3> HIDE DEF D
    <3>2. QED
      BY <1>6, <3>1
  <2>3. \A g \in D \cup {n} : a.handles[g] \in [file : Tables, refs : Nat \ {0}]
    BY <1>6, <2>1, <2>2
  <2>4. QED
    BY <1>6, <2>3
<1>8. \A h \in D \cup {n} : a.handles[h].refs = (IF h \in Listed(a) THEN 1 ELSE 0) + Cardinality(Sharers(new, h))
  <2> SUFFICES ASSUME NEW h \in D \cup {n}
               PROVE  a.handles[h].refs = (IF h \in Listed(a) THEN 1 ELSE 0) + Cardinality(Sharers(new, h))
    OBVIOUS
  <2>1. h # 0 /\ n # 0
    BY <1>1, <1>2
  <2>2. Cardinality(Sharers(new, h)) = IF h = n THEN Cardinality(Sharers(uses, h)) + 1 ELSE Cardinality(Sharers(uses, h))
    BY <2>1, SharesMove DEF n
  <2>3. CASE h = n
    <3>1. \A x \in Everyone : uses[x] # n
      BY <1>1, <1>2
    <3>2. Cardinality(Sharers(uses, n)) = 0
      BY <3>1, SharersFinite
    <3>3. QED
      BY <1>5, <1>6, <2>2, <2>3, <3>2
  <2>4. CASE h # n
    <3>1. c.handles[h].refs = (IF h \in Listed(c) THEN 1 ELSE 0) + Cardinality(Sharers(uses, h))
      BY <2>4 DEF CacheOK, Referenced
    <3>2. QED
      BY <1>5, <1>6, <2>2, <2>4, <3>1
  <2>5. QED
    BY <2>3, <2>4
<1>9. \A x \in Everyone : new[x] \in D \cup {n} \cup {0}
  BY <1>1 DEF Changes, n
<1>10. IsFiniteSet(D \cup {n}) /\ D \cup {n} \subseteq Nat \ {0}
  BY <1>1, <1>2, FS_AddElement
<1> HIDE DEF D
<1>11. Referenced(a, new)
  BY <1>1, <1>5, <1>6, <1>7, <1>8, <1>9, <1>10 DEF Referenced
<1>12. Cached(c, f) \subseteq Listed(a) /\ n \notin Cached(c, f)
  BY <1>1, <1>2, <1>5 DEF Cached
<1>13. Referenced(e, new) /\ Below(e, a) /\ Listed(e) = Listed(a) \ Cached(c, f)
  BY <1>11, <1>12, Delists
<1> HIDE DEF e
<1>14. Single(e)
  <2> SUFFICES ASSUME NEW g \in Listed(e), NEW h \in Listed(e), e.handles[g].file = e.handles[h].file, g # h
               PROVE  FALSE
    BY DEF Single
  <2>1. g \in Listed(a) /\ h \in Listed(a) /\ e.handles[g].file = a.handles[g].file /\ e.handles[h].file = a.handles[h].file
    BY <1>13 DEF Below, Referenced
  <2>2. a.handles[n].file = f
    BY <1>6
  <2>3. ASSUME NEW x \in Listed(e), x # n PROVE x \in Listed(c) /\ a.handles[x] = c.handles[x] /\ c.handles[x].file # f
    <3>1. x \in Listed(c) /\ x \notin Cached(c, f)
      BY <1>5, <1>13, <2>3
    <3>2. QED
      BY <1>1, <1>6, <3>1 DEF Cached
  <2>4. CASE g = n \/ h = n
    BY <2>1, <2>2, <2>3, <2>4
  <2>5. CASE g # n /\ h # n
    BY <2>1, <2>3, <2>5 DEF CacheOK, Single
  <2>6. QED
    BY <2>4, <2>5
<1>15. Referenced(d, new) /\ Below(d, e) /\ Slim(d)
  BY <1>13, Shrinks
<1> HIDE DEF d
<1>16. CacheOK(d, new)
  BY <1>13, <1>14, <1>15, BelowKeeps DEF CacheOK
<1>17. n \in DOMAIN d.handles
  <2>1. new[u] = n
    BY DEF Changes, n
  <2>2. new[u] \in DOMAIN d.handles \cup {0}
    BY <1>15 DEF Referenced
  <2>3. QED
    BY <1>2, <2>1, <2>2
<1>18. Beside(d, c, n, f)
  <2>1. DOMAIN d.handles \subseteq D \cup {n} /\ Listed(d) \subseteq Listed(c) \cup {n}
    BY <1>5, <1>6, <1>13, <1>15 DEF Below
  <2>2. \A h \in DOMAIN d.handles : d.handles[h].file = a.handles[h].file
    BY <1>13, <1>15 DEF Below
  <2>3. \A h \in D \cup {n} : a.handles[h].file = IF h = n THEN f ELSE c.handles[h].file
    BY <1>2, <1>6
  <2>4. QED
    BY <1>2, <2>1, <2>2, <2>3 DEF Beside, D
<1>19. QED
  BY <1>2, <1>3, <1>16, <1>17, <1>18 DEF n

\* The background thread verifies a table and lets go of it.
LEMMA Verifies ==
  ASSUME NEW c, NEW uses, CacheOK(c, uses), NEW f \in Tables, NEW u \in Everyone, uses[u] = 0,
         uses = [e \in Everyone |-> uses[e]]
  PROVE  CacheOK(Verified(c, f), uses) /\ Beside(Verified(c, f), c, NewHandle(c), f)
<1> DEFINE n == NewHandle(c)
           new == [uses EXCEPT ![u] = n]
           i == Insert(c, f)
           d == Release(i, n)
<1>1. Changes(new, uses, u, n) /\ Changes(uses, new, u, 0) /\ new[u] = n
  <2> HIDE DEF n
  <2>1. QED
    BY DEF Changes
<1>2. CacheOK(i, new) /\ Beside(i, c, n, f) /\ n # 0
  <2> HIDE DEF new
  <2>1. QED
    BY <1>1, Inserts
<1> HIDE DEF new, n, i
<1>3. CacheOK(d, uses) /\ Below(d, i)
  BY <1>1, <1>2, Releases
<1> HIDE DEF d
<1>4. Beside(d, c, n, f)
  BY <1>2, <1>3 DEF Beside, Below
<1>5. QED
  BY <1>3, <1>4 DEF Verified, n, i, d

-----------------------------------------------------------------------------
(* The invariant.                                                          *)

\* Who holds which version, and who uses which handle.
HoldsOf(cv, fb, mb, rd) ==
    [e \in Everyone |-> IF e[1] = "current" THEN cv ELSE IF e[1] = "flush" THEN fb
                        ELSE IF e[1] = "merge" THEN mb ELSE rd[e[2]].v]
UsesOf(rd) == [e \in Everyone |-> IF e[1] = "reader" THEN rd[e[2]].handle ELSE 0]

FlushBase == IF flushing.at \in {"building", "built"} THEN flushing.base ELSE 0
MergeBase == IF merging = NotRunning THEN 0 ELSE merging.base
Holds == HoldsOf(currentV, FlushBase, MergeBase, readers)
Uses == UsesOf(readers)

BasicsOK ==
    /\ disk \subseteq Tables /\ nextNumber \in Nat \ {0} /\ run \in 1..MaxRuns
    /\ opened \in BOOLEAN /\ bgFailed \in BOOLEAN /\ currentV \in Nat \ {0}

VersionsOK == Counted(versions, Holds)
HandlesOK == CacheOK(cache, Uses)

\* The table of a flush has a number of its own, and is there once it is built.
FlushOK ==
    \/ flushing = NotRunning
    \/ /\ flushing \in [at : {"building", "built", "logging", "replayed"}, n : 1..MaxNumber, base : Nat \ {0}]
       /\ flushing.n < nextNumber
       /\ flushing.at # "building" => flushed \in disk

MergeOK ==
    \/ merging = NotRunning
    \/ /\ merging \in [at : {"reading", "writing", "logging"}, in : SUBSET Tables,
                       out : SUBSET Tables, base : Nat \ {0}]
       /\ merging.at = "writing" => merging.out # {}

\* While there is no error, whatever the manifest may describe is the current
\* version.
ManifestsOK ==
    /\ manifests \subseteq [files : SUBSET Tables, next : Nat \ {0}]
    /\ \A m \in manifests : m.next <= nextNumber /\ \A f \in m.files : f.n < m.next
    /\ ~bgFailed => \A m \in manifests : m.files = versions[currentV].files

\* A reader looks for a table of its version, and has the handle of that one.
ReaderOK(r) ==
    /\ readers[r].wants # {} =>
        readers[r].v # 0 /\ \E f \in versions[readers[r].v].files : readers[r].wants = {f}
    /\ readers[r].handle # 0 => readers[r].wants = {handles[readers[r].handle].file}
ReadersOK ==
    /\ readers \in [Readers -> [v : Nat, wants : SUBSET Tables, handle : Nat]]
    /\ \A r \in Readers : ReaderOK(r)

Outputs == IF merging = NotRunning THEN {} ELSE merging.out

\* A table that is needed is there, and nothing that is yet to be written has
\* its number.
Safe(f) == f \in disk /\ f.n < nextNumber /\ (flushing # NotRunning => f.n # flushing.n)
VersionsSafe == \A v \in DOMAIN versions : \A f \in versions[v].files : Safe(f)
ManifestsSafe == \A m \in manifests : \A f \in m.files : Safe(f)
OutputsSafe == \A f \in Outputs : Safe(f)

\* Nor of a cached one.
Undisturbed(f) == f \in disk /\ f.n < nextNumber /\ (flushing.at = "building" => f.n # flushing.n)
CachedSafe == \A h \in Listed(cache) : Undisturbed(handles[h].file)

PendingOK ==
    pendingOutputs = {f.n : f \in Outputs} \cup IF flushing.at \in {"building", "built"} THEN {flushing.n} ELSE {}

OpeningOK == ~opened => flushing.at \in {"no", "replayed"}

FInv ==
    /\ BasicsOK /\ VersionsOK /\ HandlesOK /\ FlushOK /\ MergeOK /\ ManifestsOK /\ ReadersOK
    /\ VersionsSafe /\ ManifestsSafe /\ OutputsSafe /\ CachedSafe
    /\ PendingOK /\ OpeningOK

-----------------------------------------------------------------------------
LEMMA HoldsAre ==
  ASSUME NEW cv, NEW fb, NEW mb, NEW rd
  PROVE  /\ HoldsOf(cv, fb, mb, rd) = [e \in Everyone |-> HoldsOf(cv, fb, mb, rd)[e]]
         /\ HoldsOf(cv, fb, mb, rd)[<<"current", 0>>] = cv
         /\ HoldsOf(cv, fb, mb, rd)[<<"flush", 0>>] = fb
         /\ HoldsOf(cv, fb, mb, rd)[<<"merge", 0>>] = mb
         /\ \A r \in Readers : HoldsOf(cv, fb, mb, rd)[<<"reader", r>>] = rd[r].v
  BY DEF HoldsOf, Everyone

LEMMA InEveryone ==
  /\ <<"current", 0>> \in Everyone /\ <<"flush", 0>> \in Everyone /\ <<"merge", 0>> \in Everyone
  /\ \A r \in Readers : <<"reader", r>> \in Everyone
  BY DEF Everyone

LEMMA HoldsChange ==
  ASSUME NEW cv, NEW fb, NEW mb, NEW rd, NEW x
  PROVE  /\ Changes(HoldsOf(x, fb, mb, rd), HoldsOf(cv, fb, mb, rd), <<"current", 0>>, x)
         /\ Changes(HoldsOf(cv, x, mb, rd), HoldsOf(cv, fb, mb, rd), <<"flush", 0>>, x)
         /\ Changes(HoldsOf(cv, fb, x, rd), HoldsOf(cv, fb, mb, rd), <<"merge", 0>>, x)
  BY DEF HoldsOf, Everyone, Changes

LEMMA ReaderHolds ==
  ASSUME NEW cv, NEW fb, NEW mb, NEW rd, NEW x, NEW r \in Readers, \A q \in Readers : q # r => x[q].v = rd[q].v
  PROVE  Changes(HoldsOf(cv, fb, mb, x), HoldsOf(cv, fb, mb, rd), <<"reader", r>>, x[r].v)
  BY DEF HoldsOf, Everyone, Changes

LEMMA ReadersHold ==
  ASSUME NEW cv, NEW fb, NEW mb, NEW rd, NEW x, \A q \in Readers : x[q].v = rd[q].v
  PROVE  HoldsOf(cv, fb, mb, x) = HoldsOf(cv, fb, mb, rd)
  BY DEF HoldsOf, Everyone

LEMMA UsesAre ==
  ASSUME NEW rd
  PROVE  /\ UsesOf(rd) = [e \in Everyone |-> UsesOf(rd)[e]]
         /\ UsesOf(rd)[<<"flush", 0>>] = 0
         /\ \A r \in Readers : UsesOf(rd)[<<"reader", r>>] = rd[r].handle
  BY DEF UsesOf, Everyone

LEMMA ReaderUses ==
  ASSUME NEW rd, NEW x, NEW r \in Readers, \A q \in Readers : q # r => x[q].handle = rd[q].handle
  PROVE  Changes(UsesOf(x), UsesOf(rd), <<"reader", r>>, x[r].handle)
  BY DEF UsesOf, Everyone, Changes

LEMMA ReadersUse ==
  ASSUME NEW rd, NEW x, \A q \in Readers : x[q].handle = rd[q].handle
  PROVE  UsesOf(x) = UsesOf(rd)
  BY DEF UsesOf, Everyone

\* What is held and used is there.
LEMMA HeldIsThere ==
  ASSUME NEW vs, NEW cv, NEW fb, NEW mb, NEW rd, Counted(vs, HoldsOf(cv, fb, mb, rd))
  PROVE  /\ cv \in DOMAIN vs \cup {0} /\ fb \in DOMAIN vs \cup {0} /\ mb \in DOMAIN vs \cup {0}
         /\ \A r \in Readers : rd[r].v \in DOMAIN vs \cup {0}
<1>1. \A e \in Everyone : HoldsOf(cv, fb, mb, rd)[e] \in DOMAIN vs \cup {0}
  BY DEF Counted
<1>2. ASSUME NEW r \in Readers PROVE rd[r].v \in DOMAIN vs \cup {0}
  <2>1. <<"reader", r>> \in Everyone /\ HoldsOf(cv, fb, mb, rd)[<<"reader", r>>] = rd[r].v
    BY HoldsAre, InEveryone
  <2>2. HoldsOf(cv, fb, mb, rd)[<<"reader", r>>] \in DOMAIN vs \cup {0}
    BY <1>1, <2>1
  <2>3. QED
    BY <2>1, <2>2
<1>3. QED
  BY <1>1, <1>2, HoldsAre, InEveryone

LEMMA UsedIsThere ==
  ASSUME NEW c, NEW rd, CacheOK(c, UsesOf(rd))
  PROVE  \A r \in Readers : rd[r].handle \in DOMAIN c.handles \cup {0}
<1> SUFFICES ASSUME NEW r \in Readers PROVE rd[r].handle \in DOMAIN c.handles \cup {0}
  OBVIOUS
<1>1. <<"reader", r>> \in Everyone /\ UsesOf(rd)[<<"reader", r>>] = rd[r].handle
  BY UsesAre, InEveryone
<1>2. UsesOf(rd)[<<"reader", r>>] \in DOMAIN c.handles \cup {0}
  BY <1>1 DEF CacheOK, Referenced
<1>3. QED
  BY <1>1, <1>2

LEMMA InUse ==
  ASSUME FInv
  PROVE  /\ currentV \in DOMAIN versions /\ currentV # 0 /\ versions[currentV].files \subseteq Tables
         /\ FlushBase \in DOMAIN versions \cup {0} /\ MergeBase \in DOMAIN versions \cup {0}
         /\ \A r \in Readers : readers[r].v \in DOMAIN versions \cup {0}
         /\ \A r \in Readers : readers[r].handle \in DOMAIN handles \cup {0}
         /\ 0 \notin DOMAIN versions /\ 0 \notin DOMAIN handles
<1>1. /\ currentV \in DOMAIN versions \cup {0} /\ FlushBase \in DOMAIN versions \cup {0}
      /\ MergeBase \in DOMAIN versions \cup {0} /\ \A r \in Readers : readers[r].v \in DOMAIN versions \cup {0}
  BY HeldIsThere DEF Holds, FInv, VersionsOK
<1>2. \A r \in Readers : readers[r].handle \in DOMAIN handles \cup {0}
  <2>1. cache.handles = handles
    BY DEF cache
  <2>2. QED
    BY <2>1, UsedIsThere DEF Uses, FInv, HandlesOK
<1>3. currentV # 0 /\ 0 \notin DOMAIN versions /\ 0 \notin DOMAIN handles
  BY DEF FInv, BasicsOK, VersionsOK, Counted, HandlesOK, CacheOK, Referenced, cache
<1>4. versions[currentV].files \subseteq Tables
  BY <1>1, <1>3, VersionHas DEF FInv, VersionsOK
<1>5. QED
  BY <1>1, <1>2, <1>3, <1>4

LEMMA VersionsStay ==
  ASSUME VersionsOK, UNCHANGED <<versions, currentV>>, FlushBase' = FlushBase, MergeBase' = MergeBase,
         \A r \in Readers : readers'[r].v = readers[r].v
  PROVE  VersionsOK'
<1>1. Holds' = Holds
  BY ReadersHold DEF Holds
<1>2. QED
  BY <1>1 DEF VersionsOK

LEMMA HandlesStay ==
  ASSUME HandlesOK, UNCHANGED cacheVars, \A r \in Readers : readers'[r].handle = readers[r].handle
  PROVE  HandlesOK'
<1>1. Uses' = Uses
  BY ReadersUse DEF Uses
<1>2. cache' = cache
  BY DEF cache, cacheVars
<1>3. QED
  BY <1>1, <1>2 DEF HandlesOK

\* A cache is its list and its handles.
LEMMA BecomesIt ==
  ASSUME NEW c, NEW uses, Becomes(c), CacheOK(c, uses)
  PROVE  CacheOK(cache', uses) /\ Listed(cache)' = Listed(c) /\ handles' = c.handles
<1>1. cache'.lru = c.lru /\ cache'.handles = c.handles
  BY DEF Becomes, cache
<1>2. Listed(cache') = Listed(c)
  BY <1>1 DEF Listed
<1>3. QED
  BY <1>1, <1>2 DEF CacheOK, Referenced, Single, Slim, Becomes, Listed, cache

\* Versions and handles stay the same for those who have them.
LEMMA ReaderStays ==
  ASSUME FInv, VersionsOK', HandlesOK', SameFiles(versions', versions),
         \A h \in DOMAIN handles \cap DOMAIN handles' : handles'[h].file = handles[h].file,
         NEW r \in Readers, readers'[r] = readers[r]
  PROVE  ReaderOK(r)'
<1>1. readers[r].v \in DOMAIN versions \cup {0} /\ readers[r].handle \in DOMAIN handles \cup {0}
  BY InUse
<1>2. readers'[r].v \in DOMAIN versions' \cup {0}
  BY HeldIsThere DEF Holds, VersionsOK
<1>3. readers'[r].handle \in DOMAIN handles' \cup {0}
  <2>1. cache'.handles = handles'
    BY DEF cache
  <2>2. QED
    BY <2>1, UsedIsThere DEF Uses, HandlesOK
<1>4. ReaderOK(r)
  BY DEF FInv, ReadersOK
<1>5. ASSUME readers[r].wants # {}
      PROVE  readers[r].v # 0 /\ \E f \in versions'[readers[r].v].files : readers[r].wants = {f}
  <2>1. readers[r].v # 0 /\ \E f \in versions[readers[r].v].files : readers[r].wants = {f}
    BY <1>4, <1>5 DEF ReaderOK
  <2>2. versions'[readers[r].v].files = versions[readers[r].v].files
    BY <1>1, <1>2, <2>1 DEF SameFiles
  <2>3. QED
    BY <2>1, <2>2
<1>6. ASSUME readers[r].handle # 0
      PROVE  readers[r].wants = {handles'[readers[r].handle].file}
  <2>1. readers[r].wants = {handles[readers[r].handle].file}
    BY <1>4, <1>6 DEF ReaderOK
  <2>2. handles'[readers[r].handle].file = handles[readers[r].handle].file
    BY <1>1, <1>3, <1>6
  <2>3. QED
    BY <2>1, <2>2
<1>7. QED
  BY <1>5, <1>6 DEF ReaderOK

LEMMA ReadersStay ==
  ASSUME FInv, VersionsOK', HandlesOK', SameFiles(versions', versions),
         \A h \in DOMAIN handles \cap DOMAIN handles' : handles'[h].file = handles[h].file,
         readers' = readers
  PROVE  ReadersOK'
<1>1. \A r \in Readers : ReaderOK(r)'
  BY ReaderStays
<1>2. QED
  BY <1>1 DEF FInv, ReadersOK

LEMMA SameOnes ==
  /\ \A vs : SameFiles(vs, vs)
  /\ UNCHANGED cacheVars => Below(cache', cache) /\ \A h \in DOMAIN handles : handles'[h].file = handles[h].file
<1>1. \A vs : SameFiles(vs, vs)
  BY DEF SameFiles
<1>2. UNCHANGED cacheVars => Below(cache', cache) /\ \A h \in DOMAIN handles : handles'[h].file = handles[h].file
  BY DEF Below, cache, cacheVars, Listed
<1>3. QED
  BY <1>1, <1>2

\* What stays in a version, in the manifest, among the outputs and in the
\* cache stays safe.
LEMMA VersionsStaySafe ==
  ASSUME FInv, \A f : Safe(f) => Safe(f)', DOMAIN versions' \subseteq DOMAIN versions, SameFiles(versions', versions)
  PROVE  VersionsSafe'
<1> SUFFICES ASSUME NEW v \in DOMAIN versions', NEW f \in versions'[v].files PROVE Safe(f)'
  BY DEF VersionsSafe
<1>1. v \in DOMAIN versions /\ f \in versions[v].files
  BY DEF SameFiles
<1>2. Safe(f)
  BY <1>1 DEF FInv, VersionsSafe
<1>3. QED
  BY <1>2

LEMMA ManifestsStaySafe ==
  ASSUME FInv, \A f : Safe(f) => Safe(f)', manifests' = manifests
  PROVE  ManifestsSafe'
<1> SUFFICES ASSUME NEW m \in manifests, NEW f \in m.files PROVE Safe(f)'
  BY DEF ManifestsSafe
<1>1. Safe(f)
  BY DEF FInv, ManifestsSafe
<1>2. QED
  BY <1>1

LEMMA OutputsStaySafe ==
  ASSUME FInv, \A f : Safe(f) => Safe(f)', Outputs' \subseteq Outputs
  PROVE  OutputsSafe'
<1> SUFFICES ASSUME NEW f \in Outputs' PROVE Safe(f)'
  BY DEF OutputsSafe
<1>1. Safe(f)
  BY DEF FInv, OutputsSafe
<1>2. QED
  BY <1>1

LEMMA CachedStaySafe ==
  ASSUME FInv, \A f : Undisturbed(f) => Undisturbed(f)', HandlesOK', Below(cache', cache)
  PROVE  CachedSafe'
<1>1. Listed(cache)' \subseteq DOMAIN handles'
  BY DEF HandlesOK, CacheOK, Referenced, cache
<1>2. \A h \in Listed(cache)' : h \in Listed(cache) /\ handles'[h].file = handles[h].file
  <2>1. Listed(cache)' \subseteq Listed(cache) /\ \A h \in DOMAIN handles' : handles'[h].file = handles[h].file
    BY DEF Below, cache, Listed
  <2>2. QED
    BY <1>1, <2>1
<1>3. \A h \in Listed(cache)' : Undisturbed(handles[h].file)
  BY <1>2 DEF FInv, CachedSafe
<1>4. ASSUME NEW h \in Listed(cache)', NEW f, f = handles'[h].file PROVE Undisturbed(f)'
  <2>1. Undisturbed(f)
    BY <1>2, <1>3, <1>4
  <2>2. QED
    BY <2>1
<1>5. QED
  BY <1>4 DEF CachedSafe, Undisturbed

LEMMA BecomesBelow ==
  ASSUME NEW c, NEW uses, Becomes(c), CacheOK(c, uses), Below(c, cache)
  PROVE  CacheOK(cache', uses) /\ Below(cache', cache) /\ handles' = c.handles
<1>1. CacheOK(cache', uses) /\ Listed(cache)' = Listed(c) /\ handles' = c.handles
  BY BecomesIt
<1>2. Listed(cache') = Listed(cache)' /\ cache'.handles = handles'
  BY DEF Listed, cache
<1>3. QED
  BY <1>1, <1>2 DEF Below

LEMMA CachedBesideSafe ==
  ASSUME FInv, \A f : Undisturbed(f) => Undisturbed(f)', HandlesOK', NEW d, NEW n, NEW t, Beside(d, cache, n, t),
         Listed(cache)' = Listed(d), handles' = d.handles, Undisturbed(t)'
  PROVE  CachedSafe'
<1>1. Listed(cache)' \subseteq DOMAIN handles'
  BY DEF HandlesOK, CacheOK, Referenced, cache
<1>2. ASSUME NEW h \in Listed(cache)', NEW f, f = handles'[h].file PROVE Undisturbed(f)'
  <2>1. CASE h = n
    BY <1>1, <1>2, <2>1 DEF Beside
  <2>2. CASE h # n
    <3>1. h \in Listed(cache) /\ f = handles[h].file
      BY <1>1, <1>2, <2>2 DEF Beside, cache
    <3>2. Undisturbed(f)
      BY <3>1 DEF FInv, CachedSafe
    <3>3. QED
      BY <3>2
  <2>3. QED
    BY <2>1, <2>2
<1>3. QED
  BY <1>2 DEF CachedSafe, Undisturbed

-----------------------------------------------------------------------------
(* Readers.                                                                *)

\* Nothing but readers, versions' references and the cache is touched.
readerSteps == <<disk, currentV, nextNumber, pendingOutputs, manifests, bgFailed, flushing, merging, lifeVars>>

LEMMA ReaderFrame ==
  ASSUME FInv, UNCHANGED readerSteps, VersionsOK', HandlesOK', ReadersOK', CachedSafe',
         DOMAIN versions' \subseteq DOMAIN versions, SameFiles(versions', versions)
  PROVE  FInv'
<1>1. /\ BasicsOK' /\ FlushOK' /\ MergeOK' /\ PendingOK' /\ OpeningOK' /\ Outputs' = Outputs
  BY DEF FInv, BasicsOK, FlushOK, flushed, MergeOK, PendingOK, Outputs, OpeningOK, readerSteps, lifeVars
<1>2. \A f : Safe(f) => Safe(f)'
  BY DEF Safe, readerSteps
<1>3. VersionsSafe' /\ ManifestsSafe' /\ OutputsSafe'
  BY <1>1, <1>2, VersionsStaySafe, ManifestsStaySafe, OutputsStaySafe DEF readerSteps
<1>4. currentV \in DOMAIN versions /\ currentV \in DOMAIN versions'
  <2>1. currentV' \in DOMAIN versions' \cup {0} /\ currentV' = currentV /\ currentV # 0
    BY HeldIsThere, InUse DEF Holds, VersionsOK, readerSteps
  <2>2. QED
    BY <2>1, InUse
<1>5. ManifestsOK'
  <2>1. versions'[currentV].files = versions[currentV].files
    BY <1>4 DEF SameFiles
  <2>2. QED
    BY <2>1 DEF FInv, ManifestsOK, readerSteps
<1>6. QED
  BY <1>1, <1>3, <1>5 DEF FInv

ReaderStates == [v : Nat, wants : SUBSET Tables, handle : Nat]

LEMMA ReaderMoves ==
  ASSUME readers \in [Readers -> ReaderStates], NEW r \in Readers, NEW x \in ReaderStates,
         readers' = [readers EXCEPT ![r] = x]
  PROVE  /\ readers' \in [Readers -> ReaderStates] /\ readers'[r] = x
         /\ \A q \in Readers : q # r => readers'[q] = readers[q]
  OBVIOUS

LEMMA ReaderBeginsKeeps == ASSUME FInv, NEW r \in Readers, ReaderBegins(r) PROVE FInv'
<1>1. /\ readers[r] = NoReader /\ readers' = [readers EXCEPT ![r].v = currentV]
      /\ versions' = Ref(versions, currentV) /\ UNCHANGED cacheVars /\ UNCHANGED readerSteps
  BY DEF ReaderBegins, readerSteps
<1>2. readers \in [Readers -> ReaderStates] /\ currentV \in Nat
  BY DEF FInv, ReadersOK, BasicsOK, ReaderStates
<1>3. /\ readers'[r] = [v |-> currentV, wants |-> {}, handle |-> 0]
      /\ \A q \in Readers : q # r => readers'[q] = readers[q]
      /\ readers[r].v = 0 /\ readers[r].handle = 0
      /\ readers' \in [Readers -> ReaderStates]
  <2> DEFINE x == [v |-> currentV, wants |-> {}, handle |-> 0]
  <2>1. x \in ReaderStates /\ readers' = [readers EXCEPT ![r] = x]
    <3>1. x \in ReaderStates
      BY <1>2 DEF ReaderStates
    <3>2. [readers[r] EXCEPT !.v = currentV] = x
      BY <1>1 DEF NoReader
    <3>3. QED
      BY <1>1, <3>1, <3>2
  <2> HIDE DEF x
  <2>2. readers' \in [Readers -> ReaderStates] /\ readers'[r] = x /\ \A q \in Readers : q # r => readers'[q] = readers[q]
    BY <1>2, <2>1, ReaderMoves
  <2>3. QED
    BY <1>1, <2>2 DEF x, NoReader
<1>4. VersionsOK' /\ DOMAIN versions' = DOMAIN versions /\ SameFiles(versions', versions)
  <2>1. Changes(Holds', Holds, <<"reader", r>>, currentV)
    <3>1. FlushBase' = FlushBase /\ MergeBase' = MergeBase /\ currentV' = currentV /\ readers'[r].v = currentV
      BY <1>1, <1>3 DEF FlushBase, MergeBase, readerSteps
    <3>2. QED
      BY <1>3, <3>1, ReaderHolds DEF Holds
  <2>2. Holds[<<"reader", r>>] = 0 /\ <<"reader", r>> \in Everyone
    BY <1>3, HoldsAre, InEveryone DEF Holds
  <2>3. Counted(versions, Holds) /\ currentV \in DOMAIN versions
    BY InUse DEF FInv, VersionsOK
  <2>4. QED
    BY <1>1, <2>1, <2>2, <2>3, RefCounts DEF VersionsOK
<1>5. HandlesOK'
  BY <1>1, <1>3, HandlesStay DEF FInv
<1>6. ReadersOK'
  <2>1. \A q \in Readers : q # r => ReaderOK(q)'
    BY <1>1, <1>3, <1>4, <1>5, ReaderStays, SameOnes
  <2>2. ReaderOK(r)'
    BY <1>3 DEF ReaderOK
  <2>3. QED
    BY <1>3, <2>1, <2>2 DEF ReadersOK, ReaderStates
<1>7. CachedSafe'
  <2>1. \A f : Undisturbed(f) => Undisturbed(f)'
    BY <1>1 DEF Undisturbed, readerSteps
  <2>2. QED
    BY <1>1, <1>5, <2>1, CachedStaySafe, SameOnes
<1>8. QED
  BY <1>1, <1>4, <1>5, <1>6, <1>7, ReaderFrame

LEMMA ReaderEndsKeeps == ASSUME FInv, NEW r \in Readers, ReaderEnds(r) PROVE FInv'
<1>1. /\ readers[r].v # 0 /\ readers[r].wants = {} /\ readers' = [readers EXCEPT ![r] = NoReader]
      /\ versions' = Unref(versions, readers[r].v) /\ UNCHANGED cacheVars /\ UNCHANGED readerSteps
  BY DEF ReaderEnds, ReaderRests, readerSteps
<1>2. readers \in [Readers -> ReaderStates] /\ NoReader \in ReaderStates
  BY DEF FInv, ReadersOK, ReaderStates, NoReader
<1>3. /\ readers' \in [Readers -> ReaderStates] /\ readers'[r] = NoReader
      /\ \A q \in Readers : q # r => readers'[q] = readers[q]
  BY <1>1, <1>2, ReaderMoves
<1>4. readers[r].handle = 0
  BY <1>1 DEF FInv, ReadersOK, ReaderOK
<1>5. VersionsOK' /\ DOMAIN versions' \subseteq DOMAIN versions /\ SameFiles(versions', versions)
  <2>1. Changes(Holds', Holds, <<"reader", r>>, 0)
    <3>1. FlushBase' = FlushBase /\ MergeBase' = MergeBase /\ currentV' = currentV /\ readers'[r].v = 0
      BY <1>1, <1>3 DEF FlushBase, MergeBase, readerSteps, NoReader
    <3>2. QED
      BY <1>3, <3>1, ReaderHolds DEF Holds
  <2>2. Holds[<<"reader", r>>] = readers[r].v /\ <<"reader", r>> \in Everyone
    BY HoldsAre, InEveryone DEF Holds
  <2>3. Counted(versions, Holds)
    BY DEF FInv, VersionsOK
  <2>4. QED
    BY <1>1, <2>1, <2>2, <2>3, UnrefCounts DEF VersionsOK
<1>6. HandlesOK'
  <2>1. \A q \in Readers : readers'[q].handle = readers[q].handle
    BY <1>3, <1>4 DEF NoReader
  <2>2. QED
    BY <1>1, <2>1, HandlesStay DEF FInv
<1>7. ReadersOK'
  <2>1. \A q \in Readers : q # r => ReaderOK(q)'
    BY <1>1, <1>3, <1>5, <1>6, ReaderStays, SameOnes
  <2>2. ReaderOK(r)'
    BY <1>3 DEF ReaderOK, NoReader
  <2>3. QED
    BY <1>3, <2>1, <2>2 DEF ReadersOK, ReaderStates
<1>8. CachedSafe'
  <2>1. \A f : Undisturbed(f) => Undisturbed(f)'
    BY <1>1 DEF Undisturbed, readerSteps
  <2>2. QED
    BY <1>1, <1>6, <2>1, CachedStaySafe, SameOnes
<1>9. QED
  BY <1>1, <1>5, <1>6, <1>7, <1>8, ReaderFrame

\* A step of one reader that leaves the versions alone.
LEMMA ReaderCaches ==
  ASSUME FInv, UNCHANGED readerSteps, UNCHANGED versions, NEW r \in Readers, NEW x \in ReaderStates,
         readers' = [readers EXCEPT ![r] = x], x.v = readers[r].v,
         HandlesOK', \A h \in DOMAIN handles \cap DOMAIN handles' : handles'[h].file = handles[h].file,
         ReaderOK(r)', CachedSafe'
  PROVE  FInv'
<1>1. readers \in [Readers -> ReaderStates]
  BY DEF FInv, ReadersOK, ReaderStates
<1>2. /\ readers' \in [Readers -> ReaderStates] /\ readers'[r] = x
      /\ \A q \in Readers : q # r => readers'[q] = readers[q]
  BY <1>1, ReaderMoves
<1>3. VersionsOK'
  <2>1. UNCHANGED <<versions, currentV>> /\ FlushBase' = FlushBase /\ MergeBase' = MergeBase
    BY DEF readerSteps, FlushBase, MergeBase
  <2>2. \A q \in Readers : readers'[q].v = readers[q].v
    BY <1>2
  <2>3. QED
    BY <2>1, <2>2, VersionsStay DEF FInv
<1>4. SameFiles(versions', versions) /\ DOMAIN versions' \subseteq DOMAIN versions
  BY SameOnes
<1>5. \A q \in Readers : q # r => ReaderOK(q)'
  BY <1>2, <1>3, <1>4, ReaderStays
<1>6. ReadersOK'
  BY <1>2, <1>5 DEF ReadersOK, ReaderStates
<1>7. QED
  BY <1>3, <1>4, <1>6, ReaderFrame

LEMMA ReaderReleasesKeeps == ASSUME FInv, NEW r \in Readers, ReaderReleases(r) PROVE FInv'
<1> DEFINE d == Release(cache, readers[r].handle)
           x == [readers[r] EXCEPT !.wants = {}, !.handle = 0]
<1>1. /\ readers[r].handle # 0 /\ Becomes(d) /\ UNCHANGED versions /\ UNCHANGED readerSteps
      /\ readers' = [readers EXCEPT ![r].wants = {}, ![r].handle = 0]
  BY DEF ReaderReleases, readerSteps, versionVars
<1>2. readers \in [Readers -> ReaderStates] /\ readers[r] \in ReaderStates
  BY DEF FInv, ReadersOK, ReaderStates
<1>3. x \in ReaderStates /\ x.v = readers[r].v /\ x.wants = {} /\ x.handle = 0
  BY <1>2 DEF ReaderStates
<1>4. readers' = [readers EXCEPT ![r] = x]
  BY <1>1, <1>2
<1> HIDE DEF x
<1>5. readers'[r] = x /\ \A q \in Readers : q # r => readers'[q] = readers[q]
  BY <1>2, <1>3, <1>4, ReaderMoves
<1>6. CacheOK(d, Uses') /\ Below(d, cache)
  <2>1. Changes(Uses', Uses, <<"reader", r>>, 0)
    BY <1>3, <1>5, ReaderUses DEF Uses
  <2>2. Uses[<<"reader", r>>] = readers[r].handle /\ <<"reader", r>> \in Everyone
    BY UsesAre, InEveryone DEF Uses
  <2>3. CacheOK(cache, Uses)
    BY DEF FInv, HandlesOK
  <2> HIDE DEF d
  <2>4. QED
    BY <1>1, <2>1, <2>2, <2>3, Releases DEF d
<1> HIDE DEF d
<1>7. HandlesOK' /\ Below(cache', cache)
  BY <1>1, <1>6, BecomesBelow DEF HandlesOK
<1>8. \A h \in DOMAIN handles \cap DOMAIN handles' : handles'[h].file = handles[h].file
  BY <1>7 DEF Below, cache
<1>9. ReaderOK(r)'
  BY <1>3, <1>5 DEF ReaderOK
<1>10. CachedSafe'
  <2>1. \A f : Undisturbed(f) => Undisturbed(f)'
    BY <1>1 DEF Undisturbed, readerSteps
  <2>2. QED
    BY <1>7, <2>1, CachedStaySafe
<1>11. QED
  BY <1>1, <1>3, <1>4, <1>7, <1>8, <1>9, <1>10, ReaderCaches

\* The table is in the cache, or it is not.
LEMMA FindTableKeeps ==
  ASSUME FInv, NEW r \in Readers, readers[r].v # 0, NEW f \in versions[readers[r].v].files, FindTable(r, f)
  PROVE  FInv'
<1> DEFINE H == Cached(cache, f)
           h == CHOOSE g \in H : TRUE
           u == IF H = {} THEN 0 ELSE h
           x == [readers[r] EXCEPT !.wants = {f}, !.handle = u]
           d == IF H = {} THEN cache ELSE Touched(cache, h)
<1>1. /\ readers[r].v # 0 /\ readers[r].wants = {} /\ Becomes(d) /\ UNCHANGED versions /\ UNCHANGED readerSteps
      /\ readers' = [readers EXCEPT ![r].wants = {f}, ![r].handle = u]
  BY DEF FindTable, ReaderRests, readerSteps, versionVars
<1>2. H # {} => h \in Listed(cache) /\ cache.handles[h].file = f
  BY DEF Cached
<1>3. CacheOK(cache, Uses) /\ Listed(cache) \subseteq DOMAIN cache.handles /\ DOMAIN cache.handles \subseteq Nat
  BY DEF FInv, HandlesOK, CacheOK, Referenced
<1>4. u \in Nat /\ (H = {} => u = 0) /\ (H # {} => u = h)
  <2> HIDE DEF H, h
  <2>1. QED
    BY <1>2, <1>3
<1>5. f \in Tables
  <2>1. readers[r].v \in DOMAIN versions
    BY InUse
  <2>2. QED
    BY <2>1, VersionHas DEF FInv, VersionsOK
<1>6. readers \in [Readers -> ReaderStates] /\ readers[r] \in ReaderStates
  BY DEF FInv, ReadersOK, ReaderStates
<1> HIDE DEF H, h, u
<1>7. x \in ReaderStates /\ x.v = readers[r].v /\ x.wants = {f} /\ x.handle = u
  BY <1>4, <1>5, <1>6 DEF ReaderStates
<1>8. readers' = [readers EXCEPT ![r] = x]
  BY <1>1, <1>6
<1> HIDE DEF x
<1>9. readers'[r] = x /\ \A q \in Readers : q # r => readers'[q] = readers[q]
  BY <1>6, <1>7, <1>8, ReaderMoves
<1>10. readers[r].handle = 0
  BY <1>1 DEF FInv, ReadersOK, ReaderOK
<1>11. CacheOK(d, Uses') /\ Below(d, cache) /\ (H # {} => h \in DOMAIN d.handles)
  <2>1. CASE H = {}
    <3>1. d = cache /\ Uses' = Uses
      <4>1. \A q \in Readers : readers'[q].handle = readers[q].handle
        BY <1>4, <1>7, <1>9, <1>10, <2>1
      <4>2. Uses' = Uses
        BY <4>1, ReadersUse DEF Uses
      <4>3. QED
        BY <2>1, <4>2
    <3>2. Below(cache, cache)
      BY DEF Below
    <3> HIDE DEF d
    <3>3. QED
      BY <1>3, <2>1, <3>1, <3>2
  <2>2. CASE H # {}
    <3>1. Changes(Uses', Uses, <<"reader", r>>, h)
      <4>1. Changes(Uses', Uses, <<"reader", r>>, readers'[r].handle)
        BY <1>9, ReaderUses DEF Uses
      <4>2. readers'[r].handle = h
        BY <1>4, <1>7, <1>9, <2>2
      <4>3. QED
        BY <4>1, <4>2
    <3>2. Uses[<<"reader", r>>] = 0 /\ <<"reader", r>> \in Everyone
      BY <1>10, UsesAre, InEveryone DEF Uses
    <3>3. d = Touched(cache, h)
      BY <2>2
    <3>4. CacheOK(Touched(cache, h), Uses') /\ Below(Touched(cache, h), cache) /\ Listed(Touched(cache, h)) = Listed(cache)
      BY <1>2, <1>3, <2>2, <3>1, <3>2, Touches
    <3> HIDE DEF d
    <3>5. h \in DOMAIN d.handles
      BY <1>2, <2>2, <3>3, <3>4 DEF CacheOK, Referenced
    <3>6. QED
      BY <3>3, <3>4, <3>5
  <2>3. QED
    BY <2>1, <2>2
<1> HIDE DEF d
<1>12. HandlesOK' /\ Below(cache', cache) /\ handles' = d.handles
  BY <1>1, <1>11, BecomesBelow DEF HandlesOK
<1>13. \A g \in DOMAIN handles \cap DOMAIN handles' : handles'[g].file = handles[g].file
  BY <1>12 DEF Below, cache
<1>14. ReaderOK(r)'
  <2>1. H # {} => handles'[h].file = f
    BY <1>2, <1>11, <1>12 DEF Below, cache
  <2>2. QED
    BY <1>1, <1>4, <1>7, <1>9, <2>1 DEF ReaderOK
<1>15. CachedSafe'
  <2>1. \A g : Undisturbed(g) => Undisturbed(g)'
    BY <1>1 DEF Undisturbed, readerSteps
  <2>2. QED
    BY <1>12, <2>1, CachedStaySafe
<1>16. QED
  BY <1>1, <1>7, <1>8, <1>12, <1>13, <1>14, <1>15, ReaderCaches

LEMMA OpenTableKeeps == ASSUME FInv, NEW r \in Readers, OpenTable(r) PROVE FInv'
<1> DEFINE f == CHOOSE g \in readers[r].wants : TRUE
           n == NewHandle(cache)
           x == [readers[r] EXCEPT !.handle = n]
           d == Insert(cache, f)
<1>1. /\ readers[r].wants # {} /\ readers[r].handle = 0 /\ Becomes(d) /\ UNCHANGED versions /\ UNCHANGED readerSteps
      /\ readers' = [readers EXCEPT ![r].handle = n]
  BY DEF OpenTable, readerSteps, versionVars
<1>2. readers[r].v # 0 /\ \E g \in versions[readers[r].v].files : readers[r].wants = {g}
  BY <1>1 DEF FInv, ReadersOK, ReaderOK
<1>3. f \in versions[readers[r].v].files /\ readers[r].wants = {f} /\ readers[r].v \in DOMAIN versions
  BY <1>2, InUse
<1>4. f \in Tables /\ Safe(f)
  <2> HIDE DEF f
  <2>1. QED
    BY <1>3, VersionHas DEF FInv, VersionsOK, VersionsSafe
<1>5. CacheOK(cache, Uses) /\ IsFiniteSet(DOMAIN cache.handles)
  BY DEF FInv, HandlesOK, CacheOK, Referenced
<1>6. n \in Nat /\ n # 0
  BY <1>5, LeastFreeIsFree DEF NewHandle
<1>7. readers \in [Readers -> ReaderStates] /\ readers[r] \in ReaderStates
  BY DEF FInv, ReadersOK, ReaderStates
<1> HIDE DEF f, n
<1>8. x \in ReaderStates /\ x.v = readers[r].v /\ x.wants = {f} /\ x.handle = n
  BY <1>3, <1>6, <1>7 DEF ReaderStates
<1>9. readers' = [readers EXCEPT ![r] = x]
  BY <1>1, <1>7
<1> HIDE DEF x, d
<1>10. readers'[r] = x /\ \A q \in Readers : q # r => readers'[q] = readers[q]
  BY <1>7, <1>8, <1>9, ReaderMoves
<1>11. CacheOK(d, Uses') /\ Beside(d, cache, n, f) /\ n \in DOMAIN d.handles
  <2>1. Changes(Uses', Uses, <<"reader", r>>, n)
    BY <1>8, <1>10, ReaderUses DEF Uses
  <2>2. Uses[<<"reader", r>>] = 0 /\ <<"reader", r>> \in Everyone
    BY <1>1, UsesAre, InEveryone DEF Uses
  <2>3. QED
    BY <1>4, <1>5, <2>1, <2>2, Inserts DEF d, n
<1>12. CacheOK(cache', Uses') /\ Listed(cache)' = Listed(d) /\ handles' = d.handles
  BY <1>1, <1>11, BecomesIt
<1>13. HandlesOK'
  BY <1>12 DEF HandlesOK
<1>14. \A g \in DOMAIN handles \cap DOMAIN handles' : handles'[g].file = handles[g].file
  BY <1>11, <1>12 DEF Beside, cache
<1>15. ReaderOK(r)'
  <2>1. handles'[n].file = f
    BY <1>11, <1>12 DEF Beside
  <2>2. QED
    BY <1>1, <1>2, <1>3, <1>8, <1>10, <2>1 DEF ReaderOK
<1>16. CachedSafe'
  <2>1. \A g : Undisturbed(g) => Undisturbed(g)'
    BY <1>1 DEF Undisturbed, readerSteps
  <2>2. Undisturbed(f)
    BY <1>4 DEF Safe, Undisturbed, NotRunning
  <2>3. QED
    BY <1>11, <1>12, <1>13, <2>1, <2>2, CachedBesideSafe
<1>17. QED
  BY <1>1, <1>8, <1>9, <1>13, <1>14, <1>15, <1>16, ReaderCaches

-----------------------------------------------------------------------------
(* Flushes.                                                                *)

LEMMA NumbersAre == FInv => \A f \in disk : f.n \in 1..MaxNumber
  BY DEF FInv, BasicsOK, Tables

LEMMA CurrentStays ==
  ASSUME FInv, VersionsOK', currentV' = currentV, SameFiles(versions', versions)
  PROVE  versions'[currentV'].files = versions[currentV].files
<1>1. currentV' \in DOMAIN versions' \cup {0} /\ currentV # 0 /\ currentV \in DOMAIN versions
  BY HeldIsThere, InUse DEF Holds, VersionsOK
<1>2. QED
  BY <1>1 DEF SameFiles

\* What goes is in no version and pending no more, and leaves the cache.
LEMMA Collects ==
  ASSUME FInv, NEW vs, NEW pend, DeleteObsoleteFiles(vs, pend), readers' = readers
  PROVE  /\ disk' \subseteq disk /\ (bgFailed' => disk' = disk)
         /\ \A v \in DOMAIN vs : \A f \in vs[v].files : f \in disk => f \in disk'
         /\ \A f \in disk : f.n \in pend => f \in disk'
         /\ HandlesOK' /\ Below(cache', cache)
         /\ \A h \in DOMAIN handles \cap DOMAIN handles' : handles'[h].file = handles[h].file
         /\ \A h \in Listed(cache)' : Undisturbed(handles[h].file) /\ handles[h].file \in disk' /\ handles'[h].file = handles[h].file
<1> DEFINE O == Obsolete(vs, pend)
           H == UNION {Cached(cache, f) : f \in O}
           d == Delisted(cache, H)
<1>1. disk' = disk \ O /\ Becomes(d)
  BY DEF DeleteObsoleteFiles
<1>2. (bgFailed' => O = {}) /\ O \subseteq disk
      /\ \A f \in O : f.n \notin pend /\ \A v \in DOMAIN vs : f \notin vs[v].files
  <2>1. O = IF bgFailed' THEN {} ELSE disk \ Live(vs, pend)
    BY DEF Obsolete
  <2>2. ASSUME NEW f \in disk \ Live(vs, pend) PROVE f.n \notin pend /\ \A v \in DOMAIN vs : f \notin vs[v].files
    <3>1. f \in disk /\ f \notin {g \in disk : g.n \in pend} /\ f \notin UNION {vs[v].files : v \in DOMAIN vs}
      BY DEF Live
    <3>2. f.n \notin pend
      BY <3>1
    <3>3. \A v \in DOMAIN vs : f \notin vs[v].files
      BY <3>1
    <3>4. QED
      BY <3>2, <3>3
  <2> HIDE DEF O
  <2>3. QED
    BY <2>1, <2>2
<1>3. H \subseteq Listed(cache)
  BY DEF Cached
<1> HIDE DEF O
<1>4. CacheOK(d, Uses) /\ Below(d, cache) /\ Listed(d) = Listed(cache) \ H
  <2> HIDE DEF H
  <2>1. QED
    BY <1>3, DelistsOK DEF FInv, HandlesOK
<1> HIDE DEF d
<1>5. CacheOK(cache', Uses) /\ Below(cache', cache) /\ handles' = d.handles /\ Listed(cache)' = Listed(d)
  BY <1>1, <1>4, BecomesIt, BecomesBelow
<1>6. HandlesOK'
  <2>1. Uses' = Uses
    BY DEF Uses
  <2>2. QED
    BY <1>5, <2>1 DEF HandlesOK
<1>7. \A h \in DOMAIN handles \cap DOMAIN handles' : handles'[h].file = handles[h].file
  BY <1>5 DEF Below, cache
<1>8. ASSUME NEW h \in Listed(cache)'
      PROVE  Undisturbed(handles[h].file) /\ handles[h].file \in disk' /\ handles'[h].file = handles[h].file
  <2>1. h \in Listed(cache) /\ h \notin H
    BY <1>4, <1>5
  <2>2. Undisturbed(handles[h].file)
    BY <2>1 DEF FInv, CachedSafe
  <2>3. handles[h].file \notin O
    BY <2>1 DEF Cached, cache
  <2>4. h \in DOMAIN handles'
    BY <1>4, <1>5 DEF CacheOK, Referenced
  <2>5. handles'[h].file = handles[h].file
    BY <1>5, <2>4 DEF Below, cache
  <2>6. QED
    BY <1>1, <2>2, <2>3, <2>5 DEF Undisturbed
<1>9. QED
  BY <1>1, <1>2, <1>5, <1>6, <1>7, <1>8

\* The record of a flush that is under way.
FlushStates == [at : {"building", "built", "logging", "replayed"}, n : 1..MaxNumber, base : Nat \ {0}]

LEMMA FlushIs ==
  ASSUME FInv, flushing.at # "no"
  PROVE  /\ flushing # NotRunning /\ flushing \in FlushStates /\ flushing.n < nextNumber /\ flushed \in Tables
         /\ flushing.at # "building" => flushed \in disk
<1>1. flushing # NotRunning
  BY DEF NotRunning
<1>2. /\ flushing \in FlushStates /\ flushing.n < nextNumber
      /\ flushing.at # "building" => flushed \in disk
  BY <1>1 DEF FInv, FlushOK, FlushStates
<1>3. flushed \in Tables
  BY <1>2 DEF flushed, Tables, FlushStates, FInv, BasicsOK
<1>4. QED
  BY <1>1, <1>2, <1>3

LEMMA StartFlushKeeps == ASSUME FInv, StartFlush PROVE FInv'
<1>1. /\ opened /\ flushing = NotRunning /\ nextNumber <= MaxNumber /\ nextNumber' = nextNumber + 1
      /\ pendingOutputs' = pendingOutputs \cup {nextNumber}
      /\ flushing' = [at |-> "building", n |-> nextNumber, base |-> currentV]
      /\ versions' = Ref(versions, currentV)
      /\ UNCHANGED <<disk, currentV, manifests, bgFailed, merging, readers, run, opened>> /\ UNCHANGED cacheVars
  BY DEF StartFlush, lifeVars
<1>2. nextNumber \in Nat \ {0} /\ currentV \in Nat \ {0} /\ currentV \in DOMAIN versions
  BY InUse DEF FInv, BasicsOK
<1>3. VersionsOK' /\ DOMAIN versions' = DOMAIN versions /\ SameFiles(versions', versions)
  <2>1. FlushBase = 0 /\ FlushBase' = currentV /\ MergeBase' = MergeBase
    BY <1>1 DEF FlushBase, MergeBase, NotRunning
  <2>2. Changes(Holds', Holds, <<"flush", 0>>, currentV)
    BY <1>1, <2>1, HoldsChange DEF Holds
  <2>3. Holds[<<"flush", 0>>] = 0 /\ <<"flush", 0>> \in Everyone
    BY <2>1, HoldsAre, InEveryone DEF Holds
  <2>4. Counted(versions, Holds)
    BY DEF FInv, VersionsOK
  <2>5. QED
    BY <1>1, <1>2, <2>2, <2>3, <2>4, RefCounts DEF VersionsOK
<1>4. HandlesOK'
  BY <1>1, HandlesStay DEF FInv
<1>5. ReadersOK'
  BY <1>1, <1>3, <1>4, ReadersStay, SameOnes
<1>6. \A f : Safe(f) => Safe(f)'
  BY <1>1, <1>2, NumbersAre DEF Safe
<1>7. \A f : Undisturbed(f) => Undisturbed(f)'
  BY <1>1, <1>2, NumbersAre DEF Undisturbed
<1>8. Outputs' = Outputs
  BY <1>1 DEF Outputs
<1>9. VersionsSafe' /\ ManifestsSafe' /\ OutputsSafe' /\ CachedSafe'
  BY <1>1, <1>3, <1>4, <1>6, <1>7, <1>8, VersionsStaySafe, ManifestsStaySafe, OutputsStaySafe, CachedStaySafe, SameOnes
<1>10. ManifestsOK'
  <2>1. versions'[currentV'].files = versions[currentV].files
    BY <1>1, <1>3, CurrentStays
  <2>2. \A m \in manifests : m.next \in Nat
    BY DEF FInv, ManifestsOK
  <2>3. QED
    BY <1>1, <1>2, <2>1, <2>2 DEF FInv, ManifestsOK
<1>11. FlushOK'
  <2>1. flushing' \in FlushStates
    BY <1>1, <1>2, FilesAssumption DEF FlushStates
  <2>2. flushing'.n < nextNumber' /\ flushing'.at = "building"
    BY <1>1, <1>2
  <2>3. QED
    BY <2>1, <2>2 DEF FlushOK, FlushStates
<1>12. PendingOK'
  BY <1>1, <1>8 DEF FInv, PendingOK, NotRunning
<1>13. BasicsOK' /\ MergeOK' /\ OpeningOK'
  BY <1>1, <1>2 DEF FInv, BasicsOK, MergeOK, OpeningOK
<1>14. QED
  BY <1>3, <1>4, <1>5, <1>9, <1>10, <1>11, <1>12, <1>13 DEF FInv

\* The background thread verifies a table that is there from now on.
LEMMA VerifiedKeeps ==
  ASSUME FInv, VersionsOK', SameFiles(versions', versions), readers' = readers, NEW t \in Tables,
         Becomes(Verified(cache, t)), \A f : Undisturbed(f) => Undisturbed(f)', Undisturbed(t)'
  PROVE  HandlesOK' /\ ReadersOK' /\ CachedSafe'
<1> DEFINE d == Verified(cache, t)
           n == NewHandle(cache)
<1>1. CacheOK(d, Uses) /\ Beside(d, cache, n, t)
  <2>1. Uses = [e \in Everyone |-> Uses[e]] /\ Uses[<<"flush", 0>>] = 0 /\ <<"flush", 0>> \in Everyone
    BY UsesAre, InEveryone DEF Uses
  <2>2. QED
    BY <2>1, Verifies DEF FInv, HandlesOK
<1> HIDE DEF d, n
<1>2. Becomes(d)
  BY DEF d
<1>3. CacheOK(cache', Uses) /\ Listed(cache)' = Listed(d) /\ handles' = d.handles
  BY <1>1, <1>2, BecomesIt
<1>4. HandlesOK'
  <2>1. Uses' = Uses
    BY DEF Uses
  <2>2. QED
    BY <1>3, <2>1 DEF HandlesOK
<1>5. \A h \in DOMAIN handles \cap DOMAIN handles' : handles'[h].file = handles[h].file
  BY <1>1, <1>3 DEF Beside, cache
<1>6. QED
  BY <1>1, <1>3, <1>4, <1>5, ReadersStay, CachedBesideSafe

LEMMA BuildTableFileKeeps == ASSUME FInv, BuildTableFile PROVE FInv'
<1>1. /\ flushing.at = "building" /\ disk' = Truncating(flushed) /\ Becomes(Verified(cache, flushed))
      /\ flushing' = [flushing EXCEPT !.at = "built"]
      /\ UNCHANGED <<versions, currentV, nextNumber, pendingOutputs, manifests, bgFailed, merging, readers, run, opened>>
  BY DEF BuildTableFile, versionVars, lifeVars
<1>2. /\ flushing # NotRunning /\ flushing \in FlushStates /\ flushing.n < nextNumber /\ flushed \in Tables
  BY <1>1, FlushIs
<1>3. flushing' \in FlushStates /\ flushing'.at = "built" /\ flushing'.n = flushing.n /\ flushing'.base = flushing.base
  BY <1>1, <1>2 DEF FlushStates
<1>4. flushed' = flushed /\ flushed.n = flushing.n
  BY <1>1, <1>3 DEF flushed
<1>5. disk' = {g \in disk : g.n # flushing.n} \cup {flushed}
  BY <1>1, <1>4 DEF Truncating
<1>6. \A f : Safe(f) => Safe(f)'
  BY <1>1, <1>2, <1>3, <1>5 DEF Safe
<1>7. \A f : Undisturbed(f) => Undisturbed(f)'
  BY <1>1, <1>3, <1>5 DEF Undisturbed
<1>8. Undisturbed(flushed)'
  BY <1>1, <1>2, <1>3, <1>4, <1>5 DEF Undisturbed
<1>9. VersionsOK'
  <2>1. FlushBase' = FlushBase /\ MergeBase' = MergeBase
    BY <1>1, <1>3 DEF FlushBase, MergeBase
  <2>2. QED
    BY <1>1, <2>1, VersionsStay DEF FInv
<1>10. SameFiles(versions', versions)
  BY <1>1, SameOnes
<1>11. HandlesOK' /\ ReadersOK' /\ CachedSafe'
  <2>1. ASSUME NEW t, t = flushed PROVE Undisturbed(t)'
    BY <1>1, <1>2, <1>3, <1>4, <1>5, <2>1 DEF Undisturbed
  <2>2. QED
    BY <1>1, <1>2, <1>7, <1>9, <1>10, <2>1, VerifiedKeeps
<1>12. Outputs' = Outputs
  BY <1>1 DEF Outputs
<1>13. VersionsSafe' /\ ManifestsSafe' /\ OutputsSafe'
  BY <1>1, <1>6, <1>10, <1>12, VersionsStaySafe, ManifestsStaySafe, OutputsStaySafe
<1>14. FlushOK'
  BY <1>1, <1>2, <1>3, <1>4, <1>5 DEF FlushOK, FlushStates
<1>15. BasicsOK'
  BY <1>1, <1>2, <1>5 DEF FInv, BasicsOK
<1>16. MergeOK' /\ ManifestsOK'
  BY <1>1 DEF FInv, MergeOK, ManifestsOK
<1>17. PendingOK'
  BY <1>1, <1>3, <1>12 DEF FInv, PendingOK
<1>18. OpeningOK'
  BY <1>1 DEF FInv, OpeningOK
<1>19. QED
  BY <1>9, <1>11, <1>13, <1>14, <1>15, <1>16, <1>17, <1>18 DEF FInv

\* A flush gives up its base and its pending output.
LEMMA FlushReleases ==
  ASSUME FInv, flushing.at \in {"building", "built"}, versions' = Unref(versions, flushing.base),
         pendingOutputs' = pendingOutputs \ {flushing.n}, flushing'.at \in {"no", "logging"},
         flushing' # NotRunning => flushing'.n = flushing.n,
         (disk' = disk \/ (flushing.at = "building" /\ flushing'.at = "no" /\ disk' = {f \in disk : f.n # flushing.n})),
         UNCHANGED <<currentV, nextNumber, manifests, merging, readers>>, UNCHANGED cacheVars
  PROVE  /\ VersionsOK' /\ SameFiles(versions', versions) /\ HandlesOK' /\ ReadersOK' /\ MergeOK'
         /\ VersionsSafe' /\ ManifestsSafe' /\ OutputsSafe' /\ CachedSafe' /\ PendingOK'
<1>1. flushing # NotRunning /\ flushing \in FlushStates
  BY FlushIs
<1>2. /\ VersionsOK' /\ SameFiles(versions', versions) /\ DOMAIN versions' \subseteq DOMAIN versions
  <2>1. FlushBase = flushing.base /\ FlushBase' = 0 /\ MergeBase' = MergeBase /\ flushing.base # 0
    BY <1>1 DEF FlushBase, MergeBase, FlushStates
  <2>2. Changes(Holds', Holds, <<"flush", 0>>, 0)
    BY <2>1, HoldsChange DEF Holds
  <2>3. Holds[<<"flush", 0>>] = flushing.base /\ <<"flush", 0>> \in Everyone
    BY <2>1, HoldsAre, InEveryone DEF Holds
  <2>4. Counted(versions, Holds)
    BY DEF FInv, VersionsOK
  <2>5. QED
    BY <2>1, <2>2, <2>3, <2>4, UnrefCounts DEF VersionsOK
<1>3. HandlesOK'
  BY HandlesStay DEF FInv
<1>4. ReadersOK'
  BY <1>2, <1>3, ReadersStay, SameOnes
<1>5. \A f : Safe(f) => Safe(f)'
  BY <1>1 DEF Safe, NotRunning
<1>6. \A f : Undisturbed(f) => Undisturbed(f)'
  BY DEF Undisturbed, NotRunning
<1>7. Outputs' = Outputs /\ MergeOK'
  BY DEF Outputs, FInv, MergeOK
<1>8. VersionsSafe' /\ ManifestsSafe' /\ OutputsSafe' /\ CachedSafe'
  BY <1>2, <1>3, <1>5, <1>6, <1>7, VersionsStaySafe, ManifestsStaySafe, OutputsStaySafe, CachedStaySafe, SameOnes
<1>9. PendingOK'
  <2>1. \A f \in Outputs : f.n # flushing.n
    BY <1>1 DEF FInv, OutputsSafe, Safe
  <2>2. pendingOutputs = {f.n : f \in Outputs} \cup {flushing.n}
    BY DEF FInv, PendingOK
  <2>3. pendingOutputs' = {f.n : f \in Outputs}
    BY <2>1, <2>2
  <2>4. QED
    BY <1>7, <2>3 DEF PendingOK
<1>10. QED
  BY <1>2, <1>3, <1>4, <1>7, <1>8, <1>9

LEMMA BuildTableFailsKeeps == ASSUME FInv, BuildTableFails PROVE FInv'
<1>1. /\ flushing.at \in {"building", "built"} /\ bgFailed' = TRUE /\ flushing' = NotRunning
      /\ pendingOutputs' = pendingOutputs \ {flushing.n} /\ versions' = Unref(versions, flushing.base)
      /\ (disk' = disk \/ (flushing.at = "building" /\ disk' = {f \in disk : f.n # flushing.n}))
      /\ UNCHANGED <<currentV, nextNumber, manifests, merging, readers, run, opened>> /\ UNCHANGED cacheVars
  BY DEF BuildTableFails, lifeVars
<1>2. flushing'.at = "no"
  BY <1>1 DEF NotRunning
<1>3. /\ VersionsOK' /\ HandlesOK' /\ ReadersOK' /\ MergeOK'
      /\ VersionsSafe' /\ ManifestsSafe' /\ OutputsSafe' /\ CachedSafe' /\ PendingOK'
  BY <1>1, <1>2, FlushReleases
<1>4. BasicsOK' /\ FlushOK' /\ ManifestsOK' /\ OpeningOK'
  BY <1>1, <1>2 DEF FInv, BasicsOK, FlushOK, ManifestsOK, OpeningOK
<1>5. QED
  BY <1>3, <1>4 DEF FInv

LEMMA FlushLogsKeeps == ASSUME FInv, FlushLogs PROVE FInv'
<1>1. /\ flushing.at = "built" /\ flushing' = [flushing EXCEPT !.at = "logging"]
      /\ pendingOutputs' = pendingOutputs \ {flushing.n} /\ versions' = Unref(versions, flushing.base)
      /\ UNCHANGED <<disk, currentV, nextNumber, bgFailed, manifests, merging, readers, run, opened>> /\ UNCHANGED cacheVars
  BY DEF FlushLogs, lifeVars
<1>2. /\ flushing # NotRunning /\ flushing \in FlushStates /\ flushing.n < nextNumber /\ flushed \in disk
  BY <1>1, FlushIs
<1>3. flushing' \in FlushStates /\ flushing'.at = "logging" /\ flushing'.n = flushing.n
  BY <1>1, <1>2 DEF FlushStates
<1>4. /\ VersionsOK' /\ HandlesOK' /\ ReadersOK' /\ MergeOK' /\ SameFiles(versions', versions)
      /\ VersionsSafe' /\ ManifestsSafe' /\ OutputsSafe' /\ CachedSafe' /\ PendingOK'
  BY <1>1, <1>3, FlushReleases
<1>5. FlushOK'
  <2>1. flushed' = flushed
    BY <1>1, <1>3 DEF flushed
  <2>2. QED
    BY <1>1, <1>2, <1>3, <2>1 DEF FlushOK, FlushStates
<1>6. ManifestsOK'
  <2>1. versions'[currentV'].files = versions[currentV].files
    BY <1>1, <1>4, CurrentStays
  <2>2. QED
    BY <1>1, <2>1 DEF FInv, ManifestsOK
<1>7. BasicsOK' /\ OpeningOK'
  BY <1>1 DEF FInv, BasicsOK, OpeningOK
<1>8. QED
  BY <1>4, <1>5, <1>6, <1>7 DEF FInv

-----------------------------------------------------------------------------
(* What the manifest and a new version name.                               *)

\* A table that is there, whose number is given away.
Kept(f) == f \in disk /\ f.n < nextNumber

LEMMA ManifestKept == ASSUME FInv PROVE \A m \in manifests : \A f \in m.files : Kept(f)
  BY DEF FInv, ManifestsSafe, Safe, Kept

LEMMA VersionKept == ASSUME FInv PROVE \A v \in DOMAIN versions : \A f \in versions[v].files : Kept(f)
  BY DEF FInv, VersionsSafe, Safe, Kept

LEMMA LoggedIs ==
  ASSUME FInv, NEW edit, edit.next = nextNumber, \A f \in edit.add : Kept(f), NEW m \in Logged(edit)
  PROVE  /\ m \in [files : SUBSET Tables, next : Nat \ {0}] /\ m.next = nextNumber
         /\ \A f \in m.files : Kept(f)
         /\ \E k \in manifests : m.files = (k.files \ edit.del) \cup edit.add
<1>1. PICK k \in manifests : m = [files |-> (k.files \ edit.del) \cup edit.add, next |-> nextNumber]
  BY DEF Logged
<1>2. m.files = (k.files \ edit.del) \cup edit.add /\ m.next = nextNumber
  BY <1>1
<1>3. \A f \in m.files : Kept(f)
  BY <1>2, ManifestKept
<1>4. m.files \subseteq Tables /\ nextNumber \in Nat \ {0}
  BY <1>3 DEF Kept, FInv, BasicsOK
<1>5. QED
  BY <1>1, <1>2, <1>3, <1>4

LEMMA ManifestsMove ==
  ASSUME FInv, NEW edit, edit.next = nextNumber, \A f \in edit.add : Kept(f),
         ManifestWritten(edit) \/ ManifestFails(edit), nextNumber' = nextNumber,
         ~bgFailed' => \A m \in manifests' : m.files = versions'[currentV'].files
  PROVE  ManifestsOK' /\ \A m \in manifests' : \A f \in m.files : Kept(f)
<1>1. manifests' \subseteq manifests \cup Logged(edit)
  BY DEF ManifestWritten, ManifestFails
<1>2. ASSUME NEW m \in manifests'
      PROVE  /\ m \in [files : SUBSET Tables, next : Nat \ {0}] /\ m.next <= nextNumber
             /\ \A f \in m.files : f.n < m.next /\ Kept(f)
  <2>1. CASE m \in manifests
    BY <2>1, ManifestKept DEF FInv, ManifestsOK
  <2>2. CASE m \in Logged(edit)
    <3>1. m \in [files : SUBSET Tables, next : Nat \ {0}] /\ m.next = nextNumber /\ \A f \in m.files : Kept(f)
      BY <2>2, LoggedIs
    <3>2. nextNumber \in Nat
      BY DEF FInv, BasicsOK
    <3>3. QED
      BY <3>1, <3>2 DEF Kept
  <2>3. QED
    BY <1>1, <2>1, <2>2
<1>3. QED
  BY <1>2 DEF ManifestsOK

\* After a version is appended or given up, what nobody needs goes.
LEMMA Installs ==
  ASSUME FInv, VersionsOK', SameFiles(versions', versions), NEW pend, DeleteObsoleteFiles(versions', pend),
         readers' = readers, nextNumber' = nextNumber, flushing' = NotRunning,
         currentV' \in DOMAIN versions', \A v \in DOMAIN versions' : \A f \in versions'[v].files : Kept(f),
         Outputs' \subseteq Outputs, \A f \in Outputs' : f.n \in pend,
         \A m \in manifests' : \A f \in m.files : Kept(f),
         ~bgFailed' => \A m \in manifests' : m.files = versions'[currentV'].files
  PROVE  /\ HandlesOK' /\ ReadersOK' /\ VersionsSafe' /\ ManifestsSafe' /\ OutputsSafe' /\ CachedSafe'
         /\ disk' \subseteq disk
<1>1. /\ disk' \subseteq disk /\ (bgFailed' => disk' = disk)
      /\ \A v \in DOMAIN versions' : \A f \in versions'[v].files : f \in disk => f \in disk'
      /\ \A f \in disk : f.n \in pend => f \in disk'
      /\ HandlesOK'
      /\ \A h \in DOMAIN handles \cap DOMAIN handles' : handles'[h].file = handles[h].file
      /\ \A h \in Listed(cache)' : Undisturbed(handles[h].file) /\ handles[h].file \in disk' /\ handles'[h].file = handles[h].file
  BY Collects
<1>2. ReadersOK'
  BY <1>1, ReadersStay
<1>3. \A f \in disk' : Kept(f) => Safe(f)'
  BY DEF Kept, Safe
<1>4. VersionsSafe'
  <2>1. ASSUME NEW v \in DOMAIN versions', NEW f \in versions'[v].files PROVE Safe(f)'
    BY <1>1, <1>3 DEF Kept
  <2>2. QED
    BY <2>1 DEF VersionsSafe
<1>5. ManifestsSafe'
  <2>1. ASSUME NEW m \in manifests', NEW f \in m.files PROVE Safe(f)'
    <3>1. f \in disk'
      BY <1>1 DEF Kept
    <3>2. QED
      BY <1>3, <3>1
  <2>2. QED
    BY <2>1 DEF ManifestsSafe
<1>6. OutputsSafe'
  <2>1. ASSUME NEW f \in Outputs' PROVE Safe(f)'
    <3>1. Kept(f)
      BY DEF FInv, OutputsSafe, Safe, Kept
    <3>2. QED
      BY <1>1, <1>3, <3>1 DEF Kept
  <2>2. QED
    BY <2>1 DEF OutputsSafe
<1>7. CachedSafe'
  <2>1. flushing'.at = "no"
    BY DEF NotRunning
  <2>2. ASSUME NEW h \in Listed(cache)', NEW f, f = handles'[h].file PROVE Undisturbed(f)'
    BY <1>1, <2>1, <2>2 DEF Undisturbed
  <2>3. QED
    BY <2>2 DEF CachedSafe, Undisturbed
<1>8. QED
  BY <1>1, <1>2, <1>4, <1>5, <1>6, <1>7

\* The version that is appended has these tables.
LEMMA Appends ==
  ASSUME FInv, NEW fs \in SUBSET Tables
  PROVE  LET ws == AppendVersion(versions, fs)
             n == NewVersion(versions)
         IN  /\ Counted(ws, HoldsOf(n, FlushBase, MergeBase, readers))
             /\ n \in DOMAIN ws /\ n # 0 /\ n \in Nat /\ ws[n].files = fs
             /\ DOMAIN ws \subseteq DOMAIN versions \cup {n}
             /\ SameFiles(ws, versions)
             /\ \A v \in DOMAIN ws : v # n => ws[v].files = versions[v].files /\ v \in DOMAIN versions
<1> DEFINE ws == AppendVersion(versions, fs)
           n == NewVersion(versions)
           new == HoldsOf(n, FlushBase, MergeBase, readers)
<1>1. Counted(versions, Holds) /\ currentV # 0 /\ Holds[<<"current", 0>>] = currentV
  BY HoldsAre, InUse DEF FInv, VersionsOK, Holds
<1>2. Changes(new, Holds, <<"current", 0>>, n)
  BY HoldsChange DEF Holds
<1>3. /\ Counted(ws, new) /\ n \in DOMAIN ws /\ n \notin DOMAIN versions /\ ws[n].files = fs
      /\ DOMAIN ws \subseteq DOMAIN versions \cup {n} /\ SameFiles(ws, versions)
  <2> HIDE DEF new
  <2>1. QED
    BY <1>1, <1>2, AppendCounts
<1>4. n # 0 /\ n \in Nat
  BY <1>3 DEF Counted
<1> HIDE DEF ws, n
<1>5. \A v \in DOMAIN ws : v # n => ws[v].files = versions[v].files /\ v \in DOMAIN versions
  BY <1>3 DEF SameFiles
<1>6. QED
  BY <1>3, <1>4, <1>5 DEF ws, n

LEMMA FlushLoggedKeeps == ASSUME FInv, FlushLogged PROVE FInv'
<1> DEFINE now == versions[currentV].files \cup {flushed}
           n == NewVersion(versions)
<1>1. /\ flushing.at = "logging" /\ ManifestWritten(FlushEdit) /\ bgFailed' = bgFailed
      /\ versions' = AppendVersion(versions, now) /\ currentV' = n
      /\ DeleteObsoleteFiles(versions', pendingOutputs) /\ flushing' = NotRunning
      /\ UNCHANGED <<nextNumber, pendingOutputs, merging, readers, run, opened>>
  BY DEF FlushLogged, lifeVars
<1>2. /\ flushing # NotRunning /\ flushing.n < nextNumber /\ flushed \in Tables /\ flushed \in disk /\ flushed.n = flushing.n
  BY <1>1, FlushIs DEF flushed
<1>3. Kept(flushed) /\ now \in SUBSET Tables /\ currentV \in DOMAIN versions /\ \A f \in now : Kept(f)
  BY <1>2, InUse, VersionKept DEF Kept
<1>4. /\ Counted(versions', HoldsOf(n, FlushBase, MergeBase, readers))
      /\ n \in DOMAIN versions' /\ n # 0 /\ n \in Nat /\ versions'[n].files = now
      /\ SameFiles(versions', versions)
      /\ \A v \in DOMAIN versions' : v # n => versions'[v].files = versions[v].files /\ v \in DOMAIN versions
  <2> HIDE DEF now
  <2>1. QED
    BY <1>1, <1>3, Appends
<1>5. VersionsOK'
  <2>1. FlushBase' = 0 /\ FlushBase = 0 /\ MergeBase' = MergeBase
    BY <1>1 DEF FlushBase, MergeBase, NotRunning
  <2>2. Holds' = HoldsOf(n, FlushBase, MergeBase, readers)
    BY <1>1, <2>1 DEF Holds
  <2>3. QED
    BY <1>4, <2>2 DEF VersionsOK
<1> HIDE DEF n
<1>6. \A v \in DOMAIN versions' : \A f \in versions'[v].files : Kept(f)
  <2> HIDE DEF now
  <2>1. QED
    BY <1>3, <1>4, VersionKept
<1>7. FlushEdit.next = nextNumber /\ FlushEdit.add = {flushed} /\ FlushEdit.del = {}
  BY DEF FlushEdit
<1>8. ~bgFailed' => \A m \in manifests' : m.files = versions'[currentV'].files
  <2>1. SUFFICES ASSUME ~bgFailed, NEW m \in manifests' PROVE m.files = now
    BY <1>1, <1>4
  <2>2. PICK k \in manifests : m.files = (k.files \ FlushEdit.del) \cup FlushEdit.add
    BY <1>1, <1>3, <1>7, LoggedIs DEF ManifestWritten
  <2>3. k.files = versions[currentV].files
    BY <2>1 DEF FInv, ManifestsOK
  <2>4. QED
    BY <1>7, <2>2, <2>3
<1>9. ManifestsOK' /\ \A m \in manifests' : \A f \in m.files : Kept(f)
  BY <1>1, <1>3, <1>7, <1>8, ManifestsMove
<1>10. Outputs' = Outputs /\ \A f \in Outputs : f.n \in pendingOutputs
  BY <1>1 DEF Outputs, FInv, PendingOK
<1>11. /\ HandlesOK' /\ ReadersOK' /\ VersionsSafe' /\ ManifestsSafe' /\ OutputsSafe' /\ CachedSafe'
       /\ disk' \subseteq disk
  BY <1>1, <1>4, <1>5, <1>6, <1>8, <1>9, <1>10, Installs
<1>12. BasicsOK'
  BY <1>1, <1>4, <1>11 DEF FInv, BasicsOK
<1>13. FlushOK' /\ MergeOK'
  BY <1>1 DEF FInv, FlushOK, MergeOK
<1>14. PendingOK' /\ OpeningOK'
  BY <1>1, <1>10 DEF FInv, PendingOK, OpeningOK, NotRunning
<1>15. QED
  BY <1>5, <1>9, <1>11, <1>12, <1>13, <1>14 DEF FInv

LEMMA FlushLogFailsKeeps == ASSUME FInv, FlushLogFails PROVE FInv'
<1>1. /\ flushing.at = "logging" /\ ManifestFails(FlushEdit) /\ bgFailed' = TRUE /\ flushing' = NotRunning
      /\ UNCHANGED <<disk, versions, currentV, nextNumber, pendingOutputs, merging, readers, run, opened>>
      /\ UNCHANGED cacheVars
  BY DEF FlushLogFails, lifeVars, versionVars
<1>2. /\ flushing # NotRunning /\ flushing.n < nextNumber /\ flushed \in disk /\ flushed.n = flushing.n
      /\ flushing'.at = "no"
  BY <1>1, FlushIs DEF flushed, NotRunning
<1>3. FlushEdit.next = nextNumber /\ FlushEdit.add = {flushed} /\ Kept(flushed)
  BY <1>2 DEF FlushEdit, Kept
<1>4. ManifestsOK' /\ \A m \in manifests' : \A f \in m.files : Kept(f)
  BY <1>1, <1>3, ManifestsMove
<1>5. \A f : Safe(f) => Safe(f)'
  BY <1>1 DEF Safe
<1>6. \A f : Undisturbed(f) => Undisturbed(f)'
  BY <1>1, <1>2 DEF Undisturbed
<1>7. \A f : Kept(f) => Safe(f)'
  BY <1>1 DEF Safe, Kept
<1>8. ManifestsSafe'
  BY <1>4, <1>7 DEF ManifestsSafe
<1>9. VersionsOK'
  <2>1. FlushBase' = FlushBase /\ MergeBase' = MergeBase
    BY <1>1, <1>2 DEF FlushBase, MergeBase
  <2>2. QED
    BY <1>1, <2>1, VersionsStay DEF FInv
<1>10. HandlesOK'
  BY <1>1, HandlesStay DEF FInv
<1>11. ReadersOK'
  BY <1>1, <1>9, <1>10, ReadersStay, SameOnes
<1>12. Outputs' = Outputs
  BY <1>1 DEF Outputs
<1>13. VersionsSafe' /\ OutputsSafe' /\ CachedSafe'
  BY <1>1, <1>5, <1>6, <1>10, <1>12, VersionsStaySafe, OutputsStaySafe, CachedStaySafe, SameOnes
<1>14. BasicsOK' /\ FlushOK' /\ MergeOK' /\ OpeningOK'
  BY <1>1, <1>2 DEF FInv, BasicsOK, FlushOK, MergeOK, OpeningOK
<1>15. PendingOK'
  BY <1>1, <1>2, <1>12 DEF FInv, PendingOK
<1>16. QED
  BY <1>4, <1>8, <1>9, <1>10, <1>11, <1>13, <1>14, <1>15 DEF FInv

-----------------------------------------------------------------------------
(* Compactions.                                                            *)

\* The record of a compaction that is under way.
MergeStates == [at : {"reading", "writing", "logging"}, in : SUBSET Tables, out : SUBSET Tables, base : Nat \ {0}]

LEMMA MergeIs ==
  ASSUME FInv, merging # NotRunning
  PROVE  /\ merging \in MergeStates /\ merging.at # "no" /\ Outputs = merging.out /\ MergeBase = merging.base
         /\ merging.at = "writing" => merging.out # {}
<1>1. merging \in MergeStates /\ (merging.at = "writing" => merging.out # {})
  BY DEF FInv, MergeOK, MergeStates
<1>2. merging.at # "no"
  BY <1>1 DEF MergeStates
<1>3. QED
  BY <1>1, <1>2 DEF Outputs, MergeBase

LEMMA OutputsPending == ASSUME FInv PROVE \A f \in Outputs : f.n \in pendingOutputs /\ Kept(f)
  BY DEF FInv, PendingOK, OutputsSafe, Safe, Kept

LEMMA StartMergeKeeps ==
  ASSUME FInv, NEW in \in SUBSET versions[currentV].files, StartMerge(in)
  PROVE  FInv'
<1>1. /\ flushing = NotRunning /\ merging = NotRunning
      /\ merging' = [at |-> "reading", in |-> in, out |-> {}, base |-> currentV]
      /\ versions' = Ref(versions, currentV)
      /\ UNCHANGED <<disk, currentV, nextNumber, pendingOutputs, manifests, bgFailed, flushing, readers, run, opened>>
      /\ UNCHANGED cacheVars
  BY DEF StartMerge, lifeVars
<1>2. currentV \in Nat \ {0} /\ currentV \in DOMAIN versions /\ in \in SUBSET Tables
  BY InUse DEF FInv, BasicsOK
<1>3. merging' \in MergeStates /\ merging'.base = currentV /\ merging'.out = {} /\ merging' # NotRunning /\ merging'.at = "reading"
  <2>1. merging' \in MergeStates /\ merging'.base = currentV /\ merging'.out = {} /\ merging'.at = "reading"
    BY <1>1, <1>2 DEF MergeStates
  <2>2. merging' # NotRunning
    BY <2>1 DEF NotRunning
  <2>3. QED
    BY <2>1, <2>2
<1>4. Outputs = {} /\ Outputs' = {}
  BY <1>1, <1>3 DEF Outputs
<1>5. VersionsOK' /\ DOMAIN versions' = DOMAIN versions /\ SameFiles(versions', versions)
  <2>1. FlushBase' = FlushBase /\ MergeBase = 0 /\ MergeBase' = currentV
    BY <1>1, <1>3 DEF FlushBase, MergeBase
  <2>2. Changes(Holds', Holds, <<"merge", 0>>, currentV)
    BY <1>1, <2>1, HoldsChange DEF Holds
  <2>3. Holds[<<"merge", 0>>] = 0 /\ <<"merge", 0>> \in Everyone
    BY <2>1, HoldsAre, InEveryone DEF Holds
  <2>4. Counted(versions, Holds)
    BY DEF FInv, VersionsOK
  <2>5. QED
    BY <1>1, <1>2, <2>2, <2>3, <2>4, RefCounts DEF VersionsOK
<1>6. HandlesOK'
  BY <1>1, HandlesStay DEF FInv
<1>7. ReadersOK'
  BY <1>1, <1>5, <1>6, ReadersStay, SameOnes
<1>8. (\A f : Safe(f) => Safe(f)') /\ (\A f : Undisturbed(f) => Undisturbed(f)')
  BY <1>1 DEF Safe, Undisturbed
<1>9. VersionsSafe' /\ ManifestsSafe' /\ OutputsSafe' /\ CachedSafe'
  BY <1>1, <1>4, <1>5, <1>6, <1>8, VersionsStaySafe, ManifestsStaySafe, OutputsStaySafe, CachedStaySafe, SameOnes
<1>10. ManifestsOK'
  <2>1. versions'[currentV'].files = versions[currentV].files
    BY <1>1, <1>5, CurrentStays
  <2>2. QED
    BY <1>1, <2>1 DEF FInv, ManifestsOK
<1>11. MergeOK'
  BY <1>3 DEF MergeOK, MergeStates
<1>12. BasicsOK' /\ FlushOK' /\ OpeningOK'
  BY <1>1 DEF FInv, BasicsOK, FlushOK, OpeningOK
<1>13. PendingOK'
  BY <1>1, <1>4 DEF FInv, PendingOK
<1>14. QED
  BY <1>5, <1>6, <1>7, <1>9, <1>10, <1>11, <1>12, <1>13 DEF FInv

LEMMA OpenOutputKeeps == ASSUME FInv, OpenOutput PROVE FInv'
<1> DEFINE new == [n |-> nextNumber, run |-> run]
<1>1. /\ merging.at = "reading" /\ flushing = NotRunning /\ nextNumber <= MaxNumber /\ nextNumber' = nextNumber + 1
      /\ pendingOutputs' = pendingOutputs \cup {nextNumber} /\ disk' = Truncating(new)
      /\ merging' = [merging EXCEPT !.at = "writing", !.out = @ \cup {new}]
      /\ UNCHANGED <<versions, currentV, manifests, bgFailed, flushing, readers, run, opened>> /\ UNCHANGED cacheVars
  BY DEF OpenOutput, MergeRuns, versionVars, lifeVars
<1>2. merging # NotRunning /\ merging \in MergeStates /\ Outputs = merging.out
  <2>1. merging # NotRunning
    BY <1>1 DEF NotRunning
  <2>2. QED
    BY <2>1, MergeIs
<1>3. nextNumber \in 1..MaxNumber /\ new \in Tables /\ new.n = nextNumber
  BY <1>1, FilesAssumption DEF FInv, BasicsOK, Tables
<1> HIDE DEF new
<1>4. disk' = {g \in disk : g.n # nextNumber} \cup {new}
  BY <1>1, <1>3 DEF Truncating
<1>5. /\ merging' \in MergeStates /\ merging'.at = "writing" /\ merging'.out = merging.out \cup {new}
      /\ merging'.base = merging.base /\ merging' # NotRunning
  <2>1. /\ merging' \in MergeStates /\ merging'.at = "writing" /\ merging'.out = merging.out \cup {new}
        /\ merging'.base = merging.base
    BY <1>1, <1>2, <1>3 DEF MergeStates
  <2>2. QED
    BY <2>1 DEF NotRunning
<1>6. Outputs' = Outputs \cup {new}
  BY <1>2, <1>5 DEF Outputs
<1>7. \A f : Safe(f) => Safe(f)'
  BY <1>1, <1>3, <1>4, NumbersAre DEF Safe
<1>8. \A f : Undisturbed(f) => Undisturbed(f)'
  BY <1>1, <1>3, <1>4, NumbersAre DEF Undisturbed
<1>9. \A f : f = new => Safe(f)'
  BY <1>1, <1>3, <1>4 DEF Safe
<1>10. VersionsOK'
  <2>1. FlushBase' = FlushBase /\ MergeBase' = MergeBase
    BY <1>1, <1>2, <1>5 DEF FlushBase, MergeBase
  <2>2. QED
    BY <1>1, <2>1, VersionsStay DEF FInv
<1>11. HandlesOK'
  BY <1>1, HandlesStay DEF FInv
<1>12. ReadersOK'
  BY <1>1, <1>10, <1>11, ReadersStay, SameOnes
<1>13. VersionsSafe' /\ ManifestsSafe' /\ CachedSafe'
  BY <1>1, <1>7, <1>8, <1>11, VersionsStaySafe, ManifestsStaySafe, CachedStaySafe, SameOnes
<1>14. OutputsSafe'
  <2>1. ASSUME NEW f \in Outputs' PROVE Safe(f)'
    BY <1>6, <1>7, <1>9 DEF FInv, OutputsSafe
  <2>2. QED
    BY <2>1 DEF OutputsSafe
<1>15. ManifestsOK'
  <2>1. \A m \in manifests : m.next \in Nat
    BY DEF FInv, ManifestsOK
  <2>2. QED
    BY <1>1, <1>3, <2>1 DEF FInv, ManifestsOK
<1>16. PendingOK'
  <2>1. pendingOutputs = {f.n : f \in Outputs}
    BY <1>1 DEF FInv, PendingOK, NotRunning
  <2>2. pendingOutputs' = {f.n : f \in Outputs'}
    BY <1>1, <1>3, <1>6, <2>1
  <2>3. QED
    BY <1>1, <2>2 DEF PendingOK, NotRunning
<1>17. BasicsOK'
  BY <1>1, <1>3, <1>4 DEF FInv, BasicsOK
<1>18. FlushOK' /\ OpeningOK'
  BY <1>1 DEF FInv, FlushOK, OpeningOK
<1>19. MergeOK'
  BY <1>5 DEF MergeOK, MergeStates
<1>20. QED
  BY <1>10, <1>11, <1>12, <1>13, <1>14, <1>15, <1>16, <1>17, <1>18, <1>19 DEF FInv

LEMMA NewestIs == ASSUME NEW F \in SUBSET Tables, F # {} PROVE Newest(F) \in F
<1> DEFINE S == {MaxNumber - f.n : f \in F}
<1>1. \A f \in F : f.n \in 1..MaxNumber
  BY DEF Tables
<1>2. MaxNumber \in Nat
  BY FilesAssumption
<1>3. S \in SUBSET Nat /\ S # {}
  BY <1>1, <1>2
<1>4. PICK m \in S : \A k \in S : m <= k
  <2> HIDE DEF S
  <2>1. QED
    BY <1>3, LeastOfNaturals
<1>5. PICK f \in F : m = MaxNumber - f.n
  BY <1>4
<1>6. ASSUME NEW g \in F PROVE g.n <= f.n
  <2>1. m <= MaxNumber - g.n
    BY <1>4
  <2>2. g.n \in 1..MaxNumber /\ f.n \in 1..MaxNumber
    BY <1>1
  <2>3. QED
    BY <1>2, <1>5, <2>1, <2>2
<1>7. QED
  BY <1>6 DEF Newest

\* A compaction goes on.
LEMMA MergeGoesOn ==
  ASSUME FInv, merging # NotRunning, NEW x \in {"reading", "logging"}, merging' = [merging EXCEPT !.at = x],
         UNCHANGED <<disk, versions, currentV, nextNumber, pendingOutputs, manifests, bgFailed, flushing, readers, run, opened>>,
         HandlesOK', ReadersOK', CachedSafe'
  PROVE  FInv'
<1>1. merging \in MergeStates /\ Outputs = merging.out
  BY MergeIs
<1>2. /\ merging' \in MergeStates /\ merging'.at = x /\ merging'.out = merging.out /\ merging'.base = merging.base
      /\ merging' # NotRunning
  <2>1. merging' \in MergeStates /\ merging'.at = x /\ merging'.out = merging.out /\ merging'.base = merging.base
    BY <1>1 DEF MergeStates
  <2>2. QED
    BY <2>1 DEF NotRunning
<1>3. Outputs' = Outputs /\ MergeBase' = MergeBase /\ FlushBase' = FlushBase
  BY <1>1, <1>2 DEF Outputs, MergeBase, FlushBase
<1>4. VersionsOK'
  BY <1>3, VersionsStay DEF FInv
<1>5. \A f : Safe(f) => Safe(f)'
  BY DEF Safe
<1>6. VersionsSafe' /\ ManifestsSafe' /\ OutputsSafe'
  BY <1>3, <1>5, VersionsStaySafe, ManifestsStaySafe, OutputsStaySafe, SameOnes
<1>7. BasicsOK' /\ FlushOK' /\ ManifestsOK' /\ OpeningOK'
  <2>1. flushed' = flushed
    BY DEF flushed
  <2>2. QED
    BY <2>1 DEF FInv, BasicsOK, FlushOK, ManifestsOK, OpeningOK
<1>8. MergeOK' /\ PendingOK'
  BY <1>2, <1>3 DEF FInv, MergeOK, MergeStates, PendingOK
<1>9. QED
  BY <1>4, <1>6, <1>7, <1>8 DEF FInv

LEMMA FinishOutputKeeps == ASSUME FInv, FinishOutput PROVE FInv'
<1>1. /\ merging.at = "writing" /\ flushing = NotRunning /\ merging' = [merging EXCEPT !.at = "reading"]
      /\ Becomes(Verified(cache, Newest(merging.out)))
      /\ UNCHANGED <<disk, versions, currentV, nextNumber, pendingOutputs, manifests, bgFailed, flushing, readers, run, opened>>
  BY DEF FinishOutput, MergeRuns, versionVars, lifeVars
<1>2. merging # NotRunning
  BY <1>1 DEF NotRunning
<1>3. merging \in MergeStates /\ Outputs = merging.out /\ merging.out # {}
  BY <1>1, <1>2, MergeIs
<1>4. Newest(merging.out) \in Outputs /\ Newest(merging.out) \in Tables
  BY <1>3, NewestIs DEF MergeStates
<1>5. \A f : (Undisturbed(f) => Undisturbed(f)') /\ (Safe(f) => Undisturbed(f)')
  BY <1>1 DEF Undisturbed, Safe, NotRunning
<1>6. ASSUME NEW t, t = Newest(merging.out) PROVE Undisturbed(t)'
  BY <1>4, <1>5, <1>6 DEF FInv, OutputsSafe
<1>7. VersionsOK'
  <2>1. merging'.base = merging.base /\ merging' # NotRunning
    <3>1. merging'.at = "reading" /\ merging'.base = merging.base
      BY <1>1, <1>3 DEF MergeStates
    <3>2. QED
      BY <3>1 DEF NotRunning
  <2>2. FlushBase' = FlushBase /\ MergeBase' = MergeBase
    BY <1>1, <1>2, <2>1 DEF FlushBase, MergeBase
  <2>3. QED
    BY <1>1, <2>2, VersionsStay DEF FInv
<1>8. HandlesOK' /\ ReadersOK' /\ CachedSafe'
  BY <1>1, <1>4, <1>5, <1>6, <1>7, VerifiedKeeps, SameOnes
<1>9. QED
  BY <1>1, <1>2, <1>8, MergeGoesOn

LEMMA MergeLogsKeeps == ASSUME FInv, MergeLogs PROVE FInv'
<1>1. /\ merging.at = "reading" /\ merging' = [merging EXCEPT !.at = "logging"]
      /\ UNCHANGED <<disk, versions, currentV, nextNumber, pendingOutputs, manifests, bgFailed, flushing, readers, run, opened>>
      /\ UNCHANGED cacheVars
  BY DEF MergeLogs, MergeRuns, versionVars, lifeVars
<1>2. merging # NotRunning
  BY <1>1 DEF NotRunning
<1>3. HandlesOK'
  BY <1>1, HandlesStay DEF FInv
<1>4. ReadersOK'
  BY <1>1 DEF FInv, ReadersOK, ReaderOK, cacheVars
<1>5. CachedSafe'
  <2>1. \A f : Undisturbed(f) => Undisturbed(f)'
    BY <1>1 DEF Undisturbed
  <2>2. QED
    BY <1>1, <1>3, <2>1, CachedStaySafe, SameOnes
<1>6. QED
  BY <1>1, <1>2, <1>3, <1>4, <1>5, MergeGoesOn

\* A compaction gives up its base and its outputs.
LEMMA MergeReleases ==
  ASSUME FInv, merging # NotRunning, NEW vs, NEW cv, cv # 0, Counted(vs, HoldsOf(cv, FlushBase, MergeBase, readers))
  PROVE  LET ws == Unref(vs, merging.base)
         IN  /\ Counted(ws, HoldsOf(cv, FlushBase, 0, readers)) /\ cv \in DOMAIN ws
             /\ DOMAIN ws \subseteq DOMAIN vs /\ \A v \in DOMAIN ws : ws[v].files = vs[v].files
<1> DEFINE old == HoldsOf(cv, FlushBase, MergeBase, readers)
           new == HoldsOf(cv, FlushBase, 0, readers)
           ws == Unref(vs, merging.base)
<1>1. MergeBase = merging.base /\ merging.base # 0
  BY MergeIs DEF MergeStates
<1>2. Changes(new, old, <<"merge", 0>>, 0) /\ old[<<"merge", 0>>] = merging.base /\ <<"merge", 0>> \in Everyone
  BY <1>1, HoldsChange, HoldsAre, InEveryone
<1>3. Counted(ws, new) /\ DOMAIN ws \subseteq DOMAIN vs /\ SameFiles(ws, vs)
  <2> HIDE DEF old, new
  <2>1. Counted(vs, old)
    BY DEF old
  <2>2. QED
    BY <1>1, <1>2, <2>1, UnrefCounts
<1>4. cv \in DOMAIN ws
  <2>1. cv \in DOMAIN ws \cup {0}
    <3> HIDE DEF ws
    <3>1. QED
      BY <1>3, HeldIsThere
  <2>2. QED
    BY <2>1
<1>5. \A v \in DOMAIN ws : ws[v].files = vs[v].files
  <2> HIDE DEF ws
  <2>1. QED
    BY <1>3 DEF SameFiles
<1>6. QED
  BY <1>3, <1>4, <1>5

\* CleanupCompaction, and what goes then.
LEMMA Cleans ==
  ASSUME FInv, merging # NotRunning, flushing = NotRunning, merging' = NotRunning,
         UNCHANGED <<nextNumber, flushing, readers, run, opened>>, currentV' \in Nat \ {0},
         pendingOutputs' = pendingOutputs \ {f.n : f \in merging.out},
         Counted(versions', HoldsOf(currentV', FlushBase, 0, readers)), currentV' \in DOMAIN versions',
         SameFiles(versions', versions), \A v \in DOMAIN versions' : \A f \in versions'[v].files : Kept(f),
         DeleteObsoleteFiles(versions', pendingOutputs'), bgFailed' \in BOOLEAN,
         ManifestWritten(MergeEdit) \/ ManifestFails(MergeEdit),
         ~bgFailed' => \A m \in manifests' : m.files = versions'[currentV'].files
  PROVE  FInv'
<1>1. merging \in MergeStates /\ Outputs = merging.out
  BY MergeIs
<1>2. VersionsOK'
  <2>1. FlushBase' = FlushBase /\ MergeBase' = 0
    BY DEF FlushBase, MergeBase
  <2>2. Holds' = HoldsOf(currentV', FlushBase, 0, readers)
    BY <2>1 DEF Holds
  <2>3. QED
    BY <2>2 DEF VersionsOK
<1>3. MergeEdit.next = nextNumber /\ MergeEdit.add = merging.out
  BY DEF MergeEdit
<1>4. \A f \in MergeEdit.add : Kept(f)
  BY <1>1, <1>3, OutputsPending
<1>5. ManifestsOK' /\ \A m \in manifests' : \A f \in m.files : Kept(f)
  BY <1>3, <1>4, ManifestsMove
<1>6. Outputs' = {}
  BY DEF Outputs
<1>7. /\ HandlesOK' /\ ReadersOK' /\ VersionsSafe' /\ ManifestsSafe' /\ OutputsSafe' /\ CachedSafe'
      /\ disk' \subseteq disk
  <2>1. Outputs' \subseteq Outputs /\ flushing' = NotRunning /\ \A f \in Outputs' : f.n \in pendingOutputs'
    BY <1>6
  <2>2. QED
    BY <1>2, <1>5, <2>1, Installs
<1>8. BasicsOK'
  BY <1>7 DEF FInv, BasicsOK
<1>9. FlushOK' /\ MergeOK' /\ OpeningOK'
  BY DEF FInv, FlushOK, MergeOK, OpeningOK
<1>10. PendingOK'
  <2>1. pendingOutputs = {f.n : f \in Outputs}
    BY DEF FInv, PendingOK, NotRunning
  <2>2. pendingOutputs' = {}
    BY <1>1, <2>1
  <2>3. flushing'.at = "no"
    BY DEF NotRunning
  <2>4. QED
    BY <1>6, <2>2, <2>3 DEF PendingOK
<1>11. QED
  BY <1>2, <1>5, <1>7, <1>8, <1>9, <1>10 DEF FInv

LEMMA MergeLoggedKeeps == ASSUME FInv, MergeLogged PROVE FInv'
<1> DEFINE now == (versions[currentV].files \ merging.in) \cup merging.out
           n == NewVersion(versions)
           vs == AppendVersion(versions, now)
<1>1. /\ merging.at = "logging" /\ flushing = NotRunning /\ ManifestWritten(MergeEdit) /\ bgFailed' = bgFailed
      /\ currentV' = n /\ versions' = Unref(vs, merging.base) /\ merging' = NotRunning
      /\ pendingOutputs' = pendingOutputs \ {f.n : f \in merging.out}
      /\ DeleteObsoleteFiles(versions', pendingOutputs')
      /\ UNCHANGED <<nextNumber, flushing, readers, run, opened>>
  BY DEF MergeLogged, MergeRuns, Cleanup, lifeVars
<1>2. merging # NotRunning
  BY <1>1 DEF NotRunning
<1>3. merging \in MergeStates /\ Outputs = merging.out
  BY <1>2, MergeIs
<1>4. now \in SUBSET Tables /\ currentV \in DOMAIN versions /\ \A f \in now : Kept(f)
  <2>1. merging.out \subseteq Tables /\ \A f \in merging.out : Kept(f)
    BY <1>3, OutputsPending DEF MergeStates
  <2>2. currentV \in DOMAIN versions /\ versions[currentV].files \subseteq Tables
    BY InUse
  <2>3. QED
    BY <2>1, <2>2, VersionKept
<1>5. /\ Counted(vs, HoldsOf(n, FlushBase, MergeBase, readers))
      /\ n # 0 /\ n \in Nat /\ vs[n].files = now /\ SameFiles(vs, versions)
      /\ \A v \in DOMAIN vs : v # n => vs[v].files = versions[v].files /\ v \in DOMAIN versions
  <2> HIDE DEF now
  <2>1. QED
    BY <1>4, Appends
<1> HIDE DEF vs, n
<1>6. /\ Counted(versions', HoldsOf(n, FlushBase, 0, readers)) /\ n \in DOMAIN versions'
      /\ DOMAIN versions' \subseteq DOMAIN vs /\ \A v \in DOMAIN versions' : versions'[v].files = vs[v].files
  BY <1>1, <1>2, <1>5, MergeReleases
<1>7. SameFiles(versions', versions)
  BY <1>5, <1>6 DEF SameFiles
<1>8. versions'[n].files = now
  BY <1>5, <1>6
<1>9. \A v \in DOMAIN versions' : \A f \in versions'[v].files : Kept(f)
  <2> HIDE DEF now
  <2>1. ASSUME NEW v \in DOMAIN versions', NEW f \in versions'[v].files PROVE Kept(f)
    <3>1. v \in DOMAIN vs /\ versions'[v].files = vs[v].files
      BY <1>6
    <3>2. CASE v = n
      BY <1>4, <1>8, <3>2
    <3>3. CASE v # n
      BY <1>5, <3>1, <3>3, VersionKept
    <3>4. QED
      BY <3>2, <3>3
  <2>2. QED
    BY <2>1
<1>10. ~bgFailed' => \A m \in manifests' : m.files = versions'[currentV'].files
  <2>1. SUFFICES ASSUME ~bgFailed, NEW m \in manifests' PROVE m.files = now
    BY <1>1, <1>8
  <2>2. MergeEdit.next = nextNumber /\ MergeEdit.add = merging.out /\ MergeEdit.del = merging.in
    BY DEF MergeEdit
  <2>3. \A f \in MergeEdit.add : Kept(f)
    BY <1>3, <2>2, OutputsPending
  <2>4. PICK k \in manifests : m.files = (k.files \ MergeEdit.del) \cup MergeEdit.add
    BY <1>1, <2>2, <2>3, LoggedIs DEF ManifestWritten
  <2>5. k.files = versions[currentV].files
    BY <2>1 DEF FInv, ManifestsOK
  <2>6. QED
    BY <2>2, <2>4, <2>5
<1>11. bgFailed' \in BOOLEAN /\ currentV' \in Nat \ {0}
  BY <1>1, <1>5 DEF FInv, BasicsOK
<1>12. QED
  BY <1>1, <1>2, <1>6, <1>7, <1>9, <1>10, <1>11, Cleans

LEMMA MergeFailsKeeps == ASSUME FInv, MergeFails PROVE FInv'
<1>1. /\ merging # NotRunning /\ flushing = NotRunning /\ bgFailed' = TRUE
      /\ ManifestFails(MergeEdit)
      /\ versions' = Unref(versions, merging.base) /\ merging' = NotRunning
      /\ pendingOutputs' = pendingOutputs \ {f.n : f \in merging.out}
      /\ DeleteObsoleteFiles(versions', pendingOutputs')
      /\ UNCHANGED <<currentV, nextNumber, flushing, readers, run, opened>>
  BY DEF MergeFails, ManifestFails, Cleanup, lifeVars
<1>2. Counted(versions, HoldsOf(currentV, FlushBase, MergeBase, readers)) /\ currentV \in Nat \ {0}
  BY DEF FInv, VersionsOK, Holds, BasicsOK
<1>3. /\ Counted(versions', HoldsOf(currentV, FlushBase, 0, readers)) /\ currentV \in DOMAIN versions'
      /\ DOMAIN versions' \subseteq DOMAIN versions /\ \A v \in DOMAIN versions' : versions'[v].files = versions[v].files
  BY <1>1, <1>2, MergeReleases
<1>4. SameFiles(versions', versions) /\ \A v \in DOMAIN versions' : \A f \in versions'[v].files : Kept(f)
  BY <1>3, VersionKept DEF SameFiles
<1>5. QED
  BY <1>1, <1>2, <1>3, <1>4, Cleans

-----------------------------------------------------------------------------
(* Death, DB::Open, and the beginning.                                     *)

LEMMA FreshHolders ==
  ASSUME NEW fs \in SUBSET Tables
  PROVE  Counted([v \in {1} |-> [files |-> fs, refs |-> 1]], HoldsOf(1, 0, 0, [r \in Readers |-> NoReader]))
<1> DEFINE vs == [v \in {1} |-> [files |-> fs, refs |-> 1]]
           rd == [r \in Readers |-> NoReader]
           holds == HoldsOf(1, 0, 0, rd)
<1>1. \A e \in Everyone : holds[e] = IF e = <<"current", 0>> THEN 1 ELSE 0
  BY DEF HoldsOf, Everyone, NoReader
<1>2. <<"current", 0>> \in Everyone
  BY InEveryone
<1> HIDE DEF holds
<1>3. Sharers(holds, 1) = {<<"current", 0>>}
  BY <1>1, <1>2 DEF Sharers
<1>4. Cardinality(Sharers(holds, 1)) = 1
  BY <1>3, FS_Singleton
<1>5. DOMAIN vs = {1} /\ vs[1] = [files |-> fs, refs |-> 1] /\ vs[1].refs = 1
  OBVIOUS
<1>6. vs \in [DOMAIN vs -> [files : SUBSET Tables, refs : Nat \ {0}]]
  OBVIOUS
<1>7. IsFiniteSet({1})
  BY FS_Singleton
<1> HIDE DEF vs
<1>8. Counted(vs, holds)
  BY <1>1, <1>4, <1>5, <1>6, <1>7 DEF Counted
<1>9. QED
  BY <1>8 DEF vs, holds

LEMMA FreshCache ==
  ASSUME NEW c, c.lru = <<>>, c.handles = [h \in {} |-> NoReader]
  PROVE  CacheOK(c, UsesOf([r \in Readers |-> NoReader])) /\ Listed(c) = {}
<1> DEFINE uses == UsesOf([r \in Readers |-> NoReader])
<1>1. \A e \in Everyone : uses[e] = 0
  BY DEF UsesOf, Everyone, NoReader
<1>2. Listed(c) = {} /\ c.lru \in Seq(Nat)
  BY DEF Listed
<1>3. DOMAIN c.handles = {} /\ IsFiniteSet({}) /\ c.handles \in [DOMAIN c.handles -> [file : Tables, refs : Nat \ {0}]]
  BY FS_EmptySet
<1> HIDE DEF uses
<1>4. QED
  BY <1>1, <1>2, <1>3 DEF CacheOK, Referenced, Single, Slim, uses

\* The state of a process that begins with what one manifest says.
Fresh ==
    /\ BasicsOK /\ currentV = 1 /\ flushing = NotRunning /\ merging = NotRunning
    /\ \E m \in [files : SUBSET Tables, next : Nat \ {0}] :
        /\ manifests = {m} /\ m.next <= nextNumber /\ \A f \in m.files : f \in disk /\ f.n < m.next
        /\ versions = [v \in {1} |-> [files |-> m.files, refs |-> 1]]
    /\ pendingOutputs = {} /\ readers = [r \in Readers |-> NoReader]
    /\ lru = <<>> /\ handles = [h \in {} |-> NoReader]

LEMMA FreshIsRight == Fresh => FInv
<1> SUFFICES ASSUME Fresh PROVE FInv
  OBVIOUS
<1>1. PICK m \in [files : SUBSET Tables, next : Nat \ {0}] :
        /\ manifests = {m} /\ m.next <= nextNumber /\ \A f \in m.files : f \in disk /\ f.n < m.next
        /\ versions = [v \in {1} |-> [files |-> m.files, refs |-> 1]]
  BY DEF Fresh
<1>2. /\ BasicsOK /\ currentV = 1 /\ flushing = NotRunning /\ merging = NotRunning
      /\ pendingOutputs = {} /\ readers = [r \in Readers |-> NoReader]
      /\ lru = <<>> /\ handles = [h \in {} |-> NoReader]
  BY DEF Fresh
<1>3. flushing.at = "no"
  BY <1>2 DEF NotRunning
<1>4. VersionsOK
  <2>1. FlushBase = 0 /\ MergeBase = 0
    BY <1>2, <1>3 DEF FlushBase, MergeBase
  <2>2. QED
    BY <1>1, <1>2, <2>1, FreshHolders DEF VersionsOK, Holds
<1>5. HandlesOK /\ Listed(cache) = {}
  <2>1. cache.lru = <<>> /\ cache.handles = [h \in {} |-> NoReader]
    BY <1>2 DEF cache
  <2>2. QED
    BY <1>2, <2>1, FreshCache DEF HandlesOK, Uses
<1>6. DOMAIN versions = {1} /\ versions[1].files = m.files
  BY <1>1
<1>7. m.files \subseteq Tables /\ m.next \in Nat \ {0} /\ nextNumber \in Nat
  BY <1>2 DEF BasicsOK
<1>8. \A f \in m.files : Safe(f)
  <2>1. \A f \in m.files : f.n \in Nat
    BY <1>7 DEF Tables
  <2>2. QED
    BY <1>1, <1>2, <1>7, <2>1 DEF Safe
<1>9. Outputs = {}
  BY <1>2 DEF Outputs
<1>10. VersionsSafe /\ ManifestsSafe /\ OutputsSafe /\ CachedSafe
  BY <1>1, <1>5, <1>6, <1>8, <1>9 DEF VersionsSafe, ManifestsSafe, OutputsSafe, CachedSafe
<1>11. ManifestsOK
  BY <1>1, <1>2, <1>6, <1>7 DEF ManifestsOK
<1>12. PendingOK /\ OpeningOK
  BY <1>2, <1>3, <1>9 DEF PendingOK, OpeningOK
<1>13. FlushOK /\ MergeOK
  BY <1>2 DEF FlushOK, MergeOK
<1>14. ReadersOK
  BY <1>2 DEF ReadersOK, ReaderOK, NoReader
<1>15. QED
  BY <1>2, <1>4, <1>5, <1>10, <1>11, <1>12, <1>13, <1>14 DEF FInv

LEMMA DieAndRecoverKeeps == ASSUME FInv, NEW m \in manifests, DieAndRecover(m) PROVE FInv'
<1>1. /\ run < MaxRuns /\ run' = run + 1 /\ opened' = FALSE /\ manifests' = {m}
      /\ versions' = [v \in {1} |-> [files |-> m.files, refs |-> 1]] /\ currentV' = 1
      /\ nextNumber' = m.next + 1 /\ pendingOutputs' = {} /\ bgFailed' = FALSE
      /\ flushing' = NotRunning /\ merging' = NotRunning /\ readers' = [r \in Readers |-> NoReader]
      /\ lru' = <<>> /\ handles' = [h \in {} |-> NoReader] /\ disk' = disk
  BY DEF DieAndRecover, RecoverNumber
<1>2. m \in [files : SUBSET Tables, next : Nat \ {0}] /\ \A f \in m.files : f.n < m.next
  BY DEF FInv, ManifestsOK
<1>3. \A f \in m.files : f \in disk
  BY DEF FInv, ManifestsSafe, Safe
<1>4. m.next \in Nat \ {0} /\ m.next <= nextNumber'
  BY <1>1, <1>2
<1>5. BasicsOK'
  <2>1. run' \in 1..MaxRuns
    <3>1. MaxRuns \in Nat /\ run \in 1..MaxRuns
      BY FilesAssumption DEF FInv, BasicsOK
    <3>2. QED
      BY <1>1, <3>1
  <2>2. disk' \subseteq Tables /\ nextNumber' \in Nat \ {0}
    BY <1>1, <1>4 DEF FInv, BasicsOK
  <2>3. opened' \in BOOLEAN /\ bgFailed' \in BOOLEAN
    BY <1>1
  <2>4. currentV' \in Nat \ {0}
    BY <1>1
  <2>5. QED
    BY <2>1, <2>2, <2>3, <2>4 DEF BasicsOK
<1>6. Fresh'
  BY <1>1, <1>2, <1>3, <1>4, <1>5 DEF Fresh
<1>7. QED
  BY <1>6, FreshIsRight, PTL

LEMMA ReplayLogKeeps == ASSUME FInv, ReplayLog PROVE FInv'
<1> DEFINE new == [n |-> nextNumber, run |-> run]
<1>1. /\ ~opened /\ flushing = NotRunning /\ nextNumber <= MaxNumber /\ nextNumber' = nextNumber + 1
      /\ flushing' = [at |-> "replayed", n |-> nextNumber, base |-> currentV]
      /\ disk' = Truncating(new) /\ Becomes(Verified(cache, new))
      /\ UNCHANGED <<versions, currentV, pendingOutputs, manifests, bgFailed, merging, readers, run, opened>>
  BY DEF ReplayLog, versionVars, lifeVars
<1>2. nextNumber \in 1..MaxNumber /\ new \in Tables /\ new.n = nextNumber /\ currentV \in Nat \ {0} /\ flushing.at = "no"
  BY <1>1, FilesAssumption DEF FInv, BasicsOK, Tables, NotRunning
<1>3. flushing' \in FlushStates /\ flushing'.at = "replayed" /\ flushing'.n = nextNumber /\ flushed' = new
  BY <1>1, <1>2 DEF FlushStates, flushed
<1> HIDE DEF new
<1>4. disk' = {g \in disk : g.n # nextNumber} \cup {new}
  BY <1>1, <1>2 DEF Truncating
<1>5. \A f : Safe(f) => Safe(f)'
  BY <1>1, <1>2, <1>3, <1>4, NumbersAre DEF Safe
<1>6. \A f : Undisturbed(f) => Undisturbed(f)'
  BY <1>1, <1>2, <1>3, <1>4, NumbersAre DEF Undisturbed
<1>7. ASSUME NEW t, t = new PROVE Undisturbed(t)'
  BY <1>1, <1>2, <1>3, <1>4, <1>7 DEF Undisturbed
<1>8. VersionsOK'
  <2>1. FlushBase' = FlushBase /\ MergeBase' = MergeBase
    BY <1>1, <1>2, <1>3 DEF FlushBase, MergeBase
  <2>2. QED
    BY <1>1, <2>1, VersionsStay DEF FInv
<1>9. HandlesOK' /\ ReadersOK' /\ CachedSafe'
  BY <1>1, <1>2, <1>6, <1>7, <1>8, VerifiedKeeps, SameOnes
<1>10. Outputs' = Outputs
  BY <1>1 DEF Outputs
<1>11. VersionsSafe' /\ ManifestsSafe' /\ OutputsSafe'
  BY <1>1, <1>5, <1>10, VersionsStaySafe, ManifestsStaySafe, OutputsStaySafe, SameOnes
<1>12. FlushOK'
  BY <1>1, <1>2, <1>3, <1>4 DEF FlushOK, FlushStates
<1>13. ManifestsOK'
  <2>1. \A m \in manifests : m.next \in Nat
    BY DEF FInv, ManifestsOK
  <2>2. QED
    BY <1>1, <1>2, <2>1 DEF FInv, ManifestsOK
<1>14. PendingOK' /\ OpeningOK'
  BY <1>1, <1>2, <1>3, <1>10 DEF FInv, PendingOK, OpeningOK
<1>15. BasicsOK' /\ MergeOK'
  BY <1>1, <1>2, <1>4 DEF FInv, BasicsOK, MergeOK
<1>16. QED
  BY <1>8, <1>9, <1>11, <1>12, <1>13, <1>14, <1>15 DEF FInv

LEMMA OpenDBKeeps == ASSUME FInv, OpenDB PROVE FInv'
<1> DEFINE add == IF flushing = NotRunning THEN {} ELSE {flushed}
           now == versions[currentV].files \cup add
           n == NewVersion(versions)
<1>1. /\ ~opened /\ opened' = TRUE /\ manifests' = {[files |-> now, next |-> nextNumber]}
      /\ versions' = AppendVersion(versions, now) /\ currentV' = n /\ flushing' = NotRunning /\ bgFailed' = bgFailed
      /\ DeleteObsoleteFiles(versions', pendingOutputs)
      /\ UNCHANGED <<nextNumber, pendingOutputs, merging, readers, run>>
  BY DEF OpenDB
<1>2. flushing.at \in {"no", "replayed"} /\ flushing'.at = "no"
  BY <1>1 DEF FInv, OpeningOK, NotRunning
<1>3. \A f \in add : f \in Tables /\ Kept(f)
  <2>1. SUFFICES ASSUME flushing # NotRunning PROVE flushed \in Tables /\ Kept(flushed)
    OBVIOUS
  <2>2. flushing \in FlushStates /\ flushing.n < nextNumber /\ (flushing.at # "building" => flushed \in disk)
    BY <2>1 DEF FInv, FlushOK, FlushStates
  <2>3. flushing.at # "no"
    BY <2>2 DEF FlushStates
  <2>4. QED
    BY <1>2, <2>2, <2>3, FlushIs DEF Kept, flushed
<1> HIDE DEF add
<1>4. now \in SUBSET Tables /\ currentV \in DOMAIN versions /\ \A f \in now : Kept(f)
  <2>1. currentV \in DOMAIN versions /\ versions[currentV].files \subseteq Tables
    BY InUse
  <2>2. QED
    BY <1>3, <2>1, VersionKept
<1> HIDE DEF now
<1>5. /\ Counted(versions', HoldsOf(n, FlushBase, MergeBase, readers))
      /\ n \in DOMAIN versions' /\ n # 0 /\ n \in Nat /\ versions'[n].files = now
      /\ SameFiles(versions', versions)
      /\ \A v \in DOMAIN versions' : v # n => versions'[v].files = versions[v].files /\ v \in DOMAIN versions
  BY <1>1, <1>4, Appends
<1> HIDE DEF n
<1>6. VersionsOK'
  <2>1. FlushBase' = FlushBase /\ MergeBase' = MergeBase
    BY <1>1, <1>2 DEF FlushBase, MergeBase
  <2>2. Holds' = HoldsOf(n, FlushBase, MergeBase, readers)
    BY <1>1, <2>1 DEF Holds
  <2>3. QED
    BY <1>5, <2>2 DEF VersionsOK
<1>7. \A v \in DOMAIN versions' : \A f \in versions'[v].files : Kept(f)
  BY <1>4, <1>5, VersionKept
<1>8. nextNumber \in Nat \ {0}
  BY DEF FInv, BasicsOK
<1>9. \A m \in manifests' : /\ m \in [files : SUBSET Tables, next : Nat \ {0}] /\ m.files = now /\ m.next = nextNumber
                           /\ m.files = versions'[currentV'].files /\ \A f \in m.files : Kept(f)
  BY <1>1, <1>4, <1>5, <1>8
<1>10. ManifestsOK'
  BY <1>1, <1>8, <1>9 DEF ManifestsOK, Kept
<1>11. Outputs' = Outputs /\ \A f \in Outputs : f.n \in pendingOutputs
  BY <1>1, OutputsPending DEF Outputs
<1>12. /\ HandlesOK' /\ ReadersOK' /\ VersionsSafe' /\ ManifestsSafe' /\ OutputsSafe' /\ CachedSafe'
       /\ disk' \subseteq disk
  BY <1>1, <1>5, <1>6, <1>7, <1>9, <1>11, Installs
<1>13. BasicsOK'
  BY <1>1, <1>5, <1>12 DEF FInv, BasicsOK
<1>14. FlushOK' /\ MergeOK' /\ OpeningOK'
  BY <1>1 DEF FInv, FlushOK, MergeOK, OpeningOK
<1>15. PendingOK'
  BY <1>1, <1>2, <1>11 DEF FInv, PendingOK
<1>16. QED
  BY <1>6, <1>10, <1>12, <1>13, <1>14, <1>15 DEF FInv

-----------------------------------------------------------------------------
\* The tables, versions, references and pending outputs are what they should
\* be, and the invariant holds: in all steps of flushes, compactions,
\* readers, failures, death and DB::Open (db_impl.cc, version_set.cc).
LEMMA FInvInit == FilesInit => FInv
<1> SUFFICES ASSUME FilesInit PROVE Fresh
  BY FreshIsRight
<1>1. /\ disk = {} /\ nextNumber = 1 /\ pendingOutputs = {}
      /\ versions = [v \in {1} |-> [files |-> {}, refs |-> 1]] /\ currentV = 1
      /\ manifests = {[files |-> {}, next |-> 1]}
      /\ bgFailed = FALSE /\ flushing = NotRunning /\ merging = NotRunning
      /\ readers = [r \in Readers |-> NoReader]
      /\ lru = <<>> /\ handles = [h \in {} |-> NoReader]
      /\ run = 1 /\ opened = TRUE
  BY DEF FilesInit
<1>2. BasicsOK
  <2>1. opened \in BOOLEAN /\ bgFailed \in BOOLEAN
    BY <1>1
  <2>2. MaxRuns \in Nat \ {0}
    BY FilesAssumption
  <2>3. disk \subseteq Tables /\ nextNumber \in Nat \ {0} /\ run \in 1..MaxRuns /\ currentV \in Nat \ {0}
    BY <1>1, <2>2
  <2>4. QED
    BY <2>1, <2>3 DEF BasicsOK
<1> DEFINE m == [files |-> {}, next |-> 1]
<1>3. /\ m \in [files : SUBSET Tables, next : Nat \ {0}] /\ manifests = {m} /\ m.next <= nextNumber
      /\ m.files = {} /\ versions = [v \in {1} |-> [files |-> m.files, refs |-> 1]]
  BY <1>1
<1> HIDE DEF m
<1>4. QED
  BY <1>1, <1>2, <1>3 DEF Fresh

LEMMA FInvStays == ASSUME FInv, UNCHANGED fileVars PROVE FInv'
<1>1. UNCHANGED <<disk, versions, currentV, nextNumber, pendingOutputs, manifests, bgFailed,
                  flushing, merging, readers, lru, handles, run, opened>>
  BY DEF fileVars
<1>2. FlushBase' = FlushBase /\ MergeBase' = MergeBase /\ Outputs' = Outputs /\ UNCHANGED cacheVars
  BY <1>1 DEF FlushBase, MergeBase, Outputs, cacheVars
<1>3. VersionsOK' /\ HandlesOK'
  BY <1>1, <1>2, VersionsStay, HandlesStay DEF FInv
<1>4. ReadersOK'
  BY <1>1, <1>2, <1>3, ReadersStay, SameOnes
<1>5. (\A f : Safe(f) => Safe(f)') /\ (\A f : Undisturbed(f) => Undisturbed(f)')
  BY <1>1 DEF Safe, Undisturbed
<1>6. VersionsSafe' /\ ManifestsSafe' /\ OutputsSafe' /\ CachedSafe'
  BY <1>1, <1>2, <1>3, <1>5, VersionsStaySafe, ManifestsStaySafe, OutputsStaySafe, CachedStaySafe, SameOnes
<1>7. BasicsOK' /\ FlushOK' /\ MergeOK' /\ ManifestsOK' /\ OpeningOK'
  BY <1>1 DEF FInv, BasicsOK, FlushOK, flushed, MergeOK, ManifestsOK, OpeningOK
<1>8. PendingOK'
  BY <1>1, <1>2 DEF FInv, PendingOK
<1>9. QED
  BY <1>3, <1>4, <1>6, <1>7, <1>8 DEF FInv

LEMMA FInvStep == FInv /\ [FilesNext]_fileVars => FInv'
<1> SUFFICES ASSUME FInv, [FilesNext]_fileVars PROVE FInv'
  OBVIOUS
<1>1. CASE StartFlush \/ BuildTableFile \/ BuildTableFails
  BY <1>1, StartFlushKeeps, BuildTableFileKeeps, BuildTableFailsKeeps
<1>2. CASE FlushLogs \/ FlushLogged \/ FlushLogFails
  BY <1>2, FlushLogsKeeps, FlushLoggedKeeps, FlushLogFailsKeeps
<1>3. CASE \E in \in SUBSET versions[currentV].files : StartMerge(in)
  BY <1>3, StartMergeKeeps
<1>4. CASE OpenOutput \/ FinishOutput \/ MergeLogs
  BY <1>4, OpenOutputKeeps, FinishOutputKeeps, MergeLogsKeeps
<1>5. CASE MergeLogged \/ MergeFails
  BY <1>5, MergeLoggedKeeps, MergeFailsKeeps
<1>6. CASE \E r \in Readers : ReaderBegins(r) \/ OpenTable(r) \/ ReaderReleases(r) \/ ReaderEnds(r)
  BY <1>6, ReaderBeginsKeeps, OpenTableKeeps, ReaderReleasesKeeps, ReaderEndsKeeps
<1>7. CASE \E r \in Readers : readers[r].v # 0 /\ \E f \in versions[readers[r].v].files : FindTable(r, f)
  BY <1>7, FindTableKeeps
<1>8. CASE \E m \in manifests : DieAndRecover(m)
  BY <1>8, DieAndRecoverKeeps
<1>9. CASE ReplayLog \/ OpenDB
  BY <1>9, ReplayLogKeeps, OpenDBKeeps
<1>10. CASE UNCHANGED fileVars
  BY <1>10, FInvStays
<1>11. QED
  BY <1>1, <1>2, <1>3, <1>4, <1>5, <1>6, <1>7, <1>8, <1>9, <1>10 DEF FilesNext

LEMMA FInvAlways == FilesSpec => []FInv
  BY FInvInit, FInvStep, PTL DEF FilesSpec

\* Tables, versions and handles have their types, whatever is held has a
\* reference, and what is pending has a number that is given away.
THEOREM FilesTypes == FilesSpec => []FilesTypeOK
<1>1. FInv => FilesTypeOK
  <2> SUFFICES ASSUME FInv PROVE FilesTypeOK
    OBVIOUS
  <2>1. \A v \in DOMAIN versions : versions[v].files \subseteq Tables /\ versions[v].refs > 0
    BY VersionHas DEF FInv, VersionsOK
  <2>2. \A h \in DOMAIN handles : handles[h].file \in Tables /\ handles[h].refs > 0
    <3>1. \A h \in DOMAIN handles : handles[h] \in [file : Tables, refs : Nat \ {0}]
      BY HandleHas DEF FInv, HandlesOK, CacheOK, cache
    <3>2. QED
      BY <3>1
  <2>3. currentV \in DOMAIN versions /\ \A r \in Readers : readers[r].v = 0 \/ readers[r].v \in DOMAIN versions
    BY InUse
  <2>4. pendingOutputs \subseteq 1..nextNumber - 1
    <3>1. nextNumber \in Nat
      BY DEF FInv, BasicsOK
    <3>2. \A f \in Outputs : f.n \in 1..MaxNumber /\ f.n < nextNumber
      BY NumbersAre DEF FInv, OutputsSafe, Safe
    <3>3. flushing.at \in {"building", "built"} => flushing.n \in 1..MaxNumber /\ flushing.n < nextNumber
      BY FlushIs DEF FlushStates
    <3>4. MaxNumber \in Nat
      BY FilesAssumption
    <3>5. ASSUME NEW i \in pendingOutputs PROVE i \in 1..MaxNumber /\ i < nextNumber
      <4>1. i \in {f.n : f \in Outputs} \/ (flushing.at \in {"building", "built"} /\ i = flushing.n)
        BY DEF FInv, PendingOK
      <4>2. QED
        BY <3>2, <3>3, <4>1
    <3>6. QED
      BY <3>1, <3>4, <3>5
  <2>5. disk \subseteq Tables
    BY DEF FInv, BasicsOK
  <2>6. QED
    BY <2>1, <2>2, <2>3, <2>4, <2>5 DEF FilesTypeOK
<1>2. QED
  BY <1>1, FInvAlways, PTL

\* Whatever flushes, compactions and their failures delete
\* (DeleteObsoleteFiles), the tables of every version in use are there, and
\* every handle in use is alive and of the table its user asked for.
THEOREM TablesAreFound == FilesSpec => []TablesFound
<1>1. FInv => TablesFound
  <2> SUFFICES ASSUME FInv PROVE TablesFound
    OBVIOUS
  <2>1. \A v \in DOMAIN versions : versions[v].files \subseteq disk
    BY VersionKept DEF Kept
  <2>2. ASSUME NEW r \in Readers, readers[r].handle # 0
        PROVE  readers[r].handle \in DOMAIN handles /\ {handles[readers[r].handle].file} = readers[r].wants
    <3>1. readers[r].handle \in DOMAIN handles
      BY <2>2, InUse
    <3>2. readers[r].wants = {handles[readers[r].handle].file}
      BY <2>2 DEF FInv, ReadersOK, ReaderOK
    <3>3. QED
      BY <3>1, <3>2
  <2>3. QED
    BY <2>1, <2>2 DEF TablesFound
<1>2. QED
  BY <1>1, FInvAlways, PTL

\* Whatever the manifest may describe when the process dies, its tables are in
\* the directory as they were written: nothing is collected after an error,
\* and no later life writes over them.
THEOREM ManifestsAreRecoverable == FilesSpec => []RecoverableFiles
<1>1. FInv => RecoverableFiles
  BY ManifestKept DEF RecoverableFiles, Kept
<1>2. QED
  BY <1>1, FInvAlways, PTL

\* At rest only the current version is left, with its one reference, nothing
\* is pending, and the cache keeps at most its capacity, once each.
THEOREM NothingIsLeaked == FilesSpec => []NothingLeaks
<1>1. FInv => NothingLeaks
  <2> SUFFICES ASSUME FInv, opened, flushing = NotRunning, merging = NotRunning, \A r \in Readers : readers[r] = NoReader
               PROVE  /\ DOMAIN versions = {currentV} /\ versions[currentV].refs = 1
                      /\ pendingOutputs = {}
                      /\ Cardinality(DOMAIN handles) <= Capacity
                      /\ \A h \in DOMAIN handles :
                          /\ handles[h].refs = 1 /\ handles[h].file \in disk
                          /\ Cached(cache, handles[h].file) = {h}
    BY DEF NothingLeaks
  <2>1. flushing.at = "no" /\ Outputs = {} /\ FlushBase = 0 /\ MergeBase = 0
    BY DEF NotRunning, Outputs, FlushBase, MergeBase
  <2>2. pendingOutputs = {}
    BY <2>1 DEF FInv, PendingOK
  <2>3. \A e \in Everyone : Holds[e] = IF e = <<"current", 0>> THEN currentV ELSE 0
    BY <2>1 DEF Holds, HoldsOf, Everyone, NoReader
  <2>4. currentV \in DOMAIN versions /\ currentV # 0 /\ 0 \notin DOMAIN versions /\ <<"current", 0>> \in Everyone
    BY InUse, InEveryone
  <2>5. ASSUME NEW v \in DOMAIN versions PROVE v = currentV
    <3>1. Cardinality(Sharers(Holds, v)) # 0
      <4>1. versions[v].refs \in Nat \ {0}
        BY VersionHas DEF FInv, VersionsOK
      <4>2. versions[v].refs = Cardinality(Sharers(Holds, v))
        BY DEF FInv, VersionsOK, Counted
      <4>3. QED
        BY <4>1, <4>2
    <3>2. \E e \in Everyone : Holds[e] = v
      BY <3>1, SharersFinite
    <3>3. QED
      BY <2>3, <2>4, <3>2
  <2>6. versions[currentV].refs = 1
    <3>1. Sharers(Holds, currentV) = {<<"current", 0>>}
      BY <2>3, <2>4 DEF Sharers
    <3>2. Cardinality(Sharers(Holds, currentV)) = 1
      BY <3>1, FS_Singleton
    <3>3. QED
      BY <2>4, <3>2 DEF FInv, VersionsOK, Counted
  <2>7. \A e \in Everyone : Uses[e] = 0
    BY DEF Uses, UsesOf, Everyone, NoReader
  <2>8. /\ IsFiniteSet(DOMAIN handles) /\ Listed(cache) \subseteq DOMAIN handles /\ 0 \notin DOMAIN handles
        /\ \A h \in DOMAIN handles :
            /\ handles[h].refs = (IF h \in Listed(cache) THEN 1 ELSE 0) + Cardinality(Sharers(Uses, h))
            /\ handles[h].refs \in Nat \ {0}
    <3>1. cache.handles = handles
      BY DEF cache
    <3>2. Referenced(cache, Uses)
      BY DEF FInv, HandlesOK, CacheOK
    <3>3. \A h \in DOMAIN handles : handles[h] \in [file : Tables, refs : Nat \ {0}]
      BY <3>1, <3>2, HandleHas
    <3>4. QED
      BY <3>1, <3>2, <3>3 DEF Referenced
  <2>9. ASSUME NEW h \in DOMAIN handles PROVE h \in Listed(cache) /\ handles[h].refs = 1
    <3>1. Cardinality(Sharers(Uses, h)) = 0
      BY <2>7, <2>8, SharersFinite
    <3>2. QED
      BY <2>8, <3>1
  <2>10. Cardinality(DOMAIN handles) <= Capacity
    <3>1. Cardinality(DOMAIN handles) <= Capacity \/ Listed(cache) = {}
      BY DEF FInv, HandlesOK, CacheOK, Slim, cache
    <3>2. CASE Listed(cache) = {}
      <4>1. DOMAIN handles = {}
        BY <2>9, <3>2
      <4>2. Cardinality(DOMAIN handles) = 0 /\ Capacity \in Nat
        BY <4>1, FS_EmptySet, FilesAssumption
      <4>3. QED
        BY <4>2
    <3>3. QED
      BY <3>1, <3>2
  <2>11. ASSUME NEW h \in DOMAIN handles PROVE handles[h].file \in disk /\ Cached(cache, handles[h].file) = {h}
    <3>1. h \in Listed(cache)
      BY <2>9
    <3>2. Undisturbed(handles[h].file)
      BY <3>1 DEF FInv, CachedSafe
    <3>3. \A g \in Listed(cache) : handles[g].file = handles[h].file => g = h
      BY <3>1 DEF FInv, HandlesOK, CacheOK, Single, cache
    <3>4. Cached(cache, handles[h].file) = {h}
      BY <3>1, <3>3 DEF Cached, cache
    <3>5. QED
      BY <3>2, <3>4 DEF Undisturbed
  <2>12. QED
    BY <2>2, <2>4, <2>5, <2>6, <2>9, <2>10, <2>11
<1>2. QED
  BY <1>1, FInvAlways, PTL
===============================================================================
