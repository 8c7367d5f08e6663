------------------------ MODULE LevelDBCompactionProofs ------------------------
(***************************************************************************)
(* The levels, for any keys, number of writes, snapshots and levels: files *)
(* of a level do not overlap, newer entries lie above older ones, and      *)
(* reads return what was written, as long as nobody compacts by hand.      *)
(*                                                                         *)
(* LInv has what a compaction relies on while it is unlocked: its inputs   *)
(* leave no gap of keys into which a flush could fall (Spans).  RInv adds  *)
(* that of every key, for every reader, the newest entry is still there.   *)
(* TypesInv is what is left when callers compact by hand: types, and that  *)
(* a number is given once, without which an output file could be empty.    *)
(***************************************************************************)
EXTENDS LevelDBCompaction, FiniteSetTheorems, SequenceTheorems, WellFoundedInduction, TLAPS

-----------------------------------------------------------------------------
(* The invariant.                                                          *)

\* No output is cut between two versions of a key: sizes never matter, or
\* no snapshot keeps two versions in one compaction.
NeverSplits == TRUE \in Sizes => MaxSnapshots[TRUE] = 0

\* All of one is before all of the other, by user key or by internal key.
KeysApart(F, G) == (\A e \in F, g \in G : e.k < g.k) \/ (\A e \in F, g \in G : g.k < e.k)
OrderApart(F, G) == (\A e \in F, g \in G : Before(e, g)) \/ (\A e \in F, g \in G : Before(g, e))
Apart(F, G) == IF NeverSplits THEN KeysApart(F, G) ELSE OrderApart(F, G)

\* The files F leave no gap between the entries of E.
Spans(F, E) ==
    \A k \in Keys, a, b \in E : a.k <= k /\ k <= b.k => \E f \in F : \E x, y \in f : x.k <= k /\ k <= y.k

InTables == UNION {UNION Level(n) : n \in 0..NumLevels - 1}
Everything == mem \cup InTables
In == UNION (comp.in0 \cup comp.in1)

Files == (SUBSET Entries) \ {{}}
LevelTypes ==
    /\ BigData \in Sizes /\ mem \subseteq Entries
    /\ l0 \in Seq(Files) /\ lv \in [1..NumLevels - 1 -> SUBSET Files]
    /\ lastSeq \in 0..MaxSeq /\ snapshots \subseteq 0..lastSeq
    /\ comp # NoComp => comp.level \in 0..NumLevels - 2

\* Numbers are given once, and the memtable has the latest.
Numbered ==
    /\ \A e, g \in Everything : e.s = g.s => e = g
    /\ \A e \in Everything : e.s <= lastSeq
    /\ \A e \in mem, g \in InTables : g.s < e.s
    /\ \A i, j \in DOMAIN l0 : i < j => \A e \in l0[i], g \in l0[j] : e.s < g.s

LevelsApart == \A n \in DOMAIN lv : \A f, g \in lv[n] : f # g => Apart(f, g)

\* What a compaction may count on while others flush and write.
InputsStay ==
    comp # NoComp =>
        /\ comp.in0 \subseteq Level(comp.level) /\ comp.in1 \subseteq lv[comp.level + 1]
        /\ comp.in0 # {}
        /\ Spans(comp.in0 \cup comp.in1, In)
        /\ \A g \in lv[comp.level + 1] \ comp.in1 : Apart(In, g)
        /\ comp.level = 0 =>
            \A f \in Level(0) \ comp.in0 : \A e \in f, g \in UNION comp.in0 : e.k = g.k => e.s > g.s
        /\ \A n \in comp.level + 2..NumLevels - 1 : \A f \in Level(n) \ comp.deep :
            \A e \in In : ~Overlaps(f, e.k, e.k)
        /\ comp.snap \in 0..lastSeq /\ \A t \in snapshots : comp.snap <= t
        /\ BigData /\ NeverSplits => \A e \in In : e.s <= comp.snap

NoSnapshots == BigData /\ NeverSplits => snapshots = {}

LInv == LevelTypes /\ Numbered /\ LevelsApart /\ InputsStay /\ NoSnapshots

Newest(S, k, s, e) ==
    e \in S /\ e.k = k /\ e.s <= s /\ \A g \in S : g.k = k /\ g.s <= s => g.s <= e.s
Reads(S, k, s, v) ==
    \/ v = 0 /\ \A g \in S : ~(g.k = k /\ g.s <= s)
    \/ \E e \in S : Newest(S, k, s, e) /\ v = IF e.del THEN 0 ELSE e.s

Remembers ==
    /\ latest \in [Keys -> Nat] /\ \A k \in Keys : Reads(Everything, k, lastSeq, latest[k])
    /\ DOMAIN frozen = snapshots
    /\ \A s \in snapshots, k \in Keys : Reads(Everything, k, s, frozen[s][k])

RInv == LInv /\ NewerAbove /\ Remembers

-----------------------------------------------------------------------------
(* Least and greatest elements, lowest and highest keys.                   *)

LEMMA LeastOfNumbers ==
  ASSUME NEW S, S \subseteq Nat, S # {}
  PROVE  \E x \in S : \A y \in S : x <= y
<1>1. IsWellFoundedOn(OpToRel(<,Nat), Nat)
  BY NatLessThanWellFounded
<1>2. PICK x \in S : \A y \in S : ~ (<<y, x>> \in OpToRel(<,Nat))
  BY <1>1, WFMin
<1>3. \A y \in S : ~(y < x)
  BY <1>2 DEF OpToRel
<1>4. QED BY <1>3

\* A finite set has a last element in every strict order R of it.
LEMMA LastElement ==
  ASSUME NEW S, IsFiniteSet(S), S # {}, NEW R,
         \A x \in S : <<x, x>> \notin R,
         \A x, y, z \in S : <<x, y>> \in R /\ <<y, z>> \in R => <<x, z>> \in R,
         \A x, y \in S : x # y => <<x, y>> \in R \/ <<y, x>> \in R
  PROVE  \E x \in S : \A y \in S \ {x} : <<y, x>> \in R
<1> DEFINE after(x) == {y \in S : <<x, y>> \in R}
           sizes == {Cardinality(after(x)) : x \in S}
<1>1. \A x \in S : IsFiniteSet(after(x)) /\ Cardinality(after(x)) \in Nat
  BY FS_Subset, FS_CardinalityType
<1>2. sizes \subseteq Nat /\ sizes # {}
  <2> HIDE DEF after
  <2>1. QED
    BY <1>1
<1>3. PICK x \in S : \A y \in S : Cardinality(after(x)) <= Cardinality(after(y))
  <2> HIDE DEF after
  <2>1. PICK n \in sizes : \A m \in sizes : n <= m
    <3> HIDE DEF sizes
    <3>1. QED
      BY <1>2, LeastOfNumbers
  <2>2. QED
    BY <2>1
<1>4. ASSUME NEW y \in S, <<x, y>> \in R PROVE FALSE
  <2>1. after(y) \subseteq after(x) /\ y \in after(x) /\ y \notin after(y)
    BY <1>4
  <2>2. Cardinality(after(y)) <= Cardinality(after(x))
        /\ (Cardinality(after(y)) = Cardinality(after(x)) => after(y) = after(x))
    <3>1. after(y) \in SUBSET after(x) /\ IsFiniteSet(after(x))
      BY <1>1, <2>1
    <3> HIDE DEF after
    <3>2. QED
      BY <3>1, FS_Subset
  <2>3. Cardinality(after(x)) <= Cardinality(after(y))
    BY <1>3
  <2>4. Cardinality(after(x)) \in Nat /\ Cardinality(after(y)) \in Nat
    BY <1>1
  <2> HIDE DEF after
  <2>5. QED
    BY <2>1, <2>2, <2>3, <2>4
<1>5. QED
  BY <1>4

LEMMA LargestNumber ==
  ASSUME NEW S, S \subseteq Int, IsFiniteSet(S), S # {}
  PROVE  \E x \in S : \A y \in S : y <= x
<1> DEFINE R == {p \in S \X S : p[1] < p[2]}
<1>1. \A x, y \in S : <<x, y>> \in R <=> x < y
  OBVIOUS
<1>2. \A x \in S : <<x, x>> \notin R
  BY <1>1
<1>3. \A x, y, z \in S : <<x, y>> \in R /\ <<y, z>> \in R => <<x, z>> \in R
  BY <1>1
<1>4. \A x, y \in S : x # y => <<x, y>> \in R \/ <<y, x>> \in R
  BY <1>1
<1> HIDE DEF R
<1>5. PICK x \in S : \A y \in S \ {x} : <<y, x>> \in R
  BY <1>2, <1>3, <1>4, LastElement
<1>6. \A y \in S : y <= x
  <2> TAKE y \in S
  <2>1. CASE y = x
    BY <2>1
  <2>2. CASE y # x
    <3>1. <<y, x>> \in R
      BY <1>5, <2>2
    <3>2. y < x
      BY <1>1, <3>1
    <3>3. QED
      BY <3>2
  <2>3. QED
    BY <2>1, <2>2
<1>7. QED
  BY <1>6

LEMMA EntryTypes ==
  /\ Keys \subseteq Nat \ {0}
  /\ \A e \in Entries : e.k \in Keys /\ e.s \in 1..MaxSeq /\ e.s \in Nat /\ e.k \in Nat
  /\ IsFiniteSet(Keys)
<1>1. Keys \subseteq Nat \ {0} /\ IsFiniteSet(Keys) /\ MaxSeq \in Nat
  BY CompactionAssumption
<1>2. \A e \in Entries : e.k \in Keys /\ e.s \in 1..MaxSeq
  BY DEF Entries
<1>3. ASSUME NEW e \in Entries PROVE e.s \in Nat /\ e.k \in Nat
  <2>1. e.k \in Keys /\ e.s \in 1..MaxSeq
    BY <1>2
  <2>2. e.k \in Nat
    BY <1>1, <2>1
  <2>3. 1..MaxSeq \subseteq Nat
    OBVIOUS
  <2>4. QED
    BY <2>1, <2>2, <2>3
<1>4. QED
  BY <1>1, <1>2, <1>3

LEMMA LowAndHigh ==
  ASSUME NEW F, UNION F \subseteq Entries, UNION F # {}
  PROVE  /\ Lo(F) \in Keys /\ Hi(F) \in Keys
         /\ \E e \in UNION F : e.k = Lo(F)
         /\ \E e \in UNION F : e.k = Hi(F)
         /\ \A e \in UNION F : Lo(F) <= e.k /\ e.k <= Hi(F)
<1> DEFINE K == {e.k : e \in UNION F}
<1>1. K \subseteq Keys /\ K \subseteq Nat /\ K # {} /\ IsFiniteSet(K)
  <2>1. K \subseteq Keys /\ K # {}
    BY EntryTypes
  <2>2. QED
    BY <2>1, EntryTypes, FS_Subset
<1>2. \E k \in K : \A e \in UNION F : k <= e.k
  <2> HIDE DEF K
  <2>1. PICK k \in K : \A y \in K : k <= y
    BY <1>1, LeastOfNumbers
  <2>2. QED
    BY <2>1 DEF K
<1>3. \E k \in K : \A e \in UNION F : k >= e.k
  <2> HIDE DEF K
  <2>1. PICK k \in K : \A y \in K : y <= k
    <3>1. K \subseteq Int
      BY <1>1
    <3>2. QED
      BY <1>1, <3>1, LargestNumber
  <2>2. \A e \in UNION F : e.k \in K
    BY DEF K
  <2>3. QED
    BY <1>1, <2>1, <2>2
<1>4. Lo(F) \in K /\ \A e \in UNION F : Lo(F) <= e.k
  BY <1>2 DEF Lo
<1>5. Hi(F) \in K /\ \A e \in UNION F : Hi(F) >= e.k
  BY <1>3 DEF Hi
<1>6. Lo(F) \in Keys /\ Hi(F) \in Keys
  BY <1>1, <1>4, <1>5
<1>7. \A e \in UNION F : e.k <= Hi(F)
  BY <1>5, <1>6, EntryTypes
<1>8. QED
  BY <1>4, <1>5, <1>6, <1>7

LEMMA OverlapsIs ==
  ASSUME NEW f \in Files, NEW b \in Keys, NEW e \in Keys
  PROVE  Overlaps(f, b, e) <=> (\E x \in f : x.k <= e) /\ (\E x \in f : b <= x.k)
<1>1. UNION {f} = f /\ f \subseteq Entries /\ f # {}
  BY DEF Files
<1>2. /\ Lo({f}) \in Keys /\ Hi({f}) \in Keys
      /\ \E x \in f : x.k = Lo({f})
      /\ \E x \in f : x.k = Hi({f})
      /\ \A x \in f : Lo({f}) <= x.k /\ x.k <= Hi({f})
  BY <1>1, LowAndHigh
<1>3. \A x \in f : x.k \in Nat
  BY <1>1, EntryTypes
<1>4. Lo({f}) \in Nat /\ Hi({f}) \in Nat /\ b \in Nat /\ e \in Nat
  BY <1>2, EntryTypes
<1>5. QED
  BY <1>2, <1>3, <1>4 DEF Overlaps

\* A file overlaps the range of a set of files unless their keys are apart.
LEMMA OverlapsRange ==
  ASSUME NEW f \in Files, NEW F, UNION F \subseteq Entries, UNION F # {}
  PROVE  Overlaps(f, Lo(F), Hi(F)) <=> ~KeysApart(UNION F, f)
<1>1. /\ Lo(F) \in Keys /\ Hi(F) \in Keys
      /\ \E e \in UNION F : e.k = Lo(F)
      /\ \E e \in UNION F : e.k = Hi(F)
      /\ \A e \in UNION F : Lo(F) <= e.k /\ e.k <= Hi(F)
  BY LowAndHigh
<1>2. Overlaps(f, Lo(F), Hi(F)) <=> (\E x \in f : x.k <= Hi(F)) /\ (\E x \in f : Lo(F) <= x.k)
  BY <1>1, OverlapsIs
<1>3. (\A x \in f : x.k \in Nat) /\ \A x \in UNION F : x.k \in Nat
  BY EntryTypes DEF Files
<1>4. Lo(F) \in Nat /\ Hi(F) \in Nat
  BY <1>1, EntryTypes
<1> DEFINE X == UNION F
<1>5. (\E x \in f : x.k <= Hi(F)) <=> ~(\A e \in X, x \in f : e.k < x.k)
  BY <1>1, <1>3, <1>4
<1>6. (\E x \in f : Lo(F) <= x.k) <=> ~(\A e \in X, x \in f : x.k < e.k)
  BY <1>1, <1>3, <1>4
<1>7. QED
  BY <1>2, <1>5, <1>6 DEF KeysApart

-----------------------------------------------------------------------------
(* GetOverlappingInputs: what it takes, and that it leaves no gap.         *)

\* A range of keys out of which no file of level 0 sticks.
Closed(lo, hi) == \A f \in Level(0) : Overlaps(f, lo, hi) => lo <= Lo({f}) /\ Hi({f}) <= hi
Widens(r, b, e) == r[1] <= b /\ e <= r[2] /\ Closed(r[1], r[2])
IsWidened(r, b, e) ==
    Widens(r, b, e) /\ \A q \in Keys \X Keys : Widens(q, b, e) => q[1] <= r[1] /\ r[2] <= q[2]
Widened(b, e) == CHOOSE r \in Keys \X Keys : IsWidened(r, b, e)

LEMMA FileRange ==
  ASSUME NEW f \in Files
  PROVE  /\ Lo({f}) \in Keys /\ Hi({f}) \in Keys /\ Lo({f}) \in Nat /\ Hi({f}) \in Nat
         /\ \E x \in f : x.k = Lo({f})
         /\ \E x \in f : x.k = Hi({f})
         /\ \A x \in f : x.k \in Nat /\ Lo({f}) <= x.k /\ x.k <= Hi({f})
<1>1. UNION {f} = f /\ f \subseteq Entries /\ f # {}
  BY DEF Files
<1>2. /\ Lo({f}) \in Keys /\ Hi({f}) \in Keys
      /\ \E x \in f : x.k = Lo({f})
      /\ \E x \in f : x.k = Hi({f})
      /\ \A x \in f : Lo({f}) <= x.k /\ x.k <= Hi({f})
  BY <1>1, LowAndHigh
<1>3. \A x \in f : x.k \in Nat
  BY <1>1, EntryTypes
<1>4. QED
  BY <1>2, <1>3, EntryTypes

LEMMA WidenedIs ==
  ASSUME Level(0) \subseteq Files, NEW b \in Keys, NEW e \in Keys
  PROVE  Widened(b, e) \in Keys \X Keys /\ IsWidened(Widened(b, e), b, e)
<1> DEFINE A == {q \in Keys \X Keys : Widens(q, b, e)}
           A1 == {q[1] : q \in A}
           A2 == {q[2] : q \in A}
<1>1. Keys \subseteq Nat /\ IsFiniteSet(Keys)
  BY EntryTypes
<1>2. A # {}
  <2>1. PICK lo \in Keys : \A k \in Keys : lo <= k
    BY <1>1, LeastOfNumbers
  <2>2. PICK hi \in Keys : \A k \in Keys : k <= hi
    <3>1. Keys \subseteq Int
      BY <1>1
    <3>2. QED
      BY <1>1, <3>1, LargestNumber
  <2>3. Closed(lo, hi)
    BY <2>1, <2>2, FileRange DEF Closed
  <2>4. Widens(<<lo, hi>>, b, e)
    BY <2>1, <2>2, <2>3 DEF Widens
  <2>5. QED
    BY <2>4
<1>3. A1 \subseteq Keys /\ A2 \subseteq Keys /\ A1 # {} /\ A2 # {}
  BY <1>2
<1>4. PICK qa \in A : \A q \in A : q[1] <= qa[1]
  <2>1. A1 \subseteq Int /\ IsFiniteSet(A1)
    <3>1. A1 \in SUBSET Keys
      BY <1>3
    <3> HIDE DEF A1
    <3>2. A1 \subseteq Int
      BY <1>1, <3>1
    <3>3. IsFiniteSet(A1)
      BY <1>1, <3>1, FS_Subset
    <3>4. QED
      BY <3>2, <3>3
  <2>2. PICK m \in A1 : \A k \in A1 : k <= m
    <3> HIDE DEF A1
    <3>1. QED
      BY <1>3, <2>1, LargestNumber
  <2>3. QED
    BY <2>2
<1>5. PICK qb \in A : \A q \in A : qb[2] <= q[2]
  <2>1. A2 \subseteq Nat
    BY <1>1, <1>3
  <2>2. PICK m \in A2 : \A k \in A2 : m <= k
    <3> HIDE DEF A2
    <3>1. QED
      BY <1>3, <2>1, LeastOfNumbers
  <2>3. QED
    BY <2>2
<1> DEFINE m1 == qa[1]
           m2 == qb[2]
<1>6. /\ m1 \in Keys /\ m2 \in Keys /\ qa[2] \in Keys /\ qb[1] \in Keys
      /\ Widens(qa, b, e) /\ Widens(qb, b, e) /\ qb[1] <= m1 /\ m2 <= qa[2]
  BY <1>4, <1>5
<1>7. m1 \in Nat /\ m2 \in Nat /\ qa[2] \in Nat /\ qb[1] \in Nat
  BY <1>1, <1>6
<1>8. ASSUME NEW f \in Level(0), Overlaps(f, m1, m2) PROVE m1 <= Lo({f}) /\ Hi({f}) <= m2
  <2>1. Lo({f}) \in Nat /\ Hi({f}) \in Nat /\ Lo({f}) <= m2 /\ Hi({f}) >= m1
    BY <1>8, FileRange DEF Overlaps
  <2>2. Overlaps(f, m1, qa[2])
    BY <1>6, <1>7, <2>1 DEF Overlaps
  <2>3. Overlaps(f, qb[1], m2)
    BY <1>6, <1>7, <2>1 DEF Overlaps
  <2>4. QED
    BY <1>6, <2>2, <2>3 DEF Widens, Closed
<1>9. IsWidened(<<m1, m2>>, b, e)
  <2>1. Widens(<<m1, m2>>, b, e)
    BY <1>6, <1>8 DEF Widens, Closed
  <2>2. \A q \in Keys \X Keys : Widens(q, b, e) => q[1] <= m1 /\ m2 <= q[2]
    BY <1>4, <1>5
  <2>3. QED
    BY <2>1, <2>2 DEF IsWidened
<1>10. <<m1, m2>> \in Keys \X Keys
  BY <1>6
<1>11. QED
  BY <1>9, <1>10 DEF Widened

\* Every key by which the range was widened is spanned by a file in it.
LEMMA WidenedHasNoGap ==
  ASSUME Level(0) \subseteq Files, NEW b \in Keys, NEW e \in Keys, b <= e,
         NEW r \in Keys \X Keys, IsWidened(r, b, e),
         NEW k \in Keys, r[1] <= k, k <= r[2], ~(b <= k /\ k <= e)
  PROVE  \E f \in Level(0) : Overlaps(f, r[1], r[2]) /\ Lo({f}) <= k /\ k <= Hi({f})
<1>1. /\ Keys \subseteq Nat /\ IsFiniteSet(Keys)
      /\ r[1] \in Keys /\ r[2] \in Keys /\ r[1] \in Nat /\ r[2] \in Nat
      /\ b \in Nat /\ e \in Nat /\ k \in Nat /\ r[1] <= b /\ e <= r[2]
      /\ Closed(r[1], r[2])
  BY EntryTypes DEF IsWidened, Widens
<1> SUFFICES ASSUME \A f \in Level(0) : Overlaps(f, r[1], r[2]) => ~(Lo({f}) <= k /\ k <= Hi({f}))
             PROVE  FALSE
  OBVIOUS
<1>2. CASE k < b
  <2> DEFINE above == {q \in Keys : k < q}
  <2>1. above \subseteq Nat /\ b \in above
    BY <1>1, <1>2
  <2>2. PICK m \in above : \A q \in above : m <= q
    <3> HIDE DEF above
    <3>1. QED
      BY <2>1, LeastOfNumbers
  <2>3. m \in Keys /\ m \in Nat /\ k < m /\ m <= b
    BY <2>1, <2>2
  <2>4. ASSUME NEW f \in Level(0), Overlaps(f, m, r[2]) PROVE m <= Lo({f}) /\ Hi({f}) <= r[2]
    <3>1. /\ Lo({f}) \in Nat /\ Hi({f}) \in Nat /\ Lo({f}) <= r[2] /\ Hi({f}) >= m
          /\ Lo({f}) \in Keys
      BY <2>4, FileRange DEF Overlaps
    <3>2. Overlaps(f, r[1], r[2])
      BY <1>1, <2>3, <3>1 DEF Overlaps
    <3>3. r[1] <= Lo({f}) /\ Hi({f}) <= r[2]
      BY <1>1, <3>2 DEF Closed
    <3>4. k < Lo({f})
      BY <1>1, <2>3, <3>1, <3>2
    <3>5. Lo({f}) \in above
      BY <3>1, <3>4
    <3>6. QED
      BY <2>2, <3>3, <3>5
  <2>5. Widens(<<m, r[2]>>, b, e)
    BY <1>1, <2>3, <2>4 DEF Widens, Closed
  <2>6. m <= r[1]
    BY <1>1, <2>3, <2>5 DEF IsWidened
  <2>7. QED
    BY <1>1, <2>3, <2>6
<1>3. CASE e < k
  <2> DEFINE below == {q \in Keys : q < k}
  <2>1. below \subseteq Int /\ e \in below /\ below \in SUBSET Keys
    <3>1. below \in SUBSET Keys
      OBVIOUS
    <3>2. e \in below
      BY <1>3
    <3>3. below \subseteq Int
      <4> HIDE DEF below
      <4>1. QED
        BY <1>1, <3>1
    <3>4. QED
      BY <3>1, <3>2, <3>3
  <2>0. IsFiniteSet(below)
    <3> HIDE DEF below
    <3>1. QED
      BY <1>1, <2>1, FS_Subset
  <2>2. PICK m \in below : \A q \in below : q <= m
    <3> HIDE DEF below
    <3>1. QED
      BY <2>0, <2>1, LargestNumber
  <2>3. m \in Keys /\ m \in Nat /\ m < k /\ e <= m
    BY <1>1, <2>1, <2>2
  <2>4. ASSUME NEW f \in Level(0), Overlaps(f, r[1], m) PROVE r[1] <= Lo({f}) /\ Hi({f}) <= m
    <3>1. /\ Lo({f}) \in Nat /\ Hi({f}) \in Nat /\ Lo({f}) <= m /\ Hi({f}) >= r[1]
          /\ Hi({f}) \in Keys
      BY <2>4, FileRange DEF Overlaps
    <3>2. Overlaps(f, r[1], r[2])
      BY <1>1, <2>3, <3>1 DEF Overlaps
    <3>3. r[1] <= Lo({f}) /\ Hi({f}) <= r[2]
      BY <1>1, <3>2 DEF Closed
    <3>4. Hi({f}) < k
      BY <1>1, <2>3, <3>1, <3>2
    <3>5. Hi({f}) \in below
      BY <3>1, <3>4
    <3>6. QED
      BY <2>2, <3>3, <3>5
  <2>5. Widens(<<r[1], m>>, b, e)
    BY <1>1, <2>3, <2>4 DEF Widens, Closed
  <2>6. r[2] <= m
    BY <1>1, <2>3, <2>5 DEF IsWidened
  <2>7. QED
    BY <1>1, <2>3, <2>6
<1>4. QED
  BY <1>1, <1>2, <1>3

LevelOK(n) == Level(n) \subseteq Files

LEMMA GetOverlappingIs ==
  ASSUME NEW n \in 0..NumLevels - 1, LevelOK(n), NEW b \in Keys, NEW e \in Keys
  PROVE  GetOverlappingInputs(n, b, e) =
            IF n = 0 THEN {f \in Level(0) : Overlaps(f, Widened(b, e)[1], Widened(b, e)[2])}
                     ELSE {f \in Level(n) : Overlaps(f, b, e)}
<1>1. CASE n # 0
  BY <1>1 DEF GetOverlappingInputs
<1>2. CASE n = 0
  <2>1. Widened(b, e) = CHOOSE r \in Keys \X Keys :
                          /\ Widens(r, b, e)
                          /\ \A q \in Keys \X Keys : Widens(q, b, e) => q[1] <= r[1] /\ r[2] <= q[2]
    BY DEF Widened, IsWidened
  <2>2. QED
    BY <1>2, <2>1 DEF GetOverlappingInputs, Widens, Closed
<1>3. QED
  BY <1>1, <1>2

\* The files that GetOverlappingInputs takes for the range of some files:
\* those whose keys are not apart from theirs, in level 0 also what these
\* overlap; and no key between is left without a file.
Takes(n, X, G) ==
    /\ G \subseteq Level(n)
    /\ \A f \in Level(n) : ~KeysApart(X, f) => f \in G
    /\ n # 0 => \A f \in G : ~KeysApart(X, f)
    /\ n = 0 => \A f \in Level(0) \ G : KeysApart(X \cup UNION G, f)
    /\ \A H : Spans(H, X) => Spans(H \cup G, X \cup UNION G)

LEMMA OverlappingInputs ==
  ASSUME NEW n \in 0..NumLevels - 1, LevelOK(n),
         NEW F, NEW X, X = UNION F, X \subseteq Entries, X # {},
         NEW G, G = GetOverlappingInputs(n, Lo(F), Hi(F))
  PROVE  Takes(n, X, G)
<1> DEFINE b == Lo(F)
           e == Hi(F)
           w == Widened(b, e)
           r1 == IF n = 0 THEN w[1] ELSE b
           r2 == IF n = 0 THEN w[2] ELSE e
<1>1. /\ b \in Keys /\ e \in Keys /\ b \in Nat /\ e \in Nat /\ b <= e
      /\ \E x \in X : x.k = b
      /\ \E x \in X : x.k = e
      /\ \A x \in X : x.k \in Nat /\ b <= x.k /\ x.k <= e
  <2>1. /\ b \in Keys /\ e \in Keys
        /\ \E x \in X : x.k = b
        /\ \E x \in X : x.k = e
        /\ \A x \in X : b <= x.k /\ x.k <= e
    BY LowAndHigh
  <2>2. b \in Nat /\ e \in Nat /\ \A x \in X : x.k \in Nat
    BY <2>1, EntryTypes
  <2>3. b <= e
    BY <2>1
  <2>4. QED
    BY <2>1, <2>2, <2>3
<1>2. Level(n) \subseteq Files
  BY DEF LevelOK
<1>3. n = 0 => w \in Keys \X Keys /\ IsWidened(w, b, e)
  BY <1>1, <1>2, WidenedIs
<1>4. r1 \in Keys /\ r2 \in Keys /\ r1 \in Nat /\ r2 \in Nat /\ r1 <= b /\ e <= r2
  <2>1. r1 \in Keys /\ r2 \in Keys /\ r1 <= b /\ e <= r2
    BY <1>1, <1>3 DEF IsWidened, Widens
  <2>2. QED
    BY <2>1, EntryTypes
<1>5. G = {f \in Level(n) : Overlaps(f, r1, r2)}
  BY <1>1, GetOverlappingIs
<1>6. n = 0 => Closed(r1, r2)
  BY <1>3 DEF IsWidened, Widens
<1>7. ASSUME NEW k \in Keys, r1 <= k, k <= r2, ~(b <= k /\ k <= e)
      PROVE  \E f \in G : Lo({f}) <= k /\ k <= Hi({f})
  <2>1. n = 0
    BY <1>7
  <2>2. QED
    BY <1>1, <1>2, <1>3, <1>5, <1>7, <2>1, WidenedHasNoGap
<1> HIDE DEF w, r1, r2, b, e
<1>8. \A f \in Files : Overlaps(f, b, e) <=> ~KeysApart(X, f)
  BY OverlapsRange DEF b, e
<1>9. G \subseteq Level(n)
  BY <1>5
<1>10. ASSUME NEW f \in Files, Overlaps(f, b, e) PROVE Overlaps(f, r1, r2)
  BY <1>1, <1>4, <1>10, FileRange DEF Overlaps
<1>11. \A f \in Level(n) : ~KeysApart(X, f) => f \in G
  BY <1>2, <1>5, <1>8, <1>10
<1>12. n # 0 => \A f \in G : ~KeysApart(X, f)
  BY <1>2, <1>5, <1>8 DEF r1, r2
<1>13. ASSUME n = 0, NEW f \in Level(0) \ G PROVE KeysApart(X \cup UNION G, f)
  <2>1. \A g \in G : r1 <= Lo({g}) /\ Hi({g}) <= r2
    BY <1>5, <1>6, <1>13 DEF Closed
  <2>2. \A x \in X \cup UNION G : x.k \in Nat /\ r1 <= x.k /\ x.k <= r2
    <3>1. \A x \in X : x.k \in Nat /\ r1 <= x.k /\ x.k <= r2
      BY <1>1, <1>4
    <3>2. ASSUME NEW g \in G, NEW x \in g PROVE x.k \in Nat /\ r1 <= x.k /\ x.k <= r2
      <4>1. g \in Files
        BY <1>2, <1>9
      <4>2. /\ x.k \in Nat /\ Lo({g}) <= x.k /\ x.k <= Hi({g})
            /\ Lo({g}) \in Nat /\ Hi({g}) \in Nat
        BY <3>2, <4>1, FileRange
      <4>3. r1 <= Lo({g}) /\ Hi({g}) <= r2
        BY <2>1
      <4>4. QED
        BY <1>4, <4>2, <4>3
    <3>3. QED
      BY <3>1, <3>2
  <2>3. f \in Files /\ ~Overlaps(f, r1, r2)
    BY <1>2, <1>5, <1>13
  <2>4. (\A x \in f : x.k \in Nat /\ r2 < x.k) \/ (\A x \in f : x.k \in Nat /\ x.k < r1)
    <3>1. /\ Lo({f}) \in Nat /\ Hi({f}) \in Nat
          /\ \A x \in f : x.k \in Nat /\ Lo({f}) <= x.k /\ x.k <= Hi({f})
      BY <2>3, FileRange
    <3>2. ASSUME r2 < Lo({f}), NEW x \in f PROVE x.k \in Nat /\ r2 < x.k
      <4>1. x.k \in Nat /\ Lo({f}) <= x.k
        BY <3>1
      <4>2. QED
        BY <1>4, <3>1, <3>2, <4>1
    <3>3. ASSUME Hi({f}) < r1, NEW x \in f PROVE x.k \in Nat /\ x.k < r1
      <4>1. x.k \in Nat /\ x.k <= Hi({f})
        BY <3>1
      <4>2. QED
        BY <1>4, <3>1, <3>3, <4>1
    <3>4. QED
      BY <1>4, <2>3, <3>1, <3>2, <3>3 DEF Overlaps
  <2>5. QED
    BY <1>4, <2>2, <2>4 DEF KeysApart
<1>14. ASSUME NEW H, Spans(H, X) PROVE Spans(H \cup G, X \cup UNION G)
  <2> SUFFICES ASSUME NEW k \in Keys, NEW x \in X \cup UNION G, NEW y \in X \cup UNION G,
                      x.k <= k, k <= y.k
               PROVE  \E f \in H \cup G : \E a, c \in f : a.k <= k /\ k <= c.k
    BY DEF Spans
  <2>1. k \in Nat
    BY EntryTypes
  <2>2. CASE b <= k /\ k <= e
    <3>1. \E f \in H : \E a, c \in f : a.k <= k /\ k <= c.k
      BY <1>1, <1>14, <2>2 DEF Spans
    <3>2. QED
      BY <3>1
  <2>3. ASSUME NEW f \in G, Lo({f}) <= k, k <= Hi({f})
        PROVE  \E h \in H \cup G : \E a, c \in h : a.k <= k /\ k <= c.k
    <3>1. f \in Files
      BY <1>2, <1>9
    <3>2. \E a, c \in f : a.k <= k /\ k <= c.k
      BY <2>3, <3>1, FileRange
    <3>3. QED
      BY <3>2
  <2>4. CASE r1 <= k /\ k <= r2 /\ ~(b <= k /\ k <= e)
    BY <1>7, <2>3, <2>4
  <2>5. CASE ~(r1 <= k /\ k <= r2)
    <3>1. PICK z \in {x, y} : \E g \in G : z \in g /\ ((k < r1 /\ z.k <= k) \/ (r2 < k /\ k <= z.k))
      BY <1>1, <1>4, <2>1, <2>5
    <3>2. PICK g \in G : z \in g /\ ((k < r1 /\ z.k <= k) \/ (r2 < k /\ k <= z.k))
      BY <3>1
    <3>3. g \in Files /\ Overlaps(g, r1, r2)
      BY <1>2, <1>5
    <3>4. Lo({g}) <= k /\ k <= Hi({g})
      BY <1>4, <2>1, <3>2, <3>3, FileRange DEF Overlaps
    <3>5. QED
      BY <2>3, <3>4
  <2>6. QED
    BY <2>2, <2>4, <2>5
<1>15. QED
  BY <1>9, <1>11, <1>12, <1>13, <1>14 DEF Takes

-----------------------------------------------------------------------------
(* The inputs of a compaction.                                             *)

LEMMA ApartSubset ==
  ASSUME NEW E, NEW D, D \subseteq E, NEW f
  PROVE  (KeysApart(E, f) => KeysApart(D, f)) /\ (KeysApart(f, E) => KeysApart(f, D))
BY DEF KeysApart

LEMMA SpansSubset ==
  ASSUME NEW F, NEW G, F \subseteq G, NEW E, NEW D, D \subseteq E, Spans(F, E)
  PROVE  Spans(G, D)
BY DEF Spans

\* What a compaction takes from level n and from the next one.
GoodInputs(n, i0, i1) ==
    /\ i0 \subseteq Level(n) /\ i0 # {} /\ i1 \subseteq Level(n + 1)
    /\ n = 0 => \A f \in Level(0) \ i0 : KeysApart(UNION i0, f)
    /\ \A f \in Level(n + 1) \ i1 : KeysApart(UNION i0, f)
    /\ \A f \in i1 : ~KeysApart(UNION i0, f)
    /\ Spans(i0 \cup i1, (UNION i0) \cup (UNION i1))

LEMMA FilesOf ==
  ASSUME NEW L, L \subseteq Files, NEW F, F \subseteq L, F # {}
  PROVE  UNION F \subseteq Entries /\ UNION F # {} /\ \A f \in F : f # {} /\ f \subseteq UNION F
BY DEF Files

LEMMA NotApartFromPart ==
  ASSUME NEW E, E \subseteq Entries, NEW f, f # {}, f \subseteq E
  PROVE  ~KeysApart(E, f)
<1>1. PICK e \in f : e \in E /\ e.k \in Nat
  BY EntryTypes
<1>2. ~(e.k < e.k)
  BY <1>1
<1>3. QED
  BY <1>1, <1>2 DEF KeysApart

LEMMA InputsAre ==
  ASSUME NEW n \in 0..NumLevels - 2, LevelOK(n), LevelOK(n + 1),
         NEW in0, in0 \subseteq Level(n), in0 # {}, Spans(in0, UNION in0),
         n = 0 => \A f \in Level(0) \ in0 : KeysApart(UNION in0, f),
         NEW in \in Inputs(n, in0)
  PROVE  GoodInputs(n, in[1], in[2])
<1> DEFINE in1 == GetOverlappingInputs(n + 1, Lo(in0), Hi(in0))
           exp0 == GetOverlappingInputs(n, Lo(in0 \cup in1), Hi(in0 \cup in1))
           exp1 == GetOverlappingInputs(n + 1, Lo(exp0), Hi(exp0))
           X0 == UNION in0
           X1 == UNION (in0 \cup in1)
           X2 == UNION exp0
<1>1. in = <<in0, in1>> \/ in = <<exp0, exp1>>
  BY DEF Inputs
<1>2. n \in 0..NumLevels - 1 /\ n + 1 \in 0..NumLevels - 1 /\ n + 1 # 0
  BY CompactionAssumption
<1>3. Level(n) \subseteq Files /\ Level(n + 1) \subseteq Files
  BY DEF LevelOK
<1>4. X0 \subseteq Entries /\ X0 # {} /\ \A f \in in0 : f # {} /\ f \subseteq X0
  BY <1>3, FilesOf
<1>5. /\ in1 \subseteq Level(n + 1)
      /\ \A f \in Level(n + 1) : ~KeysApart(X0, f) => f \in in1
      /\ \A f \in in1 : ~KeysApart(X0, f)
      /\ Spans(in0 \cup in1, X0 \cup UNION in1)
  <2>1. Takes(n + 1, X0, in1)
    BY <1>2, <1>4, OverlappingInputs
  <2> HIDE DEF in1, X0
  <2>2. X0 = UNION in0
    BY DEF X0
  <2>3. QED
    BY <1>2, <2>1, <2>2 DEF Takes
<1>6. CASE in = <<in0, in1>>
  <2> HIDE DEF in1
  <2>1. in[1] = in0 /\ in[2] = in1
    BY <1>6
  <2>2. \A f \in Level(n + 1) \ in1 : KeysApart(X0, f)
    BY <1>5
  <2>3. X0 = UNION in0
    OBVIOUS
  <2> HIDE DEF X0
  <2>4. GoodInputs(n, in0, in1)
    BY <1>5, <2>2, <2>3 DEF GoodInputs
  <2>5. QED
    BY <2>1, <2>4
<1>7. X1 \subseteq Entries /\ X1 # {} /\ X1 = X0 \cup UNION in1
  <2> HIDE DEF in1
  <2>1. UNION in1 \subseteq Entries
    BY <1>3, <1>5 DEF Files
  <2>2. QED
    BY <1>4, <2>1
<1>8. /\ exp0 \subseteq Level(n)
      /\ \A f \in Level(n) : ~KeysApart(X1, f) => f \in exp0
      /\ n = 0 => \A f \in Level(0) \ exp0 : KeysApart(X1 \cup UNION exp0, f)
      /\ Spans((in0 \cup in1) \cup exp0, X1 \cup UNION exp0)
  <2>1. Takes(n, X1, exp0)
    <3>1. X1 = UNION (in0 \cup in1)
      OBVIOUS
    <3> HIDE DEF in1, X1, X0
    <3>2. QED
      BY <1>2, <1>7, <3>1, OverlappingInputs
  <2> HIDE DEF in1, X1, exp0, X0
  <2>2. Spans(in0 \cup in1, X1)
    BY <1>5, <1>7
  <2>3. QED
    BY <2>1, <2>2 DEF Takes
<1>9. in0 \subseteq exp0
  <2> SUFFICES ASSUME NEW f \in in0 PROVE f \in exp0
    OBVIOUS
  <2> HIDE DEF in1, X1, exp0, X0
  <2>1. f # {} /\ f \subseteq X1
    BY <1>4, <1>7
  <2>2. QED
    BY <1>7, <1>8, <2>1, NotApartFromPart
<1>10. X2 \subseteq Entries /\ X2 # {} /\ X0 \subseteq X2
  <2> HIDE DEF in1, X1, exp0
  <2>1. exp0 # {}
    BY <1>9
  <2>2. QED
    BY <1>3, <1>8, <1>9, <2>1, FilesOf
<1>11. /\ exp1 \subseteq Level(n + 1)
       /\ \A f \in Level(n + 1) : ~KeysApart(X2, f) => f \in exp1
       /\ \A f \in exp1 : ~KeysApart(X2, f)
       /\ \A H : Spans(H, X2) => Spans(H \cup exp1, X2 \cup UNION exp1)
  <2>1. Takes(n + 1, X2, exp1)
    <3>1. X2 = UNION exp0
      OBVIOUS
    <3> HIDE DEF exp0, X2
    <3>2. QED
      BY <1>2, <1>10, <3>1, OverlappingInputs
  <2> HIDE DEF in1, X1, exp0, X0, X2, exp1
  <2>2. QED
    BY <1>2, <2>1 DEF Takes
<1>12. in1 \subseteq exp1
  <2> SUFFICES ASSUME NEW f \in in1 PROVE f \in exp1
    OBVIOUS
  <2> HIDE DEF in1, X1, exp0, X0, X2, exp1
  <2>1. ~KeysApart(X0, f) /\ f \in Level(n + 1)
    BY <1>5
  <2>2. ~KeysApart(X2, f)
    BY <1>10, <2>1, ApartSubset
  <2>3. QED
    BY <1>11, <2>1, <2>2
<1>13. Spans(exp0 \cup exp1, X2 \cup UNION exp1)
  <2>1. X2 = UNION exp0
    OBVIOUS
  <2> HIDE DEF in1, X1, exp0, X0, X2, exp1
  <2>2. (in0 \cup in1) \cup exp0 \subseteq exp0 \cup in1 /\ X2 \subseteq X1 \cup UNION exp0
    BY <1>9, <2>1
  <2>3. Spans(exp0 \cup in1, X2)
    BY <1>8, <2>2, SpansSubset
  <2>4. Spans((exp0 \cup in1) \cup exp1, X2 \cup UNION exp1)
    BY <1>11, <2>3
  <2>5. (exp0 \cup in1) \cup exp1 = exp0 \cup exp1
    BY <1>12
  <2>6. QED
    BY <2>4, <2>5
<1>14. CASE in = <<exp0, exp1>>
  <2>1. X2 = UNION exp0 /\ (n = 0 => \A f \in Level(0) \ exp0 : KeysApart(X2, f))
    <3>1. X2 = UNION exp0
      OBVIOUS
    <3> HIDE DEF in1, X1, exp0, X0, X2, exp1
    <3>2. ASSUME n = 0, NEW f \in Level(0) \ exp0 PROVE KeysApart(X2, f)
      <4>1. KeysApart(X1 \cup UNION exp0, f)
        BY <1>8, <3>2
      <4>2. QED
        BY <3>1, <4>1, ApartSubset
    <3>3. QED
      BY <3>1, <3>2
  <2> HIDE DEF in1, X1, exp0, X0, X2, exp1
  <2>2. in[1] = exp0 /\ in[2] = exp1
    BY <1>14
  <2>3. exp0 # {}
    BY <1>9
  <2>6. \A f \in Level(n + 1) \ exp1 : KeysApart(X2, f)
    BY <1>11
  <2>4. GoodInputs(n, exp0, exp1)
    BY <1>8, <1>11, <1>13, <2>1, <2>3, <2>6 DEF GoodInputs
  <2>5. QED
    BY <2>2, <2>4
<1>15. QED
  BY <1>1, <1>6, <1>14

LEMMA PicksAre ==
  ASSUME NEW n \in 0..NumLevels - 2, LevelOK(n), LevelOK(n + 1),
         NEW f \in Level(n), NEW in \in Picks(n, f)
  PROVE  GoodInputs(n, in[1], in[2])
<1>1. n \in 0..NumLevels - 1 /\ Level(n) \subseteq Files
  BY CompactionAssumption DEF LevelOK
<1>2. f \in Files /\ f \subseteq Entries /\ f # {} /\ UNION {f} = f
  BY <1>1 DEF Files
<1>3. Spans({f}, f)
  BY DEF Spans
<1>4. CASE n # 0
  <2>1. in \in Inputs(n, {f})
    BY <1>4 DEF Picks
  <2>2. QED
    BY <1>2, <1>3, <1>4, <2>1, InputsAre
<1>5. CASE n = 0
  <2> DEFINE G == GetOverlappingInputs(0, Lo({f}), Hi({f}))
  <2>1. /\ G \subseteq Level(0)
        /\ \A g \in Level(0) : ~KeysApart(f, g) => g \in G
        /\ \A g \in Level(0) \ G : KeysApart(f \cup UNION G, g)
        /\ Spans({f} \cup G, f \cup UNION G)
    <3>1. Takes(0, f, G)
      BY <1>1, <1>2, <1>5, OverlappingInputs
    <3> HIDE DEF G
    <3>2. QED
      BY <1>3, <3>1 DEF Takes
  <2>2. in \in Inputs(0, G)
    BY <1>5 DEF Picks
  <2> HIDE DEF G
  <2>3. f \in G
    BY <1>2, <1>5, <2>1, NotApartFromPart
  <2>4. {f} \cup G = G /\ f \cup UNION G = UNION G
    BY <2>3
  <2>5. /\ G # {} /\ Spans(G, UNION G)
        /\ \A g \in Level(0) \ G : KeysApart(UNION G, g)
    BY <2>1, <2>3, <2>4
  <2>6. QED
    BY <1>5, <2>1, <2>2, <2>5, InputsAre
<1>6. QED
  BY <1>4, <1>5

-----------------------------------------------------------------------------
(* Level 0 without some of its files.                                      *)

\* The elements of a sequence.
Elements(s) == {s[i] : i \in DOMAIN s}

\* Older files before newer ones.
Ascending(s) == \A i, j \in DOMAIN s : i < j => \A e \in s[i], g \in s[j] : e.s < g.s

\* The first k elements.
Upto(s, k) == {s[j] : j \in 1..k}

\* What Without does at the i-th element, and its first k turns.
Turn(s, H, v, i) == IF i = 0 THEN <<>> ELSE IF s[i] \in H THEN v[i - 1] ELSE Append(v[i - 1], s[i])
Turns(s, H, v, k) == v = [i \in 0..k |-> Turn(s, H, v, i)]

LEMMA OneMoreTurn ==
  ASSUME NEW s, NEW H, NEW k \in Nat \ {0}, \E v : Turns(s, H, v, k - 1)
  PROVE  \E v : Turns(s, H, v, k)
<1>1. PICK v : Turns(s, H, v, k - 1)
  OBVIOUS
<1> DEFINE x == [i \in 0..k |-> IF i = k THEN Turn(s, H, v, k) ELSE v[i]]
<1>2. \A i \in 0..k - 1 : x[i] = v[i]
  OBVIOUS
<1>3. x[k] = Turn(s, H, v, k)
  OBVIOUS
<1>4. DOMAIN x = 0..k /\ x = [i \in 0..k |-> x[i]]
  OBVIOUS
<1> HIDE DEF x
<1>5. \A i \in 0..k - 1 : v[i] = Turn(s, H, v, i)
  BY <1>1 DEF Turns
<1>6. \A i \in 0..k : Turn(s, H, x, i) = Turn(s, H, v, i)
  BY <1>2 DEF Turn
<1>7. \A i \in 0..k : x[i] = Turn(s, H, x, i)
  BY <1>2, <1>3, <1>5, <1>6
<1>8. QED
  BY <1>4, <1>7 DEF Turns

LEMMA AllTurns == ASSUME NEW s, NEW H, NEW n \in Nat PROVE \E v : Turns(s, H, v, n)
<1> DEFINE Bad == {k \in 0..n : ~ \E v : Turns(s, H, v, k)}
<1>1. ASSUME Bad # {} PROVE FALSE
  <2>1. PICK k \in Bad : \A m \in Bad : k <= m
    <3>1. Bad \subseteq Nat
      OBVIOUS
    <3> HIDE DEF Bad
    <3>2. QED
      BY <1>1, <3>1, LeastOfNumbers
  <2>2. Turns(s, H, [i \in 0..0 |-> <<>>], 0)
    BY DEF Turns, Turn
  <2>3. k \in Nat \ {0} /\ k - 1 \in 0..n /\ k - 1 \notin Bad
    <3>1. k # 0
      BY <2>1, <2>2
    <3>2. QED
      BY <2>1, <3>1
  <2>4. QED
    BY <2>1, <2>3, OneMoreTurn
<1>2. QED
  BY <1>1

\* After k turns, v has the first k elements without those of H.
Others(T, s, H, v, k) ==
    v[k] \in Seq(T) /\ Elements(v[k]) = Upto(s, k) \ H /\ (Ascending(s) => Ascending(v[k]))

LEMMA TurnKeeps ==
  ASSUME NEW T, NEW s, NEW H, NEW k \in Nat \ {0}, s[k] \in T, 1..k \subseteq DOMAIN s,
         NEW v, v[k] = Turn(s, H, v, k),
         Others(T, s, H, v, k - 1)
  PROVE  Others(T, s, H, v, k)
<1> DEFINE q == v[k - 1]
           p == Append(q, s[k])
<1>1. v[k] = IF s[k] \in H THEN q ELSE p
  BY DEF Turn
<1>2. Upto(s, k) = Upto(s, k - 1) \cup {s[k]}
  BY DEF Upto
<1>3. q \in Seq(T) /\ Elements(q) = Upto(s, k - 1) \ H /\ (Ascending(s) => Ascending(q))
  BY DEF Others
<1>4. /\ p \in Seq(T) /\ DOMAIN q = 1..Len(q) /\ Len(q) \in Nat
      /\ DOMAIN p = 1..Len(q) + 1 /\ p[Len(q) + 1] = s[k]
      /\ \A i \in 1..Len(q) : p[i] = q[i]
  BY <1>3, AppendProperties, LenProperties
<1> HIDE DEF p, q
<1>5. Elements(p) = Elements(q) \cup {s[k]}
  BY <1>4 DEF Elements
<1>6. ASSUME Ascending(s) PROVE Ascending(p)
  <2> SUFFICES ASSUME NEW i \in DOMAIN p, NEW j \in DOMAIN p, i < j, NEW e \in p[i], NEW g \in p[j]
               PROVE  e.s < g.s
    BY DEF Ascending
  <2>1. i \in 1..Len(q) /\ p[i] = q[i]
    BY <1>4
  <2>2. CASE j \in 1..Len(q)
    BY <1>3, <1>4, <1>6, <2>1, <2>2 DEF Ascending
  <2>3. CASE j = Len(q) + 1
    <3>1. q[i] \in Upto(s, k - 1)
      BY <1>3, <1>4, <2>1 DEF Elements
    <3>2. PICK m \in 1..k - 1 : q[i] = s[m]
      BY <3>1 DEF Upto
    <3>3. m \in DOMAIN s /\ k \in DOMAIN s /\ m < k
      OBVIOUS
    <3>4. e \in s[m] /\ g \in s[k]
      BY <1>4, <2>1, <2>3, <3>2
    <3>5. QED
      BY <1>6, <3>3, <3>4 DEF Ascending
  <2>4. QED
    BY <1>4, <2>2, <2>3
<1>7. QED
  BY <1>1, <1>2, <1>3, <1>4, <1>5, <1>6 DEF Others

LEMMA WithoutIs ==
  ASSUME NEW T, NEW s \in Seq(T), NEW H
  PROVE  /\ Without(s, H) \in Seq(T) /\ Elements(Without(s, H)) = Elements(s) \ H
         /\ Ascending(s) => Ascending(Without(s, H))
<1> DEFINE n == Len(s)
           w == CHOOSE v : Turns(s, H, v, n)
           Bad == {i \in 0..n : ~Others(T, s, H, w, i)}
<1>1. n \in Nat /\ DOMAIN s = 1..n /\ \A i \in 1..n : s[i] \in T
  BY LenProperties, ElementOfSeq
<1>2. Turns(s, H, w, n)
  BY <1>1, AllTurns
<1>3. Without(s, H) = w[n]
  BY DEF Without, Turn, Turns
<1> HIDE DEF w, n
<1>4. \A i \in 0..n : w[i] = Turn(s, H, w, i)
  BY <1>2 DEF Turns
<1>5. Others(T, s, H, w, 0)
  <2>1. w[0] = <<>>
    BY <1>1, <1>4 DEF Turn
  <2>2. QED
    BY <2>1, EmptySeq DEF Elements, Upto, Others, Ascending
<1>6. ASSUME NEW i \in 1..n, Others(T, s, H, w, i - 1) PROVE Others(T, s, H, w, i)
  <2>1. i \in Nat \ {0} /\ s[i] \in T /\ w[i] = Turn(s, H, w, i) /\ 1..i \subseteq DOMAIN s
    BY <1>1, <1>4
  <2>2. QED
    BY <1>6, <2>1, TurnKeeps
<1>7. ASSUME Bad # {} PROVE FALSE
  <2>1. PICK k \in Bad : \A m \in Bad : k <= m
    <3>1. Bad \subseteq Nat
      BY <1>1
    <3> HIDE DEF Bad
    <3>2. QED
      BY <1>7, <3>1, LeastOfNumbers
  <2>2. k \in 1..n /\ k - 1 \in 0..n
    BY <1>1, <1>5, <2>1
  <2>3. Others(T, s, H, w, k - 1)
    <3>1. k - 1 \notin Bad
      BY <1>1, <2>1, <2>2
    <3>2. QED
      BY <2>2, <3>1
  <2>4. QED
    BY <1>6, <2>1, <2>2, <2>3
<1>8. Others(T, s, H, w, n)
  <2>1. n \in 0..n
    BY <1>1
  <2>2. n \notin Bad
    <3> HIDE DEF Bad
    <3>1. QED
      BY <1>7
  <2>3. QED
    BY <2>1, <2>2
<1>9. Upto(s, n) = Elements(s)
  BY <1>1 DEF Elements, Upto
<1>10. QED
  BY <1>3, <1>8, <1>9 DEF Others

-----------------------------------------------------------------------------
(* Order and ranges.                                                       *)

LEMMA ApartIs ==
  ASSUME NEW E, E \subseteq Entries, NEW F, F \subseteq Entries
  PROVE  /\ KeysApart(E, F) => Apart(E, F)
         /\ Apart(E, F) => OrderApart(E, F)
         /\ Apart(E, F) => Apart(F, E)
         /\ KeysApart(E, F) => KeysApart(F, E)
<1>1. \A e \in E \cup F : e.k \in Nat /\ e.s \in Nat
  BY EntryTypes
<1>2. KeysApart(E, F) => OrderApart(E, F)
  BY DEF KeysApart, OrderApart, Before
<1>3. KeysApart(E, F) => KeysApart(F, E)
  BY DEF KeysApart
<1>4. OrderApart(E, F) => OrderApart(F, E)
  BY DEF OrderApart
<1>5. QED
  BY <1>2, <1>3, <1>4 DEF Apart

LEMMA ApartParts ==
  ASSUME NEW E, NEW D, D \subseteq E, NEW F, Apart(E, F)
  PROVE  Apart(D, F)
BY DEF Apart, KeysApart, OrderApart

\* A file apart from the inputs of level n, and from each of those of the
\* next level that meet them, is apart from all the inputs.
LEMMA Beside ==
  ASSUME NEW E, E \subseteq Entries, NEW I, I \subseteq Files,
         NEW g \in Files, KeysApart(E, g),
         \A h \in I : Apart(h, g) /\ ~KeysApart(E, h)
  PROVE  Apart(E \cup UNION I, g)
<1>1. g # {} /\ \A x \in E \cup g \cup UNION I : x.k \in Nat /\ x.s \in Nat
  BY EntryTypes DEF Files
<1>2. CASE \A e \in E, x \in g : e.k < x.k
  <2>1. ASSUME NEW h \in I, \A x \in g, y \in h : x.k <= y.k PROVE FALSE
    <3>1. PICK e \in E, y \in h : ~(e.k < y.k)
      BY <2>1 DEF KeysApart
    <3>2. PICK x \in g : TRUE
      BY <1>1
    <3>3. e.k < x.k /\ x.k <= y.k
      BY <1>2, <2>1
    <3>4. e.k \in Nat /\ x.k \in Nat /\ y.k \in Nat
      BY <1>1
    <3>5. QED
      BY <3>1, <3>3, <3>4
  <2>2. CASE NeverSplits
    <3>1. ASSUME NEW h \in I, NEW y \in h, NEW x \in g PROVE y.k < x.k
      <4>1. (\A a \in h, b \in g : a.k < b.k) \/ (\A a \in h, b \in g : b.k < a.k)
        BY <2>2 DEF Apart, KeysApart
      <4>2. CASE \A a \in h, b \in g : b.k < a.k
        BY <1>1, <2>1, <4>2
      <4>3. QED
        BY <4>1, <4>2
    <3>2. KeysApart(E \cup UNION I, g)
      BY <1>2, <3>1 DEF KeysApart
    <3>3. QED
      BY <2>2, <3>2 DEF Apart
  <2>3. CASE ~NeverSplits
    <3>1. ASSUME NEW h \in I, NEW y \in h, NEW x \in g PROVE Before(y, x)
      <4>1. (\A a \in h, b \in g : Before(a, b)) \/ (\A a \in h, b \in g : Before(b, a))
        BY <2>3 DEF Apart, OrderApart
      <4>2. CASE \A a \in h, b \in g : Before(b, a)
        <5>1. \A a \in g, b \in h : a.k <= b.k
          BY <1>1, <4>2 DEF Before
        <5>2. QED
          BY <2>1, <5>1
      <4>3. QED
        BY <4>1, <4>2
    <3>2. OrderApart(E \cup UNION I, g)
      BY <1>2, <3>1 DEF OrderApart, Before
    <3>3. QED
      BY <2>3, <3>2 DEF Apart
  <2>4. QED
    BY <2>2, <2>3
<1>3. CASE \A e \in E, x \in g : x.k < e.k
  <2>1. ASSUME NEW h \in I, \A x \in g, y \in h : y.k <= x.k PROVE FALSE
    <3>1. PICK e \in E, y \in h : ~(y.k < e.k)
      BY <2>1 DEF KeysApart
    <3>2. PICK x \in g : TRUE
      BY <1>1
    <3>3. x.k < e.k /\ y.k <= x.k
      BY <1>3, <2>1
    <3>4. e.k \in Nat /\ x.k \in Nat /\ y.k \in Nat
      BY <1>1
    <3>5. QED
      BY <3>1, <3>3, <3>4
  <2>2. CASE NeverSplits
    <3>1. ASSUME NEW h \in I, NEW y \in h, NEW x \in g PROVE x.k < y.k
      <4>1. (\A a \in h, b \in g : a.k < b.k) \/ (\A a \in h, b \in g : b.k < a.k)
        BY <2>2 DEF Apart, KeysApart
      <4>2. CASE \A a \in h, b \in g : a.k < b.k
        BY <1>1, <2>1, <4>2
      <4>3. QED
        BY <4>1, <4>2
    <3>2. KeysApart(E \cup UNION I, g)
      BY <1>3, <3>1 DEF KeysApart
    <3>3. QED
      BY <2>2, <3>2 DEF Apart
  <2>3. CASE ~NeverSplits
    <3>1. ASSUME NEW h \in I, NEW y \in h, NEW x \in g PROVE Before(x, y)
      <4>1. (\A a \in h, b \in g : Before(a, b)) \/ (\A a \in h, b \in g : Before(b, a))
        BY <2>3 DEF Apart, OrderApart
      <4>2. CASE \A a \in h, b \in g : Before(a, b)
        <5>1. \A a \in g, b \in h : b.k <= a.k
          BY <1>1, <4>2 DEF Before
        <5>2. QED
          BY <2>1, <5>1
      <4>3. QED
        BY <4>1, <4>2
    <3>2. OrderApart(E \cup UNION I, g)
      BY <1>3, <3>1 DEF OrderApart, Before
    <3>3. QED
      BY <2>3, <3>2 DEF Apart
  <2>4. QED
    BY <2>2, <2>3
<1>4. QED
  BY <1>2, <1>3 DEF KeysApart

\* A file that each of the files F is apart from, is apart from all of what
\* they span.
LEMMA OutsideSpan ==
  ASSUME NEW F, NEW E, E \subseteq Entries, Spans(F, E), UNION F \subseteq Entries,
         NEW m \in Files, \A f \in F : KeysApart(f, m)
  PROVE  KeysApart(E, m)
<1>1. (\A x \in m : x.k \in Nat /\ x.k \in Keys) /\ \A x \in E \cup UNION F : x.k \in Nat
  BY EntryTypes DEF Files
<1>2. ASSUME NEW x \in m, NEW f \in F, NEW a \in f, NEW b \in f PROVE ~(a.k <= x.k /\ x.k <= b.k)
  <2>1. a.k \in Nat /\ b.k \in Nat /\ x.k \in Nat
    BY <1>1
  <2>2. QED
    BY <2>1 DEF KeysApart
<1>3. ASSUME NEW x \in m, NEW a \in E, NEW b \in E PROVE ~(a.k <= x.k /\ x.k <= b.k)
  BY <1>1, <1>2 DEF Spans
<1>4. \A x \in m : (\A a \in E : a.k < x.k) \/ (\A a \in E : x.k < a.k)
  BY <1>1, <1>3
<1>5. ASSUME NEW x \in m, \A a \in E : a.k < x.k,
             NEW y \in m, \A a \in E : y.k < a.k, E # {}
      PROVE FALSE
  <2>1. PICK a \in E : TRUE
    BY <1>5
  <2>2. a.k \in Keys /\ a.k \in Nat /\ a.k <= a.k
    BY EntryTypes
  <2>3. PICK f \in F : \E p, q \in f : p.k <= a.k /\ a.k <= q.k
    BY <2>2 DEF Spans
  <2>4. PICK p \in f, q \in f : p.k <= a.k /\ a.k <= q.k
    BY <2>3
  <2>5. p.k \in Nat /\ q.k \in Nat /\ x.k \in Nat /\ y.k \in Nat /\ a.k < x.k /\ y.k < a.k
    BY <1>1, <1>5
  <2>6. p.k < x.k /\ y.k < q.k
    BY <2>2, <2>4, <2>5
  <2>7. (p.k < x.k /\ q.k < y.k) \/ (x.k < p.k /\ y.k < q.k)
    BY DEF KeysApart
  <2>8. QED
    BY <2>2, <2>4, <2>5, <2>6, <2>7
<1>6. QED
  BY <1>4, <1>5 DEF KeysApart

-----------------------------------------------------------------------------
(* The ends of a file.                                                     *)

LEMMA EntriesAreFinite == IsFiniteSet(Entries)
<1> DEFINE P == (Keys \X (1..MaxSeq)) \X BOOLEAN
           f == [p \in P |-> [k |-> p[1][1], s |-> p[1][2], del |-> p[2]]]
<1>1. IsFiniteSet(P)
  <2>1. IsFiniteSet(Keys) /\ IsFiniteSet(1..MaxSeq) /\ IsFiniteSet(BOOLEAN)
    <3>1. IsFiniteSet(1..MaxSeq)
      BY CompactionAssumption, FS_Interval
    <3>2. IsFiniteSet({TRUE} \cup {FALSE})
      BY FS_Singleton, FS_Union
    <3>3. BOOLEAN = {TRUE} \cup {FALSE}
      OBVIOUS
    <3>4. QED
      BY <3>1, <3>2, <3>3, CompactionAssumption
  <2>2. QED
    BY <2>1, FS_Product
<1>2. f \in Surjection(P, Entries)
  <2>1. f \in [P -> Entries]
    BY DEF Entries
  <2>2. ASSUME NEW e \in Entries PROVE \E p \in P : f[p] = e
    <3>1. e.k \in Keys /\ e.s \in 1..MaxSeq /\ e.del \in BOOLEAN /\ e = [k |-> e.k, s |-> e.s, del |-> e.del]
      BY DEF Entries
    <3>2. <<<<e.k, e.s>>, e.del>> \in P
      BY <3>1
    <3>3. f[<<<<e.k, e.s>>, e.del>>] = e
      BY <3>1, <3>2
    <3>4. QED
      BY <3>2, <3>3
  <2>3. QED
    BY <2>1, <2>2 DEF Surjection
<1>3. QED
  BY <1>1, <1>2, FS_Surjection

Unique(S) == \A e, g \in S : e.s = g.s => e = g

LEMMA EndsOf ==
  ASSUME NEW S, S \subseteq Entries, S # {}, Unique(S)
  PROVE  /\ Largest(S) \in S /\ \A g \in S \ {Largest(S)} : Before(g, Largest(S))
         /\ Smallest(S) \in S /\ \A g \in S \ {Smallest(S)} : Before(Smallest(S), g)
<1> DEFINE R == {p \in S \X S : Before(p[1], p[2])}
           Q == {p \in S \X S : Before(p[2], p[1])}
<1>1. \A x \in S : x.k \in Nat /\ x.s \in Nat
  BY EntryTypes
<1>2. IsFiniteSet(S)
  BY EntriesAreFinite, FS_Subset
<1>3. \A x, y \in S : (<<x, y>> \in R <=> Before(x, y)) /\ (<<x, y>> \in Q <=> Before(y, x))
  OBVIOUS
<1>4. \A x \in S : ~Before(x, x)
  BY <1>1 DEF Before
<1>5. \A x, y, z \in S : Before(x, y) /\ Before(y, z) => Before(x, z)
  BY <1>1 DEF Before
<1>6. \A x, y \in S : x # y => Before(x, y) \/ Before(y, x)
  BY <1>1 DEF Before, Unique
<1> HIDE DEF R, Q
<1>7. \E x \in S : \A y \in S \ {x} : <<y, x>> \in R
  <2>1. \A x, y \in S : x # y => <<x, y>> \in R \/ <<y, x>> \in R
    BY <1>3, <1>6
  <2>2. \A x, y, z \in S : <<x, y>> \in R /\ <<y, z>> \in R => <<x, z>> \in R
    BY <1>3, <1>5
  <2>3. \A x \in S : <<x, x>> \notin R
    BY <1>3, <1>4
  <2>4. QED
    BY <1>2, <2>1, <2>2, <2>3, LastElement
<1>8. \E x \in S : \A y \in S \ {x} : <<y, x>> \in Q
  <2>1. \A x, y \in S : x # y => <<x, y>> \in Q \/ <<y, x>> \in Q
    BY <1>3, <1>6
  <2>2. \A x, y, z \in S : <<x, y>> \in Q /\ <<y, z>> \in Q => <<x, z>> \in Q
    BY <1>3, <1>5
  <2>3. \A x \in S : <<x, x>> \notin Q
    BY <1>3, <1>4
  <2>4. QED
    BY <1>2, <2>1, <2>2, <2>3, LastElement
<1>9. \E x \in S : \A y \in S \ {x} : Before(y, x)
  BY <1>3, <1>7
<1>10. \E x \in S : \A y \in S \ {x} : Before(x, y)
  BY <1>3, <1>8
<1>11. Largest(S) \in S /\ \A g \in S \ {Largest(S)} : Before(g, Largest(S))
  BY <1>9 DEF Largest
<1>12. Smallest(S) \in S /\ \A g \in S \ {Smallest(S)} : Before(Smallest(S), g)
  BY <1>10 DEF Smallest
<1>13. QED
  BY <1>11, <1>12

\* What the types, and the numbers, say of each file.
LEMMA LevelFiles ==
  ASSUME LevelTypes, NEW n \in 0..NumLevels - 1
  PROVE  Level(n) \subseteq Files /\ UNION Level(n) \subseteq InTables
<1>1. Level(n) \subseteq Files
  <2>1. CASE n = 0
    BY <2>1, ElementOfSeq DEF LevelTypes, Level
  <2>2. CASE n # 0
    <3>1. n \in 1..NumLevels - 1
      BY <2>2
    <3>2. lv[n] \in SUBSET Files
      BY <3>1 DEF LevelTypes
    <3>3. QED
      BY <2>2, <3>2 DEF Level
  <2>3. QED
    BY <2>1, <2>2
<1>2. UNION Level(n) \subseteq InTables
  BY DEF InTables
<1>3. QED
  BY <1>1, <1>2

LEMMA FileFacts ==
  ASSUME LevelTypes, Numbered, NEW n \in 0..NumLevels - 1
  PROVE  /\ Level(n) \subseteq Files
         /\ UNION Level(n) \subseteq InTables
         /\ \A f \in Level(n) : f \subseteq Entries /\ f # {} /\ Unique(f)
<1>1. Level(n) \subseteq Files /\ UNION Level(n) \subseteq InTables
  BY LevelFiles
<1>2. \A f \in Level(n) : Unique(f)
  BY <1>1 DEF Unique, Numbered, Everything
<1>3. QED
  BY <1>1, <1>2 DEF Files

LEMMA DisjointLevels ==
  ASSUME LevelTypes, Numbered, LevelsApart
  PROVE  LevelsDisjoint
<1> SUFFICES ASSUME NEW n \in DOMAIN lv, NEW f \in lv[n], NEW g \in lv[n], f # g
             PROVE  Before(Largest(f), Smallest(g)) \/ Before(Largest(g), Smallest(f))
  BY DEF LevelsDisjoint
<1>1. n \in 0..NumLevels - 1 /\ f \in Level(n) /\ g \in Level(n)
  BY DEF LevelTypes, Level
<1>2. /\ f \subseteq Entries /\ f # {} /\ Unique(f)
      /\ g \subseteq Entries /\ g # {} /\ Unique(g)
  BY <1>1, FileFacts
<1>3. /\ Largest(f) \in f /\ Smallest(f) \in f
      /\ Largest(g) \in g /\ Smallest(g) \in g
  BY <1>2, EndsOf
<1>4. OrderApart(f, g)
  BY <1>2, ApartIs DEF LevelsApart
<1>5. QED
  BY <1>3, <1>4 DEF OrderApart

-----------------------------------------------------------------------------
(* Writes and snapshots.                                                   *)

LEMMA SameTables ==
  ASSUME l0' = l0, lv' = lv
  PROVE  /\ \A n : Level(n)' = Level(n)
         /\ InTables' = InTables
         /\ LevelsApart => LevelsApart'
<1>1. \A n : Level(n)' = Level(n)
  BY DEF Level
<1>2. InTables' = InTables
  BY <1>1 DEF InTables
<1>3. LevelsApart => LevelsApart'
  BY DEF LevelsApart
<1>4. QED
  BY <1>1, <1>2, <1>3

LEMMA InputFacts ==
  ASSUME LInv, comp # NoComp
  PROVE  /\ comp.level \in 0..NumLevels - 2 /\ comp.level + 1 \in DOMAIN lv
         /\ comp.level \in 0..NumLevels - 1 /\ comp.level + 1 \in 0..NumLevels - 1
         /\ comp.in0 \cup comp.in1 \subseteq Files
         /\ In \subseteq InTables /\ In \subseteq Entries
<1>1. comp.level \in 0..NumLevels - 2
  BY DEF LInv, LevelTypes
<1>2. /\ comp.level + 1 \in DOMAIN lv
      /\ comp.level \in 0..NumLevels - 1 /\ comp.level + 1 \in 0..NumLevels - 1
  BY <1>1, CompactionAssumption DEF LInv, LevelTypes
<1>3. comp.in0 \subseteq Level(comp.level) /\ comp.in1 \subseteq Level(comp.level + 1)
  BY <1>1 DEF LInv, InputsStay, Level
<1>4. LevelTypes /\ Numbered
  BY DEF LInv
<1>5. /\ Level(comp.level) \subseteq Files /\ UNION Level(comp.level) \subseteq InTables
      /\ Level(comp.level + 1) \subseteq Files /\ UNION Level(comp.level + 1) \subseteq InTables
  BY <1>2, <1>4, FileFacts
<1>6. comp.in0 \cup comp.in1 \subseteq Files
  BY <1>3, <1>5
<1>7. In \subseteq InTables
  BY <1>3, <1>5 DEF In
<1>8. In \subseteq Entries
  BY <1>6 DEF In, Files
<1>9. QED
  BY <1>1, <1>2, <1>6, <1>7, <1>8

LEMMA PutKeeps ==
  ASSUME LInv, NEW k \in Keys, NEW del \in Deletes, Put(k, del)
  PROVE  LInv'
<1> DEFINE new == [k |-> k, s |-> lastSeq + 1, del |-> del]
<1>1. /\ lastSeq < MaxSeq /\ lastSeq' = lastSeq + 1 /\ mem' = mem \cup {new}
      /\ UNCHANGED <<BigData, l0, lv, snapshots, comp, frozen>>
  BY DEF Put
<1>2. lastSeq \in Nat /\ lastSeq + 1 \in 1..MaxSeq /\ MaxSeq \in Nat
  BY <1>1, CompactionAssumption DEF LInv, LevelTypes
<1>3. new \in Entries /\ new.s = lastSeq + 1
  BY <1>2, CompactionAssumption DEF Entries
<1> HIDE DEF new
<1>4. (\A n : Level(n)' = Level(n)) /\ InTables' = InTables /\ LevelsApart'
  BY <1>1, SameTables DEF LInv
<1>5. LevelTypes'
  BY <1>1, <1>2, <1>3 DEF LInv, LevelTypes
<1>6. Everything' = Everything \cup {new}
  BY <1>1, <1>4 DEF Everything
<1>7. \A e \in Everything : e.s \in Nat /\ e.s <= lastSeq
  <2>1. mem \subseteq Entries
    BY DEF LInv, LevelTypes
  <2>2. InTables \subseteq Entries
    <3>1. LevelTypes /\ Numbered
      BY DEF LInv
    <3>2. \A n \in 0..NumLevels - 1 : Level(n) \subseteq Files
      BY <3>1, FileFacts
    <3>3. QED
      BY <3>2 DEF InTables, Files
  <2>3. QED
    BY <2>1, <2>2, EntryTypes DEF Everything, LInv, Numbered
<1>8. Numbered'
  <2>1. ASSUME NEW e \in Everything', NEW g \in Everything', e.s = g.s PROVE e = g
    BY <1>2, <1>3, <1>6, <1>7, <2>1 DEF LInv, Numbered
  <2>2. ASSUME NEW e \in Everything' PROVE e.s <= lastSeq'
    BY <1>1, <1>2, <1>3, <1>6, <1>7, <2>2
  <2>3. ASSUME NEW e \in mem', NEW g \in InTables' PROVE g.s < e.s
    <3>1. g \in InTables /\ g \in Everything
      BY <1>4 DEF Everything
    <3>2. CASE e = new
      BY <1>2, <1>3, <1>7, <3>1, <3>2
    <3>3. CASE e # new
      BY <1>1, <3>1, <3>3 DEF LInv, Numbered
    <3>4. QED
      BY <3>2, <3>3
  <2>4. \A i, j \in DOMAIN l0' : i < j => \A e \in l0'[i], g \in l0'[j] : e.s < g.s
    BY <1>1 DEF LInv, Numbered
  <2>5. QED
    BY <2>1, <2>2, <2>3, <2>4 DEF Numbered
<1>9. InputsStay'
  <2>1. comp # NoComp => comp.snap \in 0..lastSeq'
    BY <1>1, <1>2 DEF LInv, InputsStay
  <2>2. QED
    BY <1>1, <1>4, <2>1 DEF LInv, InputsStay, In
<1>10. NoSnapshots'
  BY <1>1 DEF LInv, NoSnapshots
<1>11. QED
  BY <1>4, <1>5, <1>8, <1>9, <1>10 DEF LInv

\* A step that changes nothing but the snapshots.
LEMMA SnapshotStep ==
  ASSUME LInv, UNCHANGED <<BigData, mem, l0, lv, lastSeq, comp>>,
         snapshots' \subseteq snapshots \cup {lastSeq}, NoSnapshots'
  PROVE  LInv'
<1>1. lastSeq \in Nat /\ lastSeq \in 0..lastSeq
  BY DEF LInv, LevelTypes
<1>2. (\A n : Level(n)' = Level(n)) /\ InTables' = InTables /\ LevelsApart'
  BY SameTables DEF LInv
<1>3. LevelTypes'
  BY <1>1 DEF LInv, LevelTypes
<1>4. Numbered'
  BY <1>2 DEF LInv, Numbered, Everything
<1>5. InputsStay'
  <2>1. comp # NoComp => comp.snap <= lastSeq
    BY DEF LInv, InputsStay
  <2>2. QED
    BY <1>2, <2>1 DEF LInv, InputsStay, In
<1>6. QED
  BY <1>2, <1>3, <1>4, <1>5 DEF LInv

LEMMA GetSnapshotKeeps ==
  ASSUME LInv, GetSnapshot
  PROVE  LInv'
<1>1. /\ Cardinality(snapshots) < MaxSnapshots[BigData] /\ snapshots' = snapshots \cup {lastSeq}
      /\ UNCHANGED <<BigData, mem, l0, lv, lastSeq, comp>>
  BY DEF GetSnapshot
<1>2. ~(BigData /\ NeverSplits)
  <2>1. IsFiniteSet(snapshots) /\ Cardinality(snapshots) \in Nat
    <3>1. snapshots \in SUBSET (0..lastSeq) /\ lastSeq \in Int
      BY DEF LInv, LevelTypes
    <3>2. IsFiniteSet(0..lastSeq)
      BY <3>1, FS_Interval
    <3>3. QED
      BY <3>1, <3>2, FS_Subset, FS_CardinalityType
  <2>2. ASSUME BigData, NeverSplits PROVE FALSE
    <3>1. BigData \in Sizes /\ BigData \in BOOLEAN
      BY CompactionAssumption DEF LInv, LevelTypes
    <3>2. BigData = TRUE
      BY <2>2, <3>1
    <3>3. MaxSnapshots[TRUE] = 0
      BY <2>2, <3>1, <3>2 DEF NeverSplits
    <3>4. MaxSnapshots[BigData] = 0
      BY <3>2, <3>3, Zenon
    <3>5. QED
      BY <1>1, <2>1, <3>4
  <2>3. QED
    BY <2>2
<1>3. NoSnapshots'
  BY <1>1, <1>2 DEF NoSnapshots
<1>4. QED
  BY <1>1, <1>3, SnapshotStep

LEMMA ReleaseSnapshotKeeps ==
  ASSUME LInv, NEW s \in snapshots, ReleaseSnapshot(s)
  PROVE  LInv'
<1>1. snapshots' = snapshots \ {s} /\ UNCHANGED <<BigData, mem, l0, lv, lastSeq, comp>>
  BY DEF ReleaseSnapshot
<1>2. NoSnapshots'
  BY <1>1 DEF LInv, NoSnapshots
<1>3. QED
  BY <1>1, <1>2, SnapshotStep

-----------------------------------------------------------------------------
(* Flushes.                                                                *)

\* A memtable that goes below level 0 meets no file down to its level.
LEMMA FlushedBelow ==
  ASSUME LInv, NEW n \in 0..MaxMemCompactLevel, Flush(n), n # 0,
         NEW m \in 0..n, NEW f \in Level(m)
  PROVE  KeysApart(mem, f)
<1> DEFINE free == {i \in 0..MaxMemCompactLevel :
                        \A j \in 0..i : ~OverlapInLevel(j, Lo({mem}), Hi({mem}))}
<1>1. free # {} /\ n \in IF BigData THEN free ELSE {CHOOSE i \in free : \A j \in free : j <= i}
  BY DEF Flush, PickLevelForMemTableOutput
<1>2. n \in free
  <2>1. MaxMemCompactLevel \in Int /\ free \in SUBSET (0..MaxMemCompactLevel)
    BY CompactionAssumption
  <2> HIDE DEF free
  <2>2. free \subseteq Int /\ IsFiniteSet(free)
    <3>1. IsFiniteSet(0..MaxMemCompactLevel)
      BY <2>1, FS_Interval
    <3>2. IsFiniteSet(free)
      BY <2>1, <3>1, FS_Subset
    <3>3. free \subseteq Int
      BY <2>1
    <3>4. QED
      BY <3>2, <3>3
  <2>3. \E i \in free : \A j \in free : j <= i
    BY <1>1, <2>2, LargestNumber
  <2>4. QED
    BY <1>1, <2>3
<1>3. ~Overlaps(f, Lo({mem}), Hi({mem}))
  BY <1>2 DEF OverlapInLevel
<1>4. m \in 0..NumLevels - 1
  BY CompactionAssumption
<1>5. f \in Files
  <2>1. LevelTypes /\ Numbered
    BY DEF LInv
  <2>2. QED
    BY <1>4, <2>1, FileFacts
<1>6. UNION {mem} = mem /\ mem \subseteq Entries /\ mem # {}
  BY DEF Flush, LInv, LevelTypes
<1>7. QED
  BY <1>3, <1>5, <1>6, OverlapsRange

LEMMA FlushedLevels ==
  ASSUME LevelTypes, NEW n \in 0..MaxMemCompactLevel, Flush(n)
  PROVE  /\ n \in 0..NumLevels - 1 /\ mem \in Files
         /\ Level(n)' = Level(n) \cup {mem}
         /\ \A m \in 0..NumLevels - 1 : m # n => Level(m)' = Level(m)
         /\ l0' = (IF n = 0 THEN Append(l0, mem) ELSE l0)
         /\ DOMAIN lv' = DOMAIN lv /\ lv' \in [1..NumLevels - 1 -> SUBSET Files]
<1>1. n \in 0..NumLevels - 1 /\ mem \in Files
  BY CompactionAssumption DEF Flush, LevelTypes, Files
<1>2. DOMAIN lv = 1..NumLevels - 1 /\ lv \in [1..NumLevels - 1 -> SUBSET Files]
  BY DEF LevelTypes
<1>3. CASE n = 0
  <2>1. l0' = Append(l0, mem) /\ lv' = lv
    BY <1>3 DEF Flush
  <2>2. l0 \in Seq(Files)
    BY DEF LevelTypes
  <2>3. /\ DOMAIN l0 = 1..Len(l0) /\ Len(l0) \in Nat
        /\ DOMAIN l0' = 1..Len(l0) + 1 /\ l0'[Len(l0) + 1] = mem
        /\ \A i \in 1..Len(l0) : l0'[i] = l0[i]
    BY <1>1, <2>1, <2>2, AppendProperties, LenProperties
  <2>4. {l0'[i] : i \in DOMAIN l0'} = {l0[i] : i \in DOMAIN l0} \cup {mem}
    BY <2>3
  <2>5. Level(0)' = Level(0) \cup {mem}
    BY <2>4 DEF Level
  <2>6. QED
    BY <1>1, <1>2, <1>3, <2>1, <2>5 DEF Level
<1>4. CASE n # 0
  <2>1. l0' = l0 /\ lv' = [lv EXCEPT ![n] = @ \cup {mem}]
    BY <1>4 DEF Flush
  <2>2. n \in DOMAIN lv
    BY <1>1, <1>2, <1>4
  <2>3. QED
    BY <1>1, <1>2, <1>4, <2>1, <2>2 DEF Level
<1>5. QED
  BY <1>3, <1>4

LEMMA FlushKeeps ==
  ASSUME LInv, NEW n \in 0..MaxMemCompactLevel, Flush(n)
  PROVE  LInv'
<1>1. /\ n \in 0..NumLevels - 1 /\ mem \in Files
      /\ Level(n)' = Level(n) \cup {mem}
      /\ \A m \in 0..NumLevels - 1 : m # n => Level(m)' = Level(m)
      /\ l0' = (IF n = 0 THEN Append(l0, mem) ELSE l0)
      /\ DOMAIN lv' = DOMAIN lv /\ lv' \in [1..NumLevels - 1 -> SUBSET Files]
  BY FlushedLevels DEF LInv
<1>2. mem' = {} /\ UNCHANGED <<BigData, lastSeq, snapshots, comp, latest, frozen>>
  BY DEF Flush
<1>3. LevelTypes /\ Numbered /\ LevelsApart /\ InputsStay /\ NoSnapshots
  BY DEF LInv
<1>4. InTables' = InTables \cup mem
  BY <1>1 DEF InTables
<1>5. Everything' = Everything
  BY <1>2, <1>4 DEF Everything
<1>6. LevelTypes'
  <2>1. l0 \in Seq(Files)
    BY <1>3 DEF LevelTypes
  <2>2. l0' \in Seq(Files)
    BY <1>1, <2>1, AppendProperties
  <2>3. QED
    BY <1>1, <1>2, <1>3, <2>2 DEF LevelTypes
<1>7. Numbered'
  <2>1. l0 \in Seq(Files)
    BY <1>3 DEF LevelTypes
  <2>2. DOMAIN l0 = 1..Len(l0) /\ Len(l0) \in Nat
    BY <2>1, LenProperties
  <2>3. ASSUME NEW i \in DOMAIN l0', NEW j \in DOMAIN l0', i < j,
               NEW e \in l0'[i], NEW g \in l0'[j]
        PROVE  e.s < g.s
    <3>1. CASE n # 0
      BY <1>1, <1>3, <2>3, <3>1 DEF Numbered
    <3>2. CASE n = 0
      <4>1. /\ DOMAIN l0' = 1..Len(l0) + 1 /\ l0'[Len(l0) + 1] = mem
            /\ \A m \in 1..Len(l0) : l0'[m] = l0[m]
        BY <1>1, <2>1, <3>2, AppendProperties
      <4>2. i \in DOMAIN l0 /\ e \in l0[i]
        BY <2>2, <2>3, <4>1
      <4>3. CASE j = Len(l0) + 1
        <5>1. l0[i] \in Level(0)
          BY <4>2 DEF Level
        <5>2. 0 \in 0..NumLevels - 1
          BY CompactionAssumption
        <5>3. e \in InTables
          BY <4>2, <5>1, <5>2 DEF InTables
        <5>4. QED
          BY <1>3, <2>3, <4>1, <4>3, <5>3 DEF Numbered
      <4>4. CASE j # Len(l0) + 1
        <5>1. j \in DOMAIN l0 /\ g \in l0[j]
          BY <2>2, <2>3, <4>1, <4>4
        <5>2. QED
          BY <1>3, <2>3, <4>2, <5>1 DEF Numbered
      <4>5. QED
        BY <4>3, <4>4
    <3>3. QED
      BY <3>1, <3>2
  <2>4. QED
    BY <1>2, <1>3, <1>5, <2>3 DEF Numbered
<1>8. ASSUME n # 0, NEW m \in 0..n, NEW f \in Level(m) PROVE KeysApart(mem, f)
  BY <1>8, FlushedBelow
<1>9. LevelsApart'
  <2> SUFFICES ASSUME NEW m \in DOMAIN lv, NEW f \in lv'[m], NEW g \in lv'[m], f # g
               PROVE  Apart(f, g)
    BY <1>1 DEF LevelsApart
  <2>1. m \in 0..NumLevels - 1 /\ m # 0 /\ lv'[m] = Level(m)' /\ lv[m] = Level(m)
    BY <1>3 DEF LevelTypes, Level
  <2>2. CASE f \in lv[m] /\ g \in lv[m]
    BY <1>3, <2>2 DEF LevelsApart
  <2>3. ASSUME NEW h \in lv[m], m = n PROVE Apart(mem, h) /\ Apart(h, mem)
    <3>1. KeysApart(mem, h)
      BY <1>8, <2>1, <2>3
    <3>2. h \in Files
      BY <1>3, <2>1, FileFacts
    <3>3. mem \subseteq Entries /\ h \subseteq Entries
      BY <1>1, <3>2 DEF Files
    <3>4. QED
      BY <3>1, <3>3, ApartIs
  <2>4. QED
    BY <1>1, <2>1, <2>2, <2>3
<1>10. InputsStay'
  <2> SUFFICES ASSUME comp # NoComp
               PROVE  InputsStay'
    BY <1>2 DEF InputsStay
  <2>0. PICK L : L = comp.level
    OBVIOUS
  <2> DEFINE F == comp.in0 \cup comp.in1
  <2>1. /\ L \in 0..NumLevels - 2 /\ L + 1 \in DOMAIN lv
        /\ L \in 0..NumLevels - 1 /\ L + 1 \in 0..NumLevels - 1
        /\ F \subseteq Files /\ In = UNION F
        /\ In \subseteq InTables /\ In \subseteq Entries
    BY <2>0, InputFacts DEF In
  <2>2. Level(L + 1) = lv[L + 1] /\ Level(L + 1)' = lv'[L + 1]
    BY <2>1 DEF Level
  <2>3. /\ comp.in0 \subseteq Level(L) /\ comp.in1 \subseteq Level(L + 1) /\ Spans(F, In)
        /\ \A g \in Level(L + 1) \ comp.in1 : Apart(In, g)
    BY <1>3, <2>0, <2>2 DEF InputsStay
  <2>4. comp.in0 \subseteq Level(L)' /\ comp.in1 \subseteq Level(L + 1)'
    BY <1>1, <2>1, <2>3
  <2>5. ASSUME n \in L + 1..NumLevels - 1, NEW f \in F PROVE KeysApart(f, mem)
    <3>1. n # 0 /\ L \in 0..n /\ L + 1 \in 0..n
      BY <2>1, <2>5
    <3>2. KeysApart(mem, f)
      BY <1>8, <2>3, <3>1
    <3>3. QED
      BY <3>2 DEF KeysApart
  <2>6. ASSUME NEW g \in Level(L + 1)' \ comp.in1 PROVE Apart(In, g)
    <3>1. CASE g \in Level(L + 1)
      BY <2>3, <2>6, <3>1
    <3>2. CASE g \notin Level(L + 1)
      <4>1. n = L + 1 /\ g = mem
        BY <1>1, <2>1, <2>6, <3>2
      <4>2. \A f \in F : KeysApart(f, mem)
        BY <2>1, <2>5, <4>1
      <4>3. KeysApart(In, mem)
        <5> HIDE DEF F
        <5>1. QED
          BY <1>1, <2>1, <2>3, <4>2, OutsideSpan
      <4>4. mem \subseteq Entries
        BY <1>3 DEF LevelTypes
      <4>5. QED
        BY <2>1, <4>1, <4>3, <4>4, ApartIs
    <3>3. QED
      BY <3>1, <3>2
  <2>7. ASSUME L = 0, NEW f \in Level(0)' \ comp.in0, NEW e \in f, NEW g \in UNION comp.in0, e.k = g.k
        PROVE  e.s > g.s
    <3>1. CASE f \in Level(0)
      BY <1>3, <2>0, <2>7, <3>1 DEF InputsStay
    <3>2. CASE f \notin Level(0)
      <4>1. f = mem
        BY <1>1, <2>1, <2>7, <3>2
      <4>2. g \in InTables
        BY <2>1, <2>7
      <4>3. g.s < e.s
        BY <1>3, <2>7, <4>1, <4>2 DEF Numbered
      <4>4. QED
        BY <4>3
    <3>3. QED
      BY <3>1, <3>2
  <2>8. ASSUME NEW m \in L + 2..NumLevels - 1, NEW f \in Level(m)' \ comp.deep, NEW e \in In
        PROVE  ~Overlaps(f, e.k, e.k)
    <3>1. CASE f \in Level(m)
      BY <1>3, <2>0, <2>8, <3>1 DEF InputsStay
    <3>2. CASE f \notin Level(m)
      <4>1. m \in 0..NumLevels - 1
        BY <2>1
      <4>2. m = n /\ f = mem
        BY <1>1, <2>8, <3>2, <4>1
      <4>3. PICK h \in F : e \in h
        BY <2>1, <2>8
      <4>4. KeysApart(h, mem)
        BY <2>1, <2>5, <4>2
      <4>5. e.k \in Keys /\ e.k \in Nat /\ \A x \in mem : x.k \in Nat
        BY <1>1, <2>1, EntryTypes DEF Files
      <4>6. (\A x \in mem : e.k < x.k) \/ (\A x \in mem : x.k < e.k)
        BY <4>3, <4>4 DEF KeysApart
      <4>7. ~((\E x \in mem : x.k <= e.k) /\ (\E x \in mem : e.k <= x.k))
        BY <4>5, <4>6
      <4>8. QED
        BY <1>1, <4>2, <4>5, <4>7, OverlapsIs
    <3>3. QED
      BY <3>1, <3>2
  <2>9. QED
    <3>1. In' = In
      BY <1>2 DEF In
    <3>2. UNCHANGED <<BigData, lastSeq, snapshots, comp>> /\ comp'.level = L
      BY <1>2, <2>0
    <3>3. InputsStay
      BY <1>3
    <3>4. QED
      BY <2>0, <2>2, <2>4, <2>6, <2>7, <2>8, <3>1, <3>2, <3>3 DEF InputsStay
<1>11. NoSnapshots'
  BY <1>2, <1>3 DEF NoSnapshots
<1>12. QED
  BY <1>6, <1>7, <1>9, <1>10, <1>11 DEF LInv

-----------------------------------------------------------------------------
(* Moves and compactions.                                                  *)

\* The files of a compaction are never empty, cut anywhere: the last entry
\* is not where the cut is.
LEMMA OutputFiles ==
  ASSUME In \subseteq Entries, Unique(In), NEW out \in Outputs
  PROVE  Kept \subseteq In /\ out \subseteq Files /\ UNION out = Kept
<1>1. Kept \subseteq In
  BY DEF Kept, In
<1>2. Kept \subseteq Entries /\ Unique(Kept) /\ \A e \in Kept : e.k \in Nat /\ e.s \in Nat
  BY <1>1, EntryTypes DEF Unique
<1>3. CASE Kept = {}
  <2>1. out = {}
    BY <1>3 DEF Outputs
  <2>2. QED
    BY <1>1, <1>3, <2>1
<1>4. CASE Kept # {} /\ out = {Kept}
  BY <1>1, <1>2, <1>4 DEF Files
<1>5. CASE Kept # {} /\ out # {Kept}
  <2>1. PICK c \in Kept \ {Largest(Kept)} :
            out = {{e \in Kept : ~Before(c, e)}, {e \in Kept : Before(c, e)}}
    BY <1>5 DEF Outputs
  <2> DEFINE A == {e \in Kept : ~Before(c, e)}
             B == {e \in Kept : Before(c, e)}
  <2>2. c \in A
    BY <1>2 DEF Before
  <2>3. Largest(Kept) \in B
    BY <1>2, <1>5, EndsOf
  <2>4. A \subseteq Kept /\ B \subseteq Kept /\ A \cup B = Kept /\ out = {A, B}
    BY <2>1
  <2> HIDE DEF A, B
  <2>5. A \in Files /\ B \in Files
    BY <1>2, <2>2, <2>3, <2>4 DEF Files
  <2>6. QED
    BY <1>1, <2>4, <2>5
<1>6. QED
  BY <1>3, <1>4, <1>5

LEMMA OutputsAre ==
  ASSUME LInv, comp # NoComp, NEW out \in Outputs
  PROVE  /\ Kept \subseteq In /\ out \subseteq Files /\ UNION out = Kept
         /\ \A f, g \in out : f # g => Apart(f, g)
<1>1. In \subseteq InTables /\ In \subseteq Entries
  BY InputFacts
<1>2. Unique(In)
  BY <1>1 DEF Unique, LInv, Numbered, Everything
<1>3. Kept \subseteq In /\ out \subseteq Files /\ UNION out = Kept
  BY <1>1, <1>2, OutputFiles
<1>4. \A e \in Kept : e.k \in Nat /\ e.s \in Nat
  BY <1>1, <1>3, EntryTypes
<1>5. CASE Kept = {} \/ out = {Kept}
  <2>1. out = {} \/ out = {Kept}
    BY <1>5 DEF Outputs
  <2>2. QED
    BY <1>3, <2>1
<1>6. CASE Kept # {} /\ out # {Kept}
  <2>1. BigData
    BY <1>6 DEF Outputs
  <2>2. PICK c \in Kept \ {Largest(Kept)} :
            out = {{e \in Kept : ~Before(c, e)}, {e \in Kept : Before(c, e)}}
    BY <1>6 DEF Outputs
  <2> DEFINE A == {e \in Kept : ~Before(c, e)}
             B == {e \in Kept : Before(c, e)}
  <2>3. ASSUME NEW a \in A, NEW b \in B PROVE Before(a, b)
    BY <1>4 DEF Before
  <2>4. ASSUME NeverSplits, NEW a \in A, NEW b \in B PROVE a.k < b.k
    <3>1. Before(a, b)
      BY <2>3, <2>4
    <3>2. ASSUME a.k = b.k PROVE FALSE
      <4>1. a.s > b.s
        BY <1>4, <3>1, <3>2 DEF Before
      <4>2. a \in In /\ a.s <= comp.snap
        BY <1>3, <2>1, <2>4 DEF LInv, InputsStay
      <4>3. Dropped(b)
        BY <3>2, <4>1, <4>2 DEF Dropped, In
      <4>4. QED
        BY <4>3 DEF Kept
    <3>3. QED
      BY <1>4, <3>1, <3>2 DEF Before
  <2>5. out = {A, B}
    BY <2>2
  <2> HIDE DEF A, B
  <2>6. Apart(A, B)
    BY <2>3, <2>4 DEF Apart, KeysApart, OrderApart
  <2>7. A \subseteq Entries /\ B \subseteq Entries
    BY <1>3, <2>5 DEF Files
  <2>8. Apart(B, A)
    BY <2>6, <2>7, ApartIs
  <2>9. \A f, g \in out : f # g => Apart(f, g)
    BY <2>5, <2>6, <2>8
  <2>10. QED
    BY <1>3, <2>9
<1>7. QED
  BY <1>3, <1>5, <1>6

\* What the lemmas on levels ask for, of a state of the invariant.
LEMMA WhatItSays ==
  ASSUME LInv
  PROVE  /\ LevelTypes /\ Ascending(l0)
         /\ comp # NoComp => \A out \in Outputs : out \subseteq Files
<1>1. comp # NoComp => \A out \in Outputs : out \subseteq Files
  BY OutputsAre
<1>2. QED
  BY <1>1 DEF LInv, Numbered, Ascending

LEMMA MovedLevels ==
  ASSUME LevelTypes, NEW n \in 0..NumLevels - 2, NEW f \in Level(n), TrivialMove(n, f)
  PROVE  /\ Level(n)' = Level(n) \ {f}
         /\ Level(n + 1)' = Level(n + 1) \cup {f}
         /\ \A m \in 0..NumLevels - 1 : m # n /\ m # n + 1 => Level(m)' = Level(m)
         /\ l0' \in Seq(Files) /\ (Ascending(l0) => Ascending(l0'))
         /\ DOMAIN lv' = DOMAIN lv /\ lv' \in [1..NumLevels - 1 -> SUBSET Files]
<1>1. /\ DOMAIN lv = 1..NumLevels - 1 /\ lv \in [1..NumLevels - 1 -> SUBSET Files]
      /\ l0 \in Seq(Files) /\ NumLevels \in Nat
  BY CompactionAssumption DEF LevelTypes
<1>2. f \in Files
  <2>1. n \in 0..NumLevels - 1
    BY <1>1
  <2>2. QED
    BY <2>1, LevelFiles
<1>3. lv' = [m \in DOMAIN lv |->
                IF m = n THEN lv[m] \ {f} ELSE IF m = n + 1 THEN lv[m] \cup {f} ELSE lv[m]]
  BY DEF TrivialMove
<1>4. DOMAIN lv' = DOMAIN lv /\ lv' \in [1..NumLevels - 1 -> SUBSET Files]
  <2>1. \A m \in 1..NumLevels - 1 : lv[m] \in SUBSET Files
    BY <1>1
  <2>2. QED
    BY <1>1, <1>2, <1>3, <2>1
<1>5. \A m \in 1..NumLevels - 1 : Level(m)' = lv'[m] /\ Level(m) = lv[m]
  BY DEF Level
<1>6. /\ n + 1 \in 1..NumLevels - 1 /\ n + 1 # n
      /\ n # 0 => n \in 1..NumLevels - 1
  BY <1>1
<1>7. /\ Level(n + 1)' = Level(n + 1) \cup {f}
      /\ n # 0 => Level(n)' = Level(n) \ {f}
      /\ \A m \in 1..NumLevels - 1 : m # n /\ m # n + 1 => Level(m)' = Level(m)
  BY <1>1, <1>3, <1>5, <1>6
<1>8. /\ l0' \in Seq(Files) /\ (Ascending(l0) => Ascending(l0'))
      /\ Level(0)' = IF n = 0 THEN Level(0) \ {f} ELSE Level(0)
  <2>1. CASE n # 0
    <3>1. l0' = l0
      BY <2>1 DEF TrivialMove
    <3>2. QED
      BY <1>1, <2>1, <3>1 DEF Level
  <2>2. CASE n = 0
    <3>1. l0' = Without(l0, {f})
      BY <2>2 DEF TrivialMove
    <3>2. l0' \in Seq(Files) /\ Elements(l0') = Elements(l0) \ {f} /\ (Ascending(l0) => Ascending(l0'))
      BY <1>1, <3>1, WithoutIs
    <3>3. Level(0) = Elements(l0) /\ Level(0)' = Elements(l0')
      BY DEF Level, Elements
    <3>4. QED
      BY <2>2, <3>2, <3>3
  <2>3. QED
    BY <2>1, <2>2
<1>9. \A m \in 0..NumLevels - 1 : m # n /\ m # n + 1 => Level(m)' = Level(m)
  <2> TAKE m \in 0..NumLevels - 1
  <2>1. CASE m = 0
    BY <1>8, <2>1
  <2>2. CASE m # 0
    <3>1. m \in 1..NumLevels - 1
      BY <1>1, <2>2
    <3>2. QED
      BY <1>7, <3>1
  <2>3. QED
    BY <2>1, <2>2
<1>10. QED
  BY <1>4, <1>7, <1>8, <1>9

LEMMA MoveKeeps ==
  ASSUME LInv, NEW n \in 0..NumLevels - 2, NEW f \in Level(n), TrivialMove(n, f)
  PROVE  LInv' /\ Everything' = Everything
<1>1. /\ Level(n)' = Level(n) \ {f}
      /\ Level(n + 1)' = Level(n + 1) \cup {f}
      /\ \A m \in 0..NumLevels - 1 : m # n /\ m # n + 1 => Level(m)' = Level(m)
      /\ l0' \in Seq(Files) /\ Ascending(l0')
      /\ DOMAIN lv' = DOMAIN lv /\ lv' \in [1..NumLevels - 1 -> SUBSET Files]
  BY MovedLevels, WhatItSays
<1>2. /\ comp = NoComp /\ <<{f}, {}>> \in Picks(n, f)
      /\ UNCHANGED <<BigData, mem, lastSeq, snapshots, comp, latest, frozen>>
  BY DEF TrivialMove
<1>3. LevelTypes /\ Numbered /\ LevelsApart /\ InputsStay /\ NoSnapshots
  BY DEF LInv
<1>4. n \in 0..NumLevels - 1 /\ n + 1 \in 0..NumLevels - 1 /\ n + 1 # 0
  BY CompactionAssumption
<1>5. InTables' = InTables
  <2>1. \A e \in InTables : \E m \in 0..NumLevels - 1 : \E g \in Level(m) : e \in g
    BY DEF InTables
  <2>2. \A e \in InTables' : \E m \in 0..NumLevels - 1 : \E g \in Level(m)' : e \in g
    BY DEF InTables
  <2>3. ASSUME NEW e \in InTables PROVE e \in InTables'
    <3>1. PICK m \in 0..NumLevels - 1 : \E g \in Level(m) : e \in g
      BY <2>1, <2>3
    <3>2. PICK g \in Level(m) : e \in g
      BY <3>1
    <3>3. g \in Level(m)' \/ g \in Level(n + 1)'
      BY <1>1, <1>4
    <3>4. QED
      BY <1>4, <3>1, <3>2, <3>3 DEF InTables
  <2>4. ASSUME NEW e \in InTables' PROVE e \in InTables
    <3>1. PICK m \in 0..NumLevels - 1 : \E g \in Level(m)' : e \in g
      BY <2>2, <2>4
    <3>2. PICK g \in Level(m)' : e \in g
      BY <3>1
    <3>3. g \in Level(m) \/ g \in Level(n)
      BY <1>1, <1>4
    <3>4. QED
      BY <1>4, <3>1, <3>2, <3>3 DEF InTables
  <2>5. QED
    BY <2>3, <2>4
<1>6. Everything' = Everything
  BY <1>2, <1>5 DEF Everything
<1>7. LevelTypes'
  BY <1>1, <1>2, <1>3 DEF LevelTypes
<1>8. Numbered'
  BY <1>1, <1>2, <1>3, <1>5, <1>6 DEF Numbered, Ascending
<1>9. \A g \in Level(n + 1) : KeysApart(f, g)
  <2>1. LevelOK(n) /\ LevelOK(n + 1)
    BY <1>3, <1>4, FileFacts DEF LevelOK
  <2>2. GoodInputs(n, <<{f}, {}>>[1], <<{f}, {}>>[2])
    BY <1>2, <2>1, PicksAre
  <2>3. GoodInputs(n, {f}, {})
    BY <2>2
  <2>4. UNION {f} = f /\ Level(n + 1) \ {} = Level(n + 1)
    OBVIOUS
  <2>5. QED
    BY <2>3, <2>4 DEF GoodInputs
<1>10. LevelsApart'
  <2> SUFFICES ASSUME NEW m \in DOMAIN lv, NEW h \in lv'[m], NEW g \in lv'[m], h # g
               PROVE  Apart(h, g)
    BY <1>1 DEF LevelsApart
  <2>1. m \in 0..NumLevels - 1 /\ m # 0 /\ lv'[m] = Level(m)' /\ lv[m] = Level(m)
    BY <1>3 DEF LevelTypes, Level
  <2>2. CASE h \in lv[m] /\ g \in lv[m]
    BY <1>3, <2>2 DEF LevelsApart
  <2>3. ASSUME NEW x \in lv[m], m = n + 1 PROVE Apart(f, x) /\ Apart(x, f)
    <3>1. KeysApart(f, x)
      BY <1>9, <2>1, <2>3
    <3>2. f \in Files /\ x \in Files
      BY <1>3, <1>4, <2>1, FileFacts
    <3>3. f \subseteq Entries /\ x \subseteq Entries
      BY <3>2 DEF Files
    <3>4. QED
      BY <3>1, <3>3, ApartIs
  <2>4. QED
    BY <1>1, <2>1, <2>2, <2>3
<1>11. InputsStay' /\ NoSnapshots'
  BY <1>2, <1>3 DEF InputsStay, NoSnapshots
<1>12. QED
  BY <1>6, <1>7, <1>8, <1>10, <1>11 DEF LInv

LEMMA SmallestSnapshotIs ==
  ASSUME LInv
  PROVE  /\ SmallestSnapshot \in 0..lastSeq
         /\ \A t \in snapshots : SmallestSnapshot <= t
         /\ snapshots = {} => SmallestSnapshot = lastSeq
<1>1. lastSeq \in Nat /\ snapshots \subseteq 0..lastSeq
  BY DEF LInv, LevelTypes
<1>2. CASE snapshots = {}
  BY <1>1, <1>2 DEF SmallestSnapshot
<1>3. CASE snapshots # {}
  <2>1. \E s \in snapshots : \A t \in snapshots : s <= t
    <3>1. snapshots \subseteq Nat
      BY <1>1
    <3>2. QED
      BY <1>3, <3>1, LeastOfNumbers
  <2>2. QED
    BY <1>1, <1>3, <2>1 DEF SmallestSnapshot
<1>4. QED
  BY <1>2, <1>3

LEMMA StartKeeps ==
  ASSUME LInv, NEW n \in 0..NumLevels - 2, NEW f \in Level(n), StartCompaction(n, f)
  PROVE  LInv'
<1>1. PICK in \in Picks(n, f) : Begin(n, in)
  BY DEF StartCompaction
<1>2. UNCHANGED <<BigData, mem, l0, lv, lastSeq, snapshots, latest, frozen>>
  BY DEF StartCompaction
<1>3. LevelTypes /\ Numbered /\ LevelsApart /\ InputsStay /\ NoSnapshots
  BY DEF LInv
<1>4. /\ n \in 0..NumLevels - 1 /\ n + 1 \in 0..NumLevels - 1 /\ n + 1 # 0
      /\ n + 1 \in DOMAIN lv /\ Level(n + 1) = lv[n + 1]
  BY <1>3, CompactionAssumption DEF LevelTypes, Level
<1>5. PICK i0, i1 : i0 = in[1] /\ i1 = in[2]
  OBVIOUS
<1>6. GoodInputs(n, i0, i1)
  <2>1. LevelOK(n) /\ LevelOK(n + 1)
    BY <1>3, <1>4, FileFacts DEF LevelOK
  <2>2. QED
    BY <1>5, <2>1, PicksAre
<1>7. PICK deep : deep = UNION {Level(m) : m \in n + 2..NumLevels - 1}
  OBVIOUS
<1>8. /\ comp'.level = n /\ comp'.in0 = i0 /\ comp'.in1 = i1
      /\ comp'.snap = SmallestSnapshot /\ comp'.deep = deep
  BY <1>1, <1>5, <1>7 DEF Begin
<1>9. /\ \A m : Level(m)' = Level(m)
      /\ InTables' = InTables
      /\ LevelsApart'
  BY <1>2, <1>3, SameTables
<1>10. LevelTypes' /\ Numbered' /\ NoSnapshots'
  BY <1>2, <1>3, <1>8, <1>9 DEF LevelTypes, Numbered, Everything, NoSnapshots
<1>11. PICK E : E = UNION i0
  OBVIOUS
<1>12. In' = E \cup UNION i1 /\ i0 \subseteq Files /\ i1 \subseteq Files /\ E \subseteq Entries
  <2>1. i0 \subseteq Files /\ i1 \subseteq Files
    BY <1>3, <1>4, <1>6, FileFacts DEF GoodInputs
  <2>2. In' = UNION (i0 \cup i1)
    BY <1>8 DEF In
  <2>3. QED
    BY <1>11, <2>1, <2>2 DEF Files
<1>13. /\ i0 \subseteq Level(n) /\ i0 # {} /\ i1 \subseteq lv[n + 1]
       /\ Spans(i0 \cup i1, E \cup UNION i1)
       /\ \A g \in lv[n + 1] \ i1 : KeysApart(E, g)
       /\ \A h \in i1 : ~KeysApart(E, h)
       /\ n = 0 => \A g \in Level(0) \ i0 : KeysApart(E, g)
  BY <1>4, <1>6, <1>11 DEF GoodInputs
<1>14. ASSUME NEW g \in lv[n + 1] \ i1 PROVE Apart(E \cup UNION i1, g)
  <2>1. KeysApart(E, g)
    BY <1>13
  <2>2. \A h \in i1 : Apart(h, g) /\ ~KeysApart(E, h)
    BY <1>3, <1>4, <1>13, <1>14 DEF LevelsApart
  <2>3. g \in Files
    BY <1>3, <1>4, FileFacts
  <2>4. QED
    BY <1>12, <2>1, <2>2, <2>3, Beside
<1>15. ASSUME n = 0, NEW g \in Level(0) \ i0, NEW e \in g, NEW x \in E PROVE e.k # x.k
  <2>1. KeysApart(E, g)
    BY <1>13, <1>15
  <2>2. g \subseteq Entries
    BY <1>3, <1>4, <1>15, FileFacts DEF Files
  <2>3. e.k \in Nat /\ x.k \in Nat
    BY <1>12, <2>2, EntryTypes
  <2>4. QED
    BY <2>1, <2>3 DEF KeysApart
<1>16. ASSUME NEW m \in n + 2..NumLevels - 1 PROVE Level(m) \ deep = {}
  BY <1>7
<1>17. ASSUME BigData, NeverSplits, NEW e \in E \cup UNION i1 PROVE e.s <= SmallestSnapshot
  <2>1. SmallestSnapshot = lastSeq
    BY <1>3, <1>17, SmallestSnapshotIs DEF NoSnapshots
  <2>2. e \in InTables
    BY <1>3, <1>4, <1>6, <1>11, FileFacts DEF GoodInputs
  <2>3. QED
    BY <1>3, <2>1, <2>2 DEF Numbered, Everything
<1>18. InputsStay'
  <2>1. /\ i0 \subseteq Level(n)' /\ i1 \subseteq lv'[n + 1] /\ i0 # {}
        /\ Spans(i0 \cup i1, In')
        /\ \A g \in lv'[n + 1] \ i1 : Apart(In', g)
    BY <1>2, <1>9, <1>12, <1>13, <1>14
  <2>2. n = 0 => \A g \in Level(0)' \ i0 : \A e \in g, x \in UNION i0 : e.k = x.k => e.s > x.s
    BY <1>9, <1>11, <1>15
  <2>3. \A m \in n + 2..NumLevels - 1 : \A g \in Level(m)' \ deep : \A e \in In' : ~Overlaps(g, e.k, e.k)
    BY <1>9, <1>16
  <2>4. /\ SmallestSnapshot \in 0..lastSeq' /\ \A t \in snapshots' : SmallestSnapshot <= t
        /\ BigData' /\ NeverSplits => \A e \in In' : e.s <= SmallestSnapshot
    BY <1>2, <1>12, <1>17, SmallestSnapshotIs
  <2>5. QED
    BY <1>8, <2>1, <2>2, <2>3, <2>4 DEF InputsStay
<1>19. QED
  BY <1>9, <1>10, <1>18 DEF LInv

LEMMA FinishedLevels ==
  ASSUME LevelTypes, comp # NoComp => \A out \in Outputs : out \subseteq Files, FinishCompaction
  PROVE  \E L \in 0..NumLevels - 2, out \in Outputs :
            /\ comp # NoComp /\ L = comp.level
            /\ L \in 0..NumLevels - 1 /\ L + 1 \in 0..NumLevels - 1 /\ L + 1 \in DOMAIN lv
            /\ Level(L)' = Level(L) \ comp.in0
            /\ Level(L + 1)' = (Level(L + 1) \ comp.in1) \cup out
            /\ \A m \in 0..NumLevels - 1 : m # L /\ m # L + 1 => Level(m)' = Level(m)
            /\ l0' \in Seq(Files) /\ (Ascending(l0) => Ascending(l0'))
            /\ DOMAIN lv' = DOMAIN lv /\ lv' \in [1..NumLevels - 1 -> SUBSET Files]
<1>1. /\ DOMAIN lv = 1..NumLevels - 1 /\ lv \in [1..NumLevels - 1 -> SUBSET Files]
      /\ l0 \in Seq(Files) /\ NumLevels \in Nat
  BY CompactionAssumption DEF LevelTypes
<1>2. comp # NoComp
  BY DEF FinishCompaction
<1>3. PICK L, i0, i1 : L = comp.level /\ i0 = comp.in0 /\ i1 = comp.in1
  OBVIOUS
<1>4. L \in 0..NumLevels - 2 /\ L \in 0..NumLevels - 1 /\ L + 1 \in 0..NumLevels - 1 /\ L + 1 \in DOMAIN lv
  BY <1>1, <1>2, <1>3 DEF LevelTypes
<1>5. PICK out \in Outputs :
          lv' = [m \in DOMAIN lv |->
                    IF m = L THEN lv[m] \ i0
                    ELSE IF m = L + 1 THEN (lv[m] \ i1) \cup out
                    ELSE lv[m]]
  BY <1>3 DEF FinishCompaction
<1>6. out \subseteq Files
  BY <1>2
<1>7. DOMAIN lv' = DOMAIN lv /\ lv' \in [1..NumLevels - 1 -> SUBSET Files]
  <2>1. \A m \in 1..NumLevels - 1 : lv[m] \in SUBSET Files
    BY <1>1
  <2>2. QED
    BY <1>1, <1>5, <1>6, <2>1
<1>8. \A m \in 1..NumLevels - 1 : Level(m)' = lv'[m] /\ Level(m) = lv[m]
  BY DEF Level
<1>9. /\ L + 1 \in 1..NumLevels - 1 /\ L + 1 # L
      /\ L # 0 => L \in 1..NumLevels - 1
  BY <1>1, <1>4
<1>10. /\ Level(L + 1)' = (Level(L + 1) \ i1) \cup out
       /\ L # 0 => Level(L)' = Level(L) \ i0
       /\ \A m \in 1..NumLevels - 1 : m # L /\ m # L + 1 => Level(m)' = Level(m)
  BY <1>1, <1>5, <1>8, <1>9
<1>11. /\ l0' \in Seq(Files) /\ (Ascending(l0) => Ascending(l0'))
       /\ Level(0)' = IF L = 0 THEN Level(0) \ i0 ELSE Level(0)
  <2>1. CASE L # 0
    <3>1. l0' = l0
      BY <1>3, <2>1 DEF FinishCompaction
    <3>2. QED
      BY <1>1, <2>1, <3>1 DEF Level
  <2>2. CASE L = 0
    <3>1. l0' = Without(l0, i0)
      BY <1>3, <2>2 DEF FinishCompaction
    <3>2. l0' \in Seq(Files) /\ Elements(l0') = Elements(l0) \ i0 /\ (Ascending(l0) => Ascending(l0'))
      BY <1>1, <3>1, WithoutIs
    <3>3. Level(0) = Elements(l0) /\ Level(0)' = Elements(l0')
      BY DEF Level, Elements
    <3>4. QED
      BY <2>2, <3>2, <3>3
  <2>3. QED
    BY <2>1, <2>2
<1>12. \A m \in 0..NumLevels - 1 : m # L /\ m # L + 1 => Level(m)' = Level(m)
  <2> TAKE m \in 0..NumLevels - 1
  <2>1. CASE m = 0
    BY <1>11, <2>1
  <2>2. CASE m # 0
    <3>1. m \in 1..NumLevels - 1
      BY <1>1, <2>2
    <3>2. QED
      BY <1>10, <3>1
  <2>3. QED
    BY <2>1, <2>2
<1>13. Level(L)' = Level(L) \ i0
  BY <1>10, <1>11
<1>14. QED
  BY <1>2, <1>3, <1>4, <1>7, <1>10, <1>11, <1>12, <1>13

LEMMA FinishKeeps ==
  ASSUME LInv, FinishCompaction
  PROVE  LInv'
<1>1. PICK L \in 0..NumLevels - 2, out \in Outputs :
         /\ comp # NoComp /\ L = comp.level
         /\ L \in 0..NumLevels - 1 /\ L + 1 \in 0..NumLevels - 1 /\ L + 1 \in DOMAIN lv
         /\ Level(L)' = Level(L) \ comp.in0
         /\ Level(L + 1)' = (Level(L + 1) \ comp.in1) \cup out
         /\ \A m \in 0..NumLevels - 1 : m # L /\ m # L + 1 => Level(m)' = Level(m)
         /\ l0' \in Seq(Files) /\ Ascending(l0')
         /\ DOMAIN lv' = DOMAIN lv /\ lv' \in [1..NumLevels - 1 -> SUBSET Files]
  BY FinishedLevels, WhatItSays
<1>2. comp' = NoComp /\ UNCHANGED <<BigData, mem, lastSeq, snapshots, latest, frozen>>
  BY DEF FinishCompaction
<1>3. LevelTypes /\ Numbered /\ LevelsApart /\ InputsStay /\ NoSnapshots
  BY DEF LInv
<1>4. /\ Kept \subseteq In /\ out \subseteq Files /\ UNION out = Kept
      /\ \A f, g \in out : f # g => Apart(f, g)
  BY <1>1, OutputsAre
<1>5. In \subseteq InTables /\ In \subseteq Entries
  BY <1>1, InputFacts
<1>6. InTables' \subseteq InTables
  <2> SUFFICES ASSUME NEW m \in 0..NumLevels - 1, NEW g \in Level(m)', NEW e \in g
               PROVE  e \in InTables
    BY DEF InTables
  <2>1. CASE g \in Level(m)
    BY <2>1 DEF InTables
  <2>2. CASE g \notin Level(m)
    <3>1. g \in out
      BY <1>1, <2>2
    <3>2. e \in Kept
      BY <1>4, <3>1
    <3>3. QED
      BY <1>4, <1>5, <3>2
  <2>3. QED
    BY <2>1, <2>2
<1>7. Everything' \subseteq Everything
  BY <1>2, <1>6 DEF Everything
<1>8. LevelTypes'
  BY <1>1, <1>2, <1>3 DEF LevelTypes
<1>9. Numbered'
  BY <1>1, <1>2, <1>3, <1>6, <1>7 DEF Numbered, Ascending
<1>10. LevelsApart'
  <2> SUFFICES ASSUME NEW m \in DOMAIN lv, NEW h \in lv'[m], NEW g \in lv'[m], h # g
               PROVE  Apart(h, g)
    BY <1>1 DEF LevelsApart
  <2>1. m \in 0..NumLevels - 1 /\ m # 0 /\ lv'[m] = Level(m)' /\ lv[m] = Level(m)
    BY <1>3 DEF LevelTypes, Level
  <2>2. CASE h \in lv[m] /\ g \in lv[m]
    BY <1>3, <2>2 DEF LevelsApart
  <2>3. CASE h \in out /\ g \in out
    BY <1>4, <2>3
  <2>4. ASSUME NEW f \in out, NEW x \in lv[m] \ comp.in1, m = L + 1 PROVE Apart(f, x) /\ Apart(x, f)
    <3>1. Apart(In, x)
      BY <1>1, <1>3, <2>4 DEF InputsStay
    <3>2. Apart(f, x)
      <4>1. f \subseteq In
        BY <1>4
      <4>2. QED
        BY <3>1, <4>1, ApartParts
    <3>3. f \subseteq Entries /\ x \subseteq Entries
      <4>1. x \in Files /\ f \in Files
        BY <1>3, <1>4, <2>1, FileFacts
      <4>2. QED
        BY <4>1 DEF Files
    <3>4. QED
      BY <3>2, <3>3, ApartIs
  <2>5. CASE m # L + 1
    BY <1>1, <2>1, <2>2, <2>5
  <2>6. CASE m = L + 1
    BY <1>1, <2>1, <2>2, <2>3, <2>4, <2>6
  <2>7. QED
    BY <2>5, <2>6
<1>11. InputsStay' /\ NoSnapshots'
  BY <1>2, <1>3 DEF InputsStay, NoSnapshots
<1>12. QED
  BY <1>8, <1>9, <1>10, <1>11 DEF LInv

-----------------------------------------------------------------------------
(* The levels.                                                             *)

LEMMA LevelsStart == CompactionInit => LInv
<1> SUFFICES ASSUME CompactionInit PROVE LInv
  OBVIOUS
<1>1. /\ BigData \in Sizes /\ mem = {} /\ l0 = <<>> /\ lv = [n \in 1..NumLevels - 1 |-> {}]
      /\ lastSeq = 0 /\ snapshots = {} /\ comp = NoComp
  BY DEF CompactionInit
<1>2. LevelTypes
  BY <1>1, CompactionAssumption, EmptySeq DEF LevelTypes
<1>3. \A n \in 0..NumLevels - 1 : Level(n) = {}
  <2> TAKE n \in 0..NumLevels - 1
  <2>1. CASE n = 0
    BY <1>1, <2>1, EmptySeq DEF Level
  <2>2. CASE n # 0
    BY <1>1, <2>2, CompactionAssumption DEF Level
  <2>3. QED
    BY <2>1, <2>2
<1>4. Everything = {} /\ InTables = {}
  BY <1>1, <1>3 DEF Everything, InTables
<1>5. Numbered
  BY <1>1, <1>4, EmptySeq DEF Numbered
<1>6. LevelsApart
  BY <1>1 DEF LevelsApart
<1>7. InputsStay /\ NoSnapshots
  BY <1>1 DEF InputsStay, NoSnapshots
<1>8. QED
  BY <1>2, <1>5, <1>6, <1>7 DEF LInv

LEMMA LevelsStay ==
  ASSUME ~Manual, LInv, [CompactionNext]_compactionVars
  PROVE  LInv'
<1>1. ASSUME NEW k \in Keys, NEW del \in Deletes, Put(k, del) PROVE LInv'
  BY <1>1, PutKeeps
<1>2. CASE GetSnapshot
  BY <1>2, GetSnapshotKeeps
<1>3. ASSUME NEW s \in snapshots, ReleaseSnapshot(s) PROVE LInv'
  BY <1>3, ReleaseSnapshotKeeps
<1>4. ASSUME NEW n \in 0..MaxMemCompactLevel, Flush(n) PROVE LInv'
  BY <1>4, FlushKeeps
<1>5. ASSUME NEW n \in 0..NumLevels - 2, NEW f \in Level(n), TrivialMove(n, f) PROVE LInv'
  BY <1>5, MoveKeeps
<1>6. ASSUME NEW n \in 0..NumLevels - 2, NEW f \in Level(n), StartCompaction(n, f) PROVE LInv'
  BY <1>6, StartKeeps
<1>7. ASSUME NEW n \in 0..NumLevels - 2, NEW b \in Keys, NEW e \in Keys, StartManual(n, b, e)
      PROVE  LInv'
  BY <1>7 DEF StartManual
<1>8. CASE FinishCompaction
  BY <1>8, FinishKeeps
<1>9. CASE UNCHANGED compactionVars
  <2>1. UNCHANGED <<BigData, mem, l0, lv, lastSeq, comp>> /\ snapshots' = snapshots
    BY <1>9 DEF compactionVars
  <2>2. NoSnapshots'
    BY <2>1 DEF LInv, NoSnapshots
  <2>3. QED
    BY <2>1, <2>2, SnapshotStep
<1>10. QED
  BY <1>1, <1>2, <1>3, <1>4, <1>5, <1>6, <1>7, <1>8, <1>9 DEF CompactionNext

\* Without manual compactions, LInv is an invariant: the types, the numbers,
\* the levels, and what a compaction relies on between its unlock and its end.
THEOREM LevelsInductive ==
  ASSUME ~Manual
  PROVE  CompactionSpec => []LInv
<1>1. LInv /\ [CompactionNext]_compactionVars => LInv'
  BY LevelsStay
<1>2. QED
  BY <1>1, LevelsStart, PTL DEF CompactionSpec

\* The files of a level below 0 never overlap, with any number of snapshots
\* and with outputs cut anywhere, between two versions of a key too
\* (version_set.cc:756): automatic compactions, flushes and moves never
\* break what the binary search of a level relies on.
THEOREM LevelsStayDisjoint ==
  ASSUME ~Manual
  PROVE  CompactionSpec => []LevelsDisjoint
<1>1. LInv => LevelsDisjoint
  BY DisjointLevels DEF LInv
<1>2. QED
  BY <1>1, LevelsInductive, PTL

-----------------------------------------------------------------------------
(* The types, which manual compactions keep too.                           *)

\* The entries in the database and in the compaction that runs.
All == Everything \cup IF comp = NoComp THEN {} ELSE In

TypesInv ==
    /\ LevelTypes
    /\ comp # NoComp => comp.in0 \cup comp.in1 \subseteq Files
    /\ Unique(All) /\ \A e \in All : e.s <= lastSeq

LEMMA AllAreEntries ==
  ASSUME TypesInv
  PROVE  All \subseteq Entries /\ \A e \in All : e.s \in Nat
<1>1. mem \subseteq Entries
  BY DEF TypesInv, LevelTypes
<1>2. InTables \subseteq Entries
  BY LevelFiles DEF TypesInv, InTables, Files
<1>3. comp # NoComp => In \subseteq Entries
  BY DEF TypesInv, In, Files
<1>4. QED
  BY <1>1, <1>2, <1>3, EntryTypes DEF All, Everything

\* A step that adds no entry.
LEMMA NothingAdded ==
  ASSUME TypesInv, LevelTypes', comp' # NoComp => comp'.in0 \cup comp'.in1 \subseteq Files,
         lastSeq' = lastSeq, All' \subseteq All
  PROVE  TypesInv'
BY DEF TypesInv, Unique

LEMMA PutTypes ==
  ASSUME TypesInv, NEW k \in Keys, NEW del \in Deletes, Put(k, del)
  PROVE  TypesInv'
<1> DEFINE new == [k |-> k, s |-> lastSeq + 1, del |-> del]
<1>1. /\ lastSeq < MaxSeq /\ lastSeq' = lastSeq + 1 /\ mem' = mem \cup {new}
      /\ UNCHANGED <<BigData, l0, lv, snapshots, comp>>
  BY DEF Put
<1>2. lastSeq \in Nat /\ lastSeq + 1 \in 1..MaxSeq /\ MaxSeq \in Nat
  BY <1>1, CompactionAssumption DEF TypesInv, LevelTypes
<1>3. new \in Entries /\ new.s = lastSeq + 1
  BY <1>2, CompactionAssumption DEF Entries
<1> HIDE DEF new
<1>4. LevelTypes'
  BY <1>1, <1>2, <1>3 DEF TypesInv, LevelTypes
<1>5. All' = All \cup {new}
  <2>1. InTables' = InTables /\ In' = In
    BY <1>1, SameTables DEF In
  <2>2. QED
    BY <1>1, <2>1 DEF All, Everything
<1>6. \A e \in All : e.s \in Nat /\ e.s <= lastSeq
  BY AllAreEntries DEF TypesInv
<1>7. Unique(All')
  BY <1>2, <1>3, <1>5, <1>6 DEF TypesInv, Unique
<1>8. \A e \in All' : e.s <= lastSeq'
  BY <1>1, <1>2, <1>3, <1>5, <1>6
<1>9. QED
  BY <1>1, <1>4, <1>7, <1>8 DEF TypesInv, Unique

\* A step that changes nothing but the snapshots.
LEMMA SnapshotTypes ==
  ASSUME TypesInv, UNCHANGED <<BigData, mem, l0, lv, lastSeq, comp>>,
         snapshots' \subseteq snapshots \cup {lastSeq}
  PROVE  TypesInv'
<1>1. LevelTypes'
  BY DEF TypesInv, LevelTypes
<1>2. All' = All
  BY SameTables DEF All, Everything, In
<1>3. QED
  BY <1>1, <1>2, NothingAdded DEF TypesInv

LEMMA FlushTypes ==
  ASSUME TypesInv, NEW n \in 0..MaxMemCompactLevel, Flush(n)
  PROVE  TypesInv'
<1>1. /\ n \in 0..NumLevels - 1 /\ mem \in Files
      /\ Level(n)' = Level(n) \cup {mem}
      /\ \A m \in 0..NumLevels - 1 : m # n => Level(m)' = Level(m)
      /\ l0' = (IF n = 0 THEN Append(l0, mem) ELSE l0)
      /\ DOMAIN lv' = DOMAIN lv /\ lv' \in [1..NumLevels - 1 -> SUBSET Files]
  BY FlushedLevels DEF TypesInv
<1>2. mem' = {} /\ UNCHANGED <<BigData, lastSeq, snapshots, comp>>
  BY DEF Flush
<1>3. l0' \in Seq(Files)
  BY <1>1, AppendProperties DEF TypesInv, LevelTypes
<1>4. LevelTypes'
  BY <1>1, <1>2, <1>3 DEF TypesInv, LevelTypes
<1>5. InTables' = InTables \cup mem
  BY <1>1 DEF InTables
<1>6. All' = All
  BY <1>2, <1>5 DEF All, Everything, In
<1>7. QED
  BY <1>2, <1>4, <1>6, NothingAdded DEF TypesInv

LEMMA MoveTypes ==
  ASSUME TypesInv, NEW n \in 0..NumLevels - 2, NEW f \in Level(n), TrivialMove(n, f)
  PROVE  TypesInv'
<1>1. /\ Level(n)' = Level(n) \ {f}
      /\ Level(n + 1)' = Level(n + 1) \cup {f}
      /\ \A m \in 0..NumLevels - 1 : m # n /\ m # n + 1 => Level(m)' = Level(m)
      /\ l0' \in Seq(Files)
      /\ lv' \in [1..NumLevels - 1 -> SUBSET Files]
  BY MovedLevels DEF TypesInv
<1>2. UNCHANGED <<BigData, mem, lastSeq, snapshots, comp>>
  BY DEF TrivialMove
<1>3. LevelTypes'
  BY <1>1, <1>2 DEF TypesInv, LevelTypes
<1>4. InTables' \subseteq InTables
  <2> SUFFICES ASSUME NEW m \in 0..NumLevels - 1, NEW g \in Level(m)', NEW e \in g
               PROVE  e \in InTables
    BY DEF InTables
  <2>1. n \in 0..NumLevels - 1
    BY CompactionAssumption
  <2>2. g \in Level(m) \/ g \in Level(n)
    BY <1>1
  <2>3. QED
    BY <2>1, <2>2 DEF InTables
<1>5. All' \subseteq All
  BY <1>2, <1>4 DEF All, Everything, In
<1>6. QED
  BY <1>2, <1>3, <1>5, NothingAdded DEF TypesInv

\* Whatever the choice, the inputs are files of the two levels.
LEMMA BeginTypes ==
  ASSUME TypesInv, NEW n \in 0..NumLevels - 2, NEW F \in SUBSET Level(n),
         NEW in \in Inputs(n, F), Begin(n, in),
         UNCHANGED <<BigData, mem, l0, lv, lastSeq, snapshots>>
  PROVE  TypesInv'
<1>1. \A m, b, e : GetOverlappingInputs(m, b, e) \subseteq Level(m)
  BY DEF GetOverlappingInputs
<1>2. in[1] \subseteq Level(n) /\ in[2] \subseteq Level(n + 1)
  BY <1>1 DEF Inputs
<1>3. n \in 0..NumLevels - 1 /\ n + 1 \in 0..NumLevels - 1
  BY CompactionAssumption
<1>4. /\ Level(n) \subseteq Files /\ UNION Level(n) \subseteq InTables
      /\ Level(n + 1) \subseteq Files /\ UNION Level(n + 1) \subseteq InTables
  BY <1>3, LevelFiles DEF TypesInv
<1>5. comp'.level = n /\ comp'.in0 = in[1] /\ comp'.in1 = in[2]
  BY DEF Begin
<1>6. LevelTypes'
  BY <1>5 DEF TypesInv, LevelTypes
<1>7. comp'.in0 \cup comp'.in1 \subseteq Files
  BY <1>2, <1>4, <1>5
<1>8. In' \subseteq InTables
  BY <1>2, <1>4, <1>5 DEF In
<1>9. All' \subseteq All
  BY <1>8, SameTables DEF All, Everything
<1>10. QED
  BY <1>6, <1>7, <1>9, NothingAdded

LEMMA StartTypes ==
  ASSUME TypesInv, NEW n \in 0..NumLevels - 2, NEW f \in Level(n), StartCompaction(n, f)
  PROVE  TypesInv'
<1>1. PICK in \in Picks(n, f) : Begin(n, in)
  BY DEF StartCompaction
<1>2. UNCHANGED <<BigData, mem, l0, lv, lastSeq, snapshots>>
  BY DEF StartCompaction
<1>3. PICK F : F = IF n = 0 THEN GetOverlappingInputs(0, Lo({f}), Hi({f})) ELSE {f}
  OBVIOUS
<1>4. F \in SUBSET Level(n)
  BY <1>3 DEF GetOverlappingInputs
<1>5. in \in Inputs(n, F)
  BY <1>3 DEF Picks
<1>6. QED
  BY <1>1, <1>2, <1>4, <1>5, BeginTypes

LEMMA StartManualTypes ==
  ASSUME TypesInv, NEW n \in 0..NumLevels - 2, NEW b \in Keys, NEW e \in Keys, StartManual(n, b, e)
  PROVE  TypesInv'
<1> DEFINE all == GetOverlappingInputs(n, b, e)
           firsts == {F \in (SUBSET all) \ {{}} :
                        \A f \in F, g \in all \ F : Before(Largest(f), Largest(g))}
<1>1. PICK F \in IF n > 0 /\ BigData THEN firsts ELSE {all} \ {{}} : \E in \in Inputs(n, F) : Begin(n, in)
  BY DEF StartManual
<1>2. F \in SUBSET all
  OBVIOUS
<1>3. all \subseteq Level(n)
  BY DEF GetOverlappingInputs
<1>4. UNCHANGED <<BigData, mem, l0, lv, lastSeq, snapshots>>
  BY DEF StartManual
<1> HIDE DEF all
<1>5. PICK in \in Inputs(n, F) : Begin(n, in)
  BY <1>1
<1>6. F \in SUBSET Level(n)
  BY <1>2, <1>3
<1>7. QED
  BY <1>4, <1>5, <1>6, BeginTypes

LEMMA FinishTypes ==
  ASSUME TypesInv, FinishCompaction
  PROVE  TypesInv'
<1>1. comp # NoComp
  BY DEF FinishCompaction
<1>2. In \subseteq Entries /\ Unique(In) /\ In \subseteq All
  BY <1>1, AllAreEntries DEF TypesInv, All, Unique
<1>3. \A out \in Outputs : out \subseteq Files /\ UNION out \subseteq In
  BY <1>2, OutputFiles
<1>4. PICK L \in 0..NumLevels - 2, out \in Outputs :
         /\ Level(L)' = Level(L) \ comp.in0
         /\ Level(L + 1)' = (Level(L + 1) \ comp.in1) \cup out
         /\ \A m \in 0..NumLevels - 1 : m # L /\ m # L + 1 => Level(m)' = Level(m)
         /\ l0' \in Seq(Files)
         /\ lv' \in [1..NumLevels - 1 -> SUBSET Files]
  BY <1>3, FinishedLevels DEF TypesInv
<1>5. comp' = NoComp /\ UNCHANGED <<BigData, mem, lastSeq, snapshots>>
  BY DEF FinishCompaction
<1>6. LevelTypes'
  BY <1>4, <1>5 DEF TypesInv, LevelTypes
<1>7. InTables' \subseteq InTables \cup In
  <2> SUFFICES ASSUME NEW m \in 0..NumLevels - 1, NEW g \in Level(m)', NEW e \in g
               PROVE  e \in InTables \cup In
    BY DEF InTables
  <2>1. g \in Level(m) \/ g \in out
    BY <1>4
  <2>2. g \in out => e \in In
    BY <1>3
  <2>3. QED
    BY <2>1, <2>2 DEF InTables
<1>8. All' \subseteq All
  BY <1>1, <1>5, <1>7 DEF All, Everything
<1>9. QED
  BY <1>5, <1>6, <1>8, NothingAdded

LEMMA TypesStart == CompactionInit => TypesInv
<1> SUFFICES ASSUME CompactionInit PROVE TypesInv
  OBVIOUS
<1>1. LInv
  BY LevelsStart
<1>2. LevelTypes /\ Numbered /\ comp = NoComp
  BY <1>1 DEF LInv, CompactionInit
<1>3. All = Everything
  BY <1>2 DEF All
<1>4. QED
  BY <1>2, <1>3 DEF TypesInv, Numbered, Unique

LEMMA TypesStay ==
  ASSUME TypesInv, [CompactionNext]_compactionVars
  PROVE  TypesInv'
<1>1. ASSUME NEW k \in Keys, NEW del \in Deletes, Put(k, del) PROVE TypesInv'
  BY <1>1, PutTypes
<1>2. CASE GetSnapshot
  BY <1>2, SnapshotTypes DEF GetSnapshot
<1>3. ASSUME NEW s \in snapshots, ReleaseSnapshot(s) PROVE TypesInv'
  BY <1>3, SnapshotTypes DEF ReleaseSnapshot
<1>4. ASSUME NEW n \in 0..MaxMemCompactLevel, Flush(n) PROVE TypesInv'
  BY <1>4, FlushTypes
<1>5. ASSUME NEW n \in 0..NumLevels - 2, NEW f \in Level(n), TrivialMove(n, f) PROVE TypesInv'
  BY <1>5, MoveTypes
<1>6. ASSUME NEW n \in 0..NumLevels - 2, NEW f \in Level(n), StartCompaction(n, f) PROVE TypesInv'
  BY <1>6, StartTypes
<1>7. ASSUME NEW n \in 0..NumLevels - 2, NEW b \in Keys, NEW e \in Keys, StartManual(n, b, e)
      PROVE  TypesInv'
  BY <1>7, StartManualTypes
<1>8. CASE FinishCompaction
  BY <1>8, FinishTypes
<1>9. CASE UNCHANGED compactionVars
  BY <1>9, SnapshotTypes DEF compactionVars
<1>10. QED
  BY <1>1, <1>2, <1>3, <1>4, <1>5, <1>6, <1>7, <1>8, <1>9 DEF CompactionNext

\* Entries, files and numbers are of their types, and no file is empty,
\* with manual compactions too.
THEOREM CompactionTypes == CompactionSpec => []CompactionTypeOK
<1>1. TypesInv => CompactionTypeOK
  <2> SUFFICES ASSUME TypesInv PROVE CompactionTypeOK
    OBVIOUS
  <2>1. LevelTypes
    BY DEF TypesInv
  <2>2. \A n \in 0..NumLevels - 1 : \A f \in Level(n) : f # {} /\ f \subseteq Entries
    BY <2>1, LevelFiles DEF Files
  <2>3. l0 \in Seq(Files) /\ DOMAIN l0 = 1..Len(l0)
    BY <2>1, LenProperties DEF LevelTypes
  <2>4. comp.level \in -1..NumLevels - 2
    <3>1. CASE comp = NoComp
      BY <3>1, CompactionAssumption DEF NoComp
    <3>2. CASE comp # NoComp
      BY <2>1, <3>2 DEF LevelTypes
    <3>3. QED
      BY <3>1, <3>2
  <2>5. QED
    BY <2>1, <2>2, <2>3, <2>4 DEF LevelTypes, CompactionTypeOK
<1>2. TypesInv /\ [CompactionNext]_compactionVars => TypesInv'
  BY TypesStay
<1>3. QED
  BY <1>1, <1>2, TypesStart, PTL DEF CompactionSpec

-----------------------------------------------------------------------------
(* What is newer stays above.                                              *)

\* NewerAbove, level by level.
LEMMA NewerFacts ==
  ASSUME LevelTypes, NewerAbove,
         NEW m \in 0..NumLevels - 1, NEW n \in 0..NumLevels - 1, m < n,
         NEW f \in Level(m), NEW h \in Level(n), NEW e \in f, NEW g \in h, e.k = g.k
  PROVE  e.s > g.s
<1>1. n # 0 /\ n \in DOMAIN lv /\ h \in lv[n]
  BY DEF LevelTypes, Level
<1>2. CASE m = 0
  <2>1. PICK i \in DOMAIN l0 : f = l0[i]
    BY <1>2 DEF Level
  <2>2. g \in UNION lv[n] /\ e \in l0[i]
    BY <1>1, <2>1
  <2>3. QED
    BY <1>1, <2>2 DEF NewerAbove
<1>3. CASE m # 0
  <2>1. m \in DOMAIN lv /\ f \in lv[m]
    BY <1>3 DEF LevelTypes, Level
  <2>2. e \in UNION lv[m] /\ g \in UNION lv[n]
    BY <1>1, <2>1
  <2>3. QED
    BY <1>1, <2>1, <2>2 DEF NewerAbove
<1>4. QED
  BY <1>2, <1>3

LEMMA NewerNext ==
  ASSUME DOMAIN lv' = 1..NumLevels - 1,
         \A m, n \in 0..NumLevels - 1 : m < n =>
            \A f \in Level(m)', h \in Level(n)' : \A e \in f, g \in h : e.k = g.k => e.s > g.s
  PROVE  NewerAbove'
<1>1. /\ \A n \in DOMAIN lv' : n \in 0..NumLevels - 1 /\ 0 < n /\ Level(n)' = lv'[n]
      /\ 0 \in 0..NumLevels - 1
      /\ \A i \in DOMAIN l0' : l0'[i] \in Level(0)'
  BY CompactionAssumption DEF Level
<1>2. ASSUME NEW n \in DOMAIN lv', NEW i \in DOMAIN l0', NEW e \in l0'[i], NEW g \in UNION lv'[n], e.k = g.k
      PROVE  e.s > g.s
  <2>1. PICK h \in Level(n)' : g \in h
    BY <1>1, <1>2
  <2>2. QED
    BY <1>1, <1>2, <2>1
<1>3. ASSUME NEW m \in DOMAIN lv', NEW n \in DOMAIN lv', m < n,
             NEW e \in UNION lv'[m], NEW g \in UNION lv'[n], e.k = g.k
      PROVE  e.s > g.s
  <2>1. PICK h \in Level(n)' : g \in h
    BY <1>1, <1>3
  <2>2. PICK f \in Level(m)' : e \in f
    BY <1>1, <1>3
  <2>3. QED
    BY <1>1, <1>3, <2>1, <2>2
<1>4. QED
  BY <1>2, <1>3 DEF NewerAbove

\* Under NeverSplits no two files of a level below 0 share a key.
LEMMA NoSharedKey ==
  ASSUME NeverSplits, NEW E, E \subseteq Entries, NEW F, F \subseteq Entries, Apart(E, F),
         NEW e \in E, NEW g \in F
  PROVE  e.k # g.k
<1>1. e.k \in Nat /\ g.k \in Nat
  BY EntryTypes
<1>2. QED
  BY <1>1 DEF Apart, KeysApart

LEMMA FlushKeepsOrder ==
  ASSUME LInv, NewerAbove, NEW n \in 0..MaxMemCompactLevel, Flush(n)
  PROVE  NewerAbove'
<1>1. /\ n \in 0..NumLevels - 1 /\ mem \in Files
      /\ Level(n)' = Level(n) \cup {mem}
      /\ \A m \in 0..NumLevels - 1 : m # n => Level(m)' = Level(m)
      /\ DOMAIN lv' = DOMAIN lv
  BY FlushedLevels DEF LInv
<1>2. LevelTypes /\ Numbered /\ DOMAIN lv' = 1..NumLevels - 1
  BY <1>1 DEF LInv, LevelTypes
<1>3. ASSUME NEW m \in 0..NumLevels - 1, m < n, NEW f \in Level(m), NEW e \in f, NEW g \in mem
      PROVE  e.k # g.k
  <2>1. n # 0 /\ m \in 0..n
    BY <1>3
  <2>2. KeysApart(mem, f)
    BY <2>1, FlushedBelow
  <2>3. f \subseteq Entries /\ mem \subseteq Entries
    BY <1>1, <1>2, FileFacts DEF Files
  <2>4. e.k \in Nat /\ g.k \in Nat
    BY <2>3, EntryTypes
  <2>5. QED
    BY <2>2, <2>4 DEF KeysApart
<1>4. ASSUME NEW m \in 0..NumLevels - 1, NEW h \in Level(m), NEW g \in h, NEW e \in mem
      PROVE  e.s > g.s
  <2>1. g \in InTables
    BY DEF InTables
  <2>2. g.s < e.s
    BY <1>2, <2>1 DEF Numbered
  <2>3. QED
    BY <2>2
<1>5. ASSUME NEW m \in 0..NumLevels - 1, NEW i \in 0..NumLevels - 1, m < i,
             NEW f \in Level(m)', NEW h \in Level(i)', NEW e \in f, NEW g \in h, e.k = g.k
      PROVE  e.s > g.s
  <2>1. CASE f \in Level(m) /\ h \in Level(i)
    BY <1>2, <1>5, <2>1, NewerFacts
  <2>2. CASE f \notin Level(m)
    <3>1. m = n /\ f = mem /\ h \in Level(i)
      BY <1>1, <1>5, <2>2
    <3>2. QED
      BY <1>4, <3>1
  <2>3. CASE h \notin Level(i)
    <3>1. i = n /\ h = mem /\ f \in Level(m)
      BY <1>1, <1>5, <2>3
    <3>2. QED
      BY <1>3, <1>5, <3>1
  <2>4. QED
    BY <2>1, <2>2, <2>3
<1>6. QED
  BY <1>2, <1>5, NewerNext

LEMMA MoveKeepsOrder ==
  ASSUME NeverSplits, LInv, NewerAbove,
         NEW n \in 0..NumLevels - 2, NEW f \in Level(n), TrivialMove(n, f)
  PROVE  NewerAbove'
<1>1. /\ Level(n)' = Level(n) \ {f}
      /\ Level(n + 1)' = Level(n + 1) \cup {f}
      /\ \A m \in 0..NumLevels - 1 : m # n /\ m # n + 1 => Level(m)' = Level(m)
      /\ DOMAIN lv' = DOMAIN lv
  BY MovedLevels, WhatItSays
<1>2. /\ LevelTypes /\ Numbered /\ LevelsApart /\ DOMAIN lv' = 1..NumLevels - 1
      /\ n \in 0..NumLevels - 1 /\ n + 1 \in 0..NumLevels - 1
  BY <1>1, CompactionAssumption DEF LInv, LevelTypes
<1>3. ASSUME NEW h \in Level(n) \ {f}, NEW e \in h, NEW g \in f PROVE e.k # g.k
  <2>1. h \in Files /\ f \in Files /\ h \subseteq Entries /\ f \subseteq Entries
    BY <1>2, FileFacts DEF Files
  <2>2. CASE n = 0
    <3>1. LevelOK(n) /\ LevelOK(n + 1)
      BY <1>2, FileFacts DEF LevelOK
    <3>2. <<{f}, {}>> \in Picks(n, f)
      BY DEF TrivialMove
    <3>3. GoodInputs(n, <<{f}, {}>>[1], <<{f}, {}>>[2])
      BY <3>1, <3>2, PicksAre
    <3>4. GoodInputs(n, {f}, {}) /\ UNION {f} = f
      BY <3>3
    <3>5. KeysApart(f, h)
      BY <1>3, <2>2, <3>4 DEF GoodInputs
    <3>6. e.k \in Nat /\ g.k \in Nat
      BY <2>1, EntryTypes
    <3>7. QED
      BY <3>5, <3>6 DEF KeysApart
  <2>3. CASE n # 0
    <3>1. n \in DOMAIN lv /\ Level(n) = lv[n]
      BY <1>2, <2>3 DEF LevelTypes, Level
    <3>2. Apart(h, f)
      BY <1>2, <1>3, <3>1 DEF LevelsApart
    <3>3. QED
      BY <2>1, <3>2, NoSharedKey
  <2>4. QED
    BY <2>2, <2>3
<1>4. ASSUME NEW m \in 0..NumLevels - 1, NEW i \in 0..NumLevels - 1, m < i,
             NEW x \in Level(m)', NEW h \in Level(i)', NEW e \in x, NEW g \in h, e.k = g.k
      PROVE  e.s > g.s
  <2>1. CASE x \in Level(m) /\ h \in Level(i)
    BY <1>2, <1>4, <2>1, NewerFacts
  <2>2. CASE x \notin Level(m)
    <3>1. m = n + 1 /\ x = f /\ h \in Level(i) /\ n < i
      BY <1>1, <1>2, <1>4, <2>2
    <3>2. QED
      BY <1>2, <1>4, <3>1, NewerFacts
  <2>3. CASE h \notin Level(i)
    <3>1. i = n + 1 /\ h = f /\ x \in Level(m)
      BY <1>1, <1>2, <1>4, <2>3
    <3>2. CASE m = n
      BY <1>1, <1>3, <1>4, <3>1, <3>2
    <3>3. CASE m # n
      <4>1. m < n
        BY <1>2, <1>4, <3>1, <3>3
      <4>2. QED
        BY <1>2, <1>4, <3>1, <4>1, NewerFacts
    <3>4. QED
      BY <3>2, <3>3
  <2>4. QED
    BY <2>1, <2>2, <2>3
<1>5. QED
  BY <1>2, <1>4, NewerNext

\* Of two entries of a key, one in the inputs of a compaction, the other in
\* a file above them or beside them, the other is the newer one.
LEMMA InputsAreOlder ==
  ASSUME NeverSplits, LInv, NewerAbove, comp # NoComp,
         NEW m \in 0..NumLevels - 1, m <= comp.level + 1, NEW f \in Level(m),
         m = comp.level => f \notin comp.in0,
         m = comp.level + 1 => f \notin comp.in1,
         NEW e \in f, NEW g \in In, e.k = g.k
  PROVE  e.s > g.s
<1>0. PICK L : L = comp.level
  OBVIOUS
<1>1. /\ L \in 0..NumLevels - 2 /\ L + 1 \in DOMAIN lv
      /\ L \in 0..NumLevels - 1 /\ L + 1 \in 0..NumLevels - 1
      /\ In \subseteq Entries
  BY <1>0, InputFacts
<1>2. LevelTypes /\ Numbered /\ LevelsApart
  BY DEF LInv
<1>3. /\ comp.in0 \subseteq Level(L) /\ comp.in1 \subseteq Level(L + 1) /\ Level(L + 1) = lv[L + 1]
      /\ \A h \in lv[L + 1] \ comp.in1 : Apart(In, h)
      /\ L = 0 => \A h \in Level(0) \ comp.in0 :
            \A a \in h, b \in UNION comp.in0 : a.k = b.k => a.s > b.s
  BY <1>0, <1>1 DEF LInv, InputsStay, Level
<1>4. f \subseteq Entries
  BY <1>2, FileFacts
<1>5. PICK h \in comp.in0 \cup comp.in1 : g \in h
  BY DEF In
<1>6. m <= L + 1 /\ (m = L => f \notin comp.in0) /\ (m = L + 1 => f \notin comp.in1)
  BY <1>0
<1>7. CASE m = L + 1
  <2>1. Apart(In, f)
    BY <1>3, <1>6, <1>7
  <2>2. g.k # e.k
    BY <1>1, <1>4, <2>1, NoSharedKey
  <2>3. QED
    BY <2>2
<1>8. CASE m # L + 1 /\ h \in comp.in1
  <2>1. m < L + 1 /\ h \in Level(L + 1)
    BY <1>1, <1>3, <1>6, <1>8
  <2>2. QED
    BY <1>1, <1>2, <1>5, <2>1, NewerFacts
<1>9. CASE m < L /\ h \in comp.in0
  BY <1>1, <1>2, <1>3, <1>5, <1>9, NewerFacts
<1>10. CASE m = L /\ h \in comp.in0
  <2>1. CASE L = 0
    BY <1>3, <1>5, <1>6, <1>10, <2>1
  <2>2. CASE L # 0
    <3>1. L \in DOMAIN lv /\ Level(L) = lv[L]
      BY <1>1, <1>2, <2>2 DEF LevelTypes, Level
    <3>2. f # h /\ h \in lv[L] /\ f \in lv[L]
      BY <1>3, <1>6, <1>10, <3>1
    <3>3. Apart(f, h)
      BY <1>2, <3>1, <3>2 DEF LevelsApart
    <3>4. h \subseteq Entries
      BY <1>1, <1>5 DEF In
    <3>5. QED
      BY <1>4, <1>5, <3>3, <3>4, NoSharedKey
  <2>3. QED
    BY <2>1, <2>2
<1>11. QED
  BY <1>1, <1>5, <1>6, <1>7, <1>8, <1>9, <1>10

LEMMA FinishKeepsOrder ==
  ASSUME NeverSplits, LInv, NewerAbove, FinishCompaction
  PROVE  NewerAbove'
<1>1. PICK L \in 0..NumLevels - 2, out \in Outputs :
         /\ comp # NoComp /\ L = comp.level
         /\ L \in 0..NumLevels - 1 /\ L + 1 \in 0..NumLevels - 1 /\ L + 1 \in DOMAIN lv
         /\ Level(L)' = Level(L) \ comp.in0
         /\ Level(L + 1)' = (Level(L + 1) \ comp.in1) \cup out
         /\ \A m \in 0..NumLevels - 1 : m # L /\ m # L + 1 => Level(m)' = Level(m)
         /\ DOMAIN lv' = DOMAIN lv
  BY FinishedLevels, WhatItSays
<1>2. LevelTypes /\ Numbered /\ DOMAIN lv' = 1..NumLevels - 1
  BY <1>1 DEF LInv, LevelTypes
<1>3. \A f \in out : f \subseteq In
  BY <1>1, OutputsAre
<1>4. comp.in0 \subseteq Level(L) /\ comp.in1 \subseteq Level(L + 1)
  BY <1>1 DEF LInv, InputsStay, Level
<1>5. ASSUME NEW m \in 0..NumLevels - 1, NEW i \in 0..NumLevels - 1, m < i,
             NEW x \in Level(m)', NEW h \in Level(i)', NEW e \in x, NEW g \in h, e.k = g.k
      PROVE  e.s > g.s
  <2>1. CASE x \in Level(m) /\ h \in Level(i)
    BY <1>2, <1>5, <2>1, NewerFacts
  <2>2. CASE x \notin Level(m)
    <3>1. m = L + 1 /\ x \in out /\ h \in Level(i) /\ L < i
      BY <1>1, <1>2, <1>5, <2>2
    <3>2. PICK y \in comp.in0 \cup comp.in1 : e \in y
      BY <1>3, <1>5, <3>1 DEF In
    <3>3. QED
      BY <1>1, <1>2, <1>4, <1>5, <3>1, <3>2, NewerFacts
  <2>3. CASE h \notin Level(i)
    <3>1. i = L + 1 /\ h \in out /\ x \in Level(m) /\ m <= L /\ (m = L => x \notin comp.in0)
      BY <1>1, <1>2, <1>5, <2>3
    <3>2. g \in In /\ m <= L + 1 /\ m # L + 1
      BY <1>1, <1>3, <1>5, <3>1
    <3>3. QED
      BY <1>1, <1>5, <3>1, <3>2, InputsAreOlder
  <2>4. QED
    BY <2>1, <2>2, <2>3
<1>6. QED
  BY <1>2, <1>5, NewerNext

-----------------------------------------------------------------------------
(* What was written is remembered.                                         *)

LEMMA EverythingTypes ==
  ASSUME LInv
  PROVE  /\ Everything \subseteq Entries
         /\ \A e \in Everything : e.k \in Nat /\ e.s \in Nat /\ e.s <= lastSeq
         /\ lastSeq \in Nat /\ \A s \in snapshots : s \in Nat /\ s <= lastSeq
<1>1. LevelTypes /\ Numbered
  BY DEF LInv
<1>2. \A n \in 0..NumLevels - 1 : Level(n) \subseteq Files
  BY <1>1, FileFacts
<1>3. InTables \subseteq Entries
  BY <1>2 DEF InTables, Files
<1>4. Everything \subseteq Entries
  BY <1>1, <1>3 DEF LevelTypes, Everything
<1>5. \A e \in Everything : e.k \in Nat /\ e.s \in Nat
  BY <1>4, EntryTypes
<1>6. lastSeq \in Nat /\ \A s \in snapshots : s \in Nat /\ s <= lastSeq
  BY <1>1 DEF LevelTypes
<1>7. QED
  BY <1>1, <1>4, <1>5, <1>6 DEF Numbered

LEMMA SameMemory ==
  ASSUME Remembers, Everything' = Everything, UNCHANGED <<lastSeq, snapshots, latest, frozen>>
  PROVE  Remembers'
BY DEF Remembers

LEMMA PutRemembers ==
  ASSUME LInv, Remembers, NEW k \in Keys, NEW del \in Deletes, Put(k, del)
  PROVE  Remembers'
<1> DEFINE new == [k |-> k, s |-> lastSeq + 1, del |-> del]
<1>1. /\ lastSeq' = lastSeq + 1 /\ mem' = mem \cup {new}
      /\ latest' = [latest EXCEPT ![k] = IF del THEN 0 ELSE lastSeq + 1]
      /\ UNCHANGED <<l0, lv, snapshots, frozen>>
  BY DEF Put
<1>2. new.k = k /\ new.s = lastSeq + 1 /\ new.del = del
  OBVIOUS
<1> HIDE DEF new
<1>3. Everything' = Everything \cup {new}
  BY <1>1, SameTables DEF Everything
<1>4. /\ \A e \in Everything : e.k \in Nat /\ e.s \in Nat /\ e.s <= lastSeq
      /\ lastSeq \in Nat /\ \A s \in snapshots : s \in Nat /\ s <= lastSeq
  BY EverythingTypes
<1>5. latest \in [Keys -> Nat] /\ latest' \in [Keys -> Nat]
  BY <1>1, <1>4 DEF Remembers
<1>6. ASSUME NEW x \in Keys PROVE Reads(Everything', x, lastSeq', latest'[x])
  <2>1. CASE x = k
    <3>1. Newest(Everything', x, lastSeq', new)
      BY <1>1, <1>2, <1>3, <1>4, <2>1 DEF Newest
    <3>2. latest'[x] = IF new.del THEN 0 ELSE new.s
      BY <1>1, <1>2, <1>5, <2>1
    <3>3. new \in Everything'
      BY <1>3
    <3>4. QED
      BY <3>1, <3>2, <3>3 DEF Reads
  <2>2. CASE x # k
    <3>1. latest'[x] = latest[x]
      BY <1>1, <1>5, <2>2
    <3>2. Reads(Everything, x, lastSeq, latest[x])
      BY DEF Remembers
    <3>3. \A g : g \in Everything' /\ g.k = x /\ g.s <= lastSeq' <=> g \in Everything /\ g.k = x /\ g.s <= lastSeq
      BY <1>1, <1>2, <1>3, <1>4, <2>2
    <3>4. \A e : Newest(Everything, x, lastSeq, e) => Newest(Everything', x, lastSeq', e) /\ e \in Everything'
      BY <3>3 DEF Newest
    <3>5. QED
      BY <3>1, <3>2, <3>3, <3>4 DEF Reads
  <2>3. QED
    BY <2>1, <2>2
<1>7. ASSUME NEW s \in snapshots, NEW x \in Keys PROVE Reads(Everything', x, s, frozen[s][x])
  <2>1. Reads(Everything, x, s, frozen[s][x])
    BY DEF Remembers
  <2>2. s \in Nat /\ s <= lastSeq
    BY <1>4
  <2>3. \A g : g \in Everything' /\ g.k = x /\ g.s <= s <=> g \in Everything /\ g.k = x /\ g.s <= s
    BY <1>2, <1>3, <1>4, <2>2
  <2>4. \A e : Newest(Everything, x, s, e) => Newest(Everything', x, s, e) /\ e \in Everything'
    BY <2>3 DEF Newest
  <2>5. QED
    BY <2>1, <2>3, <2>4 DEF Reads
<1>8. QED
  BY <1>1, <1>5, <1>6, <1>7 DEF Remembers

LEMMA GetSnapshotRemembers ==
  ASSUME LInv, Remembers, GetSnapshot
  PROVE  Remembers'
<1>1. /\ snapshots' = snapshots \cup {lastSeq} /\ lastSeq \notin snapshots
      /\ frozen' = [s \in snapshots' |-> IF s = lastSeq THEN latest ELSE frozen[s]]
      /\ UNCHANGED <<mem, l0, lv, lastSeq, latest>>
  BY DEF GetSnapshot
<1>2. Everything' = Everything
  BY <1>1, SameTables DEF Everything
<1>3. \A s \in snapshots', k \in Keys : Reads(Everything, k, s, frozen'[s][k])
  BY <1>1 DEF Remembers
<1>4. DOMAIN frozen' = snapshots'
  BY <1>1
<1>5. QED
  BY <1>1, <1>2, <1>3, <1>4 DEF Remembers

LEMMA ReleaseSnapshotRemembers ==
  ASSUME LInv, Remembers, NEW s \in snapshots, ReleaseSnapshot(s)
  PROVE  Remembers'
<1>1. /\ snapshots' = snapshots \ {s} /\ frozen' = [t \in snapshots' |-> frozen[t]]
      /\ UNCHANGED <<mem, l0, lv, lastSeq, latest>>
  BY DEF ReleaseSnapshot
<1>2. Everything' = Everything
  BY <1>1, SameTables DEF Everything
<1>3. \A t \in snapshots', k \in Keys : Reads(Everything, k, t, frozen'[t][k])
  BY <1>1 DEF Remembers
<1>4. DOMAIN frozen' = snapshots'
  BY <1>1
<1>5. QED
  BY <1>1, <1>2, <1>3, <1>4 DEF Remembers

LEMMA FlushRemembers ==
  ASSUME LInv, Remembers, NEW n \in 0..MaxMemCompactLevel, Flush(n)
  PROVE  Remembers'
<1>1. /\ n \in 0..NumLevels - 1
      /\ Level(n)' = Level(n) \cup {mem}
      /\ \A m \in 0..NumLevels - 1 : m # n => Level(m)' = Level(m)
  BY FlushedLevels DEF LInv
<1>2. mem' = {} /\ UNCHANGED <<lastSeq, snapshots, latest, frozen>>
  BY DEF Flush
<1>3. InTables' = InTables \cup mem
  BY <1>1 DEF InTables
<1>4. Everything' = Everything
  BY <1>2, <1>3 DEF Everything
<1>5. QED
  BY <1>2, <1>4, SameMemory

\* What disappears was dropped, and where an entry is that is left.
LEMMA WhatIsLeft ==
  ASSUME LInv, FinishCompaction
  PROVE  /\ Everything' \subseteq Everything
         /\ \A e \in Everything \ Everything' : e \in In /\ Dropped(e)
<1>1. PICK L \in 0..NumLevels - 2, out \in Outputs :
         /\ comp # NoComp /\ L = comp.level
         /\ L \in 0..NumLevels - 1 /\ L + 1 \in 0..NumLevels - 1 /\ L + 1 \in DOMAIN lv
         /\ Level(L)' = Level(L) \ comp.in0
         /\ Level(L + 1)' = (Level(L + 1) \ comp.in1) \cup out
         /\ \A m \in 0..NumLevels - 1 : m # L /\ m # L + 1 => Level(m)' = Level(m)
  BY FinishedLevels, WhatItSays
<1>2. mem' = mem
  BY DEF FinishCompaction
<1>3. Kept \subseteq In /\ UNION out = Kept
  BY <1>1, OutputsAre
<1>4. In \subseteq InTables
  BY <1>1, InputFacts
<1>5. InTables' \subseteq InTables
  <2> SUFFICES ASSUME NEW m \in 0..NumLevels - 1, NEW g \in Level(m)', NEW e \in g
               PROVE  e \in InTables
    BY DEF InTables
  <2>1. CASE g \in Level(m)
    BY <2>1 DEF InTables
  <2>2. CASE g \notin Level(m)
    <3>1. g \in out
      BY <1>1, <2>2
    <3>2. e \in Kept
      BY <1>3, <3>1
    <3>3. QED
      BY <1>3, <1>4, <3>2
  <2>3. QED
    BY <2>1, <2>2
<1>6. ASSUME NEW e \in InTables, e \notin InTables' PROVE e \in In /\ Dropped(e)
  <2>1. PICK m \in 0..NumLevels - 1 : \E f \in Level(m) : e \in f
    BY DEF InTables
  <2>2. PICK f \in Level(m) : e \in f
    BY <2>1
  <2>3. f \notin Level(m)'
    BY <1>6, <2>2 DEF InTables
  <2>4. f \in comp.in0 \cup comp.in1
    BY <1>1, <2>3
  <2>5. e \in In
    BY <2>2, <2>4 DEF In
  <2>6. e \notin Kept
    <3>1. ASSUME e \in Kept PROVE FALSE
      <4>1. PICK g \in out : e \in g
        BY <1>3, <3>1
      <4>2. g \in Level(L + 1)'
        BY <1>1
      <4>3. QED
        BY <1>1, <1>6, <4>1, <4>2 DEF InTables
    <3>2. QED
      BY <3>1
  <2>7. QED
    BY <2>5, <2>6 DEF Kept, In
<1>7. QED
  BY <1>2, <1>5, <1>6 DEF Everything

\* When the newest entry that a snapshot sees is dropped, it is a deletion
\* and nothing older of its key is left.
LEMMA NothingOlderIsLeft ==
  ASSUME NeverSplits, LInv, NewerAbove, FinishCompaction,
         NEW e \in In, e.del, e.s <= comp.snap, ~\E f \in comp.deep : Overlaps(f, e.k, e.k),
         NEW g \in Everything', g.k = e.k, g.s < e.s
  PROVE  FALSE
<1>1. PICK L \in 0..NumLevels - 2, out \in Outputs :
         /\ comp # NoComp /\ L = comp.level
         /\ L \in 0..NumLevels - 1 /\ L + 1 \in 0..NumLevels - 1 /\ L + 1 \in DOMAIN lv
         /\ Level(L)' = Level(L) \ comp.in0
         /\ Level(L + 1)' = (Level(L + 1) \ comp.in1) \cup out
         /\ \A m \in 0..NumLevels - 1 : m # L /\ m # L + 1 => Level(m)' = Level(m)
  BY FinishedLevels, WhatItSays
<1>2. mem' = mem
  BY DEF FinishCompaction
<1>3. LevelTypes /\ Numbered /\ In \subseteq InTables /\ In \subseteq Entries /\ Everything' \subseteq Everything
  BY <1>1, InputFacts, WhatIsLeft DEF LInv
<1>4. e.k \in Keys /\ e.k \in Nat /\ e.s \in Nat /\ g.k \in Nat /\ g.s \in Nat
  BY <1>3, EntryTypes, EverythingTypes
<1>5. g \notin mem
  <2>1. g \in mem => e.s < g.s
    BY <1>3 DEF Numbered
  <2>2. QED
    BY <1>4, <2>1
<1>6. PICK m \in 0..NumLevels - 1 : \E f \in Level(m)' : g \in f
  BY <1>2, <1>5 DEF Everything, InTables
<1>7. PICK f \in Level(m)' : g \in f
  BY <1>6
<1>8. CASE f \in out
  <2>1. g \in Kept /\ Kept \subseteq In
    BY <1>1, <1>7, <1>8, OutputsAre
  <2>2. Dropped(g)
    BY <1>4 DEF Dropped, In
  <2>3. QED
    BY <2>1, <2>2 DEF Kept
<1>9. CASE f \notin out /\ m <= L + 1
  <2>1. f \in Level(m) /\ (m = L => f \notin comp.in0) /\ (m = L + 1 => f \notin comp.in1)
    BY <1>1, <1>9
  <2>2. g.s > e.s
    BY <1>1, <1>7, <1>9, <2>1, InputsAreOlder
  <2>3. QED
    BY <1>4, <2>2
<1>10. CASE ~(m <= L + 1)
  <2>1. m \in L + 2..NumLevels - 1 /\ f \in Level(m) /\ m \in comp.level + 2..NumLevels - 1
    BY <1>1, <1>10
  <2>2. f \in Files
    BY <1>3, <2>1, FileFacts
  <2>3. Overlaps(f, e.k, e.k)
    <3>1. g.k <= e.k /\ e.k <= g.k
      BY <1>4
    <3>2. QED
      BY <1>4, <1>7, <2>2, <3>1, OverlapsIs
  <2>4. f \notin comp.deep
    BY <2>3
  <2>5. ~Overlaps(f, e.k, e.k)
    BY <1>1, <2>1, <2>4 DEF LInv, InputsStay
  <2>6. QED
    BY <2>3, <2>5
<1>11. QED
  BY <1>8, <1>9, <1>10

LEMMA FinishReads ==
  ASSUME NeverSplits, LInv, NewerAbove, FinishCompaction,
         NEW k \in Keys, NEW s \in Nat, comp.snap <= s, NEW v, Reads(Everything, k, s, v)
  PROVE  Reads(Everything', k, s, v)
<1>1. /\ Everything' \subseteq Everything
      /\ \A e \in Everything \ Everything' : e \in In /\ Dropped(e)
  BY WhatIsLeft
<1>2. \A e \in Everything : e.k \in Nat /\ e.s \in Nat
  BY EverythingTypes
<1>3. CASE v = 0 /\ \A g \in Everything : ~(g.k = k /\ g.s <= s)
  BY <1>1, <1>3 DEF Reads
<1>4. ASSUME NEW e \in Everything, Newest(Everything, k, s, e), v = IF e.del THEN 0 ELSE e.s
      PROVE  Reads(Everything', k, s, v)
  <2>1. /\ e.k = k /\ e.s <= s
        /\ \A g \in Everything : g.k = k /\ g.s <= s => g.s <= e.s
    BY <1>4 DEF Newest
  <2>2. CASE e \in Everything'
    BY <1>1, <1>4, <2>1, <2>2 DEF Newest, Reads
  <2>3. CASE e \notin Everything'
    <3>0. comp # NoComp /\ comp.snap \in Nat
      BY DEF FinishCompaction, LInv, InputsStay
    <3>1. e \in In /\ Dropped(e)
      BY <1>1, <2>3
    <3>2. ~\E g \in In : g.k = e.k /\ g.s > e.s /\ g.s <= comp.snap
      <4>1. In \subseteq Everything
        BY <3>0, InputFacts DEF Everything
      <4>2. ASSUME NEW g \in In, g.k = e.k, g.s > e.s, g.s <= comp.snap PROVE FALSE
        <5>1. g \in Everything /\ g.s \in Nat /\ e.s \in Nat
          BY <1>2, <4>1
        <5>2. g.k = k /\ g.s <= s
          BY <2>1, <3>0, <4>2, <5>1
        <5>3. g.s <= e.s
          BY <2>1, <5>1, <5>2
        <5>4. QED
          BY <4>2, <5>1, <5>3
      <4>3. QED
        BY <4>2
    <3>3. e.del /\ e.s <= comp.snap /\ ~\E f \in comp.deep : Overlaps(f, e.k, e.k)
      BY <3>1, <3>2 DEF Dropped, In
    <3>4. \A g \in Everything' : ~(g.k = k /\ g.s <= s)
      <4>1. ASSUME NEW g \in Everything', g.k = k, g.s <= s PROVE FALSE
        <5>1. g \in Everything /\ g.s \in Nat /\ e.s \in Nat
          BY <1>1, <1>2
        <5>2. g.s <= e.s
          BY <2>1, <4>1, <5>1
        <5>3. g # e
          BY <2>3
        <5>4. g.s # e.s
          BY <5>1, <5>3 DEF LInv, Numbered
        <5>5. g.s < e.s /\ g.k = e.k
          BY <2>1, <4>1, <5>1, <5>2, <5>4
        <5>6. QED
          BY <3>1, <3>3, <5>5, NothingOlderIsLeft
      <4>2. QED
        BY <4>1
    <3>5. v = 0
      BY <1>4, <3>3
    <3>6. QED
      BY <3>4, <3>5 DEF Reads
  <2>4. QED
    BY <2>2, <2>3
<1>5. QED
  BY <1>3, <1>4 DEF Reads

LEMMA FinishRemembers ==
  ASSUME NeverSplits, LInv, NewerAbove, Remembers, FinishCompaction
  PROVE  Remembers'
<1>1. UNCHANGED <<lastSeq, snapshots, latest, frozen>> /\ comp # NoComp
  BY DEF FinishCompaction
<1>2. comp.snap <= lastSeq /\ \A t \in snapshots : comp.snap <= t
  BY <1>1 DEF LInv, InputsStay
<1>3. lastSeq \in Nat /\ \A t \in snapshots : t \in Nat
  BY EverythingTypes
<1>4. \A k \in Keys : Reads(Everything', k, lastSeq, latest[k])
  BY <1>2, <1>3, FinishReads DEF Remembers
<1>5. \A t \in snapshots, k \in Keys : Reads(Everything', k, t, frozen[t][k])
  BY <1>2, <1>3, FinishReads DEF Remembers
<1>6. QED
  BY <1>1, <1>4, <1>5 DEF Remembers

-----------------------------------------------------------------------------
(* A read finds what is remembered.                                        *)

\* e is what S has for <<k, s>>, None if it has nothing.
Matches(S, k, s) == {g \in S : g.k = k /\ g.s <= s}
GetFinds(S, k, s, e) ==
    \/ Matches(S, k, s) = {} /\ e = None
    \/ Newest(S, k, s, e) /\ e # None

LEMMA NoneIsNoEntry == None \notin Entries
<1>1. None.k = 0
  BY DEF None
<1>2. QED
  BY <1>1, EntryTypes

LEMMA NewestInFinds ==
  ASSUME NEW S, S \subseteq Entries, NEW k, NEW s
  PROVE  GetFinds(S, k, s, NewestIn(S, k, s))
<1> DEFINE C == {e \in S : e.k = k /\ e.s <= s}
           N == {e.s : e \in C}
<1>1. CASE C = {}
  BY <1>1 DEF NewestIn, GetFinds, Matches
<1>2. CASE C # {}
  <2>1. N \in SUBSET (1..MaxSeq) /\ N # {}
    BY <1>2, EntryTypes
  <2>2. IsFiniteSet(N) /\ N \subseteq Int
    <3> HIDE DEF N
    <3>1. IsFiniteSet(1..MaxSeq)
      BY CompactionAssumption, FS_Interval
    <3>2. IsFiniteSet(N)
      BY <2>1, <3>1, FS_Subset
    <3>3. N \subseteq Int
      BY <2>1
    <3>4. QED
      BY <3>2, <3>3
  <2>3. PICK m \in N : \A i \in N : i <= m
    <3> HIDE DEF N
    <3>1. QED
      BY <2>1, <2>2, LargestNumber
  <2>4. \E e \in C : \A g \in C : g.s <= e.s
    BY <2>3
  <2>5. NewestIn(S, k, s) \in C /\ \A g \in C : g.s <= NewestIn(S, k, s).s
    BY <1>2, <2>4 DEF NewestIn
  <2>6. NewestIn(S, k, s) # None
    BY <2>5, NoneIsNoEntry
  <2>7. QED
    BY <2>5, <2>6 DEF GetFinds, Newest
<1>3. QED
  BY <1>1, <1>2

LEMMA NewestFirstFinds ==
  ASSUME LInv, NEW k \in Keys, NEW s \in Nat
  PROVE  GetFinds(UNION Level(0), k, s, NewestFirst(k, s))
<1> DEFINE I == {i \in DOMAIN l0 : NewestIn(l0[i], k, s) # None}
<1>1. /\ l0 \in Seq(Files) /\ DOMAIN l0 = 1..Len(l0) /\ Len(l0) \in Nat
      /\ \A i \in DOMAIN l0 : l0[i] \in Files /\ l0[i] \subseteq Entries
  <2>1. l0 \in Seq(Files)
    BY DEF LInv, LevelTypes
  <2>2. QED
    BY <2>1, LenProperties, ElementOfSeq DEF Files
<1>2. \A i \in DOMAIN l0 : GetFinds(l0[i], k, s, NewestIn(l0[i], k, s))
  BY <1>1, NewestInFinds
<1>3. /\ \A i \in DOMAIN l0 : l0[i] \in Level(0)
      /\ \A f \in Level(0) : \E i \in DOMAIN l0 : f = l0[i]
  BY DEF Level
<1>4. \A i \in DOMAIN l0 \ I : Matches(l0[i], k, s) = {}
  BY <1>2, EntryTypes DEF GetFinds
<1>5. CASE I = {}
  <2>1. Matches(UNION Level(0), k, s) = {}
    BY <1>3, <1>4, <1>5 DEF Matches
  <2>2. NewestFirst(k, s) = None
    BY <1>5 DEF NewestFirst
  <2>3. QED
    BY <2>1, <2>2 DEF GetFinds
<1>6. CASE I # {}
  <2>1. I \in SUBSET (1..Len(l0))
    BY <1>1
  <2>2. IsFiniteSet(I) /\ I \subseteq Int
    <3> HIDE DEF I
    <3>1. IsFiniteSet(1..Len(l0))
      BY <1>1, FS_Interval
    <3>2. IsFiniteSet(I)
      BY <2>1, <3>1, FS_Subset
    <3>3. I \subseteq Int
      BY <2>1
    <3>4. QED
      BY <3>2, <3>3
  <2>3. \E i \in I : \A j \in I : j <= i
    <3> HIDE DEF I
    <3>1. QED
      BY <1>6, <2>2, LargestNumber
  <2>4. PICK i \in I : i = (CHOOSE m \in I : \A j \in I : j <= m) /\ \A j \in I : j <= i
    BY <2>3
  <2>5. NewestFirst(k, s) = NewestIn(l0[i], k, s)
    BY <1>6, <2>4 DEF NewestFirst
  <2>6. PICK e : e = NewestIn(l0[i], k, s)
    OBVIOUS
  <2>7. e # None /\ Newest(l0[i], k, s, e) /\ e \in l0[i] /\ i \in DOMAIN l0
    BY <1>2, <2>4, <2>6 DEF GetFinds, Newest
  <2>8. ASSUME NEW g \in UNION Level(0), g.k = k, g.s <= s PROVE g.s <= e.s
    <3>1. PICK j \in DOMAIN l0 : g \in l0[j]
      BY <1>3, <2>8
    <3>2. j \in I
      BY <1>4, <2>8, <3>1 DEF Matches
    <3>3. CASE j = i
      BY <2>7, <2>8, <3>1, <3>3 DEF Newest
    <3>4. CASE j < i
      <4>1. g.s < e.s
        BY <2>7, <3>1, <3>4 DEF LInv, Numbered
      <4>2. g.s \in Nat /\ e.s \in Nat
        BY <1>1, <2>7, <3>1, EntryTypes
      <4>3. QED
        BY <4>1, <4>2
    <3>5. QED
      BY <2>1, <2>4, <3>2, <3>3, <3>4
  <2>9. e \in UNION Level(0)
    BY <1>3, <2>7
  <2>10. Newest(UNION Level(0), k, s, e)
    BY <2>7, <2>8, <2>9 DEF Newest
  <2>11. QED
    BY <2>5, <2>6, <2>7, <2>10 DEF GetFinds
<1>7. QED
  BY <1>5, <1>6

\* Of the files of a level that do not end before <<k, s>>, one is first.
LEMMA FirstFile ==
  ASSUME LInv, NEW n \in DOMAIN lv, NEW F, F \subseteq lv[n], F # {}
  PROVE  \E f \in F : \A g \in F \ {f} : Before(Largest(f), Largest(g))
<1> DEFINE R == {p \in F \X F : Before(Largest(p[2]), Largest(p[1]))}
<1>1. n \in 0..NumLevels - 1 /\ lv[n] = Level(n) /\ LevelTypes /\ Numbered
  BY DEF LInv, LevelTypes, Level
<1>2. /\ Level(n) \subseteq Files /\ UNION Level(n) \subseteq InTables
      /\ \A f \in Level(n) : f \subseteq Entries /\ f # {} /\ Unique(f)
  BY <1>1, FileFacts
<1>3. IsFiniteSet(F)
  <2>1. F \in SUBSET (SUBSET Entries)
    BY <1>1, <1>2 DEF Files
  <2>2. IsFiniteSet(SUBSET Entries)
    BY EntriesAreFinite, FS_SUBSET
  <2>3. QED
    BY <2>1, <2>2, FS_Subset
<1>4. \A f \in F : Largest(f) \in f /\ Largest(f) \in Entries /\ Largest(f).k \in Nat /\ Largest(f).s \in Nat
  <2>1. \A f \in F : Largest(f) \in f /\ f \subseteq Entries
    BY <1>1, <1>2, EndsOf
  <2>2. QED
    BY <2>1, EntryTypes
<1>5. \A f, g \in F : f # g => Before(Largest(f), Largest(g)) \/ Before(Largest(g), Largest(f))
  <2> SUFFICES ASSUME NEW f \in F, NEW g \in F, f # g
               PROVE  Before(Largest(f), Largest(g)) \/ Before(Largest(g), Largest(f))
    OBVIOUS
  <2>1. OrderApart(f, g)
    BY <1>1, <1>2, ApartIs DEF LInv, LevelsApart
  <2>2. QED
    BY <1>4, <2>1 DEF OrderApart
<1>6. \A f, g \in F : <<f, g>> \in R <=> Before(Largest(g), Largest(f))
  OBVIOUS
<1> HIDE DEF R
<1>7. \A f \in F : <<f, f>> \notin R
  BY <1>4, <1>6 DEF Before
<1>8. \A f, g, h \in F : <<f, g>> \in R /\ <<g, h>> \in R => <<f, h>> \in R
  BY <1>4, <1>6 DEF Before
<1>9. \A f, g \in F : f # g => <<f, g>> \in R \/ <<g, f>> \in R
  BY <1>5, <1>6
<1>10. PICK f \in F : \A g \in F \ {f} : <<g, f>> \in R
  BY <1>3, <1>7, <1>8, <1>9, LastElement
<1>11. \A g \in F \ {f} : Before(Largest(f), Largest(g))
  BY <1>6, <1>10
<1>12. QED
  BY <1>11

LEMMA InLevelFinds ==
  ASSUME NeverSplits, LInv, NEW n \in 1..NumLevels - 1, NEW k \in Keys, NEW s \in Nat
  PROVE  GetFinds(UNION Level(n), k, s, InLevel(n, k, s))
<1> DEFINE at == [k |-> k, s |-> s]
           F == {f \in lv[n] : ~Before(Largest(f), at)}
<1>1. n \in 0..NumLevels - 1 /\ n \in DOMAIN lv /\ lv[n] = Level(n) /\ LevelTypes /\ Numbered /\ k \in Nat
  BY EntryTypes DEF LInv, LevelTypes, Level
<1>2. \A f \in Level(n) : f \subseteq Entries /\ f # {} /\ Unique(f)
  BY <1>1, FileFacts
<1>3. ASSUME NEW f \in Level(n)
      PROVE  /\ Largest(f) \in f /\ \A g \in f \ {Largest(f)} : Before(g, Largest(f))
             /\ Smallest(f) \in f /\ \A g \in f \ {Smallest(f)} : Before(Smallest(f), g)
             /\ \A g \in f : g.k \in Nat /\ g.s \in Nat
  BY <1>2, EndsOf, EntryTypes
<1>4. at.k = k /\ at.s = s
  OBVIOUS
<1> HIDE DEF at
<1>5. ASSUME NEW f \in Level(n) \ F, NEW g \in f, g.k = k, g.s <= s PROVE FALSE
  <2>1. Before(Largest(f), at)
    BY <1>1, <1>5
  <2>2. g = Largest(f) \/ Before(g, Largest(f))
    BY <1>3, <1>5
  <2>3. Largest(f).k \in Nat /\ Largest(f).s \in Nat /\ g.s \in Nat
    BY <1>3, <1>5
  <2>4. QED
    BY <1>1, <1>4, <1>5, <2>1, <2>2, <2>3 DEF Before
<1>6. CASE F = {}
  <2>1. Matches(UNION Level(n), k, s) = {}
    BY <1>5, <1>6 DEF Matches
  <2>2. FindFile(n, k, s) = {}
    BY <1>6 DEF FindFile, at
  <2>3. InLevel(n, k, s) = None
    BY <2>2 DEF InLevel
  <2>4. QED
    BY <2>1, <2>3 DEF GetFinds
<1>7. CASE F # {}
  <2>1. \E f \in F : \A g \in F \ {f} : Before(Largest(f), Largest(g))
    <3>1. F \subseteq lv[n]
      OBVIOUS
    <3> HIDE DEF F
    <3>2. QED
      BY <1>1, <1>7, <3>1, FirstFile
  <2>2. FindFile(n, k, s) = CHOOSE f \in F : \A g \in F \ {f} : Before(Largest(f), Largest(g))
    BY <1>7 DEF FindFile, at
  <2>3. PICK f \in F : f = FindFile(n, k, s) /\ \A g \in F \ {f} : Before(Largest(f), Largest(g))
    BY <2>1, <2>2
  <2>4. f \in Level(n) /\ f # {} /\ ~Before(Largest(f), at) /\ f \subseteq Entries
    BY <1>1, <1>2
  <2>5. ASSUME NEW h \in Level(n), h # f, NEW g \in h, g.k = k, g.s <= s PROVE FALSE
    <3>1. h \in F
      BY <1>5, <2>5
    <3>2. Before(Largest(f), Largest(h))
      BY <2>3, <2>5, <3>1
    <3>3. Largest(f) \in f /\ Largest(h) \in h /\ Largest(f).k \in Nat /\ Largest(f).s \in Nat
          /\ Largest(h).k \in Nat /\ Largest(h).s \in Nat
      BY <1>3, <2>4
    <3>4. Largest(f).k >= k
      BY <1>1, <1>4, <2>4, <3>3 DEF Before
    <3>5. KeysApart(f, h)
      BY <1>1, <2>4, <2>5 DEF LInv, LevelsApart, Apart
    <3>6. (Largest(f).k < Largest(h).k /\ Largest(f).k < g.k) \/ Largest(h).k < Largest(f).k
      BY <2>5, <3>3, <3>5 DEF KeysApart
    <3>7. QED
      BY <1>1, <2>5, <3>2, <3>3, <3>4, <3>6 DEF Before
  <2>6. ASSUME NEW e, GetFinds(f, k, s, e) PROVE GetFinds(UNION Level(n), k, s, e)
    <3>1. Matches(UNION Level(n), k, s) = Matches(f, k, s)
      BY <2>4, <2>5 DEF Matches
    <3>2. \A g : g \in UNION Level(n) /\ g.k = k /\ g.s <= s => g \in f
      BY <2>5
    <3>3. QED
      BY <2>4, <2>6, <3>1, <3>2 DEF GetFinds, Newest
  <2>7. CASE k < Smallest(f).k
    <3>1. ASSUME NEW g \in f, g.k = k PROVE FALSE
      <4>1. Smallest(f).k \in Nat /\ (g = Smallest(f) \/ Before(Smallest(f), g))
        BY <1>3, <2>4
      <4>2. QED
        BY <1>1, <2>7, <3>1, <4>1 DEF Before
    <3>2. Matches(f, k, s) = {}
      BY <3>1 DEF Matches
    <3>3. InLevel(n, k, s) = None
      BY <2>3, <2>7 DEF InLevel
    <3>4. GetFinds(f, k, s, None)
      BY <3>2 DEF GetFinds
    <3>5. QED
      BY <2>6, <3>3, <3>4
  <2>8. CASE ~(k < Smallest(f).k)
    <3>1. InLevel(n, k, s) = NewestIn(f, k, s)
      BY <2>3, <2>4, <2>8 DEF InLevel
    <3>2. QED
      BY <2>4, <2>6, <3>1, NewestInFinds
  <2>9. QED
    BY <2>7, <2>8
<1>8. QED
  BY <1>6, <1>7

\* Where Get looks, and what it finds there.
Place(n) == IF n = -1 THEN mem ELSE UNION Level(n)
FoundAt(n, k, s) ==
    IF n = -1 THEN NewestIn(mem, k, s) ELSE IF n = 0 THEN NewestFirst(k, s) ELSE InLevel(n, k, s)

LEMMA PlaceFinds ==
  ASSUME NeverSplits, LInv, NEW n \in -1..NumLevels - 1, NEW k \in Keys, NEW s \in Nat
  PROVE  GetFinds(Place(n), k, s, FoundAt(n, k, s))
<1>1. mem \subseteq Entries
  BY DEF LInv, LevelTypes
<1>2. CASE n = -1
  BY <1>1, <1>2, NewestInFinds DEF Place, FoundAt
<1>3. CASE n = 0
  <2>1. Place(n) = UNION Level(0) /\ FoundAt(n, k, s) = NewestFirst(k, s)
    BY <1>3 DEF Place, FoundAt
  <2>2. GetFinds(UNION Level(0), k, s, NewestFirst(k, s))
    BY NewestFirstFinds
  <2>3. QED
    BY <2>1, <2>2
<1>4. CASE n # -1 /\ n # 0
  <2>1. n \in 1..NumLevels - 1
    BY <1>4
  <2>2. QED
    BY <1>4, <2>1, InLevelFinds DEF Place, FoundAt
<1>5. QED
  BY <1>2, <1>3, <1>4

\* Of two entries of a key, the one in an earlier place is the newer one.
LEMMA EarlierIsNewer ==
  ASSUME LInv, NewerAbove, NEW m \in -1..NumLevels - 1, NEW n \in -1..NumLevels - 1, m < n,
         NEW e \in Place(m), NEW g \in Place(n), e.k = g.k
  PROVE  g.s < e.s
<1>1. n \in 0..NumLevels - 1 /\ n # -1 /\ LevelTypes /\ Numbered
  BY DEF LInv
<1>2. PICK h \in Level(n) : g \in h
  BY <1>1 DEF Place
<1>3. CASE m = -1
  <2>1. g \in InTables
    BY <1>1, <1>2 DEF InTables
  <2>2. QED
    BY <1>1, <1>3, <2>1 DEF Place, Numbered
<1>4. CASE m # -1
  <2>1. m \in 0..NumLevels - 1
    BY <1>4
  <2>2. PICK f \in Level(m) : e \in f
    BY <1>4 DEF Place
  <2>3. e.s > g.s
    BY <1>1, <1>2, <2>1, <2>2, NewerFacts
  <2>4. QED
    BY <2>3
<1>5. QED
  BY <1>3, <1>4

LEMMA GetReads ==
  ASSUME NeverSplits, LInv, NewerAbove, NEW k \in Keys, NEW s \in Nat,
         NEW v, Reads(Everything, k, s, v)
  PROVE  Get(k, s) = v
<1> DEFINE hits == {n \in -1..NumLevels - 1 : FoundAt(n, k, s) # None}
           first == CHOOSE n \in hits : \A m \in hits : n <= m
           e == IF hits = {} THEN None ELSE FoundAt(first, k, s)
<1>1. Get(k, s) = IF e.del THEN 0 ELSE e.s
  BY DEF Get, FoundAt
<1>2. \A n \in -1..NumLevels - 1 : GetFinds(Place(n), k, s, FoundAt(n, k, s))
  BY PlaceFinds
<1>3. \A g : g \in Everything <=> \E n \in -1..NumLevels - 1 : g \in Place(n)
  <2>1. \A g : g \in InTables <=> \E n \in 0..NumLevels - 1 : g \in Place(n)
    BY DEF InTables, Place
  <2>2. \A n \in -1..NumLevels - 1 : n = -1 \/ n \in 0..NumLevels - 1
    OBVIOUS
  <2>3. -1 \in -1..NumLevels - 1 /\ \A n \in 0..NumLevels - 1 : n \in -1..NumLevels - 1
    BY CompactionAssumption
  <2>4. Place(-1) = mem
    BY DEF Place
  <2>5. QED
    BY <2>1, <2>2, <2>3, <2>4 DEF Everything
<1>4. \A n \in (-1..NumLevels - 1) \ hits : Matches(Place(n), k, s) = {}
  BY <1>2, NoneIsNoEntry DEF GetFinds
<1>5. CASE hits = {}
  <2>1. e = None /\ Get(k, s) = 0
    BY <1>1, <1>5 DEF None
  <2>2. \A g \in Everything : ~(g.k = k /\ g.s <= s)
    BY <1>3, <1>4, <1>5 DEF Matches
  <2>3. v = 0
    BY <2>2 DEF Reads, Newest
  <2>4. QED
    BY <2>1, <2>3
<1>6. CASE hits # {}
  <2>1. \E n \in hits : \A m \in hits : n <= m
    <3>1. {m + 1 : m \in hits} \subseteq Nat /\ {m + 1 : m \in hits} # {}
      BY <1>6
    <3>2. PICK i \in {m + 1 : m \in hits} : \A j \in {m + 1 : m \in hits} : i <= j
      BY <3>1, LeastOfNumbers
    <3>3. PICK n \in hits : i = n + 1
      BY <3>2
    <3>4. \A m \in hits : n + 1 <= m + 1
      BY <3>2, <3>3
    <3>5. \A m \in hits : n <= m
      BY <3>4
    <3>6. QED
      BY <3>5
  <2>2. first \in hits /\ \A m \in hits : first <= m
    BY <2>1
  <2>3. PICK n \in -1..NumLevels - 1 : n = first
    BY <2>2
  <2>4. e = FoundAt(n, k, s) /\ n \in hits /\ \A m \in hits : n <= m
    BY <1>6, <2>2, <2>3
  <2>5. PICK x : x = FoundAt(n, k, s)
    OBVIOUS
  <2>6. x # None /\ Newest(Place(n), k, s, x)
    BY <1>2, <2>4, <2>5 DEF GetFinds
  <2>7. x \in Place(n) /\ x.k = k /\ x.s <= s /\ \A g \in Place(n) : g.k = k /\ g.s <= s => g.s <= x.s
    BY <2>6 DEF Newest
  <2> HIDE DEF hits, e, first
  <2>8. \A g \in Everything : g.k \in Nat /\ g.s \in Nat
    BY EverythingTypes
  <2>9. x \in Everything
    BY <1>3, <2>3, <2>7
  <2>10. ASSUME NEW g \in Everything, g.k = k, g.s <= s PROVE g.s <= x.s
    <3>1. PICK m \in -1..NumLevels - 1 : g \in Place(m)
      BY <1>3, <2>10
    <3>2. m \in hits
      BY <1>4, <2>10, <3>1 DEF Matches
    <3>3. CASE m = n
      BY <2>7, <2>10, <3>1, <3>3
    <3>4. CASE m # n
      <4>1. n < m
        BY <2>4, <3>2, <3>4
      <4>2. g.s < x.s
        BY <2>7, <2>10, <3>1, <4>1, EarlierIsNewer
      <4>3. QED
        BY <2>8, <2>9, <4>2
    <3>5. QED
      BY <3>3, <3>4
  <2>11. PICK y \in Everything : Newest(Everything, k, s, y) /\ v = IF y.del THEN 0 ELSE y.s
    BY <2>7, <2>9 DEF Reads
  <2>12. y.s <= x.s /\ x.s <= y.s
    BY <2>7, <2>9, <2>10, <2>11 DEF Newest
  <2>13. y = x
    BY <2>8, <2>9, <2>12 DEF LInv, Numbered
  <2>14. QED
    BY <1>1, <2>4, <2>5, <2>11, <2>13
<1>7. QED
  BY <1>5, <1>6

-----------------------------------------------------------------------------
(* The reads.                                                              *)

LEMMA ReadsStart == CompactionInit => RInv
<1> SUFFICES ASSUME CompactionInit PROVE RInv
  OBVIOUS
<1>1. /\ mem = {} /\ l0 = <<>> /\ lv = [n \in 1..NumLevels - 1 |-> {}] /\ snapshots = {}
      /\ latest = [k \in Keys |-> 0] /\ frozen = [s \in {} |-> latest]
  BY DEF CompactionInit
<1>2. LInv
  BY LevelsStart
<1>3. NewerAbove
  BY <1>1 DEF NewerAbove
<1>4. \A n \in 0..NumLevels - 1 : Level(n) = {}
  <2> TAKE n \in 0..NumLevels - 1
  <2>1. CASE n = 0
    BY <1>1, <2>1, EmptySeq DEF Level
  <2>2. CASE n # 0
    BY <1>1, <2>2, CompactionAssumption DEF Level
  <2>3. QED
    BY <2>1, <2>2
<1>5. Everything = {}
  BY <1>1, <1>4 DEF Everything, InTables
<1>6. Remembers
  BY <1>1, <1>5 DEF Remembers, Reads
<1>7. QED
  BY <1>2, <1>3, <1>6 DEF RInv

LEMMA SameOrder ==
  ASSUME NewerAbove, UNCHANGED <<l0, lv>>
  PROVE  NewerAbove'
BY DEF NewerAbove

LEMMA ReadsStay ==
  ASSUME ~Manual, NeverSplits, RInv, [CompactionNext]_compactionVars
  PROVE  RInv'
<1>1. LInv /\ NewerAbove /\ Remembers
  BY DEF RInv
<1>2. SUFFICES NewerAbove' /\ Remembers'
  BY <1>1, LevelsStay DEF RInv
<1>3. ASSUME NEW k \in Keys, NEW del \in Deletes, Put(k, del) PROVE NewerAbove' /\ Remembers'
  BY <1>1, <1>3, PutRemembers, SameOrder DEF Put
<1>4. CASE GetSnapshot
  BY <1>1, <1>4, GetSnapshotRemembers, SameOrder DEF GetSnapshot
<1>5. ASSUME NEW s \in snapshots, ReleaseSnapshot(s) PROVE NewerAbove' /\ Remembers'
  BY <1>1, <1>5, ReleaseSnapshotRemembers, SameOrder DEF ReleaseSnapshot
<1>6. ASSUME NEW n \in 0..MaxMemCompactLevel, Flush(n) PROVE NewerAbove' /\ Remembers'
  BY <1>1, <1>6, FlushRemembers, FlushKeepsOrder
<1>7. ASSUME NEW n \in 0..NumLevels - 2, NEW f \in Level(n), TrivialMove(n, f)
      PROVE  NewerAbove' /\ Remembers'
  <2>1. Everything' = Everything
    BY <1>1, <1>7, MoveKeeps
  <2>2. UNCHANGED <<lastSeq, snapshots, latest, frozen>>
    BY <1>7 DEF TrivialMove
  <2>3. QED
    BY <1>1, <1>7, <2>1, <2>2, MoveKeepsOrder, SameMemory
<1>8. ASSUME NEW n \in 0..NumLevels - 2, NEW f \in Level(n), StartCompaction(n, f)
      PROVE  NewerAbove' /\ Remembers'
  <2>1. UNCHANGED <<mem, l0, lv, lastSeq, snapshots, latest, frozen>>
    BY <1>8 DEF StartCompaction
  <2>2. Everything' = Everything
    BY <2>1, SameTables DEF Everything
  <2>3. QED
    BY <1>1, <2>1, <2>2, SameMemory, SameOrder
<1>9. ASSUME NEW n \in 0..NumLevels - 2, NEW b \in Keys, NEW e \in Keys, StartManual(n, b, e)
      PROVE  NewerAbove' /\ Remembers'
  BY <1>9 DEF StartManual
<1>10. CASE FinishCompaction
  BY <1>1, <1>10, FinishKeepsOrder, FinishRemembers
<1>11. CASE UNCHANGED compactionVars
  <2>1. UNCHANGED <<mem, l0, lv, lastSeq, snapshots, latest, frozen>>
    BY <1>11 DEF compactionVars
  <2>2. Everything' = Everything
    BY <2>1, SameTables DEF Everything
  <2>3. QED
    BY <1>1, <2>1, <2>2, SameMemory, SameOrder
<1>12. QED
  BY <1>3, <1>4, <1>5, <1>6, <1>7, <1>8, <1>9, <1>10, <1>11 DEF CompactionNext

\* Without manual compactions, and where no output is cut between two
\* versions of a key, what is newer is above and everything written is
\* remembered.
THEOREM ReadsInductive ==
  ASSUME ~Manual, NeverSplits
  PROVE  CompactionSpec => []RInv
<1>1. RInv /\ [CompactionNext]_compactionVars => RInv'
  BY ReadsStay
<1>2. QED
  BY <1>1, ReadsStart, PTL DEF CompactionSpec

\* "Entries never hop across levels" (version_set.cc:337): whatever a read
\* finds first is the newest, however flushes land in the middle of
\* compactions.
THEOREM NewestIsAbove ==
  ASSUME ~Manual, NeverSplits
  PROVE  CompactionSpec => []NewerAbove
<1>1. RInv => NewerAbove
  BY DEF RInv
<1>2. QED
  BY <1>1, ReadsInductive, PTL

\* A read of the latest state or of a live snapshot returns what was last
\* written before it (db.h:94), whatever is flushed, moved, merged and
\* dropped meanwhile.
THEOREM ReadsStayRight ==
  ASSUME ~Manual, NeverSplits
  PROVE  CompactionSpec => []ReadsRight
<1>1. RInv => ReadsRight
  <2> SUFFICES ASSUME RInv PROVE ReadsRight
    OBVIOUS
  <2>1. LInv /\ NewerAbove /\ Remembers
    BY DEF RInv
  <2>2. lastSeq \in Nat /\ \A s \in snapshots : s \in Nat
    BY <2>1, EverythingTypes
  <2>3. \A k \in Keys : Get(k, lastSeq) = latest[k]
    BY <2>1, <2>2, GetReads DEF Remembers
  <2>4. \A k \in Keys, s \in snapshots : Get(k, s) = frozen[s][k]
    BY <2>1, <2>2, GetReads DEF Remembers
  <2>5. QED
    BY <2>3, <2>4 DEF ReadsRight
<1>2. QED
  BY <1>1, ReadsInductive, PTL
===============================================================================
