-------------------------- MODULE LevelDBTablesProofs --------------------------
(***************************************************************************)
(* What is inside a table file, for any keys, blocks and restart interval, *)
(* and the iterators over all of them, for any keys and children.          *)
(*                                                                         *)
(* TableInv says of the index what a search needs: its key for a block is  *)
(* not before the block and before the next one, and if it was cut, it is  *)
(* before every entry of the user key that comes next, so that the entry   *)
(* of a key that is looked up is never in the block after.  IInv says of   *)
(* the merging iterator where its children stand around its entry, and of  *)
(* DBIter what it has passed and kept in each of its loops.                *)
(***************************************************************************)
EXTENDS MCLevelDBTables, TableFilesProofs

Bytes == Seq(0..MaxByte + 1)
\* The keys of a table, and those an index block may have.
Keys == [u : Bytes, s : 0..TopSeq]

-----------------------------------------------------------------------------
LEMMA SmallestOfIs ==
  ASSUME NEW S, S \subseteq Nat, S # {}
  PROVE  SmallestOf(S) \in S /\ \A y \in S : SmallestOf(S) <= y
<1>1. \E x \in S : \A y \in S : x <= y
  BY LeastOfNaturals
<1>2. QED
  BY <1>1 DEF SmallestOf

LEMMA LargestOfIs ==
  ASSUME NEW n \in Nat, NEW S, S \subseteq 0..n, S # {}
  PROVE  LargestOf(S) \in S /\ \A y \in S : y <= LargestOf(S)
<1> DEFINE T == {n - x : x \in S}
<1>1. T \subseteq Nat /\ T # {}
  <2>1. \A x \in S : n - x \in Nat
    OBVIOUS
  <2>2. QED
    BY <2>1
<1>2. PICK m \in T : \A y \in T : m <= y
  <2> HIDE DEF T
  <2>1. QED
    BY <1>1, LeastOfNaturals
<1>3. PICK x \in S : m = n - x
  BY <1>2
<1>4. ASSUME NEW y \in S
      PROVE  y <= x
  <2>1. m <= n - y
    BY <1>2
  <2>2. x \in 0..n /\ y \in 0..n
    OBVIOUS
  <2>3. QED
    BY <1>3, <2>1, <2>2
<1>5. QED
  BY <1>4 DEF LargestOf

-----------------------------------------------------------------------------
(* The orders.                                                             *)

LEMMA BytesTypes ==
  ASSUME NEW a \in Bytes
  PROVE  /\ Len(a) \in Nat /\ DOMAIN a = 1..Len(a)
         /\ \A i \in 1..Len(a) : a[i] \in 0..MaxByte + 1 /\ a[i] \in Nat
BY IndexAssumption DEF Bytes

LEMMA BytesIrreflexive == ASSUME NEW a \in Bytes PROVE ~BytesBefore(a, a)
BY BytesTypes DEF BytesBefore

LEMMA BytesTransitive ==
  ASSUME NEW a \in Bytes, NEW b \in Bytes, NEW c \in Bytes, BytesBefore(a, b), BytesBefore(b, c)
  PROVE  BytesBefore(a, c)
<1>1. PICK i \in 1..Len(b) : /\ i <= Len(a) + 1 /\ \A j \in 1..i - 1 : a[j] = b[j]
                             /\ i <= Len(a) => a[i] < b[i]
  BY DEF BytesBefore
<1>2. PICK k \in 1..Len(c) : /\ k <= Len(b) + 1 /\ \A j \in 1..k - 1 : b[j] = c[j]
                             /\ k <= Len(b) => b[k] < c[k]
  BY DEF BytesBefore
<1>3. Len(a) \in Nat /\ Len(b) \in Nat /\ Len(c) \in Nat
  BY BytesTypes
<1>4. CASE i < k
  <2>1. i \in 1..Len(c) /\ b[i] = c[i] /\ \A j \in 1..i - 1 : b[j] = c[j]
    BY <1>1, <1>2, <1>3, <1>4
  <2>2. \A j \in 1..i - 1 : a[j] = c[j]
    BY <1>1, <2>1
  <2>3. QED
    BY <1>1, <2>1, <2>2 DEF BytesBefore
<1>5. CASE k <= i
  <2>1. k <= Len(a) + 1 /\ k <= Len(b) /\ b[k] < c[k] /\ b[k] \in Nat /\ c[k] \in Nat
    BY <1>1, <1>2, <1>3, <1>5, BytesTypes
  <2>2. \A j \in 1..k - 1 : a[j] = c[j]
    BY <1>1, <1>2, <1>5
  <2>3. k <= Len(a) => a[k] \in Nat /\ (a[k] = b[k] \/ a[k] < b[k])
    BY <1>1, <1>2, <1>3, <1>5, BytesTypes
  <2>4. k <= Len(a) => a[k] < c[k]
    BY <2>1, <2>3
  <2>5. QED
    BY <2>1, <2>2, <2>4 DEF BytesBefore
<1>6. QED
  BY <1>1, <1>2, <1>3, <1>4, <1>5

LEMMA BytesTotal ==
  ASSUME NEW a \in Bytes, NEW b \in Bytes
  PROVE  a = b \/ BytesBefore(a, b) \/ BytesBefore(b, a)
<1> DEFINE D == {i \in 1..Len(a) : i <= Len(b) /\ a[i] # b[i]}
<1>1. Len(a) \in Nat /\ Len(b) \in Nat
  BY BytesTypes
<1>2. CASE D = {}
  <2>1. \A i \in 1..Len(a) : i <= Len(b) => a[i] = b[i]
    BY <1>2
  <2>2. CASE Len(a) = Len(b)
    <3>1. a = b
      BY <2>1, <2>2 DEF Bytes
    <3>2. QED
      BY <3>1
  <2>3. CASE Len(a) < Len(b)
    <3>1. Len(a) + 1 \in 1..Len(b) /\ \A j \in 1..Len(a) + 1 - 1 : a[j] = b[j]
      BY <1>1, <2>1, <2>3
    <3>2. BytesBefore(a, b)
      BY <1>1, <3>1 DEF BytesBefore
    <3>3. QED
      BY <3>2
  <2>4. CASE Len(b) < Len(a)
    <3>1. Len(b) + 1 \in 1..Len(a) /\ \A j \in 1..Len(b) + 1 - 1 : b[j] = a[j]
      BY <1>1, <2>1, <2>4
    <3>2. BytesBefore(b, a)
      BY <1>1, <3>1 DEF BytesBefore
    <3>3. QED
      BY <3>2
  <2>5. QED
    BY <1>1, <2>2, <2>3, <2>4
<1>3. CASE D # {}
  <2>1. D \subseteq Nat
    OBVIOUS
  <2>2. PICK i \in D : \A j \in D : i <= j
    <3> HIDE DEF D
    <3>1. QED
      BY <1>3, <2>1, LeastOfNaturals
  <2>3. /\ i \in 1..Len(a) /\ i \in 1..Len(b) /\ a[i] # b[i] /\ a[i] \in Nat /\ b[i] \in Nat
        /\ \A j \in 1..i - 1 : a[j] = b[j]
    BY <1>1, <2>2, BytesTypes
  <2>4. a[i] < b[i] => BytesBefore(a, b)
    BY <1>1, <2>3 DEF BytesBefore
  <2>5. b[i] < a[i] => BytesBefore(b, a)
    BY <1>1, <2>3 DEF BytesBefore
  <2>6. QED
    BY <2>3, <2>4, <2>5
<1>4. QED
  BY <1>2, <1>3

LEMMA KeyTypes ==
  ASSUME NEW x \in Keys
  PROVE  x.u \in Bytes /\ x.s \in Nat /\ x.s <= TopSeq
BY IndexAssumption DEF Keys

LEMMA KeysOrdered ==
  /\ \A x \in Keys : ~KeyBefore(x, x)
  /\ \A x, y, z \in Keys : KeyBefore(x, y) /\ KeyBefore(y, z) => KeyBefore(x, z)
  /\ \A x, y \in Keys : KeyBefore(x, y) => ~KeyBefore(y, x)
  /\ \A x, y \in Keys : x = y \/ KeyBefore(x, y) \/ KeyBefore(y, x)
<1>1. \A x \in Keys : ~KeyBefore(x, x)
  BY KeyTypes, BytesIrreflexive DEF KeyBefore
<1>2. ASSUME NEW x \in Keys, NEW y \in Keys, NEW z \in Keys, KeyBefore(x, y), KeyBefore(y, z)
      PROVE  KeyBefore(x, z)
  <2>1. x.u \in Bytes /\ y.u \in Bytes /\ z.u \in Bytes /\ x.s \in Nat /\ y.s \in Nat /\ z.s \in Nat
    BY KeyTypes
  <2>2. QED
    BY <1>2, <2>1, BytesTransitive DEF KeyBefore
<1>3. \A x, y \in Keys : x = y \/ KeyBefore(x, y) \/ KeyBefore(y, x)
  <2> TAKE x, y \in Keys
  <2>1. x.u \in Bytes /\ y.u \in Bytes /\ x.s \in Nat /\ y.s \in Nat
    BY KeyTypes
  <2>2. x.u = y.u /\ x.s = y.s => x = y
    BY DEF Keys
  <2>3. QED
    BY <2>1, <2>2, BytesTotal DEF KeyBefore
<1>4. QED
  BY <1>1, <1>2, <1>3

\* Between two keys, no more than up to the second.
LEMMA NotBefore ==
  ASSUME NEW x \in Keys, NEW y \in Keys, NEW z \in Keys
  PROVE  /\ ~KeyBefore(y, x) /\ KeyBefore(y, z) => KeyBefore(x, z)
         /\ KeyBefore(x, y) /\ ~KeyBefore(z, y) => KeyBefore(x, z)
         /\ ~KeyBefore(y, x) /\ ~KeyBefore(z, y) => ~KeyBefore(z, x)
BY KeysOrdered

LEMMA TableKeyTypes ==
  /\ TableKeys \in SUBSET Keys
  /\ \A k \in TableKeys : k.u \in UserStrings /\ k.s > 0
<1>1. UserStrings \subseteq Bytes
  <2>1. 0..MaxByte \subseteq 0..MaxByte + 1
    BY IndexAssumption
  <2>2. Seq(0..MaxByte) \subseteq Bytes
    BY <2>1, SeqMonotonic DEF Bytes
  <2>3. QED
    BY <2>2, IndexAssumption
<1>2. 1..TopSeq - 1 \subseteq 0..TopSeq
  BY IndexAssumption
<1>3. QED
  BY <1>1, <1>2 DEF TableKeys, Keys

-----------------------------------------------------------------------------
(* The keys of the index.                                                  *)

LEMMA RaisedIs ==
  ASSUME NEW a \in Seq(0..MaxByte), NEW i \in 1..Len(a)
  PROVE  /\ Raised(a, i) \in Bytes /\ Len(Raised(a, i)) = i
         /\ Raised(a, i)[i] = a[i] + 1
         /\ \A j \in 1..i - 1 : Raised(a, i)[j] = a[j]
<1>1. i \in Nat /\ i - 1 \in Nat /\ i - 1 < Len(a) /\ Len(a) \in Nat /\ \A j \in 1..Len(a) : a[j] \in 0..MaxByte
  <2>1. Len(a) \in Nat
    BY LenProperties
  <2>2. \A j \in 1..Len(a) : a[j] \in 0..MaxByte
    BY ElementOfSeq
  <2>3. QED
    BY <2>1, <2>2
<1>2. \A j \in 1..i - 1 : a[j] \in 0..MaxByte + 1
  BY <1>1, IndexAssumption
<1> DEFINE b == SubSeq(a, 1, i - 1)
<1>3. b \in Bytes /\ Len(b) = i - 1 /\ \A j \in 1..i - 1 : b[j] = a[j]
  <2>1. /\ b \in Seq(0..MaxByte + 1) /\ Len(b) = (IF 1 <= i - 1 THEN i - 1 - 1 + 1 ELSE 0)
        /\ \A j \in 1..i - 1 - 1 + 1 : b[j] = a[1 + j - 1]
    BY <1>1, <1>2, SubSeqProperties
  <2>2. QED
    BY <1>1, <2>1 DEF Bytes
<1>4. a[i] + 1 \in 0..MaxByte + 1
  BY <1>1, IndexAssumption
<1> HIDE DEF b
<1>5. /\ Append(b, a[i] + 1) \in Bytes /\ Len(Append(b, a[i] + 1)) = Len(b) + 1
      /\ \A j \in 1..Len(b) : Append(b, a[i] + 1)[j] = b[j]
      /\ Append(b, a[i] + 1)[Len(b) + 1] = a[i] + 1
  BY <1>3, <1>4, AppendProperties DEF Bytes
<1>6. QED
  BY <1>1, <1>3, <1>5 DEF Raised, b

\* What a key is cut to is not before it, and still before the next.
LEMMA SeparatorIs ==
  ASSUME NEW k \in TableKeys, NEW limit \in TableKeys, KeyBefore(k, limit)
  PROVE  /\ FindShortestSeparator(k, limit) \in Keys
         /\ ~KeyBefore(FindShortestSeparator(k, limit), k)
         /\ KeyBefore(FindShortestSeparator(k, limit), limit)
         /\ \/ FindShortestSeparator(k, limit) = k
            \/ BytesBefore(FindShortestSeparator(k, limit).u, limit.u)
<1> DEFINE u == BytesSeparator(k.u, limit.u)
<1>1. FindShortestSeparator(k, limit) =
        IF Len(u) < Len(k.u) /\ BytesBefore(k.u, u) THEN [u |-> u, s |-> TopSeq] ELSE k
  BY DEF FindShortestSeparator, Shortened
<1>2. k \in Keys /\ limit \in Keys /\ k.u \in Seq(0..MaxByte) /\ limit.u \in Seq(0..MaxByte)
  BY TableKeyTypes, IndexAssumption
<1>3. k.u \in Bytes /\ limit.u \in Bytes
  BY <1>2, KeyTypes
<1>4. CASE ~(Len(u) < Len(k.u) /\ BytesBefore(k.u, u))
  BY <1>1, <1>2, <1>4, KeysOrdered
<1>5. CASE Len(u) < Len(k.u) /\ BytesBefore(k.u, u)
  <2> DEFINE a == k.u
             b == limit.u
             differ == {i \in 1..Len(a) : i <= Len(b) /\ a[i] # b[i]}
             i == SmallestOf(differ)
  <2>1. u # a
    <3>1. Len(a) \in Nat
      BY <1>3, BytesTypes
    <3>2. QED
      BY <1>5, <3>1
  <2>2. differ # {} /\ ~(a[i] + 1 >= b[i]) /\ u = Raised(a, i)
    <3>1. u = IF differ = {} \/ a[i] = MaxByte \/ a[i] + 1 >= b[i] THEN a ELSE Raised(a, i)
      BY DEF BytesSeparator
    <3> HIDE DEF u, differ, i
    <3>2. QED
      BY <2>1, <3>1
  <2>3. differ \subseteq Nat
    OBVIOUS
  <2>4. i \in differ /\ \A j \in differ : i <= j
    <3> HIDE DEF differ
    <3>1. QED
      BY <2>2, <2>3, SmallestOfIs
  <2> HIDE DEF i, u
  <2>5. Len(a) \in Nat /\ Len(b) \in Nat /\ i \in 1..Len(a) /\ i \in 1..Len(b)
        /\ a[i] \in Nat /\ b[i] \in Nat /\ a[i] + 1 < b[i]
    BY <1>3, <2>2, <2>4, BytesTypes
  <2>6. \A j \in 1..i - 1 : a[j] = b[j]
    BY <2>4, <2>5
  <2>7. u \in Bytes /\ Len(u) = i /\ u[i] = a[i] + 1 /\ \A j \in 1..i - 1 : u[j] = a[j]
    BY <1>2, <2>2, <2>5, RaisedIs
  <2>8. BytesBefore(u, b)
    <3>1. i \in 1..Len(b) /\ i <= Len(u) + 1 /\ u[i] < b[i]
      BY <2>5, <2>7
    <3>2. \A j \in 1..i - 1 : u[j] = b[j]
      BY <2>6, <2>7
    <3> HIDE DEF a, b
    <3>3. QED
      BY <3>1, <3>2 DEF BytesBefore
  <2>9. [u |-> u, s |-> TopSeq] \in Keys
    BY <2>7, IndexAssumption DEF Keys
  <2>10. FindShortestSeparator(k, limit) = [u |-> u, s |-> TopSeq]
    BY <1>1, <1>5
  <2>11. KeyBefore(k, [u |-> u, s |-> TopSeq]) /\ KeyBefore([u |-> u, s |-> TopSeq], limit)
    BY <1>5, <2>8 DEF KeyBefore
  <2>12. QED
    BY <1>2, <2>8, <2>9, <2>10, <2>11, KeysOrdered
<1>6. QED
  BY <1>4, <1>5

LEMMA SuccessorIs ==
  ASSUME NEW k \in TableKeys
  PROVE  FindShortSuccessor(k) \in Keys /\ ~KeyBefore(FindShortSuccessor(k), k)
<1> DEFINE a == k.u
           I == {i \in 1..Len(a) : a[i] # MaxByte}
           u == BytesSuccessor(k.u)
<1>1. FindShortSuccessor(k) =
        IF Len(u) < Len(k.u) /\ BytesBefore(k.u, u) THEN [u |-> u, s |-> TopSeq] ELSE k
  BY DEF FindShortSuccessor, Shortened
<1>2. k \in Keys /\ a \in Seq(0..MaxByte) /\ a \in Bytes
  BY TableKeyTypes, IndexAssumption, KeyTypes
<1>3. u \in Bytes
  <2>1. u = IF I = {} THEN a ELSE Raised(a, SmallestOf(I))
    BY DEF BytesSuccessor
  <2>2. I \subseteq Nat /\ I \subseteq 1..Len(a)
    OBVIOUS
  <2> HIDE DEF I, a, u
  <2>3. I # {} => SmallestOf(I) \in 1..Len(a)
    BY <2>2, SmallestOfIs
  <2>4. QED
    BY <1>2, <2>1, <2>3, RaisedIs
<1> HIDE DEF u
<1>4. CASE Len(u) < Len(k.u) /\ BytesBefore(k.u, u)
  <2>1. [u |-> u, s |-> TopSeq] \in Keys /\ KeyBefore(k, [u |-> u, s |-> TopSeq])
    BY <1>3, <1>4, IndexAssumption DEF Keys, KeyBefore
  <2>2. QED
    BY <1>1, <1>2, <1>4, <2>1, KeysOrdered
<1>5. QED
  BY <1>1, <1>2, <1>4, KeysOrdered

-----------------------------------------------------------------------------
(* Blocks.                                                                 *)

Sorted(b) == b \in Seq(Keys) /\ \A i, j \in DOMAIN b : i < j => KeyBefore(b[i], b[j])

LEMMA SortedIs ==
  ASSUME NEW b, Sorted(b)
  PROVE  /\ Len(b) \in Nat /\ DOMAIN b = 1..Len(b)
         /\ \A i \in 1..Len(b) : b[i] \in Keys
         /\ \A i, j \in 1..Len(b) : i < j => KeyBefore(b[i], b[j])
BY LenProperties, ElementOfSeq DEF Sorted

LEMMA RestartsAre ==
  ASSUME NEW b, Sorted(b), b # <<>>, NEW R \in Nat \ {0}
  PROVE  /\ (Len(b) - 1) \div R \in Nat /\ 0 \in Restarts(b, R)
         /\ \A i \in Restarts(b, R) : i \in Nat /\ Point(i, R) \in 1..Len(b)
         /\ \A i, j \in Restarts(b, R) : i < j => Point(i, R) < Point(j, R)
         /\ Restarts(b, R) = 0..(Len(b) - 1) \div R
         /\ LargestOf(Restarts(b, R)) = (Len(b) - 1) \div R
<1> DEFINE n == Len(b) - 1
           q == n \div R
<1>1. n \in Nat
  BY SortedIs, EmptySeq DEF Sorted
<1>2. q \in Nat /\ q * R <= n
  BY <1>1
<1>3. Restarts(b, R) = 0..q
  BY DEF Restarts
<1> HIDE DEF q
<1>4. ASSUME NEW i \in 0..q
      PROVE  i * R \in Nat /\ i * R <= n
  <2>1. i * R <= q * R /\ i * R \in Nat
    BY <1>2
  <2>2. QED
    BY <1>1, <1>2, <2>1
<1>5. \A i \in 0..q : Point(i, R) \in 1..Len(b)
  BY <1>1, <1>4, SortedIs DEF Point
<1>6. ASSUME NEW i \in 0..q, NEW j \in 0..q, i < j
      PROVE  Point(i, R) < Point(j, R)
  <2>1. i + 1 <= j
    BY <1>2, <1>6
  <2>2. (i + 1) * R <= j * R /\ (i + 1) * R = i * R + R
    BY <1>2, <2>1
  <2>3. QED
    BY <1>4, <2>2 DEF Point
<1>7. LargestOf(0..q) = q
  <2>1. LargestOf(0..q) \in 0..q /\ \A y \in 0..q : y <= LargestOf(0..q)
    <3>1. 0..q \subseteq 0..q /\ 0 \in 0..q
      BY <1>2
    <3>2. QED
      BY <1>2, <3>1, LargestOfIs
  <2>2. QED
    BY <1>2, <2>1
<1>8. QED
  BY <1>2, <1>3, <1>5, <1>6, <1>7 DEF q

\* The equation of the binary search, and what solves it.
SearchTurn(b, R, k, v, p) ==
    LET mid == (p[1] + p[2] + 1) \div 2
    IN  IF p[1] >= p[2] THEN p[1]
        ELSE IF KeyBefore(b[Point(mid, R)], k) THEN v[<<mid, p[2]>>]
        ELSE v[<<p[1], mid - 1>>]
Searches(b, R, k, v) == v = [p \in Restarts(b, R) \X Restarts(b, R) |-> SearchTurn(b, R, k, v, p)]

\* The restart points between the two that are before the key.
BelowKey(b, R, k, left, right) == {left} \cup {i \in left + 1..right : KeyBefore(b[Point(i, R)], k)}

LEMMA Middle ==
  ASSUME NEW left \in Nat, NEW right \in Nat, left < right, NEW mid, mid = (left + right + 1) \div 2
  PROVE  mid \in Nat /\ left < mid /\ mid <= right
OBVIOUS

LEMMA SearchExists ==
  ASSUME NEW b, Sorted(b), b # <<>>, NEW R \in Nat \ {0}, NEW k \in Keys
  PROVE  \E v : Searches(b, R, k, v)
<1> DEFINE D == Restarts(b, R)
           v == [p \in D \X D |-> LargestOf(BelowKey(b, R, k, p[1], p[2]))]
<1>1. \A left, right \in D : v[<<left, right>>] = LargestOf(BelowKey(b, R, k, left, right))
  OBVIOUS
<1>2. PICK q \in Nat : D = 0..q
  BY RestartsAre
<1>3. ASSUME NEW i \in D, NEW j \in D, i < j, KeyBefore(b[Point(j, R)], k)
      PROVE  KeyBefore(b[Point(i, R)], k)
  <2>1. Point(i, R) \in 1..Len(b) /\ Point(j, R) \in 1..Len(b) /\ Point(i, R) < Point(j, R)
    BY <1>3, RestartsAre
  <2>2. b[Point(i, R)] \in Keys /\ b[Point(j, R)] \in Keys /\ KeyBefore(b[Point(i, R)], b[Point(j, R)])
    BY <2>1, SortedIs
  <2>3. QED
    BY <1>3, <2>2, KeysOrdered
<1> HIDE DEF D, v
<1>4. ASSUME NEW left \in D, NEW right \in D
      PROVE  v[<<left, right>>] = SearchTurn(b, R, k, v, <<left, right>>)
  <2> DEFINE mid == (left + right + 1) \div 2
  <2>1. left \in Nat /\ right \in Nat /\ left <= q /\ right <= q
    BY <1>2
  <2>2. CASE left >= right
    <3>1. BelowKey(b, R, k, left, right) = {left}
      BY <2>1, <2>2 DEF BelowKey
    <3>2. LargestOf({left}) = left
      BY <2>1 DEF LargestOf
    <3>3. QED
      BY <1>1, <2>2, <3>1, <3>2 DEF SearchTurn
  <2>3. CASE left < right
    <3>1. mid \in Nat /\ left < mid /\ mid <= right
      BY <2>1, <2>3, Middle
    <3> HIDE DEF mid
    <3>2. mid \in D /\ mid - 1 \in D
      BY <1>2, <2>1, <3>1
    <3>3. CASE KeyBefore(b[Point(mid, R)], k)
      <4>1. LargestOf(BelowKey(b, R, k, left, right)) = LargestOf(BelowKey(b, R, k, mid, right))
        <5>1. BelowKey(b, R, k, mid, right) \subseteq BelowKey(b, R, k, left, right)
          BY <2>1, <3>1, <3>3 DEF BelowKey
        <5>2. \A y \in BelowKey(b, R, k, left, right) : y \in BelowKey(b, R, k, mid, right) \/ y < mid
          BY <2>1, <3>1, <3>3 DEF BelowKey
        <5>3. mid \in BelowKey(b, R, k, mid, right) /\ mid \in BelowKey(b, R, k, left, right)
          BY <5>1 DEF BelowKey
        <5>4. BelowKey(b, R, k, left, right) \subseteq 0..q /\ BelowKey(b, R, k, mid, right) \subseteq 0..q
          BY <2>1, <3>1 DEF BelowKey
        <5> DEFINE B == BelowKey(b, R, k, left, right)
                   C == BelowKey(b, R, k, mid, right)
        <5>5. /\ LargestOf(B) \in B /\ \A y \in B : y <= LargestOf(B)
              /\ LargestOf(C) \in C /\ \A y \in C : y <= LargestOf(C)
          <6> HIDE DEF B, C
          <6>1. B \subseteq 0..q /\ C \subseteq 0..q /\ B # {} /\ C # {}
            BY <5>3, <5>4 DEF B, C
          <6>2. QED
            BY <6>1, LargestOfIs
        <5>6. LargestOf(B) \in C
          BY <3>1, <5>2, <5>3, <5>4, <5>5
        <5>7. LargestOf(B) <= LargestOf(C) /\ LargestOf(C) <= LargestOf(B)
          BY <5>1, <5>5, <5>6
        <5>8. LargestOf(B) \in 0..q /\ LargestOf(C) \in 0..q
          BY <5>4, <5>5
        <5> HIDE DEF B, C
        <5>9. LargestOf(B) = LargestOf(C)
          BY <5>7, <5>8
        <5>10. QED
          BY <5>9 DEF B, C
      <4>2. SearchTurn(b, R, k, v, <<left, right>>) = v[<<mid, right>>]
        BY <2>1, <2>3, <3>3 DEF SearchTurn, mid
      <4>3. QED
        BY <1>1, <3>2, <4>1, <4>2
    <3>4. CASE ~KeyBefore(b[Point(mid, R)], k)
      <4>1. BelowKey(b, R, k, left, right) = BelowKey(b, R, k, left, mid - 1)
        <5>1. ASSUME NEW i \in left + 1..right, KeyBefore(b[Point(i, R)], k)
              PROVE  i \in left + 1..mid - 1
          <6>1. i \in D
            BY <1>2, <2>1
          <6>2. ~(mid < i) /\ i # mid
            BY <1>3, <3>2, <3>4, <5>1, <6>1
          <6>3. QED
            BY <2>1, <3>1, <6>2
        <5>2. \A i \in left + 1..mid - 1 : i \in left + 1..right
          BY <2>1, <3>1
        <5>3. QED
          BY <5>1, <5>2 DEF BelowKey
      <4>2. SearchTurn(b, R, k, v, <<left, right>>) = v[<<left, mid - 1>>]
        BY <2>1, <2>3, <3>4 DEF SearchTurn, mid
      <4>3. QED
        BY <1>1, <3>2, <4>1, <4>2
    <3>5. QED
      BY <3>3, <3>4
  <2>4. QED
    BY <2>1, <2>2, <2>3
<1>5. v = [p \in D \X D |-> SearchTurn(b, R, k, v, p)]
  <2>1. \A p \in D \X D : v[p] = SearchTurn(b, R, k, v, p)
    <3> SUFFICES ASSUME NEW p \in D \X D
                 PROVE  v[p] = SearchTurn(b, R, k, v, p)
      OBVIOUS
    <3>1. p = <<p[1], p[2]>> /\ p[1] \in D /\ p[2] \in D
      OBVIOUS
    <3>2. QED
      BY <1>4, <3>1
  <2>2. v = [p \in D \X D |-> v[p]]
    BY DEF v
  <2>3. QED
    BY <2>1, <2>2
<1>6. QED
  BY <1>5 DEF Searches, D

\* A restart point from which the first entry that is not before k is still ahead.
Starts(b, R, k, i) == i \in Restarts(b, R) /\ (i = 0 \/ KeyBefore(b[Point(i, R)], k))

LEMMA SearchFinds ==
  ASSUME NEW b, Sorted(b), b # <<>>, NEW R \in Nat \ {0}, NEW k \in Keys, NEW v, Searches(b, R, k, v)
  PROVE  Starts(b, R, k, v[<<0, LargestOf(Restarts(b, R))>>])
<1> DEFINE D == Restarts(b, R)
           Wrong(d) == \E left, right \in D : /\ left <= right /\ d = right - left
                                              /\ Starts(b, R, k, left) /\ ~Starts(b, R, k, v[<<left, right>>])
           W == {d \in Nat : Wrong(d)}
<1>1. PICK q \in Nat : D = 0..q /\ q = LargestOf(D)
  BY RestartsAre
<1>2. \A left, right \in D : v[<<left, right>>] = SearchTurn(b, R, k, v, <<left, right>>)
  BY DEF Searches
<1> HIDE DEF D
<1>3. CASE W # {}
  <2>1. PICK d \in W : \A e \in W : d <= e
    <3> HIDE DEF W
    <3>1. W \subseteq Nat
      BY DEF W
    <3>2. QED
      BY <1>3, <3>1, LeastOfNaturals
  <2>2. PICK left \in D, right \in D : /\ left <= right /\ d = right - left
                                       /\ Starts(b, R, k, left) /\ ~Starts(b, R, k, v[<<left, right>>])
    BY <2>1
  <2>3. left \in Nat /\ right \in Nat /\ right <= q
    BY <1>1
  <2>4. ASSUME NEW l \in D, NEW r \in D, l <= r, r - l < d, Starts(b, R, k, l)
        PROVE  Starts(b, R, k, v[<<l, r>>])
    <3>1. r - l \in Nat /\ l \in Nat /\ r \in Nat
      BY <1>1, <2>4
    <3>2. d \in Nat /\ \A e \in W : d <= e
      BY <2>1 DEF W
    <3>3. ~Wrong(r - l)
      <4> HIDE DEF Wrong
      <4>1. ~(d <= r - l)
        BY <2>4, <3>1, <3>2
      <4>2. Wrong(r - l) => r - l \in W
        BY <3>1 DEF W
      <4>3. QED
        BY <3>2, <4>1, <4>2
    <3>4. QED
      BY <2>4, <3>1, <3>3
  <2> DEFINE mid == (left + right + 1) \div 2
  <2>5. CASE left >= right
    <3>1. v[<<left, right>>] = left
      BY <1>2, <2>5 DEF SearchTurn
    <3>2. QED
      BY <2>2, <3>1
  <2>6. CASE left < right
    <3>1. mid \in Nat /\ left < mid /\ mid <= right
      BY <2>3, <2>6, Middle
    <3>2. v[<<left, right>>] = IF KeyBefore(b[Point(mid, R)], k) THEN v[<<mid, right>>] ELSE v[<<left, mid - 1>>]
      BY <1>2, <2>3, <2>6 DEF SearchTurn
    <3> HIDE DEF mid
    <3>3. mid \in D /\ mid - 1 \in D
      BY <1>1, <2>3, <3>1
    <3>4. CASE KeyBefore(b[Point(mid, R)], k)
      <4>1. Starts(b, R, k, mid)
        BY <3>3, <3>4 DEF Starts, D
      <4>2. right - mid < d
        BY <2>2, <2>3, <3>1
      <4>3. QED
        BY <2>2, <2>4, <3>1, <3>2, <3>3, <3>4, <4>1, <4>2
    <3>5. CASE ~KeyBefore(b[Point(mid, R)], k)
      <4>1. left <= mid - 1 /\ (mid - 1) - left < d
        BY <2>2, <2>3, <3>1
      <4>2. QED
        BY <2>2, <2>4, <3>2, <3>3, <3>5, <4>1
    <3>6. QED
      BY <3>4, <3>5
  <2>7. QED
    BY <2>3, <2>5, <2>6
<1>4. CASE W = {}
  <2>1. 0 \in D /\ q \in D /\ Starts(b, R, k, 0) /\ q - 0 \in Nat /\ 0 <= q
    BY <1>1 DEF Starts, D
  <2>2. ~Wrong(q - 0)
    BY <1>4, <2>1
  <2>3. QED
    BY <1>1, <2>1, <2>2 DEF D
<1>5. QED
  BY <1>3, <1>4

LEMMA LastRestartIs ==
  ASSUME NEW b, Sorted(b), b # <<>>, NEW R \in Nat \ {0}, NEW k \in Keys
  PROVE  Starts(b, R, k, LastRestartBefore(b, R, k))
<1> DEFINE v == CHOOSE v : Searches(b, R, k, v)
<1>1. Searches(b, R, k, v)
  BY SearchExists
<1>2. LastRestartBefore(b, R, k) = v[<<0, LargestOf(Restarts(b, R))>>]
  BY DEF LastRestartBefore, Searches, SearchTurn
<1> HIDE DEF v
<1>3. QED
  BY <1>1, <1>2, SearchFinds

-----------------------------------------------------------------------------
(* The iterator of a block.                                                *)

\* A position in a block: an entry or none, and a restart point.
PosOf(b, R, p) == p \in [cur : 0..Len(b), restart : Restarts(b, R)]
\* The first entry that is not before k, or none.
FirstOf(b, k, c) ==
    IF c = 0 THEN \A e \in 1..Len(b) : KeyBefore(b[e], k)
    ELSE c \in 1..Len(b) /\ ~KeyBefore(b[c], k) /\ \A e \in 1..c - 1 : KeyBefore(b[e], k)

LEMMA ParsedIs ==
  ASSUME NEW b, Sorted(b), b # <<>>, NEW R \in Nat \ {0}, NEW r \in Restarts(b, R), NEW e \in Nat \ {0}
  PROVE  /\ PosOf(b, R, Parsed(b, R, r, e))
         /\ Parsed(b, R, r, e).cur = IF e > Len(b) THEN 0 ELSE e
<1>1. PICK q \in Nat : Restarts(b, R) = 0..q /\ 0 \in Restarts(b, R)
  BY RestartsAre
<1>2. Len(b) \in Nat
  BY SortedIs
<1>3. CASE e > Len(b)
  BY <1>1, <1>2, <1>3 DEF Parsed, NoPos, PosOf
<1>4. CASE ~(e > Len(b))
  <2> DEFINE S == {r} \cup {i \in Restarts(b, R) : Point(i, R) < e}
  <2>1. S \subseteq 0..q /\ S # {}
    BY <1>1
  <2>2. Parsed(b, R, r, e) = [cur |-> e, restart |-> LargestOf(S)]
    BY <1>4 DEF Parsed
  <2> HIDE DEF S
  <2>3. LargestOf(S) \in 0..q
    BY <2>1, LargestOfIs
  <2>4. QED
    BY <1>1, <1>2, <1>4, <2>2, <2>3 DEF PosOf
<1>5. QED
  BY <1>3, <1>4

LEMMA BlockSeekIs ==
  ASSUME NEW b, Sorted(b), b # <<>>, NEW R \in Nat \ {0}, NEW k \in Keys
  PROVE  PosOf(b, R, BlockSeek(b, R, k)) /\ FirstOf(b, k, BlockSeek(b, R, k).cur)
<1> DEFINE r == LastRestartBefore(b, R, k)
           reached == {e \in Point(r, R)..Len(b) : ~KeyBefore(b[e], k)}
<1>1. BlockSeek(b, R, k) = IF reached = {} THEN NoPos ELSE Parsed(b, R, r, SmallestOf(reached))
  BY DEF BlockSeek
<1>2. r \in Restarts(b, R) /\ (r = 0 \/ KeyBefore(b[Point(r, R)], k))
  BY LastRestartIs DEF Starts
<1> HIDE DEF r
<1>3. Len(b) \in Nat /\ Point(r, R) \in 1..Len(b) /\ 0 \in Restarts(b, R) /\ (r = 0 => Point(r, R) = 1)
  BY <1>2, RestartsAre, SortedIs DEF Point
<1>4. ASSUME NEW e \in 1..Len(b), e < Point(r, R)
      PROVE  KeyBefore(b[e], k)
  <2>1. KeyBefore(b[Point(r, R)], k)
    BY <1>2, <1>3, <1>4
  <2>2. KeyBefore(b[e], b[Point(r, R)]) /\ b[e] \in Keys /\ b[Point(r, R)] \in Keys
    BY <1>3, <1>4, SortedIs
  <2>3. QED
    BY <2>1, <2>2, KeysOrdered
<1>5. CASE reached = {}
  <2>1. \A e \in 1..Len(b) : KeyBefore(b[e], k)
    BY <1>3, <1>4, <1>5
  <2>2. QED
    BY <1>1, <1>3, <1>5, <2>1 DEF NoPos, PosOf, FirstOf
<1>6. CASE reached # {}
  <2>1. reached \subseteq Nat
    BY <1>3
  <2> DEFINE c == SmallestOf(reached)
  <2>2. c \in reached /\ \A y \in reached : c <= y
    <3> HIDE DEF reached
    <3>1. QED
      BY <1>6, <2>1, SmallestOfIs
  <2> HIDE DEF c
  <2>3. c \in 1..Len(b) /\ ~KeyBefore(b[c], k)
    BY <1>3, <2>2
  <2>4. \A e \in 1..c - 1 : KeyBefore(b[e], k)
    BY <1>3, <1>4, <2>2, <2>3
  <2>5. BlockSeek(b, R, k) = Parsed(b, R, r, c)
    BY <1>1, <1>6 DEF c
  <2>6. PosOf(b, R, Parsed(b, R, r, c)) /\ Parsed(b, R, r, c).cur = c
    BY <1>2, <1>3, <2>3, ParsedIs
  <2>7. QED
    BY <1>3, <2>3, <2>4, <2>5, <2>6 DEF FirstOf
<1>7. QED
  BY <1>5, <1>6

LEMMA BlockMoves ==
  ASSUME NEW b, Sorted(b), b # <<>>, NEW R \in Nat \ {0}
  PROVE  /\ PosOf(b, R, BlockFirst(b, R)) /\ BlockFirst(b, R).cur = 1
         /\ PosOf(b, R, BlockLast(b, R)) /\ BlockLast(b, R).cur = Len(b)
         /\ \A p : PosOf(b, R, p) /\ p.cur # 0 =>
              /\ PosOf(b, R, BlockNext(b, R, p))
              /\ BlockNext(b, R, p).cur = IF p.cur = Len(b) THEN 0 ELSE p.cur + 1
              /\ PosOf(b, R, BlockPrev(b, R, p))
              /\ BlockPrev(b, R, p).cur = p.cur - 1
<1>1. Len(b) \in Nat /\ Len(b) # 0
  BY SortedIs, EmptySeq DEF Sorted
<1>2. PICK q \in Nat : Restarts(b, R) = 0..q /\ LargestOf(Restarts(b, R)) = q /\ 0 \in Restarts(b, R)
  BY RestartsAre
<1>3. PosOf(b, R, BlockFirst(b, R)) /\ BlockFirst(b, R).cur = 1
  <2>1. 1 \in Nat \ {0} /\ ~(1 > Len(b))
    BY <1>1
  <2>2. PosOf(b, R, Parsed(b, R, 0, 1)) /\ Parsed(b, R, 0, 1).cur = 1
    BY <1>2, <2>1, ParsedIs
  <2>3. QED
    BY <2>2 DEF BlockFirst
<1>4. PosOf(b, R, BlockLast(b, R)) /\ BlockLast(b, R).cur = Len(b)
  <2>1. Len(b) \in Nat \ {0} /\ ~(Len(b) > Len(b)) /\ q \in Restarts(b, R)
    BY <1>1, <1>2
  <2>2. PosOf(b, R, Parsed(b, R, q, Len(b))) /\ Parsed(b, R, q, Len(b)).cur = Len(b)
    BY <2>1, ParsedIs
  <2>3. QED
    BY <1>2, <2>2 DEF BlockLast
<1>5. ASSUME NEW p, PosOf(b, R, p), p.cur # 0
      PROVE  /\ PosOf(b, R, BlockNext(b, R, p))
             /\ BlockNext(b, R, p).cur = IF p.cur = Len(b) THEN 0 ELSE p.cur + 1
  <2>1. p.cur \in 1..Len(b) /\ p.restart \in Restarts(b, R) /\ p.cur + 1 \in Nat \ {0}
    BY <1>1, <1>5 DEF PosOf
  <2>2. PosOf(b, R, Parsed(b, R, p.restart, p.cur + 1))
    BY <2>1, ParsedIs
  <2>3. Parsed(b, R, p.restart, p.cur + 1).cur = IF p.cur + 1 > Len(b) THEN 0 ELSE p.cur + 1
    BY <2>1, ParsedIs
  <2>4. p.cur + 1 > Len(b) <=> p.cur = Len(b)
    BY <1>1, <2>1
  <2>5. QED
    BY <2>2, <2>3, <2>4 DEF BlockNext
<1>6. ASSUME NEW p, PosOf(b, R, p), p.cur # 0
      PROVE  PosOf(b, R, BlockPrev(b, R, p)) /\ BlockPrev(b, R, p).cur = p.cur - 1
  <2> DEFINE before == {i \in 0..p.restart : Point(i, R) < p.cur}
             r == LargestOf(before)
  <2>1. p.cur \in 1..Len(b) /\ p.restart \in 0..q
    BY <1>2, <1>6 DEF PosOf
  <2>2. Point(0, R) = 1
    BY DEF Point
  <2>3. CASE p.cur = 1
    <3>1. \A i \in 0..p.restart : i \in Restarts(b, R)
      BY <1>2, <2>1
    <3>2. before = {}
      <4>1. \A i \in 0..p.restart : Point(i, R) \in 1..Len(b)
        BY <3>1, RestartsAre
      <4>2. QED
        BY <1>1, <2>3, <4>1
    <3>3. BlockPrev(b, R, p) = NoPos
      BY <3>2 DEF BlockPrev
    <3>4. QED
      BY <1>1, <1>2, <2>3, <3>3 DEF NoPos, PosOf
  <2>4. CASE p.cur # 1
    <3>1. 0 \in before /\ before \subseteq 0..q
      BY <2>1, <2>2, <2>4
    <3>2. r \in before
      <4> HIDE DEF before
      <4>1. QED
        BY <3>1, LargestOfIs
    <3>3. r \in Restarts(b, R) /\ Point(r, R) \in 1..Len(b) /\ Point(r, R) < p.cur
      BY <1>2, <3>1, <3>2, RestartsAre
    <3>4. BlockPrev(b, R, p) = Parsed(b, R, r, LargestOf({Point(r, R), p.cur - 1}))
      BY <3>1 DEF BlockPrev
    <3> HIDE DEF r, before
    <3>5. LargestOf({Point(r, R), p.cur - 1}) = p.cur - 1
      BY <2>1, <3>3 DEF LargestOf
    <3>6. p.cur - 1 \in Nat \ {0} /\ ~(p.cur - 1 > Len(b))
      BY <1>1, <2>1, <2>4
    <3>7. PosOf(b, R, Parsed(b, R, r, p.cur - 1)) /\ Parsed(b, R, r, p.cur - 1).cur = p.cur - 1
      BY <3>3, <3>6, ParsedIs
    <3>8. QED
      BY <3>4, <3>5, <3>7
  <2>5. QED
    BY <2>3, <2>4
<1>7. QED
  BY <1>3, <1>4, <1>5, <1>6
-----------------------------------------------------------------------------
(* The inductive invariant.                                                *)

Position == [cur : Nat, restart : Nat]

EntriesOrdered ==
    /\ entries \in Seq(TableKeys)
    /\ \A i, j \in DOMAIN entries : i < j => KeyBefore(entries[i], entries[j])
\* A block has an entry, and its key in the index when the next one has begun.
BlockEnds ==
    /\ pendingIndex \in BOOLEAN /\ closed \in BOOLEAN
    /\ ends \in Seq(1..Len(entries)) /\ index \in Seq(Keys)
    /\ \A m, n \in DOMAIN ends : m < n => ends[m] < ends[n]
    /\ Len(index) = IF pendingIndex THEN Len(ends) - 1 ELSE Len(ends)
    /\ pendingIndex \/ closed <=> ends # <<>> /\ ends[Len(ends)] = Len(entries)
    /\ closed => ~pendingIndex
\* A key of the index is no more than cut: not before its block, before the
\* next one, and if it was cut, before every entry of the next user key.
IndexKeys ==
    \A n \in DOMAIN index :
        /\ ~KeyBefore(index[n], entries[ends[n]])
        /\ ends[n] < Len(entries) =>
            /\ KeyBefore(index[n], entries[ends[n] + 1])
            /\ \/ index[n] = entries[ends[n]]
               \/ BytesBefore(index[n].u, entries[ends[n] + 1].u)
\* The iterator of the index and that of the block belong together.
Stands(j) ==
    /\ j \in [index : Position, data : Nat, pos : Position]
    /\ j.data = j.index.cur
    /\ PosOf(index, 1, j.index)
    /\ j.data # 0 => PosOf(DataBlock(j.data), RestartInterval, j.pos)
CursorPlace ==
    /\ IF closed THEN Stands(it) ELSE it = [index |-> NoPos, data |-> 0, pos |-> NoPos]
    /\ place = Shown

TableInv == EntriesOrdered /\ BlockEnds /\ IndexKeys /\ CursorPlace

-----------------------------------------------------------------------------
(* What the builder keeps.                                                 *)

LEMMA NotEmpty ==
  ASSUME NEW S, NEW s \in Seq(S)
  PROVE  s # <<>> <=> Len(s) # 0
BY EmptySeq

LEMMA EntriesAre ==
  ASSUME EntriesOrdered, BlockEnds
  PROVE  /\ Len(entries) \in Nat /\ DOMAIN entries = 1..Len(entries)
         /\ \A i \in 1..Len(entries) : entries[i] \in TableKeys /\ entries[i] \in Keys
         /\ Len(ends) \in Nat /\ DOMAIN ends = 1..Len(ends)
         /\ \A n \in 1..Len(ends) : ends[n] \in 1..Len(entries)
         /\ Len(index) \in Nat /\ DOMAIN index = 1..Len(index)
         /\ \A n \in 1..Len(index) : index[n] \in Keys /\ n \in 1..Len(ends)
         /\ Len(index) = IF pendingIndex THEN Len(ends) - 1 ELSE Len(ends)
         /\ \A i, j \in 1..Len(entries) : i < j => KeyBefore(entries[i], entries[j])
         /\ \A m, n \in 1..Len(ends) : m < n => ends[m] < ends[n]
         /\ entries # <<>> <=> Len(entries) # 0
         /\ pendingIndex \/ closed <=> Len(ends) # 0 /\ ends[Len(ends)] = Len(entries)
<1>1. Len(entries) \in Nat /\ DOMAIN entries = 1..Len(entries)
  BY LenProperties DEF EntriesOrdered
<1>2. \A i \in 1..Len(entries) : entries[i] \in TableKeys /\ entries[i] \in Keys
  BY ElementOfSeq, TableKeyTypes DEF EntriesOrdered
<1>3. Len(ends) \in Nat /\ DOMAIN ends = 1..Len(ends) /\ \A n \in 1..Len(ends) : ends[n] \in 1..Len(entries)
  BY LenProperties, ElementOfSeq DEF BlockEnds
<1>4. Len(index) \in Nat /\ DOMAIN index = 1..Len(index) /\ \A n \in 1..Len(index) : index[n] \in Keys
  BY LenProperties, ElementOfSeq DEF BlockEnds
<1>5. Len(index) = IF pendingIndex THEN Len(ends) - 1 ELSE Len(ends)
  BY DEF BlockEnds
<1>6. \A n \in 1..Len(index) : n \in 1..Len(ends)
  <2>1. Len(index) \in Nat /\ Len(ends) \in Nat
    BY <1>3, <1>4
  <2>2. Len(index) = Len(ends) - 1 \/ Len(index) = Len(ends)
    BY <1>5
  <2>3. QED
    BY <2>1, <2>2
<1>7. \A i, j \in 1..Len(entries) : i < j => KeyBefore(entries[i], entries[j])
  BY <1>1 DEF EntriesOrdered
<1>8. \A m, n \in 1..Len(ends) : m < n => ends[m] < ends[n]
  BY <1>3 DEF BlockEnds
<1>9. (entries # <<>> <=> Len(entries) # 0) /\ (ends # <<>> <=> Len(ends) # 0)
  BY NotEmpty DEF EntriesOrdered, BlockEnds
<1>10. pendingIndex \/ closed <=> Len(ends) # 0 /\ ends[Len(ends)] = Len(entries)
  BY <1>9 DEF BlockEnds
<1>11. QED
  BY <1>1, <1>2, <1>3, <1>4, <1>5, <1>6, <1>7, <1>8, <1>9, <1>10

LEMMA AddKeeps ==
  ASSUME TableInv, NEW k \in TableKeys, NEW full \in BOOLEAN, AddKey(k, full)
  PROVE  TableInv'
<1> USE DEF TableInv
<1>1. /\ ~closed /\ (entries # <<>> => KeyBefore(entries[Len(entries)], k))
      /\ entries' = Append(entries, k) /\ pendingIndex' = full
      /\ index' = IF pendingIndex THEN Append(index, FindShortestSeparator(entries[Len(entries)], k)) ELSE index
      /\ ends' = IF full THEN Append(ends, Len(entries')) ELSE ends
      /\ closed' = closed /\ it' = it /\ place' = place
  BY DEF AddKey
<1> DEFINE L == Len(entries)
           n == Len(ends)
           s == FindShortestSeparator(entries[L], k)
<1>2. /\ L \in Nat /\ DOMAIN entries = 1..L
      /\ \A i \in 1..L : entries[i] \in TableKeys /\ entries[i] \in Keys
      /\ n \in Nat /\ DOMAIN ends = 1..n /\ \A m \in 1..n : ends[m] \in 1..L
      /\ Len(index) \in Nat /\ DOMAIN index = 1..Len(index)
      /\ \A m \in 1..Len(index) : index[m] \in Keys /\ m \in 1..n
      /\ Len(index) = IF pendingIndex THEN n - 1 ELSE n
      /\ \A i, j \in 1..L : i < j => KeyBefore(entries[i], entries[j])
      /\ \A l, m \in 1..n : l < m => ends[l] < ends[m]
      /\ entries # <<>> <=> L # 0
      /\ pendingIndex <=> n # 0 /\ ends[n] = L
      /\ k \in Keys
  <2>1. ~closed
    BY <1>1
  <2>2. k \in Keys
    BY TableKeyTypes
  <2>3. QED
    BY <2>1, <2>2, EntriesAre
<1> HIDE DEF L, n
<1>3. /\ entries' \in Seq(TableKeys) /\ Len(entries') = L + 1 /\ entries'[L + 1] = k
      /\ \A i \in 1..L : entries'[i] = entries[i]
  BY <1>1, AppendProperties DEF EntriesOrdered, L
<1>4. DOMAIN entries' = 1..L + 1
  BY <1>3, LenProperties
<1>5. ASSUME NEW i \in 1..L
      PROVE  KeyBefore(entries[i], k)
  <2>1. L \in 1..L /\ entries # <<>> /\ KeyBefore(entries[L], k)
    BY <1>1, <1>2 DEF L
  <2>2. i = L \/ KeyBefore(entries[i], entries[L])
    BY <1>2, <2>1
  <2>3. QED
    BY <1>2, <2>1, <2>2, KeysOrdered
<1>6. EntriesOrdered'
  <2>1. ASSUME NEW i \in 1..L + 1, NEW j \in 1..L + 1, i < j
        PROVE  KeyBefore(entries'[i], entries'[j])
    <3>1. CASE j = L + 1
      BY <1>2, <1>3, <1>5, <2>1, <3>1
    <3>2. CASE j # L + 1
      <4>1. i \in 1..L /\ j \in 1..L
        BY <1>2, <2>1, <3>2
      <4>2. QED
        BY <1>2, <1>3, <2>1, <4>1
    <3>3. QED
      BY <3>1, <3>2
  <2>2. QED
    BY <1>3, <1>4, <2>1 DEF EntriesOrdered
<1>7. ends' \in Seq(1..L + 1) /\ DOMAIN ends' = 1..Len(ends') /\ \A m \in 1..n : ends'[m] = ends[m]
  <2>1. ends \in Seq(1..L + 1)
    <3>1. 1..L \subseteq 1..L + 1
      BY <1>2
    <3>2. QED
      BY <3>1, SeqMonotonic DEF BlockEnds, L
  <2>2. L + 1 \in 1..L + 1
    BY <1>2
  <2>3. CASE full
    <3>1. ends' = Append(ends, L + 1)
      BY <1>1, <1>3, <2>3
    <3>2. ends' \in Seq(1..L + 1) /\ \A m \in 1..n : ends'[m] = ends[m]
      BY <2>1, <2>2, <3>1, AppendProperties DEF n
    <3>3. QED
      BY <3>2, LenProperties
  <2>4. CASE ~full
    BY <1>1, <1>2, <2>1, <2>4 DEF n
  <2>5. QED
    BY <2>3, <2>4
<1>8. full => Len(ends') = n + 1 /\ ends'[n + 1] = L + 1
  BY <1>1, <1>3, AppendProperties DEF BlockEnds, n
<1>9. ~full => ends' = ends
  BY <1>1
\* The key that the index gets for the last block.
<1>10. pendingIndex => /\ n \in 1..n /\ L \in 1..L /\ ends[n] = L
                       /\ s \in Keys /\ ~KeyBefore(s, entries[L]) /\ KeyBefore(s, k)
                       /\ s = entries[L] \/ BytesBefore(s.u, k.u)
  <2>1. CASE pendingIndex
    <3>1. n # 0 /\ ends[n] = L
      BY <1>2, <2>1
    <3>2. n \in 1..n
      BY <1>2, <3>1
    <3>3. L \in 1..L
      BY <1>2, <3>1, <3>2
    <3>4. KeyBefore(entries[L], k) /\ entries[L] \in TableKeys
      BY <1>2, <1>5, <3>3
    <3>5. QED
      BY <3>1, <3>2, <3>3, <3>4, SeparatorIs
  <2>2. QED
    BY <2>1
<1>11. /\ index' \in Seq(Keys) /\ DOMAIN index' = 1..Len(index')
       /\ Len(index') = n /\ \A m \in 1..Len(index) : index'[m] = index[m]
       /\ pendingIndex => Len(index) = n - 1 /\ index'[n] = s
       /\ ~pendingIndex => index' = index /\ Len(index) = n
  <2>1. CASE pendingIndex
    <3>1. Len(index) = n - 1 /\ index \in Seq(Keys)
      BY <1>2, <2>1 DEF BlockEnds
    <3>2. index' = Append(index, s) /\ s \in Keys
      BY <1>1, <1>10, <2>1 DEF L
    <3> HIDE DEF s
    <3>3. /\ index' \in Seq(Keys) /\ Len(index') = Len(index) + 1 /\ index'[Len(index) + 1] = s
          /\ \A m \in 1..Len(index) : index'[m] = index[m]
      BY <3>1, <3>2, AppendProperties
    <3>4. QED
      BY <1>2, <2>1, <3>1, <3>3, LenProperties
  <2>2. CASE ~pendingIndex
    BY <1>1, <1>2, <2>2, LenProperties DEF BlockEnds
  <2>3. QED
    BY <2>1, <2>2
<1>12. ASSUME ~pendingIndex, NEW m \in 1..n
       PROVE  ends[m] < L
  <2>1. n \in 1..n /\ n # 0
    BY <1>2
  <2>2. ends[n] # L /\ ends[n] \in 1..L /\ ends[m] \in 1..L
    BY <1>2, <1>12, <2>1
  <2>3. m = n \/ ends[m] < ends[n]
    BY <1>2, <2>1
  <2>4. QED
    BY <1>2, <2>2, <2>3
<1> HIDE DEF s
<1>13. BlockEnds'
  <2>1. ASSUME NEW l \in DOMAIN ends', NEW m \in DOMAIN ends', l < m
        PROVE  ends'[l] < ends'[m]
    <3>1. CASE full /\ m = n + 1
      <4>1. l \in 1..n
        BY <1>2, <1>7, <1>8, <2>1, <3>1
      <4>2. QED
        BY <1>2, <1>7, <1>8, <3>1, <4>1
    <3>2. CASE ~(full /\ m = n + 1)
      <4>1. l \in 1..n /\ m \in 1..n
        <5>1. n \in Nat /\ l \in 1..Len(ends') /\ m \in 1..Len(ends')
          BY <1>2, <1>7
        <5>2. Len(ends') = IF full THEN n + 1 ELSE n
          BY <1>8, <1>9 DEF n
        <5>3. QED
          BY <2>1, <3>2, <5>1, <5>2
      <4>2. QED
        BY <1>2, <1>7, <2>1, <4>1
    <3>3. QED
      BY <3>1, <3>2
  <2>2. CASE full
    <3>1. Len(ends') = n + 1 /\ ends'[n + 1] = L + 1
      BY <1>8, <2>2
    <3>2. Len(index') = Len(ends') - 1
      BY <1>2, <1>11, <3>1
    <3>3. ends' # <<>>
      BY <1>2, <1>7, <3>1, NotEmpty
    <3>4. QED
      BY <1>1, <1>3, <1>7, <1>11, <2>1, <2>2, <3>1, <3>2, <3>3 DEF BlockEnds
  <2>3. CASE ~full
    <3>1. ends' # <<>> => ends'[Len(ends')] # L + 1
      <4>1. ends # <<>> => n # 0
        BY NotEmpty DEF BlockEnds, n
      <4>2. n # 0 => n \in 1..n
        BY <1>2
      <4>3. Len(ends') = n
        BY <1>9, <2>3 DEF n
      <4>4. QED
        BY <1>2, <1>9, <2>3, <4>1, <4>2, <4>3
    <3>2. QED
      BY <1>1, <1>3, <1>7, <1>9, <1>11, <2>1, <2>3, <3>1 DEF BlockEnds, n
  <2>4. QED
    BY <2>2, <2>3
<1>14. IndexKeys'
  <2>1. ASSUME NEW m \in 1..n
        PROVE  /\ ~KeyBefore(index'[m], entries'[ends'[m]])
               /\ ends'[m] < L + 1 =>
                    /\ KeyBefore(index'[m], entries'[ends'[m] + 1])
                    /\ \/ index'[m] = entries'[ends'[m]]
                       \/ BytesBefore(index'[m].u, entries'[ends'[m] + 1].u)
    <3>1. ends'[m] = ends[m] /\ ends[m] \in 1..L /\ entries'[ends[m]] = entries[ends[m]]
      BY <1>2, <1>3, <1>7
    <3>2. CASE pendingIndex /\ m = n
      BY <1>2, <1>3, <1>10, <1>11, <3>1, <3>2
    <3>3. CASE ~(pendingIndex /\ m = n)
      <4>1. m \in 1..Len(index) /\ index'[m] = index[m]
        BY <1>2, <1>11, <3>3
      <4>2. ends[m] < L
        <5>1. CASE pendingIndex
          <6>1. m < n /\ n \in 1..n /\ ends[n] = L
            BY <1>2, <1>10, <3>3, <5>1
          <6>2. QED
            BY <1>2, <6>1
        <5>2. QED
          BY <1>12, <5>1
      <4>3. ends[m] + 1 \in 1..L /\ entries'[ends[m] + 1] = entries[ends[m] + 1]
        BY <1>2, <1>3, <3>1, <4>2
      <4>4. QED
        BY <1>2, <3>1, <4>1, <4>2, <4>3 DEF IndexKeys
    <3>4. QED
      BY <3>2, <3>3
  <2>2. QED
    BY <1>3, <1>11, <2>1 DEF IndexKeys
<1>15. CursorPlace'
  BY <1>1 DEF CursorPlace, Shown, EntryAt
<1>16. QED
  BY <1>6, <1>13, <1>14, <1>15

LEMMA FinishKeeps ==
  ASSUME TableInv, FinishTable
  PROVE  TableInv'
<1> USE DEF TableInv
<1> DEFINE L == Len(entries)
           s == FindShortSuccessor(entries[L])
<1>1. /\ ~closed /\ entries # <<>> /\ closed' = TRUE /\ pendingIndex' = FALSE
      /\ ends' = IF pendingIndex THEN ends ELSE Append(ends, L)
      /\ index' = Append(index, s)
      /\ entries' = entries /\ it' = it /\ place' = place
  BY DEF FinishTable
<1>2. /\ L \in Nat /\ DOMAIN entries = 1..L
      /\ \A i \in 1..L : entries[i] \in TableKeys /\ entries[i] \in Keys
      /\ Len(ends) \in Nat /\ DOMAIN ends = 1..Len(ends) /\ \A m \in 1..Len(ends) : ends[m] \in 1..L
      /\ Len(index) \in Nat /\ DOMAIN index = 1..Len(index)
      /\ \A m \in 1..Len(index) : index[m] \in Keys /\ m \in 1..Len(ends)
      /\ \A l, m \in 1..Len(ends) : l < m => ends[l] < ends[m]
      /\ L # 0
      /\ pendingIndex <=> Len(ends) # 0 /\ ends[Len(ends)] = L
  BY <1>1, EntriesAre
<1>3. L \in 1..L
  BY <1>2
<1>4. s \in Keys /\ ~KeyBefore(s, entries[L])
  BY <1>2, <1>3, SuccessorIs
<1> HIDE DEF s
<1>5. /\ index' \in Seq(Keys) /\ Len(index') = Len(index) + 1 /\ index'[Len(index) + 1] = s
      /\ \A m \in 1..Len(index) : index'[m] = index[m]
  BY <1>1, <1>4, AppendProperties DEF BlockEnds
<1>6. /\ ends' \in Seq(1..L) /\ Len(ends') = Len(index) + 1 /\ ends'[Len(ends')] = L
      /\ \A m \in 1..Len(index) : ends'[m] = ends[m] /\ ends[m] < L
  <2>1. CASE pendingIndex
    <3>1. ends' = ends /\ ends[Len(ends)] = L /\ Len(index) = Len(ends) - 1 /\ ends \in Seq(1..L)
      BY <1>1, <2>1 DEF BlockEnds
    <3>2. ASSUME NEW m \in 1..Len(index)
          PROVE  ends[m] < L
      <4>1. m \in DOMAIN ends /\ Len(ends) \in DOMAIN ends /\ m < Len(ends)
        BY <1>2, <3>1
      <4>2. QED
        BY <3>1, <4>1 DEF BlockEnds
    <3>3. QED
      BY <1>2, <3>1, <3>2
  <2>2. CASE ~pendingIndex
    <3>1. ends' = Append(ends, L) /\ Len(index) = Len(ends) /\ ends \in Seq(1..L)
      BY <1>1, <2>2 DEF BlockEnds
    <3>2. /\ ends' \in Seq(1..L) /\ Len(ends') = Len(ends) + 1 /\ ends'[Len(ends) + 1] = L
          /\ \A m \in 1..Len(ends) : ends'[m] = ends[m]
      BY <1>3, <3>1, AppendProperties
    <3>3. ASSUME NEW m \in 1..Len(ends)
          PROVE  ends[m] < L
      <4>1. Len(ends) \in 1..Len(ends) /\ Len(ends) # 0
        BY <1>2
      <4>2. ends[Len(ends)] # L
        BY <1>2, <2>2, <4>1
      <4>3. ends[Len(ends)] \in 1..L /\ ends[m] \in 1..L
        BY <1>2, <4>1
      <4>4. CASE m = Len(ends)
        BY <1>2, <4>2, <4>3, <4>4
      <4>5. CASE m # Len(ends)
        <5>1. m < Len(ends)
          <6>1. Len(ends) \in Nat
            BY <1>2
          <6>2. QED
            BY <4>5, <6>1
        <5>2. ends[m] < ends[Len(ends)]
          BY <1>2, <4>1, <5>1
        <5>3. QED
          BY <1>2, <4>3, <5>2
      <4>6. QED
        BY <4>4, <4>5
    <3>4. QED
      BY <1>2, <3>1, <3>2, <3>3
  <2>3. QED
    BY <2>1, <2>2
<1>7. DOMAIN ends' = 1..Len(index) + 1 /\ DOMAIN index' = 1..Len(index) + 1 /\ ends' # <<>>
  BY <1>2, <1>5, <1>6, LenProperties, EmptySeq
<1>8. EntriesOrdered'
  BY <1>1 DEF EntriesOrdered
<1>9. BlockEnds'
  <2>1. ASSUME NEW l \in DOMAIN ends', NEW m \in DOMAIN ends', l < m
        PROVE  ends'[l] < ends'[m]
    <3>1. l \in 1..Len(index) /\ (m \in 1..Len(index) \/ m = Len(ends'))
      BY <1>2, <1>6, <1>7, <2>1
    <3>2. l \in DOMAIN ends /\ (m \in 1..Len(index) => m \in DOMAIN ends)
      BY <1>2, <3>1
    <3>3. QED
      BY <1>6, <2>1, <3>1, <3>2 DEF BlockEnds
  <2>2. QED
    BY <1>1, <1>5, <1>6, <1>7, <2>1 DEF BlockEnds
<1>10. IndexKeys'
  <2>1. ASSUME NEW m \in 1..Len(index) + 1
        PROVE  /\ ~KeyBefore(index'[m], entries[ends'[m]])
               /\ ends'[m] < L =>
                    /\ KeyBefore(index'[m], entries[ends'[m] + 1])
                    /\ \/ index'[m] = entries[ends'[m]]
                       \/ BytesBefore(index'[m].u, entries[ends'[m] + 1].u)
    <3>1. CASE m = Len(index) + 1
      BY <1>2, <1>4, <1>5, <1>6, <3>1
    <3>2. CASE m # Len(index) + 1
      <4>1. m \in 1..Len(index)
        BY <1>2, <3>2
      <4>2. QED
        BY <1>2, <1>5, <1>6, <4>1 DEF IndexKeys
    <3>3. QED
      BY <3>1, <3>2
  <2>2. QED
    BY <1>1, <1>7, <2>1 DEF IndexKeys
<1>11. CursorPlace'
  <2>1. it' = [index |-> NoPos, data |-> 0, pos |-> NoPos] /\ place' = 0
    BY <1>1 DEF CursorPlace, Shown, EntryAt
  <2>2. NoPos \in Position /\ NoPos.cur = 0
    BY DEF NoPos, Position
  <2>3. NoPos \in [cur : 0..Len(index'), restart : Restarts(index', 1)]
    <3>1. Len(index') \in Nat /\ 0 \in Restarts(index', 1)
      BY <1>2, <1>5 DEF Restarts
    <3>2. QED
      BY <3>1 DEF NoPos
  <2>4. Stands(it)'
    BY <2>1, <2>2, <2>3 DEF Stands, PosOf
  <2>5. QED
    BY <1>1, <2>1, <2>2, <2>4 DEF CursorPlace, Shown, EntryAt
<1>12. QED
  BY <1>8, <1>9, <1>10, <1>11
-----------------------------------------------------------------------------
(* What a closed table is.                                                 *)

LEMMA ClosedIs ==
  ASSUME TableInv, closed
  PROVE  /\ Len(ends) \in Nat /\ Len(ends) # 0 /\ Len(index) = Len(ends)
         /\ ends[Len(ends)] = Len(entries)
         /\ DOMAIN index = 1..Len(ends) /\ index # <<>>
<1>1. ~pendingIndex
  BY DEF TableInv, BlockEnds
<1>2. index # <<>> <=> Len(index) # 0
  BY NotEmpty DEF TableInv, BlockEnds
<1>3. QED
  BY <1>1, <1>2, EntriesAre DEF TableInv

LEMMA BlocksAre ==
  ASSUME TableInv, closed, NEW n \in 1..Len(ends)
  PROVE  /\ StartOf(n) \in Nat /\ StartOf(n) < ends[n]
         /\ ends[n] \in 1..Len(entries)
         /\ Sorted(DataBlock(n)) /\ DataBlock(n) # <<>>
         /\ Len(DataBlock(n)) = ends[n] - StartOf(n)
         /\ \A e \in 1..ends[n] - StartOf(n) : DataBlock(n)[e] = entries[StartOf(n) + e]
         /\ n # 1 => n - 1 \in 1..Len(ends) /\ StartOf(n) = ends[n - 1]
         /\ n = 1 => StartOf(n) = 0
<1> DEFINE a == StartOf(n)
           z == ends[n]
           b == DataBlock(n)
<1>1. Len(ends) \in Nat /\ z \in 1..Len(entries) /\ Len(entries) \in Nat
  BY EntriesAre DEF TableInv
<1>2. n # 1 => n - 1 \in 1..Len(ends) /\ a = ends[n - 1]
  BY <1>1 DEF StartOf
<1>3. n = 1 => a = 0
  BY DEF StartOf
<1>4. a \in Nat /\ a < z
  <2>1. CASE n = 1
    BY <1>1, <1>3, <2>1
  <2>2. CASE n # 1
    <3>1. n - 1 < n
      BY <1>1
    <3>2. ends[n - 1] < ends[n] /\ ends[n - 1] \in 1..Len(entries)
      BY <1>2, <2>2, <3>1, EntriesAre DEF TableInv
    <3>3. QED
      BY <1>1, <1>2, <2>2, <3>2
  <2>3. QED
    BY <2>1, <2>2
<1> HIDE DEF a, z
<1>5. \A e \in a + 1..z : entries[e] \in Keys
  <2>1. \A e \in a + 1..z : e \in 1..Len(entries)
    BY <1>1, <1>4
  <2>2. QED
    BY <2>1, EntriesAre DEF TableInv
<1>6. b \in Seq(Keys) /\ Len(b) = z - a /\ \A e \in 1..z - a : b[e] = entries[a + e]
  <2>1. b = SubSeq(entries, a + 1, z)
    BY DEF DataBlock, a, z
  <2> HIDE DEF b
  <2>2. /\ b \in Seq(Keys) /\ Len(b) = IF a + 1 <= z THEN z - (a + 1) + 1 ELSE 0
        /\ \A e \in 1..z - (a + 1) + 1 : b[e] = entries[a + 1 + e - 1]
    BY <1>1, <1>4, <1>5, <2>1, SubSeqProperties
  <2>3. z - (a + 1) + 1 = z - a /\ a + 1 <= z
    BY <1>1, <1>4
  <2>4. \A e \in 1..z - a : a + 1 + e - 1 = a + e
    BY <1>1, <1>4
  <2>5. QED
    BY <2>2, <2>3, <2>4
<1> HIDE DEF b
<1>7. ASSUME NEW i \in 1..z - a, NEW j \in 1..z - a, i < j
      PROVE  KeyBefore(b[i], b[j])
  <2>1. a + i \in 1..Len(entries) /\ a + j \in 1..Len(entries) /\ a + i < a + j
    BY <1>1, <1>4, <1>7
  <2>2. KeyBefore(entries[a + i], entries[a + j])
    BY <2>1, EntriesAre DEF TableInv
  <2>3. QED
    BY <1>6, <2>2
<1>8. Sorted(b) /\ b # <<>>
  <2>1. DOMAIN b = 1..z - a
    BY <1>6, LenProperties
  <2>2. b # <<>>
    BY <1>1, <1>4, <1>6, NotEmpty
  <2>3. QED
    BY <1>6, <1>7, <2>1, <2>2 DEF Sorted
<1>9. QED
  BY <1>1, <1>2, <1>3, <1>4, <1>6, <1>8 DEF a, z, b

\* The key of a block in the index lies between it and the next block.
LEMMA IndexIs ==
  ASSUME TableInv, closed
  PROVE  /\ Sorted(index)
         /\ \A n \in 1..Len(ends), e \in 1..Len(entries) :
              /\ e <= ends[n] => ~KeyBefore(index[n], entries[e])
              /\ e > ends[n] => KeyBefore(index[n], entries[e])
<1> USE DEF TableInv
<1>1. ASSUME NEW n \in 1..Len(ends), NEW e \in 1..Len(entries)
      PROVE  /\ e <= ends[n] => ~KeyBefore(index[n], entries[e])
             /\ e > ends[n] => KeyBefore(index[n], entries[e])
  <2>1. /\ ends[n] \in 1..Len(entries) /\ n \in 1..Len(index) /\ index[n] \in Keys
        /\ entries[e] \in Keys /\ entries[ends[n]] \in Keys /\ n \in DOMAIN index
    BY EntriesAre, ClosedIs
  <2>2. CASE e <= ends[n]
    <3>1. e = ends[n] \/ KeyBefore(entries[e], entries[ends[n]])
      <4>1. e = ends[n] \/ e < ends[n]
        BY <2>1, <2>2
      <4>2. QED
        BY <2>1, <4>1, EntriesAre
    <3>2. ~KeyBefore(index[n], entries[ends[n]])
      BY <2>1 DEF IndexKeys
    <3>3. QED
      BY <2>1, <2>2, <3>1, <3>2, KeysOrdered
  <2>3. CASE e > ends[n]
    <3>1. ends[n] + 1 \in 1..Len(entries) /\ ends[n] < Len(entries)
      BY <2>1, <2>3
    <3>2. KeyBefore(index[n], entries[ends[n] + 1]) /\ entries[ends[n] + 1] \in Keys
      BY <2>1, <3>1, EntriesAre DEF IndexKeys
    <3>3. e = ends[n] + 1 \/ KeyBefore(entries[ends[n] + 1], entries[e])
      <4>1. e = ends[n] + 1 \/ ends[n] + 1 < e
        BY <2>1, <2>3
      <4>2. QED
        BY <3>1, <4>1, EntriesAre
    <3>4. QED
      BY <2>1, <2>3, <3>2, <3>3, KeysOrdered
  <2>4. QED
    BY <2>1, <2>2, <2>3
<1>2. ASSUME NEW m \in 1..Len(ends), NEW n \in 1..Len(ends), m < n
      PROVE  KeyBefore(index[m], index[n])
  <2>1. ends[m] < ends[n] /\ ends[m] \in 1..Len(entries) /\ ends[n] \in 1..Len(entries)
    BY <1>2, EntriesAre
  <2>2. KeyBefore(index[m], entries[ends[n]]) /\ ~KeyBefore(index[n], entries[ends[n]])
    BY <1>1, <2>1
  <2>3. index[m] \in Keys /\ index[n] \in Keys /\ entries[ends[n]] \in Keys
    BY <2>1, EntriesAre, ClosedIs
  <2>4. QED
    BY <2>2, <2>3, NotBefore
<1>3. Sorted(index)
  BY <1>2, ClosedIs DEF Sorted, BlockEnds
<1>4. QED
  BY <1>1, <1>3

LEMMA FirstFromIs ==
  ASSUME TableInv, NEW k \in Keys
  PROVE  FirstOf(entries, k, FirstFrom(k))
<1> DEFINE E == {e \in DOMAIN entries : ~KeyBefore(entries[e], k)}
<1>1. FirstFrom(k) = IF E = {} THEN 0 ELSE SmallestOf(E)
  BY DEF FirstFrom
<1>2. Len(entries) \in Nat /\ DOMAIN entries = 1..Len(entries)
  BY EntriesAre DEF TableInv
<1>3. CASE E = {}
  BY <1>1, <1>2, <1>3 DEF FirstOf
<1>4. CASE E # {}
  <2>1. E \subseteq Nat
    BY <1>2
  <2> DEFINE c == SmallestOf(E)
  <2>2. c \in E /\ \A y \in E : c <= y
    <3> HIDE DEF E
    <3>1. QED
      BY <1>4, <2>1, SmallestOfIs
  <2> HIDE DEF c
  <2>3. c \in 1..Len(entries) /\ ~KeyBefore(entries[c], k) /\ \A e \in 1..c - 1 : KeyBefore(entries[e], k)
    BY <1>2, <2>2
  <2>4. FirstFrom(k) = c
    BY <1>1, <1>4 DEF c
  <2>5. QED
    BY <1>2, <2>3, <2>4 DEF FirstOf
<1>5. QED
  BY <1>3, <1>4

LEMMA IsFirst ==
  ASSUME NEW b, NEW k, NEW c \in 1..Len(b), ~KeyBefore(b[c], k), \A e \in 1..c - 1 : KeyBefore(b[e], k)
  PROVE  FirstOf(b, k, c)
BY DEF FirstOf

LEMMA OneFirst ==
  ASSUME NEW b, Len(b) \in Nat, NEW k, NEW c, NEW d, FirstOf(b, k, c), FirstOf(b, k, d)
  PROVE  c = d
<1>1. CASE c = 0 \/ d = 0
  BY <1>1 DEF FirstOf
<1>2. CASE c # 0 /\ d # 0
  <2>1. c \in 1..Len(b) /\ d \in 1..Len(b)
    BY <1>2 DEF FirstOf
  <2>2. ~(c < d) /\ ~(d < c)
    BY <1>2, <2>1 DEF FirstOf
  <2>3. QED
    BY <2>1, <2>2
<1>3. QED
  BY <1>1, <1>2

\* Where a search of the index and one of the block lead.
LEMMA SoughtIs ==
  ASSUME TableInv, closed, NEW k \in Keys,
         NEW n, n = BlockSeek(index, 1, k).cur,
         NEW c, n # 0 => c = BlockSeek(DataBlock(n), RestartInterval, k).cur
  PROVE  /\ PosOf(index, 1, BlockSeek(index, 1, k))
         /\ n \in 0..Len(ends)
         /\ n = 0 => FirstFrom(k) = 0
         /\ n # 0 => /\ PosOf(DataBlock(n), RestartInterval, BlockSeek(DataBlock(n), RestartInterval, k))
                     /\ ~KeyBefore(index[n], k)
                     /\ c \in 0..ends[n] - StartOf(n)
                     /\ c # 0 => FirstFrom(k) = StartOf(n) + c
                     /\ c = 0 => FirstFrom(k) = IF n = Len(ends) THEN 0 ELSE ends[n] + 1
                     /\ c = 0 => KeyBefore(entries[ends[n]], k)
<1>1. PosOf(index, 1, BlockSeek(index, 1, k)) /\ FirstOf(index, k, n)
  <2>1. 1 \in Nat \ {0}
    OBVIOUS
  <2>2. QED
    BY <2>1, IndexIs, ClosedIs, BlockSeekIs
<1>2. n \in 0..Len(ends) /\ Len(ends) \in Nat /\ Len(index) = Len(ends) /\ Len(ends) # 0 /\ Len(entries) \in Nat
  <2>1. n \in 0..Len(index)
    BY <1>1 DEF PosOf
  <2>2. QED
    BY <2>1, ClosedIs, EntriesAre DEF TableInv
<1>3. FirstOf(entries, k, FirstFrom(k))
  BY FirstFromIs
<1>4. \A e \in 1..Len(entries) : entries[e] \in Keys
  BY EntriesAre DEF TableInv
<1>5. \A m \in 1..Len(ends) : index[m] \in Keys /\ ends[m] \in 1..Len(entries)
  BY <1>2, EntriesAre DEF TableInv
\* The entries of a block whose key in the index is before k.
<1>6. ASSUME NEW m \in 1..Len(ends), KeyBefore(index[m], k), NEW e \in 1..ends[m]
      PROVE  KeyBefore(entries[e], k)
  <2>1. e \in 1..Len(entries) /\ e <= ends[m]
    BY <1>2, <1>5
  <2>2. ~KeyBefore(index[m], entries[e])
    BY <2>1, IndexIs
  <2>3. QED
    BY <1>4, <1>5, <1>6, <2>1, <2>2, NotBefore
<1>7. CASE n = 0
  <2>1. KeyBefore(index[Len(ends)], k) /\ ends[Len(ends)] = Len(entries) /\ Len(ends) \in 1..Len(ends)
    BY <1>1, <1>2, <1>7, ClosedIs DEF FirstOf
  <2>2. \A e \in 1..Len(entries) : KeyBefore(entries[e], k)
    BY <1>6, <2>1
  <2>3. FirstOf(entries, k, 0)
    BY <2>2 DEF FirstOf
  <2>4. QED
    BY <1>1, <1>2, <1>3, <1>7, <2>3, OneFirst
<1>8. CASE n # 0
  <2> DEFINE b == DataBlock(n)
             a == StartOf(n)
             z == ends[n]
  <2>1. n \in 1..Len(ends) /\ ~KeyBefore(index[n], k) /\ \A m \in 1..n - 1 : KeyBefore(index[m], k)
    BY <1>1, <1>2, <1>8 DEF FirstOf
  <2>2. /\ a \in Nat /\ a < z /\ z \in 1..Len(entries)
        /\ Sorted(b) /\ b # <<>> /\ Len(b) = z - a
        /\ \A e \in 1..z - a : b[e] = entries[a + e]
        /\ n # 1 => n - 1 \in 1..Len(ends) /\ a = ends[n - 1]
        /\ n = 1 => a = 0
    BY <2>1, BlocksAre
  <2>3. PosOf(b, RestartInterval, BlockSeek(b, RestartInterval, k)) /\ FirstOf(b, k, c)
    <3>1. RestartInterval \in Nat \ {0}
      BY IndexAssumption
    <3> HIDE DEF b
    <3>2. QED
      BY <1>8, <2>2, <3>1, BlockSeekIs DEF b
  <2>4. c \in 0..z - a
    BY <2>2, <2>3 DEF PosOf, FirstOf
  <2>5. ASSUME NEW e \in 1..a
        PROVE  KeyBefore(entries[e], k)
    <3>1. n # 1
      BY <2>2
    <3>2. n - 1 \in 1..n - 1 /\ n - 1 \in 1..Len(ends) /\ e \in 1..ends[n - 1]
      BY <1>2, <2>1, <2>2, <3>1
    <3>3. QED
      BY <1>6, <2>1, <3>2
  <2> HIDE DEF a, b, z
  <2>6. \A e \in a + 1..z : e - a \in 1..z - a /\ b[e - a] = entries[e]
    <3> TAKE e \in a + 1..z
    <3>1. e - a \in 1..z - a /\ a + (e - a) = e
      BY <1>2, <2>2
    <3>2. QED
      BY <2>2, <3>1
  <2>7. CASE c # 0
    <3>1. c \in 1..z - a /\ ~KeyBefore(b[c], k) /\ \A e \in 1..c - 1 : KeyBefore(b[e], k)
      BY <2>2, <2>3, <2>7 DEF FirstOf
    <3>2. a + c \in 1..Len(entries) /\ a + c # 0 /\ ~KeyBefore(entries[a + c], k)
      BY <1>2, <2>2, <3>1
    <3>3. ASSUME NEW e \in 1..(a + c) - 1
          PROVE  KeyBefore(entries[e], k)
      <4>1. CASE e <= a
        BY <2>2, <2>5, <4>1
      <4>2. CASE e > a
        <5>1. e \in a + 1..z /\ e - a \in 1..c - 1
          BY <1>2, <2>2, <3>1, <4>2
        <5>2. QED
          BY <2>6, <3>1, <5>1
      <4>3. QED
        BY <2>2, <4>1, <4>2
    <3>4. FirstOf(entries, k, a + c)
      <4> DEFINE d == a + c
      <4>1. d \in 1..Len(entries) /\ ~KeyBefore(entries[d], k)
        BY <3>2
      <4>2. \A e \in 1..d - 1 : KeyBefore(entries[e], k)
        BY <3>3
      <4> HIDE DEF d
      <4>3. FirstOf(entries, k, d)
        BY <4>1, <4>2, IsFirst
      <4>4. QED
        BY <4>3 DEF d
    <3>5. FirstFrom(k) = a + c
      BY <1>2, <1>3, <3>4, OneFirst
    <3>6. QED
      BY <1>1, <1>2, <1>8, <2>1, <2>3, <2>4, <2>7, <3>5 DEF a, b, z
  <2>8. CASE c = 0
    <3>1. \A e \in 1..z - a : KeyBefore(b[e], k)
      BY <2>2, <2>3, <2>8 DEF FirstOf
    <3>2. ASSUME NEW e \in 1..z
          PROVE  KeyBefore(entries[e], k)
      <4>1. CASE e <= a
        BY <2>2, <2>5, <4>1
      <4>2. CASE e > a
        <5>1. e \in a + 1..z
          BY <1>2, <2>2, <4>2
        <5>2. QED
          BY <2>6, <3>1, <5>1
      <4>3. QED
        BY <2>2, <4>1, <4>2
    <3>3. KeyBefore(entries[z], k)
      BY <1>2, <2>2, <3>2
    <3>4. CASE n = Len(ends)
      <4>1. z = Len(entries)
        BY <3>4, ClosedIs DEF z
      <4>2. FirstOf(entries, k, 0)
        BY <3>2, <4>1 DEF FirstOf
      <4>3. FirstFrom(k) = 0
        BY <1>2, <1>3, <4>2, OneFirst
      <4>4. QED
        BY <1>1, <1>2, <1>8, <2>1, <2>3, <2>4, <2>8, <3>3, <3>4, <4>3 DEF a, b, z
    <3>5. CASE n # Len(ends)
      <4>1. z < Len(entries)
        <5>1. n < Len(ends) /\ Len(ends) \in 1..Len(ends)
          BY <1>2, <2>1, <3>5
        <5>2. ends[n] < ends[Len(ends)] /\ ends[Len(ends)] = Len(entries)
          BY <2>1, <5>1, EntriesAre, ClosedIs DEF TableInv
        <5>3. QED
          BY <5>2 DEF z
      <4>2. z + 1 \in 1..Len(entries) /\ z + 1 > z
        BY <1>2, <2>2, <4>1
      <4>3. KeyBefore(index[n], entries[z + 1])
        BY <2>1, <4>2, IndexIs DEF z
      <4>4. ~KeyBefore(entries[z + 1], k)
        BY <1>4, <1>5, <2>1, <4>2, <4>3, KeysOrdered
      <4>5. FirstOf(entries, k, z + 1)
        <5>1. \A e \in 1..(z + 1) - 1 : e \in 1..z
          BY <2>2
        <5> DEFINE d == z + 1
        <5>2. d \in 1..Len(entries) /\ ~KeyBefore(entries[d], k) /\ \A e \in 1..d - 1 : KeyBefore(entries[e], k)
          BY <3>2, <4>2, <4>4, <5>1
        <5> HIDE DEF d
        <5>3. FirstOf(entries, k, d)
          BY <5>2, IsFirst
        <5>4. QED
          BY <5>3 DEF d
      <4>6. FirstFrom(k) = z + 1
        BY <1>2, <1>3, <4>5, OneFirst
      <4>7. QED
        BY <1>1, <1>2, <1>8, <2>1, <2>3, <2>4, <2>8, <3>3, <3>5, <4>6 DEF a, b, z
    <3>6. QED
      BY <3>4, <3>5
  <2>9. QED
    BY <2>7, <2>8
<1>9. QED
  BY <1>7, <1>8

\* A lookup that the index leads past the block finds no entry of its user key.
LEMMA LookupFinds == TableInv => GetFindsEntry
<1> SUFFICES ASSUME TableInv, closed, NEW k \in TableKeys
             PROVE  /\ InternalGet(k) \in {0, FirstFrom(k)}
                    /\ FirstFrom(k) # 0 /\ entries[FirstFrom(k)].u = k.u => InternalGet(k) = FirstFrom(k)
  BY DEF GetFindsEntry
<1> DEFINE n == BlockSeek(index, 1, k).cur
           p == BlockSeek(DataBlock(n), RestartInterval, k)
<1>1. k \in Keys
  BY TableKeyTypes
<1>2. InternalGet(k) = IF n = 0 \/ p.cur = 0 THEN 0 ELSE StartOf(n) + p.cur
  BY DEF InternalGet, EntryAt
<1>3. /\ n \in 0..Len(ends)
      /\ n = 0 => FirstFrom(k) = 0
      /\ n # 0 => /\ ~KeyBefore(index[n], k)
                  /\ p.cur # 0 => FirstFrom(k) = StartOf(n) + p.cur
                  /\ p.cur = 0 => FirstFrom(k) = IF n = Len(ends) THEN 0 ELSE ends[n] + 1
                  /\ p.cur = 0 => KeyBefore(entries[ends[n]], k)
  BY <1>1, SoughtIs
<1> HIDE DEF n, p
<1>4. ASSUME n # 0, p.cur = 0, FirstFrom(k) # 0, entries[FirstFrom(k)].u = k.u
      PROVE  FALSE
  <2>1. n \in 1..Len(ends) /\ n # Len(ends) /\ FirstFrom(k) = ends[n] + 1 /\ Len(ends) \in Nat
    <3>1. Len(ends) \in Nat
      BY ClosedIs
    <3>2. QED
      BY <1>3, <1>4, <3>1
  <2>2. n \in DOMAIN index /\ ends[n] < Len(entries)
    <3>1. n \in 1..Len(index) /\ DOMAIN index = 1..Len(index)
      BY <2>1, ClosedIs
    <3>2. n < Len(ends) /\ Len(ends) \in 1..Len(ends)
      BY <2>1
    <3>3. ends[n] < ends[Len(ends)] /\ ends[Len(ends)] = Len(entries)
      BY <2>1, <3>2, EntriesAre, ClosedIs DEF TableInv
    <3>4. QED
      BY <3>1, <3>3
  <2>3. index[n] = entries[ends[n]] \/ BytesBefore(index[n].u, entries[ends[n] + 1].u)
    BY <2>2 DEF TableInv, IndexKeys
  <2>4. ~KeyBefore(index[n], k) /\ KeyBefore(entries[ends[n]], k)
    BY <1>3, <1>4
  <2>5. QED
    BY <1>4, <2>1, <2>3, <2>4 DEF KeyBefore
<1>5. QED
  BY <1>2, <1>3, <1>4
-----------------------------------------------------------------------------
(* The two-level iterator.                                                 *)

LEMMA PosTypes ==
  ASSUME NEW b, Sorted(b), b # <<>>, NEW R \in Nat \ {0}, NEW p, PosOf(b, R, p)
  PROVE  p \in Position /\ p.cur \in 0..Len(b)
<1>1. Len(b) \in Nat
  BY SortedIs
<1>2. \A i \in Restarts(b, R) : i \in Nat
  BY RestartsAre
<1>3. p \in [cur : 0..Len(b), restart : Restarts(b, R)]
  BY DEF PosOf
<1>4. QED
  BY <1>1, <1>2, <1>3 DEF Position

LEMMA StandsIs ==
  ASSUME TableInv, closed, NEW j, Stands(j)
  PROVE  /\ j.data \in 0..Len(ends) /\ j.index.cur = j.data /\ PosOf(index, 1, j.index)
         /\ j.data # 0 => /\ PosOf(DataBlock(j.data), RestartInterval, j.pos)
                          /\ j.pos.cur \in 0..ends[j.data] - StartOf(j.data)
         /\ EntryAt(j.data, j.pos) = IF j.data = 0 \/ j.pos.cur = 0 THEN 0 ELSE StartOf(j.data) + j.pos.cur
         /\ EntryAt(j.data, j.pos) # 0 <=> j.data # 0 /\ j.pos.cur # 0
<1>1. j.index.cur = j.data /\ PosOf(index, 1, j.index)
  BY DEF Stands
<1>2. j.data \in 0..Len(ends) /\ Len(ends) \in Nat
  <2>1. j.data \in 0..Len(index)
    BY <1>1 DEF PosOf
  <2>2. QED
    BY <2>1, ClosedIs
<1>3. ASSUME j.data # 0
      PROVE  /\ PosOf(DataBlock(j.data), RestartInterval, j.pos)
             /\ j.pos.cur \in 0..ends[j.data] - StartOf(j.data)
             /\ StartOf(j.data) \in Nat
  <2>1. PosOf(DataBlock(j.data), RestartInterval, j.pos)
    BY <1>3 DEF Stands
  <2>2. j.data \in 1..Len(ends)
    BY <1>2, <1>3
  <2>3. Len(DataBlock(j.data)) = ends[j.data] - StartOf(j.data) /\ StartOf(j.data) \in Nat
    BY <2>2, BlocksAre
  <2>4. QED
    BY <2>1, <2>3 DEF PosOf
<1>4. EntryAt(j.data, j.pos) = IF j.data = 0 \/ j.pos.cur = 0 THEN 0 ELSE StartOf(j.data) + j.pos.cur
  BY DEF EntryAt
<1>5. ASSUME j.data # 0, j.pos.cur # 0
      PROVE  StartOf(j.data) + j.pos.cur # 0
  BY <1>3, <1>5
<1>6. QED
  BY <1>1, <1>2, <1>3, <1>4, <1>5

\* An iterator with another place in its block.
Placed(i, m) == IF i.data = 0 THEN i ELSE [i EXCEPT !.pos = m]

\* The iterator of the index is moved to p, and that of its block to m.
LEMMA Goes ==
  ASSUME TableInv, closed, NEW j, Stands(j), NEW p, PosOf(index, 1, p), NEW m,
         p.cur # 0 => PosOf(DataBlock(p.cur), RestartInterval, m)
  PROVE  LET h == InitDataBlock([j EXCEPT !.index = p])
         IN  /\ h.data = p.cur
             /\ Stands(Placed(h, m)) /\ Placed(h, m).data = p.cur
             /\ p.cur # 0 => Placed(h, m).pos = m
<1> DEFINE h == InitDataBlock([j EXCEPT !.index = p])
           i == Placed(h, m)
<1>1. j \in [index : Position, data : Nat, pos : Position]
  BY DEF Stands
<1>2. p \in Position /\ p.cur \in 0..Len(ends)
  <2>1. 1 \in Nat \ {0} /\ Sorted(index) /\ index # <<>> /\ Len(index) = Len(ends)
    BY IndexIs, ClosedIs
  <2>2. p \in Position /\ p.cur \in 0..Len(index)
    BY <2>1, PosTypes
  <2>3. QED
    BY <2>1, <2>2
<1>3. NoPos \in Position
  BY DEF NoPos, Position
<1>4. h \in [index : Position, data : Nat, pos : Position] /\ h.data = p.cur /\ h.index = p
  <2> DEFINE g == [j EXCEPT !.index = p]
  <2>1. g \in [index : Position, data : Nat, pos : Position] /\ g.index = p
    BY <1>1, <1>2
  <2>2. p.cur \in Nat
    BY <1>2 DEF Position
  <2>3. h = IF g.data = g.index.cur THEN g ELSE [g EXCEPT !.data = g.index.cur, !.pos = NoPos]
    BY DEF InitDataBlock
  <2> HIDE DEF g, h
  <2>4. QED
    BY <1>3, <2>1, <2>2, <2>3
<1>5. p.cur # 0 => m \in Position
  <2>1. CASE p.cur # 0
    <3>1. p.cur \in 1..Len(ends)
      BY <1>2, <2>1
    <3>2. Sorted(DataBlock(p.cur)) /\ DataBlock(p.cur) # <<>> /\ RestartInterval \in Nat \ {0}
      BY <3>1, BlocksAre, IndexAssumption
    <3>3. QED
      BY <2>1, <3>2, PosTypes
  <2>2. QED
    BY <2>1
<1> HIDE DEF h
<1>6. /\ i \in [index : Position, data : Nat, pos : Position] /\ i.data = p.cur /\ i.index = p
      /\ p.cur # 0 => i.pos = m
  <2>1. CASE p.cur = 0
    BY <1>4, <2>1 DEF Placed
  <2>2. CASE p.cur # 0
    BY <1>4, <1>5, <2>2 DEF Placed
  <2>3. QED
    BY <2>1, <2>2
<1> HIDE DEF i
<1>7. Stands(i)
  BY <1>6 DEF Stands
<1>8. QED
  BY <1>4, <1>6, <1>7 DEF i, h

\* Where the ends of a block are in the table.
LEMMA EdgesAre ==
  ASSUME TableInv, closed, NEW n \in 1..Len(ends)
  PROVE  /\ PosOf(DataBlock(n), RestartInterval, FirstIn(DataBlock(n)))
         /\ EntryAt(n, FirstIn(DataBlock(n))) = StartOf(n) + 1
         /\ PosOf(DataBlock(n), RestartInterval, LastIn(DataBlock(n)))
         /\ EntryAt(n, LastIn(DataBlock(n))) = ends[n]
<1> DEFINE b == DataBlock(n)
<1>1. /\ Sorted(b) /\ b # <<>> /\ Len(b) = ends[n] - StartOf(n) /\ StartOf(n) \in Nat
      /\ StartOf(n) < ends[n] /\ ends[n] \in 1..Len(entries) /\ n # 0
  <2>1. n # 0
    BY ClosedIs
  <2>2. QED
    BY <2>1, BlocksAre
<1>2. RestartInterval \in Nat \ {0}
  BY IndexAssumption
<1> HIDE DEF b
<1>3. /\ PosOf(b, RestartInterval, FirstIn(b)) /\ FirstIn(b).cur = 1
      /\ PosOf(b, RestartInterval, LastIn(b)) /\ LastIn(b).cur = Len(b)
  BY <1>1, <1>2, BlockMoves DEF FirstIn, LastIn
<1>4. Len(entries) \in Nat
  BY EntriesAre DEF TableInv
<1>5. Len(b) # 0 /\ StartOf(n) + Len(b) = ends[n]
  BY <1>1, <1>4
<1>6. EntryAt(n, FirstIn(b)) = StartOf(n) + 1 /\ EntryAt(n, LastIn(b)) = ends[n]
  BY <1>1, <1>3, <1>5 DEF EntryAt
<1>7. QED
  BY <1>3, <1>6 DEF b

LEMMA SkipForwardIs ==
  ASSUME TableInv, closed, NEW j, Stands(j)
  PROVE  LET i == SkipForward(j)
             e == EntryAt(j.data, j.pos)
         IN  /\ Stands(i)
             /\ EntryAt(i.data, i.pos) = IF e # 0 THEN e
                                         ELSE IF j.data = 0 \/ j.data = Len(ends) THEN 0
                                         ELSE ends[j.data] + 1
<1>1. j.data \in 0..Len(ends) /\ j.index.cur = j.data /\ PosOf(index, 1, j.index) /\ Len(ends) \in Nat
  BY StandsIs, ClosedIs
<1>2. CASE EntryAt(j.data, j.pos) # 0
  BY <1>2 DEF SkipForward
<1>3. CASE EntryAt(j.data, j.pos) = 0 /\ j.data = 0
  BY <1>1, <1>3 DEF SkipForward
<1>4. CASE EntryAt(j.data, j.pos) = 0 /\ j.data # 0
  <2> DEFINE p == BlockNext(index, 1, j.index)
             h == InitDataBlock([j EXCEPT !.index = p])
  <2>1. SkipForward(j) = Placed(h, FirstIn(DataBlock(h.data)))
    BY <1>1, <1>4 DEF SkipForward, InBlock, Placed
  <2>2. PosOf(index, 1, p) /\ p.cur = IF j.data = Len(ends) THEN 0 ELSE j.data + 1
    <3>1. 1 \in Nat \ {0} /\ Sorted(index) /\ index # <<>> /\ Len(index) = Len(ends)
      BY IndexIs, ClosedIs
    <3>2. QED
      BY <1>1, <1>4, <3>1, BlockMoves
  <2> HIDE DEF p
  <2>3. p.cur # 0 => p.cur \in 1..Len(ends) /\ StartOf(p.cur) = ends[j.data]
    <3>1. CASE p.cur # 0
      <4>1. p.cur \in 1..Len(ends) /\ p.cur # 1 /\ p.cur - 1 = j.data
        BY <1>1, <1>4, <2>2, <3>1
      <4>2. QED
        BY <4>1, BlocksAre
    <3>2. QED
      BY <3>1
  <2>4. p.cur # 0 => PosOf(DataBlock(p.cur), RestartInterval, FirstIn(DataBlock(p.cur)))
    BY <2>3, EdgesAre
  <2> DEFINE i == SkipForward(j)
  <2>5. Stands(i) /\ i.data = p.cur /\ (p.cur # 0 => i.pos = FirstIn(DataBlock(p.cur)))
    <3> DEFINE m == FirstIn(DataBlock(p.cur))
    <3> HIDE DEF m
    <3>1. /\ h.data = p.cur
          /\ Stands(Placed(h, m)) /\ Placed(h, m).data = p.cur
          /\ p.cur # 0 => Placed(h, m).pos = m
      <4>1. PosOf(index, 1, p)
        BY <2>2
      <4>2. p.cur # 0 => PosOf(DataBlock(p.cur), RestartInterval, m)
        BY <2>4 DEF m
      <4>3. QED
        BY <4>1, <4>2, Goes
    <3> HIDE DEF h
    <3>2. i = Placed(h, m)
      BY <2>1, <3>1 DEF m
    <3>3. QED
      BY <3>1, <3>2 DEF m
  <2> HIDE DEF i
  <2>6. CASE p.cur = 0
    <3>1. EntryAt(i.data, i.pos) = 0 /\ j.data = Len(ends)
      BY <1>1, <2>2, <2>5, <2>6 DEF EntryAt
    <3>2. QED
      BY <1>4, <2>5, <3>1 DEF i
  <2>7. CASE p.cur # 0
    <3>1. EntryAt(i.data, i.pos) = ends[j.data] + 1 /\ j.data # Len(ends)
      BY <2>2, <2>3, <2>5, <2>7, EdgesAre
    <3>2. QED
      BY <1>4, <2>5, <3>1 DEF i
  <2>8. QED
    BY <2>6, <2>7
<1>5. QED
  BY <1>2, <1>3, <1>4

LEMMA SkipBackwardIs ==
  ASSUME TableInv, closed, NEW j, Stands(j)
  PROVE  LET i == SkipBackward(j)
             e == EntryAt(j.data, j.pos)
         IN  /\ Stands(i)
             /\ EntryAt(i.data, i.pos) = IF e # 0 THEN e
                                         ELSE IF j.data = 0 THEN 0 ELSE StartOf(j.data)
<1>1. j.data \in 0..Len(ends) /\ j.index.cur = j.data /\ PosOf(index, 1, j.index) /\ Len(ends) \in Nat
  BY StandsIs, ClosedIs
<1>2. CASE EntryAt(j.data, j.pos) # 0
  BY <1>2 DEF SkipBackward
<1>3. CASE EntryAt(j.data, j.pos) = 0 /\ j.data = 0
  BY <1>1, <1>3 DEF SkipBackward
<1>4. CASE EntryAt(j.data, j.pos) = 0 /\ j.data # 0
  <2> DEFINE p == BlockPrev(index, 1, j.index)
             h == InitDataBlock([j EXCEPT !.index = p])
  <2>1. SkipBackward(j) = Placed(h, LastIn(DataBlock(h.data)))
    BY <1>1, <1>4 DEF SkipBackward, InBlock, Placed
  <2>2. PosOf(index, 1, p) /\ p.cur = j.data - 1
    <3>1. 1 \in Nat \ {0} /\ Sorted(index) /\ index # <<>>
      BY IndexIs, ClosedIs
    <3>2. QED
      BY <1>1, <1>4, <3>1, BlockMoves
  <2> HIDE DEF p
  <2>3. /\ p.cur # 0 => p.cur \in 1..Len(ends) /\ StartOf(j.data) = ends[p.cur]
        /\ p.cur = 0 => StartOf(j.data) = 0
    <3>1. j.data \in 1..Len(ends) /\ (p.cur = 0 <=> j.data = 1)
      BY <1>1, <1>4, <2>2
    <3>2. QED
      BY <2>2, <3>1, BlocksAre
  <2>4. p.cur # 0 => PosOf(DataBlock(p.cur), RestartInterval, LastIn(DataBlock(p.cur)))
    BY <2>3, EdgesAre
  <2> DEFINE i == SkipBackward(j)
  <2>5. Stands(i) /\ i.data = p.cur /\ (p.cur # 0 => i.pos = LastIn(DataBlock(p.cur)))
    <3> DEFINE m == LastIn(DataBlock(p.cur))
    <3> HIDE DEF m
    <3>1. /\ h.data = p.cur
          /\ Stands(Placed(h, m)) /\ Placed(h, m).data = p.cur
          /\ p.cur # 0 => Placed(h, m).pos = m
      <4>1. PosOf(index, 1, p)
        BY <2>2
      <4>2. p.cur # 0 => PosOf(DataBlock(p.cur), RestartInterval, m)
        BY <2>4 DEF m
      <4>3. QED
        BY <4>1, <4>2, Goes
    <3> HIDE DEF h
    <3>2. i = Placed(h, m)
      BY <2>1, <3>1 DEF m
    <3>3. QED
      BY <3>1, <3>2 DEF m
  <2> HIDE DEF i
  <2>6. EntryAt(i.data, i.pos) = StartOf(j.data)
    <3>1. CASE p.cur = 0
      BY <2>3, <2>5, <3>1 DEF EntryAt
    <3>2. CASE p.cur # 0
      BY <2>3, <2>5, <3>2, EdgesAre
    <3>3. QED
      BY <3>1, <3>2
  <2>7. QED
    BY <1>4, <2>5, <2>6 DEF i
<1>5. QED
  BY <1>2, <1>3, <1>4

\* A call leaves the table alone.
LEMMA CallKeeps ==
  ASSUME TableInv, NEW i, NEW shown, Call(i, shown), Stands(i), EntryAt(i.data, i.pos) = shown
  PROVE  TableInv'
<1>1. /\ closed /\ it' = i /\ place' = shown /\ entries' = entries /\ ends' = ends
      /\ index' = index /\ pendingIndex' = pendingIndex /\ closed' = closed
  BY DEF Call
<1>2. EntriesOrdered' /\ BlockEnds' /\ IndexKeys'
  BY <1>1 DEF TableInv, EntriesOrdered, BlockEnds, IndexKeys
<1>3. Stands(it)'
  BY <1>1 DEF Stands, DataBlock, StartOf
<1>4. Shown' = EntryAt(i.data, i.pos)
  BY <1>1 DEF Shown, EntryAt, StartOf
<1>5. QED
  BY <1>1, <1>2, <1>3, <1>4 DEF TableInv, CursorPlace

LEMMA SeekKeeps ==
  ASSUME TableInv, NEW k \in TableKeys, TableSeek(k)
  PROVE  TableInv'
<1> DEFINE Move(b) == BlockSeek(b, RestartInterval, k)
           p == BlockSeek(index, 1, k)
           h == InBlock(InitDataBlock([it EXCEPT !.index = p]), Move)
           i == SkipForward(h)
<1>1. Call(i, FirstFrom(k))
  BY DEF TableSeek
<1>2. closed /\ Stands(it)
  BY <1>1 DEF Call, TableInv, CursorPlace
<1>3. k \in Keys
  BY TableKeyTypes
<1> DEFINE n == p.cur
           c == Move(DataBlock(n)).cur
<1>4. /\ PosOf(index, 1, p)
      /\ n \in 0..Len(ends)
      /\ n = 0 => FirstFrom(k) = 0
      /\ n # 0 => /\ PosOf(DataBlock(n), RestartInterval, Move(DataBlock(n)))
                  /\ c \in 0..ends[n] - StartOf(n)
                  /\ c # 0 => FirstFrom(k) = StartOf(n) + c
                  /\ c = 0 => FirstFrom(k) = IF n = Len(ends) THEN 0 ELSE ends[n] + 1
  BY <1>2, <1>3, SoughtIs
<1> HIDE DEF p
<1>5. Stands(h) /\ h.data = n /\ (n # 0 => h.pos = Move(DataBlock(n)))
  <2> DEFINE m == Move(DataBlock(n))
             g == InitDataBlock([it EXCEPT !.index = p])
  <2>1. /\ g.data = p.cur
        /\ Stands(Placed(g, m)) /\ Placed(g, m).data = p.cur
        /\ p.cur # 0 => Placed(g, m).pos = m
    <3> HIDE DEF m
    <3>1. p.cur # 0 => PosOf(DataBlock(p.cur), RestartInterval, m)
      BY <1>4 DEF m
    <3>2. PosOf(index, 1, p)
      BY <1>4
    <3>3. QED
      BY <1>2, <3>1, <3>2, Goes
  <2>2. h = Placed(g, Move(DataBlock(g.data)))
    BY DEF InBlock, Placed
  <2> HIDE DEF g, h
  <2>3. QED
    BY <1>4, <2>1, <2>2
<1> HIDE DEF Move, h
<1>6. EntryAt(h.data, h.pos) = IF n = 0 \/ c = 0 THEN 0 ELSE StartOf(n) + c
  BY <1>5 DEF EntryAt
<1>7. n # 0 /\ c # 0 => StartOf(n) + c # 0
  <2>1. CASE n # 0 /\ c # 0
    <3>1. n \in 1..Len(ends)
      BY <1>4, <2>1
    <3>2. StartOf(n) \in Nat /\ ends[n] \in 1..Len(entries)
      BY <1>2, <3>1, BlocksAre
    <3>3. QED
      BY <1>4, <2>1, <3>2
  <2>2. QED
    BY <2>1
<1>8. Stands(i) /\ EntryAt(i.data, i.pos) = FirstFrom(k)
  <2>1. /\ Stands(i)
        /\ EntryAt(i.data, i.pos) =
             IF EntryAt(h.data, h.pos) # 0 THEN EntryAt(h.data, h.pos)
             ELSE IF h.data = 0 \/ h.data = Len(ends) THEN 0 ELSE ends[h.data] + 1
    BY <1>2, <1>5, SkipForwardIs
  <2> HIDE DEF i, c, n
  <2>2. QED
    BY <1>4, <1>5, <1>6, <1>7, <2>1
<1> HIDE DEF i
<1>9. QED
  BY <1>1, <1>8, CallKeeps

LEMMA FirstKeeps ==
  ASSUME TableInv, TableSeekToFirst
  PROVE  TableInv'
<1> DEFINE p == BlockFirst(index, 1)
           h == InBlock(InitDataBlock([it EXCEPT !.index = p]), FirstIn)
           i == SkipForward(h)
<1>1. Call(i, 1)
  BY DEF TableSeekToFirst
<1>2. closed /\ Stands(it)
  BY <1>1 DEF Call, TableInv, CursorPlace
<1>3. PosOf(index, 1, p) /\ p.cur = 1
  <2>1. 1 \in Nat \ {0} /\ Sorted(index) /\ index # <<>>
    BY <1>2, IndexIs, ClosedIs
  <2>2. QED
    BY <2>1, BlockMoves
<1>4. /\ 1 \in 1..Len(ends) /\ StartOf(1) = 0
      /\ PosOf(DataBlock(1), RestartInterval, FirstIn(DataBlock(1)))
      /\ EntryAt(1, FirstIn(DataBlock(1))) = StartOf(1) + 1
  <2>1. 1 \in 1..Len(ends)
    BY <1>2, ClosedIs
  <2>2. QED
    BY <1>2, <2>1, EdgesAre, BlocksAre
<1> HIDE DEF p
<1>5. Stands(h) /\ h.data = 1 /\ h.pos = FirstIn(DataBlock(1))
  <2> DEFINE m == FirstIn(DataBlock(1))
             g == InitDataBlock([it EXCEPT !.index = p])
  <2>1. /\ g.data = p.cur
        /\ Stands(Placed(g, m)) /\ Placed(g, m).data = p.cur
        /\ p.cur # 0 => Placed(g, m).pos = m
    <3> HIDE DEF m
    <3>1. p.cur # 0 => PosOf(DataBlock(p.cur), RestartInterval, m)
      BY <1>3, <1>4 DEF m
    <3>2. PosOf(index, 1, p)
      BY <1>3, <1>4
    <3>3. QED
      BY <1>2, <3>1, <3>2, Goes
  <2>2. h = Placed(g, FirstIn(DataBlock(g.data)))
    BY DEF InBlock, Placed
  <2> HIDE DEF g, h
  <2>3. QED
    BY <1>3, <1>4, <2>1, <2>2
<1> HIDE DEF h
<1>6. Stands(i) /\ EntryAt(i.data, i.pos) = 1
  BY <1>2, <1>4, <1>5, SkipForwardIs
<1> HIDE DEF i
<1>7. QED
  BY <1>1, <1>6, CallKeeps

LEMMA LastKeeps ==
  ASSUME TableInv, TableSeekToLast
  PROVE  TableInv'
<1> DEFINE p == BlockLast(index, 1)
           n == Len(ends)
           h == InBlock(InitDataBlock([it EXCEPT !.index = p]), LastIn)
           i == SkipBackward(h)
<1>1. Call(i, Len(entries))
  BY DEF TableSeekToLast
<1>2. closed /\ Stands(it)
  BY <1>1 DEF Call, TableInv, CursorPlace
<1>3. PosOf(index, 1, p) /\ p.cur = n
  <2>1. 1 \in Nat \ {0} /\ Sorted(index) /\ index # <<>> /\ Len(index) = n
    BY <1>2, IndexIs, ClosedIs
  <2>2. QED
    BY <2>1, BlockMoves
<1>4. /\ n # 0 /\ ends[n] = Len(entries) /\ Len(entries) # 0
      /\ PosOf(DataBlock(n), RestartInterval, LastIn(DataBlock(n)))
      /\ EntryAt(n, LastIn(DataBlock(n))) = ends[n]
  <2>1. n \in 1..Len(ends) /\ n # 0 /\ ends[n] = Len(entries)
    BY <1>2, ClosedIs
  <2>2. Len(entries) # 0
    BY <1>2, <2>1, BlocksAre
  <2>3. QED
    BY <1>2, <2>1, <2>2, EdgesAre
<1> HIDE DEF p, n
<1>5. Stands(h) /\ h.data = n /\ h.pos = LastIn(DataBlock(n))
  <2> DEFINE m == LastIn(DataBlock(n))
             g == InitDataBlock([it EXCEPT !.index = p])
  <2>1. /\ g.data = p.cur
        /\ Stands(Placed(g, m)) /\ Placed(g, m).data = p.cur
        /\ p.cur # 0 => Placed(g, m).pos = m
    <3> HIDE DEF m
    <3>1. p.cur # 0 => PosOf(DataBlock(p.cur), RestartInterval, m)
      BY <1>3, <1>4 DEF m
    <3>2. PosOf(index, 1, p)
      BY <1>3, <1>4
    <3>3. QED
      BY <1>2, <3>1, <3>2, Goes
  <2>2. h = Placed(g, LastIn(DataBlock(g.data)))
    BY DEF InBlock, Placed
  <2> HIDE DEF g, h
  <2>3. QED
    BY <1>3, <1>4, <2>1, <2>2
<1> HIDE DEF h
<1>6. Stands(i) /\ EntryAt(i.data, i.pos) = Len(entries)
  BY <1>2, <1>4, <1>5, SkipBackwardIs
<1> HIDE DEF i
<1>7. QED
  BY <1>1, <1>6, CallKeeps

\* A move of the iterator inside its block.
LEMMA MovesInside ==
  ASSUME TableInv, closed, NEW j, Stands(j), j.data # 0, NEW m,
         PosOf(DataBlock(j.data), RestartInterval, m)
  PROVE  Stands(Placed(j, m)) /\ Placed(j, m).data = j.data /\ Placed(j, m).pos = m
<1> DEFINE i == [j EXCEPT !.pos = m]
<1>1. Placed(j, m) = i
  BY DEF Placed
<1>2. j \in [index : Position, data : Nat, pos : Position]
  BY DEF Stands
<1>3. m \in Position
  <2>1. j.data \in 1..Len(ends)
    <3>1. Len(ends) \in Nat /\ j.data \in 0..Len(ends)
      BY StandsIs, ClosedIs
    <3>2. QED
      BY <3>1
  <2>2. Sorted(DataBlock(j.data)) /\ DataBlock(j.data) # <<>> /\ RestartInterval \in Nat \ {0}
    BY <2>1, BlocksAre, IndexAssumption
  <2>3. QED
    BY <2>2, PosTypes
<1>4. i \in [index : Position, data : Nat, pos : Position] /\ i.index = j.index /\ i.data = j.data /\ i.pos = m
  BY <1>2, <1>3
<1> HIDE DEF i
<1>5. Stands(i)
  BY <1>4 DEF Stands
<1>6. QED
  BY <1>1, <1>4, <1>5

LEMMA NextKeeps ==
  ASSUME TableInv, TableNext
  PROVE  TableInv'
<1> DEFINE Move(b) == BlockNext(b, RestartInterval, it.pos)
           n == it.data
           h == InBlock(it, Move)
           i == SkipForward(h)
           shown == IF place = Len(entries) THEN 0 ELSE place + 1
<1>1. Shown # 0 /\ Call(i, shown)
  BY DEF TableNext
<1>2. closed /\ Stands(it) /\ place = Shown
  BY <1>1 DEF Call, TableInv, CursorPlace
<1>3. /\ n \in 0..Len(ends) /\ n # 0 /\ it.pos.cur # 0 /\ Len(ends) \in Nat
      /\ PosOf(DataBlock(n), RestartInterval, it.pos)
      /\ it.pos.cur \in 0..ends[n] - StartOf(n)
      /\ place = StartOf(n) + it.pos.cur
  BY <1>1, <1>2, StandsIs, ClosedIs DEF Shown
<1>4. n \in 1..Len(ends)
  BY <1>3
<1>5. /\ StartOf(n) \in Nat /\ StartOf(n) < ends[n] /\ ends[n] \in 1..Len(entries)
      /\ Sorted(DataBlock(n)) /\ DataBlock(n) # <<>> /\ Len(DataBlock(n)) = ends[n] - StartOf(n)
      /\ RestartInterval \in Nat \ {0} /\ Len(entries) \in Nat
  BY <1>2, <1>4, BlocksAre, IndexAssumption, EntriesAre DEF TableInv
<1> DEFINE c == Move(DataBlock(n)).cur
<1>6. /\ PosOf(DataBlock(n), RestartInterval, Move(DataBlock(n)))
      /\ c = IF it.pos.cur = ends[n] - StartOf(n) THEN 0 ELSE it.pos.cur + 1
  BY <1>3, <1>5, BlockMoves, SMTT(30)
<1>7. Stands(h) /\ h.data = n /\ h.pos = Move(DataBlock(n))
  <2>1. h = Placed(it, Move(DataBlock(n)))
    BY DEF InBlock, Placed
  <2> DEFINE m == Move(DataBlock(n))
  <2> HIDE DEF m
  <2>2. Stands(Placed(it, m)) /\ Placed(it, m).data = n /\ Placed(it, m).pos = m
    BY <1>2, <1>3, <1>6, MovesInside DEF m
  <2>3. QED
    BY <2>1, <2>2 DEF m
<1> HIDE DEF Move, h
<1>8. EntryAt(h.data, h.pos) = IF c = 0 THEN 0 ELSE StartOf(n) + c
  BY <1>3, <1>7 DEF EntryAt
<1>9. /\ Stands(i)
      /\ EntryAt(i.data, i.pos) =
           IF EntryAt(h.data, h.pos) # 0 THEN EntryAt(h.data, h.pos)
           ELSE IF h.data = 0 \/ h.data = Len(ends) THEN 0 ELSE ends[h.data] + 1
  BY <1>2, <1>7, SkipForwardIs
<1> HIDE DEF i, c
<1>10. EntryAt(i.data, i.pos) = shown
  <2>1. CASE it.pos.cur = ends[n] - StartOf(n)
    <3>1. place = ends[n] /\ c = 0
      BY <1>3, <1>5, <1>6, <2>1
    <3>2. n = Len(ends) => place = Len(entries)
      BY <1>2, <3>1, ClosedIs
    <3>3. n # Len(ends) => place # Len(entries)
      <4>1. CASE n # Len(ends)
        <5>1. n < Len(ends) /\ Len(ends) \in 1..Len(ends)
          BY <1>3, <1>4, <4>1
        <5>2. ends[n] < ends[Len(ends)] /\ ends[Len(ends)] = Len(entries)
          BY <1>2, <1>4, <5>1, EntriesAre, ClosedIs DEF TableInv
        <5>3. QED
          BY <1>5, <3>1, <5>2
      <4>2. QED
        BY <4>1
    <3>4. QED
      BY <1>3, <1>7, <1>8, <1>9, <3>1, <3>2, <3>3
  <2>2. CASE it.pos.cur # ends[n] - StartOf(n)
    <3>1. c = it.pos.cur + 1 /\ c # 0
      BY <1>3, <1>5, <1>6, <2>2
    <3>2. StartOf(n) + c = place + 1 /\ place # Len(entries) /\ StartOf(n) + c # 0
      <4>1. it.pos.cur \in Nat /\ it.pos.cur < ends[n] - StartOf(n)
        BY <1>3, <1>5, <2>2
      <4>2. StartOf(n) \in Nat /\ ends[n] \in Nat /\ Len(entries) \in Nat /\ ends[n] <= Len(entries)
        BY <1>5
      <4>3. QED
        BY <1>3, <3>1, <4>1, <4>2, SMTT(30)
    <3>3. QED
      BY <1>8, <1>9, <3>1, <3>2
  <2>3. QED
    BY <2>1, <2>2
<1>11. QED
  BY <1>1, <1>9, <1>10, CallKeeps

LEMMA PrevKeeps ==
  ASSUME TableInv, TablePrev
  PROVE  TableInv'
<1> DEFINE Move(b) == BlockPrev(b, RestartInterval, it.pos)
           n == it.data
           h == InBlock(it, Move)
           i == SkipBackward(h)
<1>1. Shown # 0 /\ Call(i, place - 1)
  BY DEF TablePrev
<1>2. closed /\ Stands(it) /\ place = Shown
  BY <1>1 DEF Call, TableInv, CursorPlace
<1>3. /\ n \in 0..Len(ends) /\ n # 0 /\ it.pos.cur # 0 /\ Len(ends) \in Nat
      /\ PosOf(DataBlock(n), RestartInterval, it.pos)
      /\ it.pos.cur \in 0..ends[n] - StartOf(n)
      /\ place = StartOf(n) + it.pos.cur
  BY <1>1, <1>2, StandsIs, ClosedIs DEF Shown
<1>4. n \in 1..Len(ends)
  BY <1>3
<1>5. /\ StartOf(n) \in Nat /\ ends[n] \in 1..Len(entries)
      /\ Sorted(DataBlock(n)) /\ DataBlock(n) # <<>>
      /\ RestartInterval \in Nat \ {0} /\ Len(entries) \in Nat
  BY <1>2, <1>4, BlocksAre, IndexAssumption, EntriesAre DEF TableInv
<1> DEFINE c == Move(DataBlock(n)).cur
<1>6. PosOf(DataBlock(n), RestartInterval, Move(DataBlock(n))) /\ c = it.pos.cur - 1
  BY <1>3, <1>5, BlockMoves
<1>7. Stands(h) /\ h.data = n /\ h.pos = Move(DataBlock(n))
  <2>1. h = Placed(it, Move(DataBlock(n)))
    BY DEF InBlock, Placed
  <2> DEFINE m == Move(DataBlock(n))
  <2> HIDE DEF m
  <2>2. Stands(Placed(it, m)) /\ Placed(it, m).data = n /\ Placed(it, m).pos = m
    BY <1>2, <1>3, <1>6, MovesInside DEF m
  <2>3. QED
    BY <2>1, <2>2 DEF m
<1> HIDE DEF Move, h
<1>8. EntryAt(h.data, h.pos) = IF c = 0 THEN 0 ELSE StartOf(n) + c
  BY <1>3, <1>7 DEF EntryAt
<1>9. /\ Stands(i)
      /\ EntryAt(i.data, i.pos) =
           IF EntryAt(h.data, h.pos) # 0 THEN EntryAt(h.data, h.pos)
           ELSE IF h.data = 0 THEN 0 ELSE StartOf(h.data)
  BY <1>2, <1>7, SkipBackwardIs
<1> HIDE DEF i, c
<1>10. EntryAt(i.data, i.pos) = place - 1
  <2>1. it.pos.cur \in Nat /\ StartOf(n) + (it.pos.cur - 1) = place - 1
    BY <1>3, <1>5
  <2>2. CASE c = 0
    BY <1>3, <1>5, <1>6, <1>7, <1>8, <1>9, <2>1, <2>2
  <2>3. CASE c # 0
    <3>1. StartOf(n) + c # 0 /\ StartOf(n) + c = place - 1
      BY <1>3, <1>5, <1>6, <2>1, <2>3
    <3>2. QED
      BY <1>8, <1>9, <2>3, <3>1
  <2>4. QED
    BY <2>2, <2>3
<1>11. QED
  BY <1>1, <1>9, <1>10, CallKeeps

-----------------------------------------------------------------------------
LEMMA TableStarts == TableInit => TableInv
<1> SUFFICES ASSUME TableInit
             PROVE  TableInv
  OBVIOUS
<1> USE DEF TableInit
<1>1. EntriesOrdered /\ Len(entries) = 0
  BY EmptySeq DEF EntriesOrdered
<1>2. BlockEnds
  <2>1. Len(index) = 0 /\ Len(ends) = 0 /\ ends \in Seq(1..Len(entries)) /\ index \in Seq(Keys)
    BY EmptySeq
  <2>2. DOMAIN ends = {}
    OBVIOUS
  <2>3. \A m, n \in DOMAIN ends : m < n => ends[m] < ends[n]
    BY <2>2
  <2>4. QED
    BY <2>1, <2>3 DEF BlockEnds
<1>3. IndexKeys
  BY DEF IndexKeys
<1>4. CursorPlace
  BY DEF CursorPlace, Shown, EntryAt
<1>5. QED
  BY <1>1, <1>2, <1>3, <1>4 DEF TableInv

LEMMA TableSteps == TableInv /\ [TableNextState]_tableVars => TableInv'
<1> SUFFICES ASSUME TableInv, [TableNextState]_tableVars
             PROVE  TableInv'
  OBVIOUS
<1>1. ASSUME NEW k \in TableKeys, NEW full \in BOOLEAN, AddKey(k, full)
      PROVE  TableInv'
  BY <1>1, AddKeeps
<1>2. CASE FinishTable
  BY <1>2, FinishKeeps
<1>3. ASSUME NEW k \in TableKeys, TableSeek(k)
      PROVE  TableInv'
  BY <1>3, SeekKeeps
<1>4. CASE TableSeekToFirst
  BY <1>4, FirstKeeps
<1>5. CASE TableSeekToLast
  BY <1>5, LastKeeps
<1>6. CASE TableNext
  BY <1>6, NextKeeps
<1>7. CASE TablePrev
  BY <1>7, PrevKeeps
<1>8. CASE UNCHANGED tableVars
  BY <1>8 DEF tableVars, TableInv, EntriesOrdered, BlockEnds, IndexKeys, CursorPlace, Stands,
              Shown, EntryAt, DataBlock, StartOf
<1>9. QED
  BY <1>1, <1>2, <1>3, <1>4, <1>5, <1>6, <1>7, <1>8 DEF TableNextState

LEMMA TableAlways == TableSpec => []TableInv
<1>1. QED
  BY TableStarts, TableSteps, PTL DEF TableSpec

\* A lookup finds the newest entry of its key that is not too new, whatever
\* keys the index was given (Table::InternalGet).
THEOREM LookupsFindEntries == TableSpec => []GetFindsEntry
<1>1. QED
  BY TableAlways, LookupFinds, PTL

\* The iterator of a table shows, after any moves, the entry where it should
\* be (TwoLevelIterator, Block::Iter).
THEOREM TableShowsEntries == TableSpec => []TableIsACursor
<1>1. TableInv => TableIsACursor
  BY DEF TableInv, CursorPlace, TableIsACursor
<1>2. QED
  BY <1>1, TableAlways, PTL

-----------------------------------------------------------------------------
(* The invariant.                                                          *)

All == UNION {child[c] : c \in Children}
Seen == {e \in All : e.s <= sequence_}
NewestOf(k) == First(Visible(k))

\* Numbers are given once, and what is written beside the iterator is not seen.
Apart(F) == \A e, f \in F : e.s = f.s => e = f
Numbered ==
    /\ child \in [Children -> SUBSET IterEntries]
    /\ written \in StoredSeq..StoredSeq + MaxWrites /\ sequence_ \in 0..StoredSeq
    /\ \A e \in All : e.s <= written
    /\ Apart(All)
    /\ \A c, d \in Children : c # d => child[c] \cap child[d] = {}

\* Between the entry and the positions of the other children there is nothing to see.
Merged ==
    /\ at \in [Children -> IterEntries \cup {Nowhere}]
    /\ current_ \in Children \cup {0} /\ mergeDir \in {"forward", "reverse"}
    /\ \A c \in Children : at[c] \in child[c] \cup {Nowhere}
    /\ current_ # 0 =>
        /\ entry # Nowhere
        /\ \A c \in Children \ {current_} :
            IF mergeDir = "forward"
            THEN /\ at[c] # Nowhere => Precedes(entry, at[c])
                 /\ \A f \in child[c] : f.s <= sequence_ /\ Precedes(entry, f) =>
                        at[c] # Nowhere /\ ~Precedes(f, at[c])
            ELSE /\ at[c] # Nowhere => Precedes(at[c], entry)
                 /\ \A f \in child[c] : f.s <= sequence_ /\ Precedes(f, entry) =>
                        at[c] # Nowhere /\ ~Precedes(at[c], f)

ScanTypes ==
    /\ saved \in IterEntries \cup {Nowhere} /\ flag \in BOOLEAN /\ valid_ \in BOOLEAN
    /\ direction_ \in {"forward", "reverse"} /\ loop \in {"none", "next", "prev", "back"}

\* FindNextUserEntry: the next key of the table is the first that is not
\* before the entry and not hidden.
Ahead == {k \in Table : ~Precedes(NewestOf(k), entry) /\ (flag => k > saved.k)}
InNext ==
    loop = "next" =>
        /\ direction_ = "forward" /\ current_ # 0
        /\ cursor = Least(Ahead)
        /\ flag => \A f \in Seen : ~Precedes(f, entry) => f.k >= saved.k
        /\ \A f \in Seen : Precedes(f, entry) /\ f.k = entry.k => flag /\ f.k <= saved.k

\* The loop in Prev: the key it comes from has not been left.  Once the
\* children have turned round, no child is in front of what may be seen of
\* smaller keys; of others it may, since one can come to stand on an entry
\* behind the current one that was written meanwhile.
Returning ==
    /\ at \in [Children -> IterEntries \cup {Nowhere}]
    /\ current_ \in Children /\ mergeDir \in {"forward", "reverse"}
    /\ \A c \in Children : at[c] \in child[c] \cup {Nowhere}
    /\ entry # Nowhere
    /\ mergeDir = "reverse" => \A c \in Children : \A f \in child[c] :
            f.s <= sequence_ /\ f.k < saved.k => at[c] # Nowhere /\ ~Precedes(at[c], f)
InBack ==
    loop = "back" =>
        /\ Returning
        /\ direction_ = "forward" /\ current_ # 0
        /\ entry.k >= saved.k
        /\ cursor = Greatest({k \in Table : k < saved.k})

\* FindPrevUserEntry: the previous key is that of the saved entry or, while
\* there is none, has its newest entry still to come.
Behind ==
    IF ~flag THEN {k \in Table : k <= saved.k}
    ELSE {k \in Table : current_ # 0 /\ ~Precedes(entry, NewestOf(k))}
InPrev ==
    loop = "prev" =>
        /\ direction_ = "reverse"
        /\ cursor = Greatest(Behind)
        /\ ~flag =>
            /\ saved \in Seen /\ ~saved.del
            /\ current_ # 0 => Precedes(entry, saved)
            /\ \A f \in Seen : Precedes(f, saved) => current_ # 0 /\ ~Precedes(entry, f)

\* Between two calls.
Idle ==
    loop = "none" =>
        /\ valid_ <=> cursor # 0
        /\ valid_ => cursor \in Table
        /\ valid_ /\ direction_ = "forward" => current_ # 0 /\ entry = NewestOf(cursor)
        /\ valid_ /\ direction_ = "reverse" =>
            /\ saved = NewestOf(cursor)
            /\ current_ # 0 => entry.k < cursor
            /\ \A f \in Seen : (current_ # 0 => Precedes(entry, f)) => f.k >= cursor

IInv == Numbered /\ (loop # "back" => Merged) /\ ScanTypes /\ InNext /\ InBack /\ InPrev /\ Idle

-----------------------------------------------------------------------------
(* Least and greatest elements.                                            *)

LEMMA HasGreatest ==
  ASSUME NEW S, S \subseteq Nat, IsFiniteSet(S), S # {}
  PROVE  \E x \in S : \A y \in S : y <= x
<1> DEFINE above(x) == {y \in S : y > x}
           sizes == {Cardinality(above(x)) : x \in S}
<1>1. \A x \in S : IsFiniteSet(above(x)) /\ Cardinality(above(x)) \in Nat
  BY FS_Subset, FS_CardinalityType
<1>2. \A x, y \in S : x < y =>
         above(y) \in SUBSET above(x) /\ y \in above(x) /\ y \notin above(y)
  <2> TAKE x, y \in S
  <2> HAVE x < y
  <2>1. \A z \in S : z > y => z > x
    OBVIOUS
  <2>2. ~(y > y)
    OBVIOUS
  <2>3. QED
    BY <2>1, <2>2
<1> HIDE DEF above
<1>3. sizes \subseteq Nat /\ sizes # {}
  BY <1>1
<1>4. PICK n \in sizes : \A m \in sizes : n <= m
  <2> HIDE DEF sizes
  <2>1. QED
    BY <1>3, LeastOfNaturals
<1>5. PICK x \in S : \A y \in S : Cardinality(above(x)) <= Cardinality(above(y))
  BY <1>4
<1>6. ASSUME NEW y \in S, x < y
      PROVE  FALSE
  <2>1. /\ Cardinality(above(y)) <= Cardinality(above(x))
        /\ Cardinality(above(y)) = Cardinality(above(x)) => above(y) = above(x)
    BY <1>1, <1>2, <1>6, FS_Subset
  <2>2. Cardinality(above(x)) <= Cardinality(above(y))
    BY <1>5
  <2>3. Cardinality(above(x)) \in Nat /\ Cardinality(above(y)) \in Nat
    BY <1>1
  <2>4. above(y) = above(x)
    BY <2>1, <2>2, <2>3
  <2>5. QED
    BY <1>2, <1>6, <2>4
<1>7. QED
  BY <1>6

LEMMA LeastIs ==
  ASSUME NEW S \in SUBSET UserKeys, S # {}
  PROVE  Least(S) \in S /\ \A k \in S : Least(S) <= k
<1>1. \E k \in S : \A j \in S : k <= j
  BY LeastOfNaturals, IteratorAssumption
<1>2. QED
  BY <1>1 DEF Least

LEMMA GreatestIs ==
  ASSUME NEW S \in SUBSET UserKeys, S # {}
  PROVE  Greatest(S) \in S /\ \A k \in S : k <= Greatest(S)
<1>1. IsFiniteSet(S) /\ S \subseteq Nat
  BY FS_Subset, IteratorAssumption
<1>2. \E k \in S : \A j \in S : j <= k
  BY <1>1, HasGreatest
<1>3. \E k \in S : \A j \in S : k >= j
  BY <1>1, <1>2
<1>4. QED
  BY <1>3 DEF Greatest

LEMMA EntryType ==
  ASSUME NEW e \in IterEntries
  PROVE  /\ e.k \in UserKeys /\ e.k \in Nat /\ e.k > 0
         /\ e.s \in Nat /\ e.s > 0 /\ e.s <= StoredSeq + MaxWrites
         /\ e.del \in BOOLEAN /\ e # Nowhere
<1>1. (\A k \in UserKeys : k \in Nat /\ k > 0) /\ StoredSeq \in Nat /\ MaxWrites \in Nat
  BY IteratorAssumption
<1>2. Nowhere.k = 0
  BY DEF Nowhere
<1>3. e.k \in UserKeys /\ e.s \in 1..StoredSeq + MaxWrites /\ e.del \in BOOLEAN
  BY DEF IterEntries
<1>4. e.k \in Nat /\ e.k > 0
  BY <1>1, <1>3
<1>5. e # Nowhere
  BY <1>2, <1>4
<1>6. QED
  BY <1>1, <1>3, <1>4, <1>5

\* The order of entries whose numbers differ is total.
LEMMA Ordered ==
  /\ \A e, f \in IterEntries : ~(Precedes(e, f) /\ Precedes(f, e)) /\ ~Precedes(e, e)
  /\ \A e, f, g \in IterEntries : Precedes(e, f) /\ Precedes(f, g) => Precedes(e, g)
  /\ \A F \in SUBSET IterEntries : Apart(F) =>
        \A e, f \in F : e = f \/ Precedes(e, f) \/ Precedes(f, e)
  /\ \A e, f \in IterEntries : Precedes(e, f) => e.k <= f.k
<1>1. \A e \in IterEntries : e.k \in Nat /\ e.s \in Nat
  BY EntryType
<1>2. QED
  BY <1>1 DEF Precedes, Apart

LEMMA FirstIs ==
  ASSUME NEW F \in SUBSET IterEntries, Apart(F), F # {}
  PROVE  /\ First(F) \in F
         /\ \A f \in F : f = First(F) \/ Precedes(First(F), f)
<1> DEFINE ks == {e.k : e \in F}
<1>1. ks \subseteq Nat /\ ks # {}
  BY EntryType
<1>2. PICK k \in ks : \A j \in ks : k <= j
  <2> HIDE DEF ks
  <2>1. QED
    BY <1>1, LeastOfNaturals
<1> DEFINE G == {e \in F : e.k = k}
           ns == {StoredSeq + MaxWrites - e.s : e \in G}
<1>3. ns \subseteq Nat /\ ns # {}
  BY EntryType, IteratorAssumption
<1>4. PICK n \in ns : \A m \in ns : n <= m
  <2> HIDE DEF ns
  <2>1. QED
    BY <1>3, LeastOfNaturals
<1>5. PICK e \in G : n = StoredSeq + MaxWrites - e.s
  OBVIOUS
<1>6. ASSUME NEW f \in G
      PROVE  f.s <= e.s
  <2>1. e.s \in Nat /\ f.s \in Nat /\ StoredSeq \in Nat /\ MaxWrites \in Nat
    BY EntryType, IteratorAssumption
  <2>2. n <= StoredSeq + MaxWrites - f.s
    BY <1>4
  <2>3. QED
    BY <1>5, <2>1, <2>2
<1>7. ASSUME NEW f \in F \ {e}
      PROVE  Precedes(e, f)
  <2>1. k <= f.k /\ e.k = k /\ f.k \in Nat /\ k \in Nat
    BY <1>1, <1>2
  <2>2. f.k = k => f.s < e.s
    BY <1>6, EntryType DEF Apart
  <2>3. QED
    BY <2>1, <2>2 DEF Precedes
<1>8. \E x \in F : \A f \in F \ {x} : Precedes(x, f)
  BY <1>7
<1>9. QED
  BY <1>8 DEF First

LEMMA LastIs ==
  ASSUME NEW F \in SUBSET IterEntries, Apart(F), F # {}
  PROVE  /\ Last(F) \in F
         /\ \A f \in F : f = Last(F) \/ Precedes(f, Last(F))
<1> DEFINE ks == {e.k : e \in F}
<1>1. ks \subseteq UserKeys /\ ks # {}
  BY EntryType
<1>2. PICK k \in ks : \A j \in ks : j <= k
  <2> HIDE DEF ks
  <2>1. IsFiniteSet(ks) /\ ks \subseteq Nat
    BY <1>1, FS_Subset, IteratorAssumption
  <2>2. QED
    BY <1>1, <2>1, HasGreatest
<1> DEFINE G == {e \in F : e.k = k}
           ns == {e.s : e \in G}
<1>3. ns \subseteq Nat /\ ns # {}
  BY EntryType
<1>4. PICK n \in ns : \A m \in ns : n <= m
  <2> HIDE DEF ns
  <2>1. QED
    BY <1>3, LeastOfNaturals
<1>5. PICK e \in G : n = e.s
  OBVIOUS
<1>6. \A f \in G : e.s <= f.s
  BY <1>4, <1>5
<1>7. ASSUME NEW f \in F \ {e}
      PROVE  Precedes(f, e)
  <2>1. f.k <= k /\ e.k = k /\ f.k \in Nat /\ k \in Nat
    BY <1>1, <1>2, EntryType
  <2>2. f.k = k => e.s < f.s
    BY <1>6, EntryType DEF Apart
  <2>3. QED
    BY <2>1, <2>2 DEF Precedes
<1>8. \E x \in F : \A f \in F \ {x} : Precedes(f, x)
  BY <1>7
<1>9. QED
  BY <1>8 DEF Last

-----------------------------------------------------------------------------
(* The merging iterator.                                                   *)

\* Positions in the children, no two of them at the same entry.
Positions(pos) ==
    /\ pos \in [Children -> IterEntries \cup {Nowhere}]
    /\ \A c \in Children : pos[c] \in child[c] \cup {Nowhere}

LEMMA SmallestIs ==
  ASSUME Numbered, NEW pos, Positions(pos), NEW cur, cur = FindSmallest(pos)
  PROVE  /\ cur \in Children \cup {0}
         /\ cur = 0 => \A c \in Children : pos[c] = Nowhere
         /\ cur # 0 => /\ pos[cur] # Nowhere
                       /\ \A c \in Children \ {cur} : pos[c] # Nowhere => Precedes(pos[cur], pos[c])
<1>1. CASE Standing(pos) = {}
  BY <1>1, IteratorAssumption DEF FindSmallest, Standing
<1>2. CASE Standing(pos) # {}
  <2> DEFINE F == {pos[d] : d \in Standing(pos)}
  <2>1. F \in SUBSET All /\ F \in SUBSET IterEntries /\ F # {}
    <3>1. \A c \in Standing(pos) : pos[c] \in child[c] /\ pos[c] \in IterEntries
      BY DEF Standing, Positions
    <3>2. \A c \in Standing(pos) : c \in Children
      BY DEF Standing
    <3>3. \A c \in Standing(pos) : pos[c] \in All
      BY <3>1, <3>2 DEF All
    <3>4. QED
      BY <1>2, <3>1, <3>3
  <2>2. Apart(F)
    BY <2>1 DEF Apart, Numbered
  <2>3. /\ First(F) \in F
        /\ \A f \in F : f = First(F) \/ Precedes(First(F), f)
    <3> HIDE DEF F
    <3>1. QED
      BY <2>1, <2>2, FirstIs
  <2>4. \E c \in Standing(pos) : pos[c] = First(F)
    BY <2>3
  <2>5. cur \in Standing(pos) /\ pos[cur] = First(F)
    BY <1>2, <2>4 DEF FindSmallest
  <2>6. \A c \in Standing(pos) : c # cur => pos[c] # pos[cur]
    BY <2>5 DEF Standing, Positions, Numbered
  <2>7. QED
    BY <2>3, <2>5, <2>6, IteratorAssumption DEF Standing
<1>3. QED
  BY <1>1, <1>2

LEMMA LargestStanding ==
  ASSUME NEW pos \in [Children -> IterEntries \cup {Nowhere}], NEW cur, cur = FindLargest(pos),
         \A c, d \in Children : c # d /\ pos[c] # Nowhere /\ pos[d] # Nowhere => pos[c].s # pos[d].s
  PROVE  /\ cur \in Children \cup {0}
         /\ cur = 0 => \A c \in Children : pos[c] = Nowhere
         /\ cur # 0 => /\ pos[cur] # Nowhere
                       /\ \A c \in Children \ {cur} : pos[c] # Nowhere => Precedes(pos[c], pos[cur])
<1>1. CASE Standing(pos) = {}
  BY <1>1, IteratorAssumption DEF FindLargest, Standing
<1>2. CASE Standing(pos) # {}
  <2> DEFINE F == {pos[d] : d \in Standing(pos)}
  <2>1. F \in SUBSET IterEntries /\ F # {}
    BY <1>2 DEF Standing
  <2>2. Apart(F)
    BY DEF Apart, Standing
  <2>3. /\ Last(F) \in F
        /\ \A f \in F : f = Last(F) \/ Precedes(f, Last(F))
    <3> HIDE DEF F
    <3>1. QED
      BY <2>1, <2>2, LastIs
  <2>4. \E c \in Standing(pos) : pos[c] = Last(F)
    BY <2>3
  <2>5. cur \in Standing(pos) /\ pos[cur] = Last(F)
    BY <1>2, <2>4 DEF FindLargest
  <2>6. \A c \in Standing(pos) : c # cur => pos[c] # pos[cur]
    BY <2>5 DEF Standing
  <2>7. QED
    BY <2>3, <2>5, <2>6, IteratorAssumption DEF Standing
<1>3. QED
  BY <1>1, <1>2

LEMMA LargestIs ==
  ASSUME Numbered, NEW pos, Positions(pos), NEW cur, cur = FindLargest(pos)
  PROVE  /\ cur \in Children \cup {0}
         /\ cur = 0 => \A c \in Children : pos[c] = Nowhere
         /\ cur # 0 => /\ pos[cur] # Nowhere
                       /\ \A c \in Children \ {cur} : pos[c] # Nowhere => Precedes(pos[c], pos[cur])
<1>1. \A c, d \in Children : c # d /\ pos[c] # Nowhere /\ pos[d] # Nowhere => pos[c].s # pos[d].s
  BY DEF Positions, Numbered, Apart, All
<1>2. QED
  BY <1>1, LargestStanding DEF Positions

\* A move of the children that passes nothing of U, which has whatever is
\* to be seen from the new positions on.
LEMMA ForwardStep ==
  ASSUME Numbered, NEW pos, Positions(pos), Forward(pos), UNCHANGED dataVars,
         NEW U \in SUBSET Seen,
         \A c \in Children : \A f \in child[c] \cap U : pos[c] # Nowhere /\ ~Precedes(f, pos[c]),
         \A c \in Children : pos[c] # Nowhere => \A f \in Seen : Precedes(pos[c], f) => f \in U
  PROVE  /\ Merged'
         /\ current_' = 0 => U = {}
         /\ current_' # 0 => /\ entry' = pos[current_']
                             /\ \A f \in U : ~Precedes(f, entry')
<1> DEFINE cur == current_'
<1>1. at' = pos /\ cur = FindSmallest(pos) /\ mergeDir' = "forward" /\ child' = child /\ sequence_' = sequence_
  BY DEF Forward, dataVars
<1>2. /\ cur \in Children \cup {0}
      /\ cur = 0 => \A c \in Children : pos[c] = Nowhere
      /\ cur # 0 => /\ pos[cur] # Nowhere
                    /\ \A c \in Children \ {cur} : pos[c] # Nowhere => Precedes(pos[cur], pos[c])
  BY <1>1, SmallestIs
<1>3. cur # 0 => entry' = pos[cur]
  BY <1>1 DEF entry
<1>4. \A f \in U : \E c \in Children : f \in child[c]
  BY DEF Seen, All
<1>5. \A c \in Children : /\ pos[c] \in IterEntries \cup {Nowhere}
                          /\ \A f \in child[c] : f \in IterEntries
                          /\ \A f \in child[c] : f.s <= sequence_ => f \in Seen
  BY DEF Positions, Numbered, Seen, All
<1>6. cur = 0 => U = {}
  BY <1>2, <1>4
<1>7. ASSUME cur # 0, NEW f \in U
      PROVE  ~Precedes(f, pos[cur])
  <2>1. PICK c \in Children : f \in child[c]
    BY <1>4
  <2>2. pos[c] # Nowhere /\ ~Precedes(f, pos[c]) /\ pos[cur] # Nowhere
    BY <1>2, <1>7, <2>1
  <2>3. c = cur \/ Precedes(pos[cur], pos[c])
    BY <1>2, <1>7, <2>2
  <2>4. f \in IterEntries /\ pos[c] \in IterEntries /\ pos[cur] \in IterEntries
    BY <1>2, <1>5, <1>7, <2>1, <2>2
  <2>5. QED
    BY <2>2, <2>3, <2>4, Ordered
<1>8. ASSUME cur # 0, NEW c \in Children \ {cur}
      PROVE  /\ pos[c] # Nowhere => Precedes(pos[cur], pos[c])
             /\ \A f \in child[c] : f.s <= sequence_ /\ Precedes(pos[cur], f) =>
                    pos[c] # Nowhere /\ ~Precedes(f, pos[c])
  <2>1. pos[c] # Nowhere => Precedes(pos[cur], pos[c])
    BY <1>2, <1>8
  <2>2. ASSUME NEW f \in child[c], f.s <= sequence_, Precedes(pos[cur], f)
        PROVE  pos[c] # Nowhere /\ ~Precedes(f, pos[c])
    <3>1. f \in U
      BY <1>2, <1>5, <1>8, <2>2
    <3>2. QED
      BY <2>2, <3>1
  <2>3. QED
    BY <2>1, <2>2
<1>9. Merged'
  <2>1. at' \in [Children -> IterEntries \cup {Nowhere}] /\ current_' \in Children \cup {0}
        /\ mergeDir' \in {"forward", "reverse"}
        /\ \A c \in Children : at'[c] \in child'[c] \cup {Nowhere}
    BY <1>1, <1>2 DEF Positions
  <2>2. current_' # 0 => entry' # Nowhere
    BY <1>2, <1>3
  <2>3. ASSUME current_' # 0, NEW c \in Children \ {current_'}
        PROVE  /\ at'[c] # Nowhere => Precedes(entry', at'[c])
               /\ \A f \in child'[c] : f.s <= sequence_' /\ Precedes(entry', f) =>
                        at'[c] # Nowhere /\ ~Precedes(f, at'[c])
    BY <1>1, <1>3, <1>8, <2>3
  <2>4. mergeDir' = "forward"
    BY <1>1
  <2>5. QED
    BY <2>1, <2>2, <2>3, <2>4 DEF Merged
<1>10. QED
  BY <1>3, <1>6, <1>7, <1>9

LEMMA AfterIs ==
  ASSUME Numbered, NEW c \in Children, NEW e
  PROVE  /\ After(c, e) \in child[c] \cup {Nowhere}
         /\ After(c, e) # Nowhere => Precedes(e, After(c, e))
         /\ \A f \in child[c] : Precedes(e, f) => After(c, e) # Nowhere /\ ~Precedes(f, After(c, e))
<1> DEFINE F == {f \in child[c] : Precedes(e, f)}
<1>1. F \in SUBSET IterEntries /\ Apart(F)
  BY DEF Numbered, Apart, All
<1>2. After(c, e) = First(F)
  BY DEF After
<1>3. CASE F = {}
  BY <1>2, <1>3 DEF First
<1>4. CASE F # {}
  <2>1. First(F) \in F /\ \A f \in F : f = First(F) \/ Precedes(First(F), f)
    <3> HIDE DEF F
    <3>1. QED
      BY <1>1, <1>4, FirstIs
  <2>2. First(F) \in IterEntries /\ First(F) # Nowhere
    BY <1>1, <2>1, EntryType
  <2>3. \A f \in F : ~Precedes(f, First(F))
    BY <1>1, <2>1, <2>2, Ordered
  <2>4. QED
    BY <1>2, <2>1, <2>2, <2>3
<1>5. QED
  BY <1>3, <1>4

\* MergeNext moves on, and passes nothing that is to be seen.
LEMMA MergeNextMoves ==
  ASSUME Numbered, Merged, current_ # 0, MergeNext, UNCHANGED dataVars
  PROVE  /\ Merged'
         /\ current_' = 0 => \A f \in Seen : ~Precedes(entry, f)
         /\ current_' # 0 => /\ Precedes(entry, entry')
                             /\ \A f \in Seen : Precedes(entry, f) => ~Precedes(f, entry')
<1> DEFINE pos == [c \in Children |-> IF c = current_ \/ mergeDir = "reverse" THEN After(c, entry) ELSE at[c]]
           U == {f \in Seen : Precedes(entry, f)}
<1>1. Forward(pos)
  BY DEF MergeNext
<1>2. entry \in IterEntries
  BY DEF Merged, entry
<1>3. ASSUME NEW c \in Children
      PROVE  /\ pos[c] \in child[c] \cup {Nowhere}
             /\ pos[c] # Nowhere => Precedes(entry, pos[c])
             /\ \A f \in child[c] : f.s <= sequence_ /\ Precedes(entry, f) =>
                    pos[c] # Nowhere /\ ~Precedes(f, pos[c])
  <2>1. CASE c = current_ \/ mergeDir = "reverse"
    BY <2>1, AfterIs
  <2>2. CASE c # current_ /\ mergeDir = "forward"
    BY <2>2 DEF Merged
  <2>3. QED
    BY <2>1, <2>2 DEF Merged
<1>4. \A c \in Children : child[c] \in SUBSET IterEntries
  BY DEF Numbered
<1>5. \A f \in Seen : f \in IterEntries
  BY <1>4 DEF Seen, All
<1>6. pos = [c \in Children |-> pos[c]]
  OBVIOUS
<1> HIDE DEF pos
<1>7. Positions(pos)
  BY <1>3, <1>4, <1>6 DEF Positions
<1>8. \A c \in Children : \A f \in child[c] \cap U : pos[c] # Nowhere /\ ~Precedes(f, pos[c])
  BY <1>3 DEF Seen
<1>9. \A c \in Children : pos[c] # Nowhere => \A f \in Seen : Precedes(pos[c], f) => f \in U
  <2> SUFFICES ASSUME NEW c \in Children, pos[c] # Nowhere, NEW f \in Seen, Precedes(pos[c], f)
               PROVE  Precedes(entry, f)
    OBVIOUS
  <2>1. pos[c] \in IterEntries /\ Precedes(entry, pos[c])
    BY <1>3, <1>4
  <2>2. QED
    BY <1>2, <1>5, <2>1, Ordered
<1>10. U \in SUBSET Seen
  OBVIOUS
<1> HIDE DEF U
<1>11. /\ Merged'
       /\ current_' = 0 => U = {}
       /\ current_' # 0 => /\ entry' = pos[current_']
                           /\ \A f \in U : ~Precedes(f, entry')
  BY <1>1, <1>7, <1>8, <1>9, <1>10, ForwardStep
<1>12. current_' # 0 => Precedes(entry, entry')
  <2> SUFFICES ASSUME current_' # 0
               PROVE  Precedes(entry, entry')
    OBVIOUS
  <2>1. entry' # Nowhere /\ current_' \in Children
    BY <1>11 DEF Merged
  <2>2. QED
    BY <1>3, <1>11, <2>1
<1>13. QED
  BY <1>11, <1>12 DEF U

\* A move of the children that passes nothing of U, which has whatever is
\* to be seen from the new positions on.
LEMMA ReverseStep ==
  ASSUME Numbered, NEW pos, Positions(pos), Reverse(pos), UNCHANGED dataVars,
         NEW U \in SUBSET Seen,
         \A c \in Children : \A f \in child[c] \cap U : pos[c] # Nowhere /\ ~Precedes(pos[c], f),
         \A c \in Children : pos[c] # Nowhere => \A f \in Seen : Precedes(f, pos[c]) => f \in U
  PROVE  /\ Merged'
         /\ current_' = 0 => U = {}
         /\ current_' # 0 => /\ entry' = pos[current_']
                             /\ \A f \in U : ~Precedes(entry', f)
<1> DEFINE cur == current_'
<1>1. at' = pos /\ cur = FindLargest(pos) /\ mergeDir' = "reverse" /\ child' = child /\ sequence_' = sequence_
  BY DEF Reverse, dataVars
<1>2. /\ cur \in Children \cup {0}
      /\ cur = 0 => \A c \in Children : pos[c] = Nowhere
      /\ cur # 0 => /\ pos[cur] # Nowhere
                    /\ \A c \in Children \ {cur} : pos[c] # Nowhere => Precedes(pos[c], pos[cur])
  BY <1>1, LargestIs
<1>3. cur # 0 => entry' = pos[cur]
  BY <1>1 DEF entry
<1>4. \A f \in U : \E c \in Children : f \in child[c]
  BY DEF Seen, All
<1>5. \A c \in Children : /\ pos[c] \in IterEntries \cup {Nowhere}
                          /\ \A f \in child[c] : f \in IterEntries
                          /\ \A f \in child[c] : f.s <= sequence_ => f \in Seen
  BY DEF Positions, Numbered, Seen, All
<1>6. cur = 0 => U = {}
  BY <1>2, <1>4
<1>7. ASSUME cur # 0, NEW f \in U
      PROVE  ~Precedes(pos[cur], f)
  <2>1. PICK c \in Children : f \in child[c]
    BY <1>4
  <2>2. pos[c] # Nowhere /\ ~Precedes(pos[c], f) /\ pos[cur] # Nowhere
    BY <1>2, <1>7, <2>1
  <2>3. c = cur \/ Precedes(pos[c], pos[cur])
    BY <1>2, <1>7, <2>2
  <2>4. f \in IterEntries /\ pos[c] \in IterEntries /\ pos[cur] \in IterEntries
    BY <1>2, <1>5, <1>7, <2>1, <2>2
  <2>5. QED
    BY <2>2, <2>3, <2>4, Ordered
<1>8. ASSUME cur # 0, NEW c \in Children \ {cur}
      PROVE  /\ pos[c] # Nowhere => Precedes(pos[c], pos[cur])
             /\ \A f \in child[c] : f.s <= sequence_ /\ Precedes(f, pos[cur]) =>
                    pos[c] # Nowhere /\ ~Precedes(pos[c], f)
  <2>1. pos[c] # Nowhere => Precedes(pos[c], pos[cur])
    BY <1>2, <1>8
  <2>2. ASSUME NEW f \in child[c], f.s <= sequence_, Precedes(f, pos[cur])
        PROVE  pos[c] # Nowhere /\ ~Precedes(pos[c], f)
    <3>1. f \in U
      BY <1>2, <1>5, <1>8, <2>2
    <3>2. QED
      BY <2>2, <3>1
  <2>3. QED
    BY <2>1, <2>2
<1>9. Merged'
  <2>1. at' \in [Children -> IterEntries \cup {Nowhere}] /\ current_' \in Children \cup {0}
        /\ mergeDir' \in {"forward", "reverse"}
        /\ \A c \in Children : at'[c] \in child'[c] \cup {Nowhere}
    BY <1>1, <1>2 DEF Positions
  <2>2. current_' # 0 => entry' # Nowhere
    BY <1>2, <1>3
  <2>3. ASSUME current_' # 0, NEW c \in Children \ {current_'}
        PROVE  /\ at'[c] # Nowhere => Precedes(at'[c], entry')
               /\ \A f \in child'[c] : f.s <= sequence_' /\ Precedes(f, entry') =>
                        at'[c] # Nowhere /\ ~Precedes(at'[c], f)
    BY <1>1, <1>3, <1>8, <2>3
  <2>4. mergeDir' = "reverse"
    BY <1>1
  <2>5. QED
    BY <2>1, <2>2, <2>3, <2>4 DEF Merged
<1>10. QED
  BY <1>3, <1>6, <1>7, <1>9

LEMMA PriorIs ==
  ASSUME Numbered, NEW c \in Children, NEW e
  PROVE  /\ Prior(c, e) \in child[c] \cup {Nowhere}
         /\ Prior(c, e) # Nowhere => Precedes(Prior(c, e), e)
         /\ \A f \in child[c] : Precedes(f, e) => Prior(c, e) # Nowhere /\ ~Precedes(Prior(c, e), f)
<1> DEFINE F == {f \in child[c] : Precedes(f, e)}
<1>1. F \in SUBSET IterEntries /\ Apart(F)
  BY DEF Numbered, Apart, All
<1>2. Prior(c, e) = Last(F)
  BY DEF Prior
<1>3. CASE F = {}
  BY <1>2, <1>3 DEF Last
<1>4. CASE F # {}
  <2>1. Last(F) \in F /\ \A f \in F : f = Last(F) \/ Precedes(f, Last(F))
    <3> HIDE DEF F
    <3>1. QED
      BY <1>1, <1>4, LastIs
  <2>2. Last(F) \in IterEntries /\ Last(F) # Nowhere
    BY <1>1, <2>1, EntryType
  <2>3. \A f \in F : ~Precedes(Last(F), f)
    BY <1>1, <2>1, <2>2, Ordered
  <2>4. QED
    BY <1>2, <2>1, <2>2, <2>3
<1>5. QED
  BY <1>3, <1>4

\* MergePrev moves on, and passes nothing that is to be seen.
LEMMA MergePrevMoves ==
  ASSUME Numbered, Merged, current_ # 0, MergePrev, UNCHANGED dataVars
  PROVE  /\ Merged'
         /\ current_' = 0 => \A f \in Seen : ~Precedes(f, entry)
         /\ current_' # 0 => /\ Precedes(entry', entry)
                             /\ \A f \in Seen : Precedes(f, entry) => ~Precedes(entry', f)
<1> DEFINE pos == [c \in Children |-> IF c = current_ \/ mergeDir = "forward" THEN Prior(c, entry) ELSE at[c]]
           U == {f \in Seen : Precedes(f, entry)}
<1>1. Reverse(pos)
  BY DEF MergePrev
<1>2. entry \in IterEntries
  BY DEF Merged, entry
<1>3. ASSUME NEW c \in Children
      PROVE  /\ pos[c] \in child[c] \cup {Nowhere}
             /\ pos[c] # Nowhere => Precedes(pos[c], entry)
             /\ \A f \in child[c] : f.s <= sequence_ /\ Precedes(f, entry) =>
                    pos[c] # Nowhere /\ ~Precedes(pos[c], f)
  <2>1. CASE c = current_ \/ mergeDir = "forward"
    BY <2>1, PriorIs
  <2>2. CASE c # current_ /\ mergeDir = "reverse"
    BY <2>2 DEF Merged
  <2>3. QED
    BY <2>1, <2>2 DEF Merged
<1>4. \A c \in Children : child[c] \in SUBSET IterEntries
  BY DEF Numbered
<1>5. \A f \in Seen : f \in IterEntries
  BY <1>4 DEF Seen, All
<1>6. pos = [c \in Children |-> pos[c]]
  OBVIOUS
<1> HIDE DEF pos
<1>7. Positions(pos)
  BY <1>3, <1>4, <1>6 DEF Positions
<1>8. \A c \in Children : \A f \in child[c] \cap U : pos[c] # Nowhere /\ ~Precedes(pos[c], f)
  BY <1>3 DEF Seen
<1>9. \A c \in Children : pos[c] # Nowhere => \A f \in Seen : Precedes(f, pos[c]) => f \in U
  <2> SUFFICES ASSUME NEW c \in Children, pos[c] # Nowhere, NEW f \in Seen, Precedes(f, pos[c])
               PROVE  Precedes(f, entry)
    OBVIOUS
  <2>1. pos[c] \in IterEntries /\ Precedes(pos[c], entry)
    BY <1>3, <1>4
  <2>2. QED
    BY <1>2, <1>5, <2>1, Ordered
<1>10. U \in SUBSET Seen
  OBVIOUS
<1> HIDE DEF U
<1>11. /\ Merged'
       /\ current_' = 0 => U = {}
       /\ current_' # 0 => /\ entry' = pos[current_']
                           /\ \A f \in U : ~Precedes(entry', f)
  BY <1>1, <1>7, <1>8, <1>9, <1>10, ReverseStep
<1>12. current_' # 0 => Precedes(entry', entry)
  <2> SUFFICES ASSUME current_' # 0
               PROVE  Precedes(entry', entry)
    OBVIOUS
  <2>1. entry' # Nowhere /\ current_' \in Children
    BY <1>11 DEF Merged
  <2>2. QED
    BY <1>3, <1>11, <2>1
<1>13. QED
  BY <1>11, <1>12 DEF U

\* The iterators of the children at their ends, or at the first entry that is not
\* before e.
LEMMA MergeFirstMoves ==
  ASSUME Numbered, MergeFirst, UNCHANGED dataVars
  PROVE  /\ Merged'
         /\ current_' = 0 => Seen = {}
         /\ current_' # 0 => \A f \in Seen : ~Precedes(f, entry')
<1> DEFINE pos == [c \in Children |-> First(child[c])]
<1>1. Forward(pos)
  BY DEF MergeFirst
<1>2. ASSUME NEW c \in Children
      PROVE  /\ pos[c] \in child[c] \cup {Nowhere}
             /\ \A f \in child[c] : pos[c] # Nowhere /\ ~Precedes(f, pos[c])
  <2>1. child[c] \in SUBSET IterEntries /\ Apart(child[c])
    BY DEF Numbered, Apart, All
  <2>2. CASE child[c] = {}
    BY <2>2 DEF First
  <2>3. CASE child[c] # {}
    <3>1. First(child[c]) \in child[c] /\ \A f \in child[c] : f = First(child[c]) \/ Precedes(First(child[c]), f)
      BY <2>1, <2>3, FirstIs
    <3>2. First(child[c]) # Nowhere
      BY <2>1, <3>1, EntryType
    <3>3. QED
      BY <2>1, <3>1, <3>2, Ordered
  <2>4. QED
    BY <2>2, <2>3
<1>3. \A c \in Children : child[c] \in SUBSET IterEntries
  BY DEF Numbered
<1>4. pos = [c \in Children |-> pos[c]]
  OBVIOUS
<1> HIDE DEF pos
<1>5. Positions(pos)
  BY <1>2, <1>3, <1>4 DEF Positions
<1>6. Seen \in SUBSET Seen
  OBVIOUS
<1>7. \A c \in Children : \A f \in child[c] \cap Seen : pos[c] # Nowhere /\ ~Precedes(f, pos[c])
  BY <1>2
<1>8. \A c \in Children : pos[c] # Nowhere => \A f \in Seen : Precedes(pos[c], f) => f \in Seen
  OBVIOUS
<1>9. QED
  BY <1>1, <1>5, <1>6, <1>7, <1>8, ForwardStep

LEMMA MergeLastMoves ==
  ASSUME Numbered, MergeLast, UNCHANGED dataVars
  PROVE  /\ Merged'
         /\ current_' = 0 => Seen = {}
         /\ current_' # 0 => \A f \in Seen : ~Precedes(entry', f)
<1> DEFINE pos == [c \in Children |-> Last(child[c])]
<1>1. Reverse(pos)
  BY DEF MergeLast
<1>2. ASSUME NEW c \in Children
      PROVE  /\ pos[c] \in child[c] \cup {Nowhere}
             /\ \A f \in child[c] : pos[c] # Nowhere /\ ~Precedes(pos[c], f)
  <2>1. child[c] \in SUBSET IterEntries /\ Apart(child[c])
    BY DEF Numbered, Apart, All
  <2>2. CASE child[c] = {}
    BY <2>2 DEF Last
  <2>3. CASE child[c] # {}
    <3>1. Last(child[c]) \in child[c] /\ \A f \in child[c] : f = Last(child[c]) \/ Precedes(f, Last(child[c]))
      BY <2>1, <2>3, LastIs
    <3>2. Last(child[c]) # Nowhere
      BY <2>1, <3>1, EntryType
    <3>3. QED
      BY <2>1, <3>1, <3>2, Ordered
  <2>4. QED
    BY <2>2, <2>3
<1>3. \A c \in Children : child[c] \in SUBSET IterEntries
  BY DEF Numbered
<1>4. pos = [c \in Children |-> pos[c]]
  OBVIOUS
<1> HIDE DEF pos
<1>5. Positions(pos)
  BY <1>2, <1>3, <1>4 DEF Positions
<1>6. Seen \in SUBSET Seen
  OBVIOUS
<1>7. \A c \in Children : \A f \in child[c] \cap Seen : pos[c] # Nowhere /\ ~Precedes(pos[c], f)
  BY <1>2
<1>8. \A c \in Children : pos[c] # Nowhere => \A f \in Seen : Precedes(f, pos[c]) => f \in Seen
  OBVIOUS
<1>9. QED
  BY <1>1, <1>5, <1>6, <1>7, <1>8, ReverseStep

LEMMA MergeSeekMoves ==
  ASSUME Numbered, NEW t \in UserKeys, MergeSeek([k |-> t, s |-> sequence_]), UNCHANGED dataVars
  PROVE  /\ Merged'
         /\ current_' = 0 => \A f \in Seen : f.k < t
         /\ current_' # 0 => /\ entry'.k >= t
                             /\ \A f \in Seen : f.k >= t => ~Precedes(f, entry')
<1> DEFINE e == [k |-> t, s |-> sequence_]
           F(c) == {f \in child[c] : ~Precedes(f, e)}
           pos == [c \in Children |-> First(F(c))]
           U == {f \in Seen : f.k >= t}
<1>1. Forward(pos)
  BY DEF MergeSeek
<1>2. \A c \in Children : child[c] \in SUBSET IterEntries /\ Apart(child[c])
  BY DEF Numbered, Apart, All
<1>3. /\ e.k = t /\ e.s = sequence_ /\ t \in Nat /\ sequence_ \in Nat
      /\ \A f \in IterEntries : f.k \in Nat /\ f.s \in Nat
  BY EntryType, IteratorAssumption DEF Numbered
<1> HIDE DEF e
<1>4. \A f \in IterEntries : /\ f.s <= sequence_ => (f.k >= t <=> ~Precedes(f, e))
                             /\ ~Precedes(f, e) => f.k >= t
  BY <1>3 DEF Precedes
<1>5. ASSUME NEW c \in Children
      PROVE  /\ pos[c] \in F(c) \cup {Nowhere}
             /\ \A f \in F(c) : pos[c] # Nowhere /\ ~Precedes(f, pos[c])
  <2>1. F(c) \in SUBSET IterEntries /\ Apart(F(c)) /\ pos[c] = First(F(c))
    BY <1>2 DEF Apart
  <2> HIDE DEF F, pos
  <2>2. CASE F(c) = {}
    BY <2>1, <2>2 DEF First
  <2>3. CASE F(c) # {}
    <3>1. First(F(c)) \in F(c) /\ \A f \in F(c) : f = First(F(c)) \/ Precedes(First(F(c)), f)
      BY <2>1, <2>3, FirstIs
    <3>2. First(F(c)) # Nowhere
      BY <2>1, <3>1, EntryType
    <3>3. QED
      BY <2>1, <3>1, <3>2, Ordered
  <2>4. QED
    BY <2>2, <2>3
<1>6. pos = [c \in Children |-> pos[c]]
  OBVIOUS
<1> HIDE DEF pos
<1>7. Positions(pos)
  BY <1>2, <1>5, <1>6 DEF Positions
<1>8. U \in SUBSET Seen
  OBVIOUS
<1>9. \A f \in Seen : f \in IterEntries /\ f.s <= sequence_
  BY <1>2 DEF Seen, All
<1>10. \A c \in Children : \A f \in child[c] \cap U : pos[c] # Nowhere /\ ~Precedes(f, pos[c])
  BY <1>4, <1>5, <1>9
<1>11. \A c \in Children : pos[c] # Nowhere => pos[c] \in IterEntries /\ pos[c].k >= t
  BY <1>2, <1>4, <1>5
<1>12. \A c \in Children : pos[c] # Nowhere => \A f \in Seen : Precedes(pos[c], f) => f \in U
  <2> SUFFICES ASSUME NEW c \in Children, pos[c] # Nowhere, NEW f \in Seen, Precedes(pos[c], f)
               PROVE  f.k >= t
    OBVIOUS
  <2>1. pos[c].k <= f.k
    BY <1>9, <1>11, Ordered
  <2>2. QED
    BY <1>3, <1>9, <1>11, <2>1
<1> HIDE DEF U, F
<1>13. /\ Merged'
       /\ current_' = 0 => U = {}
       /\ current_' # 0 => /\ entry' = pos[current_']
                           /\ \A f \in U : ~Precedes(f, entry')
  BY <1>1, <1>7, <1>8, <1>10, <1>12, ForwardStep
<1>14. current_' # 0 => entry'.k >= t
  <2> SUFFICES ASSUME current_' # 0
               PROVE  entry'.k >= t
    OBVIOUS
  <2>1. entry' # Nowhere /\ current_' \in Children
    BY <1>13 DEF Merged
  <2>2. QED
    BY <1>11, <1>13, <2>1
<1>15. \A f \in Seen : f.k \in Nat
  BY <1>3, <1>9
<1>16. QED
  BY <1>3, <1>13, <1>14, <1>15 DEF U

-----------------------------------------------------------------------------
(* The table of the snapshot.                                              *)

LEMMA SeenTypes ==
  ASSUME Numbered
  PROVE  /\ Seen \in SUBSET IterEntries /\ Apart(Seen)
         /\ \A f \in Seen : f.k \in Nat /\ f.s \in Nat
<1>1. Seen \in SUBSET IterEntries /\ Apart(Seen)
  BY DEF Numbered, Seen, All, Apart
<1>2. QED
  BY <1>1, EntryType

LEMMA NewestOfIs ==
  ASSUME Numbered, NEW k \in Table
  PROVE  /\ k \in UserKeys /\ k \in Nat /\ k > 0
         /\ NewestOf(k) \in Seen /\ NewestOf(k) \in IterEntries /\ NewestOf(k).k = k /\ ~NewestOf(k).del
         /\ \A f \in Seen : f.k = k => ~Precedes(f, NewestOf(k))
         /\ \A f \in Seen : f.k = k => f = NewestOf(k) \/ Precedes(NewestOf(k), f)
<1>1. Visible(k) = {e \in Seen : e.k = k}
  BY DEF Visible, Seen, All
<1>2. Visible(k) \in SUBSET IterEntries /\ Apart(Visible(k))
  BY <1>1, SeenTypes DEF Apart
<1>3. Visible(k) # {} /\ ~NewestOf(k).del /\ k \in UserKeys
  BY DEF Table, Shows, NewestOf
<1>4. /\ NewestOf(k) \in Visible(k)
      /\ \A f \in Visible(k) : f = NewestOf(k) \/ Precedes(NewestOf(k), f)
  BY <1>2, <1>3, FirstIs DEF NewestOf
<1>5. k \in Nat /\ k > 0
  BY <1>3, IteratorAssumption
<1>6. QED
  BY <1>1, <1>2, <1>3, <1>4, <1>5, Ordered

LEMMA IsNewest ==
  ASSUME Numbered, NEW e \in Seen, ~e.del,
         \A f \in Seen : f.k = e.k => ~Precedes(f, e)
  PROVE  e.k \in Table /\ NewestOf(e.k) = e
<1>1. Visible(e.k) = {f \in Seen : f.k = e.k}
  BY DEF Visible, Seen, All
<1>2. Visible(e.k) \in SUBSET IterEntries /\ Apart(Visible(e.k)) /\ e \in Visible(e.k)
  BY <1>1, SeenTypes DEF Apart
<1>3. /\ NewestOf(e.k) \in Visible(e.k)
      /\ \A f \in Visible(e.k) : f = NewestOf(e.k) \/ Precedes(NewestOf(e.k), f)
  BY <1>2, FirstIs DEF NewestOf
<1>4. NewestOf(e.k) = e
  BY <1>1, <1>2, <1>3
<1>5. e.k \in UserKeys
  BY <1>2, EntryType
<1>6. QED
  BY <1>2, <1>4, <1>5 DEF Table, Shows, NewestOf

LEMMA TableStays ==
  ASSUME UNCHANGED dataVars
  PROVE  /\ Seen' = Seen /\ Table' = Table /\ \A k : NewestOf(k)' = NewestOf(k)
         /\ Numbered => Numbered'
BY DEF dataVars, Seen, All, Table, Shows, Visible, NewestOf, Numbered

LEMMA LeastOf ==
  ASSUME NEW S \in SUBSET UserKeys, NEW k \in S, \A j \in S : k <= j
  PROVE  Least(S) = k
<1>1. Least(S) \in S /\ Least(S) <= k /\ k <= Least(S)
  BY LeastIs
<1>2. k \in Nat /\ Least(S) \in Nat
  BY <1>1, IteratorAssumption
<1>3. QED
  BY <1>1, <1>2

LEMMA GreatestOf ==
  ASSUME NEW S \in SUBSET UserKeys, NEW k \in S, \A j \in S : j <= k
  PROVE  Greatest(S) = k
<1>1. Greatest(S) \in S /\ k <= Greatest(S) /\ Greatest(S) <= k
  BY GreatestIs
<1>2. k \in Nat /\ Greatest(S) \in Nat
  BY <1>1, IteratorAssumption
<1>3. QED
  BY <1>1, <1>2

LEMMA NothingLeft ==
  Least({}) = 0 /\ Greatest({}) = 0 /\ Table \in SUBSET UserKeys
BY DEF Least, Greatest, Table

\* A call that ends where nothing is left.
LEMMA EndsNowhere ==
  ASSUME Numbered', Merged', ScanTypes, Ends(FALSE, Nowhere), direction_' \in {"forward", "reverse"}, cursor' = 0
  PROVE  IInv'
BY DEF IInv, ScanTypes, Ends, InNext, InBack, InPrev, Idle

-----------------------------------------------------------------------------
(* The steps of the iterator.                                              *)

\* Seek and SeekToFirst come to where the keys from t on begin.
LEMMA FindFirstLands ==
  ASSUME Numbered, ScanTypes, Merged', FindFirst, NEW t \in Nat,
         current_' = 0 => \A f \in Seen : f.k < t,
         current_' # 0 => entry'.k >= t /\ \A f \in Seen : f.k >= t => ~Precedes(f, entry'),
         cursor' = Least({k \in Table : k >= t})
  PROVE  IInv'
<1>1. UNCHANGED dataVars /\ direction_' = "forward"
  BY DEF FindFirst
<1>2. Numbered' /\ Seen' = Seen /\ Table' = Table /\ \A k : NewestOf(k)' = NewestOf(k)
  BY <1>1, TableStays
<1>3. \A f \in Seen : f.k \in Nat
  BY SeenTypes
<1>4. CASE current_' = 0
  <2>1. {k \in Table : k >= t} = {}
    <3> SUFFICES ASSUME NEW k \in Table, k >= t
                 PROVE  FALSE
      OBVIOUS
    <3>1. NewestOf(k) \in Seen /\ NewestOf(k).k = k
      BY NewestOfIs
    <3>2. QED
      BY <1>3, <1>4, <3>1
  <2>2. cursor' = 0
    BY <2>1, NothingLeft
  <2>3. Ends(FALSE, Nowhere)
    BY <1>4 DEF FindFirst
  <2>4. QED
    BY <1>1, <1>2, <2>2, <2>3, EndsNowhere
<1>5. CASE current_' # 0
  <2>1. loop' = "next" /\ flag' = FALSE /\ valid_' = valid_ /\ saved' = Nowhere
    BY <1>5 DEF FindFirst, Enters
  <2>2. entry' \in IterEntries /\ entry'.k \in Nat
    <3>1. entry' \in IterEntries
      BY <1>5 DEF Merged, entry
    <3>2. QED
      BY <3>1, EntryType
  <2>3. Ahead' = {k \in Table : ~Precedes(NewestOf(k), entry')}
    BY <1>2, <2>1 DEF Ahead
  <2>4. ASSUME NEW k \in Table
        PROVE  ~Precedes(NewestOf(k), entry') <=> k >= t
    <3>1. NewestOf(k) \in Seen /\ NewestOf(k).k = k /\ k \in Nat
      BY NewestOfIs
    <3>2. k >= t => ~Precedes(NewestOf(k), entry')
      BY <1>5, <3>1
    <3>3. ~Precedes(NewestOf(k), entry') => ~(k < entry'.k)
      BY <3>1 DEF Precedes
    <3>4. QED
      BY <1>5, <2>2, <3>1, <3>2, <3>3
  <2>5. Ahead' = {k \in Table : k >= t}
    BY <2>3, <2>4
  <2>6. ASSUME NEW f \in Seen, Precedes(f, entry'), f.k = entry'.k
        PROVE  FALSE
    BY <1>5, <2>6
  <2>7. InNext'
    BY <1>1, <1>2, <1>5, <2>1, <2>5, <2>6 DEF InNext
  <2>8. ScanTypes'
    BY <1>1, <2>1 DEF ScanTypes
  <2>9. QED
    BY <1>2, <2>1, <2>7, <2>8 DEF IInv, InBack, InPrev, Idle
<1>6. QED
  BY <1>4, <1>5

LEMMA IterSeekKeeps ==
  ASSUME IInv, NEW t \in UserKeys, Seek(t)
  PROVE  IInv'
<1>1. Numbered /\ ScanTypes /\ FindFirst /\ t \in Nat
  BY IteratorAssumption DEF IInv, Seek
<1>2. MergeSeek([k |-> t, s |-> sequence_]) /\ cursor' = Least({k \in Table : k >= t})
  BY DEF Seek
<1>3. UNCHANGED dataVars
  BY <1>1 DEF FindFirst
<1>4. /\ Merged'
      /\ current_' = 0 => \A f \in Seen : f.k < t
      /\ current_' # 0 => /\ entry'.k >= t
                          /\ \A f \in Seen : f.k >= t => ~Precedes(f, entry')
  BY <1>1, <1>2, <1>3, MergeSeekMoves
<1>5. QED
  BY <1>1, <1>2, <1>4, FindFirstLands

LEMMA SeekToFirstKeeps ==
  ASSUME IInv, SeekToFirst
  PROVE  IInv'
<1>1. Numbered /\ ScanTypes /\ FindFirst /\ MergeFirst /\ cursor' = Least(Table)
  BY DEF IInv, SeekToFirst
<1>2. UNCHANGED dataVars
  BY <1>1 DEF FindFirst
<1>3. /\ Merged'
      /\ current_' = 0 => Seen = {}
      /\ current_' # 0 => \A f \in Seen : ~Precedes(f, entry')
  BY <1>1, <1>2, MergeFirstMoves
<1>4. Table = {k \in Table : k >= 0}
  BY <1>1, NewestOfIs
<1>5. current_' # 0 => entry'.k >= 0
  <2> SUFFICES ASSUME current_' # 0
               PROVE  entry'.k >= 0
    OBVIOUS
  <2>1. entry' \in IterEntries
    BY <1>3 DEF Merged, entry
  <2>2. QED
    BY <2>1, EntryType
<1>6. QED
  BY <1>1, <1>3, <1>4, <1>5, FindFirstLands

LEMMA SeekToLastKeeps ==
  ASSUME IInv, SeekToLast
  PROVE  IInv'
<1>1. /\ Numbered /\ ScanTypes /\ MergeLast /\ UNCHANGED dataVars /\ cursor' = Greatest(Table)
      /\ direction_' = "reverse" /\ loop' = "prev" /\ flag' = TRUE /\ valid_' = valid_ /\ saved' = Nowhere
  BY DEF IInv, SeekToLast, Enters
<1>2. /\ Merged'
      /\ current_' = 0 => Seen = {}
      /\ current_' # 0 => \A f \in Seen : ~Precedes(entry', f)
  BY <1>1, MergeLastMoves
<1>3. Numbered' /\ Seen' = Seen /\ Table' = Table /\ \A k : NewestOf(k)' = NewestOf(k)
  BY <1>1, TableStays
<1>4. Behind' = Table
  <2>1. Behind' = {k \in Table : current_' # 0 /\ ~Precedes(entry', NewestOf(k))}
    BY <1>1, <1>3 DEF Behind
  <2>2. \A k \in Table : current_' # 0 /\ ~Precedes(entry', NewestOf(k))
    BY <1>1, <1>2, NewestOfIs
  <2>3. QED
    BY <2>1, <2>2
<1>5. InPrev'
  BY <1>1, <1>4 DEF InPrev
<1>6. ScanTypes'
  BY <1>1 DEF ScanTypes
<1>7. QED
  BY <1>1, <1>2, <1>3, <1>5, <1>6 DEF IInv, InBack, InNext, Idle

LEMMA EntryIsEntry ==
  ASSUME Merged, current_ # 0
  PROVE  entry \in IterEntries /\ entry \in All /\ entry.k \in Nat /\ (entry.s <= sequence_ => entry \in Seen)
<1>1. current_ \in Children /\ entry \in IterEntries /\ entry \in child[current_]
  BY DEF Merged, entry
<1>2. QED
  BY <1>1, EntryType DEF All, Seen

\* What is to be seen is before the entry, the entry, or after it.
LEMMA BesideEntry ==
  ASSUME Numbered, Merged, current_ # 0
  PROVE  \A f \in Seen : Precedes(entry, f) <=> ~(f = entry \/ Precedes(f, entry))
<1>1. entry \in All /\ entry \in IterEntries
  BY EntryIsEntry
<1>2. All \in SUBSET IterEntries /\ Apart(All) /\ Seen \in SUBSET All
  BY DEF Numbered, All, Seen
<1>3. QED
  BY <1>1, <1>2, Ordered

\* After a step, what was passed is the entry and what was before it.
LEMMA MergeNextPasses ==
  ASSUME Numbered, Merged, current_ # 0, MergeNext, UNCHANGED dataVars, current_' # 0
  PROVE  /\ entry' \in IterEntries /\ Precedes(entry, entry')
         /\ \A f \in Seen : Precedes(f, entry') <=> f = entry \/ Precedes(f, entry)
<1>1. /\ Merged' /\ Precedes(entry, entry')
      /\ \A f \in Seen : Precedes(entry, f) => ~Precedes(f, entry')
  BY MergeNextMoves
<1>2. entry \in IterEntries
  BY EntryIsEntry
<1>3. entry' \in IterEntries
  BY <1>1 DEF Merged, entry
<1>4. Seen \in SUBSET IterEntries
  BY SeenTypes
<1>5. \A f \in Seen : Precedes(entry, f) <=> ~(f = entry \/ Precedes(f, entry))
  BY BesideEntry
<1>6. QED
  BY <1>1, <1>2, <1>3, <1>4, <1>5, Ordered

LEMMA MergePrevPasses ==
  ASSUME Numbered, Merged, current_ # 0, MergePrev, UNCHANGED dataVars, current_' # 0
  PROVE  /\ entry' \in IterEntries /\ Precedes(entry', entry)
         /\ \A f \in Seen : Precedes(entry', f) <=> f = entry \/ Precedes(entry, f)
<1>1. /\ Merged' /\ Precedes(entry', entry)
      /\ \A f \in Seen : Precedes(f, entry) => ~Precedes(entry', f)
  BY MergePrevMoves
<1>2. entry \in IterEntries
  BY EntryIsEntry
<1>3. entry' \in IterEntries
  BY <1>1 DEF Merged, entry
<1>4. Seen \in SUBSET IterEntries
  BY SeenTypes
<1>5. \A f \in Seen : Precedes(entry, f) <=> ~(f = entry \/ Precedes(f, entry))
  BY BesideEntry
<1>6. QED
  BY <1>1, <1>2, <1>3, <1>4, <1>5, Ordered

\* NextKey, when the iterator stands at the key.
LEMMA NextForwardKeeps ==
  ASSUME IInv, NextKey, direction_ = "forward"
  PROVE  IInv'
<1>1. Numbered /\ Merged /\ ScanTypes /\ Idle /\ loop = "none" /\ valid_
  BY DEF IInv, NextKey
<1>2. /\ UNCHANGED dataVars /\ direction_' = "forward" /\ cursor' = Least({k \in Table : k > cursor})
      /\ at' = at /\ current_' = current_ /\ mergeDir' = mergeDir
      /\ loop' = "next" /\ flag' = TRUE /\ valid_' = valid_ /\ saved' = entry
  BY DEF NextKey, Enters, MergeStays
<1>3. Numbered' /\ Seen' = Seen /\ Table' = Table /\ \A k : NewestOf(k)' = NewestOf(k)
  BY <1>1, <1>2, TableStays
<1>4. entry' = entry /\ Merged'
  BY <1>1, <1>2 DEF entry, Merged, dataVars
<1>5. cursor \in Table /\ current_ # 0 /\ entry = NewestOf(cursor)
  BY <1>1 DEF Idle
<1>6. entry \in Seen /\ entry.k = cursor /\ entry \in IterEntries /\ \A f \in Seen : f.k = cursor => ~Precedes(f, entry)
  BY <1>1, <1>5, NewestOfIs
<1>7. \A f \in Seen : f.k \in Nat
  BY <1>1, SeenTypes
<1>8. Ahead' = {k \in Table : k > cursor}
  <2>1. Ahead' = {k \in Table : ~Precedes(NewestOf(k), entry) /\ k > entry.k}
    BY <1>2, <1>3, <1>4 DEF Ahead
  <2>2. ASSUME NEW k \in Table, k > cursor
        PROVE  ~Precedes(NewestOf(k), entry)
    <3>1. NewestOf(k) \in IterEntries /\ NewestOf(k).k = k /\ k \in Nat /\ cursor \in Nat
      BY <1>1, <1>5, NewestOfIs
    <3>2. QED
      BY <1>6, <2>2, <3>1 DEF Precedes
  <2>3. QED
    BY <1>6, <2>1, <2>2
<1>9. \A f \in Seen : ~Precedes(f, entry) => f.k >= entry.k
  BY <1>6, <1>7 DEF Precedes
<1>10. InNext'
  BY <1>2, <1>3, <1>4, <1>5, <1>6, <1>8, <1>9 DEF InNext
<1>11. ScanTypes'
  BY <1>1, <1>2, <1>6 DEF ScanTypes
<1>12. QED
  BY <1>2, <1>3, <1>4, <1>10, <1>11 DEF IInv, InBack, InPrev, Idle

\* NextKey, when it stands before the entries of the key.
LEMMA NextReverseKeeps ==
  ASSUME IInv, NextKey, direction_ = "reverse"
  PROVE  IInv'
<1>1. Numbered /\ Merged /\ ScanTypes /\ Idle /\ loop = "none" /\ valid_
  BY DEF IInv, NextKey
<1>2. /\ UNCHANGED dataVars /\ direction_' = "forward" /\ cursor' = Least({k \in Table : k > cursor})
      /\ IF current_ = 0 THEN MergeFirst ELSE MergeNext
  BY DEF NextKey
<1>3. Numbered' /\ Seen' = Seen /\ Table' = Table /\ \A k : NewestOf(k)' = NewestOf(k)
  BY <1>1, <1>2, TableStays
<1>4. /\ cursor \in Table /\ saved = NewestOf(cursor)
      /\ current_ # 0 => entry.k < cursor
      /\ \A f \in Seen : (current_ # 0 => Precedes(entry, f)) => f.k >= cursor
  BY <1>1 DEF Idle
<1>5. saved \in Seen /\ saved.k = cursor /\ cursor \in Nat
  BY <1>1, <1>4, NewestOfIs
<1>6. \A f \in Seen : f.k \in Nat /\ f \in IterEntries
  BY <1>1, SeenTypes
<1>7. /\ Merged' /\ current_' # 0
      /\ \A f \in Seen : f.k >= cursor => ~Precedes(f, entry')
      /\ \A f \in Seen : ~Precedes(f, entry') => f.k >= cursor
  <2>1. CASE current_ = 0
    <3>1. Merged' /\ (current_' = 0 => Seen = {}) /\ (current_' # 0 => \A f \in Seen : ~Precedes(f, entry'))
      BY <1>1, <1>2, <2>1, MergeFirstMoves
    <3>2. QED
      BY <1>4, <1>5, <2>1, <3>1
  <2>2. CASE current_ # 0
    <3>1. Merged' /\ (current_' = 0 => \A f \in Seen : ~Precedes(entry, f))
      BY <1>1, <1>2, <2>2, MergeNextMoves
    <3>2. entry \in IterEntries /\ entry.k \in Nat /\ entry.k < cursor
      BY <1>1, <1>4, <2>2, EntryIsEntry
    <3>3. \A f \in Seen : f.k >= cursor => Precedes(entry, f)
      BY <1>5, <1>6, <3>2 DEF Precedes
    <3>4. current_' # 0
      BY <1>5, <3>1, <3>3
    <3>5. \A f \in Seen : Precedes(f, entry') <=> f = entry \/ Precedes(f, entry)
      BY <1>1, <1>2, <2>2, <3>4, MergeNextPasses
    <3>6. \A f \in Seen : Precedes(entry, f) <=> ~(f = entry \/ Precedes(f, entry))
      BY <1>1, <2>2, BesideEntry
    <3>7. QED
      BY <1>4, <2>2, <3>1, <3>3, <3>4, <3>5, <3>6
  <2>3. QED
    BY <2>1, <2>2
<1>8. loop' = "next" /\ flag' = TRUE /\ valid_' = valid_ /\ saved' = saved
  BY <1>7 DEF NextKey, Enters
<1>9. Ahead' = {k \in Table : k > cursor}
  <2>1. Ahead' = {k \in Table : ~Precedes(NewestOf(k), entry') /\ k > cursor}
    BY <1>3, <1>5, <1>8 DEF Ahead
  <2>2. ASSUME NEW k \in Table, k > cursor
        PROVE  ~Precedes(NewestOf(k), entry')
    <3>1. NewestOf(k) \in Seen /\ NewestOf(k).k = k /\ k \in Nat
      BY <1>1, NewestOfIs
    <3>2. QED
      BY <1>5, <1>7, <2>2, <3>1
  <2>3. QED
    BY <2>1, <2>2
<1>10. \A f \in Seen : Precedes(f, entry') /\ f.k = entry'.k => f.k <= cursor
  BY <1>5, <1>6, <1>7
<1>11. InNext'
  BY <1>2, <1>3, <1>5, <1>7, <1>8, <1>9, <1>10 DEF InNext
<1>12. ScanTypes'
  BY <1>1, <1>2, <1>8 DEF ScanTypes
<1>13. QED
  BY <1>3, <1>7, <1>8, <1>11, <1>12 DEF IInv, InBack, InPrev, Idle

\* One turn of FindNextUserEntry.
LEMMA NextTurnKeeps ==
  ASSUME IInv, NextTurn
  PROVE  IInv'
<1> DEFINE sees == entry.s <= sequence_
           hides == flag /\ entry.k <= saved.k
<1>1. Numbered /\ Merged /\ ScanTypes /\ loop = "next"
  BY DEF IInv, NextTurn
<1>2. /\ direction_ = "forward" /\ current_ # 0 /\ cursor = Least(Ahead)
      /\ flag => \A f \in Seen : ~Precedes(f, entry) => f.k >= saved.k
      /\ \A f \in Seen : Precedes(f, entry) /\ f.k = entry.k => flag /\ f.k <= saved.k
  BY <1>1 DEF IInv, InNext
<1>3. UNCHANGED dataVars /\ direction_' = "forward" /\ cursor' = cursor
  BY <1>2 DEF NextTurn
<1>4. Numbered' /\ Seen' = Seen /\ Table' = Table /\ \A k : NewestOf(k)' = NewestOf(k)
  BY <1>1, <1>3, TableStays
<1>5. entry \in IterEntries /\ entry.k \in Nat /\ (sees => entry \in Seen)
  BY <1>1, <1>2, EntryIsEntry
<1>6. \A f \in Seen : f.k \in Nat /\ f \in IterEntries
  BY <1>1, SeenTypes
<1>7. saved.k \in Nat
  BY <1>1, EntryType DEF ScanTypes, Nowhere
<1>8. \A f \in Seen : Precedes(entry, f) <=> ~(f = entry \/ Precedes(f, entry))
  BY <1>1, <1>2, BesideEntry
<1>9. CASE sees /\ ~entry.del /\ ~hides
  <2>1. /\ at' = at /\ current_' = current_ /\ mergeDir' = mergeDir
        /\ loop' = "none" /\ valid_' = TRUE /\ saved' = Nowhere /\ flag' = flag
    BY <1>9 DEF NextTurn, Ends, MergeStays
  <2>2. Merged' /\ entry' = entry
    BY <1>1, <1>3, <2>1 DEF Merged, entry, dataVars
  <2>3. \A f \in Seen : f.k = entry.k => ~Precedes(f, entry)
    BY <1>2, <1>9
  <2>4. entry.k \in Table /\ NewestOf(entry.k) = entry
    BY <1>1, <1>5, <1>9, <2>3, IsNewest
  <2>5. entry.k \in Ahead
    BY <1>5, <1>7, <1>9, <2>4, Ordered DEF Ahead
  <2>6. ASSUME NEW k \in Ahead
        PROVE  entry.k <= k
    <3>1. k \in Table /\ ~Precedes(NewestOf(k), entry)
      BY DEF Ahead
    <3>2. NewestOf(k).k = k /\ k \in Nat
      BY <1>1, <3>1, NewestOfIs
    <3>3. QED
      BY <1>5, <3>1, <3>2 DEF Precedes
  <2>7. Ahead \in SUBSET UserKeys
    BY NothingLeft DEF Ahead
  <2>8. cursor = entry.k
    BY <1>2, <2>5, <2>6, <2>7, LeastOf
  <2>9. cursor # 0
    BY <1>5, <2>8, EntryType
  <2>10. Idle'
    BY <1>2, <1>3, <1>4, <2>1, <2>2, <2>4, <2>8, <2>9 DEF Idle
  <2>11. ScanTypes'
    BY <1>1, <1>3, <2>1 DEF ScanTypes
  <2>12. QED
    BY <1>4, <2>1, <2>2, <2>10, <2>11 DEF IInv, InNext, InBack, InPrev
<1>10. CASE ~(sees /\ ~entry.del /\ ~hides)
  <2>1. /\ MergeNext
        /\ current_' = 0 => Ends(FALSE, Nowhere)
        /\ current_' # 0 /\ sees /\ entry.del => Enters("next", TRUE) /\ saved' = entry
        /\ current_' # 0 /\ ~(sees /\ entry.del) => UNCHANGED <<loop, flag, valid_, saved>>
    BY <1>10 DEF NextTurn
  <2>2. Merged' /\ (current_' = 0 => \A f \in Seen : ~Precedes(entry, f))
    BY <1>1, <1>2, <1>3, <2>1, MergeNextMoves
  <2>3. ASSUME NEW k \in Ahead
        PROVE  Precedes(entry, NewestOf(k))
    <3>1. k \in Table /\ ~Precedes(NewestOf(k), entry) /\ (flag => k > saved.k)
      BY DEF Ahead
    <3>2. NewestOf(k) \in Seen /\ NewestOf(k).k = k /\ ~NewestOf(k).del /\ k \in Nat /\ NewestOf(k).s <= sequence_
      BY <1>1, <3>1, NewestOfIs DEF Seen
    <3>3. NewestOf(k) # entry
      BY <1>7, <1>10, <3>1, <3>2
    <3>4. QED
      BY <1>8, <3>1, <3>2, <3>3
  <2>4. CASE current_' = 0
    <3>1. Ahead = {}
      <4> SUFFICES ASSUME NEW k \in Ahead
                   PROVE  FALSE
        OBVIOUS
      <4>1. NewestOf(k) \in Seen
        BY <1>1, NewestOfIs DEF Ahead
      <4>2. QED
        BY <2>2, <2>3, <2>4, <4>1
    <3>2. cursor' = 0
      BY <1>2, <1>3, <3>1, NothingLeft
    <3>3. QED
      BY <1>1, <1>3, <1>4, <2>1, <2>2, <2>4, <3>2, EndsNowhere
  <2>5. CASE current_' # 0
    <3>1. /\ entry' \in IterEntries /\ Precedes(entry, entry')
          /\ \A f \in Seen : Precedes(f, entry') <=> f = entry \/ Precedes(f, entry)
      BY <1>1, <1>2, <1>3, <2>1, <2>5, MergeNextPasses
    <3>2. entry'.k \in Nat /\ entry.k <= entry'.k
      BY <1>5, <3>1, EntryType, Ordered
    <3>3. \A k \in Table : NewestOf(k) \in Seen /\ NewestOf(k).k = k /\ k \in Nat
      BY <1>1, NewestOfIs
    <3>4. CASE sees /\ entry.del
      <4>1. loop' = "next" /\ flag' = TRUE /\ valid_' = valid_ /\ saved' = entry
        BY <2>1, <2>5, <3>4 DEF Enters
      <4>2. Ahead' = {k \in Table : ~Precedes(NewestOf(k), entry') /\ k > entry.k}
        BY <1>4, <4>1 DEF Ahead
      <4>3. ASSUME NEW k \in Ahead
            PROVE  ~Precedes(NewestOf(k), entry') /\ k > entry.k
        <5>1. Precedes(entry, NewestOf(k)) /\ k \in Table
          BY <2>3 DEF Ahead
        <5>2. entry.k <= k
          BY <1>5, <1>6, <3>3, <5>1, Ordered
        <5>3. entry.k # k
          <6>1. entry.k = k => entry = NewestOf(k) \/ Precedes(NewestOf(k), entry)
            BY <1>1, <1>5, <3>4, <5>1, NewestOfIs
          <6>2. QED
            BY <1>5, <1>6, <3>3, <5>1, <6>1, Ordered
        <5>4. QED
          BY <1>5, <1>8, <3>1, <3>3, <5>1, <5>2, <5>3
      <4>4. ASSUME NEW k \in Table, ~Precedes(NewestOf(k), entry'), k > entry.k
            PROVE  k \in Ahead
        <5>1. ~Precedes(NewestOf(k), entry)
          BY <3>1, <3>3, <4>4
        <5>2. flag => entry.k >= saved.k
          BY <1>2, <1>5, <3>4, Ordered
        <5>3. QED
          BY <1>5, <1>7, <3>3, <4>4, <5>1, <5>2 DEF Ahead
      <4>5. Ahead' = Ahead
        BY <4>2, <4>3, <4>4 DEF Ahead
      <4>6. \A f \in Seen : ~Precedes(f, entry') => f.k >= entry.k
        <5> SUFFICES ASSUME NEW f \in Seen, ~Precedes(f, entry')
                     PROVE  f.k >= entry.k
          OBVIOUS
        <5>1. Precedes(entry, f)
          BY <1>8, <3>1
        <5>2. QED
          BY <1>5, <1>6, <5>1, Ordered
      <4>7. \A f \in Seen : Precedes(f, entry') => f.k <= entry.k
        BY <1>5, <1>6, <3>1, Ordered
      <4>8. InNext'
        BY <1>2, <1>3, <1>4, <2>5, <4>1, <4>5, <4>6, <4>7 DEF InNext
      <4>9. ScanTypes'
        BY <1>1, <1>3, <1>5, <4>1 DEF ScanTypes
      <4>10. QED
        BY <1>4, <2>2, <4>1, <4>8, <4>9 DEF IInv, InBack, InPrev, Idle
    <3>5. CASE ~(sees /\ entry.del)
      <4>1. loop' = "next" /\ flag' = flag /\ valid_' = valid_ /\ saved' = saved
        BY <1>1, <2>1, <2>5, <3>5
      <4>2. Ahead' = {k \in Table : ~Precedes(NewestOf(k), entry') /\ (flag => k > saved.k)}
        BY <1>4, <4>1 DEF Ahead
      <4>3. \A k \in Ahead : ~Precedes(NewestOf(k), entry')
        BY <1>8, <2>3, <3>1, <3>3 DEF Ahead
      <4>4. \A k \in Table : ~Precedes(NewestOf(k), entry') => ~Precedes(NewestOf(k), entry)
        BY <3>1, <3>3
      <4>5. Ahead' = Ahead
        BY <4>2, <4>3, <4>4 DEF Ahead
      <4>6. flag => \A f \in Seen : ~Precedes(f, entry') => f.k >= saved.k
        BY <1>2, <3>1
      <4>7. ASSUME NEW f \in Seen, Precedes(f, entry'), f.k = entry'.k
            PROVE  flag /\ f.k <= saved.k
        <5>1. CASE f = entry
          BY <1>9, <1>10, <3>5, <5>1 DEF Seen
        <5>2. CASE Precedes(f, entry)
          <6>1. f.k = entry.k
            BY <1>5, <1>6, <3>2, <4>7, <5>2, Ordered
          <6>2. QED
            BY <1>2, <5>2, <6>1
        <5>3. QED
          BY <3>1, <4>7, <5>1, <5>2
      <4>8. InNext'
        BY <1>2, <1>3, <1>4, <2>5, <4>1, <4>5, <4>6, <4>7 DEF InNext
      <4>9. ScanTypes'
        BY <1>1, <1>3, <4>1 DEF ScanTypes
      <4>10. QED
        BY <1>4, <2>2, <4>1, <4>8, <4>9 DEF IInv, InBack, InPrev, Idle
    <3>6. QED
      BY <3>4, <3>5
  <2>6. QED
    BY <2>4, <2>5
<1>11. QED
  BY <1>9, <1>10

\* PrevKey, when the iterator stands at the key.
LEMMA PrevForwardKeeps ==
  ASSUME IInv, PrevKey, direction_ = "forward"
  PROVE  IInv'
<1>1. Numbered /\ Merged /\ ScanTypes /\ Idle /\ loop = "none" /\ valid_
  BY DEF IInv, PrevKey
<1>2. /\ UNCHANGED dataVars /\ direction_' = "forward" /\ cursor' = Greatest({k \in Table : k < cursor})
      /\ at' = at /\ current_' = current_ /\ mergeDir' = mergeDir
      /\ loop' = "back" /\ flag' = TRUE /\ valid_' = valid_ /\ saved' = entry
  BY DEF PrevKey, Enters, MergeStays
<1>3. Numbered' /\ Seen' = Seen /\ Table' = Table
  BY <1>1, <1>2, TableStays
<1>4. entry' = entry /\ Merged'
  BY <1>1, <1>2 DEF entry, Merged, dataVars
<1>5. cursor \in Table /\ current_ # 0 /\ entry = NewestOf(cursor)
  BY <1>1 DEF Idle
<1>6. entry.k = cursor /\ entry \in IterEntries /\ entry.k \in Nat
  BY <1>1, <1>5, NewestOfIs
<1>7. InBack'
  <2>1. Returning'
    <3>1. ASSUME NEW c \in Children, NEW f \in child[c], mergeDir = "reverse", f.s <= sequence_, f.k < entry.k
          PROVE  at[c] # Nowhere /\ ~Precedes(at[c], f)
      <4>1. f \in IterEntries
        BY <1>1 DEF Numbered
      <4>2. Precedes(f, entry) /\ ~Precedes(entry, f)
        BY <1>6, <3>1, <4>1, EntryType DEF Precedes
      <4>3. CASE c = current_
        BY <1>1, <1>5, <4>2, <4>3 DEF Merged, entry
      <4>4. CASE c # current_
        BY <1>1, <1>5, <3>1, <4>2, <4>4 DEF Merged
      <4>5. QED
        BY <4>3, <4>4
    <3>2. /\ at \in [Children -> IterEntries \cup {Nowhere}]
          /\ current_ \in Children /\ mergeDir \in {"forward", "reverse"}
          /\ \A c \in Children : at[c] \in child[c] \cup {Nowhere}
          /\ entry # Nowhere
      BY <1>1, <1>5 DEF Merged
    <3>3. QED
      BY <1>2, <1>4, <3>1, <3>2 DEF Returning, dataVars
  <2>2. QED
    BY <1>2, <1>3, <1>4, <1>5, <1>6, <2>1 DEF InBack
<1>8. ScanTypes'
  BY <1>1, <1>2, <1>6 DEF ScanTypes
<1>9. QED
  BY <1>2, <1>3, <1>4, <1>7, <1>8 DEF IInv, InNext, InPrev, Idle

\* What is at a key below t is what has its newest entry not after the entry.
LEMMA BehindIs ==
  ASSUME Numbered, Merged, NEW t \in Nat,
         current_ # 0 => entry.k < t,
         \A f \in Seen : (current_ # 0 => Precedes(entry, f)) => f.k >= t
  PROVE  {k \in Table : current_ # 0 /\ ~Precedes(entry, NewestOf(k))} = {k \in Table : k < t}
<1> SUFFICES ASSUME NEW k \in Table
             PROVE  current_ # 0 /\ ~Precedes(entry, NewestOf(k)) <=> k < t
  OBVIOUS
<1>1. NewestOf(k) \in Seen /\ NewestOf(k).k = k /\ k \in Nat
  BY NewestOfIs
<1>2. ASSUME k < t
      PROVE  current_ # 0 /\ ~Precedes(entry, NewestOf(k))
  BY <1>1, <1>2
<1>3. ASSUME current_ # 0, ~Precedes(entry, NewestOf(k))
      PROVE  k < t
  <2>1. entry \in IterEntries /\ entry.k \in Nat
    BY <1>3, EntryIsEntry
  <2>2. k <= entry.k
    BY <1>1, <1>3, <2>1 DEF Precedes
  <2>3. QED
    BY <1>1, <1>3, <2>1, <2>2
<1>4. QED
  BY <1>2, <1>3

\* PrevKey, when it stands before the entries of the key.
LEMMA PrevReverseKeeps ==
  ASSUME IInv, PrevKey, direction_ = "reverse"
  PROVE  IInv'
<1>1. Numbered /\ Merged /\ ScanTypes /\ Idle /\ loop = "none" /\ valid_
  BY DEF IInv, PrevKey
<1>2. /\ UNCHANGED dataVars /\ direction_' = "reverse" /\ cursor' = Greatest({k \in Table : k < cursor})
      /\ at' = at /\ current_' = current_ /\ mergeDir' = mergeDir
      /\ loop' = "prev" /\ flag' = TRUE /\ valid_' = valid_ /\ saved' = saved
  BY DEF PrevKey, Enters, MergeStays
<1>3. Numbered' /\ Seen' = Seen /\ Table' = Table /\ \A k : NewestOf(k)' = NewestOf(k)
  BY <1>1, <1>2, TableStays
<1>4. entry' = entry /\ Merged'
  BY <1>1, <1>2 DEF entry, Merged, dataVars
<1>5. /\ cursor \in Table
      /\ current_ # 0 => entry.k < cursor
      /\ \A f \in Seen : (current_ # 0 => Precedes(entry, f)) => f.k >= cursor
  BY <1>1 DEF Idle
<1>6. cursor \in Nat
  BY <1>1, <1>5, NewestOfIs
<1>7. Behind' = {k \in Table : current_ # 0 /\ ~Precedes(entry, NewestOf(k))}
  BY <1>2, <1>3, <1>4 DEF Behind
<1>8. Behind' = {k \in Table : k < cursor}
  BY <1>1, <1>5, <1>6, <1>7, BehindIs
<1>9. InPrev'
  BY <1>2, <1>8 DEF InPrev
<1>10. ScanTypes'
  BY <1>1, <1>2 DEF ScanTypes
<1>11. QED
  BY <1>2, <1>3, <1>4, <1>9, <1>10 DEF IInv, InNext, InBack, Idle

\* A turn of the loop in Prev that leaves no child in front of what may be
\* seen of smaller keys.
LEMMA BackStep ==
  ASSUME ScanTypes, loop = "back", InBack, entry.k \in Nat, cursor' = cursor,
         Numbered', Seen' = Seen, Table' = Table, \A k : NewestOf(k)' = NewestOf(k), Numbered,
         sequence_' = sequence_,
         NEW pos \in [Children -> IterEntries \cup {Nowhere}], Reverse(pos), LeavesKey,
         \A c \in Children : pos[c] \in child'[c] \cup {Nowhere},
         \A c \in Children : \A f \in child'[c] :
            f.s <= sequence_ /\ f.k < saved.k => pos[c] # Nowhere /\ ~Precedes(pos[c], f)
  PROVE  IInv'
<1> DEFINE cur == current_'
<1>1. at' = pos /\ cur = FindLargest(pos) /\ mergeDir' = "reverse"
  BY DEF Reverse
<1>2. \A c, d \in Children : c # d /\ pos[c] # Nowhere /\ pos[d] # Nowhere => pos[c].s # pos[d].s
  BY DEF Numbered, Apart, All
<1>3. /\ cur \in Children \cup {0}
      /\ cur = 0 => \A c \in Children : pos[c] = Nowhere
      /\ cur # 0 => /\ pos[cur] # Nowhere
                    /\ \A c \in Children \ {cur} : pos[c] # Nowhere => Precedes(pos[c], pos[cur])
  BY <1>1, <1>2, LargestStanding
<1>4. entry' = pos[cur]
  BY <1>1 DEF entry
<1>5. direction_ = "forward" /\ cursor = Greatest({k \in Table : k < saved.k})
  BY DEF InBack
<1>6. saved.k \in Nat
  BY EntryType DEF ScanTypes, Nowhere
<1>7. ASSUME NEW f \in Seen, f.k < saved.k
      PROVE  cur # 0 /\ ~Precedes(pos[cur], f)
  <2>1. PICK c \in Children : f \in child'[c]
    BY DEF Seen, All
  <2>2. f.s <= sequence_
    BY DEF Seen
  <2>3. pos[c] # Nowhere /\ ~Precedes(pos[c], f)
    BY <1>7, <2>1, <2>2
  <2>4. cur # 0
    BY <1>3, <2>3
  <2>5. f \in IterEntries /\ pos[c] \in IterEntries /\ pos[cur] \in IterEntries
    BY <1>3, <2>3, <2>4, SeenTypes
  <2>6. c = cur \/ Precedes(pos[c], pos[cur])
    BY <1>3, <2>3, <2>4
  <2>7. QED
    BY <2>3, <2>4, <2>5, <2>6, Ordered
<1>8. \A k \in Table : NewestOf(k) \in Seen /\ NewestOf(k).k = k /\ k \in Nat /\ NewestOf(k) \in IterEntries
  BY NewestOfIs
<1>9. /\ at' \in [Children -> IterEntries \cup {Nowhere}] /\ cur \in Children \cup {0}
      /\ mergeDir' \in {"forward", "reverse"}
      /\ \A c \in Children : at'[c] \in child'[c] \cup {Nowhere}
  BY <1>1, <1>3
<1>10. CASE cur = 0
  <2>1. {k \in Table : k < saved.k} = {}
    BY <1>7, <1>8, <1>10
  <2>2. cursor' = 0
    BY <1>5, <2>1, NothingLeft
  <2>3. Merged'
    BY <1>9, <1>10 DEF Merged
  <2>4. Ends(FALSE, Nowhere) /\ direction_' = direction_
    BY <1>10 DEF LeavesKey
  <2>5. QED
    BY <1>5, <2>2, <2>3, <2>4, EndsNowhere
<1>11. CASE cur # 0 /\ pos[cur].k < saved.k
  <2>1. loop' = "prev" /\ flag' = TRUE /\ valid_' = valid_ /\ saved' = saved /\ direction_' = "reverse"
    BY <1>1, <1>11 DEF LeavesKey, Enters
  <2>2. pos[cur] \in IterEntries /\ pos[cur].k \in Nat
    BY <1>3, <1>11, EntryType
  <2>3. ASSUME NEW c \in Children \ {cur}
        PROVE  /\ pos[c] # Nowhere => Precedes(pos[c], pos[cur])
               /\ \A f \in child'[c] : f.s <= sequence_ /\ Precedes(f, pos[cur]) =>
                        pos[c] # Nowhere /\ ~Precedes(pos[c], f)
    <3>1. ASSUME NEW f \in child'[c], Precedes(f, pos[cur])
          PROVE  f.k < saved.k
      <4>1. f \in IterEntries
        BY DEF Numbered
      <4>2. f.k <= pos[cur].k /\ f.k \in Nat
        BY <2>2, <3>1, <4>1, Ordered, EntryType
      <4>3. QED
        BY <1>6, <1>11, <2>2, <4>2
    <3>2. QED
      BY <1>3, <1>11, <3>1
  <2>4. Merged'
    BY <1>1, <1>4, <1>9, <1>11, <1>3, <2>3 DEF Merged
  <2>5. Behind' = {k \in Table : ~Precedes(pos[cur], NewestOf(k))}
    BY <1>4, <1>11, <2>1 DEF Behind
  <2>6. ASSUME NEW k \in Table
        PROVE  ~Precedes(pos[cur], NewestOf(k)) <=> k < saved.k
    <3>1. k < saved.k => ~Precedes(pos[cur], NewestOf(k))
      BY <1>7, <1>8
    <3>2. ~Precedes(pos[cur], NewestOf(k)) => k <= pos[cur].k
      BY <1>8, <2>2 DEF Precedes
    <3>3. QED
      BY <1>6, <1>8, <1>11, <2>2, <3>1, <3>2
  <2>7. Behind' = {k \in Table : k < saved.k}
    BY <2>5, <2>6
  <2>8. InPrev'
    BY <1>5, <2>1, <2>7 DEF InPrev
  <2>9. ScanTypes'
    BY <2>1 DEF ScanTypes
  <2>10. QED
    BY <2>1, <2>4, <2>8, <2>9 DEF IInv, InNext, InBack, Idle
<1>12. CASE cur # 0 /\ ~(pos[cur].k < saved.k)
  <2>1. loop' = "back" /\ flag' = flag /\ valid_' = valid_ /\ saved' = saved /\ direction_' = direction_
    BY <1>1, <1>12 DEF LeavesKey
  <2>2. pos[cur].k \in Nat
    BY <1>3, <1>12, EntryType
  <2>3. Returning'
    BY <1>1, <1>3, <1>4, <1>9, <1>12, <2>1 DEF Returning
  <2>4. InBack'
    BY <1>4, <1>5, <1>6, <1>12, <2>1, <2>2, <2>3 DEF InBack
  <2>5. ScanTypes'
    BY <2>1 DEF ScanTypes
  <2>6. QED
    BY <2>1, <2>4, <2>5 DEF IInv, InNext, InPrev, Idle
<1>13. QED
  BY <1>10, <1>11, <1>12

\* One turn of the loop in Prev.
LEMMA BackTurnKeeps ==
  ASSUME IInv, BackTurn
  PROVE  IInv'
<1>1. Numbered /\ ScanTypes /\ loop = "back" /\ InBack /\ Returning /\ entry.k >= saved.k
  BY DEF IInv, BackTurn, InBack
<1>2. UNCHANGED dataVars /\ cursor' = cursor /\ MergePrev /\ LeavesKey
  BY DEF BackTurn
<1>3. Numbered' /\ Seen' = Seen /\ Table' = Table /\ \A k : NewestOf(k)' = NewestOf(k)
  BY <1>1, <1>2, TableStays
<1>4. child' = child /\ sequence_' = sequence_
  BY <1>2 DEF dataVars
<1>5. entry \in IterEntries /\ entry.k \in Nat /\ saved.k \in Nat
  BY <1>1, EntryType DEF Returning, entry, ScanTypes, Nowhere
<1>6. PICK pos : pos = [c \in Children |-> IF c = current_ \/ mergeDir = "forward" THEN Prior(c, entry) ELSE at[c]]
  OBVIOUS
<1>7. Reverse(pos)
  BY <1>2, <1>6 DEF MergePrev
<1>8. ASSUME NEW c \in Children
      PROVE  /\ pos[c] \in child[c] \cup {Nowhere}
             /\ \A f \in child[c] : f.s <= sequence_ /\ f.k < saved.k => pos[c] # Nowhere /\ ~Precedes(pos[c], f)
  <2>1. CASE c = current_ \/ mergeDir = "forward"
    <3>1. pos[c] = Prior(c, entry)
      BY <1>6, <2>1
    <3>2. \A f \in child[c] : f.k < saved.k => Precedes(f, entry)
      <4>1. \A f \in child[c] : f.k \in Nat
        BY <1>1, EntryType DEF Numbered
      <4>2. QED
        BY <1>1, <1>5, <4>1 DEF Precedes
    <3>3. QED
      BY <1>1, <3>1, <3>2, PriorIs
  <2>2. CASE c # current_ /\ mergeDir = "reverse"
    BY <1>1, <1>6, <2>2 DEF Returning
  <2>3. QED
    BY <1>1, <2>1, <2>2 DEF Returning
<1>9. pos \in [Children -> IterEntries \cup {Nowhere}]
  <2>1. \A c \in Children : pos[c] \in IterEntries \cup {Nowhere}
    BY <1>1, <1>8 DEF Numbered
  <2>2. QED
    BY <1>6, <2>1
<1>10. QED
  BY <1>1, <1>2, <1>3, <1>4, <1>5, <1>7, <1>8, <1>9, BackStep

\* FindPrevUserEntry has gone far enough.
LEMMA PrevTurnEnds ==
  ASSUME IInv, PrevTurn, current_ = 0 \/ (entry.s <= sequence_ /\ ~flag /\ entry.k < saved.k)
  PROVE  IInv'
<1>1. Numbered /\ Merged /\ ScanTypes /\ loop = "prev"
  BY DEF IInv, PrevTurn
<1>2. /\ direction_ = "reverse"
      /\ cursor = Greatest(Behind)
      /\ ~flag =>
            /\ saved \in Seen /\ ~saved.del
            /\ current_ # 0 => Precedes(entry, saved)
            /\ \A f \in Seen : Precedes(f, saved) => current_ # 0 /\ ~Precedes(entry, f)
  BY <1>1 DEF IInv, InPrev
<1>3. /\ UNCHANGED dataVars /\ cursor' = cursor /\ PrevEnds(flag)
      /\ at' = at /\ current_' = current_ /\ mergeDir' = mergeDir
  BY DEF PrevTurn, MergeStays
<1>4. Numbered' /\ Seen' = Seen /\ Table' = Table /\ \A k : NewestOf(k)' = NewestOf(k)
  BY <1>1, <1>3, TableStays
<1>5. entry' = entry /\ Merged'
  BY <1>1, <1>3 DEF entry, Merged, dataVars
<1>6. CASE flag
  <2>1. Behind = {}
    BY <1>6 DEF Behind
  <2>2. cursor' = 0
    BY <1>2, <1>3, <2>1, NothingLeft
  <2>3. Ends(FALSE, Nowhere) /\ direction_' = "forward"
    BY <1>3, <1>6 DEF PrevEnds
  <2>4. QED
    BY <1>1, <1>4, <1>5, <2>2, <2>3, EndsNowhere
<1>7. CASE ~flag
  <2>1. loop' = "none" /\ valid_' = TRUE /\ saved' = saved /\ flag' = flag /\ direction_' = "reverse"
    BY <1>2, <1>3, <1>7 DEF PrevEnds, Ends
  <2>2. saved \in Seen /\ saved \in IterEntries /\ saved.k \in Nat /\ saved.k # 0 /\ \A f \in Seen : f.k \in Nat
    BY <1>1, <1>2, <1>7, SeenTypes, EntryType
  <2>3. \A f \in Seen : f.k = saved.k => ~Precedes(f, saved)
    <3> SUFFICES ASSUME NEW f \in Seen, f.k = saved.k, Precedes(f, saved)
                 PROVE  FALSE
      OBVIOUS
    <3>1. current_ # 0 /\ ~Precedes(entry, f)
      BY <1>2, <1>7
    <3>2. entry.k < saved.k /\ entry.k \in Nat
      BY <1>1, <1>7, <3>1, EntryIsEntry
    <3>3. QED
      BY <2>2, <3>1, <3>2 DEF Precedes
  <2>4. saved.k \in Table /\ NewestOf(saved.k) = saved
    BY <1>1, <1>2, <1>7, <2>2, <2>3, IsNewest
  <2>5. Behind = {k \in Table : k <= saved.k}
    BY <1>7 DEF Behind
  <2>6. cursor = saved.k
    BY <1>2, <2>2, <2>4, <2>5, NothingLeft, GreatestOf
  <2>7. \A f \in Seen : (current_ # 0 => Precedes(entry, f)) => f.k >= saved.k
    <3> SUFFICES ASSUME NEW f \in Seen, current_ # 0 => Precedes(entry, f)
                 PROVE  f.k >= saved.k
      OBVIOUS
    <3>1. ~Precedes(f, saved)
      BY <1>2, <1>7
    <3>2. QED
      BY <2>2, <3>1 DEF Precedes
  <2>8. current_ # 0 => entry.k < saved.k
    BY <1>7
  <2>9. Idle'
    BY <1>3, <1>4, <1>5, <2>1, <2>2, <2>4, <2>6, <2>7, <2>8 DEF Idle
  <2>10. ScanTypes'
    BY <1>1, <2>1 DEF ScanTypes
  <2>11. QED
    BY <1>4, <1>5, <2>1, <2>9, <2>10 DEF IInv, InNext, InBack, InPrev
<1>8. QED
  BY <1>1, <1>6, <1>7 DEF ScanTypes

\* FindPrevUserEntry takes the entry, and goes on.
LEMMA PrevTurnGoesOn ==
  ASSUME IInv, PrevTurn, ~(current_ = 0 \/ (entry.s <= sequence_ /\ ~flag /\ entry.k < saved.k))
  PROVE  IInv'
<1> DEFINE sees == entry.s <= sequence_
<1>1. Numbered /\ Merged /\ ScanTypes /\ loop = "prev" /\ current_ # 0
  BY DEF IInv, PrevTurn
<1>2. /\ direction_ = "reverse"
      /\ cursor = Greatest(Behind)
      /\ ~flag =>
            /\ saved \in Seen /\ ~saved.del
            /\ Precedes(entry, saved)
            /\ \A f \in Seen : Precedes(f, saved) => ~Precedes(entry, f)
  BY <1>1 DEF IInv, InPrev
<1>3. /\ UNCHANGED dataVars /\ cursor' = cursor /\ MergePrev
      /\ sees => flag' = entry.del /\ saved' = IF entry.del THEN Nowhere ELSE entry
      /\ ~sees => flag' = flag /\ saved' = saved
      /\ loop' = loop /\ valid_' = valid_ /\ direction_' = direction_
  BY DEF PrevTurn
<1>4. Numbered' /\ Seen' = Seen /\ Table' = Table /\ \A k : NewestOf(k)' = NewestOf(k)
  BY <1>1, <1>3, TableStays
<1>5. /\ Merged'
      /\ current_' = 0 => \A f \in Seen : ~Precedes(f, entry)
      /\ current_' # 0 => /\ Precedes(entry', entry)
                          /\ \A f \in Seen : Precedes(f, entry) => ~Precedes(entry', f)
  BY <1>1, <1>3, MergePrevMoves
<1>6. entry \in IterEntries /\ entry.k \in Nat /\ (sees => entry \in Seen)
  BY <1>1, EntryIsEntry
<1>7. current_' # 0 => /\ entry' \in IterEntries
                       /\ \A f \in Seen : Precedes(entry', f) <=> f = entry \/ Precedes(entry, f)
  BY <1>1, <1>3, MergePrevPasses
<1>8. \A f \in Seen : Precedes(entry, f) <=> ~(f = entry \/ Precedes(f, entry))
  BY <1>1, BesideEntry
<1>9. \A k \in Table : /\ NewestOf(k) \in Seen /\ NewestOf(k).k = k /\ k \in Nat /\ ~NewestOf(k).del
                       /\ NewestOf(k) \in IterEntries /\ NewestOf(k).s <= sequence_
  BY <1>1, NewestOfIs DEF Seen
<1>10. \A f \in Seen : f \in IterEntries /\ f.k \in Nat
  BY <1>1, SeenTypes
\* With the entry itself taken, what is left is before it.
<1>11. \A k \in Table : (NewestOf(k) # entry /\ ~Precedes(entry, NewestOf(k))) <=>
                        (current_' # 0 /\ ~Precedes(entry', NewestOf(k)))
  BY <1>5, <1>7, <1>8, <1>9
\* What was to come has not been passed.
<1>12. sees => Behind = {k \in Table : ~Precedes(entry, NewestOf(k))}
  <2> SUFFICES ASSUME sees
               PROVE  Behind = {k \in Table : ~Precedes(entry, NewestOf(k))}
    OBVIOUS
  <2>1. CASE flag
    BY <1>1, <2>1 DEF Behind
  <2>2. CASE ~flag
    <3>1. saved \in Seen /\ saved.k \in Nat /\ saved.k = entry.k
      <4>1. saved \in Seen /\ saved \in IterEntries /\ saved.k \in Nat /\ entry.k <= saved.k
        BY <1>2, <1>6, <1>10, <2>2, Ordered
      <4>2. ~(entry.k < saved.k)
        BY <2>2
      <4>3. QED
        BY <1>6, <4>1, <4>2
    <3>2. ASSUME NEW k \in Table
          PROVE  k <= saved.k <=> ~Precedes(entry, NewestOf(k))
      <4>1. ~Precedes(entry, NewestOf(k)) => k <= entry.k
        BY <1>6, <1>9 DEF Precedes
      <4>2. k < entry.k => ~Precedes(entry, NewestOf(k))
        BY <1>6, <1>9 DEF Precedes
      <4>3. k = entry.k => ~Precedes(entry, NewestOf(k))
        <5>1. k = entry.k => ~Precedes(entry, NewestOf(k))
          BY <1>1, <1>6, NewestOfIs
        <5>2. QED
          BY <5>1
      <4>4. QED
        BY <1>6, <1>9, <3>1, <4>1, <4>2, <4>3
    <3>3. Behind = {k \in Table : k <= saved.k}
      BY <2>2 DEF Behind
    <3>4. QED
      BY <3>2, <3>3
  <2>3. QED
    BY <1>1, <2>1, <2>2 DEF ScanTypes
<1>13. CASE sees /\ entry.del
  <2>1. flag' = TRUE /\ saved' = Nowhere
    BY <1>3, <1>6, <1>13, EntryType
  <2>2. Behind' = {k \in Table : current_' # 0 /\ ~Precedes(entry', NewestOf(k))}
    BY <1>4, <2>1 DEF Behind
  <2>3. \A k \in Table : NewestOf(k) # entry
    BY <1>9, <1>13
  <2>4. Behind' = Behind
    BY <1>11, <1>12, <1>13, <2>2, <2>3
  <2>5. InPrev'
    BY <1>2, <1>3, <2>1, <2>4 DEF InPrev
  <2>6. ScanTypes'
    BY <1>1, <1>3, <2>1 DEF ScanTypes
  <2>7. QED
    BY <1>1, <1>3, <1>4, <1>5, <2>5, <2>6 DEF IInv, InNext, InBack, Idle
<1>14. CASE sees /\ ~entry.del
  <2>1. flag' = FALSE /\ saved' = entry
    BY <1>3, <1>6, <1>14, EntryType
  <2>2. Behind' = {k \in Table : k <= entry.k}
    BY <1>4, <2>1 DEF Behind
  <2>3. ASSUME NEW k \in Table
        PROVE  k <= entry.k <=> ~Precedes(entry, NewestOf(k))
    <3>1. ~Precedes(entry, NewestOf(k)) => k <= entry.k
      BY <1>6, <1>9 DEF Precedes
    <3>2. k < entry.k => ~Precedes(entry, NewestOf(k))
      BY <1>6, <1>9 DEF Precedes
    <3>3. k = entry.k => ~Precedes(entry, NewestOf(k))
      BY <1>1, <1>6, <1>14, NewestOfIs
    <3>4. QED
      BY <1>6, <1>9, <3>1, <3>2, <3>3
  <2>4. Behind' = Behind
    BY <1>12, <1>14, <2>2, <2>3
  <2>5. current_' # 0 => Precedes(entry', entry)
    BY <1>5
  <2>6. \A f \in Seen : Precedes(f, entry) => current_' # 0 /\ ~Precedes(entry', f)
    BY <1>5
  <2>7. InPrev'
    BY <1>2, <1>3, <1>4, <1>6, <1>14, <2>1, <2>4, <2>5, <2>6 DEF InPrev
  <2>8. ScanTypes'
    BY <1>1, <1>3, <1>6, <2>1 DEF ScanTypes
  <2>9. QED
    BY <1>1, <1>3, <1>4, <1>5, <2>7, <2>8 DEF IInv, InNext, InBack, Idle
<1>15. CASE ~sees
  <2>1. flag' = flag /\ saved' = saved
    BY <1>3, <1>15
  <2>2. \A f \in Seen : f # entry
    BY <1>15 DEF Seen
  <2>3. Behind' = Behind
    <3>1. CASE flag
      <4>1. Behind' = {k \in Table : current_' # 0 /\ ~Precedes(entry', NewestOf(k))}
        BY <1>4, <2>1, <3>1 DEF Behind
      <4>2. Behind = {k \in Table : ~Precedes(entry, NewestOf(k))}
        BY <1>1, <3>1 DEF Behind
      <4>3. QED
        BY <1>9, <1>11, <2>2, <4>1, <4>2
    <3>2. CASE ~flag
      BY <1>4, <2>1, <3>2 DEF Behind
    <3>3. QED
      BY <1>1, <3>1, <3>2 DEF ScanTypes
  <2>4. ASSUME ~flag
        PROVE  /\ current_' # 0 => Precedes(entry', saved)
               /\ \A f \in Seen : Precedes(f, saved) => current_' # 0 /\ ~Precedes(entry', f)
    <3>1. current_' # 0 => Precedes(entry', saved)
      BY <1>2, <1>7, <2>4
    <3>2. ASSUME NEW f \in Seen, Precedes(f, saved)
          PROVE  current_' # 0 /\ ~Precedes(entry', f)
      BY <1>2, <1>5, <1>7, <1>8, <2>2, <2>4, <3>2
    <3>3. QED
      BY <3>1, <3>2
  <2>5. InPrev'
    BY <1>2, <1>3, <1>4, <2>1, <2>3, <2>4 DEF InPrev
  <2>6. ScanTypes'
    BY <1>1, <1>3, <2>1 DEF ScanTypes
  <2>7. QED
    BY <1>1, <1>3, <1>4, <1>5, <2>5, <2>6 DEF IInv, InNext, InBack, Idle
<1>16. QED
  BY <1>6, <1>13, <1>14, <1>15, EntryType

\* What is written beside the iterator is not seen by it.
LEMMA WritesUnseen ==
  ASSUME Numbered, NEW k \in UserKeys, NEW del \in BOOLEAN, Writes(k, del)
  PROVE  /\ Numbered' /\ Seen' = Seen /\ Table' = Table /\ \A j : NewestOf(j)' = NewestOf(j)
         /\ sequence_' = sequence_ /\ sequence_ \in Nat /\ 1 \in Children
         /\ Writing(k, del) \in IterEntries /\ ~(Writing(k, del).s <= sequence_)
         /\ child'[1] = child[1] \cup {Writing(k, del)}
         /\ \A c \in Children : c # 1 => child'[c] = child[c]
<1>1. PICK e : e = Writing(k, del)
  OBVIOUS
<1>2. /\ written < StoredSeq + MaxWrites /\ written' = written + 1
      /\ child' = [child EXCEPT ![1] = @ \cup {e}]
      /\ sequence_' = sequence_
  BY <1>1 DEF Writes
<1>3. /\ written \in Nat /\ sequence_ \in Nat /\ sequence_ <= written /\ StoredSeq <= written
      /\ StoredSeq \in Nat /\ MaxWrites \in Nat
  BY IteratorAssumption DEF Numbered
<1>4. e \in IterEntries /\ e.s = written + 1
  BY <1>1, <1>2, <1>3 DEF IterEntries, Writing
<1>5. /\ 1 \in Children /\ child'[1] = child[1] \cup {e}
      /\ \A c \in Children : c # 1 => child'[c] = child[c]
  BY <1>2, IteratorAssumption DEF Numbered
<1>6. All' = All \cup {e}
  BY <1>5 DEF All
<1>7. ~(e.s <= sequence_) /\ \A f \in All : f.s <= written /\ f.s \in Nat
  <2>1. \A f \in All : f \in IterEntries
    BY DEF Numbered, All
  <2>2. QED
    BY <1>3, <1>4, <2>1, EntryType DEF Numbered
<1>8. Seen' = Seen
  BY <1>2, <1>6, <1>7 DEF Seen
<1>9. \A j : Visible(j)' = Visible(j)
  <2>1. \A j : Visible(j) = {f \in Seen : f.k = j}
    BY DEF Visible, Seen, All
  <2>2. \A j : Visible(j)' = {f \in Seen' : f.k = j}
    BY DEF Visible, Seen, All
  <2>3. QED
    BY <1>8, <2>1, <2>2
<1>10. Table' = Table /\ \A j : NewestOf(j)' = NewestOf(j)
  BY <1>9 DEF Table, Shows, NewestOf
<1>11. Numbered'
  <2>1. child' \in [Children -> SUBSET IterEntries]
    BY <1>2, <1>4 DEF Numbered
  <2>2. written' \in StoredSeq..StoredSeq + MaxWrites /\ sequence_' \in 0..StoredSeq
    BY <1>2, <1>3 DEF Numbered
  <2>3. \A f \in All' : f.s <= written'
    BY <1>2, <1>3, <1>4, <1>6, <1>7
  <2>4. e \notin All /\ \A f \in All : f.s # e.s
    BY <1>3, <1>4, <1>7
  <2>5. Apart(All')
    BY <1>6, <2>4 DEF Numbered, Apart
  <2>6. \A c \in Children : e \notin child[c]
    BY <2>4 DEF All
  <2>7. \A c, d \in Children : c # d => child'[c] \cap child'[d] = {}
    BY <1>5, <2>6 DEF Numbered
  <2>8. QED
    BY <2>1, <2>2, <2>3, <2>5, <2>7 DEF Numbered
<1>12. QED
  BY <1>1, <1>2, <1>3, <1>4, <1>5, <1>7, <1>8, <1>10, <1>11

LEMMA WriteBesideKeeps ==
  ASSUME IInv, NEW k \in UserKeys, NEW del \in BOOLEAN, WriteBeside(k, del)
  PROVE  IInv'
<1>1. Numbered /\ ScanTypes
  BY DEF IInv
<1>2. Writes(k, del) /\ UNCHANGED <<at, current_, mergeDir, direction_, valid_, saved, loop, flag, cursor>>
  BY DEF WriteBeside
<1>3. /\ Numbered' /\ Seen' = Seen /\ Table' = Table /\ \A j : NewestOf(j)' = NewestOf(j)
      /\ sequence_' = sequence_
      /\ \A c \in Children : /\ child[c] \in SUBSET child'[c]
                             /\ \A f \in child'[c] : f.s <= sequence_ => f \in child[c]
  BY <1>1, <1>2, WritesUnseen
<1>4. entry' = entry
  BY <1>2 DEF entry
<1>5. loop # "back" => Merged'
  BY <1>2, <1>3, <1>4 DEF IInv, Merged
<1>6. ScanTypes'
  BY <1>1, <1>2 DEF ScanTypes
<1>7. loop = "back" => Returning'
  BY <1>2, <1>3, <1>4 DEF IInv, InBack, Returning
<1>8. InNext' /\ InBack'
  BY <1>2, <1>3, <1>4, <1>7 DEF IInv, InNext, InBack, Ahead
<1>9. InPrev'
  BY <1>2, <1>3, <1>4 DEF IInv, InPrev, Behind
<1>10. Idle'
  BY <1>2, <1>3, <1>4 DEF IInv, Idle
<1>11. QED
  BY <1>2, <1>3, <1>5, <1>6, <1>8, <1>9, <1>10 DEF IInv

\* A write in the midst of a turn brings the memtable's position behind the
\* current entry, and so in front of no smaller key.
LEMMA BackTurnBesideKeeps ==
  ASSUME IInv, NEW k \in UserKeys, NEW del \in BOOLEAN, BackTurnBeside(k, del)
  PROVE  IInv'
<1>1. Numbered /\ ScanTypes /\ loop = "back" /\ InBack /\ Returning /\ entry.k >= saved.k
  BY DEF IInv, BackTurnBeside, InBack
<1>2. PICK e : e = Writing(k, del)
  OBVIOUS
<1>3. PICK pos : pos = [c \in Children |-> IF c = 1 THEN e ELSE Prior(c, entry)]
  OBVIOUS
<1>4. Writes(k, del) /\ Reverse(pos) /\ LeavesKey /\ cursor' = cursor /\ Precedes(entry, e)
  BY <1>2, <1>3 DEF BackTurnBeside
<1>5. /\ Numbered' /\ Seen' = Seen /\ Table' = Table /\ \A j : NewestOf(j)' = NewestOf(j)
      /\ sequence_' = sequence_ /\ e \in IterEntries
      /\ child'[1] = child[1] \cup {e}
      /\ \A c \in Children : c # 1 => child'[c] = child[c]
  BY <1>1, <1>2, <1>4, WritesUnseen
<1>6. entry \in IterEntries /\ entry.k \in Nat /\ saved.k \in Nat /\ e.k \in Nat /\ entry.k <= e.k /\ e # Nowhere
  BY <1>1, <1>4, <1>5, EntryType, Ordered DEF Returning, entry, ScanTypes, Nowhere
<1>7. ASSUME NEW c \in Children
      PROVE  /\ pos[c] \in child'[c] \cup {Nowhere}
             /\ \A f \in child'[c] : f.s <= sequence_ /\ f.k < saved.k => pos[c] # Nowhere /\ ~Precedes(pos[c], f)
  <2>1. \A f \in child'[c] : f.k \in Nat
    BY <1>5, EntryType DEF Numbered
  <2>2. CASE c = 1
    <3>1. pos[c] = e
      BY <1>3, <2>2
    <3>2. \A f \in child'[c] : f.k < saved.k => ~Precedes(e, f)
      BY <1>1, <1>6, <2>1 DEF Precedes
    <3>3. QED
      BY <1>5, <1>6, <2>2, <3>1, <3>2
  <2>3. CASE c # 1
    <3>1. pos[c] = Prior(c, entry) /\ child'[c] = child[c]
      BY <1>3, <1>5, <2>3
    <3>2. \A f \in child[c] : f.k < saved.k => Precedes(f, entry)
      BY <1>1, <1>6, <2>1, <3>1 DEF Precedes
    <3>3. QED
      BY <1>1, <3>1, <3>2, PriorIs
  <2>4. QED
    BY <2>2, <2>3
<1>8. pos \in [Children -> IterEntries \cup {Nowhere}]
  <2>1. \A c \in Children : pos[c] \in IterEntries \cup {Nowhere}
    BY <1>5, <1>7 DEF Numbered
  <2>2. QED
    BY <1>3, <2>1
<1>9. QED
  BY <1>1, <1>4, <1>5, <1>6, <1>7, <1>8, BackStep

LEMMA IterInitHolds == IterInit => IInv
<1> SUFFICES ASSUME IterInit
             PROVE  IInv
  OBVIOUS
<1>1. PICK home \in [1..StoredSeq -> Children], keyOf \in [1..StoredSeq -> UserKeys],
           dels \in SUBSET (1..StoredSeq) :
        child = [c \in Children |-> {[k |-> keyOf[s], s |-> s, del |-> s \in dels] :
                                        s \in {t \in 1..StoredSeq : home[t] = c}}]
  BY DEF IterInit
<1>2. /\ sequence_ \in StoredSeq - 1..StoredSeq /\ written = StoredSeq
      /\ at = [c \in Children |-> Nowhere] /\ current_ = 0
      /\ mergeDir = "forward" /\ direction_ = "forward"
      /\ valid_ = FALSE /\ saved = Nowhere /\ loop = "none" /\ flag = FALSE /\ cursor = 0
  BY DEF IterInit
<1>3. StoredSeq \in Nat /\ StoredSeq > 0 /\ MaxWrites \in Nat
  BY IteratorAssumption
<1>4. ASSUME NEW c \in Children, NEW e \in child[c]
      PROVE  /\ e \in IterEntries /\ e.s \in 1..StoredSeq /\ home[e.s] = c
             /\ e = [k |-> keyOf[e.s], s |-> e.s, del |-> e.s \in dels]
  <2>1. PICK s \in 1..StoredSeq : home[s] = c /\ e = [k |-> keyOf[s], s |-> s, del |-> s \in dels]
    BY <1>1
  <2>2. e.s = s /\ e.k = keyOf[s] /\ e.del = (s \in dels)
    BY <2>1
  <2>3. s \in 1..StoredSeq + MaxWrites
    BY <1>3
  <2>4. e \in IterEntries
    BY <2>1, <2>3 DEF IterEntries
  <2>5. QED
    BY <2>1, <2>2, <2>4
<1>5. Numbered
  <2>1. child \in [Children -> SUBSET IterEntries]
    BY <1>1, <1>4
  <2>2. \A e \in All : e.s <= written
    BY <1>2, <1>4 DEF All
  <2>3. Apart(All)
    BY <1>4 DEF Apart, All
  <2>4. \A c, d \in Children : c # d => child[c] \cap child[d] = {}
    BY <1>4
  <2>5. written \in StoredSeq..StoredSeq + MaxWrites /\ sequence_ \in 0..StoredSeq
    BY <1>2, <1>3
  <2>6. QED
    BY <2>1, <2>2, <2>3, <2>4, <2>5 DEF Numbered
<1>6. Merged
  BY <1>2 DEF Merged
<1>7. QED
  BY <1>2, <1>5, <1>6 DEF IInv, ScanTypes, InNext, InBack, InPrev, Idle

LEMMA IInvKept == IInv /\ [IterNext]_iterVars => IInv'
<1> SUFFICES ASSUME IInv, [IterNext]_iterVars
             PROVE  IInv'
  OBVIOUS
<1>1. ASSUME NEW k \in UserKeys, Seek(k)
      PROVE  IInv'
  BY <1>1, IterSeekKeeps
<1>2. CASE SeekToFirst
  BY <1>2, SeekToFirstKeeps
<1>3. CASE SeekToLast
  BY <1>3, SeekToLastKeeps
<1>4. direction_ = "forward" \/ direction_ = "reverse"
  BY DEF IInv, ScanTypes
<1>5. CASE NextKey
  BY <1>4, <1>5, NextForwardKeeps, NextReverseKeeps
<1>6. CASE PrevKey
  BY <1>4, <1>6, PrevForwardKeeps, PrevReverseKeeps
<1>7. CASE NextTurn
  BY <1>7, NextTurnKeeps
<1>8. CASE BackTurn
  BY <1>8, BackTurnKeeps
<1>9. CASE PrevTurn
  BY <1>9, PrevTurnEnds, PrevTurnGoesOn
<1>10. ASSUME NEW k \in UserKeys, NEW del \in BOOLEAN, WriteBeside(k, del) \/ BackTurnBeside(k, del)
       PROVE  IInv'
  BY <1>10, WriteBesideKeeps, BackTurnBesideKeeps
<1>11. CASE UNCHANGED iterVars
  <2>1. UNCHANGED dataVars /\ UNCHANGED <<at, current_, mergeDir, direction_, valid_, saved, loop, flag, cursor>>
    BY <1>11 DEF iterVars, dataVars
  <2>2. Seen' = Seen /\ Table' = Table /\ (\A k : NewestOf(k)' = NewestOf(k)) /\ Numbered' /\ entry' = entry
    BY <2>1, TableStays DEF IInv, entry
  <2>3. (loop # "back" => Merged') /\ ScanTypes'
    BY <2>1, <2>2 DEF IInv, Merged, ScanTypes, dataVars
  <2>4. InNext' /\ InBack'
    BY <2>1, <2>2 DEF IInv, InNext, InBack, Returning, Ahead, dataVars
  <2>5. InPrev' /\ Idle'
    BY <2>1, <2>2 DEF IInv, InPrev, Idle, Behind
  <2>6. QED
    BY <2>1, <2>2, <2>3, <2>4, <2>5 DEF IInv
<1>12. QED
  BY <1>1, <1>2, <1>3, <1>5, <1>6, <1>7, <1>8, <1>9, <1>10, <1>11 DEF IterNext

LEMMA IInvAlways == IterSpec => []IInv
BY IterInitHolds, IInvKept, PTL DEF IterSpec

\* The iterator keeps its variables in their types; a loop has an entry to go on from.
THEOREM IteratorTypes == IterSpec => []IterTypeOK
<1>1. IInv => IterTypeOK
  BY DEF IInv, Numbered, Merged, ScanTypes, InNext, InBack, Returning, IterTypeOK
<1>2. QED
  BY <1>1, IInvAlways, PTL

\* However calls, turns of direction and writes beside them follow each
\* other, the iterator shows the key and the value of a cursor over the
\* snapshot's table (DBIter, MergingIterator).
THEOREM IteratorShowsSnapshot == IterSpec => []IteratorIsACursor
<1>1. IInv => IteratorIsACursor
  <2> SUFFICES ASSUME IInv, loop = "none"
               PROVE  /\ valid_ <=> cursor # 0
                      /\ valid_ /\ direction_ = "forward" => entry = First(Visible(cursor))
                      /\ valid_ /\ direction_ = "reverse" =>
                            /\ saved = First(Visible(cursor))
                            /\ current_ # 0 => entry.k < cursor
    BY DEF IteratorIsACursor
  <2>1. QED
    BY DEF IInv, Idle, NewestOf
<1>2. QED
  BY <1>1, IInvAlways, PTL

-----------------------------------------------------------------------------
(* Everything about tables in one behaviour.                               *)

\* Whichever part a behaviour is about, each part sees a behaviour of its own
\* in which the others stand still.
THEOREM TablesAreParts == Spec => FilesSpec /\ TableSpec /\ IterSpec
<1>1. Init => FilesInit /\ TableInit /\ IterInit
  BY DEF Init
<1>2. [Next]_partVars => [FilesNext]_fileVars
  BY DEF Next, FilesStep, IndexStep, IteratorStep, partVars
<1>3. [Next]_partVars => [TableNextState]_tableVars
  BY DEF Next, FilesStep, IndexStep, IteratorStep, partVars
<1>4. [Next]_partVars => [IterNext]_iterVars
  BY DEF Next, FilesStep, IndexStep, IteratorStep, partVars
<1>5. QED
  BY <1>1, <1>2, <1>3, <1>4, PTL DEF Spec, FilesSpec, TableSpec, IterSpec

\* Versions and handles in use have references, and files and iterators are
\* what their types say (VersionSet, TableCache, DBIter).
THEOREM StorageTypes == Spec => []StorageTypesOK
<1>1. FilesTypeOK /\ IterTypeOK => StorageTypesOK
  BY DEF StorageTypesOK
<1>2. QED
  BY <1>1, TablesAreParts, FilesTypes, IteratorTypes, PTL
================================================================================
