--------------------------- MODULE AppPartsProofs ----------------------------
(***************************************************************************)
(* Money, red packets and the map, for any amounts that can be typed, any  *)
(* group and any number of packets, requests and sheets.                   *)
(*                                                                         *)
(* Conversions: single precision is exact to half a step of a 24-bit       *)
(* mantissa, so the product with 100 is off by less than what the cut or   *)
(* the rounding can turn into more than a fen.                             *)
(*                                                                         *)
(* Sending: while a user waits, sheets and requests hold the amount of the *)
(* label, which was checked against the limit; every order carries a fresh *)
(* id, so no packet is announced twice.                                    *)
(*                                                                         *)
(* Opening: the server gives a packet only while it is not got, so there   *)
(* is at most one answer "given" for it, in flight or come back; while it  *)
(* is in flight nothing has been told.                                     *)
(*                                                                         *)
(* The map: a change is in flight only while the button is disabled, so    *)
(* there is one at a time; a question that is alone has none beside it,    *)
(* and its answer is what the server still has.  With a change in flight,  *)
(* what is saved is what the server had before it, and the change asks for *)
(* the opposite.                                                           *)
(***************************************************************************)
EXTENDS MCAppParts, FiniteSetTheorems, SequenceTheorems, TLAPS

-----------------------------------------------------------------------------
(* Integers: quotients and rounding.                                       *)

LEMMA Quotient ==
  ASSUME NEW D \in Nat \ {0}, NEW k \in Int, NEW r \in Nat, r < D
  PROVE  (k * D + r) \div D = k /\ (k * D + r) % D = r
  BY Z3

LEMMA Divided ==
  ASSUME NEW D \in Nat \ {0}, NEW x \in Nat
  PROVE  x \div D \in Nat /\ x % D \in Nat /\ x % D < D /\ x = (x \div D) * D + (x % D)
  BY Z3

\* RoundEven is at most half a step off.
LEMMA HalfAStep ==
  ASSUME NEW D \in Nat \ {0}, NEW x \in Nat
  PROVE  /\ RoundEven(x, D) \in Nat
         /\ 2 * (x - RoundEven(x, D) * D) <= D
         /\ 2 * (RoundEven(x, D) * D - x) <= D
<1> DEFINE q == x \div D
           r == x % D
<1>1. q \in Nat /\ r \in Nat /\ r < D /\ x = q * D + r
  BY Divided
<1>2. RoundEven(x, D) = IF 2 * r > D \/ (2 * r = D /\ q % 2 = 1) THEN q + 1 ELSE q
  BY DEF RoundEven
<1> HIDE DEF q, r
<1>3. (q + 1) * D = q * D + D /\ q * D \in Nat
  BY <1>1, Z3
<1>4. CASE 2 * r > D \/ (2 * r = D /\ q % 2 = 1)
  BY <1>1, <1>2, <1>3, <1>4, Z3
<1>5. CASE ~(2 * r > D \/ (2 * r = D /\ q % 2 = 1))
  BY <1>1, <1>2, <1>3, <1>5, Z3
<1>6. QED
  BY <1>4, <1>5

\* What lies within a step of n is cut to n or n - 1, and within half a step
\* it is rounded to n.
LEMMA WithinAStep ==
  ASSUME NEW D \in Nat \ {0}, NEW n \in Nat \ {0}, NEW x \in Nat, x - n * D < D, n * D - x < D
  PROVE  /\ x \div D \in {n - 1, n}
         /\ RoundEven(x, D) \in {n - 1, n, n + 1}
         /\ 2 * (x - n * D) < D /\ 2 * (n * D - x) < D => RoundEven(x, D) = n
<1>1. n * D \in Nat /\ (n - 1) * D = n * D - D
  BY Z3
<1>2. CASE x >= n * D
  <2> DEFINE r == x - n * D
  <2>1. r \in Nat /\ r < D /\ x = n * D + r
    BY <1>1, <1>2, Z3
  <2> HIDE DEF r
  <2>2. x \div D = n /\ x % D = r
    BY <2>1, Quotient
  <2>3. RoundEven(x, D) = IF 2 * r > D \/ (2 * r = D /\ n % 2 = 1) THEN n + 1 ELSE n
    BY <2>2 DEF RoundEven
  <2>4. 2 * (x - n * D) < D => ~(2 * r >= D)
    BY <1>1, <2>1, Z3
  <2>5. QED
    BY <2>1, <2>2, <2>3, <2>4
<1>3. CASE x < n * D
  <2> DEFINE r == x - (n - 1) * D
  <2>1. r \in Nat /\ r < D /\ x = (n - 1) * D + r /\ n - 1 \in Int /\ n * D - x = D - r
    BY <1>1, <1>3, Z3
  <2> HIDE DEF r
  <2>2. x \div D = n - 1 /\ x % D = r
    BY <2>1, Quotient
  <2>3. RoundEven(x, D) = IF 2 * r > D \/ (2 * r = D /\ (n - 1) % 2 = 1) THEN n - 1 + 1 ELSE n - 1
    BY <2>2 DEF RoundEven
  <2>4. 2 * (n * D - x) < D => 2 * r > D
    BY <2>1
  <2>5. n - 1 + 1 = n
    OBVIOUS
  <2>6. QED
    BY <2>2, <2>3, <2>4, <2>5
<1>4. QED
  BY <1>1, <1>2, <1>3, Z3

-----------------------------------------------------------------------------
(* Conversions, for what can be typed and some more.                       *)

\* In fen: single precision has seven binary places up to the one, and eight
\* below the other.
MaxFen == 13107199
Exact == 6553600

LEMMA PowersOfTwo ==
  ASSUME NEW s \in 0..30
  PROVE  /\ 2^s \in Nat \ {0}
         /\ s < 7 => 2^s <= 64
         /\ s = 7 => 2^s = 128
         /\ s > 7 => 2^s >= 256
<1>1. CASE s = 0  BY <1>1, Z3
<1>2. CASE s = 1  BY <1>2, Z3
<1>3. CASE s = 2  BY <1>3, Z3
<1>4. CASE s = 3  BY <1>4, Z3
<1>5. CASE s = 4  BY <1>5, Z3
<1>6. CASE s = 5  BY <1>6, Z3
<1>7. CASE s = 6  BY <1>7, Z3
<1>8. CASE s = 7  BY <1>8, Z3
<1>9. CASE s = 8  BY <1>9, Z3
<1>10. CASE s = 9  BY <1>10, Z3
<1>11. CASE s = 10  BY <1>11, Z3
<1>12. CASE s = 11  BY <1>12, Z3
<1>13. CASE s = 12  BY <1>13, Z3
<1>14. CASE s = 13  BY <1>14, Z3
<1>15. CASE s = 14  BY <1>15, Z3
<1>16. CASE s = 15  BY <1>16, Z3
<1>17. CASE s = 16  BY <1>17, Z3
<1>18. CASE s = 17  BY <1>18, Z3
<1>19. CASE s = 18  BY <1>19, Z3
<1>20. CASE s = 19  BY <1>20, Z3
<1>21. CASE s = 20  BY <1>21, Z3
<1>22. CASE s = 21  BY <1>22, Z3
<1>23. CASE s = 22  BY <1>23, Z3
<1>24. CASE s = 23  BY <1>24, Z3
<1>25. CASE s = 24  BY <1>25, Z3
<1>26. CASE s = 25  BY <1>26, Z3
<1>27. CASE s = 26  BY <1>27, Z3
<1>28. CASE s = 27  BY <1>28, Z3
<1>29. CASE s = 28  BY <1>29, Z3
<1>30. CASE s = 29  BY <1>30, Z3
<1>31. CASE s = 30  BY <1>31, Z3
<1>32. s = 0 \/ s = 1 \/ s = 2 \/ s = 3 \/ s = 4 \/ s = 5 \/ s = 6 \/ s = 7 \/ s = 8 \/ s = 9 \/ s = 10 \/ s = 11 \/ s = 12 \/ s = 13 \/ s = 14 \/ s = 15 \/ s = 16 \/ s = 17 \/ s = 18 \/ s = 19 \/ s = 20 \/ s = 21 \/ s = 22 \/ s = 23 \/ s = 24 \/ s = 25 \/ s = 26 \/ s = 27 \/ s = 28 \/ s = 29 \/ s = 30
  BY Z3
<1>33. QED
  BY <1>1, <1>2, <1>3, <1>4, <1>5, <1>6, <1>7, <1>8, <1>9, <1>10, <1>11, <1>12, <1>13, <1>14, <1>15, <1>16, <1>17, <1>18, <1>19, <1>20, <1>21, <1>22, <1>23, <1>24, <1>25, <1>26, <1>27, <1>28, <1>29, <1>30, <1>31, <1>32, Zenon

LEMMA EnoughPlaces ==
  ASSUME NEW n \in Nat \ {0}, n <= MaxFen
  PROVE  /\ Places(n) \in 7..30 /\ 2^Places(n) \in Nat \ {0}
         /\ (2^Places(n) = 128 /\ n >= Exact) \/ 2^Places(n) >= 256
         /\ 100 * MinMantissa <= n * 2^Places(n) /\ n * 2^Places(n) < 100 * MaxMantissa
<1> DEFINE Fits(s) == 100 * MinMantissa <= n * 2^s /\ n * 2^s < 100 * MaxMantissa
<1>1. Fits(7) \/ Fits(8) \/ Fits(9) \/ Fits(10) \/ Fits(11) \/ Fits(12) \/ Fits(13) \/ Fits(14) \/ Fits(15) \/ Fits(16) \/ Fits(17) \/ Fits(18) \/ Fits(19) \/ Fits(20) \/ Fits(21) \/ Fits(22) \/ Fits(23) \/ Fits(24) \/ Fits(25) \/ Fits(26) \/ Fits(27) \/ Fits(28) \/ Fits(29) \/ Fits(30)
  BY Z3 DEF MinMantissa, MaxMantissa, MaxFen
<1>2. 100 * MinMantissa = 838860800 /\ 100 * MaxMantissa = 1677721600 /\ MaxFen = 13107199 /\ Exact = 6553600
  BY Z3 DEF MinMantissa, MaxMantissa, MaxFen, Exact
<1> HIDE DEF Fits
<1>3. \E s \in 0..30 : Fits(s)
  BY <1>1, Z3
<1>4. Places(n) \in 0..30 /\ Fits(Places(n))
  <2>1. Places(n) = CHOOSE s \in 0..30 : Fits(s)
    BY DEF Places, Fits
  <2>2. QED
    BY <1>3, <2>1, Zenon
<1> DEFINE s == Places(n)
           D == 2^s
<1>5. /\ D \in Nat \ {0}
      /\ s < 7 => D <= 64
      /\ s = 7 => D = 128
      /\ s > 7 => D >= 256
  BY <1>4, PowersOfTwo
<1>6. 100 * MinMantissa <= n * D /\ n * D < 100 * MaxMantissa
  BY <1>4, Zenon DEF Fits
<1> HIDE DEF s, D
<1>7. s \in 0..30
  BY <1>4 DEF s
<1>8. D > 64
  <2> SUFFICES ASSUME D <= 64 PROVE FALSE
    BY <1>5, Z3
  <2>1. n * D <= 13107199 * 64
    BY <1>2, <1>5, Z3
  <2>2. QED
    BY <1>2, <1>5, <1>6, <2>1, Z3
<1>9. s = 7 \/ s > 7
  BY <1>5, <1>7, <1>8, Z3
<1>10. D = 128 => n >= Exact
  BY <1>2, <1>6, Z3
<1>11. QED
  BY <1>5, <1>6, <1>7, <1>9, <1>10, Z3 DEF s, D

\* floatValue is half a unit of its last binary place off, and times a
\* hundred two and a bit.
LEMMA Float ==
  ASSUME NEW n \in Nat \ {0}, n <= MaxFen
  PROVE  \E D \in Nat \ {0}, m \in Nat, x \in Nat :
            /\ D = 2^Places(n) /\ ((D = 128 /\ n >= Exact) \/ D >= 256)
            /\ FloatValue(n) = <<m, Places(n)>>
            /\ 100 * m - n * D <= 50 /\ n * D - 100 * m <= 50
            /\ TimesHundred(FloatValue(n)) = <<x, Places(n)>>
            /\ x - n * D <= 114 /\ n * D - x <= 114
<1> DEFINE s == Places(n)
           D == 2^s
           m == RoundEven(n * D, 100)
           p == 100 * m
           unit == IF p < 2^30 THEN 2^6 ELSE 2^7
           x == unit * RoundEven(p, unit)
<1>1. /\ D \in Nat \ {0}
      /\ (D = 128 /\ n >= Exact) \/ D >= 256
      /\ 100 * MinMantissa <= n * D /\ n * D < 100 * MaxMantissa
  BY EnoughPlaces, Zenon
<1>2. n * D \in Nat
  BY <1>1, Z3
<1>3. FloatValue(n) = <<m, s>>
  BY DEF FloatValue
<1>4. 2^6 = 64 /\ 2^7 = 128 /\ MinMantissa = 8388608
  BY Z3 DEF MinMantissa
<1> HIDE DEF s, D
<1>5. m \in Nat /\ 2 * (n * D - m * 100) <= 100 /\ 2 * (m * 100 - n * D) <= 100
  <2>1. 100 \in Nat \ {0}
    BY Z3
  <2>2. \A y \in Nat : /\ RoundEven(y, 100) \in Nat
                       /\ 2 * (y - RoundEven(y, 100) * 100) <= 100
                       /\ 2 * (RoundEven(y, 100) * 100 - y) <= 100
    BY <2>1, HalfAStep
  <2>3. QED
    BY <1>2, <2>2
<1> HIDE DEF m
<1>6. 100 * m - n * D <= 50 /\ n * D - 100 * m <= 50 /\ p \in Nat /\ p # 0
  BY <1>1, <1>2, <1>4, <1>5, Z3
<1>7. unit \in Nat \ {0} /\ unit <= 128
  BY <1>4
<1>8. TimesHundred(<<m, s>>) = <<x, s>>
  BY <1>6 DEF TimesHundred
<1> HIDE DEF unit, p
<1>9. RoundEven(p, unit) \in Nat /\ 2 * (p - RoundEven(p, unit) * unit) <= unit /\ 2 * (RoundEven(p, unit) * unit - p) <= unit
  BY <1>6, <1>7, HalfAStep
<1>10. x \in Nat /\ 2 * (p - x) <= 128 /\ 2 * (x - p) <= 128
  <2>1. RoundEven(p, unit) * unit = x /\ x \in Nat
    BY <1>7, <1>9, Z3
  <2> HIDE DEF x
  <2>2. QED
    BY <1>6, <1>7, <1>9, <2>1, Z3
<1> HIDE DEF x
<1>11. x - n * D <= 114 /\ n * D - x <= 114
  BY <1>2, <1>6, <1>10, Z3 DEF p
<1>12. QED
  BY <1>1, <1>3, <1>5, <1>6, <1>8, <1>10, <1>11, Zenon DEF s, D

LEMMA NoMoney == SentFen(0) = 0 /\ WalletFen(0) = 0 /\ LabelFen(0) = 0
<1>1. PICK s \in 0..30 : FloatValue(0) = <<0, s>> /\ TimesHundred(<<0, s>>) = <<0, s>>
  <2>1. FloatValue(0) = <<0, 0>> /\ TimesHundred(<<0, 0>>) = <<0, 0>> /\ 0 \in 0..30
    BY DEF FloatValue, TimesHundred
  <2>2. QED
    BY <2>1
<1> DEFINE D == 2^s
<1>2. SentFen(0) = 0 \div D /\ WalletFen(0) = RoundEven(0, D) /\ LabelFen(0) = RoundEven(0, D)
  BY <1>1 DEF SentFen, WalletFen, LabelFen, Truncated, Rounded, Shown
<1>3. D \in Nat \ {0}
  BY PowersOfTwo
<1> HIDE DEF D
<1>4. 0 \div D = 0 /\ 0 % D = 0
  BY <1>3, Z3
<1>5. RoundEven(0, D) = 0
  BY <1>3, <1>4 DEF RoundEven
<1>6. QED
  BY <1>2, <1>4, <1>5

\* What is asked for, and what the label shows.
LEMMA Conversions ==
  ASSUME NEW n \in Nat, n <= MaxFen
  PROVE  /\ SentFen(n) \in {n - 1, n} /\ SentFen(n) \in Nat
         /\ WalletFen(n) \in IF n < Exact THEN {n} ELSE {n - 1, n, n + 1}
         /\ LabelFen(n) = n
<1>1. CASE n = 0
  BY <1>1, NoMoney
<1>2. CASE n # 0
  <2>1. PICK D \in Nat \ {0}, m \in Nat, x \in Nat :
            /\ D = 2^Places(n) /\ ((D = 128 /\ n >= Exact) \/ D >= 256)
            /\ FloatValue(n) = <<m, Places(n)>>
            /\ 100 * m - n * D <= 50 /\ n * D - 100 * m <= 50
            /\ TimesHundred(FloatValue(n)) = <<x, Places(n)>>
            /\ x - n * D <= 114 /\ n * D - x <= 114
    BY <1>2, Float
  <2>2. n * D \in Nat /\ 100 * m \in Nat
    BY Z3
  <2>3. SentFen(n) = x \div D /\ WalletFen(n) = RoundEven(x, D)
    BY <2>1 DEF SentFen, WalletFen, Truncated, Rounded
  <2>4. LabelFen(n) = RoundEven(100 * m, D)
    BY <2>1 DEF LabelFen, Shown
  <2>5. D >= 128 /\ (n < Exact => D >= 256)
    <3>1. Exact \in Nat
      BY Z3 DEF Exact
    <3>2. QED
      BY <2>1, <3>1, Z3
  <2>6. /\ x \div D \in {n - 1, n}
        /\ RoundEven(x, D) \in {n - 1, n, n + 1}
        /\ 2 * (x - n * D) < D /\ 2 * (n * D - x) < D => RoundEven(x, D) = n
    <3>1. x - n * D < D /\ n * D - x < D
      BY <2>1, <2>2, <2>5, Z3
    <3>2. QED
      BY <1>2, <3>1, WithinAStep
  <2>7. n < Exact => 2 * (x - n * D) < D /\ 2 * (n * D - x) < D
    BY <2>1, <2>2, <2>5, Z3
  <2>8. RoundEven(100 * m, D) = n
    <3>1. 100 * m - n * D < D /\ n * D - 100 * m < D /\ 2 * (100 * m - n * D) < D /\ 2 * (n * D - 100 * m) < D
      BY <2>1, <2>2, <2>5, Z3
    <3>2. QED
      BY <1>2, <2>2, <3>1, WithinAStep
  <2>9. n - 1 \in Nat
    BY <1>2, Z3
  <2>10. SentFen(n) \in {n - 1, n} /\ SentFen(n) \in Nat
    BY <2>3, <2>6, <2>9
  <2>11. WalletFen(n) \in IF n < Exact THEN {n} ELSE {n - 1, n, n + 1}
    BY <2>3, <2>6, <2>7
  <2>12. QED
    BY <2>4, <2>8, <2>10, <2>11
<1>3. QED
  BY <1>1, <1>2

-----------------------------------------------------------------------------
(* The walk through the amounts.                                           *)

\* Where the walk is, from one of its starts.
OnTheWalk == fen \in Nat /\ \E s \in Starts : s <= fen /\ fen <= s + Stretch

LEMMA WalkGoesOn ==
  ASSUME Starts \subseteq Nat, Stretch \in Nat
  PROVE  AppSpec => []OnTheWalk
<1>1. AppInit => OnTheWalk
  BY DEF AppInit, OnTheWalk
<1>2. OnTheWalk /\ [AppNext]_partsVars => OnTheWalk'
  <2> SUFFICES ASSUME OnTheWalk, [AppNext]_partsVars PROVE OnTheWalk'
    OBVIOUS
  <2>1. CASE MoneyStep
    <3>1. PICK s \in Starts : s <= fen /\ fen <= s + Stretch
      BY DEF OnTheWalk
    <3>2. fen \in Nat /\ fen' = fen + 1 /\ fen # s + Stretch
      BY <2>1, <3>1 DEF MoneyStep, OnTheWalk
    <3>3. s <= fen' /\ fen' <= s + Stretch /\ fen' \in Nat
      BY <3>1, <3>2
    <3>4. QED
      BY <3>3 DEF OnTheWalk
  <2>2. CASE SendStep \/ OpenStep \/ MapStep \/ BucketStep \/ UNCHANGED partsVars
    BY <2>2 DEF SendStep, OpenStep, MapStep, BucketStep, partsVars, OnTheWalk
  <2>3. QED
    BY <2>1, <2>2 DEF AppNext
<1>3. QED
  BY <1>1, <1>2, PTL DEF AppSpec

\* Every amount below 131072 yuan keeps its value on its way to the server,
\* but for a fen and at the places that are named: floatValue, the product
\* with 100 and the cut or the rounding at every call site.
THEOREM AmountsAreKept ==
  ASSUME Starts \subseteq Nat, Stretch \in Nat, \A s \in Starts : s + Stretch <= MaxFen
  PROVE  AppSpec => []AmountsKept
<1>1. OnTheWalk => AmountsKept
  <2> SUFFICES ASSUME OnTheWalk PROVE AmountsKept
    OBVIOUS
  <2>1. PICK s \in Starts : s <= fen /\ fen <= s + Stretch
    BY DEF OnTheWalk
  <2>2. MaxFen \in Nat /\ Exact = 6553600
    BY Z3 DEF MaxFen, Exact
  <2>3. fen \in Nat /\ fen <= MaxFen
    BY <2>1, <2>2 DEF OnTheWalk
  <2>4. /\ SentFen(fen) \in {fen - 1, fen}
        /\ WalletFen(fen) \in IF fen < Exact THEN {fen} ELSE {fen - 1, fen, fen + 1}
        /\ LabelFen(fen) = fen
    BY <2>3, Conversions
  <2>5. QED
    BY <2>2, <2>4, Z3 DEF AmountsKept
<1>2. QED
  BY <1>1, WalkGoesOn, PTL

-----------------------------------------------------------------------------
(* Sending: types, amounts and limits.                                     *)

NetOK == net \subseteq Requests /\ IsFiniteSet(net) /\ Cardinality(net) <= MaxRequests

\* A text that reads as a number, or none, is what the label shows.
LabelFollows == form.text.is # "junk" => form.label = form.text.fen

\* No reply is awaited by a form that is gone.
NobodyWaits == ~form.open => Waiting = {}

Agreed(x) == form.text.is = "number" => x = form.label
Allowed == form.label <= IF form.kind = "private" THEN Limit ELSE Limit * form.count

\* No sheet of the form is up.
Idle == {"none", "stale"}

\* While a patient user's payment is under way, the sheets and requests hold
\* the amount of the label, which is within the limit.
Promise ==
    patient /\ form.open =>
        /\ \A r \in net : r.op \in {"ask", "verify"} => Agreed(r.shown)
        /\ sheet.at \in {"pay", "password"} => Agreed(sheet.shown)
        /\ Waiting # {} \/ sheet.at \notin Idle => Allowed
        /\ Waiting # {} \/ sheet.at \in {"password", "wrong"} =>
                (form.kind = "private" => Agreed(form.pay))

\* What the two properties say of a packet.
GoodPacket(p) ==
    p.patient /\ p.plain =>
        /\ p.amount \in {p.shown - 1, p.shown}
        /\ p.kind = "private" => p.amount <= Limit
        /\ p.kind = "group" /\ p.random => p.amount <= Limit * p.count

GoodPackets ==
    /\ \A p \in packets : GoodPacket(p)
    /\ \A r \in net : r.op = "create" => GoodPacket(r.packet)

SInv == TypeOK /\ IsFiniteSet(net) /\ LabelFollows /\ NobodyWaits /\ Promise /\ GoodPackets

\* What can be typed is converted as it should be.
LEMMA FenFacts ==
  /\ Fen \subseteq Nat /\ 0 \in Fen /\ Amounts \subseteq Fen
  /\ \A x \in Fen : LabelFen(x) = x /\ SentFen(x) \in {x - 1, x} /\ SentFen(x) \in Nat
<1>1. MostTyped \in Nat /\ MaxFen \in Nat /\ MostTyped <= MaxFen
  BY Z3 DEF MostTyped, MaxFen
<1>2. \A a \in Amounts \cup {0} : a \in Nat /\ a <= MaxFen
  BY <1>1, RedPacketAssumption
<1>3. \A a \in Amounts \cup {0} : LabelFen(a) = a /\ SentFen(a) \in {a - 1, a} /\ SentFen(a) \in Nat
  BY <1>2, Conversions
<1>4. \A x : x \in Fen <=> x \in Amounts \cup {0}
  BY <1>3 DEF Fen
<1>5. QED
  BY <1>2, <1>3, <1>4

LEMMA FormFields ==
  ASSUME form \in Forms
  PROVE  /\ form.open \in BOOLEAN /\ form.kind \in {"private", "group"} /\ form.text \in Texts
         /\ form.label \in Fen /\ form.count \in 0..Members /\ form.random \in BOOLEAN /\ form.pay \in Fen
         /\ form.text.is \in {"none", "number", "junk"} /\ form.text.fen \in Fen
<1>1. \A t \in Texts : t.is \in {"none", "number", "junk"} /\ t.fen \in Fen
  BY FenFacts DEF Texts, Empty
<1>2. QED
  BY <1>1 DEF Forms

LEMMA SheetShows ==
  /\ sheet \in Sheets => /\ sheet.at \in {"pay", "password"} => sheet.shown \in Fen
                         /\ sheet = NoSheet <=> sheet.at = "none"
                         /\ sheet.at \in {"none", "pay", "password", "wrong", "stale"}
  /\ NoSheet \in Sheets /\ [at |-> "wrong"] \in Sheets /\ [at |-> "stale"] \in Sheets
  /\ \A x \in Fen : [at |-> "pay", shown |-> x] \in Sheets /\ [at |-> "password", shown |-> x] \in Sheets
  BY DEF Sheets, NoSheet

LEMMA RequestShows ==
  /\ \A r \in Requests : /\ r.op \in {"ask", "verify", "retry", "create", "stale"}
                         /\ r.op \in {"ask", "verify"} => r.shown \in Fen
                         /\ r.op = "create" => r.packet \in Packets
                         /\ r.op = "retry" => r = [op |-> "retry"]
  /\ \A x \in Fen : [op |-> "ask", shown |-> x] \in Requests /\ [op |-> "verify", shown |-> x] \in Requests
  /\ [op |-> "retry"] \in Requests
  /\ \A p \in Packets : [op |-> "create", packet |-> p] \in Requests
  /\ \A w \in {"ask", "verify", "retry"} : [op |-> "stale", was |-> w] \in Requests
  BY DEF Requests

LEMMA FewerRequests == ASSUME NetOK, net' \subseteq net PROVE NetOK'
  BY FS_Subset, FS_CardinalityType, RedPacketAssumption DEF NetOK

LEMMA OneMoreRequest == ASSUME NetOK, NEW r \in Requests, Send(r) PROVE NetOK'
  BY FS_AddElement DEF NetOK, Send

\* What becomes of the requests of a form that is gone.
LEMMA Forsakes ==
  ASSUME NEW S \in SUBSET Requests, S \subseteq net
  PROVE  /\ Forsaken(S) \subseteq Requests
         /\ \A r \in Forsaken(S) : r.op \in {"stale", "create"} /\ (r.op = "create" => r \in S)
<1> SUFFICES ASSUME NEW r \in S, NEW q, q = IF r \in Waiting THEN Stale(r) ELSE r
             PROVE  q \in Requests /\ q.op \in {"stale", "create"} /\ (q.op = "create" => q \in S)
  BY DEF Forsaken
<1>1. CASE r \in Waiting
  <2>1. r.op \in {"ask", "verify", "retry"} /\ q = Stale(r)
    BY <1>1 DEF Waiting
  <2>2. q \in Requests /\ q.op = "stale"
    BY <2>1, RequestShows DEF Stale
  <2>3. QED
    BY <2>2
<1>2. CASE r \notin Waiting
  BY <1>2, RequestShows DEF Waiting
<1>3. QED
  BY <1>1, <1>2

LEMMA ForsakenFinite ==
  ASSUME NEW S, IsFiniteSet(S)
  PROVE  IsFiniteSet(Forsaken(S)) /\ Cardinality(Forsaken(S)) <= Cardinality(S)
<1> DEFINE f == [r \in S |-> IF r \in Waiting THEN Stale(r) ELSE r]
<1>1. f \in Surjection(S, Forsaken(S))
  BY DEF Surjection, Forsaken
<1>2. QED
  BY <1>1, FS_Surjection

LEMMA OneForAnother ==
  ASSUME NetOK, NEW r \in net, NEW new \in Requests, net' = Forsaken(net \ {r}) \cup {new}
  PROVE  NetOK'
<1> DEFINE m == Forsaken(net \ {r})
<1>1. IsFiniteSet(net) /\ Cardinality(net) \in Nat /\ Cardinality(net) <= MaxRequests
  BY FS_CardinalityType DEF NetOK
<1>2. IsFiniteSet(net \ {r}) /\ Cardinality(net \ {r}) = Cardinality(net) - 1
  BY <1>1, FS_RemoveElement
<1>3. IsFiniteSet(m) /\ Cardinality(m) <= Cardinality(net) - 1 /\ Cardinality(m) \in Nat
  BY <1>2, ForsakenFinite, FS_CardinalityType
<1>4. m \subseteq Requests
  BY Forsakes DEF NetOK
<1>5. net' = m \cup {new}
  OBVIOUS
<1> HIDE DEF m
<1>6. /\ IsFiniteSet(m \cup {new})
      /\ Cardinality(m \cup {new}) = IF new \in m THEN Cardinality(m) ELSE Cardinality(m) + 1
  BY <1>3, FS_AddElement
<1>7. Cardinality(m \cup {new}) <= MaxRequests
  BY <1>1, <1>3, <1>6, RedPacketAssumption
<1>8. IsFiniteSet(net') /\ Cardinality(net') <= MaxRequests
  BY <1>5, <1>6, <1>7, Zenon
<1>9. QED
  BY <1>4, <1>5, <1>8 DEF NetOK

\* Steps that leave the packets and the orders alone.
LEMMA NoNewPacket ==
  ASSUME SInv, UNCHANGED <<packets, chat, asked>>, NetOK', form' \in Forms, sheet' \in Sheets,
         patient' \in BOOLEAN, \A r \in net' : r.op = "create" => r \in net,
         LabelFollows', NobodyWaits', Promise'
  PROVE  SInv'
<1>1. TypeOK'
  BY DEF SInv, TypeOK, NetOK
<1>2. GoodPackets'
  BY DEF SInv, GoodPackets, GoodPacket
<1>3. QED
  BY <1>1, <1>2 DEF SInv, NetOK

LEMMA SInvGives ==
  ASSUME SInv
  PROVE  /\ NetOK /\ form \in Forms /\ sheet \in Sheets /\ patient \in BOOLEAN
         /\ packets \subseteq Packets /\ asked \in 0..MaxPackets
         /\ chat \in Seq([kind : {"private", "group"}, id : 0..MaxPackets])
  BY DEF SInv, TypeOK, NetOK

\* A touch of a field: nothing is under way, or the user is impatient.
LEMMA EditKeeps ==
  ASSUME SInv, NEW f \in Forms, Edit(f), f.open, f.text.is # "junk" => f.label = f.text.fen
  PROVE  SInv'
<1>1. /\ form' = f /\ sheet = NoSheet /\ UNCHANGED <<sheet, net, packets, chat, asked>>
      /\ patient' = (patient /\ Waiting = {})
  BY DEF Edit
<1>2. NetOK' /\ sheet' \in Sheets
  BY <1>1, SInvGives DEF NetOK
<1>3. patient' \in BOOLEAN
  BY <1>1, SInvGives, Zenon
<1>4. LabelFollows' /\ NobodyWaits'
  BY <1>1 DEF LabelFollows, NobodyWaits
<1>5. Promise'
  <2>1. CASE patient'
    <3>1. Waiting = {}
      BY <1>1, <2>1, Zenon
    <3>2. Waiting' = {} /\ \A r \in net' : r.op \notin {"ask", "verify"}
      <4>1. \A r \in net : r.op \notin {"ask", "verify"}
        BY <3>1 DEF Waiting
      <4>2. QED
        BY <1>1, <3>1, <4>1 DEF Waiting
    <3>3. sheet' = NoSheet /\ sheet'.at = "none"
      BY <1>1 DEF NoSheet
    <3>4. QED
      BY <3>2, <3>3 DEF Promise, Idle
  <2>2. CASE ~patient'
    BY <2>2 DEF Promise
  <2>3. QED
    BY <2>1, <2>2
<1>6. QED
  BY <1>1, <1>2, <1>3, <1>4, <1>5, NoNewPacket

\* What Promise says of a form that is open, in one place.
LEMMA Promised ==
  ASSUME SInv, patient, form.open
  PROVE  /\ \A r \in net : r.op \in {"ask", "verify"} => Agreed(r.shown)
         /\ sheet.at \in {"pay", "password"} => Agreed(sheet.shown)
         /\ Waiting # {} \/ sheet.at \notin Idle => Allowed
         /\ Waiting # {} \/ sheet.at \in {"password", "wrong"} => (form.kind = "private" => Agreed(form.pay))
  BY DEF SInv, Promise

LEMMA OpenFormKeeps == ASSUME SInv, NEW kind \in {"private", "group"}, OpenForm(kind) PROVE SInv'
<1>1. /\ form' = Form(TRUE, kind) /\ sheet = NoSheet /\ UNCHANGED <<sheet, net, packets, chat, asked>>
      /\ patient' = TRUE /\ ~form.open
  BY DEF OpenForm
<1>2. form' \in Forms /\ form'.open /\ form'.text.is # "junk" => form'.label = form'.text.fen
  BY <1>1, FenFacts, RedPacketAssumption DEF Form, Forms, Texts, Empty
<1>3. NetOK' /\ sheet' \in Sheets
  BY <1>1, SInvGives DEF NetOK
<1>4. Waiting' = {}
  BY <1>1 DEF SInv, NobodyWaits, Waiting
<1>5. LabelFollows' /\ NobodyWaits'
  BY <1>1, <1>4 DEF LabelFollows, NobodyWaits, Form, Empty
<1>6. Promise'
  <2>1. \A r \in net' : r.op \notin {"ask", "verify"}
    BY <1>4 DEF Waiting
  <2>2. sheet' = NoSheet /\ sheet'.at = "none"
    BY <1>1 DEF NoSheet
  <2>3. QED
    BY <1>4, <2>1, <2>2 DEF Promise, Idle
<1>7. form' \in Forms
  BY <1>1, FenFacts, RedPacketAssumption DEF Form, Forms, Texts, Empty
<1>8. QED
  BY <1>1, <1>3, <1>5, <1>6, <1>7, NoNewPacket

LEMMA GoneIsAForm == Gone \in Forms /\ ~Gone.open /\ Gone.text.is = "none" /\ Gone.label = Gone.text.fen
  BY FenFacts, RedPacketAssumption DEF Gone, Form, Forms, Texts, Empty

LEMMA CancelFormKeeps == ASSUME SInv, CancelForm PROVE SInv'
<1>1. /\ form' = Gone /\ net' = Forsaken(net) /\ UNCHANGED <<sheet, packets, chat, asked, patient>>
  BY DEF CancelForm
<1>2. IsFiniteSet(net) /\ Cardinality(net) \in Nat /\ Cardinality(net) <= MaxRequests
  BY SInvGives, FS_CardinalityType DEF NetOK
<1>3. IsFiniteSet(net') /\ Cardinality(net') \in Nat /\ Cardinality(net') <= Cardinality(net)
  BY <1>1, <1>2, ForsakenFinite, FS_CardinalityType
<1>4. net' \subseteq Requests /\ \A r \in net' : r.op \in {"stale", "create"} /\ (r.op = "create" => r \in net)
  BY <1>1, Forsakes, SInvGives DEF NetOK
<1>5. NetOK' /\ sheet' \in Sheets /\ patient' \in BOOLEAN
  BY <1>1, <1>2, <1>3, <1>4, SInvGives, RedPacketAssumption DEF NetOK
<1>6. Waiting' = {}
  BY <1>4 DEF Waiting
<1>7. LabelFollows' /\ NobodyWaits' /\ Promise'
  BY <1>1, <1>6, GoneIsAForm DEF LabelFollows, NobodyWaits, Promise
<1>8. QED
  BY <1>1, <1>4, <1>5, <1>7, GoneIsAForm, NoNewPacket

LEMMA TypingKeeps ==
  ASSUME SInv, \/ \E t \in Typed : TypeMoney(t)
               \/ TypeTooMuch
               \/ \E c \in 1..(Members + 1) : TypeCount(c)
               \/ ChangeType
  PROVE  SInv'
<1>1. form \in Forms
  BY SInvGives
<1>2. form.text.is # "junk" => form.label = form.text.fen
  BY DEF SInv, LabelFollows
<1>3. ASSUME NEW t \in Typed, TypeMoney(t) PROVE SInv'
  <2> DEFINE f == [form EXCEPT !.text = t, !.label = IF t.is = "junk" THEN form.label ELSE LabelFen(t.fen)]
  <2>1. t \in Texts /\ t.fen \in Fen
    BY FenFacts DEF Typed, Texts, Empty
  <2>2. LabelFen(t.fen) = t.fen
    BY <2>1, FenFacts
  <2>3. f \in Forms /\ f.open = form.open /\ f.text = t /\ (t.is # "junk" => f.label = t.fen)
    BY <1>1, <2>1, <2>2 DEF Forms
  <2>4. Edit(f) /\ form.open
    BY <1>3 DEF TypeMoney, Edit
  <2> HIDE DEF f
  <2>5. QED
    BY <2>3, <2>4, EditKeeps
<1>4. CASE TypeTooMuch
  <2> DEFINE f == [form EXCEPT !.text = [is |-> "number", fen |-> form.label]]
  <2>1. [is |-> "number", fen |-> form.label] \in Texts
    BY <1>1, FormFields DEF Texts
  <2>2. f \in Forms /\ f.open = form.open /\ f.text.fen = f.label
    BY <1>1, <2>1 DEF Forms
  <2>3. Edit(f) /\ form.open
    BY <1>4 DEF TypeTooMuch, Edit
  <2> HIDE DEF f
  <2>4. QED
    BY <2>2, <2>3, EditKeeps
<1>5. ASSUME NEW c \in 1..(Members + 1), TypeCount(c) PROVE SInv'
  <2> DEFINE f == [form EXCEPT !.count = IF c > Members THEN Members ELSE c]
  <2>1. (IF c > Members THEN Members ELSE c) \in 0..Members
    BY RedPacketAssumption
  <2>2. f \in Forms /\ f.open = form.open /\ f.text = form.text /\ f.label = form.label
    BY <1>1, <2>1 DEF Forms
  <2>3. Edit(f) /\ form.open
    BY <1>5 DEF TypeCount, Edit
  <2> HIDE DEF f
  <2>4. QED
    BY <1>2, <2>2, <2>3, EditKeeps
<1>6. CASE ChangeType
  <2> DEFINE f == [form EXCEPT !.random = ~form.random]
  <2>1. (~form.random) \in BOOLEAN
    BY Zenon
  <2>2. f \in Forms /\ f.open = form.open /\ f.text = form.text /\ f.label = form.label
    BY <1>1, <2>1 DEF Forms
  <2>3. Edit(f) /\ form.open
    BY <1>6 DEF ChangeType, Edit
  <2> HIDE DEF f
  <2>4. QED
    BY <1>2, <2>2, <2>3, EditKeeps
<1>7. QED
  BY <1>3, <1>4, <1>5, <1>6

\* The button: nothing else is under way, or the user is impatient.
LEMMA SureKeeps == ASSUME SInv, Sure PROVE SInv'
<1> DEFINE x == IF form.kind = "private" THEN form.label ELSE form.text.fen
<1>1. /\ form.open /\ form.text.is # "none" /\ sheet = NoSheet /\ sheet' = [at |-> "pay", shown |-> x]
      /\ patient' = (patient /\ Waiting = {}) /\ UNCHANGED <<form, net, packets, chat, asked>>
      /\ IF form.kind = "private" THEN form.label <= Limit ELSE form.label <= Limit * form.count
  BY DEF Sure, Show
<1>2. form \in Forms /\ x \in Fen
  BY SInvGives, FormFields
<1>3. form' \in Forms /\ NetOK' /\ sheet' \in Sheets
  BY <1>1, <1>2, SInvGives, SheetShows DEF NetOK
<1>4. patient' \in BOOLEAN
  BY <1>1, SInvGives, Zenon
<1>5. LabelFollows' /\ NobodyWaits'
  BY <1>1 DEF SInv, LabelFollows, NobodyWaits, Waiting
<1>6. Promise'
  <2> SUFFICES ASSUME patient' PROVE Promise'
    BY DEF Promise
  <2>1. Waiting = {}
    BY <1>1, Zenon
  <2>2. Waiting' = {} /\ \A r \in net' : r.op \notin {"ask", "verify"}
    BY <1>1, <2>1 DEF Waiting
  <2>3. Allowed'
    BY <1>1 DEF Allowed
  <2>4. sheet'.at = "pay" /\ sheet'.shown = x
    BY <1>1
  <2>5. form.text.is = "number" => x = form.label
    BY DEF SInv, LabelFollows
  <2> HIDE DEF x
  <2>6. form'.text.is = "number" => sheet'.shown = form'.label
    BY <1>1, <2>4, <2>5
  <2>7. QED
    BY <2>2, <2>3, <2>4, <2>6 DEF Promise, Agreed
<1>7. QED
  BY <1>1, <1>3, <1>4, <1>5, <1>6, NoNewPacket

LEMMA PayKeeps == ASSUME SInv, Pay PROVE SInv'
<1>1. sheet.at = "pay" /\ sheet' = NoSheet /\ UNCHANGED <<packets, chat, asked, patient>>
  BY DEF Pay, Hide
<1>2. form \in Forms /\ sheet.shown \in Fen /\ sheet' \in Sheets /\ sheet'.at = "none" /\ sheet # NoSheet
  BY <1>1, SInvGives, SheetShows DEF NoSheet
<1>0. patient' \in BOOLEAN
  BY <1>1, SInvGives, Zenon
<1>3. CASE ~form.open
  <2>1. UNCHANGED <<form, net>>
    BY <1>3 DEF Pay
  <2>2. NetOK' /\ Waiting' = Waiting
    BY <2>1, SInvGives DEF NetOK, Waiting
  <2>3. LabelFollows' /\ NobodyWaits' /\ Promise'
    BY <1>3, <2>1, <2>2 DEF SInv, LabelFollows, NobodyWaits, Promise
  <2>4. QED
    BY <1>0, <1>1, <1>2, <2>1, <2>2, <2>3, NoNewPacket
<1>4. CASE form.open
  <2> DEFINE r == [op |-> "ask", shown |-> sheet.shown]
             f == [form EXCEPT !.pay = IF form.kind = "private" THEN sheet.shown ELSE @]
  <2>1. form' = f /\ Send(r) /\ net' = net \cup {r}
    BY <1>4 DEF Pay, Send
  <2>2. f \in Forms /\ f.open = form.open /\ f.text = form.text /\ f.label = form.label
        /\ f.kind = form.kind /\ f.count = form.count /\ (form.kind = "private" => f.pay = sheet.shown)
    BY <1>2, FormFields DEF Forms
  <2>3. r \in Requests /\ r.op = "ask" /\ r.shown = sheet.shown
    BY <1>2, RequestShows
  <2> HIDE DEF r, f
  <2>4. NetOK'
    BY <2>1, <2>3, OneMoreRequest, SInvGives
  <2>5. LabelFollows' /\ NobodyWaits'
    BY <1>4, <2>1, <2>2 DEF SInv, LabelFollows, NobodyWaits
  <2>6. Promise'
    <3> SUFFICES ASSUME patient PROVE Promise'
      BY <1>1 DEF Promise
    <3>1. /\ \A q \in net : q.op \in {"ask", "verify"} => Agreed(q.shown)
          /\ Agreed(sheet.shown) /\ Allowed
      BY <1>1, <1>2, <1>4, Promised DEF Idle
    <3>2. Allowed'
      BY <2>1, <2>2, <3>1 DEF Allowed
    <3>4. \A q \in net' : q.op \in {"ask", "verify"} => (form'.text.is = "number" => q.shown = form'.label)
      BY <2>1, <2>2, <2>3, <3>1 DEF Agreed
    <3>5. form'.kind = "private" => (form'.text.is = "number" => form'.pay = form'.label)
      BY <2>1, <2>2, <3>1 DEF Agreed
    <3>6. QED
      BY <1>2, <3>2, <3>4, <3>5 DEF Promise, Agreed
  <2>7. \A q \in net' : q.op = "create" => q \in net
    BY <2>1, <2>3
  <2>8. QED
    BY <1>0, <1>1, <1>2, <2>1, <2>2, <2>4, <2>5, <2>6, <2>7, NoNewPacket
<1>5. QED
  BY <1>3, <1>4

\* Steps that only move a promised amount between the sheet and a request.
LEMMA PromiseMoves ==
  ASSUME SInv, UNCHANGED <<form, packets, chat, asked, patient>>, NetOK', sheet' \in Sheets,
         \A r \in net' : r.op = "create" => r \in net,
         form.open => /\ \A r \in net' : r.op \in {"ask", "verify"} =>
                            \/ r \in net
                            \/ sheet.at \in {"pay", "password"} /\ r.shown = sheet.shown
                      /\ sheet'.at \in {"pay", "password"} =>
                            \/ sheet' = sheet
                            \/ \E r \in net : r.op \in {"ask", "verify"} /\ sheet'.shown = r.shown
                      /\ Waiting' # {} \/ sheet'.at \notin Idle => Waiting # {} \/ sheet.at \notin Idle
                      /\ Waiting' # {} \/ sheet'.at \in {"password", "wrong"} =>
                            Waiting # {} \/ sheet.at \in {"password", "wrong"},
         ~form.open => Waiting' = {}
  PROVE  SInv'
<1>1. form' \in Forms
  BY SInvGives
<1>2. patient' \in BOOLEAN
  BY SInvGives, Zenon
<1>3. LabelFollows' /\ NobodyWaits'
  BY DEF SInv, LabelFollows, NobodyWaits
<1>4. Promise'
  <2> SUFFICES ASSUME patient, form.open PROVE Promise'
    BY DEF Promise
  <2>1. /\ \A r \in net : r.op \in {"ask", "verify"} => Agreed(r.shown)
        /\ sheet.at \in {"pay", "password"} => Agreed(sheet.shown)
        /\ Waiting # {} \/ sheet.at \notin Idle => Allowed
        /\ Waiting # {} \/ sheet.at \in {"password", "wrong"} => (form.kind = "private" => Agreed(form.pay))
    BY Promised
  <2>2. \A r \in net' : r.op \in {"ask", "verify"} => Agreed(r.shown)
    BY <2>1
  <2>3. sheet'.at \in {"pay", "password"} => Agreed(sheet'.shown)
    BY <2>1
  <2>4. QED
    BY <2>1, <2>2, <2>3 DEF Promise, Agreed, Allowed
<1>5. QED
  BY <1>1, <1>2, <1>3, <1>4, NoNewPacket

LEMMA CancelSheetKeeps == ASSUME SInv, CancelSheet PROVE SInv'
<1>1. sheet # NoSheet /\ sheet' = NoSheet /\ UNCHANGED <<form, net, packets, chat, asked, patient>>
  BY DEF CancelSheet, Hide
<1>2. NetOK' /\ sheet' \in Sheets /\ sheet'.at = "none" /\ Waiting' = Waiting
  BY <1>1, SInvGives, SheetShows DEF NetOK, NoSheet, Waiting
<1>3. ~form.open => Waiting' = {}
  BY <1>2 DEF SInv, NobodyWaits
<1>4. QED
  BY <1>1, <1>2, <1>3, PromiseMoves DEF Idle

LEMMA AskAnsweredKeeps == ASSUME SInv, NEW r \in net, AskAnswered(r) PROVE SInv'
<1>1. r.op = "ask" /\ net' = net \ {r} /\ UNCHANGED <<form, packets, chat, asked, patient>>
  BY DEF AskAnswered
<1>2. sheet' = sheet \/ (sheet = NoSheet /\ sheet' = [at |-> "password", shown |-> r.shown])
  BY DEF AskAnswered, Show
<1>3. NetOK' /\ r.shown \in Fen /\ r \in Waiting
  BY <1>1, FewerRequests, SInvGives, RequestShows DEF NetOK, Waiting
<1>4. sheet' \in Sheets
  BY <1>2, <1>3, SheetShows, SInvGives
<1>5. form.open /\ Waiting # {}
  BY <1>3 DEF SInv, NobodyWaits
<1>6. sheet'.at \in {"pay", "password"} => sheet' = sheet \/ sheet'.shown = r.shown
  BY <1>2
<1>7. QED
  BY <1>1, <1>3, <1>4, <1>5, <1>6, PromiseMoves

LEMMA EnterPasswordKeeps == ASSUME SInv, EnterPassword PROVE SInv'
<1>1. sheet.at = "password" /\ sheet' = NoSheet /\ UNCHANGED <<form, packets, chat, asked, patient>>
  BY DEF EnterPassword, Hide
<1>2. sheet.shown \in Fen /\ sheet' \in Sheets /\ sheet'.at = "none" /\ sheet # NoSheet
  BY <1>1, SInvGives, SheetShows DEF NoSheet
<1>3. CASE ~form.open
  <2>1. net' = net
    BY <1>3 DEF EnterPassword
  <2>2. NetOK' /\ Waiting' = {}
    BY <1>3, <2>1, SInvGives DEF SInv, NobodyWaits, NetOK, Waiting
  <2>3. QED
    BY <1>1, <1>2, <1>3, <2>1, <2>2, PromiseMoves
<1>4. CASE form.open
  <2> DEFINE r == [op |-> "verify", shown |-> sheet.shown]
  <2>1. Send(r) /\ net' = net \cup {r}
    BY <1>4 DEF EnterPassword, Send
  <2>2. r \in Requests /\ r.op = "verify" /\ r.shown = sheet.shown
    BY <1>2, RequestShows
  <2> HIDE DEF r
  <2>3. NetOK'
    BY <2>1, <2>2, OneMoreRequest, SInvGives
  <2>4. QED
    BY <1>1, <1>2, <1>4, <2>1, <2>2, <2>3, PromiseMoves DEF Idle
<1>5. QED
  BY <1>3, <1>4

LEMMA RetryKeeps == ASSUME SInv, Retry PROVE SInv'
<1>1. sheet.at = "wrong" /\ sheet' = NoSheet /\ UNCHANGED <<form, packets, chat, asked, patient>>
  BY DEF Retry, Hide
<1>2. sheet' \in Sheets /\ sheet'.at = "none" /\ sheet # NoSheet
  BY <1>1, SInvGives, SheetShows DEF NoSheet
<1>3. CASE ~form.open
  <2>1. net' = net
    BY <1>3 DEF Retry
  <2>2. NetOK' /\ Waiting' = {}
    BY <1>3, <2>1, SInvGives DEF SInv, NobodyWaits, NetOK, Waiting
  <2>3. QED
    BY <1>1, <1>2, <1>3, <2>1, <2>2, PromiseMoves
<1>4. CASE form.open
  <2> DEFINE r == [op |-> "retry"]
  <2>1. Send(r) /\ net' = net \cup {r}
    BY <1>4 DEF Retry, Send
  <2>2. r \in Requests /\ r.op = "retry"
    BY RequestShows
  <2> HIDE DEF r
  <2>3. NetOK'
    BY <2>1, <2>2, OneMoreRequest, SInvGives
  <2>4. QED
    BY <1>1, <1>2, <1>4, <2>1, <2>2, <2>3, PromiseMoves DEF Idle
<1>5. QED
  BY <1>3, <1>4

\* The second password sheet shows what the first one did.
LEMMA RetryFiresKeeps == ASSUME SInv, RetryFires PROVE SInv'
<1> DEFINE r == [op |-> "retry"]
           x == IF form.kind = "private" THEN form.pay ELSE form.label
<1>1. /\ r \in net /\ net' = net \ {r} /\ sheet = NoSheet /\ sheet' = [at |-> "password", shown |-> x]
      /\ UNCHANGED <<form, packets, chat, asked, patient>>
  BY DEF RetryFires, Show
<1>2. r.op = "retry"
  OBVIOUS
<1> HIDE DEF r
<1>3. r \in Waiting
  BY <1>1, <1>2 DEF Waiting
<1>4. form.open /\ Waiting # {}
  BY <1>3 DEF SInv, NobodyWaits
<1>5. form \in Forms /\ x \in Fen
  BY SInvGives, FormFields
<1>6. NetOK' /\ sheet' \in Sheets /\ form' \in Forms
  BY <1>1, <1>5, FewerRequests, SInvGives, SheetShows
<1>7. patient' \in BOOLEAN
  BY <1>1, SInvGives, Zenon
<1>8. LabelFollows' /\ NobodyWaits'
  BY <1>1, <1>4 DEF SInv, LabelFollows, NobodyWaits
<1>9. Promise'
  <2> SUFFICES ASSUME patient PROVE Promise'
    BY <1>1 DEF Promise
  <2>1. /\ \A q \in net : q.op \in {"ask", "verify"} => Agreed(q.shown)
        /\ Allowed /\ (form.kind = "private" => Agreed(form.pay))
    BY <1>4, Promised
  <2>2. Agreed(x)
    BY <2>1 DEF Agreed
  <2> HIDE DEF x
  <2>3. sheet'.shown = x /\ \A q \in net' : q \in net
    BY <1>1
  <2>4. QED
    BY <1>1, <2>1, <2>2, <2>3 DEF Promise, Agreed, Allowed
<1>10. QED
  BY <1>1, <1>6, <1>7, <1>8, <1>9, NoNewPacket

\* What is ordered is what was shown and promised.
LEMMA AtMost ==
  ASSUME NEW s \in Nat, NEW l \in Nat, NEW m \in Nat, s \in {l - 1, l}, l <= m
  PROVE  s <= m
  OBVIOUS

LEMMA GoodOrder ==
  ASSUME SInv, NEW r \in net, r.op = "verify", asked < MaxPackets
  PROVE  Order(r.shown) \in Packets /\ GoodPacket(Order(r.shown))
<1> DEFINE p == Order(r.shown)
           a == IF form.kind = "private" THEN form.label ELSE form.text.fen
<1>1. /\ form.open \in BOOLEAN /\ form.kind \in {"private", "group"} /\ form.text \in Texts
      /\ form.label \in Fen /\ form.count \in 0..Members /\ form.random \in BOOLEAN
      /\ form.text.fen \in Fen
  BY SInvGives, FormFields
<1>2. /\ p = [id |-> asked + 1, kind |-> form.kind, amount |-> SentFen(a), count |-> form.count,
               random |-> form.random, shown |-> r.shown, patient |-> patient,
               plain |-> form.text.is = "number"]
  BY DEF Order
<1>3. a \in Fen /\ SentFen(a) \in {a - 1, a} /\ SentFen(a) \in Nat /\ Fen \subseteq Nat
  BY <1>1, FenFacts
<1>4. asked + 1 \in 1..MaxPackets
  BY SInvGives, RedPacketAssumption
<1>5. r.shown \in Fen
  BY SInvGives, RequestShows DEF NetOK
<1>6. patient \in BOOLEAN
  BY SInvGives, Zenon
<1>7. (form.text.is = "number") \in BOOLEAN
  BY Zenon
<1>8. p \in Packets
  <2> HIDE DEF a, p
  <2>1. QED
    BY <1>1, <1>2, <1>3, <1>4, <1>5, <1>6, <1>7 DEF Packets
<1>9. GoodPacket(p)
  <2> SUFFICES ASSUME p.patient, p.plain PROVE GoodPacket(p)
    BY DEF GoodPacket
  <2>1. p.patient = patient /\ p.plain = (form.text.is = "number")
    BY Zenon DEF Order
  <2>2. patient /\ form.text.is = "number"
    BY <2>1, Zenon
  <2>3. r \in Waiting /\ form.open
    BY DEF SInv, NobodyWaits, Waiting
  <2>4. Agreed(r.shown) /\ Allowed
    BY <2>2, <2>3, Promised
  <2>5. r.shown = form.label /\ a = form.label
    BY <2>2, <2>4 DEF Agreed, SInv, LabelFollows
  <2>6. form.kind = "private" => form.label <= Limit
    BY <2>4 DEF Allowed
  <2>7. form.kind = "group" => form.label <= Limit * form.count
    BY <2>4 DEF Allowed
  <2>8. Limit \in Nat /\ Limit * form.count \in Nat
    BY <1>1, RedPacketAssumption
  <2>9. SentFen(a) \in Nat /\ form.label \in Nat /\ SentFen(a) \in {form.label - 1, form.label}
    BY <1>1, <1>3, <2>5
  <2>10. /\ p.amount = SentFen(a) /\ p.kind = form.kind /\ p.count = form.count /\ p.shown = form.label
    BY <1>2, <2>5
  <2> HIDE DEF a, p
  <2>11. form.kind = "private" => SentFen(a) <= Limit
    BY <2>6, <2>8, <2>9, AtMost
  <2>12. form.kind = "group" => SentFen(a) <= Limit * form.count
    BY <2>7, <2>8, <2>9, AtMost
  <2>13. QED
    BY <2>9, <2>10, <2>11, <2>12 DEF GoodPacket
<1>10. QED
  BY <1>8, <1>9

LEMMA PasswordVerifiedKeeps == ASSUME SInv, NEW r \in net, PasswordVerified(r) PROVE SInv'
<1>1. r.op = "verify" /\ UNCHANGED <<packets, chat, patient>>
  BY DEF PasswordVerified
<1>2. r \in Waiting /\ form.open
  BY <1>1 DEF SInv, NobodyWaits, Waiting
<1>3. CASE /\ asked < MaxPackets /\ asked' = asked + 1
           /\ net' = Forsaken(net \ {r}) \cup {[op |-> "create", packet |-> Order(r.shown)]}
           /\ form' = Gone /\ sheet' = sheet
  <2> DEFINE p == Order(r.shown)
             new == [op |-> "create", packet |-> p]
  <2>1. p \in Packets /\ GoodPacket(p)
    BY <1>1, <1>3, GoodOrder
  <2> HIDE DEF p
  <2>2. new \in Requests /\ new.op = "create" /\ new.packet = p
    BY <2>1, RequestShows
  <2>3. net' = Forsaken(net \ {r}) \cup {new}
    BY <1>3 DEF p
  <2> HIDE DEF new
  <2>4. NetOK'
    BY <2>2, <2>3, OneForAnother, SInvGives
  <2>0. \A q \in Forsaken(net \ {r}) : q.op \in {"stale", "create"} /\ (q.op = "create" => q \in net)
    BY Forsakes, SInvGives DEF NetOK
  <2>5. Waiting' = {}
    BY <2>0, <2>2, <2>3 DEF Waiting
  <2>6. LabelFollows' /\ NobodyWaits' /\ Promise'
    BY <1>3, <2>5, GoneIsAForm DEF LabelFollows, NobodyWaits, Promise
  <2>7. GoodPackets'
    BY <1>1, <2>0, <2>1, <2>2, <2>3 DEF SInv, GoodPackets, GoodPacket
  <2>8. asked' \in 0..MaxPackets
    BY <1>3, SInvGives, RedPacketAssumption
  <2>9. patient' \in BOOLEAN
    BY <1>1, SInvGives, Zenon
  <2>10. TypeOK'
    BY <1>1, <1>3, <2>4, <2>8, <2>9, GoneIsAForm, SInvGives DEF TypeOK, NetOK
  <2>11. QED
    BY <2>4, <2>6, <2>7, <2>10 DEF SInv, NetOK
<1>4. CASE net' = net \ {r} /\ sheet = NoSheet /\ sheet' = [at |-> "wrong"] /\ UNCHANGED <<form, asked>>
  <2>1. NetOK' /\ sheet' \in Sheets
    BY <1>4, FewerRequests, SInvGives, SheetShows
  <2>2. sheet'.at = "wrong"
    BY <1>4
  <2>3. QED
    BY <1>1, <1>2, <1>4, <2>1, <2>2, PromiseMoves
<1>5. QED
  BY <1>3, <1>4 DEF PasswordVerified, Show

\* A reply that nobody waits for.
LEMMA StaleReplyKeeps == ASSUME SInv, NEW r \in net, StaleReply(r) PROVE SInv'
<1>1. r.op = "stale" /\ net' = net \ {r} /\ UNCHANGED <<form, packets, chat, asked, patient>>
  BY DEF StaleReply
<1>2. sheet' = sheet \/ sheet' = [at |-> "stale"]
  BY DEF StaleReply, Show
<1>3. NetOK' /\ sheet' \in Sheets
  BY <1>1, <1>2, FewerRequests, SInvGives, SheetShows
<1>4. Waiting' = Waiting
  BY <1>1 DEF Waiting
<1>5. ~form.open => Waiting' = {}
  BY <1>4 DEF SInv, NobodyWaits
<1>6. sheet' = sheet \/ sheet'.at = "stale"
  BY <1>2
<1>7. QED
  BY <1>1, <1>3, <1>4, <1>5, <1>6, PromiseMoves DEF Idle

\* The order has arrived, or not.
LEMMA CreateKeeps ==
  ASSUME SInv, NEW r \in net, CreateAnswered(r) \/ CreateFailed(r)
  PROVE  SInv'
<1>1. /\ r.op = "create" /\ net' = net \ {r} /\ packets' \in {packets, packets \cup {r.packet}}
      /\ UNCHANGED <<form, sheet, asked, patient>>
  BY DEF CreateAnswered, CreateFailed
<1>2. NetOK' /\ r.packet \in Packets
  BY <1>1, FewerRequests, SInvGives, RequestShows DEF NetOK
<1>3. chat' \in Seq([kind : {"private", "group"}, id : 0..MaxPackets])
  <2>1. r.packet.kind \in {"private", "group"} /\ r.packet.id \in 0..MaxPackets /\ NoId \in 0..MaxPackets
    BY <1>2, RedPacketAssumption DEF Packets, NoId
  <2>2. \/ chat' = chat
        \/ \E id \in {NoId, r.packet.id} : chat' = Append(chat, [kind |-> r.packet.kind, id |-> id])
    BY DEF CreateAnswered, CreateFailed, Announce
  <2>3. \A id \in {NoId, r.packet.id} :
            [kind |-> r.packet.kind, id |-> id] \in [kind : {"private", "group"}, id : 0..MaxPackets]
    BY <2>1
  <2>4. \A e \in [kind : {"private", "group"}, id : 0..MaxPackets] :
            Append(chat, e) \in Seq([kind : {"private", "group"}, id : 0..MaxPackets])
    BY SInvGives, AppendProperties
  <2>5. QED
    BY <2>2, <2>3, <2>4, SInvGives, Zenon
<1>4. patient' \in BOOLEAN
  BY <1>1, SInvGives, Zenon
<1>5. TypeOK'
  BY <1>1, <1>2, <1>3, <1>4, SInvGives DEF TypeOK, NetOK
<1>6. Waiting' = Waiting
  BY <1>1 DEF Waiting
<1>7. LabelFollows' /\ NobodyWaits'
  BY <1>1, <1>6 DEF SInv, LabelFollows, NobodyWaits
<1>8. Promise'
  BY <1>1, <1>6 DEF SInv, Promise, Agreed, Allowed
<1>9. GoodPackets'
  BY <1>1 DEF SInv, GoodPackets, GoodPacket
<1>10. QED
  BY <1>2, <1>5, <1>7, <1>8, <1>9 DEF SInv, NetOK

LEMMA SInvInit == Init => SInv
<1> SUFFICES ASSUME Init PROVE SInv
  OBVIOUS
<1>1. form = Gone /\ sheet = NoSheet /\ net = {} /\ packets = {} /\ chat = <<>> /\ asked = 0 /\ patient = TRUE
  BY DEF Init
<1>2. IsFiniteSet(net) /\ Cardinality(net) = 0
  BY <1>1, FS_EmptySet
<1>3. TypeOK
  BY <1>1, <1>2, GoneIsAForm, SheetShows, RedPacketAssumption DEF TypeOK
<1>4. Waiting = {}
  BY <1>1 DEF Waiting
<1>5. QED
  BY <1>1, <1>2, <1>3, <1>4, GoneIsAForm DEF SInv, LabelFollows, NobodyWaits, Promise, GoodPackets

LEMMA SInvStep == SInv /\ [Next]_vars => SInv'
<1> SUFFICES ASSUME SInv, [Next]_vars PROVE SInv'
  OBVIOUS
<1>1. CASE Touch
  BY <1>1, OpenFormKeeps, CancelFormKeeps, TypingKeeps, SureKeeps, PayKeeps, EnterPasswordKeeps, RetryKeeps,
     CancelSheetKeeps DEF Touch
<1>2. ASSUME NEW r \in net, Reply(r) PROVE SInv'
  BY <1>2, AskAnsweredKeeps, PasswordVerifiedKeeps, StaleReplyKeeps, CreateKeeps DEF Reply
<1>3. CASE RetryFires
  BY <1>3, RetryFiresKeeps
<1>4. CASE UNCHANGED vars
  <2>1. UNCHANGED <<form, sheet, net, packets, chat, asked, patient>>
    BY <1>4 DEF vars
  <2>2. Waiting' = Waiting
    BY <2>1 DEF Waiting
  <2>3. QED
    BY <2>1, <2>2 DEF SInv, TypeOK, LabelFollows, NobodyWaits, Promise, GoodPackets, GoodPacket, Agreed, Allowed
<1>5. QED
  BY <1>1, <1>2, <1>3, <1>4 DEF Next

LEMMA SInvHolds == Spec => []SInv
  BY SInvInit, SInvStep, PTL DEF Spec

\* Form, sheets, requests and packets are of their types, and no bound is
\* passed.
THEOREM SendTypes == Spec => []TypeOK
<1>1. SInv => TypeOK
  BY DEF SInv
<1>2. QED
  BY <1>1, SInvHolds, PTL

\* A user who waits for the replies pays for what the password sheet showed,
\* less a fen at the most, though every handler reads the form again
\* (senderRedPacket to sureSendRedpacker).
THEOREM PaysWhatWasShown == Spec => []ConfirmedAmount
<1>1. SInv => ConfirmedAmount
  BY DEF SInv, GoodPackets, GoodPacket, ConfirmedAmount
<1>2. QED
  BY <1>1, SInvHolds, PTL

\* ... and what is asked for is within the limit of its kind, though the
\* limit is checked against the label and not against what is sent.
THEOREM PaysWithinLimit == Spec => []WithinLimit
<1>1. SInv => WithinLimit
  BY DEF SInv, GoodPackets, GoodPacket, WithinLimit
<1>2. QED
  BY <1>1, SInvHolds, PTL

-----------------------------------------------------------------------------
(* Sending: the announcements.                                             *)

\* The orders in flight.
Orders == {r \in net : r.op = "create"}

\* The form on screen is of one of the two kinds.
FormKind == "kind" \in DOMAIN form /\ form.kind \in {"private", "group"}

\* What the orders in flight and the announcements have to do with each other.
AInv ==
    /\ asked \in Nat
    /\ chat \in Seq([kind : {"private", "group"}, id : Nat])
    /\ \A i \in 1..Len(chat) : chat[i].id \in 0..asked
    /\ \A r \in Orders :
        /\ r.packet.kind \in {"private", "group"}
        /\ r.packet.id \in 1..asked
        /\ \A i \in 1..Len(chat) : chat[i].id # r.packet.id
    /\ \A r, s \in Orders : r.packet.id = s.packet.id => r = s
    /\ FormKind
    /\ AnnouncedOnce

-----------------------------------------------------------------------------
LEMMA AInvInit == Init => AInv
<1>1. Len(<<>>) = 0 /\ <<>> \in Seq([kind : {"private", "group"}, id : Nat])
  BY EmptySeq
<1> QED BY <1>1 DEF Init, AInv, Orders, AnnouncedOnce, Gone, Form, FormKind

\* Steps that send no order and announce nothing.
LEMMA NoNewOrder ==
    ASSUME AInv, UNCHANGED <<packets, chat, asked>>,
           Orders' \subseteq Orders, FormKind'
    PROVE  AInv'
BY DEF AInv, AnnouncedOnce

\* A request that is answered for nobody is no order.
LEMMA NoOrderForsaken ==
    ASSUME NEW S
    PROVE  \A q \in Forsaken(S) : q.op = "create" => q \in S
BY DEF Forsaken, Stale

\* The password is right: the order that goes out has an id of its own.
LEMMA OrderIsFresh ==
    ASSUME AInv, NEW r \in net, PasswordVerified(r)
    PROVE  AInv'
<1>1. CASE net' = net \ {r} /\ UNCHANGED <<form, asked>>
  <2>1. Orders' \subseteq Orders
    BY <1>1 DEF Orders
  <2> QED BY <1>1, <2>1, NoNewOrder DEF PasswordVerified, AInv, FormKind
<1>2. CASE /\ asked' = asked + 1
           /\ net' = Forsaken(net \ {r}) \cup {[op |-> "create", packet |-> Order(r.shown)]}
           /\ form' = Gone
  <2> DEFINE new == [op |-> "create", packet |-> Order(r.shown)]
  <2>1. new.packet.id = asked + 1 /\ new.packet.kind = form.kind
    BY DEF Order
  <2>2. Orders' \subseteq Orders \cup {new}
    BY <1>2, NoOrderForsaken DEF Orders
  <2>3. UNCHANGED <<packets, chat>>
    BY DEF PasswordVerified
  <2>4. FormKind'
    BY <1>2 DEF Gone, Form, FormKind
  <2>5. \A s \in Orders' : /\ s.packet.kind \in {"private", "group"}
                           /\ s.packet.id \in 1..asked'
                           /\ \A i \in 1..Len(chat') : chat'[i].id # s.packet.id
    <3> SUFFICES ASSUME NEW s \in Orders'
                 PROVE  /\ s.packet.kind \in {"private", "group"}
                        /\ s.packet.id \in 1..asked'
                        /\ \A i \in 1..Len(chat') : chat'[i].id # s.packet.id
      OBVIOUS
    <3>1. CASE s \in Orders
      BY <1>2, <2>3, <3>1 DEF AInv
    <3>2. CASE s = new
      <4>1. \A i \in 1..Len(chat) : chat[i].id \in 0..asked
        BY DEF AInv
      <4> QED BY <1>2, <2>1, <2>3, <3>2, <4>1 DEF AInv, FormKind
    <3> QED BY <2>2, <3>1, <3>2
  <2>6. \A s, t \in Orders' : s.packet.id = t.packet.id => s = t
    <3>1. \A s \in Orders : s.packet.id # new.packet.id
      BY <2>1 DEF AInv
    <3> QED BY <2>2, <3>1 DEF AInv
  <2>7. \A i \in 1..Len(chat') : chat'[i].id \in 0..asked'
    <3>1. \A i \in 1..Len(chat) : chat[i].id \in 0..asked
      BY DEF AInv
    <3> QED BY <1>2, <2>3, <3>1 DEF AInv
  <2>8. AnnouncedOnce'
    BY <2>3 DEF AInv, AnnouncedOnce
  <2> QED BY <1>2, <2>3, <2>4, <2>5, <2>6, <2>7, <2>8 DEF AInv
<1> QED BY <1>1, <1>2 DEF PasswordVerified

\* One more announcement: of the order that leaves, or without an id.
LEMMA OneAnnouncement ==
    ASSUME AInv, NEW r \in Orders, NEW id \in {NoId, r.packet.id},
           net' = net \ {r}, Announce(r.packet, id), UNCHANGED <<form, asked>>,
           packets \subseteq packets',
           id # NoId => r.packet \in packets'
    PROVE  AInv'
<1> DEFINE C == [kind : {"private", "group"}, id : Nat]
           e == [kind |-> r.packet.kind, id |-> id]
           n == Len(chat)
<1>1. r.packet.id \in 1..asked /\ r.packet.kind \in {"private", "group"} /\ asked \in Nat
  BY DEF AInv
<1>2. e \in C /\ id \in Nat /\ id <= asked /\ chat \in Seq(C)
  BY <1>1 DEF AInv, NoId
<1>3. /\ chat' \in Seq(C) /\ Len(chat') = n + 1 /\ n \in Nat
      /\ chat'[n + 1] = e
      /\ \A i \in 1..n : chat'[i] = chat[i]
  BY <1>2, AppendProperties, LenProperties DEF Announce
<1>4. Orders' = Orders \ {r}
  BY DEF Orders
<1>5. \A i \in 1..Len(chat') : chat'[i].id \in 0..asked'
  <2> SUFFICES ASSUME NEW i \in 1..Len(chat') PROVE chat'[i].id \in 0..asked
    OBVIOUS
  <2>1. CASE i = n + 1
    BY <1>1, <1>2, <1>3, <2>1
  <2>2. CASE i # n + 1
    <3>1. i \in 1..n /\ chat'[i] = chat[i]
      BY <1>3, <2>2
    <3> QED BY <3>1 DEF AInv
  <2> QED BY <2>1, <2>2
<1>6. \A s \in Orders' : \A i \in 1..Len(chat') : chat'[i].id # s.packet.id
  <2> SUFFICES ASSUME NEW s \in Orders', NEW i \in 1..Len(chat')
               PROVE  chat'[i].id # s.packet.id
    OBVIOUS
  <2>1. s \in Orders /\ s # r /\ s.packet.id # r.packet.id /\ s.packet.id \in 1..asked
    BY <1>4 DEF AInv
  <2>2. CASE i = n + 1
    BY <1>1, <1>3, <2>1, <2>2 DEF NoId
  <2>3. CASE i # n + 1
    <3>1. i \in 1..n
      BY <1>3, <2>3
    <3> QED BY <1>3, <2>1, <3>1 DEF AInv
  <2> QED BY <2>2, <2>3
<1>7. AnnouncedOnce'
  <2> SUFFICES ASSUME NEW i \in 1..Len(chat'), chat'[i].id # NoId
               PROVE  /\ \E p \in packets' : p.id = chat'[i].id /\ p.kind = chat'[i].kind
                      /\ \A j \in 1..Len(chat') : chat'[j].id = chat'[i].id => j = i
    BY DEF AnnouncedOnce
  <2>1. \A j \in 1..n : chat[j].id # r.packet.id
    BY DEF AInv
  <2>2. CASE i = n + 1
    <3>1. id = r.packet.id /\ r.packet \in packets'
      BY <1>3, <2>2
    <3>2. \A j \in 1..Len(chat') : chat'[j].id = chat'[i].id => j = i
      <4> SUFFICES ASSUME NEW j \in 1..Len(chat'), j # n + 1
                   PROVE  chat'[j].id # r.packet.id
        BY <1>3, <2>2, <3>1
      <4>1. j \in 1..n
        BY <1>3
      <4> QED BY <1>3, <2>1, <4>1
    <3> QED BY SMTT(30), <1>3, <2>2, <3>1, <3>2
  <2>3. CASE i # n + 1
    <3>1. i \in 1..n /\ chat'[i] = chat[i]
      BY <1>3, <2>3
    <3>2. /\ \E p \in packets : p.id = chat[i].id /\ p.kind = chat[i].kind
          /\ \A j \in 1..n : chat[j].id = chat[i].id => j = i
      BY <3>1 DEF AInv, AnnouncedOnce
    <3>3. chat'[n + 1].id # chat[i].id
      BY <1>3, <2>1, <3>1
    <3>4. \A j \in 1..Len(chat') : chat'[j].id = chat'[i].id => j = i
      <4> SUFFICES ASSUME NEW j \in 1..Len(chat'), chat'[j].id = chat[i].id
                   PROVE  j = i
        BY <3>1
      <4>1. j \in 1..n
        BY <1>3, <3>3
      <4> QED BY <1>3, <3>2, <4>1
    <3> QED BY <3>1, <3>2, <3>4
  <2> QED BY <2>2, <2>3
<1> QED BY <1>1, <1>3, <1>4, <1>5, <1>6, <1>7 DEF AInv, FormKind

LEMMA AInvStep == AInv /\ [Next]_vars => AInv'
<1> SUFFICES ASSUME AInv, [Next]_vars PROVE AInv'
  OBVIOUS
<1>0. FormKind
  BY DEF AInv
<1>1. ASSUME NEW kind \in {"private", "group"}, OpenForm(kind) PROVE AInv'
  BY <1>1, NoNewOrder DEF OpenForm, Form, Orders, FormKind
<1>2. CASE CancelForm
  BY <1>2, NoOrderForsaken, NoNewOrder DEF CancelForm, Gone, Form, Orders, FormKind
<1>3. ASSUME NEW t \in Typed, TypeMoney(t) PROVE AInv'
  BY <1>0, <1>3, NoNewOrder DEF TypeMoney, Edit, Orders, FormKind
<1>4. CASE TypeTooMuch \/ ChangeType
  <2>1. CASE TypeTooMuch
    BY <1>0, <2>1, NoNewOrder DEF TypeTooMuch, Edit, Orders, FormKind
  <2>2. CASE ChangeType
    BY <1>0, <2>2, NoNewOrder DEF ChangeType, Edit, Orders, FormKind
  <2> QED BY <1>4, <2>1, <2>2
<1>5. ASSUME NEW c \in 1..(Members + 1), TypeCount(c) PROVE AInv'
  BY <1>0, <1>5, NoNewOrder DEF TypeCount, Edit, Orders, FormKind
<1>6. CASE Sure \/ CancelSheet
  BY <1>0, <1>6, NoNewOrder DEF Sure, CancelSheet, Orders, FormKind
<1>7. CASE Pay
  <2>1. UNCHANGED <<packets, chat, asked>>
    BY <1>7 DEF Pay
  <2>2. CASE UNCHANGED <<form, net>>
    BY <1>0, <2>1, <2>2, NoNewOrder DEF Orders, FormKind
  <2>3. CASE /\ net' = net \cup {[op |-> "ask", shown |-> sheet.shown]}
             /\ \E pay : form' = [form EXCEPT !.pay = pay]
    <3>1. FormKind'
      BY <1>0, <2>3 DEF FormKind
    <3> QED BY <2>1, <2>3, <3>1, NoNewOrder DEF Orders
  <2> QED BY <1>7, <2>2, <2>3 DEF Pay, Send
<1>8. CASE EnterPassword \/ Retry
  BY <1>0, <1>8, NoNewOrder DEF EnterPassword, Retry, Send, Orders, FormKind
<1>9. CASE RetryFires
  BY <1>0, <1>9, NoNewOrder DEF RetryFires, Orders, FormKind
<1>10. ASSUME NEW r \in net, Reply(r) PROVE AInv'
  <2>1. CASE AskAnswered(r)
    BY <1>0, <2>1, NoNewOrder DEF AskAnswered, Orders, FormKind
  <2>2. CASE PasswordVerified(r)
    BY <2>2, OrderIsFresh
  <2>3. CASE CreateAnswered(r)
    BY <2>3, OneAnnouncement DEF CreateAnswered, Orders
  <2>4. CASE CreateFailed(r)
    <3>1. CASE r.packet.kind = "private"
      BY <2>4, <3>1, OneAnnouncement DEF CreateFailed, Orders
    <3>2. CASE r.packet.kind # "private"
      <4>1. /\ UNCHANGED <<chat, form, asked>> /\ packets \subseteq packets'
            /\ Orders' \subseteq Orders
        BY <2>4, <3>2 DEF CreateFailed, Orders
      <4> QED BY <4>1 DEF AInv, AnnouncedOnce, FormKind
    <3> QED BY <3>1, <3>2
  <2>5. CASE StaleReply(r)
    BY <1>0, <2>5, NoNewOrder DEF StaleReply, Orders, FormKind
  <2> QED BY <1>10, <2>1, <2>2, <2>3, <2>4, <2>5 DEF Reply
<1>11. CASE UNCHANGED vars
  BY <1>0, <1>11, NoNewOrder DEF vars, Orders, FormKind
<1>12. CASE Touch
  BY <1>1, <1>2, <1>3, <1>4, <1>5, <1>6, <1>7, <1>8, <1>12 DEF Touch
<1> QED BY <1>9, <1>10, <1>11, <1>12 DEF Next

\* In whatever order replies come, are refused or are lost, an announcement
\* that carries an id names a packet the server has created, and no packet
\* is announced twice (sendRedpackerWithMessage:forRedpackerId:).
THEOREM PacketsAnnouncedOnce == Spec => []AnnouncedOnce
<1>1. Init => AInv
  BY AInvInit
<1>2. AInv /\ [Next]_vars => AInv'
  BY AInvStep
<1>3. AInv => AnnouncedOnce
  BY DEF AInv
<1> QED BY <1>1, <1>2, <1>3, PTL DEF Spec

-----------------------------------------------------------------------------
(* Opening.                                                                *)

States == [left : Nat, expired : BOOLEAN, got : BOOLEAN, own : BOOLEAN]

Calls ==
    [op : {"claim"}, p : ChatPackets, at : {"sent", "given", "refused", "lost"}]
    \cup [op : {"detail"}, p : ChatPackets, at : {"sent", "lost"}]
    \cup [op : {"detail"}, p : ChatPackets, at : {"ok", "lost"}, state : States]

OpenTypeOK ==
    /\ calls \in Seq(Calls)
    /\ sheets \in Seq([p : ChatPackets, state : States])
    /\ stock \in [ChatPackets -> States]
    /\ notices \in [ChatPackets -> 0..2]

Given(r) == r.op = "claim" /\ r.at = "given"

GivenOnce ==
    \A i, j \in DOMAIN calls : Given(calls[i]) /\ Given(calls[j]) /\ calls[i].p = calls[j].p => i = j

GivenUntold ==
    \A i \in DOMAIN calls : Given(calls[i]) => stock[calls[i].p].got /\ notices[calls[i].p] = 0

OInv == OpenTypeOK /\ GivenOnce /\ GivenUntold /\ NoticeIsTrue

-----------------------------------------------------------------------------
LEMMA OInvInit == OpenInit => OInv
<1> SUFFICES ASSUME OpenInit PROVE OInv
  OBVIOUS
<1>1. /\ calls = <<>> /\ sheets = <<>>
      /\ notices = [p \in ChatPackets |-> 0]
      /\ stock \in [ChatPackets -> [left : {1}, expired : {FALSE}, got : {FALSE}, own : BOOLEAN]]
  BY DEF OpenInit
<1>2. DOMAIN calls = {}
  BY <1>1
<1>3. [left : {1}, expired : {FALSE}, got : {FALSE}, own : BOOLEAN] \subseteq States
  <2> SUFFICES ASSUME NEW s \in [left : {1}, expired : {FALSE}, got : {FALSE}, own : BOOLEAN] PROVE s \in States
    OBVIOUS
  <2>1. /\ s = [left |-> s.left, expired |-> s.expired, got |-> s.got, own |-> s.own]
        /\ s.left = 1 /\ s.expired \in {FALSE} /\ s.got \in {FALSE} /\ s.own \in BOOLEAN
    OBVIOUS
  <2>2. s.left \in Nat
    BY <2>1
  <2>3. s.expired \in BOOLEAN /\ s.got \in BOOLEAN
    BY <2>1, Zenon
  <2>4. QED
    BY <2>1, <2>2, <2>3 DEF States
<1>4. stock \in [ChatPackets -> States]
  BY <1>1, <1>3
<1>5. OpenTypeOK
  BY <1>1, <1>4 DEF OpenTypeOK
<1>6. QED
  BY <1>1, <1>2, <1>5 DEF OInv, GivenOnce, GivenUntold, NoticeIsTrue

-----------------------------------------------------------------------------
(* What happens to the calls.                                              *)

\* A call is taken out: what is left was there.
LEMMA Without2Keeps ==
  ASSUME OpenTypeOK, NEW i \in DOMAIN calls
  PROVE  /\ Without2(i) \in Seq(Calls)
         /\ Len(Without2(i)) = Len(calls) - 1
         /\ \A j \in DOMAIN Without2(i) :
                LET k == IF j < i THEN j ELSE j + 1 IN k \in DOMAIN calls /\ k # i /\ Without2(i)[j] = calls[k]
  BY DEF OpenTypeOK, Without2

LEMMA TakenOutOnce ==
  ASSUME OInv, NEW i \in DOMAIN calls, calls' = Without2(i)
  PROVE  GivenOnce'
<1> USE DEF OInv
<1> SUFFICES ASSUME NEW j \in DOMAIN calls', NEW k \in DOMAIN calls',
                    Given(calls'[j]), Given(calls'[k]), calls'[j].p = calls'[k].p
             PROVE  j = k
  BY DEF GivenOnce
<1> DEFINE Old(x) == IF x < i THEN x ELSE x + 1
<1>1. /\ Old(j) \in DOMAIN calls /\ calls'[j] = calls[Old(j)]
      /\ Old(k) \in DOMAIN calls /\ calls'[k] = calls[Old(k)]
  BY Without2Keeps
<1>2. Old(j) = Old(k)
  BY <1>1 DEF GivenOnce
<1>3. calls \in Seq(Calls) /\ calls' \in Seq(Calls)
  BY Without2Keeps DEF OpenTypeOK
<1>4. j \in Int /\ k \in Int /\ i \in Int
  BY <1>3
<1>5. QED
  BY <1>2, <1>4

LEMMA TakenOut ==
  ASSUME OInv, NEW i \in DOMAIN calls, calls' = Without2(i), UNCHANGED <<stock, notices>>,
         sheets' \in Seq([p : ChatPackets, state : States])
  PROVE  OInv'
<1> USE DEF OInv
<1>1. OpenTypeOK'
  BY Without2Keeps DEF OpenTypeOK
<1>2. GivenOnce'
  BY TakenOutOnce
<1>3. ASSUME NEW j \in DOMAIN calls', Given(calls'[j])
      PROVE  stock'[calls'[j].p].got /\ notices'[calls'[j].p] = 0
  <2>1. PICK k \in DOMAIN calls : calls'[j] = calls[k]
    BY Without2Keeps
  <2>2. QED
    BY <1>3, <2>1 DEF GivenUntold
<1>4. GivenUntold'
  BY <1>3 DEF GivenUntold
<1>5. QED
  BY <1>1, <1>2, <1>4 DEF NoticeIsTrue

\* A call that is not given is sent, or takes the place of another.
LEMMA SentKeeps ==
  ASSUME OInv, NEW r \in Calls, r.at # "given", calls' = Append(calls, r), UNCHANGED <<stock, notices>>,
         sheets' \in Seq([p : ChatPackets, state : States])
  PROVE  OInv'
<1> USE DEF OInv
<1>1. OpenTypeOK'
  BY DEF OpenTypeOK
<1>2. \A i \in DOMAIN calls' : Given(calls'[i]) => i \in DOMAIN calls /\ calls'[i] = calls[i]
  BY DEF OpenTypeOK, Given
<1>3. QED
  BY <1>1, <1>2 DEF GivenOnce, GivenUntold, NoticeIsTrue

LEMMA Replaced ==
  ASSUME OInv, NEW i \in DOMAIN calls, NEW r \in Calls, r.at # "given", calls' = [calls EXCEPT ![i] = r],
         UNCHANGED <<sheets, stock, notices>>
  PROVE  OInv'
<1> USE DEF OInv
<1>1. OpenTypeOK'
  BY DEF OpenTypeOK
<1>2. \A j \in DOMAIN calls' : Given(calls'[j]) => j \in DOMAIN calls /\ calls'[j] = calls[j]
  BY DEF OpenTypeOK, Given
<1>3. QED
  BY <1>1, <1>2 DEF GivenOnce, GivenUntold, NoticeIsTrue

\* Nothing but the sheets and the pages.
LEMMA SheetsOnly ==
  ASSUME OInv, UNCHANGED <<calls, stock, notices>>, sheets' \in Seq([p : ChatPackets, state : States])
  PROVE  OInv'
  BY DEF OInv, OpenTypeOK, GivenOnce, GivenUntold, NoticeIsTrue

-----------------------------------------------------------------------------
(* The steps.                                                              *)

\* Stock in which nothing is un-got.
LEMMA StockMoves ==
  ASSUME OInv, stock' \in [ChatPackets -> States], \A p \in ChatPackets : stock[p].got => stock'[p].got,
         UNCHANGED <<calls, sheets, notices>>
  PROVE  OInv'
  BY DEF OInv, OpenTypeOK, GivenOnce, GivenUntold, NoticeIsTrue, Calls

LEMMA ClaimReturnedKeeps ==
  ASSUME OInv, NEW i \in DOMAIN calls, ClaimReturned(i)
  PROVE  OInv'
<1> DEFINE r == calls[i]
<1>1. r \in Calls /\ r.p \in ChatPackets
  BY DEF OInv, OpenTypeOK, Calls
<1>2. CASE UNCHANGED notices
  BY <1>2, TakenOut DEF ClaimReturned, OInv, OpenTypeOK
<1>3. CASE notices' # notices
  <2>1. Given(r) /\ ~IsPrivate(r.p) /\ notices' = Once(notices, r.p)
    BY <1>3 DEF ClaimReturned, GroupClaim, PrivateClaim, pageVars, Given
  <2>2. calls' = Without2(i) /\ UNCHANGED <<sheets, stock>>
    BY DEF ClaimReturned
  <2>3. notices[r.p] = 0 /\ stock[r.p].got
    BY <2>1 DEF OInv, GivenUntold
  <2>4. notices' = [notices EXCEPT ![r.p] = 1]
    BY <2>1, <2>3 DEF Once
  <2>5. OpenTypeOK'
    BY <1>1, <2>2, <2>4, Without2Keeps DEF OInv, OpenTypeOK
  <2>6. \A j \in DOMAIN calls' : \E k \in DOMAIN calls : k # i /\ calls'[j] = calls[k]
    <3>1. \A j \in DOMAIN calls' :
              LET k == IF j < i THEN j ELSE j + 1 IN k \in DOMAIN calls /\ k # i /\ calls'[j] = calls[k]
      BY <2>2, Without2Keeps DEF OInv
    <3>2. QED
      BY <3>1, Zenon
  <2>7. GivenOnce'
    BY <2>2, TakenOutOnce
  <2>8. GivenUntold'
    <3> SUFFICES ASSUME NEW j \in DOMAIN calls', Given(calls'[j])
                 PROVE  stock'[calls'[j].p].got /\ notices'[calls'[j].p] = 0
      BY DEF GivenUntold
    <3>1. PICK k \in DOMAIN calls : k # i /\ calls'[j] = calls[k]
      BY <2>6
    <3>2. calls[k].p # r.p
      BY <3>1, <2>1 DEF OInv, GivenOnce
    <3>3. stock[calls[k].p].got /\ notices[calls[k].p] = 0 /\ calls[k].p \in ChatPackets
      BY <3>1 DEF OInv, GivenUntold, OpenTypeOK, Calls
    <3>4. QED
      BY <3>1, <3>2, <3>3, <2>2, <2>4 DEF OInv, OpenTypeOK
  <2>9. NoticeIsTrue'
    BY <1>1, <2>1, <2>2, <2>3, <2>4 DEF OInv, OpenTypeOK, NoticeIsTrue
  <2>10. QED
    BY <2>5, <2>7, <2>8, <2>9 DEF OInv
<1>4. QED
  BY <1>2, <1>3

LEMMA ServeClaimKeeps ==
  ASSUME OInv, NEW i \in DOMAIN calls, ServeClaim(i)
  PROVE  OInv'
<1> DEFINE r == calls[i]
           p == r.p
           gives == stock[p].left > 0 /\ ~stock[p].expired /\ ~stock[p].got
<1>1. r \in Calls /\ p \in ChatPackets /\ r.op = "claim" /\ r.at = "sent"
  BY DEF OInv, OpenTypeOK, Calls, ServeClaim
<1>2. PICK at \in {IF gives THEN "given" ELSE "refused", "lost"} : calls' = [calls EXCEPT ![i].at = at]
  BY DEF ServeClaim
<1>3. stock' = IF gives THEN [stock EXCEPT ![p].left = @ - 1, ![p].got = TRUE] ELSE stock
  BY DEF ServeClaim
<1>4. UNCHANGED <<sheets, notices>>
  BY DEF ServeClaim, pageVars
<1>5. stock' \in [ChatPackets -> States] /\ \A q \in ChatPackets : stock[q].got => stock'[q].got
  BY <1>1, <1>3 DEF OInv, OpenTypeOK, States
<1>6. [r EXCEPT !.at = at] \in Calls /\ [r EXCEPT !.at = at].p = p /\ [r EXCEPT !.at = at].at = at
  BY <1>1, <1>2 DEF Calls
<1>7. calls' = [calls EXCEPT ![i] = [r EXCEPT !.at = at]]
  BY <1>2
<1>8. calls' \in Seq(Calls) /\ DOMAIN calls' = DOMAIN calls
  BY <1>6, <1>7 DEF OInv, OpenTypeOK
<1>9. \A j \in DOMAIN calls : j # i => calls'[j] = calls[j]
  BY <1>7 DEF OInv, OpenTypeOK
<1>10. calls'[i].p = p /\ calls'[i].at = at
  BY <1>6, <1>7 DEF OInv, OpenTypeOK
<1>11. \A j \in DOMAIN calls : Given(calls[j]) => calls[j].p \in ChatPackets /\ stock[calls[j].p].got
  BY DEF OInv, GivenUntold, OpenTypeOK, Calls
<1>12. Given(calls'[i]) => gives
  BY <1>10, <1>2 DEF Given
<1>13. ASSUME gives
       PROVE  /\ stock'[p].got /\ notices[p] = 0
              /\ \A j \in DOMAIN calls : Given(calls[j]) => calls[j].p # p
  <2>1. stock'[p].got
    BY <1>1, <1>3, <1>13 DEF OInv, OpenTypeOK, States
  <2>2. notices[p] = 0
    BY <1>1, <1>13 DEF OInv, OpenTypeOK, NoticeIsTrue
  <2>3. QED
    BY <1>11, <1>13, <2>1, <2>2
<1>14. GivenOnce'
  BY <1>8, <1>9, <1>10, <1>12, <1>13 DEF OInv, GivenOnce
<1>15. GivenUntold'
  BY <1>4, <1>5, <1>8, <1>9, <1>10, <1>11, <1>12, <1>13 DEF OInv, GivenUntold
<1>16. NoticeIsTrue'
  BY <1>4, <1>5 DEF OInv, NoticeIsTrue
<1>17. QED
  BY <1>4, <1>5, <1>8, <1>14, <1>15, <1>16 DEF OInv, OpenTypeOK

LEMMA OInvStep == OInv /\ [OpenNext]_openVars => OInv'
<1> SUFFICES ASSUME OInv, [OpenNext]_openVars PROVE OInv'
  OBVIOUS
<1> DEFINE OpenSheets == Seq([p : ChatPackets, state : States])
<1>0. sheets \in OpenSheets /\ calls \in Seq(Calls) /\ stock \in [ChatPackets -> States]
  BY DEF OInv, OpenTypeOK
<1>1. sheets # <<>> => ButTop \in OpenSheets /\ Top \in [p : ChatPackets, state : States]
  <2> SUFFICES ASSUME sheets # <<>> PROVE ButTop \in OpenSheets /\ Top \in [p : ChatPackets, state : States]
    OBVIOUS
  <2>1. Len(sheets) \in Nat \ {0}
    BY <1>0, EmptySeq
  <2>2. \A i \in 1..Len(sheets) : sheets[i] \in [p : ChatPackets, state : States]
    BY <1>0, ElementOfSeq
  <2>3. ButTop \in OpenSheets
    BY <2>1, <2>2, SubSeqProperties DEF ButTop
  <2>4. Top \in [p : ChatPackets, state : States]
    BY <2>1, <2>2 DEF Top
  <2>5. QED
    BY <2>3, <2>4
<1>2. CASE \E p \in ChatPackets : TapMessage(p)
  <2>1. PICK p \in ChatPackets : TapMessage(p)
    BY <1>2
  <2>2. [op |-> "detail", p |-> p, at |-> "sent"] \in Calls
    BY DEF Calls
  <2>3. QED
    BY <2>1, <2>2, <1>0, SentKeeps DEF TapMessage, SendCall, pageVars
<1>3. CASE GuardEnds \/ CloseSheet
  BY <1>3, <1>0, <1>1, SheetsOnly DEF GuardEnds, CloseSheet, pageVars
<1>4. CASE TouchPacketSeal \/ TouchDetail
  <2>1. /\ sheets # <<>> /\ sheets' = ButTop /\ UNCHANGED <<notices, stock>>
        /\ UNCHANGED calls \/ calls' = Append(calls, [op |-> "claim", p |-> Top.p, at |-> "sent"])
    BY <1>4 DEF TouchPacketSeal, TouchDetail, Delegate, SendCall
  <2>2. [op |-> "claim", p |-> Top.p, at |-> "sent"] \in Calls
    BY <2>1, <1>1 DEF Calls
  <2>3. QED
    BY <2>1, <2>2, <1>1, SentKeeps, SheetsOnly
<1>5. ASSUME NEW i \in DOMAIN calls, DetailAnswered(i) PROVE OInv'
  <2>1. calls' = Without2(i) /\ UNCHANGED <<stock, notices>> /\ calls[i] \in Calls
    BY <1>0, <1>5 DEF DetailAnswered
  <2>2. CASE UNCHANGED sheets
    BY <1>0, <2>1, <2>2, TakenOut
  <2>3. CASE sheets' # sheets
    <3>1. calls[i].op = "detail" /\ calls[i].at = "ok" /\ sheets' = Append(sheets, [p |-> calls[i].p, state |-> calls[i].state])
      BY <1>5, <2>3 DEF DetailAnswered
    <3>2. [p |-> calls[i].p, state |-> calls[i].state] \in [p : ChatPackets, state : States]
      BY <2>1, <3>1 DEF Calls
    <3>3. sheets' \in OpenSheets
      BY <1>0, <3>1, <3>2
    <3>4. QED
      BY <2>1, <3>3, TakenOut
  <2>4. QED
    BY <2>2, <2>3
<1>6. ASSUME NEW i \in DOMAIN calls, ServeDetail(i) \/ LoseCall(i) PROVE OInv'
  <2>1. calls[i] \in Calls /\ calls[i].at = "sent" /\ UNCHANGED <<sheets, stock, notices>>
    BY <1>0, <1>6 DEF ServeDetail, LoseCall, pageVars
  <2>2. CASE ServeDetail(i)
    <3>1. PICK at \in {"ok", "lost"} :
            calls' = [calls EXCEPT ![i] = [op |-> "detail", p |-> calls[i].p, at |-> at, state |-> stock[calls[i].p]]]
      BY <2>2 DEF ServeDetail
    <3>2. [op |-> "detail", p |-> calls[i].p, at |-> at, state |-> stock[calls[i].p]] \in Calls
      BY <1>0, <2>1 DEF Calls
    <3>3. QED
      BY <2>1, <3>1, <3>2, Replaced
  <2>3. CASE LoseCall(i)
    <3>1. calls' = [calls EXCEPT ![i] = [calls[i] EXCEPT !.at = "lost"]]
      BY <2>3 DEF LoseCall
    <3>2. CASE calls[i].op = "claim"
      <4>1. calls[i] \in [op : {"claim"}, p : ChatPackets, at : {"sent", "given", "refused", "lost"}]
        BY <2>1, <3>2 DEF Calls
      <4>2. QED
        BY <2>1, <3>1, <4>1, Replaced DEF Calls
    <3>3. CASE calls[i].op = "detail"
      <4>1. \/ calls[i] \in [op : {"detail"}, p : ChatPackets, at : {"sent", "lost"}]
            \/ calls[i] \in [op : {"detail"}, p : ChatPackets, at : {"ok", "lost"}, state : States]
        BY <2>1, <3>3 DEF Calls
      <4>2. QED
        BY <2>1, <3>1, <4>1, Replaced DEF Calls
    <3>4. QED
      BY <3>2, <3>3, <2>1 DEF Calls
  <2>4. QED
    BY <1>6, <2>2, <2>3
<1>7. ASSUME NEW p \in ChatPackets, OthersTake(p) PROVE OInv'
  <2>1. UNCHANGED <<calls, sheets, notices>>
    BY <1>7 DEF OthersTake, pageVars
  <2>2. \/ stock[p].left > 0 /\ stock' = [stock EXCEPT ![p] = [stock[p] EXCEPT !.left = @ - 1]]
        \/ stock' = [stock EXCEPT ![p] = [stock[p] EXCEPT !.expired = TRUE]]
    BY <1>7 DEF OthersTake
  <2>3. stock[p].left > 0 => [stock[p] EXCEPT !.left = @ - 1] \in States
    <3> DEFINE t == stock[p]
    <3>1. t \in States
      BY <1>0
    <3>2. t.left > 0 => t.left - 1 \in Nat
      BY <3>1 DEF States
    <3>3. QED
      BY <3>1, <3>2 DEF States
  <2>4. /\ [stock[p] EXCEPT !.expired = TRUE] \in States
        /\ [stock[p] EXCEPT !.expired = TRUE].got = stock[p].got
        /\ [stock[p] EXCEPT !.left = @ - 1].got = stock[p].got
    BY <1>0 DEF States
  <2>5. PICK s \in States : stock' = [stock EXCEPT ![p] = s] /\ s.got = stock[p].got
    BY <2>2, <2>3, <2>4
  <2>6. QED
    BY <1>0, <2>1, <2>5, StockMoves
<1>8. CASE UNCHANGED openVars
  BY <1>8, <1>0, SheetsOnly DEF openVars, pageVars
<1>9. QED
  BY <1>2, <1>3, <1>4, <1>5, <1>6, <1>7, <1>8, ClaimReturnedKeeps, ServeClaimKeeps DEF OpenNext

-----------------------------------------------------------------------------
\* The group is told of a packet taken once at the most, and only if it was
\* given to this user, whatever sheets lie over each other and in whatever
\* order claims and answers come.
THEOREM OpenNoticeIsTrue == OpenSpec => []NoticeIsTrue
<1>1. OInv => NoticeIsTrue
  BY DEF OInv
<1>2. QED
  BY <1>1, OInvInit, OInvStep, PTL DEF OpenSpec

-----------------------------------------------------------------------------
(* The map.                                                                *)


IsAntRequests == [op : {"isAnt"}, at : {"sent", "lost", "yes", "no"}]
GetRequests == [op : {"get"}, at : {"sent", "lost", "none", "show", "hidden"}, alone : BOOLEAN]
SetRequests == [op : {"set"}, at : {"sent", "lost", "ok", "refused"}, show : BOOLEAN]
NearRequests == [op : {"near"}, at : {"sent", "lost", "ok"}, packets : SUBSET MapPackets]
ClaimRequests == [op : {"claim"}, at : {"sent", "lost", "got", "late"}, packet : MapPackets, n : {1}, here : BOOLEAN]

AntRequests == IsAntRequests \cup GetRequests \cup SetRequests \cup NearRequests \cup ClaimRequests

AntTypeOK ==
    /\ antNet \subseteq AntRequests
    /\ timers \subseteq {"isAnt", "get", "entered"}
    /\ saved \in {"none", "show", "hidden"}
    /\ button \in [selected : BOOLEAN, enabled : BOOLEAN]
    /\ visible \in BOOLEAN /\ settled \in BOOLEAN
    /\ view \in [packet : MapPackets, spins : 0..2] \cup {NoView}
    /\ lying \subseteq MapPackets
    /\ claims \in [MapPackets -> 0..2]

-----------------------------------------------------------------------------
(* The flag.                                                               *)

OneChange ==
    /\ \A r, s \in InFlight("set") : r = s
    /\ button.enabled => InFlight("set") = {}

AloneIsRight ==
    \A r \in InFlight("get") : r.alone =>
        /\ InFlight("set") = {}
        /\ r.at \in {"show", "hidden"} => (r.at = "show") = visible

\* With a change in flight.
ChangeTurnsRound ==
    settled => \A r \in InFlight("set") :
        /\ r.at = "sent" => r.show = ~visible
        /\ r.at \in {"sent", "refused"} => UserInfoOrOpen = visible /\ button.selected = visible
        /\ r.at = "ok" => UserInfoOrOpen = ~visible

FlagInv == OneChange /\ AloneIsRight /\ ChangeTurnsRound /\ VisibilityAgrees

-----------------------------------------------------------------------------
(* The claims.                                                             *)

Pages(p) == {g \in BOOLEAN : <<p, g>> \in pages}
ClaimsFor(p) == {r \in InFlight("claim") : r.packet = p}

Unclaimed == \A p \in MapPackets : claims[p] = 0 => ClaimsFor(p) = {} /\ Pages(p) = {} /\ p \notin mine

\* One claim was sent, and is still in flight.
OneClaim ==
    \A p \in MapPackets : claims[p] <= 1 =>
        /\ \A r, s \in ClaimsFor(p) : r = s
        /\ \A r \in ClaimsFor(p) : /\ Pages(p) = {}
                                   /\ r.at \in {"sent", "late"} => p \notin mine
                                   /\ r.at = "got" => p \in mine

ClaimInv == Unclaimed /\ OneClaim /\ PageTellsTruth

-----------------------------------------------------------------------------
(* Requests.                                                               *)

LEMMA ByOp ==
  ASSUME NEW r \in AntRequests
  PROVE  /\ r.op = "isAnt" => r \in IsAntRequests
         /\ r.op = "get" => r \in GetRequests
         /\ r.op = "set" => r \in SetRequests
         /\ r.op = "near" => r \in NearRequests
         /\ r.op = "claim" => r \in ClaimRequests
         /\ r.op \in {"isAnt", "get", "set", "near", "claim"}
  BY DEF AntRequests, IsAntRequests, GetRequests, SetRequests, NearRequests, ClaimRequests

\* What the server, or the loss of a request, makes of it.
LEMMA LostChanges ==
  ASSUME NEW r \in AntRequests
  PROVE  /\ [r EXCEPT !.at = "lost"] \in AntRequests
         /\ [r EXCEPT !.at = "lost"].op = r.op
         /\ [r EXCEPT !.at = "lost"].at = "lost"
         /\ r.op = "get" => [r EXCEPT !.at = "lost"].alone = r.alone
         /\ r.op = "claim" => [r EXCEPT !.at = "lost"].packet = r.packet
<1>1. CASE r \in IsAntRequests
  BY <1>1 DEF AntRequests, IsAntRequests
<1>2. CASE r \in GetRequests
  BY <1>2 DEF AntRequests, GetRequests
<1>3. CASE r \in SetRequests
  BY <1>3 DEF AntRequests, SetRequests
<1>4. CASE r \in NearRequests
  BY <1>4 DEF AntRequests, NearRequests
<1>5. CASE r \in ClaimRequests
  BY <1>5 DEF AntRequests, ClaimRequests
<1>6. QED
  BY <1>1, <1>2, <1>3, <1>4, <1>5 DEF AntRequests

\* A request is replaced by what has become of it.
Becomes(r, s) ==
    /\ s \in AntRequests /\ s.op = r.op
    /\ antNet' = (antNet \ {r}) \cup {s}
    /\ r.op = "get" => s.alone = r.alone /\ s.at \in {"lost", "none", IF visible THEN "show" ELSE "hidden"}
    /\ IF r.op = "set"
       THEN \/ s.at = "ok" /\ visible' = r.show
            \/ s.at = "refused" /\ visible' = visible
            \/ s.at = "lost" /\ visible' \in BOOLEAN
       ELSE visible' = visible
    /\ IF r.op = "claim"
       THEN /\ s.packet = r.packet
            /\ \/ s.at = "got" /\ mine' = mine \cup {r.packet}
               \/ s.at = "late" /\ mine' = mine
               \/ s.at = "lost" /\ mine' \in {mine, mine \cup {r.packet}}
       ELSE mine' = mine

LEMMA ServeBecomes ==
  ASSUME AntTypeOK, NEW r \in antNet, Serve(r) \/ Lose(r)
  PROVE  (\E s : Becomes(r, s)) /\ r.at = "sent" /\ lying' \subseteq lying
<1> DEFINE At(x) == [r EXCEPT !.at = x]
<1>0. r \in AntRequests
  BY DEF AntTypeOK
<1>1. r.at = "sent" /\ lying' \subseteq lying
  BY DEF Serve, Lose, serverVars
<1>2. CASE Lose(r)
  BY <1>0, <1>2, LostChanges DEF Lose, Becomes, serverVars, AntTypeOK
<1>3. CASE Serve(r) /\ r.op = "isAnt"
  <2>1. PICK a \in {"yes", "no"} : Served(r, a) /\ UNCHANGED serverVars
    BY <1>3 DEF Serve
  <2>2. At(a) \in AntRequests /\ At(a).op = r.op
    BY <1>0, <1>3, ByOp DEF AntRequests, IsAntRequests
  <2>3. QED
    BY <1>0, <1>1, <1>3, <2>1, <2>2, LostChanges DEF Served, Becomes, serverVars
<1>4. CASE Serve(r) /\ r.op = "get"
  <2>1. PICK a \in {"none", IF visible THEN "show" ELSE "hidden"} : Served(r, a) /\ UNCHANGED serverVars
    BY <1>4 DEF Serve
  <2>2. At(a) \in AntRequests /\ At(a).op = r.op /\ At(a).at = a /\ At(a).alone = r.alone
    BY <1>0, <1>4, ByOp DEF AntRequests, GetRequests
  <2>3. QED
    BY <1>0, <1>1, <1>4, <2>1, <2>2, LostChanges DEF Served, Becomes, serverVars
<1>5. CASE Serve(r) /\ r.op = "set"
  <2>1. \/ Served(r, "ok") /\ visible' = r.show /\ UNCHANGED <<lying, mine>>
        \/ Served(r, "refused") /\ UNCHANGED serverVars
    BY <1>5 DEF Serve
  <2>2. /\ At("ok") \in AntRequests /\ At("ok").op = r.op /\ At("ok").at = "ok"
        /\ At("refused") \in AntRequests /\ At("refused").op = r.op /\ At("refused").at = "refused"
        /\ r.show \in BOOLEAN
    BY <1>0, <1>5, ByOp DEF AntRequests, SetRequests
  <2>3. PICK s \in {At("ok"), At("refused"), At("lost")} :
            /\ antNet' = (antNet \ {r}) \cup {s} /\ mine' = mine /\ visible' \in BOOLEAN
            /\ \/ s = At("ok") /\ visible' = r.show
               \/ s = At("refused") /\ visible' = visible
               \/ s = At("lost")
    <3>1. CASE Served(r, "ok") /\ visible' = r.show /\ UNCHANGED <<lying, mine>>
      BY <3>1, <2>2 DEF Served
    <3>2. CASE Served(r, "refused") /\ UNCHANGED serverVars
      BY <3>2 DEF Served, serverVars, AntTypeOK
    <3>3. QED
      BY <2>1, <3>1, <3>2
  <2>4. s \in AntRequests /\ s.op = "set"
    BY <1>0, <1>5, <2>2, <2>3, LostChanges
  <2>5. \/ s.at = "ok" /\ visible' = r.show
        \/ s.at = "refused" /\ visible' = visible
        \/ s.at = "lost"
    BY <1>0, <2>2, <2>3, LostChanges
  <2>6. Becomes(r, s)
    BY <1>5, <2>3, <2>4, <2>5 DEF Becomes
  <2>7. QED
    BY <1>1, <2>6
<1>6. CASE Serve(r) /\ r.op = "near"
  <2>1. PICK a \in {"ok", "lost"} :
            antNet' = (antNet \ {r}) \cup {[r EXCEPT !.at = a, !.packets = lying]} /\ UNCHANGED serverVars
    BY <1>6 DEF Serve
  <2>2. /\ [r EXCEPT !.at = a, !.packets = lying] \in AntRequests
        /\ [r EXCEPT !.at = a, !.packets = lying].op = r.op
    BY <1>0, <1>6, ByOp DEF AntRequests, NearRequests, AntTypeOK
  <2>3. QED
    BY <1>1, <1>6, <2>1, <2>2 DEF Becomes, serverVars
<1>7. CASE Serve(r) /\ r.op = "claim"
  <2>1. \/ Served(r, "got") /\ mine' = mine \cup {r.packet} /\ UNCHANGED visible
        \/ Served(r, "late") /\ UNCHANGED serverVars
    BY <1>7 DEF Serve
  <2>2. /\ At("got") \in AntRequests /\ At("got").op = r.op /\ At("got").at = "got" /\ At("got").packet = r.packet
        /\ At("late") \in AntRequests /\ At("late").op = r.op /\ At("late").at = "late" /\ At("late").packet = r.packet
    BY <1>0, <1>7, ByOp DEF AntRequests, ClaimRequests
  <2>3. PICK s \in {At("got"), At("late"), At("lost")} :
            /\ antNet' = (antNet \ {r}) \cup {s} /\ visible' = visible
            /\ \/ s = At("got") /\ mine' = mine \cup {r.packet}
               \/ s = At("late") /\ mine' = mine
               \/ s = At("lost") /\ mine' \in {mine, mine \cup {r.packet}}
    <3>1. CASE Served(r, "got") /\ mine' = mine \cup {r.packet} /\ UNCHANGED visible
      BY <3>1 DEF Served
    <3>2. CASE Served(r, "late") /\ UNCHANGED serverVars
      BY <3>2 DEF Served, serverVars
    <3>3. QED
      BY <2>1, <3>1, <3>2
  <2>4. s \in AntRequests /\ s.op = "claim" /\ s.packet = r.packet
    BY <1>0, <1>7, <2>2, <2>3, LostChanges
  <2>5. \/ s.at = "got" /\ mine' = mine \cup {r.packet}
        \/ s.at = "late" /\ mine' = mine
        \/ s.at = "lost" /\ mine' \in {mine, mine \cup {r.packet}}
    BY <1>0, <2>2, <2>3, LostChanges
  <2>6. Becomes(r, s)
    BY <1>7, <2>3, <2>4, <2>5 DEF Becomes
  <2>7. QED
    BY <1>1, <2>6
<1>8. QED
  BY <1>0, <1>2, <1>3, <1>4, <1>5, <1>6, <1>7, ByOp

LEMMA BecomesInFlight ==
  ASSUME NEW r \in antNet, NEW s, Becomes(r, s), NEW o
  PROVE  InFlight(o)' = IF o = r.op THEN (InFlight(o) \ {r}) \cup {s} ELSE InFlight(o)
  BY DEF Becomes, InFlight

LEMMA NewRequests ==
  /\ [op |-> "isAnt", at |-> "sent"] \in AntRequests
  /\ GetRequest \in AntRequests /\ GetRequest.op = "get" /\ GetRequest.at = "sent"
  /\ GetRequest.alone = (InFlight("set") = {})
  /\ [op |-> "near", at |-> "sent", packets |-> {}] \in AntRequests
  /\ \A b \in BOOLEAN : [op |-> "set", at |-> "sent", show |-> b] \in AntRequests
  /\ \A h \in BOOLEAN : view.packet \in MapPackets => Claim(1, h) \in AntRequests
  /\ \A h \in BOOLEAN : /\ Claim(1, h).op = "claim" /\ Claim(1, h).at = "sent"
                        /\ Claim(1, h).packet = view.packet
<1>1. [op |-> "isAnt", at |-> "sent"] \in AntRequests
  BY DEF AntRequests, IsAntRequests
<1>2. GetRequest \in AntRequests /\ GetRequest.op = "get" /\ GetRequest.at = "sent"
  BY DEF AntRequests, GetRequests, GetRequest
<1>3. GetRequest.alone = (InFlight("set") = {})
  BY DEF GetRequest
<1>4. [op |-> "near", at |-> "sent", packets |-> {}] \in AntRequests
  BY DEF AntRequests, NearRequests
<1>5. \A b \in BOOLEAN : [op |-> "set", at |-> "sent", show |-> b] \in AntRequests
  BY DEF AntRequests, SetRequests
<1>6. \A h \in BOOLEAN : view.packet \in MapPackets => Claim(1, h) \in AntRequests
  BY DEF AntRequests, ClaimRequests, Claim
<1>7. \A h \in BOOLEAN : /\ Claim(1, h).op = "claim" /\ Claim(1, h).at = "sent"
                         /\ Claim(1, h).packet = view.packet
  BY DEF Claim
<1>8. QED
  BY <1>1, <1>2, <1>3, <1>4, <1>5, <1>6, <1>7

\* A change overtakes the questions in flight.
Overtaken(r) == IF r.op = "get" THEN [r EXCEPT !.alone = FALSE] ELSE r

LEMMA OvertakenKeeps ==
  ASSUME NEW r \in AntRequests
  PROVE  /\ Overtaken(r) \in AntRequests /\ Overtaken(r).op = r.op
         /\ r.op = "get" => ~Overtaken(r).alone
         /\ r.op # "get" => Overtaken(r) = r
<1>1. CASE r \in GetRequests
  BY <1>1 DEF AntRequests, GetRequests, Overtaken
<1>2. CASE r \notin GetRequests
  BY <1>2, ByOp DEF Overtaken
<1>3. QED
  BY <1>1, <1>2

\* What the timer that fires asks for.
LEMMA TimerFiresAdds ==
  ASSUME AntTypeOK, NEW t \in timers, TimerFires(t)
  PROVE  \E sends \in SUBSET AntRequests :
            /\ antNet' = antNet \cup sends
            /\ \A r \in sends : r.op \in {"isAnt", "get", "near"} /\ (r.op = "get" => r = GetRequest)
            /\ settled' = (settled /\ (GetRequest \in sends => GetRequest.alone))
            /\ timers' \subseteq timers
            /\ UNCHANGED <<saved, button, hasCity, mapVars, claimVars, serverVars>>
<1> DEFINE sends == CASE t = "isAnt" -> {[op |-> "isAnt", at |-> "sent"]}
                      [] t = "get" -> {GetRequest}
                      [] t = "entered" -> {GetRequest} \cup NearbyRequests
<1>1. /\ antNet' = antNet \cup sends
      /\ settled' = (settled /\ (GetRequest \in sends => GetRequest.alone))
      /\ timers' \subseteq timers
      /\ UNCHANGED <<saved, button, hasCity, mapVars, claimVars, serverVars>>
  BY DEF TimerFires
<1>2. t \in {"isAnt", "get", "entered"}
  BY DEF AntTypeOK
<1>3. sends \subseteq {[op |-> "isAnt", at |-> "sent"], GetRequest, [op |-> "near", at |-> "sent", packets |-> {}]}
  BY <1>2 DEF NearbyRequests
<1> HIDE DEF sends
<1>4. sends \in SUBSET AntRequests
  BY <1>3, NewRequests
<1>5. \A r \in sends : r.op \in {"isAnt", "get", "near"} /\ (r.op = "get" => r = GetRequest)
  BY <1>3, NewRequests
<1>6. QED
  BY <1>1, <1>4, <1>5

\* The claim of an animation that stops.
LEMMA SpinSends ==
  ASSUME SpinEnds
  PROVE  \/ UNCHANGED <<antNet, claims>>
         \/ antNet' = antNet \cup {Claim(1, TRUE)} /\ claims' = Counted(1)
<1>1. 1..1 = {1}
  OBVIOUS
<1>2. QED
  BY <1>1 DEF SpinEnds, Claims

LEMMA OrphanedKeeps ==
  ASSUME NEW r \in AntRequests
  PROVE  /\ Orphaned(r) \in AntRequests /\ Orphaned(r).op = r.op
         /\ r.op = "claim" => Orphaned(r).packet = r.packet /\ Orphaned(r).at = r.at
         /\ r.op # "claim" => Orphaned(r) = r
<1>1. CASE r \in ClaimRequests
  BY <1>1 DEF AntRequests, ClaimRequests, Orphaned
<1>2. CASE r \notin ClaimRequests
  BY <1>2, ByOp DEF Orphaned
<1>3. QED
  BY <1>1, <1>2

\* What is in flight once the view has gone.
LEMMA Leaves ==
  ASSUME AntTypeOK, NEW rest \in SUBSET antNet, Leave(rest)
  PROVE  /\ view' = NoView
         /\ antNet' \subseteq AntRequests
         /\ claims' \in [MapPackets -> 0..2]
         /\ \A o \in {"get", "set"} : InFlight(o)' = {r \in rest : r.op = o}
<1> DEFINE sends == hasCity /\ view.spins > 0
<1>1. /\ view' = NoView
      /\ antNet' = {Orphaned(r) : r \in rest} \cup (IF sends THEN {Claim(1, FALSE)} ELSE {})
      /\ claims' = IF sends THEN Counted(view.spins) ELSE claims
  BY DEF Leave
<1>2. sends => view.packet \in MapPackets /\ view.spins \in 1..2
  BY DEF AntTypeOK, NoView
<1> HIDE DEF sends
<1>3. rest \subseteq AntRequests
  BY DEF AntTypeOK
<1>4. antNet' \subseteq AntRequests
  <2>1. \A r \in rest : Orphaned(r) \in AntRequests
    BY <1>3, OrphanedKeeps
  <2>2. sends => Claim(1, FALSE) \in AntRequests
    BY <1>2, NewRequests
  <2>3. QED
    BY <1>1, <2>1, <2>2
<1>5. claims' \in [MapPackets -> 0..2]
  BY <1>1, <1>2 DEF Counted, AntTypeOK
<1>6. ASSUME NEW o \in {"get", "set"} PROVE InFlight(o)' = {r \in rest : r.op = o}
  <2>1. Claim(1, FALSE).op = "claim"
    BY NewRequests
  <2>2. \A r \in rest : Orphaned(r).op = r.op /\ (r.op = o => Orphaned(r) = r)
    BY <1>3, OrphanedKeeps
  <2>3. \A q \in InFlight(o)' : q \in {r \in rest : r.op = o}
    BY <1>1, <2>1, <2>2 DEF InFlight
  <2>4. \A q \in {r \in rest : r.op = o} : q \in InFlight(o)'
    BY <1>1, <2>2 DEF InFlight
  <2>5. QED
    BY <2>3, <2>4
<1>7. QED
  BY <1>1, <1>4, <1>5, <1>6

\* An answered claim: the view stays as it is, or it goes.
LEMMA AnsweredLeaves ==
  ASSUME AntTypeOK, NEW r \in antNet, ClaimAnswered(r)
  PROVE  /\ r \in InFlight("claim") /\ r.at # "sent"
         /\ \/ Leave(antNet \ {r})
            \/ antNet' = antNet \ {r} /\ UNCHANGED <<view, claims>>
         /\ UNCHANGED <<flagVars, timers, serverVars>>
  BY DEF ClaimAnswered, claimVars

-----------------------------------------------------------------------------
(* Types.                                                                  *)

LEMMA TypeInit == AntInit => AntTypeOK
<1> SUFFICES ASSUME AntInit PROVE AntTypeOK
  OBVIOUS
<1>1. antNet \subseteq AntRequests
  BY NewRequests DEF AntInit
<1>2. button \in [selected : BOOLEAN, enabled : BOOLEAN] /\ visible \in BOOLEAN /\ settled \in BOOLEAN
  BY DEF AntInit
<1>3. claims \in [MapPackets -> 0..2]
  BY DEF AntInit
<1>4. timers = {} /\ saved = "none" /\ view = NoView /\ lying = MapPackets
  BY DEF AntInit
<1>5. QED
  BY <1>1, <1>2, <1>3, <1>4 DEF AntTypeOK

LEMMA TypeStep == AntTypeOK /\ [AntNext]_antVars => AntTypeOK'
<1> SUFFICES ASSUME AntTypeOK, [AntNext]_antVars PROVE AntTypeOK'
  OBVIOUS
<1> USE DEF AntTypeOK
<1>1. CASE OpenPage
  BY <1>1, NewRequests DEF OpenPage, UserInfoOrOpen, serverVars, NoView
<1>2. CASE Locate \/ Zoom \/ UNCHANGED antVars
  BY <1>2 DEF Locate, Zoom, antVars, flagVars, claimVars, serverVars
<1>3. CASE TapShowInfo
  <2>1. /\ button' \in [selected : BOOLEAN, enabled : BOOLEAN] /\ settled' \in BOOLEAN
        /\ UNCHANGED <<saved, timers, visible, view, lying, claims>>
    BY <1>3 DEF TapShowInfo, claimVars, serverVars
  <2>2. antNet' \subseteq antNet \cup {Overtaken(r) : r \in antNet} \cup {[op |-> "set", at |-> "sent", show |-> Status]}
    BY <1>3 DEF TapShowInfo, Overtaken
  <2>3. Status \in BOOLEAN
    BY DEF Status, UserInfoOrOpen
  <2>4. antNet' \subseteq AntRequests
    BY <2>2, <2>3, NewRequests, OvertakenKeeps
  <2>5. QED
    BY <2>1, <2>4
<1>4. CASE TapAddress
  BY <1>4, NewRequests DEF TapAddress, Request, flagVars, claimVars, serverVars
<1>5. CASE TouchSeal \/ CloseView
  <2>1. CASE TouchSeal
    BY <2>1 DEF TouchSeal, flagVars, serverVars, NoView
  <2>2. CASE CloseView
    <3>1. Leave(antNet) /\ UNCHANGED <<flagVars, timers, serverVars>>
      BY <2>2 DEF CloseView
    <3>2. QED
      BY <3>1, Leaves DEF flagVars, serverVars
  <2>3. QED
    BY <1>5, <2>1, <2>2
<1>6. CASE SpinEnds
  <2>1. view \in [packet : MapPackets, spins : 1..2]
    BY <1>6 DEF SpinEnds, NoView
  <2>2. view' \in [packet : MapPackets, spins : 0..2] /\ view.packet \in MapPackets
    BY <2>1, <1>6 DEF SpinEnds
  <2>3. \/ UNCHANGED <<antNet, claims>>
        \/ antNet' = antNet \cup {Claim(1, TRUE)} /\ claims' = Counted(1)
    BY <1>6, SpinSends
  <2>4. Claim(1, TRUE) \in AntRequests
    BY <2>2, NewRequests
  <2>5. antNet' \subseteq AntRequests
    BY <2>3, <2>4
  <2>6. Counted(1) \in [MapPackets -> 0..2]
    BY <2>2 DEF Counted
  <2>7. claims' \in [MapPackets -> 0..2]
    BY <2>3, <2>6
  <2>8. QED
    BY <1>6, <2>2, <2>5, <2>7 DEF SpinEnds, flagVars, serverVars
<1>7. ASSUME NEW p \in MapPackets, SelectPacket(p) \/ Taken(p) PROVE AntTypeOK'
  <2>1. CASE Taken(p)
    BY <2>1 DEF Taken, flagVars, claimVars
  <2>2. CASE SelectPacket(p)
    <3>1. view' \in [packet : MapPackets, spins : 0..2]
      BY <2>2 DEF SelectPacket
    <3>2. QED
      BY <2>2, <3>1 DEF SelectPacket, flagVars, serverVars
  <2>3. QED
    BY <1>7, <2>1, <2>2
<1>8. ASSUME NEW t \in timers, TimerFires(t) PROVE AntTypeOK'
  BY <1>8, TimerFiresAdds DEF claimVars, serverVars
<1>9. ASSUME NEW r \in antNet, Serve(r) \/ Lose(r) PROVE AntTypeOK'
  <2>1. PICK s : Becomes(r, s)
    BY <1>9, ServeBecomes
  <2>2. UNCHANGED <<flagVars, timers, claimVars>> /\ lying' \subseteq lying
    BY <1>9, ServeBecomes DEF Serve, Lose
  <2>3. visible' \in BOOLEAN
    BY <2>1, ByOp DEF Becomes, SetRequests
  <2>4. antNet' \subseteq AntRequests
    BY <2>1 DEF Becomes
  <2>5. QED
    BY <2>2, <2>3, <2>4 DEF flagVars, claimVars
<1>10. ASSUME NEW r \in antNet, IsAntAnswered(r) PROVE AntTypeOK'
  <2>1. r.at \in {"yes", "no", "lost"}
    BY <1>10, ByOp DEF IsAntAnswered, InFlight, IsAntRequests
  <2>2. QED
    BY <1>10, <2>1 DEF IsAntAnswered, flagVars, claimVars, serverVars
<1>11. ASSUME NEW r \in antNet, GetAnswered(r) PROVE AntTypeOK'
  <2>1. r.at \in {"lost", "none", "show", "hidden"} /\ r.alone \in BOOLEAN
    BY <1>11, ByOp DEF GetAnswered, InFlight, GetRequests
  <2>2. QED
    BY <1>11, <2>1 DEF GetAnswered, flagVars, claimVars, serverVars
<1>12. ASSUME NEW r \in antNet, SetAnswered(r) PROVE AntTypeOK'
  <2>1. saved' \in {"none", "show", "hidden"}
    BY <1>12 DEF SetAnswered
  <2>2. button' \in [selected : BOOLEAN, enabled : BOOLEAN]
    <3>1. (~UserInfoOrOpen) \in BOOLEAN
      BY DEF UserInfoOrOpen
    <3>2. [selected |-> ~UserInfoOrOpen, enabled |-> TRUE] \in [selected : BOOLEAN, enabled : BOOLEAN]
      BY <3>1
    <3>3. QED
      BY <1>12, <3>2 DEF SetAnswered
  <2>3. settled' \in BOOLEAN
    BY <1>12 DEF SetAnswered
  <2>4. antNet' \subseteq AntRequests /\ UNCHANGED <<timers, visible, view, lying, claims>>
    BY <1>12 DEF SetAnswered, claimVars, serverVars
  <2>5. QED
    BY <2>1, <2>2, <2>3, <2>4
<1>13. ASSUME NEW r \in antNet, NearAnswered(r) PROVE AntTypeOK'
  BY <1>13 DEF NearAnswered, flagVars, claimVars, serverVars
<1>14. ASSUME NEW r \in antNet, ClaimAnswered(r) PROVE AntTypeOK'
  <2>1. /\ \/ Leave(antNet \ {r})
           \/ antNet' = antNet \ {r} /\ UNCHANGED <<view, claims>>
        /\ UNCHANGED <<flagVars, timers, serverVars>>
    BY <1>14, AnsweredLeaves
  <2>2. view' \in {view, NoView} /\ antNet' \subseteq AntRequests /\ claims' \in [MapPackets -> 0..2]
    BY <2>1, Leaves
  <2>3. QED
    BY <2>1, <2>2 DEF flagVars, serverVars
<1>15. QED
  BY <1>1, <1>2, <1>3, <1>4, <1>5, <1>6, <1>7, <1>8, <1>9, <1>10, <1>11, <1>12, <1>13, <1>14 DEF AntNext

-----------------------------------------------------------------------------
(* The flag.                                                               *)

\* A step that leaves the flag and the requests about it alone, and at the
\* most forgets that they are settled.
LEMMA FlagKept ==
  ASSUME FlagInv, UNCHANGED <<saved, button, visible>>, settled' => settled,
         InFlight("get")' = InFlight("get"), InFlight("set")' = InFlight("set")
  PROVE  FlagInv'
<1>1. UserInfoOrOpen' = UserInfoOrOpen
  BY DEF UserInfoOrOpen
<1>2. OneChange' /\ AloneIsRight'
  BY DEF FlagInv, OneChange, AloneIsRight
<1>3. ChangeTurnsRound' /\ VisibilityAgrees'
  BY <1>1 DEF FlagInv, ChangeTurnsRound, VisibilityAgrees
<1>4. QED
  BY <1>2, <1>3 DEF FlagInv

LEMMA FlagInit == AntInit => FlagInv
<1> SUFFICES ASSUME AntInit PROVE FlagInv
  OBVIOUS
<1>1. InFlight("set") = {} /\ InFlight("get") = {} /\ ~settled
  BY DEF AntInit, InFlight
<1>2. QED
  BY <1>1 DEF FlagInv, OneChange, AloneIsRight, ChangeTurnsRound, VisibilityAgrees

LEMMA OpenPageFlag ==
  ASSUME AntTypeOK, FlagInv, OpenPage
  PROVE  FlagInv'
<1>1. InFlight("set")' = {} /\ InFlight("get")' = {}
  BY DEF OpenPage, InFlight
<1>2. UserInfoOrOpen' = UserInfoOrOpen /\ visible' = visible /\ button'.selected = UserInfoOrOpen
  BY DEF OpenPage, UserInfoOrOpen, serverVars
<1>3. settled' => settled /\ InFlight("set") = {}
  BY DEF OpenPage
<1>4. VisibilityAgrees'
  BY <1>2, <1>3 DEF FlagInv, VisibilityAgrees
<1>5. QED
  BY <1>1, <1>4 DEF FlagInv, OneChange, AloneIsRight, ChangeTurnsRound

LEMMA TapShowInfoFlag ==
  ASSUME AntTypeOK, FlagInv, TapShowInfo
  PROVE  FlagInv'
<1>1. InFlight("set") = {} /\ UserInfoOrOpen' = UserInfoOrOpen /\ visible' = visible
  BY DEF TapShowInfo, FlagInv, OneChange, UserInfoOrOpen, serverVars
<1>2. button'.selected = button.selected /\ ~button'.enabled
  BY DEF TapShowInfo, AntTypeOK
<1>3. CASE ~hasCity
  <2>1. antNet' = antNet /\ settled' = settled
    BY <1>3 DEF TapShowInfo
  <2>2. \A o : InFlight(o)' = InFlight(o)
    BY <2>1 DEF InFlight
  <2>3. QED
    BY <1>1, <1>2, <2>1, <2>2
       DEF FlagInv, OneChange, AloneIsRight, ChangeTurnsRound, VisibilityAgrees
<1>4. CASE hasCity
  <2> DEFINE new == [op |-> "set", at |-> "sent", show |-> Status]
  <2>1. antNet' = {Overtaken(r) : r \in antNet} \cup {new} /\ settled' = (settled /\ InFlight("get") = {})
    BY <1>4 DEF TapShowInfo, Overtaken
  <2>2. InFlight("set")' = {new}
    <3>1. new.op = "set"
      OBVIOUS
    <3>2. \A r \in antNet : Overtaken(r).op = r.op /\ r.op # "set"
      BY <1>1, OvertakenKeeps DEF InFlight, AntTypeOK
    <3>3. QED
      BY <2>1, <3>1, <3>2 DEF InFlight
  <2>3. \A r \in InFlight("get")' : ~r.alone
    <3>1. new.op # "get"
      OBVIOUS
    <3>2. \A r \in antNet : Overtaken(r).op = r.op /\ (r.op = "get" => ~Overtaken(r).alone)
      BY OvertakenKeeps DEF AntTypeOK
    <3>3. QED
      BY <2>1, <3>1, <3>2 DEF InFlight
  <2>4. new.at = "sent" /\ new.show = ~UserInfoOrOpen
    BY DEF Status
  <2>5. settled => UserInfoOrOpen = visible /\ button.selected = visible
    BY <1>1 DEF FlagInv, VisibilityAgrees
  <2>6. OneChange' /\ AloneIsRight'
    BY <1>2, <2>2, <2>3 DEF OneChange, AloneIsRight
  <2>7. ChangeTurnsRound'
    <3>1. settled' => settled
      BY <2>1
    <3>2. settled' => new.show = ~visible
      BY <3>1, <2>4, <2>5
    <3>3. QED
      BY <1>1, <1>2, <2>2, <2>4, <2>5, <3>1, <3>2 DEF ChangeTurnsRound
  <2>8. VisibilityAgrees'
    BY <2>2 DEF VisibilityAgrees
  <2>9. QED
    BY <2>6, <2>7, <2>8 DEF FlagInv
<1>5. QED
  BY <1>3, <1>4

LEMMA TimerFiresFlag ==
  ASSUME AntTypeOK, FlagInv, NEW t \in timers, TimerFires(t)
  PROVE  FlagInv'
<1>1. PICK sends \in SUBSET AntRequests :
            /\ antNet' = antNet \cup sends
            /\ \A r \in sends : r.op \in {"isAnt", "get", "near"} /\ (r.op = "get" => r = GetRequest)
            /\ settled' = (settled /\ (GetRequest \in sends => GetRequest.alone))
            /\ UNCHANGED <<saved, button, serverVars>>
  BY TimerFiresAdds
<1>2. UserInfoOrOpen' = UserInfoOrOpen /\ visible' = visible
  BY <1>1 DEF UserInfoOrOpen, serverVars
<1>3. InFlight("set")' = InFlight("set")
  BY <1>1 DEF InFlight
<1>4. \A r \in InFlight("get")' : r \in InFlight("get") \/ r = GetRequest
  BY <1>1 DEF InFlight
<1>5. AloneIsRight'
  BY <1>2, <1>3, <1>4, NewRequests DEF FlagInv, AloneIsRight
<1>6. QED
  BY <1>1, <1>2, <1>3, <1>5 DEF FlagInv, OneChange, ChangeTurnsRound, VisibilityAgrees

LEMMA BecomesFlag ==
  ASSUME AntTypeOK, FlagInv, NEW r \in antNet, NEW s, Becomes(r, s), r.at = "sent",
         UNCHANGED flagVars
  PROVE  FlagInv'
<1>0. UserInfoOrOpen' = UserInfoOrOpen /\ UNCHANGED <<saved, button, settled>> /\ visible \in BOOLEAN
  BY DEF UserInfoOrOpen, flagVars, AntTypeOK
<1>1. CASE r.op \notin {"get", "set"}
  <2>1. InFlight("get")' = InFlight("get") /\ InFlight("set")' = InFlight("set") /\ visible' = visible
    BY <1>1, BecomesInFlight DEF Becomes
  <2>2. QED
    BY <1>0, <2>1, FlagKept
<1>2. CASE r.op = "get"
  <2>1. InFlight("set")' = InFlight("set") /\ InFlight("get")' = (InFlight("get") \ {r}) \cup {s}
    BY <1>2, BecomesInFlight
  <2>2. visible' = visible /\ s.alone = r.alone /\ s.at \in {"lost", "none", IF visible THEN "show" ELSE "hidden"}
    BY <1>2 DEF Becomes
  <2>3. s.at \in {"show", "hidden"} => (s.at = "show") = visible
    BY <1>0, <2>2
  <2>4. r \in InFlight("get")
    BY <1>2 DEF InFlight
  <2>5. AloneIsRight'
    BY <2>1, <2>2, <2>3, <2>4 DEF FlagInv, AloneIsRight
  <2>6. QED
    BY <1>0, <2>1, <2>2, <2>5 DEF FlagInv, OneChange, ChangeTurnsRound, VisibilityAgrees
<1>3. CASE r.op = "set"
  <2>1. r \in InFlight("set")
    BY <1>3 DEF InFlight
  <2>2. InFlight("set") = {r}
    BY <2>1 DEF FlagInv, OneChange
  <2>3. InFlight("set")' = {s} /\ InFlight("get")' = InFlight("get")
    BY <1>3, <2>2, BecomesInFlight
  <2>4. OneChange'
    BY <1>0, <2>2, <2>3 DEF FlagInv, OneChange
  <2>5. AloneIsRight'
    BY <2>2, <2>3 DEF FlagInv, AloneIsRight
  <2>6. settled => r.show = ~visible /\ UserInfoOrOpen = visible /\ button.selected = visible
    BY <2>1 DEF FlagInv, ChangeTurnsRound
  <2>7. \/ s.at = "ok" /\ visible' = r.show
        \/ s.at = "refused" /\ visible' = visible
        \/ s.at = "lost"
    BY <1>3 DEF Becomes
  <2>8. ChangeTurnsRound'
    BY <1>0, <2>3, <2>6, <2>7 DEF ChangeTurnsRound
  <2>9. VisibilityAgrees'
    BY <2>3 DEF VisibilityAgrees
  <2>10. QED
    BY <2>4, <2>5, <2>8, <2>9 DEF FlagInv
<1>4. QED
  BY <1>1, <1>2, <1>3

LEMMA GetAnsweredFlag ==
  ASSUME AntTypeOK, FlagInv, NEW r \in antNet, GetAnswered(r)
  PROVE  FlagInv'
<1>1. /\ InFlight("set")' = InFlight("set") /\ InFlight("get")' = InFlight("get") \ {r}
      /\ visible' = visible /\ r \in InFlight("get")
  BY DEF GetAnswered, InFlight, serverVars
<1>2. r.at \in {"lost", "none", "show", "hidden"}
  BY <1>1, ByOp DEF GetAnswered, InFlight, GetRequests, AntTypeOK
<1>3. AloneIsRight'
  BY <1>1 DEF FlagInv, AloneIsRight
<1>4. button'.enabled = button.enabled
  BY <1>2 DEF GetAnswered, flagVars, AntTypeOK
<1>5. OneChange'
  BY <1>1, <1>4 DEF FlagInv, OneChange
<1>6. CASE r.at = "lost"
  <2>1. UNCHANGED <<saved, button, settled>>
    BY <1>6 DEF GetAnswered, flagVars
  <2>2. UserInfoOrOpen' = UserInfoOrOpen
    BY <2>1 DEF UserInfoOrOpen
  <2>3. QED
    BY <1>1, <1>3, <1>5, <2>1, <2>2 DEF FlagInv, ChangeTurnsRound, VisibilityAgrees
<1>7. CASE r.at = "none"
  <2>1. ~settled'
    BY <1>7 DEF GetAnswered
  <2>2. QED
    BY <1>3, <1>5, <2>1 DEF FlagInv, ChangeTurnsRound, VisibilityAgrees
<1>8. CASE r.at \in {"show", "hidden"}
  <2>1. saved' = r.at /\ settled' = r.alone /\ button' = [button EXCEPT !.selected = r.at = "show"]
    BY <1>8 DEF GetAnswered
  <2>2. UserInfoOrOpen' = (r.at = "show") /\ button'.selected = (r.at = "show")
    BY <1>8, <2>1 DEF UserInfoOrOpen, AntTypeOK
  <2>3. settled' => InFlight("set") = {} /\ (r.at = "show") = visible
    BY <1>1, <1>8, <2>1 DEF FlagInv, AloneIsRight
  <2>4. QED
    BY <1>1, <1>3, <1>5, <2>2, <2>3 DEF FlagInv, ChangeTurnsRound, VisibilityAgrees
<1>9. QED
  BY <1>2, <1>6, <1>7, <1>8

LEMMA SetAnsweredFlag ==
  ASSUME AntTypeOK, FlagInv, NEW r \in antNet, SetAnswered(r)
  PROVE  FlagInv'
<1>1. r \in InFlight("set") /\ InFlight("set") = {r} /\ r.at # "sent" /\ visible' = visible
  BY DEF SetAnswered, FlagInv, OneChange, serverVars
<1>2. InFlight("set")' = {} /\ InFlight("get")' = InFlight("get")
  BY <1>1 DEF SetAnswered, InFlight
<1>3. \A q \in InFlight("get") : ~q.alone
  BY <1>1 DEF FlagInv, AloneIsRight
<1>4. VisibilityAgrees'
  <2> SUFFICES ASSUME settled' PROVE UserInfoOrOpen' = visible /\ button'.selected = visible
    BY <1>1 DEF VisibilityAgrees
  <2>1. settled /\ r.at # "lost"
    BY DEF SetAnswered
  <2>2. r.at \in {"ok", "refused"}
    BY <1>1, <2>1, ByOp DEF InFlight, SetRequests, AntTypeOK
  <2>3. CASE r.at = "ok"
    <3>1. UserInfoOrOpen = ~visible
      BY <1>1, <2>1, <2>3 DEF FlagInv, ChangeTurnsRound
    <3>2. /\ saved' = IF UserInfoOrOpen THEN "hidden" ELSE "show"
          /\ button'.selected = ~UserInfoOrOpen
      BY <2>3 DEF SetAnswered
    <3>3. UserInfoOrOpen' = ~UserInfoOrOpen
      BY <3>2 DEF UserInfoOrOpen
    <3>4. QED
      BY <3>1, <3>2, <3>3 DEF AntTypeOK
  <2>4. CASE r.at = "refused"
    <3>1. UserInfoOrOpen = visible /\ button.selected = visible
      BY <1>1, <2>1, <2>4 DEF FlagInv, ChangeTurnsRound
    <3>2. saved' = saved /\ button'.selected = button.selected
      BY <2>4 DEF SetAnswered, AntTypeOK
    <3>3. QED
      BY <3>1, <3>2 DEF UserInfoOrOpen
  <2>5. QED
    BY <2>2, <2>3, <2>4
<1>5. QED
  BY <1>2, <1>3, <1>4 DEF FlagInv, OneChange, AloneIsRight, ChangeTurnsRound

LEMMA FlagStep == AntTypeOK /\ FlagInv /\ [AntNext]_antVars => FlagInv'
<1> SUFFICES ASSUME AntTypeOK, FlagInv, [AntNext]_antVars PROVE FlagInv'
  OBVIOUS
<1>1. CASE Locate \/ Zoom \/ TouchSeal \/ UNCHANGED antVars
  <2>1. UNCHANGED <<saved, button, settled, visible, antNet>>
    BY <1>1 DEF Locate, Zoom, TouchSeal, antVars, flagVars, serverVars
  <2>2. QED
    BY <2>1, FlagKept DEF InFlight
<1>2. CASE TapAddress
  <2>1. UNCHANGED <<saved, button, settled, visible>>
    BY <1>2 DEF TapAddress, flagVars, serverVars
  <2>2. antNet' = antNet \cup {[op |-> "near", at |-> "sent", packets |-> {}]}
    BY <1>2 DEF TapAddress, Request
  <2>3. QED
    BY <2>1, <2>2, FlagKept DEF InFlight
<1>3. CASE SpinEnds
  <2>1. UNCHANGED <<saved, button, settled, visible>>
    BY <1>3 DEF SpinEnds, flagVars, serverVars
  <2>2. antNet' = antNet \/ antNet' = antNet \cup {Claim(1, TRUE)}
    BY <1>3, SpinSends
  <2>3. Claim(1, TRUE).op = "claim"
    BY NewRequests
  <2>4. QED
    BY <2>1, <2>2, <2>3, FlagKept DEF InFlight
<1>4. ASSUME NEW p \in MapPackets, SelectPacket(p) \/ Taken(p) PROVE FlagInv'
  <2>1. UNCHANGED <<saved, button, settled, visible, antNet>>
    BY <1>4 DEF SelectPacket, Taken, flagVars, serverVars
  <2>2. QED
    BY <2>1, FlagKept DEF InFlight
<1>5. ASSUME NEW r \in antNet, IsAntAnswered(r) \/ NearAnswered(r) PROVE FlagInv'
  <2>1. UNCHANGED <<saved, button, settled, visible>>
    BY <1>5 DEF IsAntAnswered, NearAnswered, flagVars, serverVars
  <2>2. antNet' = antNet \ {r} /\ r.op \in {"isAnt", "near"}
    BY <1>5 DEF IsAntAnswered, NearAnswered, InFlight
  <2>3. QED
    BY <2>1, <2>2, FlagKept DEF InFlight
<1>6. ASSUME NEW r \in antNet, Serve(r) \/ Lose(r) PROVE FlagInv'
  <2>1. UNCHANGED flagVars
    BY <1>6 DEF Serve, Lose
  <2>2. QED
    BY <1>6, <2>1, ServeBecomes, BecomesFlag
<1>7. CASE CloseView
  <2>1. Leave(antNet) /\ UNCHANGED <<saved, button, settled, visible>>
    BY <1>7 DEF CloseView, flagVars, serverVars
  <2>2. \A o \in {"get", "set"} : InFlight(o)' = InFlight(o)
    BY <2>1, Leaves DEF InFlight
  <2>3. QED
    BY <2>1, <2>2, FlagKept
<1>8. ASSUME NEW r \in antNet, ClaimAnswered(r) PROVE FlagInv'
  <2>1. r.op = "claim" /\ UNCHANGED <<saved, button, settled, visible>>
    BY <1>8, AnsweredLeaves DEF InFlight, flagVars, serverVars
  <2>2. CASE antNet' = antNet \ {r}
    BY <2>1, <2>2, FlagKept DEF InFlight
  <2>3. CASE Leave(antNet \ {r})
    <3>1. \A o \in {"get", "set"} : InFlight(o)' = {q \in antNet \ {r} : q.op = o}
      BY <2>3, Leaves
    <3>2. \A o \in {"get", "set"} : InFlight(o)' = InFlight(o)
      BY <2>1, <3>1 DEF InFlight
    <3>3. QED
      BY <2>1, <3>2, FlagKept
  <2>4. QED
    BY <1>8, <2>2, <2>3, AnsweredLeaves
<1>9. QED
  BY <1>1, <1>2, <1>3, <1>4, <1>5, <1>6, <1>7, <1>8, OpenPageFlag, TapShowInfoFlag, TimerFiresFlag,
     GetAnsweredFlag, SetAnsweredFlag
     DEF AntNext

-----------------------------------------------------------------------------
(* The claims.                                                             *)

\* A step that leaves what the user has alone, and adds no page and no claim.
LEMMA ClaimsKept ==
  ASSUME ClaimInv, UNCHANGED <<mine, claims>>, pages' \subseteq pages,
         InFlight("claim")' \subseteq InFlight("claim")
  PROVE  ClaimInv'
<1>1. \A p : ClaimsFor(p)' \subseteq ClaimsFor(p) /\ Pages(p)' \subseteq Pages(p)
  BY DEF ClaimsFor, Pages
<1>2. Unclaimed'
  BY <1>1 DEF ClaimInv, Unclaimed
<1>3. OneClaim'
  BY <1>1 DEF ClaimInv, OneClaim
<1>4. PageTellsTruth'
  BY DEF ClaimInv, PageTellsTruth
<1>5. QED
  BY <1>2, <1>3, <1>4 DEF ClaimInv

LEMMA ClaimInit == AntInit => ClaimInv
<1> SUFFICES ASSUME AntInit PROVE ClaimInv
  OBVIOUS
<1>1. InFlight("claim") = {} /\ pages = {} /\ mine = {}
  BY DEF AntInit, InFlight
<1>2. \A p : ClaimsFor(p) = {} /\ Pages(p) = {}
  BY <1>1 DEF ClaimsFor, Pages
<1>3. QED
  BY <1>1, <1>2 DEF ClaimInv, Unclaimed, OneClaim, PageTellsTruth

LEMMA SpinEndsClaims ==
  ASSUME AntTypeOK, ClaimInv, SpinEnds
  PROVE  ClaimInv'
<1>1. UNCHANGED <<pages, mine>>
  BY DEF SpinEnds, serverVars
<1>2. CASE UNCHANGED <<antNet, claims>>
  BY <1>1, <1>2, ClaimsKept DEF InFlight
<1>3. CASE ~UNCHANGED <<antNet, claims>>
  <2>0. PICK p \in MapPackets : p = view.packet
    BY DEF SpinEnds, AntTypeOK, NoView
  <2> DEFINE new == Claim(1, TRUE)
  <2>1. antNet' = antNet \cup {new} /\ claims' = [claims EXCEPT ![p] = IF @ + 1 < 2 THEN @ + 1 ELSE 2]
    BY <1>3, <2>0, SpinSends DEF Counted
  <2>2. new.op = "claim" /\ new.at = "sent" /\ new.packet = p
    BY <2>0, NewRequests
  <2> HIDE DEF new
  <2>3. \A q \in MapPackets \ {p} : ClaimsFor(q)' = ClaimsFor(q) /\ Pages(q)' = Pages(q) /\ claims'[q] = claims[q]
    BY <1>1, <2>1, <2>2 DEF ClaimsFor, InFlight, Pages, AntTypeOK
  <2>4. ClaimsFor(p)' = ClaimsFor(p) \cup {new} /\ Pages(p)' = Pages(p)
    BY <1>1, <2>1, <2>2 DEF ClaimsFor, InFlight, Pages
  <2>5. claims'[p] # 0 /\ (claims'[p] <= 1 => claims[p] = 0)
    BY <2>1 DEF AntTypeOK
  <2>6. claims'[p] <= 1 => ClaimsFor(p)' = {new} /\ Pages(p)' = {} /\ p \notin mine
    BY <2>4, <2>5 DEF ClaimInv, Unclaimed
  <2>7. Unclaimed'
    BY <1>1, <2>3, <2>5 DEF ClaimInv, Unclaimed
  <2>8. OneClaim'
    <3> SUFFICES ASSUME NEW q \in MapPackets, claims'[q] <= 1
                 PROVE  /\ \A r, s \in ClaimsFor(q)' : r = s
                        /\ \A r \in ClaimsFor(q)' : /\ Pages(q)' = {}
                                                    /\ r.at \in {"sent", "late"} => q \notin mine'
                                                    /\ r.at = "got" => q \in mine'
      BY DEF OneClaim
    <3>1. CASE q = p
      BY <1>1, <2>2, <2>6, <3>1
    <3>2. CASE q # p
      BY <1>1, <2>3, <3>2 DEF ClaimInv, OneClaim
    <3>3. QED
      BY <3>1, <3>2
  <2>9. PageTellsTruth'
    <3> SUFFICES ASSUME NEW q \in MapPackets, NEW g \in BOOLEAN, claims'[q] <= 1, <<q, g>> \in pages
                 PROVE  g = (q \in mine)
      BY <1>1 DEF PageTellsTruth
    <3>1. Pages(q)' = Pages(q) /\ g \in Pages(q)
      BY <1>1 DEF Pages
    <3>2. q # p
      BY <2>6, <3>1
    <3>3. QED
      BY <2>3, <3>2 DEF ClaimInv, PageTellsTruth
  <2>10. QED
    BY <2>7, <2>8, <2>9 DEF ClaimInv
<1>4. QED
  BY <1>2, <1>3

LEMMA BecomesClaims ==
  ASSUME AntTypeOK, ClaimInv, NEW r \in antNet, NEW s, Becomes(r, s), r.at = "sent", UNCHANGED claimVars
  PROVE  ClaimInv'
<1>0. UNCHANGED <<pages, claims>>
  BY DEF claimVars
<1>1. CASE r.op # "claim"
  <2>1. InFlight("claim")' = InFlight("claim") /\ mine' = mine
    BY <1>1, BecomesInFlight DEF Becomes
  <2>2. QED
    BY <1>0, <2>1, ClaimsKept
<1>2. CASE r.op = "claim"
  <2> DEFINE p == r.packet
  <2>1. /\ s.op = "claim" /\ s.packet = p
        /\ \/ s.at = "got" /\ mine' = mine \cup {p}
           \/ s.at = "late" /\ mine' = mine
           \/ s.at = "lost" /\ mine' \in {mine, mine \cup {p}}
    BY <1>2 DEF Becomes
  <2>2. InFlight("claim")' = (InFlight("claim") \ {r}) \cup {s} /\ r \in InFlight("claim")
    BY <1>2, BecomesInFlight DEF InFlight
  <2>3. p \in MapPackets
    BY <1>2, ByOp DEF AntTypeOK, ClaimRequests
  <2>4. r \in ClaimsFor(p) /\ claims[p] # 0
    BY <2>2, <2>3 DEF ClaimsFor, ClaimInv, Unclaimed
  <2>5. \A q \in MapPackets \ {p} :
            ClaimsFor(q)' = ClaimsFor(q) /\ Pages(q)' = Pages(q) /\ (q \in mine' <=> q \in mine)
    BY <1>0, <2>1, <2>2 DEF ClaimsFor, Pages
  <2>6. claims[p] <= 1 => ClaimsFor(p)' = {s} /\ Pages(p) = {} /\ Pages(p)' = {} /\ p \notin mine
    <3> SUFFICES ASSUME claims[p] <= 1
                 PROVE  ClaimsFor(p)' = {s} /\ Pages(p) = {} /\ Pages(p)' = {} /\ p \notin mine
      OBVIOUS
    <3>1. ClaimsFor(p) = {r}
      BY <2>3, <2>4 DEF ClaimInv, OneClaim
    <3>2. ClaimsFor(p)' = {s}
      BY <2>1, <2>2, <3>1 DEF ClaimsFor
    <3>3. Pages(p) = {} /\ p \notin mine
      BY <2>3, <2>4 DEF ClaimInv, OneClaim
    <3>4. Pages(p)' = {}
      BY <1>0, <3>3 DEF Pages
    <3>5. QED
      BY <3>2, <3>3, <3>4
  <2> HIDE DEF p
  <2>7. Unclaimed'
    BY <1>0, <2>4, <2>5 DEF ClaimInv, Unclaimed
  <2>8. OneClaim'
    <3> SUFFICES ASSUME NEW q \in MapPackets, claims'[q] <= 1
                 PROVE  /\ \A a, b \in ClaimsFor(q)' : a = b
                        /\ \A a \in ClaimsFor(q)' : /\ Pages(q)' = {}
                                                    /\ a.at \in {"sent", "late"} => q \notin mine'
                                                    /\ a.at = "got" => q \in mine'
      BY DEF OneClaim
    <3>1. CASE q = p
      BY <1>0, <2>1, <2>6, <3>1
    <3>2. CASE q # p
      BY <1>0, <2>5, <3>2 DEF ClaimInv, OneClaim
    <3>3. QED
      BY <3>1, <3>2
  <2>9. PageTellsTruth'
    <3> SUFFICES ASSUME NEW q \in MapPackets, NEW g \in BOOLEAN, claims[q] <= 1, <<q, g>> \in pages
                 PROVE  g = (q \in mine')
      BY <1>0 DEF PageTellsTruth
    <3>1. g \in Pages(q)
      BY DEF Pages
    <3>2. q # p
      BY <2>6, <3>1
    <3>3. g = (q \in mine)
      BY DEF ClaimInv, PageTellsTruth
    <3>4. QED
      BY <2>5, <3>2, <3>3
  <2>10. QED
    BY <2>7, <2>8, <2>9 DEF ClaimInv
<1>3. QED
  BY <1>1, <1>2

\* The invariant of the claims, of what is in flight, what is shown and what
\* was counted: an answer removes one and then the view goes.
ClaimsIn(requests, p) == {r \in requests : r.op = "claim" /\ r.packet = p}

Consistent(requests, pgs, cls, mn) ==
    \A p \in MapPackets :
        /\ cls[p] = 0 => /\ ClaimsIn(requests, p) = {} /\ p \notin mn
                         /\ \A g \in BOOLEAN : <<p, g>> \notin pgs
        /\ cls[p] <= 1 =>
            /\ \A g \in BOOLEAN : <<p, g>> \in pgs => g = (p \in mn)
            /\ \A r, s \in ClaimsIn(requests, p) : r = s
            /\ \A r \in ClaimsIn(requests, p) :
                /\ \A g \in BOOLEAN : <<p, g>> \notin pgs
                /\ r.at \in {"sent", "late"} => p \notin mn
                /\ r.at = "got" => p \in mn

LEMMA ClaimInvIs ==
  /\ ClaimInv <=> Consistent(antNet, pages, claims, mine)
  /\ ClaimInv' <=> Consistent(antNet', pages', claims', mine')
<1>1. ClaimInv <=> Consistent(antNet, pages, claims, mine)
  <2>1. \A p : ClaimsFor(p) = ClaimsIn(antNet, p)
    BY DEF ClaimsFor, ClaimsIn, InFlight
  <2>2. \A p : Pages(p) = {} <=> \A g \in BOOLEAN : <<p, g>> \notin pages
    BY DEF Pages
  <2>3. QED
    BY <2>1, <2>2 DEF ClaimInv, Unclaimed, OneClaim, PageTellsTruth, Consistent
<1>2. ClaimInv' <=> Consistent(antNet', pages', claims', mine')
  <2>1. \A p : ClaimsFor(p)' = ClaimsIn(antNet', p)
    BY DEF ClaimsFor, ClaimsIn, InFlight
  <2>2. \A p : Pages(p)' = {} <=> \A g \in BOOLEAN : <<p, g>> \notin pages'
    BY DEF Pages
  <2>3. QED
    BY <2>1, <2>2 DEF ClaimInv, Unclaimed, OneClaim, PageTellsTruth, Consistent
<1>3. QED
  BY <1>1, <1>2

\* The view goes: a second claim at most, or the first of its packet.
LEMMA LeaveClaims ==
  ASSUME AntTypeOK, NEW rest \in SUBSET antNet, NEW pgs, Consistent(rest, pgs, claims, mine), Leave(rest)
  PROVE  Consistent(antNet', pgs, claims', mine)
<1> DEFINE sends == hasCity /\ view.spins > 0
<1>1. /\ antNet' = {Orphaned(r) : r \in rest} \cup (IF sends THEN {Claim(1, FALSE)} ELSE {})
      /\ claims' = IF sends THEN Counted(view.spins) ELSE claims
  BY DEF Leave
<1>2. sends => view.packet \in MapPackets /\ view.spins \in 1..2
  BY DEF AntTypeOK, NoView
<1> HIDE DEF sends
<1>3. \A r \in rest : /\ Orphaned(r).op = r.op
                      /\ r.op = "claim" => Orphaned(r).packet = r.packet /\ Orphaned(r).at = r.at
  BY OrphanedKeeps DEF AntTypeOK
<1>4. /\ Claim(1, FALSE).op = "claim" /\ Claim(1, FALSE).at = "sent"
      /\ Claim(1, FALSE).packet = view.packet
  BY NewRequests
<1> SUFFICES ASSUME NEW p \in MapPackets
             PROVE  /\ claims'[p] = 0 => /\ ClaimsIn(antNet', p) = {} /\ p \notin mine
                                         /\ \A g \in BOOLEAN : <<p, g>> \notin pgs
                    /\ claims'[p] <= 1 =>
                        /\ \A g \in BOOLEAN : <<p, g>> \in pgs => g = (p \in mine)
                        /\ \A r, s \in ClaimsIn(antNet', p) : r = s
                        /\ \A r \in ClaimsIn(antNet', p) :
                            /\ \A g \in BOOLEAN : <<p, g>> \notin pgs
                            /\ r.at \in {"sent", "late"} => p \notin mine
                            /\ r.at = "got" => p \in mine
  BY DEF Consistent
<1>5. CASE sends /\ p = view.packet
  <2>1. claims'[p] # 0 /\ (claims'[p] <= 1 => claims[p] = 0)
    BY <1>1, <1>2, <1>5 DEF Counted, AntTypeOK
  <2>2. claims[p] = 0 => /\ ClaimsIn(rest, p) = {} /\ p \notin mine
                         /\ \A g \in BOOLEAN : <<p, g>> \notin pgs
    BY DEF Consistent
  <2>3. claims[p] = 0 => ClaimsIn(antNet', p) = {Claim(1, FALSE)}
    <3> SUFFICES ASSUME claims[p] = 0 PROVE ClaimsIn(antNet', p) = {Claim(1, FALSE)}
      OBVIOUS
    <3>1. \A r \in rest : ~(r.op = "claim" /\ r.packet = p)
      BY <2>2 DEF ClaimsIn
    <3>2. \A r \in rest : ~(Orphaned(r).op = "claim" /\ Orphaned(r).packet = p)
      BY <1>3, <3>1
    <3>3. antNet' = {Orphaned(r) : r \in rest} \cup {Claim(1, FALSE)}
      BY <1>1, <1>5
    <3>4. QED
      BY <1>4, <1>5, <3>2, <3>3 DEF ClaimsIn
  <2>4. QED
    BY <1>4, <2>1, <2>2, <2>3
<1>6. CASE ~(sends /\ p = view.packet)
  <2>1. claims'[p] = claims[p]
    BY <1>1, <1>6 DEF Counted, AntTypeOK
  <2>2. \A q \in ClaimsIn(antNet', p) : \E r \in ClaimsIn(rest, p) : q = Orphaned(r) /\ q.at = r.at
    <3>1. ASSUME NEW q \in antNet', q.op = "claim", q.packet = p
          PROVE  \E r \in rest : q = Orphaned(r)
      <4>1. q # Claim(1, FALSE) \/ ~sends
        BY <1>4, <1>6, <3>1
      <4>2. QED
        BY <1>1, <3>1, <4>1
    <3>2. \A r \in rest : Orphaned(r).op = "claim" /\ Orphaned(r).packet = p =>
                            r \in ClaimsIn(rest, p) /\ Orphaned(r).at = r.at
      BY <1>3 DEF ClaimsIn
    <3>3. QED
      BY <3>1, <3>2 DEF ClaimsIn
  <2>3. QED
    BY <2>1, <2>2 DEF Consistent
<1>7. QED
  BY <1>5, <1>6

LEMMA ClaimAnsweredClaims ==
  ASSUME AntTypeOK, ClaimInv, NEW r \in antNet, ClaimAnswered(r)
  PROVE  ClaimInv'
<1> DEFINE p == r.packet
           rest == antNet \ {r}
<1>1. r \in ClaimsIn(antNet, p) /\ mine' = mine
  BY AnsweredLeaves DEF InFlight, ClaimsIn, serverVars
<1>2. p \in MapPackets /\ r.at \in {"lost", "got", "late"}
  BY ByOp, AnsweredLeaves DEF InFlight, ClaimRequests, AntTypeOK
<1>3. pages' = pages \/ (r.at # "lost" /\ pages' = pages \cup {<<p, r.at = "got">>})
  BY DEF ClaimAnswered, claimVars
<1>4. Consistent(antNet, pages, claims, mine)
  BY ClaimInvIs
<1>5. \A q : ClaimsIn(rest, q) \subseteq ClaimsIn(antNet, q) \ {r}
  BY DEF ClaimsIn
<1> HIDE DEF p, rest
<1>6. Consistent(rest, pages', claims, mine)
  <2> SUFFICES ASSUME NEW q \in MapPackets
               PROVE  /\ claims[q] = 0 => /\ ClaimsIn(rest, q) = {} /\ q \notin mine
                                          /\ \A g \in BOOLEAN : <<q, g>> \notin pages'
                      /\ claims[q] <= 1 =>
                          /\ \A g \in BOOLEAN : <<q, g>> \in pages' => g = (q \in mine)
                          /\ \A a, b \in ClaimsIn(rest, q) : a = b
                          /\ \A a \in ClaimsIn(rest, q) :
                              /\ \A g \in BOOLEAN : <<q, g>> \notin pages'
                              /\ a.at \in {"sent", "late"} => q \notin mine
                              /\ a.at = "got" => q \in mine
    BY DEF Consistent
  <2>1. CASE q # p
    <3>1. \A g \in BOOLEAN : <<q, g>> \in pages' <=> <<q, g>> \in pages
      BY <1>3, <2>1
    <3>2. QED
      BY <1>4, <1>5, <3>1 DEF Consistent
  <2>2. CASE q = p
    <3>1. claims[p] # 0
      BY <1>1, <1>2, <1>4 DEF Consistent
    <3>2. claims[p] <= 1 => /\ \A g \in BOOLEAN : <<p, g>> \notin pages
                            /\ r.at = "late" => p \notin mine
                            /\ r.at = "got" => p \in mine
      BY <1>1, <1>2, <1>4 DEF Consistent
    <3>3. claims[p] <= 1 => ClaimsIn(rest, p) = {}
      BY <1>1, <1>2, <1>4, <1>5 DEF Consistent
    <3>4. claims[p] <= 1 => \A g \in BOOLEAN : <<p, g>> \in pages' => g = (p \in mine)
      BY <1>2, <1>3, <3>2
    <3>5. QED
      BY <2>2, <3>1, <3>3, <3>4
  <2>3. QED
    BY <2>1, <2>2
<1>7. CASE antNet' = rest /\ claims' = claims
  BY <1>1, <1>6, <1>7, ClaimInvIs
<1>8. CASE Leave(rest)
  <2>1. rest \in SUBSET antNet
    BY DEF rest
  <2>2. Consistent(antNet', pages', claims', mine)
    BY <1>6, <1>8, <2>1, LeaveClaims
  <2>3. QED
    BY <1>1, <2>2, ClaimInvIs
<1>9. QED
  BY <1>7, <1>8, AnsweredLeaves DEF rest

LEMMA ClaimStep == AntTypeOK /\ ClaimInv /\ [AntNext]_antVars => ClaimInv'
<1> SUFFICES ASSUME AntTypeOK, ClaimInv, [AntNext]_antVars PROVE ClaimInv'
  OBVIOUS
<1>1. CASE OpenPage
  <2>1. UNCHANGED <<mine, claims>> /\ pages' = {} /\ InFlight("claim")' = {}
    BY <1>1 DEF OpenPage, serverVars, InFlight
  <2>2. QED
    BY <2>1, ClaimsKept
<1>2. CASE Locate \/ Zoom \/ TouchSeal \/ UNCHANGED antVars
  <2>1. UNCHANGED <<mine, claims, pages, antNet>>
    BY <1>2 DEF Locate, Zoom, TouchSeal, antVars, claimVars, serverVars
  <2>2. QED
    BY <2>1, ClaimsKept DEF InFlight
<1>3. CASE TapShowInfo
  <2> DEFINE new == [op |-> "set", at |-> "sent", show |-> Status]
  <2>1. UNCHANGED <<mine, claims, pages>>
    BY <1>3 DEF TapShowInfo, claimVars, serverVars
  <2>2. antNet' = antNet \/ antNet' = {Overtaken(r) : r \in antNet} \cup {new}
    BY <1>3 DEF TapShowInfo, Overtaken
  <2>3. new.op # "claim"
    OBVIOUS
  <2>4. \A r \in antNet : Overtaken(r).op = "claim" => Overtaken(r) = r
    BY OvertakenKeeps DEF AntTypeOK
  <2>5. InFlight("claim")' \subseteq InFlight("claim")
    BY <2>2, <2>3, <2>4 DEF InFlight
  <2>6. QED
    BY <2>1, <2>5, ClaimsKept
<1>4. CASE TapAddress
  <2>1. UNCHANGED <<mine, claims, pages>>
    BY <1>4 DEF TapAddress, claimVars, serverVars
  <2>2. antNet' = antNet \cup {[op |-> "near", at |-> "sent", packets |-> {}]}
    BY <1>4 DEF TapAddress, Request
  <2>3. QED
    BY <2>1, <2>2, ClaimsKept DEF InFlight
<1>5. ASSUME NEW p \in MapPackets, SelectPacket(p) \/ Taken(p) PROVE ClaimInv'
  <2>1. UNCHANGED <<mine, claims, pages, antNet>>
    BY <1>5 DEF SelectPacket, Taken, claimVars, serverVars
  <2>2. QED
    BY <2>1, ClaimsKept DEF InFlight
<1>6. ASSUME NEW t \in timers, TimerFires(t) PROVE ClaimInv'
  <2>1. PICK sends \in SUBSET AntRequests :
            /\ antNet' = antNet \cup sends
            /\ \A r \in sends : r.op \in {"isAnt", "get", "near"}
            /\ UNCHANGED <<claimVars, serverVars>>
    BY <1>6, TimerFiresAdds
  <2>2. QED
    BY <2>1, ClaimsKept DEF InFlight, claimVars, serverVars
<1>7. ASSUME NEW r \in antNet, IsAntAnswered(r) \/ GetAnswered(r) \/ SetAnswered(r) \/ NearAnswered(r)
      PROVE  ClaimInv'
  <2>1. UNCHANGED <<mine, claims, pages>> /\ antNet' = antNet \ {r}
    BY <1>7 DEF IsAntAnswered, GetAnswered, SetAnswered, NearAnswered, claimVars, serverVars
  <2>2. QED
    BY <2>1, ClaimsKept DEF InFlight
<1>8. ASSUME NEW r \in antNet, Serve(r) \/ Lose(r) PROVE ClaimInv'
  <2>1. UNCHANGED claimVars
    BY <1>8 DEF Serve, Lose
  <2>2. QED
    BY <1>8, <2>1, ServeBecomes, BecomesClaims
<1>9. CASE CloseView
  <2>1. Leave(antNet) /\ UNCHANGED <<pages, mine>>
    BY <1>9 DEF CloseView, serverVars
  <2>2. Consistent(antNet', pages, claims', mine)
    BY <2>1, ClaimInvIs, LeaveClaims
  <2>3. QED
    BY <2>1, <2>2, ClaimInvIs
<1>10. QED
  BY <1>1, <1>2, <1>3, <1>4, <1>5, <1>6, <1>7, <1>8, <1>9, SpinEndsClaims, ClaimAnsweredClaims DEF AntNext

-----------------------------------------------------------------------------
\* Button, saved state and server agree whenever no change is under way,
\* once they have been known to: antInfoSet sends its present state and saves
\* the opposite when the server agrees, and no second change can be sent.
THEOREM AntVisibilityAgrees == AntSpec => []VisibilityAgrees
<1>1. AntInit => AntTypeOK /\ FlagInv
  BY TypeInit, FlagInit
<1>2. AntTypeOK /\ FlagInv /\ [AntNext]_antVars => (AntTypeOK /\ FlagInv)'
  BY TypeStep, FlagStep
<1>3. AntTypeOK /\ FlagInv => VisibilityAgrees
  BY DEF FlagInv
<1>4. QED
  BY <1>1, <1>2, <1>3, PTL DEF AntSpec

\* The page of a claim says that the packet was got exactly if the server
\* gave it, whatever requests are repeated, lost or late, as long as the
\* packet was claimed once.
THEOREM AntPageTellsTruth == AntSpec => []PageTellsTruth
<1>1. AntInit => AntTypeOK /\ ClaimInv
  BY TypeInit, ClaimInit
<1>2. AntTypeOK /\ ClaimInv /\ [AntNext]_antVars => (AntTypeOK /\ ClaimInv)'
  BY TypeStep, ClaimStep
<1>3. AntTypeOK /\ ClaimInv => PageTellsTruth
  BY DEF ClaimInv
<1>4. QED
  BY <1>1, <1>2, <1>3, PTL DEF AntSpec

-----------------------------------------------------------------------------
(* The composition.                                                        *)

\* A behaviour of the composition is one of each of its parts: the theorems
\* about sending, opening, the map and the bucket are theorems about what the
\* run of the composition checks.
THEOREM AppPartsAreParts == AppSpec => Spec /\ OpenSpec /\ AntSpec /\ BucketSpec
<1>1. AppInit => Init /\ OpenInit /\ AntInit /\ BucketInit
  BY DEF AppInit
<1>2. [AppNext]_partsVars => [Next]_vars
  BY DEF AppNext, MoneyStep, SendStep, OpenStep, MapStep, BucketStep, partsVars
<1>3. [AppNext]_partsVars => [OpenNext]_openVars
  BY DEF AppNext, MoneyStep, SendStep, OpenStep, MapStep, BucketStep, partsVars
<1>4. [AppNext]_partsVars => [AntNext]_antVars
  BY DEF AppNext, MoneyStep, SendStep, OpenStep, MapStep, BucketStep, partsVars
<1>5. [AppNext]_partsVars => [BucketNext]_bucketVars
  BY DEF AppNext, MoneyStep, SendStep, OpenStep, MapStep, BucketStep, partsVars
<1>6. QED
  BY <1>1, <1>2, <1>3, <1>4, <1>5, PTL DEF AppSpec, Spec, OpenSpec, AntSpec, BucketSpec
===============================================================================
