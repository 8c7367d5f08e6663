-------------------------- MODULE MoneyConversion --------------------------
(***************************************************************************)
(* From the yuan a user types to the fen the server is asked for.          *)
(*                                                                         *)
(* A text of at most two decimals stands for n fen, that is n/100 yuan.    *)
(* floatValue makes it a single-precision number, which has 24 significant *)
(* bits; floatValue * 100 is rounded to 24 bits again; then the red        *)
(* packets and the transfers cut it to an int, (int)(x), while withdrawals *)
(* and recharges round it, "%.0f".  Amounts on screen are printed "%.2f".  *)
(*                                                                         *)
(* A single-precision number is a pair <<m, s>> that stands for m / 2^s.   *)
(* Every intermediate value is below 2^31.                                 *)
(***************************************************************************)
EXTENDS Integers

\* a / b to the nearest integer, ties to the even one (IEEE 754, and the
\* decimal output of printf).
RoundEven(a, b) ==
    LET q == a \div b
        r == a % b
    IN  IF 2 * r > b \/ (2 * r = b /\ q % 2 = 1) THEN q + 1 ELSE q

MinMantissa == 2^23
MaxMantissa == 2^24

\* The binary places that give n/100 a mantissa of 24 bits.
Places(n) ==
    CHOOSE s \in 0..30 :
        100 * MinMantissa <= n * 2^s /\ n * 2^s < 100 * MaxMantissa

\* [text floatValue] of a text that reads n/100.
FloatValue(n) == IF n = 0 THEN <<0, 0>> ELSE <<RoundEven(n * 2^Places(n), 100), Places(n)>>

\* x * 100 in single precision: a product of 30 or 31 bits rounded to 24.
TimesHundred(x) ==
    LET p == 100 * x[1]
        unit == IF p < 2^30 THEN 2^6 ELSE 2^7
    IN  <<IF p = 0 THEN 0 ELSE unit * RoundEven(p, unit), x[2]>>

\* Mutant: rounded up to the next fen.
RoundedUp(x) == (x[1] + 2^x[2] - 1) \div 2^x[2]

\* (int)x
Truncated(x) == x[1] \div 2^x[2]

\* Mutant: cut where it should be rounded.
RoundedCut(x) == x[1] \div 2^x[2]

\* "%.0f"
Rounded(x) == RoundEven(x[1], 2^x[2])

\* Mutant: the label cut after two decimals.
ShownCut(x) == (100 * x[1]) \div 2^x[2]

\* "%.2f", as the fen it shows.
Shown(x) == RoundEven(100 * x[1], 2^x[2])

\* The fen asked for by a red packet or a transfer of n fen; the group form
\* passes the result through single precision once more, which changes no
\* integer below 2^24 ...
SentFen(n) == Truncated(TimesHundred(FloatValue(n)))

\* ... and by a withdrawal or a recharge.
WalletFen(n) == Rounded(TimesHundred(FloatValue(n)))

\* The label under the amount field of a red packet.
LabelFen(n) == Shown(FloatValue(n))
=============================================================================
