------------------------------ MODULE MCAppParts ------------------------------
(***************************************************************************)
(* Parts of the app that answer for themselves, in one run: part says      *)
(* which of them a behaviour is about, and the others stand still.  The    *)
(* conversions of money are a walk through the amounts, a fen at a time;   *)
(* the others are what follows the money (sending a packet, opening one,   *)
(* the map) and the bucket below the app.                                  *)
(***************************************************************************)
EXTENDS RedPacketSend, RedPacketOpen, AntMode, ZWBucket

CONSTANTS
    Starts,         \* where a walk begins
    Stretch,        \* how many amounts it visits
    Small           \* the amounts of a second packet

VARIABLES
    part,
    fen             \* where the walk is

partsVars == <<part, fen, vars, openVars, antVars, bucketVars>>

AppParts == {"money", "send", "open", "map", "bucket"}

AppInit ==
    /\ part \in AppParts
    /\ fen \in Starts
    /\ Init /\ OpenInit /\ AntInit /\ BucketInit
    /\ part # "money" => \A s \in Starts : fen <= s
    /\ part # "open" => \A p \in ChatPackets : stock[p].own
    /\ part # "map" => visible

MoneyStep ==
    /\ part = "money"
    /\ \A s \in Starts : fen # s + Stretch
    /\ fen' = fen + 1
    /\ UNCHANGED <<part, vars, openVars, antVars, bucketVars>>

SendStep == part = "send" /\ Next /\ UNCHANGED <<part, fen, openVars, antVars, bucketVars>>
OpenStep == part = "open" /\ OpenNext /\ UNCHANGED <<part, fen, vars, antVars, bucketVars>>
MapStep == part = "map" /\ AntNext /\ UNCHANGED <<part, fen, vars, openVars, bucketVars>>
BucketStep ==
    part = "bucket" /\ BucketNext /\ UNCHANGED <<part, fen, vars, openVars, antVars>>

AppNext == MoneyStep \/ SendStep \/ OpenStep \/ MapStep \/ BucketStep

AppSpec == AppInit /\ [][AppNext]_partsVars

Ordered == packets \cup {r.packet : r \in {q \in net : q.op = "create"}}

\* What is typed matters to the amounts and not to the announcements: a
\* second form is explored beside a first packet that is plain and small,
\* and for the same.
MCPlainSecond ==
    asked > 0 /\ form.open =>
        /\ form.text.is # "junk" /\ form.text.fen \in {0} \cup Small /\ form.count <= 1
        /\ \A p \in Ordered : p.plain /\ p.patient /\ p.shown \in Small /\ p.count <= 1

\* The flag and the packets meet in the city and the bound on requests only:
\* once a packet has been claimed, the flag is left alone.
MCFlagFirst ==
    \A p \in MapPackets : claims[p] > 0 =>
        timers \subseteq {"isAnt"} /\ InFlight("get") = {} /\ InFlight("set") = {}

\* How far the fen asked for may be from the yuan typed, at every call site.
\* A red packet or a transfer never asks for more, and the cut of the
\* product loses a fen at the most.  A withdrawal or a recharge asks for
\* exactly what was typed below 65536 yuan, where single precision has seven
\* binary places left, and above for a fen beside it at the most.  The label
\* of a red packet shows what was typed.
AmountsKept ==
    part = "money" =>
        /\ SentFen(fen) \in {fen - 1, fen}
        /\ WalletFen(fen) \in IF fen < 6553600 THEN {fen} ELSE {fen - 1, fen, fen + 1}
        /\ LabelFen(fen) = fen
===============================================================================
