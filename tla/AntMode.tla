------------------------------- MODULE AntMode --------------------------------
(***************************************************************************)
(* The map page: is the user an "ant", does the map show him to others,    *)
(* and the red packets that lie around.                                    *)
(*                                                                         *)
(* Requests are processed by the server and answered in any order, or get  *)
(* lost on either way; some are repeated by timers.  The page shows red    *)
(* packets (orShowRedPage).  Which users and packets are near belongs to   *)
(* the server, as does the flag that shows the user to others.  Paying for *)
(* ant mode, the user cards and the search line are left out.              *)
(***************************************************************************)
EXTENDS Integers, Sequences, FiniteSets

CONSTANTS
    MapPackets,     \* the red packets of the map
    MaxAntRequests  \* bound: requests in flight

ASSUME AntAssumption == MaxAntRequests \in Nat

VARIABLES
    saved,          \* userInfoMapKey of NSUserDefaults: "none", "show", "hidden"
    button,         \* showInfoBtn: is it selected, does it take touches
    hasCity,        \* the user center has a city code
    antNet,         \* requests in flight, with the server's result once there is one
    timers,         \* the requests that a timer will send
    mapped,         \* the packets on the map
    around,         \* AnnotationRedArray: the packets of the last answer
    view,           \* the WSRedPacketView: its packet, and claims to be sent
    pages,          \* result pages: a packet, and whether it was got
    visible,        \* the server shows the user to others
    lying,          \* the packets the server has
    mine,           \* those it gave to the user
    settled,        \* history: the page knows the server's flag
    claims          \* history: claims sent for each packet, at most 2 counted

antVars == <<saved, button, hasCity, antNet, timers, mapped, around, view, pages, visible, lying, mine, settled, claims>>
flagVars == <<saved, button, settled>>
mapVars == <<mapped, around>>
claimVars == <<view, pages, claims>>
serverVars == <<visible, lying, mine>>

NoView == [packet |-> 0, spins |-> 0]

\* userInfoOrOpen: everything but "hidden" is open.
UserInfoOrOpen == saved # "hidden"

InFlight(op) == {r \in antNet : r.op = op}

\* One of a kind and content at a time waits for the server.
Request(r) == Cardinality(antNet \cup {r}) <= MaxAntRequests /\ antNet' = antNet \cup {r}

-----------------------------------------------------------------------------
(* The page opens, and asks.                                               *)

\* viewDidLoad, of the first page or of the next life of the process; what
\* was under way is forgotten, and the flag known if nothing was changing it
\* (a request of a former life that reaches the server later is left out).
OpenPage ==
    /\ antNet' = {[op |-> "isAnt", at |-> "sent"]} /\ timers' = {}
    /\ button' = [selected |-> UserInfoOrOpen, enabled |-> TRUE]
    /\ settled' = (settled /\ InFlight("set") = {})
    /\ mapped' = {} /\ around' = {} /\ view' = NoView /\ pages' = {}
    /\ UNCHANGED <<saved, hasCity, claims, serverVars>>

\* didUpdateLocation: the city is found, or lost again.
Locate == hasCity' = ~hasCity /\ UNCHANGED <<flagVars, antNet, timers, mapVars, claimVars, serverVars>>

\* judementIsAntUser: both requests follow a second later; a failure is
\* repeated after three.
IsAntAnswered(r) ==
    /\ r \in InFlight("isAnt") /\ r.at # "sent"
    /\ antNet' = antNet \ {r}
    /\ timers' = timers \cup
        CASE r.at = "lost" -> {"isAnt"} [] r.at = "yes" -> {"entered"} [] r.at = "no" -> {}
    /\ UNCHANGED <<flagVars, hasCity, mapVars, claimVars, serverVars>>

GetRequest == [op |-> "get", at |-> "sent", alone |-> InFlight("set") = {}]

\* judementNearbyAnt needs the city.
NearbyRequests == IF hasCity THEN {[op |-> "near", at |-> "sent", packets |-> {}]} ELSE {}

TimerFires(t) ==
    /\ t \in timers /\ timers' = timers \ {t}
    /\ LET sends == CASE t = "isAnt" -> {[op |-> "isAnt", at |-> "sent"]}
                      [] t = "get" -> {GetRequest}
                      [] t = "entered" -> {GetRequest} \cup NearbyRequests
       IN  /\ Cardinality(antNet \cup sends) <= MaxAntRequests
           /\ antNet' = antNet \cup sends
           /\ settled' = (settled /\ (GetRequest \in sends => GetRequest.alone))
    /\ UNCHANGED <<saved, button, hasCity, mapVars, claimVars, serverVars>>

-----------------------------------------------------------------------------
(* Shown to others, or not.                                                *)

\* antInfoGet; without data only the button changes, and a failure is
\* repeated after five seconds.
GetAnswered(r) ==
    /\ r \in InFlight("get") /\ r.at # "sent"
    /\ antNet' = antNet \ {r}
    /\ CASE r.at = "lost" ->
                timers' = timers \cup {"get"} /\ UNCHANGED flagVars
         [] r.at = "none" ->
                button' = [button EXCEPT !.selected = TRUE] /\ settled' = FALSE /\ UNCHANGED <<saved, timers>>
         [] r.at \in {"show", "hidden"} ->
                /\ saved' = r.at /\ button' = [button EXCEPT !.selected = r.at = "show"]
                /\ settled' = r.alone /\ UNCHANGED timers
    /\ UNCHANGED <<hasCity, mapVars, claimVars, serverVars>>

\* Mutant: what is shown is asked for again.
StatusSame == UserInfoOrOpen

\* What antInfoSet asks for: it sends its present state as the status, and
\* saves the opposite when the server agrees.
Status == ~UserInfoOrOpen

\* The button: antInfoSet.  Without a city it returns, and leaves the button
\* disabled.
TapShowInfo ==
    /\ button.enabled
    /\ button' = [button EXCEPT !.enabled = FALSE]
    /\ IF hasCity
       THEN /\ Cardinality(antNet) < MaxAntRequests
            /\ antNet' = {IF r.op = "get" THEN [r EXCEPT !.alone = FALSE] ELSE r : r \in antNet}
                            \cup {[op |-> "set", at |-> "sent", show |-> Status]}
            /\ settled' = (settled /\ InFlight("get") = {})
       ELSE UNCHANGED <<antNet, settled>>
    /\ UNCHANGED <<saved, hasCity, timers, mapVars, claimVars, serverVars>>

\* The answer turns round what is saved by then.
SetAnswered(r) ==
    /\ r \in InFlight("set") /\ r.at # "sent"
    /\ antNet' = antNet \ {r}
    /\ IF r.at = "ok"
       THEN /\ saved' = IF UserInfoOrOpen THEN "hidden" ELSE "show"
            /\ button' = [selected |-> ~UserInfoOrOpen, enabled |-> TRUE]
       ELSE button' = [button EXCEPT !.enabled = TRUE] /\ UNCHANGED saved
    /\ settled' = (settled /\ r.at # "lost")
    /\ UNCHANGED <<hasCity, timers, mapVars, claimVars, serverVars>>

-----------------------------------------------------------------------------
(* Packets around.                                                         *)

\* clickeAddressBtnAction
TapAddress ==
    /\ hasCity
    /\ Request([op |-> "near", at |-> "sent", packets |-> {}])
    /\ UNCHANGED <<flagVars, hasCity, timers, mapVars, claimVars, serverVars>>

\* makeNearPeopleAndRedPacketWithDic: the answer replaces what is there.
NearAnswered(r) ==
    /\ r \in InFlight("near") /\ r.at # "sent"
    /\ antNet' = antNet \ {r}
    /\ IF r.at = "lost" THEN UNCHANGED mapVars ELSE mapped' = r.packets /\ around' = r.packets
    /\ UNCHANGED <<flagVars, hasCity, timers, claimVars, serverVars>>

\* mapDidZoomByUser: the packets of the last answer are hidden, or shown;
\* one that was selected comes back.
Zoom ==
    /\ mapped' \in {{}, around}
    /\ UNCHANGED <<flagVars, hasCity, antNet, timers, around, claimVars, serverVars>>

\* didSelectAnnotationView: the packet leaves the map, and its view covers it.
SelectPacket(p) ==
    /\ view = NoView /\ p \in mapped
    /\ mapped' = mapped \ {p}
    /\ view' = [packet |-> p, spins |-> 0]
    /\ UNCHANGED <<flagVars, hasCity, antNet, timers, around, pages, claims, serverVars>>

\* The seal: an animation of its own for every touch.
TouchSeal ==
    /\ view # NoView /\ view.spins < 2
    /\ view' = [view EXCEPT !.spins = @ + 1]
    /\ UNCHANGED <<flagVars, hasCity, antNet, timers, mapVars, pages, claims, serverVars>>

\* A claim for the packet of the view, and whether the view waits for it.
Claim(n, here) == [op |-> "claim", at |-> "sent", packet |-> view.packet, n |-> n, here |-> here]
Counted(n) == [claims EXCEPT ![view.packet] = IF @ + n < 2 THEN @ + n ELSE 2]

Claims(n) ==
    /\ Cardinality(antNet) < MaxAntRequests
    /\ antNet' = antNet \cup {Claim(i, TRUE) : i \in 1..n}
    /\ claims' = Counted(1)

\* Mutant: the claim is sent twice.
SpinEndsTwice ==
    /\ view.spins > 0 /\ view' = [view EXCEPT !.spins = @ - 1]
    /\ IF hasCity THEN Claims(2) ELSE UNCHANGED <<antNet, claims>>
    /\ UNCHANGED <<flagVars, hasCity, timers, mapVars, pages, serverVars>>

\* animationDidStop, when it has ended or was replaced: the claim is sent, if
\* there is a city (one of a content at a time waits for the server).
SpinEnds ==
    /\ view.spins > 0 /\ view' = [view EXCEPT !.spins = @ - 1]
    /\ IF hasCity THEN Claims(1) ELSE UNCHANGED <<antNet, claims>>
    /\ UNCHANGED <<flagVars, hasCity, timers, mapVars, pages, serverVars>>

\* The view goes, with rest in flight: what runs on it stops and sends its
\* claim, and no answer finds it any more.
Orphaned(r) == IF r.op = "claim" THEN [r EXCEPT !.here = FALSE] ELSE r

Leave(rest) ==
    /\ view' = NoView
    /\ IF hasCity /\ view.spins > 0
       THEN /\ Cardinality(rest) < MaxAntRequests
            /\ antNet' = {Orphaned(r) : r \in rest} \cup {Claim(1, FALSE)}
            /\ claims' = Counted(view.spins)
       ELSE /\ antNet' = {Orphaned(r) : r \in rest}
            /\ UNCHANGED claims

\* closeViewAction: the seal may still be turning.
CloseView ==
    /\ view # NoView /\ Leave(antNet)
    /\ UNCHANGED <<flagVars, hasCity, timers, mapVars, pages, serverVars>>

\* The answer closes the view and its page comes, if the view still lives.
ClaimAnswered(r) ==
    /\ r \in InFlight("claim") /\ r.at # "sent"
    /\ IF r.at # "lost" /\ r.here
       THEN /\ pages' = pages \cup {<<r.packet, r.at = "got">>}
            /\ \/ Leave(antNet \ {r})
               \/ antNet' = antNet \ {r} /\ UNCHANGED <<view, claims>>
       ELSE antNet' = antNet \ {r} /\ UNCHANGED claimVars
    /\ UNCHANGED <<flagVars, hasCity, timers, mapVars, serverVars>>

-----------------------------------------------------------------------------
(* The server.                                                             *)

\* It processes a request, whose answer may then get lost.
Served(r, at) == antNet' \in {(antNet \ {r}) \cup {[r EXCEPT !.at = x]} : x \in {at, "lost"}}

Serve(r) ==
    /\ r.at = "sent"
    /\ \/ r.op = "isAnt" /\ (\E a \in {"yes", "no"} : Served(r, a)) /\ UNCHANGED serverVars
       \/ r.op = "get" /\ UNCHANGED serverVars
            /\ \E a \in {"none", IF visible THEN "show" ELSE "hidden"} : Served(r, a)
       \/ r.op = "set" /\ Served(r, "ok") /\ visible' = r.show /\ UNCHANGED <<lying, mine>>
       \/ r.op = "set" /\ Served(r, "refused") /\ UNCHANGED serverVars
       \/ /\ r.op = "near" /\ UNCHANGED serverVars
          /\ antNet' \in {(antNet \ {r}) \cup {[r EXCEPT !.at = a, !.packets = lying]} : a \in {"ok", "lost"}}
       \/ /\ r.op = "claim" /\ r.packet \in lying
          /\ Served(r, "got")
          /\ mine' = mine \cup {r.packet} /\ lying' = lying \ {r.packet} /\ UNCHANGED visible
       \/ r.op = "claim" /\ r.packet \notin lying /\ Served(r, "late") /\ UNCHANGED serverVars
    /\ UNCHANGED <<flagVars, hasCity, timers, mapVars, claimVars>>

\* A request that never arrives.
Lose(r) ==
    /\ r.at = "sent"
    /\ antNet' = (antNet \ {r}) \cup {[r EXCEPT !.at = "lost"]}
    /\ UNCHANGED <<flagVars, hasCity, timers, mapVars, claimVars, serverVars>>

\* Somebody else is faster.
Taken(p) ==
    /\ p \in lying /\ lying' = lying \ {p}
    /\ UNCHANGED <<flagVars, hasCity, antNet, timers, mapVars, claimVars, visible, mine>>

-----------------------------------------------------------------------------
AntInit ==
    /\ saved = "none" /\ button = [selected |-> TRUE, enabled |-> TRUE]
    /\ hasCity = FALSE /\ antNet = {[op |-> "isAnt", at |-> "sent"]} /\ timers = {}
    /\ mapped = {} /\ around = {} /\ view = NoView /\ pages = {} /\ claims = [p \in MapPackets |-> 0]
    /\ visible \in BOOLEAN /\ lying = MapPackets /\ mine = {}
    /\ settled = FALSE

AntNext ==
    \/ OpenPage \/ Locate \/ TapShowInfo \/ TapAddress \/ Zoom \/ TouchSeal \/ SpinEnds \/ CloseView
    \/ \E p \in MapPackets : SelectPacket(p) \/ Taken(p)
    \/ \E t \in timers : TimerFires(t)
    \/ \E r \in antNet : \/ Serve(r) \/ Lose(r) \/ IsAntAnswered(r) \/ GetAnswered(r) \/ SetAnswered(r)
                         \/ NearAnswered(r) \/ ClaimAnswered(r)

AntSpec == AntInit /\ [][AntNext]_antVars

-----------------------------------------------------------------------------
\* Once the page has learned the server's flag, and no question about it
\* overlapped a change and no answer to a change was lost, button, saved
\* state and server agree whenever no change is under way: antInfoSet turns
\* round what is saved when the answer comes (MapViewController.m:529-541).
VisibilityAgrees ==
    settled /\ InFlight("set") = {} => UserInfoOrOpen = visible /\ button.selected = visible

\* The result page says that a packet was got exactly if it was, as long as
\* one claim was sent for it: every animation that stops sends one, and a
\* packet can be selected again after a zoom or from an older answer.
PageTellsTruth ==
    \A p \in MapPackets, g \in BOOLEAN : claims[p] <= 1 /\ <<p, g>> \in pages => g = (p \in mine)
===============================================================================
