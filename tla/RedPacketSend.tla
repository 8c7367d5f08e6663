--------------------------- MODULE RedPacketSend ---------------------------
(***************************************************************************)
(* Sending a red packet from a chat: the form (private or group), the      *)
(* payment sheet, the payment password and the request to the server, and  *)
(* the chat message that announces the packet.                             *)
(*                                                                         *)
(* While a reply is awaited a HUD takes every touch, for 15 seconds; after *)
(* that the form is free while the request is still in flight.  The        *)
(* handlers read the form again when the reply arrives.  They hold the     *)
(* form weakly: once it is dismissed a reply still shows its sheet or its  *)
(* alert, which then leads nowhere (the half second of the dismissal's     *)
(* animation is left out).                                                 *)
(*                                                                         *)
(* Amounts are in fen.  The server is external: it may create the packet,  *)
(* refuse, answer with another code, or create it and lose the reply.      *)
(***************************************************************************)
EXTENDS MoneyConversion, Sequences, FiniteSets

CONSTANTS
    Amounts,        \* what the user may type
    Limit,          \* the most a packet may hold
    Members,        \* members of the group
    MaxRequests,    \* bound: requests and timers in flight
    MaxPackets      \* bound: packets asked for

\* The most that can be typed: 100000 yuan and 99 fen.
MostTyped == 10000099

ASSUME RedPacketAssumption ==
    /\ Amounts \subseteq 0..MostTyped
    /\ {Limit, Members, MaxRequests, MaxPackets} \subseteq Nat

VARIABLES
    form,           \* the form on screen and its fields
    sheet,          \* what covers it (bound: one at a time; a reply that
                    \* shows one comes when none is up)
    net,            \* requests in flight, and the timer before a retry
    packets,        \* the packets the server has created
    chat,           \* the announcements, in order
    asked,          \* how many packets have been asked for
    patient         \* history: no field was touched while a reply, a retry
                    \* or a sheet of this form was pending

vars == <<form, sheet, net, packets, chat, asked, patient>>

Empty == [is |-> "none", fen |-> 0]
Fen == {0} \cup Amounts \cup {LabelFen(a) : a \in Amounts}
Texts == {Empty} \cup [is : {"number", "junk"}, fen : Fen]
Typed == {t \in Texts : t.fen \in Amounts \/ t = Empty}
Forms ==
    [open : BOOLEAN, kind : {"private", "group"}, text : Texts, label : Fen,
     count : 0..Members, random : BOOLEAN, pay : Fen]
NoSheet == [at |-> "none"]
Sheets == [at : {"pay", "password"}, shown : Fen] \cup [at : {"none", "wrong", "stale"}]
Packets ==
    [id : 1..MaxPackets, kind : {"private", "group"}, amount : Nat, count : 0..Members,
     random : BOOLEAN, shown : Fen, patient : BOOLEAN, plain : BOOLEAN]
Requests ==
    [op : {"ask", "verify"}, shown : Fen] \cup [op : {"retry"}]
        \cup [op : {"create"}, packet : Packets]
        \cup [op : {"stale"}, was : {"ask", "verify", "retry"}]

NoId == 0

TypeOK ==
    /\ form \in Forms
    /\ sheet \in Sheets
    /\ net \subseteq Requests /\ Cardinality(net) <= MaxRequests
    /\ packets \subseteq Packets
    /\ chat \in Seq([kind : {"private", "group"}, id : 0..MaxPackets])
    /\ asked \in 0..MaxPackets
    /\ patient \in BOOLEAN

Form(open, kind) ==
    [open |-> open, kind |-> kind, text |-> Empty, label |-> 0, count |-> 0,
     random |-> TRUE, pay |-> 0]

\* No form: what was typed is gone with it.
Gone == Form(FALSE, "private")

Init ==
    /\ form = Gone
    /\ sheet = NoSheet
    /\ net = {}
    /\ packets = {}
    /\ chat = <<>>
    /\ asked = 0
    /\ patient = TRUE

\* The requests whose reply the form waits for.
Waiting == {r \in net : r.op \in {"ask", "verify", "retry"}}

\* What is in flight once the form is gone: its requests are answered for
\* nobody (bound: one of each kind).
Stale(r) == [op |-> "stale", was |-> r.op]
Forsaken(requests) == {IF r \in Waiting THEN Stale(r) ELSE r : r \in requests}

Show(s) == sheet = NoSheet /\ sheet' = s
Hide == sheet' = NoSheet
Send(r) == Cardinality(net \cup {r}) <= MaxRequests /\ net' = net \cup {r}

\* The user touches a field; it is an impatient touch while a reply is due.
Edit(fields) ==
    /\ form.open /\ sheet = NoSheet
    /\ form' = fields
    /\ patient' = (patient /\ Waiting = {})
    /\ UNCHANGED <<sheet, net, packets, chat, asked>>

OpenForm(kind) ==
    /\ ~form.open /\ sheet = NoSheet
    /\ form' = Form(TRUE, kind)
    /\ patient' = TRUE
    /\ UNCHANGED <<sheet, net, packets, chat, asked>>

\* Dismissed by the user.
CancelForm ==
    /\ form.open /\ sheet = NoSheet
    /\ form' = Gone
    /\ net' = Forsaken(net)
    /\ UNCHANGED <<sheet, packets, chat, asked, patient>>

\* Mutant: the label shows a fen more than was typed.
TypeMoneyOneMore(t) ==
    Edit([form EXCEPT !.text = t,
                      !.label = IF t.is = "junk" THEN form.label ELSE LabelFen(t.fen) + 1])

\* moneyTextDidChange: the label follows the text, but an invalid text
\* leaves it at the amount before.
TypeMoney(t) ==
    Edit([form EXCEPT !.text = t,
                      !.label = IF t.is = "junk" THEN form.label ELSE LabelFen(t.fen)])

\* Above 100000 yuan the text becomes the amount of the label again.
TypeTooMuch == Edit([form EXCEPT !.text = [is |-> "number", fen |-> form.label]])

\* Mutant: the count is not cut.
TypeCountUncut(c) == form.kind = "group" /\ Edit([form EXCEPT !.count = c])

\* The count is cut to the members of the group; a typed count is not zero.
TypeCount(c) ==
    /\ form.kind = "group"
    /\ Edit([form EXCEPT !.count = IF c > Members THEN Members ELSE c])

\* Lucky draw of one total, or the same amount for each.
ChangeType == form.kind = "group" /\ Edit([form EXCEPT !.random = ~form.random])

\* Mutant: the button checks no limit.
SureUnlimited ==
    /\ form.open /\ sheet = NoSheet
    /\ form.text.is # "none"
    /\ IF form.kind = "private" THEN form.label # 0 ELSE form.count # 0
    /\ Show([at |-> "pay", shown |-> IF form.kind = "private" THEN form.label ELSE form.text.fen])
    /\ patient' = (patient /\ Waiting = {})
    /\ UNCHANGED <<form, net, packets, chat, asked>>

\* The button of the form: its checks, then the payment sheet.
Sure ==
    /\ form.open /\ sheet = NoSheet
    /\ form.text.is # "none"
    /\ IF form.kind = "private"
       THEN form.label # 0 /\ form.label <= Limit
       ELSE form.count # 0 /\ form.label <= Limit * form.count
    /\ Show([at |-> "pay", shown |-> IF form.kind = "private" THEN form.label ELSE form.text.fen])
    /\ patient' = (patient /\ Waiting = {})
    /\ UNCHANGED <<form, net, packets, chat, asked>>

\* The payment sheet: by balance; is a payment password set?
Pay ==
    /\ sheet.at = "pay"
    /\ Hide
    /\ IF form.open
       THEN Send([op |-> "ask", shown |-> sheet.shown]) /\ form' = [form EXCEPT !.pay = IF form.kind = "private" THEN sheet.shown ELSE @]
       ELSE UNCHANGED <<form, net>>
    /\ UNCHANGED <<packets, chat, asked, patient>>

\* Any sheet can be dismissed.
CancelSheet ==
    /\ sheet # NoSheet
    /\ Hide
    /\ UNCHANGED <<form, net, packets, chat, asked, patient>>

\* It is set: ask for it; otherwise, or without an answer, an alert only.
AskAnswered(r) ==
    /\ r \in net /\ r.op = "ask"
    /\ net' = net \ {r}
    /\ Show([at |-> "password", shown |-> r.shown]) \/ UNCHANGED sheet
    /\ UNCHANGED <<form, packets, chat, asked, patient>>

\* Six digits end the input; a sheet whose form is gone does nothing.
EnterPassword ==
    /\ sheet.at = "password"
    /\ Hide
    /\ IF form.open THEN Send([op |-> "verify", shown |-> sheet.shown]) ELSE UNCHANGED net
    /\ UNCHANGED <<form, packets, chat, asked, patient>>

\* What the form asks for when the password has been verified: the private
\* form reads its label, the group form its text.
Order(shown) ==
    [id |-> asked + 1, kind |-> form.kind,
     amount |-> SentFen(IF form.kind = "private" THEN form.label ELSE form.text.fen),
     count |-> form.count, random |-> form.random, shown |-> shown,
     patient |-> patient, plain |-> form.text.is = "number"]

\* The password is right: the packet is asked for and the form dismissed;
\* or it is wrong, or there is no answer: an alert offers another try.
PasswordVerified(r) ==
    /\ r \in net /\ r.op = "verify"
    /\ \/ /\ asked < MaxPackets
          /\ asked' = asked + 1
          /\ net' = Forsaken(net \ {r}) \cup {[op |-> "create", packet |-> Order(r.shown)]}
          /\ form' = Gone
          /\ UNCHANGED sheet
       \/ /\ net' = net \ {r}
          /\ Show([at |-> "wrong"])
          /\ UNCHANGED <<form, asked>>
    /\ UNCHANGED <<packets, chat, patient>>

\* Another try: the alert goes and a timer of one second starts.
Retry ==
    /\ sheet.at = "wrong"
    /\ Hide
    /\ IF form.open THEN Send([op |-> "retry"]) ELSE UNCHANGED net
    /\ UNCHANGED <<form, packets, chat, asked, patient>>

\* ... the private form shows what was paid for, the group form its label.
RetryFires ==
    /\ [op |-> "retry"] \in net
    /\ net' = net \ {[op |-> "retry"]}
    /\ Show([at |-> "password", shown |-> IF form.kind = "private" THEN form.pay ELSE form.label])
    /\ UNCHANGED <<form, packets, chat, asked, patient>>

\* A reply to a form that is gone: the sheet or the alert comes all the same,
\* and a timer always shows its sheet.
StaleReply(r) ==
    /\ r \in net /\ r.op = "stale"
    /\ net' = net \ {r}
    /\ Show([at |-> "stale"]) \/ (r.was # "retry" /\ UNCHANGED sheet)
    /\ UNCHANGED <<form, packets, chat, asked, patient>>

Announce(p, id) == chat' = Append(chat, [kind |-> p.kind, id |-> id])

\* Mutant: an answered packet is announced once more when the reply is lost.
CreateAnsweredTwice(r) ==
    /\ r \in net /\ r.op = "create"
    /\ net' \in {net, net \ {r}}
    /\ packets' = packets \cup {r.packet}
    /\ Announce(r.packet, r.packet.id)
    /\ UNCHANGED <<form, sheet, asked, patient>>

\* The packet is created and its id comes back: announced in the chat.
CreateAnswered(r) ==
    /\ r \in net /\ r.op = "create"
    /\ net' = net \ {r}
    /\ packets' = packets \cup {r.packet}
    /\ Announce(r.packet, r.packet.id)
    /\ UNCHANGED <<form, sheet, asked, patient>>

\* Refused, or no answer (with the packet created or not): the private chat
\* announces a packet without an id, the group chat nothing.
CreateFailed(r) ==
    /\ r \in net /\ r.op = "create"
    /\ net' = net \ {r}
    /\ packets' \in {packets, packets \cup {r.packet}}
    /\ IF r.packet.kind = "private" THEN Announce(r.packet, NoId) ELSE UNCHANGED chat
    /\ UNCHANGED <<form, sheet, asked, patient>>

Reply(r) ==
    \/ AskAnswered(r) \/ PasswordVerified(r) \/ StaleReply(r)
    \/ CreateAnswered(r) \/ CreateFailed(r)

Touch ==
    \/ \E kind \in {"private", "group"} : OpenForm(kind)
    \/ CancelForm
    \/ \E t \in Typed : TypeMoney(t)
    \/ TypeTooMuch
    \/ \E c \in 1..(Members + 1) : TypeCount(c)
    \/ ChangeType
    \/ Sure \/ Pay \/ EnterPassword \/ Retry \/ CancelSheet

Next ==
    \/ Touch
    \/ \E r \in net : Reply(r)
    \/ RetryFires

Spec == Init /\ [][Next]_vars

-----------------------------------------------------------------------------
\* A user who waits for the replies pays for what the password sheet showed:
\* the packet holds the amount shown, less a fen at the most, though every
\* handler reads the form again (senderRedPacket to sureSendRedpacker).
ConfirmedAmount ==
    \A p \in packets : p.patient /\ p.plain => p.amount \in {p.shown - 1, p.shown}

\* ... and within the limit of its kind: a private packet 200 yuan, a lucky
\* draw 200 yuan for each of its parts.
WithinLimit ==
    \A p \in packets : p.patient /\ p.plain =>
        /\ p.kind = "private" => p.amount <= Limit
        /\ p.kind = "group" /\ p.random => p.amount <= Limit * p.count

\* An announcement that carries an id opens a packet of its own: no packet
\* is announced twice, and none that was not created (sendRedpackerWithMessage).
AnnouncedOnce ==
    \A i \in 1..Len(chat) : chat[i].id # NoId =>
        /\ \E p \in packets : p.id = chat[i].id /\ p.kind = chat[i].kind
        /\ \A j \in 1..Len(chat) : chat[j].id = chat[i].id => j = i

\* Tapping one's own private packet leads to its details, as the comment at
\* ConversationViewController.m:389 says: every announcement names a packet.
OwnPacketOpens == \A i \in 1..Len(chat) : chat[i].kind = "private" => chat[i].id # NoId
=============================================================================
