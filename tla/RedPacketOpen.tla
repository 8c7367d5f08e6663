----------------------------- MODULE RedPacketOpen -----------------------------
(***************************************************************************)
(* Opening red packets from a chat: the tap on the message, the answer     *)
(* with the packet's state, the sheets that are laid over the window, the  *)
(* claim, and the notice "... has taken ...'s packet" in a group.          *)
(*                                                                         *)
(* The taps of 0.5 seconds are guarded, the answers take as long as they   *)
(* take: several sheets may lie over each other, each with the state of    *)
(* when its answer left the server.  The server is external: it gives one  *)
(* share of a packet to a user as long as there are some, and the packet   *)
(* may run out or expire at any time.  Requests and answers get lost.      *)
(***************************************************************************)
EXTENDS Integers, Sequences, FiniteSets

CONSTANTS
    ChatPackets,    \* the packets of the chat
    Private,        \* ... those of a private chat; the others are a group's
    MaxSheets,      \* bound: sheets over each other
    MaxCalls        \* bound: requests in flight

ASSUME OpenAssumption ==
    /\ Private \subseteq ChatPackets
    /\ {MaxSheets, MaxCalls} \subseteq Nat

VARIABLES
    isClick,        \* the guard of the taps
    calls,          \* requests in flight, in the order they were sent
    sheets,         \* the opening sheets, the topmost last
    details,        \* how many detail pages have come, of each packet
    notices,        \* how many notices have been sent, of each packet
    crashed,        \* a page was given no packet, and asks with a nil id
    stock           \* the server: shares left, expired, given to the user, sent by him

openVars == <<isClick, calls, sheets, details, notices, crashed, stock>>
pageVars == <<details, notices, crashed>>

IsPrivate(p) == p \in Private
Without2(i) == [j \in 1..Len(calls) - 1 |-> calls[IF j < i THEN j ELSE j + 1]]
SendCall(r) == Len(calls) < MaxCalls /\ calls' = Append(calls, r)

\* Counted up to two.
Once(f, p) == [f EXCEPT ![p] = IF @ < 2 THEN @ + 1 ELSE 2]
ShowDetails(p) == details' = Once(details, p)

-----------------------------------------------------------------------------
(* The chat.                                                               *)

\* didTapMessageCell; a sheet takes all touches.
TapMessage(p) ==
    /\ ~isClick /\ isClick' = TRUE
    /\ sheets = <<>>
    /\ SendCall([op |-> "detail", p |-> p, at |-> "sent"])
    /\ UNCHANGED <<sheets, pageVars, stock>>

GuardEnds == isClick /\ isClick' = FALSE /\ UNCHANGED <<calls, sheets, pageVars, stock>>

\* The packet's state: one's own private packet, or one that is taken, is
\* shown; any other gets a sheet.  Without an answer nothing happens.
DetailAnswered(i) ==
    LET r == calls[i] IN
    /\ r.op = "detail" /\ r.at \in {"ok", "lost"}
    /\ calls' = Without2(i)
    /\ IF r.at = "lost" THEN UNCHANGED <<sheets, details>>
       ELSE IF r.state.got \/ (IsPrivate(r.p) /\ r.state.own)
            THEN ShowDetails(r.p) /\ UNCHANGED sheets
            ELSE /\ Len(sheets) < MaxSheets
                 /\ sheets' = Append(sheets, [p |-> r.p, state |-> r.state])
                 /\ UNCHANGED details
    /\ UNCHANGED <<isClick, notices, crashed, stock>>

-----------------------------------------------------------------------------
(* The sheet on top.                                                       *)

Top == sheets[Len(sheets)]
ButTop == SubSeq(sheets, 1, Len(sheets) - 1)

\* closeReapacketView
CloseSheet ==
    /\ sheets # <<>> /\ sheets' = ButTop
    /\ UNCHANGED <<isClick, calls, pageVars, stock>>

\* The delegate decides by the state the sheet was made with.
Delegate ==
    IF ~IsPrivate(Top.p) /\ Top.state.left = 0
    THEN ShowDetails(Top.p) /\ UNCHANGED calls
    ELSE /\ SendCall([op |-> "claim", p |-> Top.p, at |-> "sent"])
         /\ UNCHANGED details

\* openRedpacket: the seal, which does nothing on an expired packet.
TouchPacketSeal ==
    /\ sheets # <<>> /\ sheets' = ButTop
    /\ IF Top.state.expired THEN UNCHANGED <<calls, details>> ELSE Delegate
    /\ UNCHANGED <<isClick, notices, crashed, stock>>

\* checkRedpackerDetail: the button is hidden on the sheet of a packet that
\* can be taken, and on that of a private one, but not on an expired one of
\* a group.
TouchDetail ==
    /\ sheets # <<>> /\ sheets' = ButTop
    /\ ~IsPrivate(Top.p) /\ (Top.state.expired \/ Top.state.left = 0)
    /\ Delegate
    /\ UNCHANGED <<isClick, notices, crashed, stock>>

\* Mutant: the notice is sent whatever the answer.
GroupClaimNoticed(r) ==
    /\ notices' = Once(notices, r.p)
    /\ IF r.at = "given" THEN ShowDetails(r.p) ELSE UNCHANGED details
    /\ UNCHANGED crashed

\* robRedpackerWithRedpackerId's handler: a notice and the page, or an alert.
GroupClaim(r) ==
    /\ IF r.at = "given" THEN ShowDetails(r.p) /\ notices' = Once(notices, r.p)
                         ELSE UNCHANGED <<details, notices>>
    /\ UNCHANGED crashed

\* receiveFriendsRedpacket's handler: the page, of the packet in the answer;
\* a refusal has none.
PrivateClaim(r) ==
    /\ ShowDetails(r.p)
    /\ crashed' = (crashed \/ r.at = "refused")
    /\ UNCHANGED notices

\* Neither has a failure callback.
ClaimReturned(i) ==
    LET r == calls[i] IN
    /\ r.op = "claim" /\ r.at \in {"given", "refused", "lost"}
    /\ calls' = Without2(i)
    /\ IF r.at = "lost" THEN UNCHANGED pageVars
       ELSE IF IsPrivate(r.p) THEN PrivateClaim(r) ELSE GroupClaim(r)
    /\ UNCHANGED <<isClick, sheets, stock>>

-----------------------------------------------------------------------------
(* The server.                                                             *)

ServeDetail(i) ==
    LET r == calls[i] IN
    /\ r.op = "detail" /\ r.at = "sent"
    /\ \E at \in {"ok", "lost"} :
        calls' = [calls EXCEPT ![i] = [op |-> "detail", p |-> r.p, at |-> at, state |-> stock[r.p]]]
    /\ UNCHANGED <<isClick, sheets, pageVars, stock>>

ServeClaim(i) ==
    LET p == calls[i].p
        gives == stock[p].left > 0 /\ ~stock[p].expired /\ ~stock[p].got
    IN  /\ calls[i].op = "claim" /\ calls[i].at = "sent"
        /\ \E at \in {IF gives THEN "given" ELSE "refused", "lost"} : calls' = [calls EXCEPT ![i].at = at]
        /\ stock' = IF gives THEN [stock EXCEPT ![p].left = @ - 1, ![p].got = TRUE] ELSE stock
        /\ UNCHANGED <<isClick, sheets, pageVars>>

LoseCall(i) ==
    /\ calls[i].at = "sent"
    /\ calls' = [calls EXCEPT ![i].at = "lost"]
    /\ UNCHANGED <<isClick, sheets, pageVars, stock>>

\* The others take shares, or the packet expires.
OthersTake(p) ==
    /\ \/ stock[p].left > 0 /\ ~IsPrivate(p) /\ stock' = [stock EXCEPT ![p].left = @ - 1]
       \/ ~stock[p].expired /\ stock' = [stock EXCEPT ![p].expired = TRUE]
    /\ UNCHANGED <<isClick, calls, sheets, pageVars>>

-----------------------------------------------------------------------------
OpenInit ==
    /\ isClick = FALSE /\ calls = <<>> /\ sheets = <<>> /\ crashed = FALSE
    /\ details = [p \in ChatPackets |-> 0] /\ notices = details
    /\ stock \in [ChatPackets -> [left : {1}, expired : {FALSE}, got : {FALSE}, own : BOOLEAN]]

OpenNext ==
    /\ ~crashed
    /\ \/ GuardEnds \/ CloseSheet \/ TouchPacketSeal \/ TouchDetail
       \/ \E p \in ChatPackets : TapMessage(p) \/ OthersTake(p)
       \/ \E i \in DOMAIN calls : \/ DetailAnswered(i) \/ ClaimReturned(i)
                                  \/ ServeDetail(i) \/ ServeClaim(i) \/ LoseCall(i)

OpenSpec == OpenInit /\ [][OpenNext]_openVars

-----------------------------------------------------------------------------
\* However many sheets lie over each other and whatever their packets have
\* become: the group is told of a packet taken once at the most, and only if
\* it was given to this user.
NoticeIsTrue ==
    \A p \in ChatPackets : notices[p] > 0 => notices[p] = 1 /\ stock[p].got /\ ~IsPrivate(p)
===============================================================================
