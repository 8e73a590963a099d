----------------------------- MODULE UdpTracker -----------------------------
(***************************************************************************)
(* The exchange of announce_udp with one tracker (UdpTracker of udp.rs): a  *)
(* connect and an announce datagram, each with a transaction id and a wait  *)
(* of 15 s for one answer.  The network may lose, delay, repeat and reorder *)
(* datagrams: those sent are kept in sets, and any may arrive at any time,  *)
(* more than once, or never.                                                *)
(*                                                                         *)
(* Every announce binds a socket of its own; its port is the number of the  *)
(* exchange, which is to assume that a port is not given out again while    *)
(* datagrams to its last owner are under way.  The connection id, which the *)
(* client only hands back, is left out.                                     *)
(***************************************************************************)
EXTENDS Integers, Sequences

CONSTANTS
    Nanos,          \* nanoseconds in a second
    U32,            \* number of values of a u32
    Sizes,          \* sizes of announce answers
    Buffer,         \* bytes of an announce answer that are received
    MaxClock,       \* bound: nanoseconds
    MaxExchanges    \* bound: exchanges

ASSUME UdpAssumption ==
    /\ Nanos \in Nat \ {0} /\ U32 \in Nat \ {0}
    /\ Sizes \subseteq Nat /\ Buffer \in Nat
    /\ MaxClock \in Nat /\ MaxExchanges \in Nat

VARIABLES
    status,     \* "none", "waiting", "ok" or "failed": of the last exchange
    exchange,   \* its number, and the port of its socket
    ids,        \* its transaction ids: of the connect, then of the announce
    clock,      \* the system clock
    requests,   \* datagrams sent to the tracker
    answers,    \* datagrams sent by the tracker
    counted     \* the exchanges whose announce the tracker has taken

vars == <<status, exchange, ids, clock, requests, answers, counted>>

Connect  == 0
Announce == 1
Error    == 3

Init ==
    /\ status = "none" /\ exchange = 0 /\ ids = <<>> /\ clock = 0
    /\ requests = {} /\ answers = {} /\ counted = {}

-----------------------------------------------------------------------------
\* generate_transaction_id: seconds plus nanoseconds.
TransactionId(t) == ((t \div Nanos) + (t % Nanos)) % U32

\* Some time after the last, a new id is made and a request sent with it.
SendRequest(port, action, sent) ==
    \E t \in (clock + 1) .. MaxClock :
        /\ clock' = t
        /\ ids' = Append(sent, TransactionId(t))
        /\ requests' = requests \cup
              {[from |-> port, action |-> action, tx |-> TransactionId(t)]}

Socket == exchange

Waiting(sent) == status = "waiting" /\ Len(ids) = sent

\* announce_udp: bind a socket, send the connect request.
StartExchange ==
    /\ status # "waiting" /\ exchange < MaxExchanges
    /\ exchange' = exchange + 1
    /\ status' = "waiting"
    /\ SendRequest(Socket', Connect, <<>>)
    /\ UNCHANGED <<answers, counted>>

\* Mutant: one socket is kept for all announces.
InboxShared == {d \in answers : d.to <= Socket}

\* What can arrive at the socket.
Inbox == {d \in answers : d.to = Socket}

LastId == ids[Len(ids)]

GoodConnect(d) == d.size >= 16 /\ d.action = Connect /\ d.tx = LastId

\* What recv_from leaves of a datagram that is larger than the buffer.
Received(d) == IF d.size <= Buffer THEN d.size ELSE Buffer

\* The peers are six bytes each, so an answer that is cut may not do.
GoodAnnounce(d) ==
    /\ Received(d) >= 20 /\ d.action = Announce /\ d.tx = LastId
    /\ (Received(d) - 20) % 6 = 0

SendAnnounce ==
    /\ Waiting(1)
    /\ \E d \in Inbox : GoodConnect(d)
    /\ SendRequest(Socket, Announce, ids)
    /\ UNCHANGED <<status, exchange, answers, counted>>

\* Mutant: any answer to the announce will do.
SucceedAny ==
    /\ Waiting(2)
    /\ Inbox # {}
    /\ status' = "ok"
    /\ UNCHANGED <<exchange, ids, clock, requests, answers, counted>>

Succeed ==
    /\ Waiting(2)
    /\ \E d \in Inbox : GoodAnnounce(d)
    /\ status' = "ok"
    /\ UNCHANGED <<exchange, ids, clock, requests, answers, counted>>

\* The first datagram that comes decides: a bad one ends the exchange, be it
\* only the connect answer once more.
Reject ==
    /\ \E d \in Inbox :
          \/ Waiting(1) /\ ~GoodConnect(d)
          \/ Waiting(2) /\ ~GoodAnnounce(d)
    /\ status' = "failed"
    /\ UNCHANGED <<exchange, ids, clock, requests, answers, counted>>

\* 15 s without an answer, or an error of the socket.
Timeout ==
    /\ status = "waiting"
    /\ status' = "failed"
    /\ UNCHANGED <<exchange, ids, clock, requests, answers, counted>>

-----------------------------------------------------------------------------
\* The tracker, whose answers carry the id and go to the port of the request.
Answer(r, action, size) ==
    answers' = answers \cup
        {[to |-> r.from, action |-> action, tx |-> r.tx, size |-> size]}

TrackerConnects ==
    /\ \E r \in requests : r.action = Connect /\ Answer(r, Connect, 16)
    /\ UNCHANGED <<status, exchange, ids, clock, requests, counted>>

TrackerTakes ==
    /\ \E r \in requests, size \in Sizes :
          /\ r.action = Announce
          /\ counted' = counted \cup {r.from}
          /\ Answer(r, Announce, size)
    /\ UNCHANGED <<status, exchange, ids, clock, requests>>

TrackerErrs ==
    /\ \E r \in requests, size \in Sizes : Answer(r, Error, size)
    /\ UNCHANGED <<status, exchange, ids, clock, requests, counted>>

Next ==
    \/ StartExchange \/ SendAnnounce \/ Succeed \/ Reject \/ Timeout
    \/ TrackerConnects \/ TrackerTakes \/ TrackerErrs

\* Between announces nothing need happen.
Rest == status # "waiting" /\ UNCHANGED vars

Spec == Init /\ [][Next \/ Rest]_vars

-----------------------------------------------------------------------------
RequestType == [from : Nat, action : {Connect, Announce}, tx : Nat]
AnswerType == [to : Nat, action : {Connect, Announce, Error}, tx : Nat, size : Nat]

TypeOK ==
    /\ status \in {"none", "waiting", "ok", "failed"}
    /\ exchange \in Nat /\ clock \in Nat
    /\ ids \in Seq(Nat) /\ Len(ids) <= 2
    /\ requests \subseteq RequestType /\ answers \subseteq AnswerType
    /\ counted \subseteq 1 .. exchange

\* Requests come from exchanges that have begun, and an announce is only answered
\* when it is taken.
AnswersOK ==
    /\ exchange = 0 <=> status = "none"
    /\ \A r \in requests : r.from \in 1 .. exchange
    /\ \A d \in answers : d.action = Announce => d.to \in counted
    /\ status = "ok" => exchange \in counted

UdpInv == TypeOK /\ AnswersOK

\* announce_udp adds what it reported to the total when the exchange succeeds
\* (udp.rs:323): the tracker has then taken the announce of this exchange, not
\* only of an earlier one whose answer came late.
SuccessIsOwn == status = "ok" => exchange \in counted

\* An exchange is a request as Torrent relies on it.
Abstract == INSTANCE Request WITH taken <- exchange \in counted

ImplementsRequest == Abstract!Spec
=============================================================================
