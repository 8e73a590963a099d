-------------------------- MODULE UdpTrackerProofs --------------------------
(***************************************************************************)
(* A UDP announce succeeds only when the tracker has taken it, and so is a  *)
(* request as Torrent relies on it: for any clock, network and tracker.     *)
(***************************************************************************)
EXTENDS UdpTracker, TLAPS

\* A transaction id is a u32.
LEMMA IdIsNat == \A t \in Nat : TransactionId(t) \in Nat
<1> SUFFICES ASSUME NEW t \in Nat PROVE TransactionId(t) \in Nat
  OBVIOUS
<1>1. Nanos \in Nat \ {0} /\ U32 \in Nat \ {0}
  BY UdpAssumption
<1>2. t \div Nanos \in Nat /\ t % Nanos \in Nat
  BY <1>1
<1>3. (t \div Nanos) + (t % Nanos) \in Nat
  BY <1>2
<1>4. ((t \div Nanos) + (t % Nanos)) % U32 \in Nat
  BY <1>1, <1>3
<1> QED BY <1>4 DEF TransactionId

\* What a request adds.
LEMMA SendRequestType ==
    ASSUME TypeOK, NEW port \in Nat, NEW action \in {Connect, Announce},
           NEW sent \in Seq(Nat), SendRequest(port, action, sent)
    PROVE  /\ clock' \in Nat /\ ids' \in Seq(Nat) /\ Len(ids') = Len(sent) + 1
           /\ requests' \subseteq RequestType
           /\ \A r \in requests' : r \in requests \/ r.from = port
<1>1. PICK t \in (clock + 1) .. MaxClock :
          /\ clock' = t
          /\ ids' = Append(sent, TransactionId(t))
          /\ requests' = requests \cup
                {[from |-> port, action |-> action, tx |-> TransactionId(t)]}
  BY DEF SendRequest
<1>2. t \in Nat
  BY UdpAssumption DEF TypeOK
<1>3. TransactionId(t) \in Nat
  BY <1>2, IdIsNat
<1>4. ids' \in Seq(Nat) /\ Len(ids') = Len(sent) + 1
  BY <1>1, <1>3
<1>5. [from |-> port, action |-> action, tx |-> TransactionId(t)] \in RequestType
  BY <1>3 DEF RequestType
<1>6. requests \subseteq RequestType
  BY DEF TypeOK
<1>7. \A r \in requests' : r \in requests \/ r.from = port
  BY <1>1
<1> QED BY <1>1, <1>2, <1>4, <1>5, <1>6, <1>7

\* What the tracker adds.
LEMMA AnswerTypeOK ==
    ASSUME TypeOK, NEW r \in requests, NEW action \in {Connect, Announce, Error},
           NEW size \in Nat, Answer(r, action, size)
    PROVE  /\ answers' \subseteq AnswerType
           /\ \A d \in answers' :
                 d \in answers \/ (d.to = r.from /\ d.action = action)
<1>1. r.from \in Nat /\ r.tx \in Nat
  BY DEF TypeOK, RequestType
<1>2. [to |-> r.from, action |-> action, tx |-> r.tx, size |-> size] \in AnswerType
  BY <1>1 DEF AnswerType
<1>3. answers \subseteq AnswerType
  BY DEF TypeOK
<1> DEFINE new == [to |-> r.from, action |-> action, tx |-> r.tx, size |-> size]
<1>4. answers' = answers \cup {new}
  BY DEF Answer
<1>5. new.to = r.from /\ new.action = action
  OBVIOUS
<1> HIDE DEF new
<1>6. answers' \subseteq AnswerType
  BY <1>2, <1>3, <1>4 DEF new
<1>7. \A d \in answers' : d \in answers \/ (d.to = r.from /\ d.action = action)
  BY <1>4, <1>5
<1> QED BY <1>6, <1>7

LEMMA UdpInvStep ==
    ASSUME UdpInv, Next \/ Rest
    PROVE  UdpInv'
<1> USE DEF UdpInv
<1>1. CASE StartExchange
  <2>1. Socket' \in Nat /\ exchange' = exchange + 1 /\ exchange \in Nat
    BY <1>1 DEF StartExchange, Socket, TypeOK
  <2>2. /\ clock' \in Nat /\ ids' \in Seq(Nat) /\ Len(ids') = Len(<<>>) + 1
        /\ requests' \subseteq RequestType
        /\ \A r \in requests' : r \in requests \/ r.from = Socket'
    <3>1. <<>> \in Seq(Nat) /\ Connect \in {Connect, Announce}
      OBVIOUS
    <3>2. SendRequest(Socket', Connect, <<>>)
      BY <1>1 DEF StartExchange
    <3> HIDE DEF Connect, Announce
    <3> QED BY <2>1, <3>1, <3>2, SendRequestType
  <2>3. \A r \in requests' : r.from \in 1 .. exchange'
    BY <2>1, <2>2 DEF AnswersOK, Socket
  <2>4. counted' = counted /\ counted' \subseteq 1 .. exchange'
    BY <1>1, <2>1 DEF StartExchange, TypeOK
  <2>5. answers' = answers /\ status' = "waiting"
    BY <1>1 DEF StartExchange
  <2>6. TypeOK'
    BY <2>1, <2>2, <2>4, <2>5 DEF TypeOK
  <2>7. AnswersOK'
    BY <2>1, <2>3, <2>4, <2>5 DEF AnswersOK
  <2> QED BY <2>6, <2>7
<1>2. CASE SendAnnounce
  <2>1. Socket \in Nat /\ exchange' = exchange /\ ids \in Seq(Nat) /\ Len(ids) = 1
        /\ status = "waiting"
    BY <1>2 DEF SendAnnounce, Waiting, Socket, TypeOK
  <2>2. /\ clock' \in Nat /\ ids' \in Seq(Nat) /\ Len(ids') = Len(ids) + 1
        /\ requests' \subseteq RequestType
        /\ \A r \in requests' : r \in requests \/ r.from = Socket
    <3>1. Announce \in {Connect, Announce}
      OBVIOUS
    <3>2. SendRequest(Socket, Announce, ids)
      BY <1>2 DEF SendAnnounce
    <3> QED BY <2>1, <3>1, <3>2, SendRequestType
  <2>3. exchange \in 1 .. exchange
    <3>1. exchange # 0 /\ exchange \in Nat
      BY <2>1 DEF AnswersOK, TypeOK
    <3> QED BY <3>1
  <2>4. \A r \in requests' : r.from \in 1 .. exchange'
    BY <2>1, <2>2, <2>3 DEF AnswersOK, Socket
  <2>5. UNCHANGED <<status, answers, counted>>
    BY <1>2 DEF SendAnnounce
  <2>6. TypeOK'
    BY <2>1, <2>2, <2>5 DEF TypeOK
  <2>7. AnswersOK'
    BY <2>1, <2>4, <2>5 DEF AnswersOK
  <2> QED BY <2>6, <2>7
<1>3. CASE Succeed
  <2>1. PICK d \in answers : d.to = exchange /\ d.action = Announce
    BY <1>3 DEF Succeed, Inbox, Socket, GoodAnnounce
  <2>2. exchange \in counted
    BY <2>1 DEF AnswersOK
  <2> QED BY <1>3, <2>2 DEF Succeed, TypeOK, AnswersOK
<1>4. CASE Reject \/ Timeout
  BY <1>4 DEF Reject, Timeout, Waiting, TypeOK, AnswersOK
<1>5. CASE TrackerConnects
  <2>1. PICK r \in requests : Answer(r, Connect, 16)
    BY <1>5 DEF TrackerConnects
  <2>2. /\ answers' \subseteq AnswerType
        /\ \A d \in answers' : d \in answers \/ (d.to = r.from /\ d.action = Connect)
    BY <2>1, AnswerTypeOK
  <2>3. Connect # Announce
    BY DEF Connect, Announce
  <2> QED BY <1>5, <2>2, <2>3 DEF TrackerConnects, TypeOK, AnswersOK
<1>6. CASE TrackerTakes
  <2>1. PICK r \in requests, size \in Sizes :
            /\ counted' = counted \cup {r.from} /\ Answer(r, Announce, size)
    BY <1>6 DEF TrackerTakes
  <2>2. size \in Nat
    BY UdpAssumption
  <2>3. /\ answers' \subseteq AnswerType
        /\ \A d \in answers' : d \in answers \/ (d.to = r.from /\ d.action = Announce)
    BY <2>1, <2>2, AnswerTypeOK
  <2>4. counted' \subseteq 1 .. exchange
    BY <2>1 DEF TypeOK, AnswersOK
  <2> QED BY <1>6, <2>1, <2>3, <2>4 DEF TrackerTakes, TypeOK, AnswersOK
<1>7. CASE TrackerErrs
  <2>1. PICK r \in requests, size \in Sizes : Answer(r, Error, size)
    BY <1>7 DEF TrackerErrs
  <2>2. size \in Nat
    BY UdpAssumption
  <2>3. /\ answers' \subseteq AnswerType
        /\ \A d \in answers' : d \in answers \/ (d.to = r.from /\ d.action = Error)
    BY <2>1, <2>2, AnswerTypeOK
  <2>4. Error # Announce
    BY DEF Error, Announce
  <2> QED BY <1>7, <2>3, <2>4 DEF TrackerErrs, TypeOK, AnswersOK
<1>8. CASE Rest
  BY <1>8 DEF Rest, vars, TypeOK, AnswersOK
<1> QED BY <1>1, <1>2, <1>3, <1>4, <1>5, <1>6, <1>7, <1>8 DEF Next

\* Nothing is answered before it is asked, in every reachable state.
THEOREM UdpInvHolds == Spec => []UdpInv
<1>1. Init => UdpInv
  BY DEF Init, UdpInv, TypeOK, AnswersOK
<1>2. UdpInv /\ [Next \/ Rest]_vars => UdpInv'
  <2>1. UdpInv /\ UNCHANGED vars => UdpInv'
    BY DEF UdpInv, TypeOK, AnswersOK, vars
  <2> QED BY <2>1, UdpInvStep
<1> QED BY <1>1, <1>2, PTL DEF Spec

\* In particular the type invariant.
THEOREM UdpTypeCorrect == Spec => []TypeOK
<1>1. UdpInv => TypeOK
  BY DEF UdpInv
<1> QED BY <1>1, UdpInvHolds, PTL

\* An exchange that succeeds was taken by the tracker.
THEOREM SuccessStaysOwn == Spec => []SuccessIsOwn
<1>1. UdpInv => SuccessIsOwn
  BY DEF UdpInv, AnswersOK, SuccessIsOwn
<1> QED BY <1>1, UdpInvHolds, PTL

\* Every step of an exchange is a step of the request, or leaves it alone.
LEMMA RequestStep ==
    ASSUME UdpInv, UdpInv', [Next \/ Rest]_vars
    PROVE  [Abstract!Next]_<<status, exchange \in counted>>
<1> USE DEF Abstract!Next, Abstract!Ask, Abstract!Take, Abstract!Succeed, Abstract!Fail
<1>1. CASE StartExchange
  <2>1. exchange + 1 \notin counted
    BY DEF UdpInv, TypeOK
  <2>2. (exchange \in counted)' = FALSE
    BY <1>1, <2>1 DEF StartExchange
  <2> QED BY <1>1, <2>2 DEF StartExchange
<1>2. CASE Succeed
  <2>1. exchange \in counted
    BY <1>2 DEF UdpInv, AnswersOK, Succeed, Inbox, Socket, GoodAnnounce
  <2> QED BY <1>2, <2>1 DEF Succeed, Waiting
<1>3. CASE Reject \/ Timeout
  BY <1>3 DEF Reject, Timeout, Waiting
<1>4. CASE TrackerTakes
  <2>1. /\ UNCHANGED <<status, exchange>>
        /\ exchange \in counted => exchange \in counted'
    BY <1>4 DEF TrackerTakes
  <2>2. CASE (exchange \in counted') = (exchange \in counted)
    BY <2>1, <2>2
  <2>3. CASE exchange \in counted' /\ exchange \notin counted
    <3>1. exchange # 0
      BY <2>1, <2>3 DEF UdpInv, TypeOK
    <3>2. status # "none" /\ status # "ok"
      <4>1. status # "ok"
        BY <2>3 DEF UdpInv, AnswersOK
      <4>2. PICK r \in requests : counted' = counted \cup {r.from}
        BY <1>4 DEF TrackerTakes
      <4>3. r.from = exchange
        BY <2>3, <4>2
      <4> QED BY <3>1, <4>1, <4>3 DEF UdpInv, AnswersOK
    <3>3. status \in {"waiting", "failed"}
      BY <3>2 DEF UdpInv, TypeOK
    <3>4. (exchange \in counted)' = TRUE
      BY <2>1, <2>3
    <3>5. Abstract!Take
      BY <2>1, <3>3, <3>4
    <3> QED BY <3>5, Zenon
  <2>4. \/ (exchange \in counted') = (exchange \in counted)
        \/ exchange \in counted' /\ exchange \notin counted
    <3>1. exchange \in counted => exchange \in counted'
      BY <2>1
    <3> QED BY <3>1
  <2> QED BY <2>2, <2>3, <2>4
<1>5. CASE SendAnnounce \/ TrackerConnects \/ TrackerErrs \/ Rest \/ UNCHANGED vars
  BY <1>5 DEF SendAnnounce, TrackerConnects, TrackerErrs, Rest, vars
<1> QED BY <1>1, <1>2, <1>3, <1>4, <1>5 DEF Next

\* The exchange implements the request that Torrent relies on.
THEOREM UdpImplementsRequest == Spec => ImplementsRequest
<1>1. Init => Abstract!Init
  BY DEF Init, Abstract!Init
<1>2. UdpInv /\ UdpInv' /\ [Next \/ Rest]_vars
        => [Abstract!Next]_<<status, exchange \in counted>>
  BY RequestStep
<1> QED BY <1>1, <1>2, UdpInvHolds, PTL DEF Spec, ImplementsRequest, Abstract!Spec
=============================================================================
