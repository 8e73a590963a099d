--------------------------- MODULE TorrentProofs ---------------------------
(***************************************************************************)
(* What Torrent's history says of its counters, for any trackers, rates and *)
(* answers.                                                                 *)
(***************************************************************************)
EXTENDS Torrent, TLAPS

\* A lower speed makes less in the same time.
LEMMA SpeedTimesTime ==
    ASSUME NEW s \in Nat, NEW m \in Nat, NEW t \in Nat, s <= m
    PROVE  s * t \in Nat /\ s * t <= m * t
<1>1. PICK d \in Nat : m = s + d
  BY m - s \in Nat, m = s + (m - s)
<1>2. m * t = s * t + d * t
  BY <1>1, SMT
<1>3. s * t \in Nat /\ d * t \in Nat
  BY SMT
<1> QED BY <1>2, <1>3

\* What is reported is within the rate for the time since the last success.
LEMMA ReportWithinRate ==
    ASSUME TypeOK
    PROVE  ToReport \in Nat /\ ToReport <= rates.max * (now - lastAnnounce)
<1> DEFINE t == now - lastAnnounce
           m == rates.max
<1>1. m \in Nat /\ nextUploadSpeed \in Nat /\ nextUploadSpeed <= m
  BY RatesAssumption DEF TypeOK
<1>2. t \in Nat
  BY DEF TypeOK
<1>3. nextUploadSpeed * t \in Nat /\ nextUploadSpeed * t <= m * t
  <2> HIDE DEF t, m
  <2> QED BY <1>1, <1>2, SpeedTimesTime
<1>4. 0 \in Nat /\ 0 <= m * t
  <2> HIDE DEF t, m
  <2>1. 0 * t \in Nat /\ 0 * t <= m * t
    BY <1>1, <1>2, SpeedTimesTime
  <2> QED BY <2>1, <1>2
<1> QED BY <1>3, <1>4 DEF ToReport, Elapsed

\* A remainder is within its modulus.
LEMMA Cut ==
    ASSUME NEW n \in Int, NEW m \in Nat \ {0}
    PROVE  n % m \in 0 .. (m - 1)
  OBVIOUS

\* So what a tracker sends fits the field it goes to.
LEMMA AnswersFit ==
    /\ \A n \in Intervals : n % U64 \in Nat
    /\ \A n \in Peers : n % U16 \in 0 .. (U16 - 1)
<1>1. ASSUME NEW n \in Intervals PROVE n % U64 \in Nat
  <2>1. n \in Int /\ U64 \in Nat \ {0}
    BY AnswersAssumption
  <2>2. n % U64 \in 0 .. (U64 - 1)
    BY <2>1, Cut
  <2> QED BY <2>1, <2>2
<1>2. ASSUME NEW n \in Peers PROVE n % U16 \in 0 .. (U16 - 1)
  <2>1. n \in Int /\ U16 \in Nat \ {0}
    BY AnswersAssumption
  <2> QED BY <2>1, Cut
<1> QED BY <1>1, <1>2

\* A torrent has one tracker at least.
LEMMA SomeTracker ==
    trackers \in TrackerLists => Len(trackers) \in Nat \ {0} /\ DOMAIN trackers = 1 .. Len(trackers)
<1> SUFFICES ASSUME trackers \in TrackerLists
             PROVE  Len(trackers) \in Nat \ {0} /\ DOMAIN trackers = 1 .. Len(trackers)
  OBVIOUS
<1>1. trackers \in Seq({"http", "udp"}) /\ trackers # <<>>
  BY AnswersAssumption
<1> QED BY <1>1

LEMMA NextTrackerType ==
    ASSUME TypeOK, NextTracker, at \in {"call", "answer"}
    PROVE  /\ rates' \in Rates /\ trackers' = trackers /\ now' \in Nat
           /\ at' \in {"call", "idle"} /\ event' \in Event
           /\ url' \in 0 .. Len(trackers)
           /\ at' \in {"call", "answer"} => url' > 0
           /\ report' \in Nat /\ arrived' \in BOOLEAN /\ announces' \in Nat
<1>1. url \in 0 .. Len(trackers)
  BY DEF TypeOK
<1>2. /\ url' \in 0 .. Len(trackers) /\ at' \in {"call", "idle"}
      /\ at' \in {"call", "answer"} => url' > 0
  <2>1. Len(trackers) \in Nat
    BY SomeTracker DEF TypeOK
  <2>2. CASE url < Len(trackers)
    BY <1>1, <2>1, <2>2 DEF NextTracker
  <2>3. CASE ~(url < Len(trackers))
    BY <1>1, <2>1, <2>3 DEF NextTracker
  <2> QED BY <2>2, <2>3
<1>3. /\ rates' \in Rates /\ trackers' = trackers /\ now' \in Nat /\ event' \in Event
      /\ report' \in Nat /\ arrived' \in BOOLEAN /\ announces' \in Nat
  BY DEF TypeOK, NextTracker
<1> QED BY <1>2, <1>3

LEMMA CreditType ==
    ASSUME TypeOK, NEW i \in Nat, Credit(i)
    PROVE  /\ told' \in Nat /\ credited' \in Nat
           /\ asked' \in [DOMAIN trackers -> [since : Nat, interval : Nat]]
<1>1. told' \in Nat /\ credited' \in Nat
  BY DEF TypeOK, Credit
<1>2. now \in Nat
  BY DEF TypeOK
<1>3. [since |-> now, interval |-> i] \in [since : Nat, interval : Nat]
  BY <1>2
<1>4. asked \in [DOMAIN trackers -> [since : Nat, interval : Nat]]
  BY DEF TypeOK
<1> QED BY <1>1, <1>3, <1>4 DEF Credit

LEMMA CountErrorType ==
    ASSUME TypeOK, CountError
    PROVE  errorCount' \in 0 .. (U16 - 1)
<1>1. errorCount + 1 \in Int
  BY AnswersAssumption DEF TypeOK
<1> QED BY <1>1, Cut, AnswersAssumption DEF CountError

LEMMA TypeStep ==
    ASSUME TypeOK, Next \/ Over
    PROVE  TypeOK'
<1> USE AnswersAssumption
<1>1. CASE Tick
  BY <1>1 DEF TypeOK, Tick, fields, request, ledger
<1>2. ASSUME NEW e \in Event, Announce(e)
      PROVE  TypeOK'
  <2>1. nextUploadSpeed' \in 0 .. rates.max
    BY <1>2, RatesAssumption DEF TypeOK, Announce, ComputeSpeeds, Draws
  <2>2. url' = 1 /\ 1 \in 0 .. Len(trackers)
    BY <1>2, SomeTracker DEF TypeOK, Announce
  <2> QED BY <1>2, <2>1, <2>2 DEF TypeOK, Announce, Requested, ledger
<1>3. ASSUME NEW e \in Event, AnnouncePanics(e)
      PROVE  TypeOK'
  BY <1>3 DEF TypeOK, AnnouncePanics, Requested, ledger
<1>4. CASE Call
  BY <1>4, ReportWithinRate DEF TypeOK, Call, fields, ledger
<1>5. CASE Arrive
  BY <1>5 DEF TypeOK, Arrive, fields
<1>6. CASE HttpFails
  BY <1>6, NextTrackerType DEF TypeOK, HttpFails, Waits, NextTracker, fields, ledger
<1>7. CASE HttpRefuses
  BY <1>7, NextTrackerType, CountErrorType
     DEF TypeOK, HttpRefuses, Waits, NextTracker, ledger
<1>8. CASE HttpSucceeds
  <2>1. interval' \in Nat /\ minInterval' \in Nat
    BY <1>8, AnswersFit DEF TypeOK, HttpSucceeds
  <2>2. seeders' \in 0 .. (U16 - 1) /\ leechers' \in 0 .. (U16 - 1)
    BY <1>8, AnswersFit DEF TypeOK, HttpSucceeds
  <2>3. told' \in Nat /\ credited' \in Nat
        /\ asked' \in [DOMAIN trackers -> [since : Nat, interval : Nat]]
    BY <1>8, <2>1, CreditType DEF HttpSucceeds
  <2>4. lastAnnounce' \in 0 .. now' /\ errorCount' \in 0 .. (U16 - 1)
        /\ nextUploadSpeed' \in 0 .. rates'.max /\ uploaded' \in Nat
    BY <1>8 DEF TypeOK, HttpSucceeds, NextTracker
  <2> QED BY <1>8, <2>1, <2>2, <2>3, <2>4, NextTrackerType
          DEF TypeOK, HttpSucceeds, Waits
<1>9. CASE UdpFails
  BY <1>9, NextTrackerType, CountErrorType
     DEF TypeOK, UdpFails, Waits, NextTracker, ledger
<1>10. CASE UdpSucceeds
  <2>1. interval' \in Nat /\ minInterval' \in Nat
    BY <1>10 DEF TypeOK, UdpSucceeds
  <2>2. seeders' \in 0 .. (U16 - 1) /\ leechers' \in 0 .. (U16 - 1)
    BY <1>10, AnswersFit DEF TypeOK, UdpSucceeds
  <2>3. told' \in Nat /\ credited' \in Nat
        /\ asked' \in [DOMAIN trackers -> [since : Nat, interval : Nat]]
    BY <1>10, <2>1, CreditType DEF UdpSucceeds
  <2>4. lastAnnounce' \in 0 .. now' /\ errorCount' \in 0 .. (U16 - 1)
        /\ nextUploadSpeed' \in 0 .. rates'.max /\ uploaded' \in Nat
    BY <1>10 DEF TypeOK, UdpSucceeds, NextTracker
  <2> QED BY <1>10, <2>1, <2>2, <2>3, <2>4, NextTrackerType
          DEF TypeOK, UdpSucceeds, Waits
<1>11. CASE Leave
  BY <1>11 DEF TypeOK, Leave, fields, request, ledger
<1>13. CASE HttpPanics
  BY <1>13 DEF TypeOK, HttpPanics, fields, request, ledger
<1>12. CASE Over
  BY <1>12 DEF TypeOK, Over, vars, fields, request, ledger
<1> QED BY <1>1, <1>2, <1>3, <1>4, <1>5, <1>6, <1>7, <1>8, <1>9, <1>10, <1>11,
          <1>12, <1>13 DEF Next

-----------------------------------------------------------------------------
LEMMA TypeInit == Init => TypeOK
<1> SUFFICES ASSUME Init PROVE TypeOK
  OBVIOUS
<1>1. Len(trackers) \in Nat /\ U16 \in Nat \ {0}
  BY SomeTracker, AnswersAssumption DEF Init
<1>2. rates \in [min : Nat, max : Nat]
  BY RatesAssumption DEF Init
<1>3. 0 \in 0 .. (U16 - 1) /\ 0 \in 0 .. rates.max /\ 0 \in 0 .. Len(trackers)
  BY <1>1, <1>2
<1>4. asked \in [DOMAIN trackers -> [since : Nat, interval : Nat]]
  BY DEF Init
<1>5. /\ rates \in Rates /\ trackers \in TrackerLists /\ now \in Nat /\ lastAnnounce \in 0 .. now
      /\ interval \in Nat /\ minInterval \in Nat /\ uploaded \in Nat
      /\ announces \in Nat /\ told \in Nat /\ credited \in Nat /\ report \in Nat
  BY DEF Init
<1>6. /\ at = "idle" /\ event \in Event /\ arrived \in BOOLEAN
  BY DEF Init, Event
<1>7. /\ seeders \in 0 .. (U16 - 1) /\ leechers \in 0 .. (U16 - 1)
      /\ errorCount \in 0 .. (U16 - 1)
      /\ nextUploadSpeed \in 0 .. rates.max /\ url \in 0 .. Len(trackers)
  BY <1>3 DEF Init
<1> QED BY <1>4, <1>5, <1>6, <1>7 DEF TypeOK

\* The type invariant, in every reachable state.
THEOREM TorrentTypeCorrect == Spec => []TypeOK
<1>1. TypeOK /\ [Next \/ Over]_vars => TypeOK'
  <2>1. TypeOK /\ UNCHANGED vars => TypeOK'
    BY DEF TypeOK, vars, fields, request, ledger
  <2> QED BY <2>1, TypeStep
<1> QED BY <1>1, TypeInit, PTL DEF Spec

\* More time makes more bytes.
LEMMA MoreTime ==
    ASSUME NEW m \in Nat, NEW t \in Nat, NEW u \in Nat, t <= u
    PROVE  m * t <= m * u
<1>1. PICK d \in Nat : u = t + d
  BY u - t \in Nat, u = t + (u - t)
<1>2. m * u = m * t + m * d
  BY <1>1, SMT
<1>3. m * t \in Nat /\ m * d \in Nat
  BY SMT
<1> QED BY <1>2, <1>3

\* A success credits the time since the last one, which ends now.
LEMMA CreditStep ==
    ASSUME TypeOK, Ledger, at = "answer", arrived,
           lastAnnounce' = now, rates' = rates, told' = told,
           credited' = credited + report
    PROVE  credited' <= rates.max * lastAnnounce' /\ credited' <= told'
<1> DEFINE m == rates.max
           l == lastAnnounce
<1>1. m \in Nat /\ l \in Nat /\ now \in Nat /\ credited \in Nat /\ report \in Nat
      /\ told \in Nat
  BY RatesAssumption DEF TypeOK
<1>2. report <= m * (now - l) /\ credited <= m * l /\ credited + report <= told
  BY DEF Ledger
<1>3. m * (now - l) + m * l = m * now
  <2> HIDE DEF m, l
  <2> QED BY <1>1, SMT
<1>4. m * (now - l) \in Int /\ m * l \in Int /\ m * now \in Int
  <2> HIDE DEF m, l
  <2> QED BY <1>1, SMT
<1>5. credited + report <= m * now
  <2> HIDE DEF m, l
  <2> QED BY <1>1, <1>2, <1>3, <1>4
<1> QED BY <1>2, <1>5

\* A step that neither reports, nor is credited, nor ends an announce keeps the
\* ledger; so does one that gives the request up.
LEMMA LedgerFrame ==
    ASSUME TypeOK, Ledger, told' = told, credited' = credited,
           uploaded' = uploaded, rates' = rates, lastAnnounce' = lastAnnounce,
           at' # "answer"
    PROVE  Ledger'
  BY DEF Ledger, TypeOK

LEMMA LedgerStep ==
    ASSUME TypeOK, Ledger, Next \/ Over
    PROVE  Ledger'
<1>1. CASE Tick
  <2> DEFINE m == rates.max
             t == now - lastAnnounce
  <2>1. m \in Nat /\ t \in Nat /\ t + 1 \in Nat /\ t <= t + 1
    BY RatesAssumption DEF TypeOK
  <2>2. m * t <= m * (t + 1) /\ m * t \in Int /\ m * (t + 1) \in Int
    <3> HIDE DEF m, t
    <3> QED BY <2>1, MoreTime, SMT
  <2>3. (now - lastAnnounce)' = t + 1 /\ rates' = rates /\ report' = report
    BY <1>1 DEF Tick, TypeOK, fields, request
  <2>4. at' = "answer" => report' <= rates'.max * (now - lastAnnounce)'
    <3>1. at = "answer" => report <= m * t
      BY DEF Ledger
    <3>2. report \in Nat /\ (at' = at)
      BY <1>1 DEF TypeOK, Tick
    <3>3. at = "answer" => report <= m * (t + 1)
      <4> HIDE DEF m, t
      <4> QED BY <2>2, <3>1, <3>2
    <3> QED BY <2>3, <3>2, <3>3
  <2> QED BY <1>1, <2>4 DEF Ledger, Tick, fields, request, ledger
<1>2. ASSUME NEW e \in Event, Announce(e)
      PROVE  Ledger'
  BY <1>2, LedgerFrame DEF Announce, Requested, ledger
<1>3. ASSUME NEW e \in Event, AnnouncePanics(e)
      PROVE  Ledger'
  BY <1>3, LedgerFrame DEF AnnouncePanics, Requested, ledger
<1>4. CASE Call
  <2>1. report' <= rates'.max * (now - lastAnnounce)'
    BY <1>4, ReportWithinRate DEF Call, fields
  <2>2. ~arrived' /\ credited' <= rates'.max * lastAnnounce' /\ uploaded' <= credited'
    BY <1>4 DEF Call, Ledger, fields, ledger
  <2>3. credited <= told
    BY <1>4 DEF Call, Ledger, TypeOK
  <2>4. credited' <= told'
    BY <1>4, <2>3 DEF Call, ledger
  <2> QED BY <2>1, <2>2, <2>4 DEF Ledger
<1>5. CASE Arrive
  <2>1. credited <= told /\ credited \in Nat /\ told \in Nat /\ report \in Nat
    BY DEF Ledger, TypeOK
  <2>2. credited + report <= told + report /\ credited <= told + report
    BY <2>1
  <2>3. told' = told + report /\ credited' = credited /\ report' = report
    BY <1>5 DEF Arrive
  <2>4. credited' + report' <= told' /\ credited' <= told'
    BY <2>2, <2>3
  <2>5. /\ at' = "answer" => report' <= rates'.max * (now - lastAnnounce)'
        /\ credited' <= rates'.max * lastAnnounce' /\ uploaded' <= credited'
    BY <1>5 DEF Arrive, Ledger, fields
  <2> QED BY <2>4, <2>5 DEF Ledger
<1>6. CASE HttpFails
  BY <1>6, LedgerFrame, NextTrackerType DEF HttpFails, Waits, NextTracker, fields, ledger
<1>7. CASE HttpRefuses
  BY <1>7, LedgerFrame, NextTrackerType DEF HttpRefuses, Waits, NextTracker, ledger
<1>8. CASE HttpSucceeds
  <2>1. credited' <= rates.max * lastAnnounce' /\ credited' <= told' /\ rates' = rates
    BY <1>8, CreditStep DEF HttpSucceeds, Waits, Credit, NextTracker
  <2>2. at' # "answer"
    BY <1>8, NextTrackerType DEF HttpSucceeds, Waits
  <2>3. uploaded' <= credited'
    BY <1>8 DEF HttpSucceeds, Credit, Ledger, TypeOK
  <2>4. credited' <= rates'.max * lastAnnounce' /\ credited' <= told'
    BY <2>1
  <2> QED BY <2>2, <2>3, <2>4 DEF Ledger
<1>9. CASE UdpFails
  BY <1>9, LedgerFrame, NextTrackerType DEF UdpFails, Waits, NextTracker, ledger
<1>10. CASE UdpSucceeds
  <2>1. credited' <= rates.max * lastAnnounce' /\ credited' <= told' /\ rates' = rates
    BY <1>10, CreditStep DEF UdpSucceeds, Waits, Credit, NextTracker
  <2>2. at' # "answer"
    BY <1>10, NextTrackerType DEF UdpSucceeds, Waits
  <2>3. uploaded' <= credited'
    BY <1>10 DEF UdpSucceeds, Credit, Ledger, TypeOK
  <2>4. credited' <= rates'.max * lastAnnounce' /\ credited' <= told'
    BY <2>1
  <2> QED BY <2>2, <2>3, <2>4 DEF Ledger
<1>11. CASE Leave
  BY <1>11, LedgerFrame DEF Leave, fields, request, ledger
<1>13. CASE HttpPanics
  BY <1>13, LedgerFrame DEF HttpPanics, fields, request, ledger
<1>12. CASE Over
  BY <1>12 DEF Ledger, Over, vars, fields, request, ledger
<1> QED BY <1>1, <1>2, <1>3, <1>4, <1>5, <1>6, <1>7, <1>8, <1>9, <1>10, <1>11,
          <1>12, <1>13 DEF Next

LEMMA LedgerInvStep == LedgerInv /\ [Next \/ Over]_vars => LedgerInv'
<1> SUFFICES ASSUME LedgerInv, [Next \/ Over]_vars PROVE LedgerInv'
  OBVIOUS
<1>1. TypeOK /\ Ledger
  BY DEF LedgerInv
<1>2. TypeOK' /\ Ledger'
  <2>1. CASE UNCHANGED vars
    BY <1>1, <2>1 DEF TypeOK, Ledger, vars, fields, request, ledger
  <2>2. CASE Next \/ Over
    BY <1>1, <2>2, TypeStep, LedgerStep
  <2> QED BY <2>1, <2>2
<1> QED BY <1>2 DEF LedgerInv

LEMMA LedgerInvInit == Init => LedgerInv
<1> SUFFICES ASSUME Init PROVE LedgerInv
  OBVIOUS
<1>1. TypeOK
  BY TypeInit
<1>2. rates.max \in Nat
  BY RatesAssumption DEF Init
<1>3. 0 <= rates.max * 0
  BY <1>2, SMT
<1> QED BY <1>1, <1>3 DEF LedgerInv, Ledger, Init

\* The ledger's invariant, in every reachable state.
THEOREM LedgerHolds == Spec => []LedgerInv
  BY LedgerInvInit, LedgerInvStep, PTL DEF Spec

\* The trackers never acknowledge more than the highest rate allows for the
\* time up to the last success, whatever fails in between.
THEOREM CreditStaysWithinRate == Spec => []CreditWithinRate
<1>1. LedgerInv => CreditWithinRate
  BY DEF LedgerInv, Ledger, CreditWithinRate
<1> QED BY <1>1, LedgerHolds, PTL

\* The total of the statistics page never exceeds what trackers were told.
THEOREM TotalStaysBacked == Spec => []TotalIsBacked
<1>1. LedgerInv => TotalIsBacked
  BY DEF LedgerInv, Ledger, TotalIsBacked, TypeOK
<1> QED BY <1>1, LedgerHolds, PTL

-----------------------------------------------------------------------------
LEMMA SameTrackers == [Next \/ Over]_vars => trackers' = trackers
  BY DEF Next, Over, Tick, Announce, AnnouncePanics, Requested, Call, Arrive, HttpPanics,
         HttpFails, HttpRefuses, HttpSucceeds, UdpFails, UdpSucceeds, NextTracker, Leave, vars

\* With UDP trackers only, nothing is credited but what enters the total.
THEOREM UdpTotalStaysExact == Spec => []UdpTotalIsExact
<1>1. Init => UdpTotalIsExact
  BY DEF Init, UdpTotalIsExact
<1>2. TypeOK /\ UdpTotalIsExact /\ [Next \/ Over]_vars => UdpTotalIsExact'
  <2> SUFFICES ASSUME TypeOK, UdpTotalIsExact, [Next \/ Over]_vars,
                      \A i \in DOMAIN trackers' : trackers'[i] = "udp"
               PROVE  uploaded' = credited'
    BY DEF UdpTotalIsExact
  <2>0. uploaded = credited /\ \A i \in DOMAIN trackers : trackers[i] = "udp"
    BY SameTrackers DEF UdpTotalIsExact
  <2>1. ~Waits("http")
    <3>1. at = "answer" => url \in DOMAIN trackers
      BY SomeTracker DEF TypeOK
    <3> QED BY <2>0, <3>1 DEF Waits
  <2>2. CASE UNCHANGED <<uploaded, credited>>
    BY <2>0, <2>2
  <2>3. CASE UdpSucceeds
    BY <2>0, <2>3 DEF UdpSucceeds, Credit
  <2>4. UdpSucceeds \/ UNCHANGED <<uploaded, credited>>
    BY <2>1 DEF Next, Over, Tick, Announce, AnnouncePanics, Requested, Call, Arrive,
         HttpPanics, HttpFails, HttpRefuses, HttpSucceeds, UdpFails, Leave, vars, fields, ledger
  <2> QED BY <2>2, <2>3, <2>4
<1> QED BY <1>1, <1>2, TorrentTypeCorrect, PTL DEF Spec

\* What the only tracker asked for is what the torrent goes by.
OnlyAsks ==
    Len(trackers) = 1 =>
    /\ asked[1].since = lastAnnounce /\ asked[1].interval = interval
    /\ at = "call" /\ event = "regular" => ShouldAnnounce
    /\ at \in {"call", "answer"} => url = 1

\* A torrent with one tracker keeps the interval that tracker asks for, also
\* across failures and events in between.
THEOREM OnlyTrackerIntervalKept == Spec => TrackerIntervalKept
<1>1. Init => OnlyAsks
  <2>1. Init => 1 \in DOMAIN trackers
    BY SomeTracker DEF Init
  <2> QED BY <2>1 DEF Init, OnlyAsks
<1>2. TypeOK /\ OnlyAsks /\ [Next \/ Over]_vars => OnlyAsks'
  <2> SUFFICES ASSUME TypeOK, OnlyAsks, [Next \/ Over]_vars, Len(trackers) = 1,
                      trackers' = trackers
               PROVE  OnlyAsks'
    BY SameTrackers DEF OnlyAsks
  <2> USE DEF ShouldAnnounce, Elapsed
  <2>1. 1 \in DOMAIN asked
    BY SomeTracker DEF TypeOK
  <2>2. NextTracker /\ at \in {"call", "answer"} => at' = "idle"
    BY DEF OnlyAsks, NextTracker
  <2>3. CASE UNCHANGED <<fields, request, at, asked>> /\ now' \in {now, now + 1}
    <3>1. ShouldAnnounce => ShouldAnnounce'
      <4>1. now \in Nat /\ lastAnnounce \in Nat /\ interval \in Nat
        BY DEF TypeOK
      <4>2. /\ lastAnnounce' = lastAnnounce /\ interval' = interval
            /\ now' = now \/ now' = now + 1
        BY <2>3 DEF fields
      <4>3. now - lastAnnounce >= interval => now' - lastAnnounce >= interval
        BY <4>1, <4>2
      <4> QED BY <4>2, <4>3
    <3>2. UNCHANGED <<at, event, url, asked, lastAnnounce, interval>>
      BY <2>3 DEF fields, request
    <3> HIDE DEF ShouldAnnounce
    <3> QED BY <3>1, <3>2 DEF OnlyAsks
  <2>4. ASSUME NEW e \in Event, Announce(e)
        PROVE  OnlyAsks'
    BY <2>4 DEF OnlyAsks, Announce, Requested, ledger
  <2>5. CASE at' \notin {"call", "answer"} /\ UNCHANGED <<lastAnnounce, interval, asked>>
    BY <2>5 DEF OnlyAsks
  <2>6. CASE Call \/ Arrive
    BY <2>6 DEF OnlyAsks, Call, Arrive, fields, ledger
  <2>7. CASE HttpSucceeds \/ UdpSucceeds
    <3>1. at' = "idle" /\ url = 1 /\ now' = now /\ lastAnnounce' = now
      BY <2>2, <2>7 DEF HttpSucceeds, UdpSucceeds, Waits, NextTracker, OnlyAsks
    <3>2. asked' = [asked EXCEPT ![1] = [since |-> now, interval |-> interval']]
      BY <2>7, <3>1 DEF HttpSucceeds, UdpSucceeds, Credit
    <3>3. asked'[1].since = now /\ asked'[1].interval = interval'
      BY <2>1, <3>2
    <3> QED BY <3>1, <3>3 DEF OnlyAsks
  <2>8. CASE HttpPanics \/ HttpFails \/ HttpRefuses \/ UdpFails \/ Leave
    <3>1. at' \notin {"call", "answer"}
      BY <2>2, <2>8 DEF HttpPanics, HttpFails, HttpRefuses, UdpFails, Leave, Waits
    <3>2. UNCHANGED <<lastAnnounce, interval, asked>>
      BY <2>8 DEF HttpPanics, HttpFails, HttpRefuses, UdpFails, Leave, fields, ledger
    <3> QED BY <2>5, <3>1, <3>2
  <2>9. ASSUME NEW e \in Event, AnnouncePanics(e)
        PROVE  OnlyAsks'
    BY <2>5, <2>9 DEF AnnouncePanics, Requested, ledger
  <2>10. CASE Tick \/ Over \/ UNCHANGED vars
    BY <2>3, <2>10 DEF Tick, Over, vars, ledger
  <2> QED BY <2>4, <2>6, <2>7, <2>8, <2>9, <2>10 DEF Next
<1>3. TypeOK /\ OnlyAsks /\ [Next \/ Over]_vars =>
        [Call /\ event = "regular" /\ Len(trackers) = 1
            => now >= asked[url].since + asked[url].interval]_vars
  BY DEF OnlyAsks, TypeOK, Call, ShouldAnnounce, Elapsed
<1> QED BY <1>1, <1>2, <1>3, TorrentTypeCorrect, PTL DEF Spec, TrackerIntervalKept
=============================================================================
