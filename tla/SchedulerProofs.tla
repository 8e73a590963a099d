-------------------------- MODULE SchedulerProofs --------------------------
(***************************************************************************)
(* The scheduler wakes in time, for any number of torrents, any intervals   *)
(* and any width of the integers.  WakesInTime is inductive with TypeOK.    *)
(***************************************************************************)
EXTENDS Scheduler, TLAPS

LEMMA DivBound == \A n \in Nat, d \in Nat \ {0} : n \div d \in 0 .. n
<1>1. \A n \in Nat, d \in Nat \ {0} : n \div d \in Nat
  BY SMT
<1>2. \A n \in Nat, d \in Nat \ {0} : n \div d <= n
  BY SMT
<1> QED BY <1>1, <1>2

LEMMA DivLess == \A n \in Nat \ {0}, d \in Nat \ {0, 1} : n \div d < n
  BY SMT

\* The jitter is no more than the interval, and less unless that is 0.
LEMMA JitterBound == \A n \in Nat : JitterRange(n) \in 0 .. n
  BY DivBound, SchedulerAssumption DEF JitterRange

LEMMA JitterLess == \A n \in Nat \ {0} : JitterRange(n) \in 0 .. (n - 1)
<1> SUFFICES ASSUME NEW n \in Nat \ {0} PROVE JitterRange(n) \in 0 .. (n - 1)
  OBVIOUS
<1>1. n \div Herd \in 0 .. n /\ n \div Herd < n
  BY DivBound, DivLess, SchedulerAssumption
<1> QED BY <1>1, SchedulerAssumption DEF JitterRange

\* What one announce leaves: the fields in their range, other torrents as
\* they were.
LEMMA AnnouncedType ==
    ASSUME TypeOK, NEW t \in Torrent, Announced(t)
    PROVE  /\ interval' \in [Torrent -> 0 .. Forever]
           /\ age' \in [Torrent -> 0 .. U64]
           /\ \A u \in Torrent \ {t} : interval'[u] = interval[u] /\ age'[u] = age[u]
<1>1. \A n \in Intervals : n % U64 \in 0 .. Forever
  BY SchedulerAssumption DEF Forever
<1>2. 0 \in 0 .. U64
  BY SchedulerAssumption
<1>3. CASE UNCHANGED torrents
  BY <1>3 DEF TypeOK, torrents
<1>4. CASE /\ age' = [age EXCEPT ![t] = 0]
           /\ interval' \in {interval} \cup
                 {[interval EXCEPT ![t] = n % U64] : n \in Intervals}
  <2>1. age' \in [Torrent -> 0 .. U64]
    BY <1>2, <1>4 DEF TypeOK
  <2>2. \A u \in Torrent \ {t} : age'[u] = age[u]
    BY <1>4 DEF TypeOK
  <2>3. CASE interval' = interval
    BY <2>1, <2>2, <2>3 DEF TypeOK
  <2>4. CASE \E n \in Intervals : interval' = [interval EXCEPT ![t] = n % U64]
    BY <1>1, <2>1, <2>2, <2>4 DEF TypeOK
  <2> QED BY <1>4, <2>3, <2>4
<1> QED BY <1>3, <1>4 DEF Announced

LEMMA Places == TypeOK => \A i \in DOMAIN list : list[i] \in Torrent
  BY DEF TypeOK

\* What TakeLeast leaves: the least of what it was and the time until this
\* torrent is due.
LEMMA TakeLeastType ==
    ASSUME TypeOK, NEW t \in Torrent, TakeLeast(t),
           interval' \in [Torrent -> 0 .. Forever], age' \in [Torrent -> 0 .. U64]
    PROVE  /\ least' \in 0 .. Forever /\ least' <= least
           /\ least' > 0 => least' <= interval'[t] - age'[t]
           /\ seen' \subseteq Torrent /\ pos' \in Nat /\ took' \in 0 .. Slow
<1>1. interval'[t] \in 0 .. Forever /\ age'[t] \in 0 .. U64
  OBVIOUS
<1>2. least \in 0 .. Forever /\ Forever \in Nat /\ U64 \in Nat
  BY SchedulerAssumption DEF TypeOK, Forever
<1>3. least' = Lesser(least, TimeUntilAnnounce(interval'[t], age'[t]))
  BY DEF TakeLeast
<1>4. /\ least' \in 0 .. Forever /\ least' <= least
      /\ least' > 0 => least' <= interval'[t] - age'[t]
  BY <1>1, <1>2, <1>3 DEF Lesser, TimeUntilAnnounce
<1>5. seen' \subseteq Torrent /\ pos' \in Nat /\ took' \in 0 .. Slow
  BY SchedulerAssumption DEF TypeOK, TakeLeast
<1> QED BY <1>4, <1>5

-----------------------------------------------------------------------------
LEMMA InitTypeOK == Init => TypeOK
<1> SUFFICES ASSUME Init PROVE TypeOK
  OBVIOUS
<1>1. PICK n \in 1 .. Cardinality(Torrent) : list \in [1 .. n -> Torrent]
  BY DEF Init
<1>2. list \in Seq(Torrent)
  <2>1. CASE n \in Nat
    BY <1>1, <2>1
  <2>2. CASE n \notin Nat
    BY <2>2
  <2> QED BY <2>1, <2>2
<1> QED BY <1>2, SchedulerAssumption DEF Init, TypeOK, Forever

LEMMA NextTypeOK == TypeOK /\ [Next]_vars => TypeOK'
<1> SUFFICES ASSUME TypeOK, [Next]_vars PROVE TypeOK'
  OBVIOUS
<1>0. U64 \in Nat /\ Forever \in Nat /\ Slow \in Nat /\ 0 \in 0 .. Slow
  BY SchedulerAssumption DEF Forever
<1>1. CASE Tick
  <2>1. age' \in [Torrent -> 0 .. U64]
    <3>1. \A t \in Torrent : age[t] \in 0 .. U64
      BY DEF TypeOK
    <3>2. \A t \in Torrent : Later(age[t]) \in 0 .. U64
      BY <1>0, <3>1 DEF Later, Lesser
    <3> QED BY <1>0, <1>1, <3>2 DEF Tick
  <2>3. rest' \in 0 .. Forever /\ took' \in 0 .. Slow /\ turn' \in Nat
    BY <1>0, <1>1 DEF Tick, TypeOK
  <2> QED BY <1>1, <2>1, <2>3 DEF Tick, TypeOK, task
<1>2. CASE AnnounceStarted
  <2>1. list[pos] \in Torrent
    BY <1>2, Places DEF AnnounceStarted
  <2>2. /\ interval' \in [Torrent -> 0 .. Forever]
        /\ age' \in [Torrent -> 0 .. U64]
    BY <1>2, <2>1, AnnouncedType DEF AnnounceStarted
  <2>3. interval'[list[pos]] \in 0 .. Forever
    BY <2>1, <2>2
  <2>4. least' \in 0 .. Forever
    BY <1>2, <2>3 DEF AnnounceStarted, Lesser, TypeOK
  <2>5. took' \in 0 .. Slow /\ pos' \in Nat
    BY <1>0, <1>2 DEF AnnounceStarted, TypeOK
  <2> QED BY <1>2, <2>2, <2>4, <2>5 DEF AnnounceStarted, TypeOK, task
<1>3. CASE Started
  BY <1>0, <1>3 DEF Started, BeginTurn, TypeOK, task, torrents
<1>4. CASE Pass
  <2>1. list[pos] \in Torrent
    BY <1>4, Places DEF Pass
  <2>2. interval' = interval /\ age' = age /\ TakeLeast(list[pos])
    BY <1>4 DEF Pass, torrents
  <2>3. /\ least' \in 0 .. Forever /\ seen' \subseteq Torrent
        /\ pos' \in Nat /\ took' \in 0 .. Slow
    BY <2>1, <2>2, TakeLeastType DEF TypeOK
  <2> QED BY <1>4, <2>2, <2>3 DEF Pass, TypeOK, task
<1>5. CASE Announce
  <2>1. list[pos] \in Torrent
    BY <1>5, Places DEF Announce
  <2> QED BY <1>5 DEF Announce, TypeOK, task, torrents
<1>6. CASE EndAnnounce
  <2>1. list[pos] \in Torrent
    BY <1>6, Places DEF EndAnnounce, TypeOK
  <2>2. Announced(list[pos]) /\ TakeLeast(list[pos])
    BY <1>6 DEF EndAnnounce
  <2>3. /\ interval' \in [Torrent -> 0 .. Forever]
        /\ age' \in [Torrent -> 0 .. U64]
    BY <2>1, <2>2, AnnouncedType
  <2>4. /\ least' \in 0 .. Forever /\ seen' \subseteq Torrent
        /\ pos' \in Nat /\ took' \in 0 .. Slow
    BY <2>1, <2>2, <2>3, TakeLeastType
  <2> QED BY <1>6, <2>3, <2>4 DEF EndAnnounce, TypeOK, task
<1>7. CASE Sleep
  <2>1. rest' \in 0 .. Forever
    <3>1. least \in 0 .. Forever /\ waitTime \in 0 .. Forever
      BY DEF TypeOK
    <3>2. JitterRange(least) \in 0 .. least
      BY <1>0, <3>1, JitterBound
    <3>3. \A m \in (least - JitterRange(least)) .. (least + JitterRange(least)) :
             Lesser(m, Forever) \in 0 .. Forever
      BY <1>0, <3>1, <3>2 DEF Lesser
    <3> QED BY <1>7, <3>1, <3>3 DEF Sleep, AddJitter
  <2> QED BY <1>0, <1>7, <2>1 DEF Sleep, TypeOK, task, torrents
<1>8. CASE WakeUp
  BY <1>0, <1>8 DEF WakeUp, BeginTurn, TypeOK, task, torrents
<1>9. CASE Watcher
  <2> PICK t \in Torrent : Add(t) \/ Greet(t) \/ Farewell(t) \/ Remove(t)
    BY <1>9 DEF Watcher
  <2>1. CASE Add(t)
    <3>1. list' \in Seq(Torrent)
      BY <2>1 DEF Add, TypeOK
    <3> QED BY <2>1, <3>1 DEF Add, TypeOK, torrents
  <2>2. ASSUME WatcherAnnounce(t), fresh' \subseteq Torrent, leaving' \subseteq Torrent
        PROVE  TypeOK'
    <3>1. /\ interval' \in [Torrent -> 0 .. Forever]
          /\ age' \in [Torrent -> 0 .. U64]
      BY <2>2, AnnouncedType DEF WatcherAnnounce
    <3> QED BY <2>2, <3>1 DEF WatcherAnnounce, TypeOK
  <2>3. CASE Greet(t)
    BY <2>2, <2>3 DEF Greet, TypeOK
  <2>4. CASE Farewell(t)
    BY <2>2, <2>4 DEF Farewell, TypeOK
  <2>5. CASE Remove(t)
    <3>1. PICK i \in DOMAIN list :
             list' = SubSeq(list, 1, i - 1) \o SubSeq(list, i + 1, Len(list))
      BY <2>5 DEF Remove
    <3>2. list \in Seq(Torrent) /\ i \in 1 .. Len(list)
      BY DEF TypeOK
    <3>3. SubSeq(list, 1, i - 1) \in Seq(Torrent)
      BY <3>2
    <3>4. SubSeq(list, i + 1, Len(list)) \in Seq(Torrent)
      BY <3>2
    <3>5. list' \in Seq(Torrent)
      BY <3>1, <3>3, <3>4
    <3>6. interval' \in [Torrent -> 0 .. Forever] /\ age' \in [Torrent -> 0 .. U64]
      <4>1. 0 \in 0 .. Forever /\ 0 \in 0 .. U64
        BY <1>0
      <4> QED BY <2>5, <4>1 DEF Remove, TypeOK
    <3> QED BY <2>5, <3>5, <3>6 DEF Remove, TypeOK
  <2> QED BY <2>1, <2>3, <2>4, <2>5
<1>10. CASE UNCHANGED vars
  BY <1>10 DEF vars, torrents, task, TypeOK
<1> QED BY <1>1, <1>2, <1>3, <1>4, <1>5, <1>6, <1>7, <1>8, <1>9, <1>10
       DEF Next, Step

\* The list, the intervals and the times stay in their ranges; no sleep is
\* longer than a u64 (add_jitter saturates).
THEOREM TypeCorrect == Spec => []TypeOK
<1> QED BY InitTypeOK, NextTypeOK, PTL DEF Spec

-----------------------------------------------------------------------------
\* The two halves of WakesInTime, each for one torrent.
NotMissed(t) == at \in {"turn", "announce"} => least <= Larger(0, DueIn(t) + turn)

NotOverslept(t) ==
    at = "sleep" => rest <= IF FallsBack THEN waitTime
                            ELSE DueIn(t) + turn + JitterRange(least)

LEMMA WakesInTimeHalves ==
    WakesInTime <=> \A t \in seen : NotMissed(t) /\ NotOverslept(t)
  BY DEF WakesInTime, NotMissed, NotOverslept

LEMMA DueInType ==
    TypeOK => \A t \in Torrent : /\ DueIn(t) \in Int
                                 /\ interval[t] \in Nat /\ age[t] \in 0 .. U64
<1> SUFFICES ASSUME TypeOK, NEW t \in Torrent
             PROVE  DueIn(t) \in Int /\ interval[t] \in Nat /\ age[t] \in 0 .. U64
  OBVIOUS
<1>1. Forever \in Nat /\ U64 \in Nat
  BY SchedulerAssumption DEF Forever
<1> QED BY <1>1 DEF TypeOK, DueIn

\* In a second no torrent comes closer than a second to its announce.
LEMMA TickDueIn ==
    ASSUME TypeOK, Tick, NEW t \in Torrent
    PROVE  DueIn(t)' \in Int /\ DueIn(t)' >= DueIn(t) - 1
<1>1. interval[t] \in Nat /\ age[t] \in 0 .. U64 /\ U64 \in Nat
  BY DueInType, SchedulerAssumption
<1>2. age'[t] = (IF t \in Listed THEN Later(age[t]) ELSE 0) /\ interval' = interval
  BY DEF Tick
<1>3. age'[t] \in Nat /\ age'[t] <= age[t] + 1
  BY <1>1, <1>2 DEF Later, Lesser
<1> QED BY <1>1, <1>2, <1>3 DEF DueIn

LEMMA NextWakesInTime == TypeOK /\ WakesInTime /\ [Next]_vars => WakesInTime'
<1> SUFFICES ASSUME TypeOK, TypeOK', WakesInTime, [Next]_vars,
                    NEW t \in seen'
             PROVE  NotMissed(t)' /\ NotOverslept(t)'
  BY NextTypeOK, WakesInTimeHalves DEF WakesInTime, NotMissed, NotOverslept
<1>t. t \in Torrent
  BY DEF TypeOK
<1>0. t \in seen => NotMissed(t) /\ NotOverslept(t)
  BY WakesInTimeHalves
<1>i. /\ least \in Nat /\ rest \in Nat /\ turn \in Nat
      /\ least' \in Nat /\ rest' \in Nat /\ turn' \in Nat
      /\ DueIn(t) \in Int /\ DueIn(t)' \in Int
      /\ JitterRange(least) \in Nat /\ waitTime \in Nat
  <2>1. Forever \in Nat
    BY SchedulerAssumption DEF Forever
  <2>2. least \in Nat /\ rest \in Nat /\ turn \in Nat /\ waitTime \in Nat
    BY <2>1 DEF TypeOK
  <2>3. least' \in Nat /\ rest' \in Nat /\ turn' \in Nat
    BY <2>1 DEF TypeOK
  <2>4. DueIn(t) \in Int
    BY <1>t, DueInType
  <2>5. DueIn(t)' \in Int
    <3>1. interval'[t] \in 0 .. Forever /\ age'[t] \in 0 .. U64 /\ U64 \in Nat
      BY <1>t, SchedulerAssumption DEF TypeOK
    <3> QED BY <2>1, <3>1 DEF DueIn
  <2>6. JitterRange(least) \in Nat
    BY <2>2, JitterBound
  <2> QED BY <2>2, <2>3, <2>4, <2>5, <2>6
\* A step that changes nothing the two halves speak of.
<1>s. ASSUME at' = at, least' = least, rest' = rest, turn' = turn,
             waitTime' = waitTime, t \in seen, DueIn(t)' = DueIn(t)
      PROVE  NotMissed(t)' /\ NotOverslept(t)'
  BY <1>0, <1>s DEF NotMissed, NotOverslept, FallsBack, Larger
<1>1. CASE Tick
  <2>1. t \in seen /\ at' = at /\ least' = least /\ DueIn(t)' >= DueIn(t) - 1
    BY <1>1, <1>t, TickDueIn DEF Tick, task
  <2>2. JitterRange(least)' = JitterRange(least) /\ (FallsBack' <=> FallsBack)
    BY <2>1 DEF JitterRange, FallsBack
  <2>3. CASE at = "sleep"
    <3>1. rest' = rest - 1 /\ turn' = turn /\ waitTime' = waitTime
      BY <1>1, <2>3 DEF Tick
    <3>2. NotMissed(t)'
      BY <2>1, <2>3 DEF NotMissed
    <3>3. NotOverslept(t)'
      BY <1>0, <1>i, <2>1, <2>2, <3>1 DEF NotOverslept
    <3> QED BY <3>2, <3>3
  <2>4. CASE at # "sleep"
    <3>1. rest' = rest /\ turn' = turn + 1
      BY <1>1, <2>4 DEF Tick
    <3>2. NotMissed(t)'
      BY <1>0, <1>i, <2>1, <3>1 DEF NotMissed, Larger
    <3>3. NotOverslept(t)'
      BY <2>1, <2>4 DEF NotOverslept
    <3> QED BY <3>2, <3>3
  <2> QED BY <2>3, <2>4
<1>2. CASE AnnounceStarted
  BY <1>2 DEF AnnounceStarted, NotMissed, NotOverslept
<1>3. CASE Started \/ WakeUp
  BY <1>3 DEF Started, WakeUp, BeginTurn
<1>4. CASE Pass \/ EndAnnounce
  <2>1. /\ list[pos] \in Torrent /\ TakeLeast(list[pos])
        /\ at' = "turn" /\ turn' = turn /\ at \in {"turn", "announce"}
        /\ \/ interval' = interval /\ age' = age
           \/ Announced(list[pos])
    BY <1>4, Places DEF Pass, EndAnnounce, torrents, TypeOK
  <2>2. interval' \in [Torrent -> 0 .. Forever] /\ age' \in [Torrent -> 0 .. U64]
    BY DEF TypeOK
  <2>3. least' <= least /\ (least' > 0 => least' <= interval'[list[pos]] - age'[list[pos]])
    BY <2>1, <2>2, TakeLeastType
  <2>4. CASE t = list[pos]
    <3>1. DueIn(t)' = interval'[list[pos]] - age'[list[pos]]
      BY <2>4 DEF DueIn
    <3> QED BY <1>i, <2>1, <2>3, <3>1 DEF NotMissed, NotOverslept, Larger
  <2>5. CASE t # list[pos]
    <3>1. t \in seen
      BY <2>1, <2>5 DEF TakeLeast
    <3>2. interval'[t] = interval[t] /\ age'[t] = age[t]
      BY <1>t, <2>1, <2>5, AnnouncedType
    <3>3. DueIn(t)' = DueIn(t)
      BY <3>2 DEF DueIn
    <3> QED BY <1>0, <1>i, <2>1, <2>3, <3>1, <3>3 DEF NotMissed, NotOverslept, Larger
  <2> QED BY <2>4, <2>5
<1>5. CASE Announce
  <2>1. t \in seen /\ at = "turn" /\ at' = "announce"
        /\ least' = least /\ turn' = turn /\ DueIn(t)' = DueIn(t)
    BY <1>5 DEF Announce, torrents, DueIn
  <2> QED BY <1>0, <2>1 DEF NotMissed, NotOverslept, Larger
<1>6. CASE Sleep
  <2>1. t \in seen /\ at = "turn" /\ at' = "sleep"
        /\ least' = least /\ turn' = turn /\ DueIn(t)' = DueIn(t)
    BY <1>6 DEF Sleep, torrents, DueIn
  <2>2. NotMissed(t)'
    BY <2>1 DEF NotMissed
  <2>3. JitterRange(least)' = JitterRange(least) /\ (FallsBack' <=> FallsBack)
    BY <2>1 DEF JitterRange, FallsBack
  <2>4. CASE ~FallsBack
    <3>1. least > 0
      BY <1>i, <2>4 DEF FallsBack
    <3>2. least <= DueIn(t) + turn
      BY <1>0, <1>i, <2>1, <3>1 DEF NotMissed, Larger
    <3>3. rest' \in AddJitter(least)
      BY <1>6, <2>4 DEF Sleep
    <3>4. Forever \in Nat
      BY SchedulerAssumption DEF Forever
    <3>5. rest' <= least + JitterRange(least)
      BY <1>i, <3>3, <3>4 DEF AddJitter, Lesser
    <3> QED BY <1>i, <2>1, <2>2, <2>3, <2>4, <3>2, <3>5 DEF NotOverslept
  <2>5. CASE FallsBack
    <3>1. rest' = waitTime /\ waitTime' = waitTime
      BY <1>6, <2>5 DEF Sleep
    <3> QED BY <1>i, <2>2, <2>3, <2>5, <3>1 DEF NotOverslept
  <2> QED BY <2>4, <2>5
<1>7. CASE Watcher
  <2> PICK u \in Torrent : Add(u) \/ Greet(u) \/ Farewell(u) \/ Remove(u)
    BY <1>7 DEF Watcher
  <2>1. CASE Add(u)
    <3>1. /\ at' = at /\ least' = least /\ rest' = rest /\ turn' = turn
          /\ waitTime' = waitTime /\ t \in seen
      BY <2>1 DEF Add
    <3>2. DueIn(t)' = DueIn(t)
      BY <2>1 DEF Add, torrents, DueIn
    <3> QED BY <1>s, <3>1, <3>2
  <2>2. ASSUME WatcherAnnounce(u) PROVE NotMissed(t)' /\ NotOverslept(t)'
    <3>1. /\ at' = at /\ least' = least /\ rest' = rest /\ turn' = turn
          /\ waitTime' = waitTime /\ t \in seen /\ t # u
      BY <2>2 DEF WatcherAnnounce
    <3>2. interval'[t] = interval[t] /\ age'[t] = age[t]
      BY <1>t, <2>2, <3>1, AnnouncedType DEF WatcherAnnounce
    <3>3. DueIn(t)' = DueIn(t)
      BY <3>2 DEF DueIn
    <3> QED BY <1>s, <3>1, <3>3
  <2>3. CASE Remove(u)
    <3>1. /\ at' = at /\ least' = least /\ rest' = rest /\ turn' = turn
          /\ waitTime' = waitTime /\ t \in seen /\ t # u
      BY <2>3 DEF Remove
    <3>2. interval'[t] = interval[t] /\ age'[t] = age[t]
      BY <1>t, <2>3, <3>1 DEF Remove, TypeOK
    <3>3. DueIn(t)' = DueIn(t)
      BY <3>2 DEF DueIn
    <3> QED BY <1>s, <3>1, <3>3
  <2> QED BY <2>1, <2>2, <2>3 DEF Greet, Farewell
<1>8. CASE UNCHANGED vars
  <2>1. /\ at' = at /\ least' = least /\ rest' = rest /\ turn' = turn
        /\ waitTime' = waitTime /\ t \in seen /\ DueIn(t)' = DueIn(t)
    BY <1>8 DEF vars, torrents, DueIn
  <2> QED BY <1>s, <2>1
<1> QED BY <1>1, <1>2, <1>3, <1>4, <1>5, <1>6, <1>7, <1>8 DEF Next, Step

\* A torrent that a turn has looked at does not wait past the time it is due for
\* the next turn, but for the jitter and the announces of that turn, unless the
\* turn left a torrent due; then it waits no longer than the wait time of start-up.
THEOREM WakingInTime == Spec => []WakesInTime
<1>1. Init => WakesInTime
  BY DEF Init, WakesInTime
<1> QED BY <1>1, InitTypeOK, NextTypeOK, NextWakesInTime, PTL DEF Spec

-----------------------------------------------------------------------------
\* A turn that found some time to wait is followed by a sleep.
THEOREM SpinningOnlyIfStartFailed == Spec => SpinsOnlyIfStartFailed
<1>1. ASSUME TypeOK, Sleep, rest' = 0 PROVE FallsBack /\ waitTime = 0
  <2>1. CASE FallsBack
    BY <1>1, <2>1 DEF Sleep
  <2>2. CASE ~FallsBack
    <3>1. least \in Nat \ {0} /\ Forever \in Nat /\ Forever # 0
      BY <1>1, <2>2, SchedulerAssumption DEF TypeOK, FallsBack, Forever
    <3>2. JitterRange(least) \in 0 .. (least - 1)
      BY <3>1, JitterLess
    <3>3. \A m \in (least - JitterRange(least)) .. (least + JitterRange(least)) :
             Lesser(m, Forever) > 0
      BY <3>1, <3>2 DEF Lesser
    <3>4. rest' \in AddJitter(least)
      BY <1>1, <2>2 DEF Sleep
    <3> QED BY <1>1, <3>3, <3>4 DEF AddJitter
  <2> QED BY <2>1, <2>2
<1>2. TypeOK => [Sleep /\ rest' = 0 => FallsBack /\ waitTime = 0]_vars
  BY <1>1
<1> QED BY <1>2, TypeCorrect, PTL DEF SpinsOnlyIfStartFailed
=============================================================================
