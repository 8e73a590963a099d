----------------------------- MODULE Scheduler -----------------------------
(***************************************************************************)
(* The scheduler over several torrents, with time (scheduler.rs, and the    *)
(* wait time that announce_started hands to it).  RatioUp shows that the    *)
(* list does not change under a turn and that announces of one torrent do   *)
(* not overlap; here the watcher changes the list between turns only, and   *)
(* an announce is one action, opened up in Torrent.                         *)
(*                                                                         *)
(* Time passes while the scheduler sleeps and, up to Slow seconds, while it *)
(* works on a torrent.  There is no clock: a torrent has the age of its     *)
(* last_announce, the scheduler the rest of its sleep.                      *)
(***************************************************************************)
EXTENDS Integers, Sequences, FiniteSets

CONSTANTS
    Torrent,      \* torrents that may be listed
    Intervals,    \* numbers trackers send as an interval
    U64,          \* number of values of a u64
    Herd,         \* 20: shorter intervals have no jitter, others one of 1/20
    Slow          \* the longest an announce takes, all its timeouts included

ASSUME SchedulerAssumption ==
    /\ Intervals \subseteq Int
    /\ U64 \in Nat \ {0} /\ Herd \in Nat \ {0, 1} /\ Slow \in Nat

VARIABLES
    list,         \* the torrents in TORRENTS, in their order
    interval,     \* per torrent: its interval
    age,          \* per torrent: last_announce.elapsed(); no longer than U64
    waitTime,     \* what announce_started returned
    at,           \* "starting", "turn" (lock and look), "announce" or "sleep"
    pos,          \* the place in the list
    took,         \* seconds spent on this torrent
    least,        \* min_interval of the turn, wait_time of announce_started
    rest,         \* seconds of sleep left
    fresh,        \* listed by the watcher, its STARTED announce to come
    leaving,      \* announced as STOPPED by the watcher, to be removed
    seen,         \* history: torrents that are in `least` as they are now
    turn          \* history: seconds this turn took

torrents == <<interval, age>>
task == <<fresh, leaving>>
vars == <<list, torrents, waitTime, at, pos, took, least, rest, task,
          seen, turn>>

Listed == {list[i] : i \in DOMAIN list}

Forever == U64 - 1     \* u64::MAX
Lesser(a, b) == IF a < b THEN a ELSE b
Larger(a, b) == IF a < b THEN b ELSE a
Later(n) == Lesser(n + 1, U64)

\* load_torrents() has listed one torrent at least, or main() has returned.
Init ==
    /\ \E n \in 1 .. Cardinality(Torrent) : list \in [1 .. n -> Torrent]
    /\ \A i, j \in DOMAIN list : list[i] = list[j] => i = j
    /\ interval = [t \in Torrent |-> 0]
    /\ age = [t \in Torrent |-> 0]
    /\ waitTime = 0
    /\ at = "starting" /\ pos = 1 /\ took = 0 /\ least = Forever
    /\ rest = 0 /\ fresh = {} /\ leaving = {} /\ seen = {} /\ turn = 0

-----------------------------------------------------------------------------
\* Seconds until a torrent is due; less than 0 since it is.
DueIn(t) == interval[t] - age[t]

\* Mutant: a torrent that was never answered for is not announced.
ShouldAnnounceKnown(t) == interval[t] > 0 /\ age[t] >= interval[t]

ShouldAnnounce(t) == age[t] >= interval[t]

\* Time passes in an await: a sleep, a lock or the requests of an announce.
Tick ==
    /\ \/ /\ at = "sleep" /\ rest > 0
          /\ rest' = rest - 1
          /\ UNCHANGED <<took, turn>>
       \/ /\ at \in {"starting", "turn", "announce"} /\ took < Slow
          /\ took' = took + 1 /\ turn' = turn + 1
          /\ UNCHANGED rest
    /\ age' = [t \in Torrent |-> IF t \in Listed THEN Later(age[t]) ELSE 0]
    /\ UNCHANGED <<list, interval, waitTime, at, pos, least, task, seen>>

\* What an announce does to the fields the scheduler reads.  A tracker that
\* refuses or stays silent leaves them as they are; an answer need not have an
\* interval.
Announced(t) ==
    \/ /\ age' = [age EXCEPT ![t] = 0]
       /\ interval' \in {interval} \cup
                         {[interval EXCEPT ![t] = n % U64] : n \in Intervals}
       \/ UNCHANGED torrents

-----------------------------------------------------------------------------
\* Mutant: the whole interval is slept, not what is left of it.
TakeLeastWhole(t) ==
    /\ least' = Lesser(least, interval'[t])
    /\ seen' = seen \cup {t}
    /\ pos' = pos + 1 /\ took' = 0

TimeUntilAnnounce(asked, elapsed) ==
    IF asked > elapsed THEN asked - elapsed ELSE 0

\* `min_interval = min(min_interval, time_until_announce)`
TakeLeast(t) ==
    /\ least' = Lesser(least, TimeUntilAnnounce(interval'[t], age'[t]))
    /\ seen' = seen \cup {t}
    /\ pos' = pos + 1 /\ took' = 0

\* announce_started(): one torrent after the other; the shortest interval is
\* the wait time.
AnnounceStarted ==
    /\ at = "starting" /\ pos \in DOMAIN list
    /\ Announced(list[pos])
    /\ least' = Lesser(least, interval'[list[pos]])
    /\ pos' = pos + 1 /\ took' = 0
    /\ UNCHANGED <<list, waitTime, at, rest, task, seen, turn>>

BeginTurn ==
    /\ at' = "turn" /\ pos' = 1 /\ took' = 0 /\ least' = Forever
    /\ seen' = {} /\ turn' = 0
    /\ UNCHANGED <<list, torrents, rest, task>>

Started ==
    /\ at = "starting" /\ pos \notin DOMAIN list
    /\ waitTime' = least
    /\ BeginTurn

\* A torrent that is not due is passed ...
Pass ==
    /\ at = "turn" /\ pos \in DOMAIN list
    /\ ~ShouldAnnounce(list[pos])
    /\ UNCHANGED torrents
    /\ TakeLeast(list[pos])
    /\ UNCHANGED <<list, waitTime, at, rest, task, turn>>

\* ... one that is due is announced, and is looked at when that is over.
Announce ==
    /\ at = "turn" /\ pos \in DOMAIN list
    /\ ShouldAnnounce(list[pos])
    /\ at' = "announce"
    /\ UNCHANGED <<list, torrents, waitTime, pos, took, least, rest, task,
                   seen, turn>>

EndAnnounce ==
    /\ at = "announce"
    /\ Announced(list[pos])
    /\ TakeLeast(list[pos])
    /\ at' = "turn"
    /\ UNCHANGED <<list, waitTime, rest, task, turn>>

JitterRange(n) == IF n < Herd THEN 0 ELSE n \div Herd

\* Mutant: the interval is not made up of more than its jitter.
AddJitterWhole(n) == {Lesser(m, Forever) : m \in 0 .. (n + JitterRange(n))}

\* Mutant: the offset is not taken back by the range.
AddJitterOnly(n) == n .. (n + 2 * JitterRange(n))

\* add_jitter(): saturating.
AddJitter(n) ==
    {Lesser(m, Forever) : m \in (n - JitterRange(n)) .. (n + JitterRange(n))}

FallsBack == least \in {0, Forever}

Sleep ==
    /\ at = "turn" /\ pos \notin DOMAIN list
    /\ IF FallsBack THEN rest' = waitTime ELSE rest' \in AddJitter(least)
    /\ at' = "sleep" /\ pos' = 0 /\ took' = 0
    /\ UNCHANGED <<list, torrents, waitTime, least, task, seen, turn>>

WakeUp ==
    /\ at = "sleep" /\ rest = 0
    /\ BeginTurn
    /\ UNCHANGED waitTime

Step ==
    \/ AnnounceStarted \/ Started
    \/ Pass \/ Announce \/ EndAnnounce \/ Sleep \/ WakeUp

-----------------------------------------------------------------------------
\* The watcher is one task, and does one thing after the other.
Idle == fresh = {} /\ leaving = {}

\* It takes the list for writing, which no turn leaves it.
Add(t) ==
    /\ at = "sleep" /\ t \notin Listed /\ Idle
    /\ list' = Append(list, t)
    /\ fresh' = {t}
    /\ UNCHANGED <<torrents, waitTime, at, pos, took, least, rest, leaving,
                   seen, turn>>

\* It announces under the torrent's mutex.
WatcherAnnounce(t) ==
    /\ t \in Listed /\ ~(at = "announce" /\ list[pos] = t)
    /\ Announced(t)
    /\ seen' = seen \ {t}
    /\ UNCHANGED <<list, waitTime, at, pos, took, least, rest, turn>>

\* A new torrent is STARTED ...
Greet(t) ==
    /\ t \in fresh /\ fresh' = {}
    /\ WatcherAnnounce(t) /\ UNCHANGED leaving

\* ... and one whose file is gone is STOPPED, then taken from the list.
Farewell(t) ==
    /\ Idle /\ leaving' = {t}
    /\ WatcherAnnounce(t) /\ UNCHANGED fresh

Remove(t) ==
    /\ at = "sleep" /\ t \in leaving /\ leaving' = {}
    /\ \E i \in DOMAIN list :
          /\ list[i] = t
          /\ list' = SubSeq(list, 1, i - 1) \o SubSeq(list, i + 1, Len(list))
    /\ interval' = [interval EXCEPT ![t] = 0]
    /\ age' = [age EXCEPT ![t] = 0]
    /\ seen' = seen \ {t}
    /\ UNCHANGED <<waitTime, at, pos, took, least, rest, fresh, turn>>

Watcher == \E t \in Torrent : Add(t) \/ Greet(t) \/ Farewell(t) \/ Remove(t)

Next == Tick \/ Step \/ Watcher

Spec == Init /\ [][Next]_vars

\* Tokio polls the scheduler, and time goes on: turns that wait for nothing
\* follow each other, but not infinitely many of them in one second.
FairSpec == Spec /\ SF_vars(Tick) /\ WF_vars(Step)

-----------------------------------------------------------------------------
TypeOK ==
    /\ list \in Seq(Torrent)
    /\ interval \in [Torrent -> 0 .. Forever]
    /\ age \in [Torrent -> 0 .. U64]
    /\ waitTime \in 0 .. Forever
    /\ at \in {"starting", "turn", "announce", "sleep"}
    /\ pos \in Nat /\ (at = "announce" => pos \in DOMAIN list)
    /\ took \in 0 .. Slow
    /\ least \in 0 .. Forever /\ rest \in 0 .. Forever
    /\ fresh \subseteq Torrent /\ leaving \subseteq Torrent
    /\ seen \subseteq Torrent /\ turn \in Nat

\* Of the torrents a turn has looked at none is due earlier than the turn found,
\* and the sleep after it is no longer than until the first is due, but for the
\* jitter and the seconds of the announces that came after the torrent was looked
\* at.  After a turn that left a torrent due, because its announce failed, the
\* sleep is the wait time of start-up whatever the others ask for, and no longer.
WakesInTime ==
    \A t \in seen :
        /\ at \in {"turn", "announce"} => least <= Larger(0, DueIn(t) + turn)
        /\ at = "sleep" => rest <= IF FallsBack THEN waitTime
                                   ELSE DueIn(t) + turn + JitterRange(least)

\* "Compute minimum time until next announce across all torrents"
\* (scheduler.rs:25): a torrent that was not due in a turn is not slept past,
\* but for the jitter and the seconds of the turn.
SleepsToTheFirst ==
    at = "sleep" => \A t \in seen :
        DueIn(t) > 0 => rest <= DueIn(t) + turn + JitterRange(least)

\* "Ensure we don't sleep forever if no torrents or all have 0 interval"
\* (scheduler.rs:37): nor not at all.  The next turn follows at once only when
\* this one found a torrent due that it had just announced, or no torrent, and
\* at start-up a torrent was left with the interval 0.
SpinsOnlyIfStartFailed ==
    [][Sleep /\ rest' = 0 => FallsBack /\ waitTime = 0]_vars

\* A torrent that is due is announced, or leaves the list.
DueIsAnnounced ==
    \A t \in Torrent :
        t \in Listed /\ DueIn(t) <= 0
            ~> (at = "announce" /\ list[pos] = t) \/ t \notin Listed
=============================================================================
