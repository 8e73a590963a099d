------------------------------ MODULE Torrent ------------------------------
(***************************************************************************)
(* One torrent and its trackers over time: what an announce draws, reports  *)
(* and learns (torrent.rs, announce_http and build_url of tracker.rs,       *)
(* announce_udp of udp.rs).  Whoever announces holds the torrent's mutex    *)
(* (OneAnnouncerEach of RatioUp), so announces follow one another; who they *)
(* are is left open: any event may come at any time, a regular one only     *)
(* when the scheduler finds the torrent due.                                *)
(*                                                                         *)
(* Time is in seconds and may pass before any step.  The trackers' side is  *)
(* the history `told` and `credited`: a request that arrives counts, whether *)
(* or not its answer arrives.                                               *)
(***************************************************************************)
EXTENDS Integers, Sequences

CONSTANTS
    TrackerLists,  \* torrents: the schemes of their trackers, in order of urls
    Rates,         \* configurations of the rates: [min, max], bytes per second
    Intervals,     \* numbers trackers send as an interval or a minimum
    Peers,         \* numbers trackers send of seeders or leechers
    U16, U64,      \* number of values of a u16, of a u64
    MaxTime,       \* bound: seconds
    MaxAnnounces   \* bound: announces

\* The rates need not be ordered: load_from_file may return before it swaps them.
ASSUME RatesAssumption == Rates \subseteq [min : Nat, max : Nat]

ASSUME AnswersAssumption ==
    /\ TrackerLists \subseteq Seq({"http", "udp"}) /\ <<>> \notin TrackerLists
    /\ Intervals \subseteq Int /\ Peers \subseteq Int
    /\ U16 \in Nat \ {0} /\ U64 \in Nat \ {0}

ASSUME BoundsAssumption == MaxTime \in Nat /\ MaxAnnounces \in Nat

Event == {"started", "regular", "stopped"}

VARIABLES
    rates,         \* min_upload_rate and max_upload_rate of CONFIG
    trackers,      \* the schemes of this torrent's urls
    now,           \* the clock, 0 when the torrent file is parsed
    lastAnnounce, interval, minInterval, seeders, leechers, nextUploadSpeed,
    uploaded, errorCount,    \* the fields of Torrent; minInterval 0 is None
    at,            \* "idle", "call", "answer", "panicked" or "gone"
    event, url,    \* the announce under way: its event, the index of its URL
    report,        \* the uploaded bytes in the request under way
    arrived,       \* the tracker has taken this request
    announces,     \* history: number of announces begun
    told,          \* history: bytes in all requests that arrived
    credited,      \* history: bytes in all requests answered with success
    asked          \* history: per tracker, when it last answered and what it asked

fields == <<lastAnnounce, interval, minInterval, seeders, leechers,
            nextUploadSpeed, uploaded, errorCount>>
request == <<event, url, report, arrived>>
ledger == <<told, credited, asked>>
vars == <<rates, trackers, now, fields, at, request, announces, ledger>>

Init ==
    /\ rates \in Rates /\ trackers \in TrackerLists
    /\ now = 0 /\ lastAnnounce = 0
    /\ interval = 0 /\ minInterval = 0
    /\ seeders = 0 /\ leechers = 0
    /\ nextUploadSpeed = 0 /\ uploaded = 0 /\ errorCount = 0
    /\ at = "idle" /\ event = "regular" /\ url = 0 /\ report = 0
    /\ arrived = FALSE
    /\ announces = 0 /\ told = 0 /\ credited = 0
    /\ asked = [i \in DOMAIN trackers |-> [since |-> 0, interval |-> 0]]

-----------------------------------------------------------------------------
Elapsed == now - lastAnnounce

\* Mutant: the comparison is off by one second.
ShouldAnnounceEarly == Elapsed + 1 >= interval

ShouldAnnounce == Elapsed >= interval

CanUpload == (seeders > 0 /\ leechers > 0) \/ leechers > 1

Draws == CanUpload /\ 0 < rates.min /\ rates.min <= rates.max

\* fastrand::u32(min..max): the upper end is excluded.
ComputeSpeeds ==
    \/ /\ Draws /\ rates.min # rates.max
       /\ nextUploadSpeed' \in rates.min .. (rates.max - 1)
    \/ ~Draws /\ UNCHANGED nextUploadSpeed

\* ... and an empty range panics, which ends the task that announces.
Panics == Draws /\ rates.min = rates.max

Tick ==
    /\ now < MaxTime /\ at \notin {"panicked", "gone"}
    /\ now' = now + 1
    /\ UNCHANGED <<rates, trackers, fields, at, request, announces, ledger>>

Requested(e) ==
    /\ at = "idle" /\ announces < MaxAnnounces
    /\ e = "regular" => ShouldAnnounce
    /\ announces' = announces + 1
    /\ event' = e
    /\ UNCHANGED <<rates, trackers, now, lastAnnounce, interval, minInterval, seeders,
                   leechers, uploaded, errorCount, report, arrived, ledger>>

\* announce(): draw a speed, then go through the trackers.
Announce(e) ==
    /\ Requested(e) /\ ComputeSpeeds
    /\ url' = 1 /\ at' = "call"

AnnouncePanics(e) ==
    /\ Requested(e) /\ Panics
    /\ at' = "panicked"
    /\ UNCHANGED <<nextUploadSpeed, url>>

\* What build_url and announce_udp report: the speed just drawn, for the time
\* since the last success.
ToReport == IF event = "started" THEN 0 ELSE nextUploadSpeed * Elapsed

Call ==
    /\ at = "call"
    /\ report' = ToReport
    /\ arrived' = FALSE
    /\ at' = "answer"
    /\ UNCHANGED <<rates, trackers, now, fields, event, url, announces, ledger>>

\* On the tracker's side: the request arrives and is accepted.  One that arrives
\* after it was given up is left out; it would only add to `told`.
Arrive ==
    /\ at = "answer" /\ ~arrived
    /\ arrived' = TRUE
    /\ told' = told + report
    /\ UNCHANGED <<rates, trackers, now, fields, at, event, url, report, announces,
                   credited, asked>>

-----------------------------------------------------------------------------
NextTracker ==
    /\ IF url < Len(trackers)
       THEN url' = url + 1 /\ at' = "call"
       ELSE url' = 0 /\ at' = "idle"
    /\ UNCHANGED <<rates, trackers, now, event, report, announces>>
    /\ arrived' = FALSE

\* The release build wraps.
CountError == errorCount' = (errorCount + 1) % U16

Waits(scheme) == at = "answer" /\ trackers[url] = scheme

\* A body that makes the decoder panic (a length that wraps the position, lists too
\* deep for the stack) ends the task that announces.
HttpPanics ==
    /\ Waits("http")
    /\ at' = "panicked"
    /\ UNCHANGED <<rates, trackers, now, fields, request, announces, ledger>>

\* No connection, no answer within 60 s, a broken body, or no dictionary: the
\* torrent does not change, not even its error count.
HttpFails ==
    /\ Waits("http")
    /\ NextTracker
    /\ UNCHANGED <<fields, ledger>>

\* A dictionary with a failure reason.
HttpRefuses ==
    /\ Waits("http") /\ ~arrived
    /\ CountError
    /\ NextTracker
    /\ UNCHANGED <<lastAnnounce, interval, minInterval, seeders, leechers,
                   nextUploadSpeed, uploaded, ledger>>

Credit(newInterval) ==
    /\ credited' = credited + report
    /\ asked' = [asked EXCEPT ![url] = [since |-> now, interval |-> newInterval]]
    /\ UNCHANGED told

\* Mutant: a success does not restart the time to report.
HttpSucceedsKeepsTime ==
    /\ Waits("http") /\ arrived
    /\ interval' \in {interval} \cup {n % U64 : n \in Intervals}
    /\ minInterval' \in {minInterval} \cup {n % U64 : n \in Intervals}
    /\ seeders' \in {seeders} \cup {n % U16 : n \in Peers}
    /\ leechers' \in {leechers} \cup {n % U16 : n \in Peers}
    /\ errorCount' = 0
    /\ Credit(interval')
    /\ NextTracker
    /\ UNCHANGED <<lastAnnounce, nextUploadSpeed, uploaded>>

\* Any other dictionary: each field it has is taken, cut to its width; a field
\* it has not keeps its value.  `uploaded` is not touched.
HttpSucceeds ==
    /\ Waits("http") /\ arrived
    /\ interval' \in {interval} \cup {n % U64 : n \in Intervals}
    /\ minInterval' \in {minInterval} \cup {n % U64 : n \in Intervals}
    /\ seeders' \in {seeders} \cup {n % U16 : n \in Peers}
    /\ leechers' \in {leechers} \cup {n % U16 : n \in Peers}
    /\ lastAnnounce' = now
    /\ errorCount' = 0
    /\ Credit(interval')
    /\ NextTracker
    /\ UNCHANGED <<nextUploadSpeed, uploaded>>

\* Mutant: a request without an answer is added to the total.
UdpFailsCounts ==
    /\ \/ Waits("udp")
       \/ at = "call" /\ trackers[url] = "udp"
    /\ CountError
    /\ uploaded' = uploaded + report
    /\ NextTracker
    /\ UNCHANGED <<lastAnnounce, interval, minInterval, seeders, leechers,
                   nextUploadSpeed, ledger>>

\* The host does not resolve or no socket binds (nothing is sent), or the
\* exchange fails: an error answer, a bad one, none within 15 s.
UdpFails ==
    /\ \/ Waits("udp")
       \/ at = "call" /\ trackers[url] = "udp"
    /\ CountError
    /\ NextTracker
    /\ UNCHANGED <<lastAnnounce, interval, minInterval, seeders, leechers,
                   nextUploadSpeed, uploaded, ledger>>

\* A UDP answer always has an interval and both counts, and they are unsigned.
UdpSucceeds ==
    /\ Waits("udp") /\ arrived
    /\ uploaded' = uploaded + report
    /\ interval' \in Intervals \cap Nat
    /\ seeders' \in {n % U16 : n \in Peers \cap Nat}
    /\ leechers' \in {n % U16 : n \in Peers \cap Nat}
    /\ lastAnnounce' = now
    /\ errorCount' = 0
    /\ Credit(interval')
    /\ NextTracker
    /\ UNCHANGED <<minInterval, nextUploadSpeed>>

\* The watcher removes the torrent, or the process exits.
Leave ==
    /\ at = "idle"
    /\ at' = "gone"
    /\ UNCHANGED <<rates, trackers, now, fields, request, announces, ledger>>

Next ==
    \/ Tick
    \/ \E e \in Event : Announce(e) \/ AnnouncePanics(e)
    \/ Call \/ Arrive
    \/ HttpPanics \/ HttpFails \/ HttpRefuses \/ HttpSucceeds
    \/ UdpFails \/ UdpSucceeds
    \/ Leave

\* Nothing happens to the torrent any more.
Over == at \in {"panicked", "gone"} /\ UNCHANGED vars

Spec == Init /\ [][Next \/ Over]_vars

-----------------------------------------------------------------------------
TypeOK ==
    /\ rates \in Rates /\ trackers \in TrackerLists
    /\ now \in Nat /\ lastAnnounce \in 0 .. now
    /\ interval \in Nat /\ minInterval \in Nat
    /\ seeders \in 0 .. (U16 - 1) /\ leechers \in 0 .. (U16 - 1)
    /\ nextUploadSpeed \in 0 .. rates.max
    /\ uploaded \in Nat /\ errorCount \in 0 .. (U16 - 1)
    /\ at \in {"idle", "call", "answer", "panicked", "gone"}
    /\ event \in Event
    /\ url \in 0 .. Len(trackers)
    /\ at \in {"call", "answer"} => url > 0
    /\ report \in Nat /\ arrived \in BOOLEAN
    /\ announces \in Nat /\ told \in Nat /\ credited \in Nat
    /\ asked \in [DOMAIN trackers -> [since : Nat, interval : Nat]]

\* What the bounds below rest on: the request under way reports no more than the
\* rate allows since the last success, and what is credited had arrived.
Ledger ==
    /\ at = "answer" => report <= rates.max * (now - lastAnnounce)
    /\ at = "answer" /\ arrived => credited + report <= told
    /\ credited <= rates.max * lastAnnounce
    /\ credited <= told
    /\ uploaded <= credited

LedgerInv == TypeOK /\ Ledger

\* "configure range of speed in bytes for each torrent" (README.md:64): what all
\* the trackers of a torrent together have acknowledged is never more than the
\* highest rate allows for the time up to the last success, although a request
\* that fails is reported again and several trackers are told in turn.
CreditWithinRate == credited <= rates.max * lastAnnounce

\* The total on the statistics page is backed by what trackers were told: no
\* announce that fails, or that no tracker took, is in it.
TotalIsBacked == uploaded <= told

\* "Total of fake uploaded data since the start of RatioUp" (torrent.rs:63): for a
\* torrent that has UDP trackers only, the total is the sum of all reports that
\* were answered with success, whatever its requests meet.  What an HTTP tracker
\* acknowledges is in no total (HttpSucceeds).
UdpTotalIsExact ==
    (\A i \in DOMAIN trackers : trackers[i] = "udp") => uploaded = credited

\* "Interval in seconds that the client should wait between sending regular
\* requests to the tracker" (tracker.rs:290): the only tracker of a torrent is
\* sent no regular request before the interval it asked for is over.
TrackerIntervalKept ==
    [][Call /\ event = "regular" /\ Len(trackers) = 1
          => now >= asked[url].since + asked[url].interval]_vars
=============================================================================
