# Verification of RatioUp

RatioUp reads `.torrent` files from a directory and announces them to their
trackers at the intervals the trackers ask for, with made-up upload counters.
It is one tokio process with four tasks that share two locked statics. This
directory holds TLA+ models of it, the TLC configurations that check them, and
proofs checked by TLAPS.

Paths below are relative to the repository; the crate is in `src/`.

## The system

| Component | State | Operations | Hard part |
|---|---|---|---|
| `main.rs` | `TORRENTS: RwLock<Vec<Mutex<Torrent>>>`, `CLIENT: RwLock<Option<Client>>`, `CONFIG`, `STARTED` | load, announce STARTED, spawn, scheduler; on Ctrl+C announce STOPPED and exit; renew the client key | four tasks over two fair locks |
| `announcer/tracker.rs` | the torrent it is given | `announce`, `announce_started`, `announce_stopped`, `announce_http`, `build_url` | slow requests made under three locks at once |
| `announcer/scheduler.rs` | none | loop: announce what is due, write statistics, sleep | time; it competes with every other task |
| `announcer/udp.rs` | a socket per announce | connect, announce, 15 s timeouts | lost and late datagrams |
| `watcher.rs` | the queue of directory events | add a torrent, remove a torrent | late events, check-then-act over several guards, panics |
| `directory.rs` | none | load the directory at startup | duplicates, files that vanish |
| `torrent.rs` | `Torrent`: counters, interval, last announce | `from_file`, `should_announce`, `compute_speeds` | arithmetic at the edges, stale speeds |
| `bencode.rs` | decoder position | decode, encode | recursion, malformed input |
| `json_output.rs` | none | write the statistics file | takes the same locks |
| `config.rs` | `Config` | load, `init_client` | early returns that skip the last check |
| `utils.rs`, `www/` | none | formatting, SHA-1, a static page | none |

Interactions. `main` spawns the key renewer before it loads the torrents, and
the watcher and the Ctrl+C task after the startup announce; then it is the
scheduler. Every task that announces takes a read guard of `TORRENTS` and keeps
it for the whole walk, locks each torrent in turn, and in `announce()` keeps a
read guard of `CLIENT` until the last tracker has answered. The watcher takes
`TORRENTS` for writing to push and to remove; the renewer takes `CLIENT` for
writing. There are no channels between tasks but the watcher's event queue.

What makes each component correct:

* locks: no task waits for ever; whoever works on a torrent is alone with it;
  the list does not change under a walk;
* watcher: no hash is listed twice; what is removed was announced as STOPPED;
  once all events are handled the list agrees with the directory;
* events: STARTED is said once, STOPPED for each torrent at the end; that STARTED
  comes first and nothing after STOPPED is wanted too, but not so (see below);
* counters: trackers acknowledge no more than the configured rate allows, the
  total agrees with what they acknowledged, their intervals are kept;
* UDP: a success means that the tracker took this very announce;
* scheduler: it wakes in time for each torrent, announces each that is due, and
  does not spin;
* configuration: what is loaded is what the file says, and the rates come in
  order;
* parsing: the decoder ends within its bytes, on exactly the strings that stand
  for a value; the torrent is what that value describes; the directory gives its
  torrents, each once, whatever else is in it.

## Modules

| Module | Models |
|---|---|
| `FairLock` | a fair read/write lock, as tokio's `RwLock` and `Mutex` behave (external) |
| `Announcer` | the statics, and the walk over the list with the announces, for any task |
| `Watcher` | EXTENDS `Announcer`: the directory, its events, the watcher task |
| `RatioUp` | EXTENDS `Watcher`: main, the Ctrl+C task, the renewer; the specification and its properties |
| `Lifecycle` | what trackers are promised of a torrent, abstractly; `RatioUp` implements it |
| `RatioUpInv` | the inductive invariant |
| `Torrent` | one torrent with a clock: what an announce draws, reports and learns |
| `Scheduler` | several torrents with time: turns, wait times, jitter, sleeps, and the watcher between the turns |
| `UdpTracker` | the connect and announce datagrams of one UDP announce after another |
| `Request` | what a UDP announce promises, abstractly; `UdpTracker` implements it |
| `Config` | `load_from_file`, key by key |
| `Bencode` | the decoder, with a stack for its recursion |
| `Encoder` | EXTENDS `Bencode`: the encoder, as a function over the levels of a value |
| `Metainfo` | EXTENDS `Encoder`: `from_bencode_bytes`, `is_supported_url` |
| `Startup` | EXTENDS `Config`, `Metainfo`: `main` up to the first announce; the specification |
| `Grammar` | EXTENDS `Encoder`: which bytes stand for which value, as a recursive function |
| `StartupRef` | EXTENDS `Startup`, `Grammar`: what a start must come to, said of its input alone |
| `MCRatioUp`, `MCTorrent`, `MCUdpTracker`, `MCScheduler`, `MCStartup` | definitions for TLC |
| `RatioUpLockProofs` | lemmas about `FairLock`; every step preserves the types and the lock parts of the invariant |
| `RatioUpListProofs` | the same for the parts about the list, the walks and what was said |
| `RatioUpProofs` | the theorems: deadlock, lifecycle, list and directory |
| `TorrentProofs` | the ledger of a torrent, the interval of an only tracker |
| `UdpTrackerProofs` | the invariant of the exchange, and that it implements `Request` |
| `SchedulerProofs` | the invariant of the scheduler: types, waking, spinning |
| `BencodeProofs` | for any bytes: the decoder decodes the language of `Grammar`, and the encoder writes back what is read by its strict rules |
| `StartupProofs` | configuration, parser, URLs and list, for any input |

### How state and actions correspond to the code

`list` is `TORRENTS`, with the hash and the source path of each torrent;
`mutex[i]` is the mutex around torrent `i`; `torrents` and `client` are the two
`RwLock`s. `at[p]` is where task `p` is, `phase[p]` which walk it is in,
`pos[p]` and `url[p]` its loop indices. `wanted` holds the watcher's local
variables (`path`, `torrent` or `removed_hash`). `said` and `missed` are
history: which events have been announced for a torrent, and which files changed
while nobody watched. `said` only grows: that something is said again shows in
the steps, not in it. A file has two paths: `SourcePath[f]` is what `read_dir`
calls it and `LoadTorrents` stores, `f` what events call it and `PushTorrent`
stores. The notify library reports absolute paths, so the two agree when
`torrent_dir` is absolute (`Absolute`) and never when it is relative
(`Relative`), as by default; `Matches` compares what is stored with what is
reported, as watcher.rs:179 does. A step runs from one await to the next and
makes at most one lock request, because the runtime has several threads.

A lock request puts the task in the queue (`AskRead`, `AskWrite`); the task goes
on when it waits for nobody (`Granted`). A read request made behind a waiting
writer waits for the writer: this is what makes a second read guard in one task
dangerous. Dropping a guard is `Drop`. `try_lock` fails on a mutex that is held
or has been promised.

All walks share the actions `OpenList`, `BeginWalk`, `LockNext`, `Pass`,
`Announce` .. `LastUrl`, `EndWalk`; `phase` says which torrents a walk announces
(`Announces`), which it passes (`Passes`), what it looks for (`Matches`) and with
which event (`EventOf`):

| phase | code |
|---|---|
| starting, stopping | `announce_started`, `announce_stopped` |
| scheduling, stats | a turn of `scheduler::run`, `json_output::write` |
| dedup, greeting | `handle_file_added`: search for a duplicate; announce STARTED, from the end of the list |
| finding, parting | `handle_file_removed`: find the path; announce STOPPED |

How the models fit together. `Startup` ends where `RatioUp` begins: it shows
that the list `load_torrents` makes has the torrents of the directory, each once
(`ListsTheDirectory`, `NoTorrentTwice`), and `LoadTorrents` of `RatioUp` takes
that as one action. `RatioUp` shows that announces of one torrent do not overlap
(`OneAnnouncerEach`); `Torrent` takes that for granted, opens an announce up, and
lets any event come at any time. `RatioUp` shows that the list does not change
under a walk (`WalkSeesOneList`); `Scheduler` takes that for granted, lets the
watcher change the list between turns, and treats an announce as one action that
takes some seconds. `UdpTracker` opens up the request of one UDP announce, and
`Torrent` uses it as `Request` says: `Call` is `Ask`, `Arrive` is `Take`,
`UdpSucceeds` is `Succeed`, `UdpFails` is `Fail`. `Config` says which rates a
program may run with (`DisorderNeedsBadMax`), and `Torrent` is checked with such
pairs.

`Torrent`. Variables are the fields of the struct, with `None` as 0 for
`minInterval`. `Announce` is the draw of a speed in `compute_speeds`, `Call` the
computation of the bytes to report and the sending, `HttpSucceeds` and the rest
what each kind of answer changes. `told` counts the bytes of requests that
trackers took, `credited` those that were answered with success, `asked` what
each tracker asked for last; they are history.

`UdpTracker`. Datagrams sent stay in `requests` and `answers`, so that any may
arrive late, twice, or never. `ids` holds the transaction ids of the exchange,
so its length says which of the two waits the client is in.

`Scheduler`. `least` is `wait_time` in `announce_started` and `min_interval` in a
turn, `waitTime` what the first handed to the loop. A turn is `Pass` or
`Announce` and `EndAnnounce` per torrent, then `Sleep`; `Tick` lets a second pass
in a sleep, and up to `Slow` seconds over a torrent. `Add`, `Greet`, `Farewell`,
`Remove` are the watcher. `seen` and `turn` are history: which torrents `least`
speaks of, and how long the turn has taken.

`Startup`. `boot` is where `main` is, `parse` where `from_file` is, `stack` the
frames of `decode`, `decode_list`, `decode_dict` with what each has collected.
A configuration key is read by `TakeKey`, passed by `SkipKey`, or ends the
loading by `GiveUp`, the early `return`. `TopLevel`, `TakeUrl`, `NextTier`,
`UrlsEnd`, `TakeInfo`, `TakeFile`, `FinishParse` are the sections of
`from_bencode_bytes`, in their order; `ListTorrent` and `RejectFile` the two
outcomes in `load_torrents`.

### What is abstracted

In `Startup` and the modules it extends:

* Strings of a file are sequences of bytes, but a long key such as `announce` is
  one byte, as is a whole URL. `Url::parse` is external (`Parsed`: the scheme,
  whether there is a host, and the labels of a domain), and so is whether a text
  is UTF-8 (`Garbage`). The kinds of error are one.
* SHA-1 (`Sha1`) is any function in the proofs; `InfoHash` is `Sha1` of the
  encoded value. TLC takes the encoded bytes themselves, so that two torrents
  have one hash exactly when their `info` dictionaries are encoded alike.
* `u16`, `u32`, `u64`, `i64` and `usize` have small widths. Sums wrap, as in a
  release build.
* At a configuration path there is nothing, something that is no TOML, or a
  table; which of its values fit is what matters. The port 0 stands for a random
  one, the `numwant` 0 and the `output_stats` "" for `None`.
* A directory that cannot be opened is one that is not there and cannot be made.
* `StackDepth` is how many frames of the decoder the stack of the thread holds. A
  file nested deeper ends the process (`OverflowStack`, then `boot` is
  "panicked"), as does a panic of the decoder. The encoder recurses over a value
  that was decoded, in frames no larger and no deeper, and has no limit of its own.

In `Scheduler`:

* There is no clock but the age of each torrent's `last_announce` and what is
  left of the sleep. Ages stop at `U64`, above every interval.
* `rand::rng()` may draw any jitter in its range. `Herd` stands for 20, the
  number below which there is none.
* `u64::MAX`, to which an interval of -1 comes, is a sleep of three seconds here,
  so an endless sleep is a long one. That a fallback to such a wait time passes
  over a torrent that is due does not depend on the width (run `oversleeping`).
* An announce resets the age and takes one interval, or leaves both; which
  answers do which is in `Torrent`. That the last of several trackers wins is a
  choice of the interval.

In `Torrent` and `UdpTracker`:

* Clocks are integers: seconds in `Torrent`, nanoseconds in `UdpTracker`, where a
  second has `Nanos` of them. `u16`, `u32` and `u64` have `U16`, `U32` and `U64`
  values. The error count wraps, as in a release build; a debug build panics.
* The rates are any pair, not always in order: `load_from_file` may return
  before it swaps them.
* `tracker_id` is stored by the code and never used, and is left out.
* A request that is taken after the torrent gave it up is not added to `told`.
* Each UDP announce binds its own socket. Its port is taken to be fresh: the
  system does not give it out while datagrams to its last owner are under way.
  The connection id, which the client only hands back, is left out. What keeps
  exchanges apart in the model is the socket; the comparison of the transaction id
  is in it, but decides nothing unless ports are used again.
* An answer is received into a buffer of `Buffer` bytes, 1024 in the code: a longer
  one is cut (`Received`), and refused when what is left is no whole number of
  peers, as it then is.
* The answer of an HTTP tracker goes through the decoder of `Bencode`, which may
  panic or overflow the stack: `HttpPanics` ends the task, at any answer (an
  overflow ends the whole process, which for the torrent is the same).

In `RatioUp`:

* There is no clock: a scheduler turn announces a torrent or passes it, as
  either may be due. Sleeps end. `interval`, counters and speeds are in
  `Torrent`.
* A request ends by an answer, an error or a timeout, and all of them only end
  the wait. `said` records that an announce was made, not that it arrived.
* `announce_udp` and `announce_http` differ in one thing: the second reads
  `CLIENT` again in `build_url`.
* A file is absent, partial or a torrent. The notify library reports creations
  and deletions in order; a rename is a change of content that nobody hears of
  (`MoveFile`), one for each of its two paths.
* `CLIENT` is always `Some` once `init_client` has run, which is before any task.
* The panic of `from_file` in the watcher is modelled; a panic in `announce()`
  (equal upload rates, or the decoder on an answer: both are in `Torrent`) and one
  in `load_torrents` (in `Startup`) are not.
* Of a file's path only matters whether it is the one that events name. Links
  are not followed, and the working directory does not change.
* Interrupts before the Ctrl+C task exists kill the process (default action).

## Runs

`safety` to `after_stopped` run `MCRatioUp`; then `MCTorrent`, `MCUdpTracker`,
`MCScheduler` (two runs) and `MCStartup`. Model values `h1`, `h2` are hashes,
`f1`, `f2` files, `a`, `b` torrents.

| Run | Instance | Checks |
|---|---|---|
| `safety` | 2 hashes, 2 files, absolute directory, one HTTP tracker, statistics, 1 directory change, symmetry | `RetainLocksAll`, `UniqueHashes`, `OneAnnouncerEach`, `GoodbyesSoFar`, `QuietListIsPresent`, `RemovedIsFound`, `WalkSeesOneList`, `RemovedAfterStopped`, `ImplementsLifecycle` |
| `going_on` | 1 hash, 1 file, absolute directory, UDP, renewer, 2 changes | `Inv`, `OnlyRenewalsDeadlock`, `InterruptExits`, `SchedulerGoesOn`, `KeyIsRenewed`, `WatcherKeepsUp`, `CompleteFileIsListed` |
| `interrupt` | 1 hash, 1 file, HTTP, renewer, no change | violates `InterruptExits` |
| `exit_event` | 2 hashes, 2 files, 1 change | violates `ExitSaysStopped` |
| `forgetting` | 1 hash, 2 files, UDP, 3 changes | violates `RemovedIsForgotten` |
| `relative_dir` | 1 hash, 1 file, relative directory, 1 change | violates `RemovedIsFound` |
| `after_stopped` | 1 hash, 1 file, no change | violates `NothingAfterStopped` |
| `counting` | a UDP tracker, alone or before an HTTP one; 4 pairs of rates, 4 s, 3 announces | `LedgerInv`, `CreditWithinRate`, `TotalIsBacked`, `UdpTotalIsExact`, `TrackerIntervalKept` |
| `udp_exchange` | 2 exchanges, 5 ns, 3 ns to the second, an announce answer that fits the buffer and one that does not | `UdpInv`, `SuccessIsOwn`, `ImplementsRequest` |
| `scheduling` | 2 torrents, intervals 2 and -1, a `u64` of 4 values | `TypeOK`, `WakesInTime`, `DueIsAnnounced`, `SpinsOnlyIfStartFailed` |
| `oversleeping` | as `scheduling` | violates `SleepsToTheFirst` |
| `starting` | 12 008 inputs, a stack of 4 frames | `TypeOK`, `DisorderNeedsBadMax`, `LoadedAsWritten`, `DecoderInBounds`, `DecodesTheGrammar`, `UrlsClean`, `ParsedAsDescribed`, `HashIsOfTheFile`, `NoTorrentTwice`, `ListsTheDirectory`, `DecoderAdvances`, `StartEnds` |

Bounds of `Startup`. The inputs of `starting` are every string of up to four of
nine bytes; lists and dictionaries of up to four pieces of values, among them
loops that do not end; some thirty metainfo files, good and bad in one way each
(one is nested deeper than the stack), alone and beside a good, a bad, a second
good file, or one that cannot be read; 1350 configuration tables, with for each
key nothing, a value that fits and some that do not; the command lines with a
path, without and with too little. Four bytes reach every error of the decoder
but those of a nested value, which the pieces reach. `U16` = 3 lets three
torrents wrap the count of `load_torrents`; `U64`, `I64` and `USize` are passed
by numbers of one or two digits. `Startup` has no deadlock: the ways to end
stutter (`Over`).

Bounds of `Scheduler`. Two torrents are one that is due and one that is not, in
either place, and one that the watcher adds or removes beside one that stays. An
interval of 2 has jitter (`Herd` = 2), 0 is the interval of a torrent never
answered for, and -1 becomes the largest of a `u64`. `Slow` = 1 gives every
announce a second or none. More seconds or torrents make `turn` longer, and
nothing else; the theorems have neither bound.

Bounds of `Torrent`. `MaxTime` bounds the clock and `MaxAnnounces` the
announces. Three announces make a failure, its retry and a success, each with
both kinds of tracker, and let the error count reach `U16` = 4 and wrap; an
announce may take any part of the time. The rates are a range, two equal ones, a
zero minimum and a pair in the wrong order; the peers none, enough to upload,
and a number that 16 bits cut to zero; the intervals positive and negative.
Bounds of `UdpTracker`: two exchanges suffice for an answer to come to the wrong
one, and with three nanoseconds to the second ids repeat within and across
exchanges. A torrent that has left or panicked (`Over`) and a client between
announces (`Rest`) stutter, so deadlock is checked everywhere there.

Bounds of `RatioUp`. `MaxChanges` bounds the files the user creates, deletes and
moves; finishing a file is free, once per creation. In `safety` two files and two
hashes give a list of two torrents, two files with one hash, a duplicate that
arrives while the first copy is listed, and a removal beside a torrent that stays.
Two changes to one file, in `going_on`, are a removal followed by an addition, an
addition followed by its removal within the settle delay, and a rename with a new
file behind it; each while the scheduler and the shutdown walk. One hash and one
file are enough there: a lock cycle needs one torrent and each of the tasks, not
several torrents. Deadlock is checked in `safety` and `going_on`: the only states
without a step would be stuck tasks, because an ended process stutters
explicitly (`Ended`). `safety` and `going_on` take an absolute directory, the
only one in which `RemovedIsFound` holds and `WatcherKeepsUp` says something of
start-up torrents; `relative_dir` takes a relative one, and the theorems any.
`interrupt`, which has an HTTP tracker and a renewer,
disables the check: there the program really can stop (see below). The symmetry
of `safety` permutes hashes and files, which no operator orders; the run has no
liveness property.

### Fairness

`FairSpec` has weak fairness for each of the four tasks (main, watcher, Ctrl+C,
renewer) while the process runs: tokio polls a task whose future can make
progress, HTTP requests time out after 60 s and UDP ones after 15 s each, and
sleeps end. Weak fairness per task is enough because a guard, once granted,
stays granted. The user and Ctrl+C are not fair: nothing obliges anybody to
touch the directory or to press a key.

`FairSpec` of `Scheduler` has weak fairness for the steps of the scheduler and
strong fairness for `Tick`. Strong, because a scheduler that spins (see
`SpinsOnlyIfStartFailed`) would otherwise starve time itself: each of its steps
takes a little, so that only finitely many fit in a second. The watcher is not
fair. `FairSpec` of `Startup` has weak fairness for the one task there is.

### What the violations show

* `interrupt`: `announce()` holds a read guard of `CLIENT` (tracker.rs:137) and
  `build_url` asks for another (tracker.rs:372). A key renewal that asks for
  the write guard in between (main.rs:30) queues behind the first and in front
  of the second. Nobody moves again, Ctrl+C included. It needs an HTTP tracker
  and a client with a key interval; `going_on` shows that with UDP trackers all
  goes on, the renewer included.
* `exit_event`: after `announce_stopped` has given the list back, or for a
  torrent pushed then, the watcher may still list and start a torrent before
  `exit(0)`.
* `forgetting`: a file deleted within the settle delay makes `from_file` panic,
  which ends the watcher task for the rest of the run.
* `relative_dir`: a torrent loaded at start is listed under the path `read_dir`
  gives, relative when `torrent_dir` is, and removals name absolute paths
  (watcher.rs:179). It is never found, and announced on without its file.
* `after_stopped`: the scheduler runs on while `announce_stopped` walks the list
  (main.rs:137), and announces a torrent that has been told STOPPED. It may do so
  too between the goodbye of a removed torrent and its removal (watcher.rs:209).
* `oversleeping`: a torrent whose announce failed stays due, so that the least
  remaining time is 0 and the scheduler sleeps the wait time of start-up instead
  (scheduler.rs:38), however much sooner another torrent is due.

The models show more that the documentation does not lead one to expect; these
have no run:

* Only `announce_udp` adds to `uploaded` (udp.rs:323); what `announce_http`
  reports is in no total. `UdpTotalIsExact` is about the other torrents.
* `should_announce` does not look at `min_interval` (torrent.rs:97), although
  torrent.rs:85 says that clients must not call more frequently.
* `fastrand::u32(min..max)` panics on an empty range; equal rates pass `speeds_ok`
  and its test (config.rs:207), and the first torrent with leechers then ends the
  task that announces (`AnnouncePanics`).
* Without a `torrent_dir` the program works in its working directory
  (config.rs:42), where `src/README.md`:68 says "Will load torrent from
  `XDG_CONFIG_DIR` by default". `LoadedAsWritten` has the default of the code.
* A metainfo file nested deep enough ends the process at start, and so does such an
  answer of an HTTP tracker (`OverflowStack`, `HttpPanics`).
* After a rename the list keeps a path that is no more. When another torrent is
  then written to that path, two entries have it; when it is deleted,
  `handle_file_removed` takes the first of them (watcher.rs:197), and the second
  is announced on. `WatcherKeepsUp` excepts such files by `missed`.
* Of two files with one hash the second is refused, and not thought of again
  when the first is deleted (watcher.rs:133).
* A maximum rate that is no number ends the loading before the swap of
  config.rs:163; a minimum above the default maximum then stays above it, and no
  torrent ever uploads (`DisorderNeedsBadMax` says that this is the only way).
  A `use_pid_file` that is no boolean costs the keys after it too.
* `load_torrents` counts in a `u16`: with 65536 torrents a release build finds
  none (`ListsTheDirectory`).
* The info hash is that of the dictionary encoded anew. It is the hash of the
  file's bytes when those are as encoders write them (`HashIsOfTheFile`); a file
  whose keys are out of order, or that writes a number as `+1` or `01`, is
  announced under another hash.
* An `info` with a `files` list that is empty has length 0, whatever `length`
  says (torrent.rs:302).
* A pushed torrent has interval 0, and the scheduler may announce it, with no
  event, before the watcher's own STARTED (watcher.rs:150), although
  tracker.rs:32 wants STARTED in the first request.
* A file that takes more than half a second to write is skipped, and the Modify
  events that follow are dropped (watcher.rs:67). `CompleteFileIsListed` is
  about the others.
* A torrent has one `interval` for all its trackers; the last answer wins, and
  the others may be called early. `TrackerIntervalKept` is therefore checked and
  proved for a torrent with one tracker.
* When nobody leeches `uploaded()` returns 0, which nobody reads, and the speed
  drawn before is reported on (torrent.rs:110).
* Two transaction ids are equal when made a second less a nanosecond apart
  (udp.rs:231). `SuccessIsOwn` holds nevertheless, because each announce has its
  socket.

## Proofs

TLAPS checks, for every set of hashes, every finite set of files, any trackers
and either configuration (the assumptions `TorrentAssumption`,
`DirectoryAssumption`, `ConfigAssumption` of `RatioUp`), and for relative and
absolute directories alike (`SourceAssumption`: what `read_dir` calls a file is
the path that events name, or one that they never do):

| Theorem | States |
|---|---|
| `InvHolds` | `Spec => []Inv` |
| `TypeCorrect` | `Spec => []TypeOK` |
| `OnlyOneDeadlock` | `Spec => []OnlyRenewalsDeadlock` |
| `NoDeadlockOtherwise` | `Spec => []NobodyStuck`, if no key is renewed or all trackers are UDP |
| `LifecycleImplemented` | `Spec => ImplementsLifecycle` |
| `NoHashTwice` | `Spec => []UniqueHashes` |
| `RetainFindsAllFree` | `Spec => []RetainLocksAll` |
| `OneAnnouncer` | `Spec => []OneAnnouncerEach` |
| `ListStaysInWalks` | `Spec => WalkSeesOneList` |
| `GoodbyesAreSaid` | `Spec => []GoodbyesSoFar` |
| `RemovalFollowsGoodbye` | `Spec => RemovedAfterStopped` |
| `ListFollowsDirectory` | `Spec => []QuietListIsPresent` |
| `AbsoluteRemovals` | `Spec => []RemovedIsFound`, if `torrent_dir` is absolute (`SourcePath[f] = f`) |

For any trackers, rates, answers, clocks and networks (`RatesAssumption`,
`AnswersAssumption`, `UdpAssumption`):

| Theorem | States |
|---|---|
| `TorrentTypeCorrect`, `UdpTypeCorrect` | `Spec => []TypeOK`, of `Torrent` and of `UdpTracker` |
| `LedgerHolds` | `Spec => []LedgerInv` |
| `CreditStaysWithinRate` | `Spec => []CreditWithinRate` |
| `TotalStaysBacked` | `Spec => []TotalIsBacked` |
| `UdpTotalStaysExact` | `Spec => []UdpTotalIsExact` |
| `OnlyTrackerIntervalKept` | `Spec => TrackerIntervalKept` |
| `UdpInvHolds`, `SuccessStaysOwn` | `Spec => []UdpInv`, `Spec => []SuccessIsOwn` |
| `UdpImplementsRequest` | `Spec => ImplementsRequest` |

For any finite number of torrents, any intervals, width, jitter and slowness
(`SchedulerAssumption`), in `SchedulerProofs`:

| Theorem | States |
|---|---|
| `TypeCorrect` | `Spec => []TypeOK` |
| `WakingInTime` | `Spec => []WakesInTime` |
| `SpinningOnlyIfStartFailed` | `Spec => SpinsOnlyIfStartFailed` |

And for any files, configurations, command lines and widths (`ConfigAssumption`
of `Config`, `WidthAssumption`, `TotalAssumption`, `InputsAssumption`;
`DepthAssumption` of `Bencode`: the stack has some depth; `OrderAssumption` of
`Encoder`: the bytes have an order), whatever `Parsed`, `Sha1` and `Garbage`
are, in `StartupProofs`:

| Theorem | States |
|---|---|
| `TypeCorrect` | `Spec => []TypeOK` |
| `RatesInOrder` | `Spec => []DisorderNeedsBadMax` |
| `LoadingAsWritten` | `Spec => []LoadedAsWritten` |
| `DecodingInBounds` | `Spec => []DecoderInBounds` |
| `DecodingAdvances` | `Spec => DecoderAdvances` |
| `DecodesBencode` | `Spec => []DecodesTheGrammar` |
| `ParsedRight` | `Spec => []ParsedAsDescribed` |
| `HashedAsWritten` | `Spec => []HashIsOfTheFile` |
| `UrlsStayClean` | `Spec => []UrlsClean` |
| `ListedOnce` | `Spec => []NoTorrentTwice` |
| `DirectoryListed` | `Spec => []ListsTheDirectory` |

`HashedAsWritten` rests on a theorem of `BencodeProofs` about the encoder alone, for
any bytes `s`: `EncodedAsRead`, `v \in Values(s, TRUE) => Encode(v) = s`.

Two of these assumptions are about the machine: a file has fewer bytes than a
`usize` counts (it is read into a `Vec`), and `I64 <= U64` (a length that is not
negative fits in a `u64`).

The ledger. `CreditWithinRate` is not inductive: whether a success stays within
the rate depends on the request it answers. `LedgerInv` adds that the request
under way reports at most the rate times the time since the last success (which
grows with the clock while the request waits), and that its bytes are told but
not yet credited. A success moves them to `credited` and `lastAnnounce` to now,
and the two products add up. The two properties with a condition are those whose
general form fails: `UdpTotalIsExact` with an HTTP tracker (`HttpSucceeds` adds nothing),
and `TrackerIntervalKept` with several trackers, whose last answer sets the
interval for all.

The exchange. `UdpInv` says that announces are answered only when taken and that
requests come from exchanges that have begun; then a success, whose datagram was
sent to this exchange's socket, was taken. The refinement maps `taken` to "this
exchange is counted": a new exchange cannot be, because `counted` is within
`1..exchange`.

The scheduler. That the least time it computes, which is what it sleeps unless it
falls back, is no longer than until the first torrent is due follows from what a
turn keeps: `least` is at most what is left of the interval
of each torrent in `seen`, plus the seconds since it was looked at, which are
part of `turn`; a tick takes one from the first and adds one to the second. A
torrent announced by the watcher meanwhile is no longer `seen`. When the least
time is 0 the sleep is the wait time of start-up, whatever the torrents have left;
that this keeps nobody waiting is false (`SleepsToTheFirst`).

The start. The loading of the configuration is proved from how far it has come
(`Loading`): the keys before `key` have the file's value or the default, and no
strict one among them was bad. That the decoder stays in bounds and advances is
proved from the bytes that its frames have cost (`DecoderInv`): each frame has
consumed one, so that the recursion is no deeper than the file is long (nor than
the stack, or the process is ended), and every
step moves the position or is the last. `UrlsInv` and the test of `ListTorrent`
give `UrlsClean` and `NoTorrentTwice`.

The decoder against the grammar (`BencodeProofs`). `DecodesTheGrammar` speaks of
the end of a decoding only. The invariant behind it, `Faithful`, says of every
moment that the readings of the whole of the bytes are those that the decoder can
still come to (`Remains`). With a stack that is: some bytes from the position on
end the frame on top (`Ends`: the rest of its list or dictionary, or first the
value for the key at hand), what the frame has come to is added to the one below
it, some more bytes end that one, and so on down to the caller (`Leads`,
`Stands`). Every step keeps these readings (`Keeps`), with a lemma per kind of
step; an error or a panic comes only where none are left, and of a
decoding that the stack ends nothing is claimed. This takes that a
reading is unambiguous: from one position a value, a key, or the rest of a loop
ends in one place and is one thing. It also takes that `Meaning` is well defined,
as what a word means depends on words of lesser `Size` only. At the end of a
decoding the reading that is left is the value and the position.

The encoder (also `BencodeProofs`). The hash is not taken of the file's bytes but
of the decoded `info` encoded anew; that this makes no difference for a file
written by the rules is `HashIsOfTheFile`. The rules are the strict reading of
`Grammar`: no sign `+`, no leading zero, keys in their order. A numeral read by
them is the one that `to_string` writes (`NumeralBack`), and a walk through keys
in their order is the only one there is (`InOrder`; `Before` goes one way). So,
by induction on the length of the bytes, the items of a list and the entries of a
dictionary are written as they stand (`ListWritten`, `DictWritten`), and a value is
written back when what is inside it is (`WrittenBack`). `Encode` descends by
levels: the text of a value is made of the texts one level deeper. What the
strict reading says of each level solves these equations, and as a value has at
most one strict text (`OneText`) nothing else does; this is `EncodedAsRead`. A
strict reading is a reading (`StrictIsLoose`), so by `Faithful` it is what
the decoder came to, and `EntryInFile` finds the bytes of the entry `info` in the
file. What the converse needs is under "What could come next".

The parser. `Sorting` says of the URLs that the value names that each is in a tier
still to be taken, or was UTF-8 and is among the trackers unless it is not
supported, and that nothing else is: when no tier is left this is the set that
`ParsedAsDescribed` asks for. `Adding` says that the length so far is the sum of
the lengths of the files gone past, up to the width of a `u64`, which one more
wrapped addition keeps. That the fields are what they are taken for (a list is a
sequence, a number within an `i64`) holds of every part of a value that was read
from bytes (`Proper`, `PartsAreProper`). `ParserInv` joins these, and says that
an error after a decoding is one that `WellFormed` excludes.

The list. `ListInv` says that the hashes listed are those of the torrents that the
files dealt with describe, in whatever order `read_dir` gave them; that there are
as many entries as hashes; and that `count` is their number up to the width of a
`u16`. A file that is rejected describes no torrent, by `ParsedRight`'s invariant
and the decoder's, or one that is listed. When no file is left, this is
`ListsTheDirectory`.

The argument for `RatioUp`. None of its properties is inductive: that a removal
finds every torrent free depends on who holds the list, and that a hash is not
pushed twice depends on what the watcher saw in an earlier walk. `Inv` adds what
is missing:

1. `TasksOK`: which task can be at which place. Before `main` spawns them the
   watcher and the Ctrl+C task do nothing; only the watcher writes.
2. `ListLockOK`: a task has asked for the list exactly when its place says so,
   and inside a walk the guard is granted. With `Ordered` (of two requests one
   waits for the other exactly when they conflict, and there is no circle of
   waiting in one lock), a granted write guard is alone (`GrantedWriteIsAlone`):
   under it nobody is in a walk (`WriterIsAlone`).
3. `TorrentLocksOK`: a task has asked for the mutex of the torrent it is at and
   for no other, and announces only under the granted mutex. With 2, all
   mutexes are free when the list changes (`WriterFindsAllFree`), so that the
   indices may move. `ClientLockOK` says the same of the two guards of `CLIENT`
   that one task may have, and that the second is asked for with an HTTP tracker
   only.
4. `DedupOK`: the prefix of the list already searched does not have the new
   hash, and this stays so from the end of the search to the push, because only
   the watcher pushes.
5. `UniqueHashes` itself.
6. `PartingOK`: the walk of a removal either has not met the torrent or has told
   its trackers, and from its end to the removal the torrent has been told or is
   not there. A scheduler turn in between may announce it again, but takes
   nothing back from `said` (that it puts the client back into the swarm is run
   `after_stopped`). With 4's argument and "only what has the hash goes"
   (`OnlyWantedGo`) this is `RemovedAfterStopped`.
7. `GoodbyesOK`: `GoodbyesSoFar`, and that the shutdown waits for an answer only
   when it has sent the STOPPED it waits for. The list stands still meanwhile, by 2.
   `SaidOK`: only of listed torrents has anything been said, and what is waited
   for is an answer to something said. `StartedOK`: the torrents that the walks
   of `main` and of the watcher are yet to start have not been.
8. `EventsOK`: additions and removals of a file take turns in the queue, where a
   file that is listed, or about to be, counts as added before all events; and
   a file that is gone has a removal behind its last addition. This is what
   keeps an addition from being handled while an older entry has the path.
9. `PresentOK`: each entry is the content of its file, unless its removal is
   reported or under way; so is the torrent about to be pushed. No path is
   listed twice.
10. `FindingOK`: the search for a removed path has found its entry, or no entry
    has it; so that the removal by hash takes the right torrent out.

Parts 8 and 9 except what is `Untracked`: the files in `missed` (see the rename
above), and the paths that events do not name, under which the start-up torrents
of a relative directory are listed; they hold for neither. Part 10 is about the
path that the event names; where the directory is absolute every torrent is
listed under such a path, and it comes to `RemovedIsFound` (`AbsoluteRemovals`).
When the queue is empty and the watcher idle, what is left of `PresentOK` is
`QuietListIsPresent`.

`InitInv` and `InvStep` show that `Inv` is inductive; each part has a lemma per
step, and lemmas for the common shapes of a step (`ListLockFrame`,
`TorrentLocksDrop`, ...). TLC checks `Inv` too, in `going_on`.

Deadlock. `Stuck(S)` says that each task of `S` waits for one of `S`. Take such a
set without the circle of run `interrupt`. Readers of `CLIENT` wait for the
renewer only, and the renewer for those who read it (`ReadersAwaitRenewer`,
`RenewerAwaitsReaders`); a reader that waits for the renewer in turn, at its first
read, would be a circle in one lock, which `Ordered` excludes. So nobody in the
set waits for `CLIENT`. Whoever waits for a torrent waits for tasks at that torrent
(`AwaitedAtTorrent`); those of them that are in the set all wait for its mutex, and
the first of them waits for none of the others. So all wait for the list, and
again one of them is the first. Hence the only deadlock is a key renewal between
the two reads of an announce to an HTTP tracker (`OnlyOneDeadlock`), and without a
renewal or without HTTP trackers there is none (`NoDeadlockOtherwise`).

The lifecycle. In the refinement `listed` is the hashes of the list, `doing` the
announces under way with their events, `told` is `said`. `Announce` begins one:
by `TorrentLocksOK` no other task announces that torrent, and by
`StartedOK` a STARTED is the first. `Call` says, `LastUrl` ends: by `SaidOK`
something was said. The list changes only under a write guard, when no announce
is under way (2), and by 6 only after a goodbye. Every other step stutters.

Only model-checked: the liveness properties (`InterruptExits`, `SchedulerGoesOn`,
`KeyIsRenewed`, `WatcherKeepsUp`, `CompleteFileIsListed`, `DueIsAnnounced`,
`StartEnds`): temporal reasoning with fairness and ENABLED is out of the prover's
reach. Every other property of a passing run is a theorem.

Induction. The library's induction theorems have an operator as parameter and
cannot be used here. Where a proof is by induction, on the length of some bytes,
the number of frames or of files, it takes a least counterexample instead:
`LeastNat`, from the fact that `<` on the naturals is well-founded.

## Not modelled

* Formatting of byte counts, percent encoding, the SHA-1 library, the text of
  the HTTP query, the layout of the packets, the log, `to_json`: no state, or a
  text that no property is about.
* `www/`, a static page that reads the statistics file, and what it sees while
  that file is overwritten in place (json_output.rs:64): outside the process.
* `init_client` chooses a client and its constants; whether that client renews
  its key is `KeyRefresh`.
* That the shutdown removes the PID file; nothing reads it.
* Resolving the host of a UDP tracker: one of the failures of `UdpFails`.

## What could come next

The order so far: locks and walks first, then the counters, the exchange, the
scheduler, the start, the list as it follows the directory, and last deadlocks,
the lifecycle of a torrent, the decoder against its grammar, and the encoder. Still
open: that what the encoder writes is a strict text of the value it was given
(the converse of `EncodedAsRead`), so that different dictionaries are hashed from
different bytes, for which the order of bytes must be taken to have all of them,
and a sorted enumeration of the keys be shown to exist; the directory
as an abstract specification (the set of listed torrents) that `RatioUp`
implements between two events of the watcher; and the converse of
`QuietListIsPresent`, that a complete file is listed, which needs the delay of
the watcher as time.
