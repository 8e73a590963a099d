------------------------------ MODULE RatioUp ------------------------------
(***************************************************************************)
(* The running program: main() with load_torrents, the startup announce     *)
(* and the scheduler loop; the task that waits for Ctrl+C; the task that    *)
(* renews the key of the client; and the watcher of module Watcher.         *)
(***************************************************************************)
EXTENDS Watcher

CONSTANTS
    KeyRefresh,   \* init_client returned an interval: the renewer is spawned
    OutputStats,  \* output_stats is configured: the scheduler writes it
    SourcePath    \* SourcePath[f] is what read_dir calls the file f at the start

ASSUME ConfigAssumption == KeyRefresh \in BOOLEAN /\ OutputStats \in BOOLEAN

\* read_dir puts torrent_dir, as it is configured, before the name of the file;
\* the notify library reports absolute paths, and a File is such a path.  The two
\* are one path when torrent_dir is absolute; a relative one, as the default ".",
\* gives the start-up torrents paths that no event ever has.
ASSUME SourceAssumption ==
    \A f \in File : SourcePath[f] = f \/ SourcePath[f] \notin File

Path == File \cup {SourcePath[f] : f \in File}

VARIABLE process  \* "running", or how the process ended

vars == <<announcerVars, watcherVars, process>>

TypeOK ==
    /\ list \in Seq([hash : Hash, file : Path])
    /\ mutex \in Seq(Lock(Task))
    /\ torrents \in Lock(Task)
    /\ client \in Lock(ClientGuard)
    /\ at \in [Task -> Place]
    /\ phase \in [Task -> Phase]
    /\ pos \in [Task -> Nat]
    /\ url \in [Task -> Nat]
    /\ found \in [Task -> BOOLEAN]
    /\ wanted \in [hash : Hash, file : File]
    /\ said \in [Hash -> SUBSET Event]
    /\ dir \in [File -> Content]
    /\ events \in Seq(FsEvent)
    /\ changes \in Nat
    /\ missed \in SUBSET File
    /\ process \in {"running", "graceful", "killed", "no torrent"}

Init ==
    /\ list = <<>> /\ mutex = <<>>
    /\ torrents = Unlocked(Task)
    /\ client = Unlocked(ClientGuard)
    /\ at = [p \in Task |-> CASE p = "main" -> "load"
                              [] p = "renewer" /\ KeyRefresh -> "idle"
                              [] OTHER -> "unborn"]
    /\ phase = [p \in Task |-> "starting"]
    /\ pos = [p \in Task |-> 0]
    /\ url = [p \in Task |-> 0]
    /\ found = [p \in Task |-> FALSE]
    /\ wanted \in [hash : Hash, file : File]   \* set before any use
    /\ said = [h \in Hash |-> {}]
    /\ dir \in [File -> Content]
    /\ events = <<>> /\ changes = 0 /\ missed = {}
    /\ process = "running"

-----------------------------------------------------------------------------
\* load_torrents(): files in the order of read_dir, which is any order, listed
\* under the path that read_dir gives them; one that does not parse or has the
\* hash of an earlier one is left out.  Nothing
\* else asks for TORRENTS yet.  main() returns when there is no torrent.
LoadTorrents ==
    /\ at["main"] = "load"
    /\ \E size \in 0 .. Cardinality(File) :
       \E order \in [1 .. size -> {f \in File : dir[f] \in Hash}] :
          /\ \A m, n \in 1 .. size : dir[order[m]] = dir[order[n]] => m = n
          /\ {dir[order[n]] : n \in 1 .. size} = {dir[f] : f \in File} \cap Hash
          /\ list' = [n \in 1 .. size |->
                         [hash |-> dir[order[n]], file |-> SourcePath[order[n]]]]
          /\ mutex' = [n \in 1 .. size |-> Unlocked(Task)]
          /\ process' = IF size = 0 THEN "no torrent" ELSE process
    /\ GoTo("main", "open")
    /\ UNCHANGED <<torrents, client, phase, pos, url, found, wanted, said,
                   watcherVars>>

\* After announce_started(): spawn the watcher and the Ctrl+C task, and go on
\* to the scheduler.
SpawnTasks ==
    /\ at["main"] = "done" /\ phase["main"] = "starting"
    /\ at' = [at EXCEPT !["main"] = "open", !["watcher"] = "spawned",
                        !["signal"] = "idle"]
    /\ phase' = [phase EXCEPT !["main"] = "scheduling"]
    /\ UNCHANGED <<list, mutex, torrents, client, pos, url, found, wanted, said,
                   watcherVars, process>>

\* After a turn of the scheduler: write the stats if configured, then sleep.
AfterTurn ==
    /\ at["main"] = "done" /\ phase["main"] # "starting"
    /\ \/ /\ phase["main"] = "scheduling" /\ OutputStats
          /\ phase' = [phase EXCEPT !["main"] = "stats"]
          /\ GoTo("main", "ask")
       \/ /\ phase["main"] = "stats" \/ ~OutputStats
          /\ GoTo("main", "sleep")
          /\ UNCHANGED phase
    /\ UNCHANGED <<list, mutex, torrents, client, pos, url, found, wanted, said,
                   watcherVars, process>>

WakeUp ==
    /\ at["main"] = "sleep"
    /\ phase' = [phase EXCEPT !["main"] = "scheduling"]
    /\ GoTo("main", "open")
    /\ UNCHANGED <<list, mutex, torrents, client, pos, url, found, wanted, said,
                   watcherVars, process>>

MainStep ==
    \/ Walk("main") /\ UNCHANGED <<watcherVars, process>>
    \/ LoadTorrents \/ SpawnTasks \/ AfterTurn \/ WakeUp

-----------------------------------------------------------------------------
\* Ctrl+C wakes the task that waits for it; before that task is spawned the
\* default action of the signal kills the process.
Interrupt ==
    \/ /\ at["signal"] = "idle"
       /\ phase' = [phase EXCEPT !["signal"] = "stopping"]
       /\ GoTo("signal", "open")
       /\ UNCHANGED <<list, mutex, torrents, client, pos, url, found, wanted,
                      said, watcherVars, process>>
    \/ /\ at["signal"] = "unborn"
       /\ process' = "killed"
       /\ UNCHANGED <<announcerVars, watcherVars>>

\* After announce_stopped(): remove the PID file and exit(0).
Exit ==
    /\ at["signal"] = "done"
    /\ process' = "graceful"
    /\ UNCHANGED <<announcerVars, watcherVars>>

SignalStep ==
    \/ Walk("signal") /\ UNCHANGED <<watcherVars, process>>
    \/ Exit

-----------------------------------------------------------------------------
\* run_key_renewer(): `CLIENT.write().await`, generate_key(), sleep.
AskToRenew ==
    /\ at["renewer"] = "idle"
    /\ client' = AskWrite(client, Outer("renewer"))
    /\ GoTo("renewer", "renew")

RenewKey ==
    /\ at["renewer"] = "renew" /\ Granted(client, Outer("renewer"))
    /\ client' = Drop(client, Outer("renewer"))
    /\ GoTo("renewer", "idle")

RenewerStep ==
    /\ AskToRenew \/ RenewKey
    /\ UNCHANGED <<list, mutex, torrents, phase, pos, url, found, wanted, said,
                   watcherVars, process>>

-----------------------------------------------------------------------------
Next ==
    /\ process = "running"
    /\ \/ MainStep
       \/ WatcherStep /\ UNCHANGED process
       \/ SignalStep
       \/ RenewerStep
       \/ Interrupt
       \/ User /\ UNCHANGED process

\* The process has ended; nothing happens any more.
Ended == process # "running" /\ UNCHANGED vars

\* tokio polls every task that can go on; requests end by an answer or by
\* their timeout, and sleeps end.  Nothing obliges the user to do anything.
Fairness ==
    /\ WF_vars(process = "running" /\ MainStep)
    /\ WF_vars(process = "running" /\ WatcherStep /\ UNCHANGED process)
    /\ WF_vars(process = "running" /\ SignalStep)
    /\ WF_vars(process = "running" /\ RenewerStep)

Spec == Init /\ [][Next \/ Ended]_vars

FairSpec == Spec /\ Fairness

-----------------------------------------------------------------------------
InWalk == {"next", "torrent", "client", "key", "answer"}

InAnnounce == {"client", "key", "answer"}

\* handle_file_removed filters the list with try_lock and keeps a torrent whose
\* mutex is taken, "shouldn't happen" (watcher.rs:223): once the write guard is
\* granted no task holds, or waits for, the mutex of any torrent.
RetainLocksAll ==
    at[W] = "retain" /\ Granted(torrents, W) => \A i \in DOMAIN list : ~Locked(i)

\* No two torrents of the list have the same info hash, although the watcher
\* looks for a duplicate under a read guard and pushes under a later write
\* guard (watcher.rs:127-146).
UniqueHashes ==
    \A i, j \in DOMAIN list : list[i].hash = list[j].hash => i = j

\* A torrent is announced by one task at a time: the scheduler, the watcher and
\* the shutdown do not talk to the trackers of a torrent at once.
OneAnnouncerEach ==
    \A p, q \in Task :
        /\ at[p] \in InAnnounce /\ at[q] \in InAnnounce
        /\ list[pos[p]].hash = list[pos[q]].hash
        => p = q

\* The tasks that p, by its place, waits for: those whose guards it is behind.
Owners(guards) == {t \in Task : Outer(t) \in guards \/ Inner(t) \in guards}

Awaits(p) ==
    CASE at[p] \in {"list", "push", "retain"}   -> torrents.behind[p]
      [] at[p] = "torrent"                      -> mutex[pos[p]].behind[p]
      [] at[p] \in {"peek", "client", "renew"}  -> Owners(client.behind[Outer(p)])
      [] at[p] = "key"                          -> Owners(client.behind[Inner(p)])
      [] OTHER                                  -> {}

\* These tasks wait for each other, and none of them will ever go on.
Stuck(S) == S # {} /\ \A p \in S : Awaits(p) \cap S # {}

NobodyStuck == \A S \in SUBSET Task : ~Stuck(S)

\* Three locks are taken one inside the other by four tasks, one of them twice.
\* The only way for tasks to wait for each other in a circle is that of run
\* interrupt: a key renewal between the two reads of CLIENT in one announce
\* (tracker.rs:137 and :372).
OnlyRenewalsDeadlock ==
    \A S \in SUBSET Task :
        Stuck(S) => "renewer" \in S /\ \E p \in S : at[p] = "key"

\* Whatever comes and goes beside it, announce_stopped has told the trackers of
\* every listed torrent it has gone past STOPPED.  It need not be the last they
\* are told: see NothingAfterStopped.
GoodbyesSoFar ==
    phase["signal"] = "stopping" /\ at["signal"] \in InWalk
        => \A i \in DOMAIN list :
              i < pos["signal"] => "stopped" \in said[list[i].hash]

\* When the watcher has nothing left to handle, a torrent that is listed under a
\* path events may name still has its file, with that content, unless the file
\* changed without an event.  A start-up torrent of a relative directory has no
\* such path: see RemovedIsFound.
QuietListIsPresent ==
    at[W] = "idle" /\ events = <<>> =>
        \A i \in DOMAIN list :
            list[i].file \in File \ missed => dir[list[i].file] = list[i].hash

\* While a task walks the list no torrent is added, removed or moved: the index
\* it works with stays good across its awaits.
WalkSeesOneList ==
    [][(\E p \in Task : at[p] \in InWalk) => UNCHANGED list]_vars

\* A torrent leaves the list only after its trackers were told STOPPED
\* (watcher.rs:203 "Announce STOPPED before removing").
RemovedAfterStopped ==
    [][\A i \in DOMAIN list :
          \/ at["main"] = "load"
          \/ \E j \in DOMAIN list' : list'[j].hash = list[i].hash
          \/ "stopped" \in said[list[i].hash]]_vars

\* The list, the announces under way and what was said are a lifecycle of
\* torrents, as if there were one task: none is announced twice at a time, or
\* started twice, or removed without a goodbye.
Listed == {list[i].hash : i \in DOMAIN list}
Doing  == {<<list[pos[p]].hash, EventOf(p)>> : p \in {q \in Task : at[q] \in InAnnounce}}

Promised == INSTANCE Lifecycle WITH listed <- Listed, doing <- Doing, told <- said

ImplementsLifecycle == Promised!Spec

\* "Must be sent to tracker if the client is shutting down gracefully"
\* (tracker.rs:37): at a graceful exit every torrent that was announced as
\* started has been announced as stopped.
ExitSaysStopped ==
    process = "graceful" =>
        \A i \in DOMAIN list :
            said[list[i].hash] # {} => "stopped" \in said[list[i].hash]

\* STOPPED "must be sent to tracker if the client is shutting down gracefully"
\* (tracker.rs:37): it takes the client out of the swarm, and no other event is
\* announced behind it, which would put the client back.
NothingAfterStopped ==
    \A p \in Task :
        at[p] = "answer" /\ "stopped" \in said[list[pos[p]].hash] => EventOf(p) = "stopped"

\* "graceful exit when Ctrl + C / SIGINT" (main.rs:134): once the task of
\* Ctrl+C is awake, the process exits.
InterruptExits ==
    at["signal"] \notin {"unborn", "idle"} ~> process # "running"

\* The scheduler never stops taking turns: every sleep is followed by another,
\* however the watcher, the renewer and the shutdown compete for the locks.
SchedulerGoesOn ==
    []<>(at["main"] = "sleep" \/ process # "running")

Reported(f) == \E n \in DOMAIN events : events[n] = [kind |-> "removed", file |-> f]

\* No torrent is listed as that of the file f, by either of its paths.
Forgotten(f) == \A i \in DOMAIN list : list[i].file \notin {f, SourcePath[f]}

\* "Start file watcher for dynamic torrent management" (main.rs:127): a torrent
\* whose file is reported as removed leaves the list.
RemovedIsForgotten ==
    \A f \in File : Reported(f) ~> Forgotten(f) \/ process # "running"

\* In an absolute torrent_dir the only things that keep the watcher from it are a
\* panic of its task and a change it was not told of, after which two torrents may
\* have one path: the scheduler and the shutdown, which hold the list for whole
\* rounds of slow announces, do not.  For a relative one see RemovedIsFound.
WatcherKeepsUp ==
    \A f \in File :
        Reported(f) ~> \/ Forgotten(f) \/ process # "running"
                       \/ at[W] = "panicked" \/ f \in missed
                       \/ SourcePath[f] # f

\* "First try to match by source path (most reliable)" (watcher.rs:178): a search
\* that ends without a torrent leaves none listed for the removed file.  This holds
\* in an absolute torrent_dir; in a relative one read_dir() and notify call one
\* file by two paths.
RemovedIsFound ==
    at[W] = "done" /\ phase[W] = "finding" /\ ~found[W] => Forgotten(wanted.file)

\* "Small delay to ensure file is fully written" (watcher.rs:93): a new file that
\* is complete within the delay, and stays so, gets its torrent listed, however
\* long the scheduler holds the list for its rounds.
CompleteFileIsListed ==
    \A f \in File, h \in Hash :
        at[W] = "settle" /\ wanted.file = f /\ dir[f] = h
            ~> \/ \E i \in DOMAIN list : list[i].hash = h
               \/ dir[f] # h
               \/ process # "running"

\* A key renewal that waits for the CLIENT lock gets it: announces of other
\* tasks do not starve the writer.
KeyIsRenewed ==
    at["renewer"] = "renew" ~> at["renewer"] = "idle" \/ process # "running"
=============================================================================
