----------------------------- MODULE Announcer -----------------------------
(***************************************************************************)
(* The statics of main.rs (TORRENTS and CLIENT, both behind tokio locks),  *)
(* and what every task does with them: walk the torrent list under a read   *)
(* lock, lock each torrent in turn, and announce some of them to their      *)
(* trackers (announcer/tracker.rs).                                         *)
(*                                                                         *)
(* A step runs from one await of the code to the next, and makes at most    *)
(* one lock request, because tasks run on several threads.  What a torrent  *)
(* holds besides its hash, file and URLs is left to other modules: here an  *)
(* answer from a tracker only ends the wait for it.                         *)
(***************************************************************************)
EXTENDS Integers, Sequences, FiniteSets, FairLock

CONSTANTS
    Hash,        \* info hashes: the identity of a torrent
    File,        \* .torrent files in the watched directory, by absolute path
    Urls         \* Urls[h] is the sequence of tracker schemes of torrent h

Scheme == {"http", "udp"}

\* from_bencode_bytes refuses a torrent without a supported URL.
ASSUME TorrentAssumption ==
    /\ Hash # {} /\ File # {} /\ IsFiniteSet(File)
    /\ Urls \in [Hash -> Seq(Scheme)]
    /\ \A h \in Hash : Urls[h] # <<>>

\* The tasks of the tokio runtime.
Task == {"main", "watcher", "signal", "renewer"}

Event == {"started", "regular", "stopped"}

\* The walks over the list, named for why they are made.
Phase == {"starting",    \* announce_started
          "scheduling",  \* one turn of scheduler::run
          "stats",       \* json_output::write
          "stopping",    \* announce_stopped
          "dedup",       \* handle_file_added looks for the same hash
          "greeting",    \* handle_file_added announces the new torrent
          "finding",     \* handle_file_removed looks for the file
          "parting"}     \* handle_file_removed announces the torrent

VARIABLES
    list,      \* TORRENTS: sequence of [hash, file]
    mutex,     \* mutex[i] is the Mutex around list[i]
    torrents,  \* the RwLock of TORRENTS
    client,    \* the RwLock of CLIENT
    at,        \* where each task is
    phase,     \* the walk each task is in, or was in last
    pos,       \* index of the torrent a walk is at, 0 outside a walk
    url,       \* index of the URL an announce is at, 0 outside an announce
    found,     \* a walk met the torrent it looks for, and stops there
    wanted,    \* what the watcher looks for: [file, hash]
    said       \* history: the events announced per torrent since it was listed

announcerVars ==
    <<list, mutex, torrents, client, at, phase, pos, url, found, wanted, said>>

Place == {"unborn", "spawned", "load", "idle", "gone", "panicked", "sleep",
          "ask", "peek", "open", "list", "next", "torrent", "client", "key",
          "answer", "done", "settle", "push", "retain", "renew"}

\* announce() keeps one read guard of CLIENT while build_url takes another.
Outer(p) == <<p, "announce">>
Inner(p) == <<p, "build_url">>
ClientGuard == Task \X {"announce", "build_url"}

GoTo(p, place) == at' = [at EXCEPT ![p] = place]

-----------------------------------------------------------------------------
\* `if CLIENT.read().await.is_some()`, and the client name in the stats file:
\* a read guard dropped at once.
AskClient(p) ==
    /\ at[p] = "ask"
    /\ client' = AskRead(client, Outer(p))
    /\ GoTo(p, "peek")
    /\ UNCHANGED <<list, mutex, torrents, phase, pos, url, found, wanted, said>>

PeekClient(p) ==
    /\ at[p] = "peek" /\ Granted(client, Outer(p))
    /\ client' = Drop(client, Outer(p))
    /\ GoTo(p, "open")
    /\ UNCHANGED <<list, mutex, torrents, phase, pos, url, found, wanted, said>>

\* `TORRENTS.read().await`
OpenList(p) ==
    /\ at[p] = "open"
    /\ torrents' = AskRead(torrents, p)
    /\ GoTo(p, "list")
    /\ UNCHANGED <<list, mutex, client, phase, pos, url, found, wanted, said>>

\* Only the walk to announce a new torrent goes from the end of the list.
First(p) == IF phase[p] = "greeting" THEN Len(list) ELSE 1
Following(p) == IF phase[p] = "greeting" THEN pos[p] - 1 ELSE pos[p] + 1

BeginWalk(p) ==
    /\ at[p] = "list" /\ Granted(torrents, p)
    /\ pos' = [pos EXCEPT ![p] = First(p)]
    /\ found' = [found EXCEPT ![p] = FALSE]
    /\ GoTo(p, "next")
    /\ UNCHANGED <<list, mutex, torrents, client, phase, url, wanted, said>>

WalkIsOver(p) == found[p] \/ pos[p] \notin DOMAIN list

\* The next turn of the loop: lock the torrent ...
LockNext(p) ==
    /\ at[p] = "next" /\ ~WalkIsOver(p)
    /\ mutex' = [mutex EXCEPT ![pos[p]] = AskWrite(@, p)]
    /\ GoTo(p, "torrent")
    /\ UNCHANGED <<list, torrents, client, phase, pos, url, found, wanted, said>>

\* ... or leave the loop and drop the read guard of the list.
EndWalk(p) ==
    /\ at[p] = "next" /\ WalkIsOver(p)
    /\ torrents' = Drop(torrents, p)
    /\ pos' = [pos EXCEPT ![p] = 0]
    /\ GoTo(p, "done")
    /\ UNCHANGED <<list, mutex, client, phase, url, found, wanted, said>>

-----------------------------------------------------------------------------
\* Mutant: a duplicate is looked for by path.
MatchesPath(p, i) ==
    IF phase[p] \in {"dedup", "finding"} THEN list[i].file = wanted.file
    ELSE phase[p] \in {"greeting", "parting"} /\ list[i].hash = wanted.hash

\* Mutant: a removed file is looked for by the hash of the last torrent.
MatchesHash(p, i) ==
    /\ phase[p] \in {"dedup", "greeting", "parting", "finding"}
    /\ list[i].hash = wanted.hash

\* What the walk of p looks for is torrent i.
Matches(p, i) ==
    CASE phase[p] \in {"dedup", "greeting", "parting"} -> list[i].hash = wanted.hash
      [] phase[p] = "finding"                          -> list[i].file = wanted.file
      [] OTHER                                         -> FALSE

\* Whether the walk of p announces torrent i or passes it.  should_announce()
\* compares the clock with the interval of the torrent; time is free here, so a
\* turn of the scheduler may do either.
Announces(p, i) ==
    \/ phase[p] \in {"starting", "stopping", "scheduling"}
    \/ phase[p] \in {"greeting", "parting"} /\ Matches(p, i)

\* Mutant: the shutdown too leaves out the torrents that are not due.
PassesNotDue(p, i) ==
    \/ phase[p] \in {"stats", "dedup", "finding", "scheduling", "stopping"}
    \/ phase[p] \in {"greeting", "parting"} /\ ~Matches(p, i)

Passes(p, i) ==
    \/ phase[p] \in {"stats", "dedup", "finding", "scheduling"}
    \/ phase[p] \in {"greeting", "parting"} /\ ~Matches(p, i)

\* Mutant: a removed torrent is announced without an event.
EventOfKeptSilent(p) ==
    CASE phase[p] \in {"starting", "greeting"} -> "started"
      [] phase[p] = "stopping"                 -> "stopped"
      [] OTHER                                 -> "regular"

\* Mutant: the scheduler announces with the event of the start.
EventOfStarts(p) ==
    IF phase[p] \in {"stopping", "parting"} THEN "stopped" ELSE "started"

EventOf(p) ==
    CASE phase[p] \in {"starting", "greeting"} -> "started"
      [] phase[p] \in {"stopping", "parting"}  -> "stopped"
      [] OTHER                                 -> "regular"

\* The torrent mutex is granted and the torrent is not to be announced.
Pass(p) ==
    /\ at[p] = "torrent" /\ Granted(mutex[pos[p]], p)
    /\ Passes(p, pos[p])
    /\ found' = [found EXCEPT ![p] = Matches(p, pos[p])]
    /\ wanted' = IF phase[p] = "finding" /\ Matches(p, pos[p])
                 THEN [wanted EXCEPT !.hash = list[pos[p]].hash]
                 ELSE wanted
    /\ mutex' = [mutex EXCEPT ![pos[p]] = Drop(@, p)]
    /\ pos' = [pos EXCEPT ![p] = Following(p)]
    /\ GoTo(p, "next")
    /\ UNCHANGED <<list, torrents, client, phase, url, said>>

\* Mutant: the torrent is unlocked before its trackers are called.
AnnounceUnlocked(p) ==
    /\ at[p] = "torrent" /\ Granted(mutex[pos[p]], p)
    /\ Announces(p, pos[p])
    /\ found' = [found EXCEPT ![p] = Matches(p, pos[p])]
    /\ mutex' = [mutex EXCEPT ![pos[p]] = Drop(@, p)]
    /\ client' = AskRead(client, Outer(p))
    /\ GoTo(p, "client")
    /\ UNCHANGED <<list, torrents, phase, pos, url, wanted, said>>

\* announce(): the read guard of CLIENT it keeps until every URL is done.
Announce(p) ==
    /\ at[p] = "torrent" /\ Granted(mutex[pos[p]], p)
    /\ Announces(p, pos[p])
    /\ found' = [found EXCEPT ![p] = Matches(p, pos[p])]
    /\ client' = AskRead(client, Outer(p))
    /\ GoTo(p, "client")
    /\ UNCHANGED <<list, mutex, torrents, phase, pos, url, wanted, said>>

Send(p) ==
    /\ said' = [said EXCEPT ![list[pos[p]].hash] = @ \cup {EventOf(p)}]
    /\ GoTo(p, "answer")

\* announce_udp sends at once; announce_http first waits in build_url for a
\* second read guard of CLIENT.
CallTracker(p, u) ==
    /\ url' = [url EXCEPT ![p] = u]
    /\ \/ /\ Urls[list[pos[p]].hash][u] = "udp"
          /\ Send(p)
          /\ UNCHANGED client
       \/ /\ Urls[list[pos[p]].hash][u] = "http"
          /\ client' = AskRead(client, Inner(p))
          /\ GoTo(p, "key")
          /\ UNCHANGED said
    /\ UNCHANGED <<list, mutex, torrents, phase, pos, found, wanted>>

FirstUrl(p) ==
    /\ at[p] = "client" /\ Granted(client, Outer(p))
    /\ CallTracker(p, 1)

BuildUrl(p) ==
    /\ at[p] = "key" /\ Granted(client, Inner(p))
    /\ client' = Drop(client, Inner(p))
    /\ Send(p)
    /\ UNCHANGED <<list, mutex, torrents, phase, pos, url, found, wanted>>

\* The tracker answered, failed, or timed out: all of them end the wait.
NextUrl(p) ==
    /\ at[p] = "answer" /\ url[p] < Len(Urls[list[pos[p]].hash])
    /\ CallTracker(p, url[p] + 1)

\* Mutant: a goodbye no tracker takes is tried again.
LastUrlRetries(p) ==
    /\ at[p] = "answer" /\ url[p] = Len(Urls[list[pos[p]].hash])
    /\ client' = Drop(client, Outer(p))
    /\ mutex' = [mutex EXCEPT ![pos[p]] = Drop(@, p)]
    /\ url' = [url EXCEPT ![p] = 0]
    /\ \/ pos' = [pos EXCEPT ![p] = Following(p)]
       \/ phase[p] = "stopping" /\ UNCHANGED pos
    /\ GoTo(p, "next")
    /\ UNCHANGED <<list, torrents, phase, found, wanted, said>>

\* Mutant: the read guard of CLIENT outlives the announce.
LastUrlKeepsClient(p) ==
    /\ at[p] = "answer" /\ url[p] = Len(Urls[list[pos[p]].hash])
    /\ mutex' = [mutex EXCEPT ![pos[p]] = Drop(@, p)]
    /\ url' = [url EXCEPT ![p] = 0]
    /\ pos' = [pos EXCEPT ![p] = Following(p)]
    /\ GoTo(p, "next")
    /\ UNCHANGED <<list, torrents, client, phase, found, wanted, said>>

LastUrl(p) ==
    /\ at[p] = "answer" /\ url[p] = Len(Urls[list[pos[p]].hash])
    /\ client' = Drop(client, Outer(p))
    /\ mutex' = [mutex EXCEPT ![pos[p]] = Drop(@, p)]
    /\ url' = [url EXCEPT ![p] = 0]
    /\ pos' = [pos EXCEPT ![p] = Following(p)]
    /\ GoTo(p, "next")
    /\ UNCHANGED <<list, torrents, phase, found, wanted, said>>

Walk(p) ==
    \/ AskClient(p) \/ PeekClient(p)
    \/ OpenList(p) \/ BeginWalk(p) \/ LockNext(p) \/ EndWalk(p)
    \/ Pass(p) \/ Announce(p)
    \/ FirstUrl(p) \/ BuildUrl(p) \/ NextUrl(p) \/ LastUrl(p)
=============================================================================
