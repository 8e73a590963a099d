---------------------------- MODULE RatioUpInv ----------------------------
(***************************************************************************)
(* The inductive invariant behind the safety properties of RatioUp, in      *)
(* parts: the types, where each task can be, the lock of the list, those of *)
(* its torrents, that of the client, what the search for a duplicate knows, *)
(* whom the watcher and the shutdown have said goodbye to, and how the list *)
(* follows the directory through the events under way.                      *)
(***************************************************************************)
EXTENDS RatioUp

\* The places where a task has asked for the mutex of the torrent at pos.
AtTorrent == {"torrent"} \cup InAnnounce

\* The places where a task has asked for a guard of the list.
Reading == {"list"} \cup InWalk
Writing == {"push", "retain"}

\* The places of a task inside or around a walk over the list.
WalkPlace == {"ask", "peek", "open", "list", "done"} \cup InWalk

OnlyUdpTrackers == \A h \in Hash : \A u \in DOMAIN Urls[h] : Urls[h][u] = "udp"

\* Which task can be where, and in which walk.  Before main() spawns the
\* watcher and the Ctrl+C task nobody but main() and the renewer runs.
TasksOK ==
    /\ at["renewer"] \in IF KeyRefresh THEN {"idle", "renew"} ELSE {"unborn"}
    /\ \A p \in Task \ {"renewer"} : at[p] # "renew"
    /\ phase["main"] \in {"starting", "scheduling", "stats"}
    /\ phase["signal"] \in {"starting", "stopping"}
    /\ phase[W] \in {"starting", "dedup", "greeting", "finding", "parting"}
    /\ \A p \in Task \ {W} : at[p] \notin Writing
    /\ phase["main"] = "starting" => at[W] = "unborn" /\ at["signal"] = "unborn"
    /\ at["main"] = "load" => phase["main"] = "starting"
    /\ \A p \in Task : at[p] \in InAnnounce => phase[p] # "dedup"

\* A task has asked for the list exactly as its place says, and inside a walk
\* the read guard is granted.
ListLockOK ==
    /\ Ordered(torrents)
    /\ \A p \in Task :
          torrents.mode[p] = IF at[p] \in Reading THEN "read"
                             ELSE IF at[p] \in Writing THEN "write" ELSE "none"
    /\ \A p \in Task : at[p] \in InWalk => torrents.behind[p] = {}

\* There is a mutex per torrent; a task has asked for the one at its place in
\* the walk, and for no other; the announce is made under the granted mutex.
TorrentLocksOK ==
    /\ Len(mutex) = Len(list)
    /\ \A i \in DOMAIN mutex : Ordered(mutex[i])
    /\ \A i \in DOMAIN mutex : \A p \in Task :
          mutex[i].mode[p] = IF at[p] \in AtTorrent /\ pos[p] = i
                             THEN "write" ELSE "none"
    /\ \A p \in Task : at[p] \in AtTorrent => pos[p] \in DOMAIN list
    /\ \A p \in Task : at[p] \in InAnnounce => mutex[pos[p]].behind[p] = {}

\* A task has asked for CLIENT as its place says, and announces under the first
\* of its two guards.
ClientLockOK ==
    /\ Ordered(client)
    /\ \A p \in Task :
          client.mode[Outer(p)] = IF at[p] \in {"peek"} \cup InAnnounce THEN "read"
                                  ELSE IF at[p] = "renew" THEN "write" ELSE "none"
    /\ \A p \in Task :
          client.mode[Inner(p)] = IF at[p] = "key" THEN "read" ELSE "none"
    /\ \A p \in Task : at[p] \in {"key", "answer"} => client.behind[Outer(p)] = {}
    /\ \A p \in Task : at[p] = "key" => ~OnlyUdpTrackers

NotListedUpTo(n) ==
    \A i \in DOMAIN list : i < n => list[i].hash # wanted.hash

\* What the search for a duplicate has established stays true until the push.
DedupOK ==
    /\ at[W] \in InWalk /\ phase[W] = "dedup"
          => pos[W] >= 1 /\ (~found[W] => NotListedUpTo(pos[W]))
    /\ at[W] = "torrent" /\ phase[W] = "dedup" => ~found[W]
    /\ at[W] = "done" /\ phase[W] = "dedup" /\ ~found[W]
          => NotListedUpTo(Len(list) + 1)
    /\ at[W] = "push" => NotListedUpTo(Len(list) + 1)

Stopped(h) == "stopped" \in said[h]

\* The walk that says goodbye to a removed torrent either has not met it yet or
\* has told its trackers; that stays so until the torrent is taken out.
PartingOK ==
    /\ at[W] \in InWalk /\ phase[W] = "parting"
          => pos[W] >= 1 /\ (~found[W] => NotListedUpTo(pos[W]))
    /\ at[W] = "torrent" /\ phase[W] = "parting" => ~found[W]
    /\ at[W] \in InAnnounce /\ phase[W] = "parting"
          => found[W] /\ list[pos[W]].hash = wanted.hash
    /\ at[W] = "answer" /\ phase[W] = "parting" => Stopped(wanted.hash)
    /\ at[W] = "next" /\ phase[W] = "parting" /\ found[W] => Stopped(wanted.hash)
    /\ at[W] = "retain" \/ (at[W] = "done" /\ phase[W] = "parting")
          => Stopped(wanted.hash) \/ NotListedUpTo(Len(list) + 1)

\* GoodbyesSoFar, and that the shutdown waits for an answer to a STOPPED.
GoodbyesOK ==
    /\ GoodbyesSoFar
    /\ at["signal"] = "answer" /\ phase["signal"] = "stopping"
          => Stopped(list[pos["signal"]].hash)

\* What has been said was said of a listed torrent, and an answer is awaited to
\* something said.
SaidOK ==
    /\ at["main"] = "load" => list = <<>>
    /\ \A h \in Hash : said[h] # {} => \E i \in DOMAIN list : list[i].hash = h
    /\ \A p \in Task : at[p] = "answer" => EventOf(p) \in said[list[pos[p]].hash]

Started(h) == "started" \in said[h]

\* A torrent yet to be started has not been: by main(), which goes through the
\* list from its beginning, or by the watcher that has pushed it.
StartedOK ==
    /\ at["signal"] \notin {"unborn", "idle"} => phase["signal"] = "stopping"
    /\ at[W] \in WalkPlace => phase[W] # "starting"
    /\ phase["main"] = "starting" /\ at["main"] \notin InWalk \cup {"done"}
          => \A h \in Hash : ~Started(h)
    /\ phase["main"] = "starting" /\ at["main"] \in InWalk
          => \A i \in DOMAIN list :
                i > pos["main"] \/ (i = pos["main"] /\ at["main"] \in {"next", "torrent"})
                    => ~Started(list[i].hash)
    /\ phase[W] = "greeting" /\ at[W] \in {"ask", "peek", "open", "list", "torrent"}
          => ~Started(wanted.hash)
    /\ phase[W] = "greeting" /\ at[W] = "next" /\ ~found[W] => ~Started(wanted.hash)
    /\ phase[W] = "greeting" /\ at[W] \in InAnnounce => found[W]

-----------------------------------------------------------------------------
Entries == {list[i] : i \in DOMAIN list}

\* The watcher has taken the event of a new file, and is yet to list it; from
\* Hashed on it has read it.
Hashed == at[W] = "push" \/ (at[W] \in WalkPlace /\ phase[W] = "dedup")
Adding(f) == wanted.file = f /\ (at[W] = "settle" \/ Hashed)

\* The watcher has taken the event that removes this torrent.
Leaving(e) ==
    /\ at[W] \in WalkPlace \cup {"retain"}
    /\ \/ phase[W] = "finding" /\ e.file = wanted.file
       \/ phase[W] = "parting" /\ e.hash = wanted.hash

Up(f) == Adding(f) \/ \E e \in Entries : e.file = f /\ ~Leaving(e)

Happens(kind, f, n) == n \in DOMAIN events /\ events[n] = [kind |-> kind, file |-> f]

\* A file that is listed or about to be counts as added before all events.
AddedAt(f, n) == Happens("added", f, n) \/ (n = 0 /\ Up(f))

\* Additions and removals of a file take turns, and one that is not there has
\* been removed last.
EventsOK ==
    \A f \in File \ missed, m \in 0 .. Len(events) :
        AddedAt(f, m) =>
            /\ dir[f] = Absent
                  => \E k \in DOMAIN events : m < k /\ Happens("removed", f, k)
            /\ \A n \in 0 .. Len(events) :
                  m < n /\ AddedAt(f, n)
                     => \E k \in DOMAIN events : m < k /\ k < n /\ Happens("removed", f, k)

\* No event, or not every one, tells of the file at this path.
Untracked(f) == f \in missed \/ f \notin File

\* The torrent is that of the file, unless its removal is still to be handled.
Known(e) == Untracked(e.file) \/ dir[e.file] = e.hash \/ Reported(e.file)

PresentOK ==
    /\ \A e \in Entries : Leaving(e) \/ Known(e)
    /\ Hashed => Known(wanted)
    /\ \A e, x \in Entries : e.file = x.file => e = x \/ Untracked(e.file)
    /\ \A e \in Entries : Adding(e.file) => e.file \in missed
    /\ at[W] = "retain" => phase[W] = "parting"
    /\ at["main"] = "load" => events = <<>>

NotAtUpTo(n) == \A i \in DOMAIN list : i < n => list[i].file # wanted.file

\* The search for the removed file finds its torrent, or there is none.
FindingOK ==
    /\ at[W] \in InAnnounce => phase[W] # "finding"
    /\ at[W] \in InWalk /\ phase[W] = "finding"
          => pos[W] >= 1 /\ (~found[W] => NotAtUpTo(pos[W]))
    /\ at[W] = "torrent" /\ phase[W] = "finding" => ~found[W]
    /\ at[W] \in {"next", "done"} /\ phase[W] = "finding" /\ found[W]
          => wanted \in Entries
    /\ at[W] = "done" /\ phase[W] = "finding" /\ ~found[W]
          => NotAtUpTo(Len(list) + 1)

-----------------------------------------------------------------------------
\* The parts and UniqueHashes hold together in every reachable state.
Inv ==
    /\ TypeOK /\ TasksOK /\ ListLockOK /\ TorrentLocksOK /\ ClientLockOK
    /\ DedupOK /\ UniqueHashes
    /\ PartingOK /\ GoodbyesOK /\ SaidOK /\ StartedOK
    /\ EventsOK /\ PresentOK /\ FindingOK
=============================================================================
