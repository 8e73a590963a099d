------------------------------ MODULE Watcher ------------------------------
(***************************************************************************)
(* watcher.rs: the directory of .torrent files as the user changes it, the  *)
(* events the notify library reports, and the watcher task that keeps the   *)
(* torrent list in step with them.                                          *)
(*                                                                         *)
(* The channel of the library, the forwarding thread and the unbounded      *)
(* channel to the task are FIFO queues in a row, and so one queue here.     *)
(***************************************************************************)
EXTENDS Announcer

CONSTANTS
    Absent,      \* the content of a path without a file
    Partial,     \* the content of a file that is still being written
    MaxChanges   \* bound on the changes the user makes to the directory

ASSUME DirectoryAssumption ==
    /\ Absent \notin Hash /\ Partial \notin Hash /\ Absent # Partial
    /\ MaxChanges \in Nat

Content == Hash \cup {Absent, Partial}

FsEvent == [kind : {"added", "removed"}, file : File]

VARIABLES
    dir,       \* content of every path
    events,    \* events reported and not handled yet, oldest first
    changes,   \* changes the user has made so far
    missed     \* history: files that changed without an event the watcher takes

watcherVars == <<dir, events, changes, missed>>

W == "watcher"

Watching == at[W] \notin {"unborn", "spawned", "gone", "panicked"}

-----------------------------------------------------------------------------
\* The user.  A create and a remove are reported, and only while the directory
\* is watched; the end of a write is a Modify event, which the code drops.
Report(kind, f) ==
    /\ changes < MaxChanges /\ changes' = changes + 1
    /\ IF Watching
       THEN /\ events' = Append(events, [kind |-> kind, file |-> f])
            /\ UNCHANGED missed
       ELSE /\ missed' = missed \cup {f}
            /\ UNCHANGED events
    /\ UNCHANGED announcerVars

CreateFile(f) ==
    /\ dir[f] = Absent /\ dir' = [dir EXCEPT ![f] = Partial]
    /\ Report("added", f)

FinishFile(f) ==
    /\ dir[f] = Partial
    /\ \E h \in Hash : dir' = [dir EXCEPT ![f] = h]
    /\ UNCHANGED <<events, changes, missed, announcerVars>>

DeleteFile(f) ==
    /\ dir[f] # Absent /\ dir' = [dir EXCEPT ![f] = Absent]
    /\ Report("removed", f)

\* A rename from f, to f or over f is a Modify event too, whether the watcher
\* is there or not.
MoveFile(f) ==
    /\ changes < MaxChanges /\ changes' = changes + 1
    /\ \E c \in Content \ {dir[f]} : dir' = [dir EXCEPT ![f] = c]
    /\ missed' = missed \cup {f}
    /\ UNCHANGED <<events, announcerVars>>

User ==
    \E f \in File :
        CreateFile(f) \/ FinishFile(f) \/ DeleteFile(f) \/ MoveFile(f)

-----------------------------------------------------------------------------
\* watch_directory(): without a watcher, or without a directory to watch, the
\* task logs an error and returns.
StartWatching ==
    /\ at[W] = "spawned"
    /\ \/ GoTo(W, "idle") \/ GoTo(W, "gone")
    /\ UNCHANGED <<list, mutex, torrents, client, phase, pos, url, found,
                   wanted, said, watcherVars>>

\* The receive loop.  A new file is given half a second to be written.
Receive ==
    /\ at[W] = "idle" /\ events # <<>>
    /\ events' = Tail(events)
    /\ wanted' = [wanted EXCEPT !.file = Head(events).file]
    /\ \/ /\ Head(events).kind = "added"
          /\ GoTo(W, "settle")
          /\ UNCHANGED phase
       \/ /\ Head(events).kind = "removed"
          /\ phase' = [phase EXCEPT ![W] = "finding"]
          /\ GoTo(W, "open")
    /\ UNCHANGED <<list, mutex, torrents, client, pos, url, found, said,
                   dir, changes, missed>>

\* Mutant: a torrent with the hash handled last is taken for the same event.
ParseFileOnce ==
    /\ at[W] = "settle"
    /\ LET content == dir[wanted.file] IN
       \/ /\ content = Absent
          /\ GoTo(W, "panicked") /\ UNCHANGED <<phase, wanted>>
       \/ /\ content \in {Partial, wanted.hash}
          /\ GoTo(W, "idle") /\ UNCHANGED <<phase, wanted>>
       \/ /\ content \in Hash \ {wanted.hash}
          /\ wanted' = [wanted EXCEPT !.hash = content]
          /\ phase' = [phase EXCEPT ![W] = "dedup"]
          /\ GoTo(W, "open")
    /\ UNCHANGED <<list, mutex, torrents, client, pos, url, found, said,
                   watcherVars>>

\* Torrent::from_file: a file that cannot be read panics (expect), which ends
\* the task and drops the watcher; one that cannot be parsed is skipped.
ParseFile ==
    /\ at[W] = "settle"
    /\ LET content == dir[wanted.file] IN
       \/ /\ content = Absent
          /\ GoTo(W, "panicked") /\ UNCHANGED <<phase, wanted>>
       \/ /\ content = Partial
          /\ GoTo(W, "idle") /\ UNCHANGED <<phase, wanted>>
       \/ /\ content \in Hash
          /\ wanted' = [wanted EXCEPT !.hash = content]
          /\ phase' = [phase EXCEPT ![W] = "dedup"]
          /\ GoTo(W, "open")
    /\ UNCHANGED <<list, mutex, torrents, client, pos, url, found, said,
                   watcherVars>>

\* Mutant: the list is changed under a read guard.
ToChangeListShared == AskRead(torrents, W)

\* `TORRENTS.write().await`
ToChangeList == AskWrite(torrents, W)

\* What follows each walk of the watcher.  The list is changed under a write
\* guard asked for after the read guard of the walk was dropped.
AfterWalk ==
    /\ at[W] = "done"
    /\ \/ /\ \/ phase[W] = "dedup" /\ found[W]
             \/ phase[W] = "finding" /\ ~found[W]
             \/ phase[W] = "greeting"
          /\ GoTo(W, "idle")
          /\ UNCHANGED <<phase, torrents>>
       \/ /\ phase[W] = "dedup" /\ ~found[W]
          /\ torrents' = ToChangeList
          /\ GoTo(W, "push")
          /\ UNCHANGED phase
       \/ /\ phase[W] = "finding" /\ found[W]
          /\ phase' = [phase EXCEPT ![W] = "parting"]
          /\ GoTo(W, "ask")
          /\ UNCHANGED torrents
       \/ /\ phase[W] = "parting"
          /\ torrents' = ToChangeList
          /\ GoTo(W, "retain")
          /\ UNCHANGED phase
    /\ UNCHANGED <<list, mutex, client, pos, url, found, wanted, said,
                   watcherVars>>

\* Mutant: the write guard of the list is kept for the announce.
PushTorrentKeeps ==
    /\ at[W] = "push" /\ Granted(torrents, W)
    /\ list' = Append(list, [hash |-> wanted.hash, file |-> wanted.file])
    /\ mutex' = Append(mutex, Unlocked(Task))
    /\ said' = [said EXCEPT ![wanted.hash] = {}]
    /\ phase' = [phase EXCEPT ![W] = "greeting"]
    /\ GoTo(W, "ask")
    /\ UNCHANGED <<torrents, client, pos, url, found, wanted, watcherVars>>

\* `list.push(Mutex::new(torrent))`, then on to the STARTED announce.
PushTorrent ==
    /\ at[W] = "push" /\ Granted(torrents, W)
    /\ list' = Append(list, [hash |-> wanted.hash, file |-> wanted.file])
    /\ mutex' = Append(mutex, Unlocked(Task))
    /\ torrents' = Drop(torrents, W)
    /\ said' = [said EXCEPT ![wanted.hash] = {}]
    /\ phase' = [phase EXCEPT ![W] = "greeting"]
    /\ GoTo(W, "ask")
    /\ UNCHANGED <<client, pos, url, found, wanted, watcherVars>>

\* Mutant: the two outcomes of try_lock() are swapped.
LockedSwapped(i) == Asked(mutex[i]) = {}

\* try_lock() fails on a mutex somebody holds or has been promised.
Locked(i) == Asked(mutex[i]) # {}

\* `list.retain(...)`: the torrents kept stay in order; kept[n] is where the
\* n-th of them was.
RetainTorrents ==
    /\ at[W] = "retain" /\ Granted(torrents, W)
    /\ \E size \in 0 .. Len(list) : \E kept \in [1 .. size -> DOMAIN list] :
          /\ \A m, n \in 1 .. size : m < n => kept[m] < kept[n]
          /\ \A i \in DOMAIN list :
                (\E n \in 1 .. size : kept[n] = i)
                    <=> (list[i].hash # wanted.hash \/ Locked(i))
          /\ list'  = [n \in 1 .. size |-> list[kept[n]]]
          /\ mutex' = [n \in 1 .. size |-> mutex[kept[n]]]
          /\ said'  = IF size < Len(list)
                      THEN [said EXCEPT ![wanted.hash] = {}] ELSE said
    /\ torrents' = Drop(torrents, W)
    /\ GoTo(W, "idle")
    /\ UNCHANGED <<client, phase, pos, url, found, wanted, watcherVars>>

WatcherStep ==
    \/ Walk(W) /\ UNCHANGED watcherVars
    \/ StartWatching \/ Receive \/ ParseFile \/ AfterWalk
    \/ PushTorrent \/ RetainTorrents
=============================================================================
