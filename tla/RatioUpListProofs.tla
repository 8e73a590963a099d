------------------------- MODULE RatioUpListProofs -------------------------
(***************************************************************************)
(* Every step of RatioUp preserves the parts of its inductive invariant     *)
(* about what is in the list: the search for a duplicate, the goodbyes of   *)
(* the watcher and of the shutdown, the search for a removed file, and how  *)
(* the list follows the directory.                                          *)
(***************************************************************************)
EXTENDS RatioUpLockProofs

\* A step that leaves the list and what the watcher knows alone.
LEMMA DedupFrame ==
    ASSUME DedupOK, list' = list, wanted'.hash = wanted.hash, at'[W] = at[W],
           phase'[W] = phase[W], found'[W] = found[W], pos'[W] = pos[W]
    PROVE  DedupOK'
BY DEF DedupOK, NotListedUpTo

\* A step after which the watcher neither searches nor is about to push.
LEMMA DedupOver ==
    ASSUME at'[W] # "push",
           phase'[W] # "dedup" \/ at'[W] \notin InWalk \cup {"done"}
    PROVE  DedupOK'
BY DEF DedupOK, InWalk

\* A step of the watcher's own walk: the search has gone past one torrent more,
\* or is over with the whole list seen.
LEMMA DedupWalk ==
    ASSUME TypeOK, TasksOK, DedupOK, Walk(W)
    PROVE  DedupOK'
<1>0. W \in Task
  BY DEF W, Task
<1>1. /\ at \in [Task -> Place] /\ pos \in [Task -> Nat] /\ found \in [Task -> BOOLEAN]
      /\ list \in Seq([hash : Hash, file : Path])
  BY DEF TypeOK
<1>2. DOMAIN list = 1 .. Len(list) /\ Len(list) \in Nat
  BY <1>1, LenProperties
<1>3. PICK place \in WalkPlace : at' = [at EXCEPT ![W] = place]
  BY <1>0, WalkMoves
<1>4. phase' = phase /\ at'[W] \in WalkPlace /\ "push" \notin WalkPlace
  BY <1>0, <1>1, <1>3, WalkMoves DEF WalkPlace, InWalk
<1>5. CASE phase[W] # "dedup"
  BY <1>4, <1>5, DedupOver
<1>6. CASE phase[W] = "dedup"
  <2> USE <1>0, <1>1, <1>6 DEF GoTo
  <2>1. CASE AskClient(W) \/ PeekClient(W) \/ OpenList(W)
    BY <2>1, DedupOver DEF AskClient, PeekClient, OpenList, InWalk
  <2>2. CASE BeginWalk(W)
    <3>1. /\ at'[W] = "next" /\ pos'[W] = 1 /\ list' = list /\ wanted' = wanted
      BY <2>2 DEF BeginWalk, First
    <3> QED BY <1>2, <3>1 DEF DedupOK, NotListedUpTo
  <2>3. CASE LockNext(W)
    <3>1. /\ at[W] = "next" /\ at'[W] = "torrent" /\ ~found[W] /\ found' = found
          /\ pos' = pos /\ list' = list /\ wanted' = wanted
      BY <2>3 DEF LockNext, WalkIsOver
    <3> QED BY <1>4, <3>1 DEF DedupOK, NotListedUpTo, InWalk
  <2>4. CASE EndWalk(W)
    <3>1. /\ at[W] = "next" /\ at'[W] = "done" /\ found' = found
          /\ found[W] \/ pos[W] \notin DOMAIN list
          /\ list' = list /\ wanted' = wanted
      BY <2>4 DEF EndWalk, WalkIsOver
    <3>2. ~found[W] => pos[W] > Len(list) /\ NotListedUpTo(pos[W])
      BY <1>2, <3>1 DEF DedupOK, InWalk
    <3>3. ~found[W] => NotListedUpTo(Len(list) + 1)
      BY <1>2, <3>2 DEF NotListedUpTo
    <3> QED BY <1>4, <3>1, <3>3 DEF DedupOK, NotListedUpTo, InWalk
  <2>5. CASE Pass(W)
    <3>1. /\ at[W] = "torrent" /\ at'[W] = "next" /\ pos'[W] = pos[W] + 1
          /\ found'[W] = (list[pos[W]].hash = wanted.hash)
          /\ list' = list /\ wanted' = wanted
      BY <2>5 DEF Pass, Matches, Following
    <3>2. ~found[W] /\ pos[W] >= 1 /\ NotListedUpTo(pos[W])
      BY <3>1 DEF DedupOK, InWalk
    <3>3. ~found'[W] => NotListedUpTo(pos[W] + 1)
      <4> SUFFICES ASSUME list[pos[W]].hash # wanted.hash,
                          NEW i \in DOMAIN list, i < pos[W] + 1
                   PROVE  list[i].hash # wanted.hash
        BY <3>1 DEF NotListedUpTo
      <4>1. pos[W] \in Nat
        OBVIOUS
      <4>2. i < pos[W] \/ i = pos[W]
        BY <1>2, <4>1
      <4> QED BY <3>2, <4>2 DEF NotListedUpTo
    <3> QED BY <1>4, <3>1, <3>2, <3>3 DEF DedupOK, NotListedUpTo, InWalk
  <2>6. ~Announce(W)
    BY DEF Announce, Announces
  <2>7. ~(FirstUrl(W) \/ BuildUrl(W) \/ NextUrl(W) \/ LastUrl(W))
    BY DEF FirstUrl, BuildUrl, NextUrl, LastUrl, TasksOK, InAnnounce
  <2> QED BY <2>1, <2>2, <2>3, <2>4, <2>5, <2>6, <2>7 DEF Walk
<1> QED BY <1>5, <1>6

\* A walk of main() or of the Ctrl+C task leaves the watcher's search alone.
LEMMA DedupOtherWalk ==
    ASSUME TypeOK, TasksOK, DedupOK, NEW p \in {"main", "signal"}, Walk(p)
    PROVE  DedupOK'
<1>1. /\ at \in [Task -> Place] /\ pos \in [Task -> Nat] /\ found \in [Task -> BOOLEAN]
      /\ p \in Task /\ W \in Task /\ p # W
  BY DEF TypeOK, W, Task
<1>2. phase[p] # "finding"
  BY DEF TasksOK
<1>3. phase' = phase /\ at'[W] = at[W]
  BY <1>1, WalkMoves
<1>4. list' = list /\ wanted' = wanted /\ found'[W] = found[W] /\ pos'[W] = pos[W]
  BY <1>1, <1>2 DEF Walk, AskClient, PeekClient, OpenList, BeginWalk, LockNext,
     EndWalk, Pass, Announce, FirstUrl, BuildUrl, NextUrl, LastUrl, CallTracker, Send
<1> QED BY <1>3, <1>4, DedupFrame

\* Every step preserves DedupOK.
LEMMA DedupStep ==
    ASSUME TypeOK, TasksOK, DedupOK, Next
    PROVE  DedupOK'
<1> USE DEF GoTo
<1>0. W \in Task /\ W # "main" /\ W # "signal" /\ W # "renewer"
  BY DEF Task, W
<1>a. at \in [Task -> Place] /\ phase \in [Task -> Phase]
  BY DEF TypeOK
<1>1. CASE Walk(W)
  BY <1>1, DedupWalk
<1>2. CASE Walk("main") \/ Walk("signal")
  BY <1>2, DedupOtherWalk
<1>3. CASE StartWatching
  BY <1>0, <1>3, <1>a, DedupOver DEF StartWatching, InWalk
<1>4. CASE Receive
  BY <1>0, <1>4, <1>a, DedupOver DEF Receive, InWalk
<1>5. CASE ParseFile
  BY <1>0, <1>5, <1>a, DedupOver DEF ParseFile, InWalk
<1>6. CASE AfterWalk
  <2>1. CASE phase[W] = "dedup" /\ ~found[W]
    <3>1. at[W] = "done" /\ at'[W] = "push" /\ list' = list /\ wanted' = wanted
      BY <1>0, <1>6, <1>a, <2>1 DEF AfterWalk
    <3> QED BY <2>1, <3>1 DEF DedupOK, NotListedUpTo, InWalk
  <2>2. CASE ~(phase[W] = "dedup" /\ ~found[W])
    BY <1>0, <1>6, <1>a, <2>2, DedupOver DEF AfterWalk, InWalk
  <2> QED BY <2>1, <2>2
<1>7. CASE PushTorrent \/ RetainTorrents
  BY <1>0, <1>7, <1>a, DedupOver DEF PushTorrent, RetainTorrents, InWalk
<1>8. CASE LoadTorrents
  <2>1. at[W] = "unborn"
    BY <1>8 DEF LoadTorrents, TasksOK
  <2>2. at'[W] = "unborn"
    BY <1>0, <1>8, <1>a, <2>1 DEF LoadTorrents
  <2> QED BY <2>2, DedupOver DEF InWalk
<1>9. CASE SpawnTasks
  <2>1. at'[W] = "spawned"
    BY <1>0, <1>9, <1>a DEF SpawnTasks, W
  <2> QED BY <2>1, DedupOver DEF InWalk
<1>10. CASE AfterTurn \/ WakeUp
  BY <1>0, <1>10, <1>a, DedupFrame DEF AfterTurn, WakeUp
<1>11. CASE Interrupt
  BY <1>0, <1>11, <1>a, DedupFrame DEF Interrupt, announcerVars
<1>12. CASE RenewerStep
  BY <1>0, <1>12, <1>a, DedupFrame DEF RenewerStep, AskToRenew, RenewKey
<1>13. CASE Exit \/ User
  BY <1>13, DedupFrame DEF Exit, User, CreateFile, FinishFile, DeleteFile, MoveFile, Report, announcerVars
<1> QED
  BY <1>1, <1>2, <1>3, <1>4, <1>5, <1>6, <1>7, <1>8, <1>9, <1>10, <1>11, <1>12,
     <1>13 DEF Next, MainStep, WatcherStep, SignalStep

-----------------------------------------------------------------------------
\* The list changes only when it is loaded, pushed to, or filtered.
LEMMA ListStays ==
    ASSUME Next, ~LoadTorrents, ~PushTorrent, ~RetainTorrents
    PROVE  list' = list
<1>1. ASSUME NEW p, Walk(p)
      PROVE  list' = list
  BY <1>1 DEF Walk, AskClient, PeekClient, OpenList, BeginWalk, LockNext,
     EndWalk, Pass, Announce, FirstUrl, BuildUrl, NextUrl, LastUrl, CallTracker, Send
<1>2. CASE MainStep
  BY <1>1, <1>2 DEF MainStep, SpawnTasks, AfterTurn, WakeUp
<1>3. CASE WatcherStep
  BY <1>1, <1>3 DEF WatcherStep, StartWatching, Receive, ParseFile, AfterWalk
<1>4. CASE SignalStep
  BY <1>1, <1>4 DEF SignalStep, Exit, announcerVars
<1>5. CASE RenewerStep \/ Interrupt \/ User
  BY <1>5 DEF RenewerStep, Interrupt, User, CreateFile, FinishFile, DeleteFile,
     MoveFile, Report, announcerVars
<1> QED BY <1>2, <1>3, <1>4, <1>5 DEF Next

\* A pushed torrent has a hash that is not listed.
LEMMA UniqueHashesPush ==
    ASSUME TypeOK, DedupOK, UniqueHashes, PushTorrent
    PROVE  UniqueHashes'
<1>1. /\ list \in Seq([hash : Hash, file : Path]) /\ wanted \in [hash : Hash, file : File]
  BY DEF TypeOK
<1> DEFINE new == [hash |-> wanted.hash, file |-> wanted.file]
<1>2. new \in [hash : Hash, file : Path] /\ new.hash = wanted.hash
  BY <1>1 DEF Path
<1>3. list' = Append(list, new)
  BY DEF PushTorrent
<1> HIDE DEF new
<1>4. /\ Len(list) \in Nat /\ DOMAIN list = 1 .. Len(list)
      /\ DOMAIN list' = 1 .. Len(list) + 1
      /\ \A i \in DOMAIN list : list'[i] = list[i]
      /\ list'[Len(list) + 1] = new
  BY <1>1, <1>2, <1>3, AppendProperties, LenProperties
<1>5. \A i \in DOMAIN list : list[i].hash # wanted.hash
  BY <1>4 DEF PushTorrent, DedupOK, NotListedUpTo
<1> SUFFICES ASSUME NEW i \in DOMAIN list', NEW j \in DOMAIN list',
                    list'[i].hash = list'[j].hash
             PROVE  i = j
  BY DEF UniqueHashes
<1>6. CASE i \in DOMAIN list /\ j \in DOMAIN list
  BY <1>4, <1>6 DEF UniqueHashes
<1>7. CASE i \notin DOMAIN list /\ j \in DOMAIN list
  BY <1>2, <1>4, <1>5, <1>7
<1>8. CASE i \in DOMAIN list /\ j \notin DOMAIN list
  BY <1>2, <1>4, <1>5, <1>8
<1>9. CASE i \notin DOMAIN list /\ j \notin DOMAIN list
  BY <1>4, <1>9
<1> QED BY <1>6, <1>7, <1>8, <1>9

\* The torrents a removal keeps are listed once each.
LEMMA UniqueHashesRetain ==
    ASSUME TypeOK, UniqueHashes, RetainTorrents
    PROVE  UniqueHashes'
<1>1. PICK size \in 0 .. Len(list) : \E kept \in [1 .. size -> DOMAIN list] :
          /\ \A m, n \in 1 .. size : m < n => kept[m] < kept[n]
          /\ list' = [n \in 1 .. size |-> list[kept[n]]]
  BY DEF RetainTorrents
<1>2. PICK kept \in [1 .. size -> DOMAIN list] :
          /\ \A m, n \in 1 .. size : m < n => kept[m] < kept[n]
          /\ list' = [n \in 1 .. size |-> list[kept[n]]]
  BY <1>1
<1>3. list \in Seq([hash : Hash, file : Path])
  BY DEF TypeOK
<1>4. DOMAIN list = 1 .. Len(list) /\ Len(list) \in Nat
  BY <1>3, LenProperties
<1> SUFFICES ASSUME NEW m \in 1 .. size, NEW n \in 1 .. size,
                    list'[m].hash = list'[n].hash
             PROVE  m = n
  BY <1>2 DEF UniqueHashes
<1>5. list[kept[m]].hash = list[kept[n]].hash
  BY <1>2
<1>6. kept[m] \in DOMAIN list /\ kept[n] \in DOMAIN list
  BY <1>2
<1>7. kept[m] = kept[n]
  BY <1>5, <1>6 DEF UniqueHashes
<1>8. ~(m < n) /\ ~(n < m)
  <2>1. kept[m] \in Int /\ kept[n] \in Int
    BY <1>4, <1>6
  <2> QED BY <1>2, <1>7, <2>1
<1> QED BY <1>1, <1>4, <1>8

\* load_torrents keeps one file per hash.
LEMMA UniqueHashesLoad ==
    ASSUME LoadTorrents
    PROVE  UniqueHashes'
<1>1. PICK size \in 0 .. Cardinality(File) :
         \E order \in [1 .. size -> {f \in File : dir[f] \in Hash}] :
            /\ \A m, n \in 1 .. size : dir[order[m]] = dir[order[n]] => m = n
            /\ list' = [n \in 1 .. size |-> [hash |-> dir[order[n]], file |-> SourcePath[order[n]]]]
  BY DEF LoadTorrents
<1>2. PICK order \in [1 .. size -> {f \in File : dir[f] \in Hash}] :
            /\ \A m, n \in 1 .. size : dir[order[m]] = dir[order[n]] => m = n
            /\ list' = [n \in 1 .. size |-> [hash |-> dir[order[n]], file |-> SourcePath[order[n]]]]
  BY <1>1
<1> QED BY <1>2 DEF UniqueHashes

\* Every step preserves UniqueHashes.
LEMMA UniqueHashesStep ==
    ASSUME TypeOK, DedupOK, UniqueHashes, Next
    PROVE  UniqueHashes'
<1>1. CASE LoadTorrents \/ PushTorrent \/ RetainTorrents
  BY <1>1, UniqueHashesLoad, UniqueHashesPush, UniqueHashesRetain
<1>2. CASE ~(LoadTorrents \/ PushTorrent \/ RetainTorrents)
  BY <1>2, ListStays DEF UniqueHashes
<1> QED BY <1>1, <1>2

-----------------------------------------------------------------------------
\* A walk leaves the list alone and takes back no event; it waits for an answer
\* only when it has sent the event of its walk.
LEMMA WalkSays ==
    ASSUME TypeOK, TorrentLocksOK, NEW p \in Task, Walk(p)
    PROVE  /\ list' = list
           /\ \A h \in Hash : said[h] \subseteq said'[h]
           /\ at'[p] = "answer" => /\ at[p] \in InAnnounce
                                   /\ pos' = pos /\ found' = found /\ wanted' = wanted
                                   /\ EventOf(p) \in said'[list[pos[p]].hash]
<1> USE DEF GoTo
<1>1. at \in [Task -> Place] /\ said \in [Hash -> SUBSET Event]
  BY DEF TypeOK
<1>2. CASE AskClient(p) \/ PeekClient(p) \/ OpenList(p) \/ BeginWalk(p) \/ LockNext(p)
           \/ EndWalk(p) \/ Pass(p) \/ Announce(p) \/ LastUrl(p)
  BY <1>1, <1>2 DEF AskClient, PeekClient, OpenList, BeginWalk, LockNext, EndWalk, Pass,
     Announce, LastUrl
<1>3. ASSUME at[p] \in InAnnounce, Send(p)
      PROVE  /\ \A h \in Hash : said[h] \subseteq said'[h]
             /\ EventOf(p) \in said'[list[pos[p]].hash]
  <2>1. list[pos[p]].hash \in Hash
    BY <1>3, TorrentAtPos DEF AtTorrent
  <2> QED BY <1>1, <1>3, <2>1 DEF Send
<1>4. CASE BuildUrl(p)
  BY <1>3, <1>4 DEF BuildUrl, InAnnounce
<1>5. ASSUME at[p] \in {"client", "answer"}, NEW u \in Nat, CallTracker(p, u)
      PROVE  /\ list' = list /\ pos' = pos /\ found' = found /\ wanted' = wanted
             /\ \A h \in Hash : said[h] \subseteq said'[h]
             /\ at'[p] = "answer" => EventOf(p) \in said'[list[pos[p]].hash]
  <2>1. at[p] \in InAnnounce
    BY <1>5 DEF InAnnounce
  <2>2. CASE Send(p)
    BY <1>3, <1>5, <2>1, <2>2 DEF CallTracker
  <2>3. CASE ~Send(p)
    BY <1>1, <1>5, <2>3 DEF CallTracker
  <2> QED BY <2>2, <2>3
<1>6. CASE FirstUrl(p)
  BY <1>5, <1>6 DEF FirstUrl, InAnnounce
<1>7. CASE NextUrl(p)
  BY <1>5, <1>7, UrlAfter DEF NextUrl, InAnnounce
<1> QED BY <1>2, <1>4, <1>6, <1>7 DEF Walk

\* A step that leaves the list and the watcher's goodbye alone.
LEMMA PartingFrame ==
    ASSUME TypeOK, PartingOK, list' = list, wanted'.hash = wanted.hash, at'[W] = at[W],
           phase'[W] = phase[W], found'[W] = found[W], pos'[W] = pos[W],
           \A h \in Hash : said[h] \subseteq said'[h]
    PROVE  PartingOK'
<1>1. Stopped(wanted.hash) => Stopped(wanted.hash)'
  BY DEF TypeOK, Stopped
<1> QED BY <1>1 DEF PartingOK, NotListedUpTo, Stopped

\* A step after which the watcher is not saying goodbye.
LEMMA PartingOver ==
    ASSUME at'[W] # "retain",
           phase'[W] # "parting" \/ at'[W] \notin InWalk \cup {"done"}
    PROVE  PartingOK'
BY DEF PartingOK, InWalk, InAnnounce

\* A step of the goodbye itself: it goes past the torrents with another hash,
\* and is over when the one it looks for was told, or is not there.
LEMMA PartingWalk ==
    ASSUME TypeOK, TorrentLocksOK, PartingOK, Walk(W)
    PROVE  PartingOK'
<1>0. W \in Task
  BY DEF W, Task
<1>1. /\ at \in [Task -> Place] /\ pos \in [Task -> Nat] /\ found \in [Task -> BOOLEAN]
      /\ list \in Seq([hash : Hash, file : Path])
  BY DEF TypeOK
<1>2. DOMAIN list = 1 .. Len(list) /\ Len(list) \in Nat
  BY <1>1, LenProperties
<1>3. PICK place \in WalkPlace : at' = [at EXCEPT ![W] = place]
  BY <1>0, WalkMoves
<1>4. phase' = phase /\ at'[W] \in WalkPlace /\ "retain" \notin WalkPlace
  BY <1>0, <1>1, <1>3, WalkMoves DEF WalkPlace, InWalk
<1>5. CASE phase[W] # "parting"
  BY <1>4, <1>5, PartingOver DEF WalkPlace
<1>6. CASE phase[W] = "parting"
  <2> USE <1>0, <1>1, <1>6 DEF GoTo
  <2>a. /\ list' = list /\ at'[W] # "retain"
        /\ Stopped(wanted.hash) /\ wanted' = wanted => Stopped(wanted.hash)'
    BY <1>4, WalkSays DEF TypeOK, Stopped
  <2>1. CASE AskClient(W) \/ PeekClient(W) \/ OpenList(W)
    BY <2>1, PartingOver DEF AskClient, PeekClient, OpenList, InWalk
  <2>2. CASE BeginWalk(W)
    <3>1. at'[W] = "next" /\ pos'[W] = 1 /\ ~found'[W] /\ wanted' = wanted
      BY <2>2 DEF BeginWalk, First
    <3> QED BY <1>2, <2>a, <3>1 DEF PartingOK, NotListedUpTo, InAnnounce
  <2>3. CASE LockNext(W)
    <3>1. /\ at[W] = "next" /\ at'[W] = "torrent" /\ ~found[W] /\ found' = found
          /\ pos' = pos /\ wanted' = wanted
      BY <2>3 DEF LockNext, WalkIsOver
    <3> QED BY <1>4, <2>a, <3>1 DEF PartingOK, NotListedUpTo, InWalk, InAnnounce
  <2>4. CASE EndWalk(W)
    <3>1. /\ at[W] = "next" /\ at'[W] = "done" /\ wanted' = wanted
          /\ found[W] \/ pos[W] \notin DOMAIN list
      BY <2>4 DEF EndWalk, WalkIsOver
    <3>2. ~found[W] => pos[W] > Len(list) /\ NotListedUpTo(pos[W])
      BY <1>2, <3>1 DEF PartingOK, InWalk
    <3>3. Stopped(wanted.hash) \/ NotListedUpTo(Len(list) + 1)
      BY <1>2, <3>1, <3>2 DEF PartingOK, NotListedUpTo
    <3>4. (Stopped(wanted.hash) \/ NotListedUpTo(Len(list) + 1))'
      BY <2>a, <3>1, <3>3 DEF NotListedUpTo
    <3> QED BY <3>1, <3>4 DEF PartingOK, InWalk, InAnnounce
  <2>5. CASE Pass(W)
    <3>1. /\ at[W] = "torrent" /\ at'[W] = "next" /\ pos'[W] = pos[W] + 1
          /\ list[pos[W]].hash # wanted.hash /\ ~found'[W] /\ wanted' = wanted
      BY <2>5 DEF Pass, Passes, Matches, Following
    <3>2. pos[W] >= 1 /\ NotListedUpTo(pos[W])
      BY <3>1 DEF PartingOK, InWalk
    <3>3. NotListedUpTo(pos[W] + 1)
      <4> SUFFICES ASSUME NEW i \in DOMAIN list, i < pos[W] + 1
                   PROVE  list[i].hash # wanted.hash
        BY DEF NotListedUpTo
      <4>1. pos[W] \in Nat
        OBVIOUS
      <4>2. i < pos[W] \/ i = pos[W]
        BY <1>2, <4>1
      <4> QED BY <3>1, <3>2, <4>2 DEF NotListedUpTo
    <3> QED BY <2>a, <3>1, <3>2, <3>3 DEF PartingOK, NotListedUpTo, InAnnounce
  <2>6. CASE Announce(W)
    <3>1. /\ at[W] = "torrent" /\ at'[W] = "client" /\ pos' = pos /\ found'[W]
          /\ list[pos[W]].hash = wanted.hash /\ wanted' = wanted
      BY <2>6 DEF Announce, Announces, Matches
    <3> QED BY <2>a, <3>1 DEF PartingOK, InWalk, InAnnounce
  <2>7. CASE FirstUrl(W) \/ BuildUrl(W) \/ NextUrl(W)
    <3>1. /\ at[W] \in InAnnounce /\ at'[W] \in {"key", "answer"}
          /\ pos' = pos /\ found' = found /\ wanted' = wanted
      BY <2>7 DEF FirstUrl, BuildUrl, NextUrl, CallTracker, Send, InAnnounce
    <3>2. pos[W] >= 1 /\ found[W] /\ list[pos[W]].hash = wanted.hash
      BY <3>1 DEF PartingOK, InAnnounce, InWalk
    <3>3. at'[W] = "answer" => Stopped(wanted.hash)'
      BY <3>1, <3>2, WalkSays DEF EventOf, Stopped
    <3> QED BY <2>a, <3>1, <3>2, <3>3 DEF PartingOK
  <2>8. CASE LastUrl(W)
    <3>1. /\ at[W] = "answer" /\ at'[W] = "next" /\ pos'[W] = pos[W] + 1
          /\ found' = found /\ wanted' = wanted
      BY <2>8 DEF LastUrl, Following
    <3>2. pos[W] >= 1 /\ found[W] /\ Stopped(wanted.hash)
      BY <3>1 DEF PartingOK, InAnnounce, InWalk
    <3> QED BY <2>a, <3>1, <3>2 DEF PartingOK, InAnnounce
  <2> QED BY <2>1, <2>2, <2>3, <2>4, <2>5, <2>6, <2>7, <2>8 DEF Walk
<1> QED BY <1>5, <1>6

\* Every step preserves PartingOK.
LEMMA PartingStep ==
    ASSUME TypeOK, TasksOK, TorrentLocksOK, PartingOK, Next
    PROVE  PartingOK'
<1> USE DEF GoTo
<1>0. W \in Task /\ W # "main" /\ W # "signal" /\ W # "renewer"
  BY DEF Task, W
<1>a. at \in [Task -> Place] /\ phase \in [Task -> Phase]
  BY DEF TypeOK
<1>1. CASE Walk(W)
  BY <1>1, PartingWalk
<1>2. ASSUME NEW p \in {"main", "signal"}, Walk(p)
      PROVE  PartingOK'
  <2>1. /\ pos \in [Task -> Nat] /\ found \in [Task -> BOOLEAN]
        /\ p \in Task /\ p # W
    BY DEF TypeOK, W, Task
  <2>2. phase[p] # "finding"
    BY DEF TasksOK
  <2>3. phase' = phase /\ at'[W] = at[W]
    BY <1>0, <1>2, <1>a, <2>1, WalkMoves
  <2>4. wanted' = wanted /\ found'[W] = found[W] /\ pos'[W] = pos[W]
    BY <1>0, <1>2, <2>1, <2>2 DEF Walk, AskClient, PeekClient, OpenList, BeginWalk, LockNext,
       EndWalk, Pass, Announce, FirstUrl, BuildUrl, NextUrl, LastUrl, CallTracker, Send
  <2> QED BY <1>2, <2>1, <2>3, <2>4, WalkSays, PartingFrame
<1>3. CASE StartWatching
  BY <1>0, <1>3, <1>a, PartingOver DEF StartWatching, InWalk
<1>4. CASE Receive
  BY <1>0, <1>4, <1>a, PartingOver DEF Receive, InWalk
<1>5. CASE ParseFile
  BY <1>0, <1>5, <1>a, PartingOver DEF ParseFile, InWalk
<1>6. CASE AfterWalk
  <2>1. CASE phase[W] = "parting"
    <3>1. /\ at[W] = "done" /\ at'[W] = "retain" /\ list' = list /\ wanted' = wanted
          /\ said' = said
      BY <1>0, <1>6, <1>a, <2>1 DEF AfterWalk
    <3> QED BY <2>1, <3>1 DEF PartingOK, NotListedUpTo, Stopped, InWalk, InAnnounce
  <2>2. CASE phase[W] # "parting"
    BY <1>0, <1>6, <1>a, <2>2, PartingOver DEF AfterWalk, InWalk
  <2> QED BY <2>1, <2>2
<1>7. CASE PushTorrent \/ RetainTorrents
  BY <1>0, <1>7, <1>a, PartingOver DEF PushTorrent, RetainTorrents, InWalk
<1>8. CASE LoadTorrents
  <2>1. at[W] = "unborn"
    BY <1>8 DEF LoadTorrents, TasksOK
  <2>2. at'[W] = "unborn"
    BY <1>0, <1>8, <1>a, <2>1 DEF LoadTorrents
  <2> QED BY <2>2, PartingOver DEF InWalk
<1>9. CASE SpawnTasks
  <2>1. at'[W] = "spawned"
    BY <1>0, <1>9, <1>a DEF SpawnTasks, W
  <2> QED BY <2>1, PartingOver DEF InWalk
<1>10. CASE AfterTurn \/ WakeUp
  BY <1>0, <1>10, <1>a, PartingFrame DEF AfterTurn, WakeUp
<1>11. CASE Interrupt
  BY <1>0, <1>11, <1>a, PartingFrame DEF Interrupt, announcerVars
<1>12. CASE RenewerStep
  BY <1>0, <1>12, <1>a, PartingFrame DEF RenewerStep, AskToRenew, RenewKey
<1>13. CASE Exit \/ User
  BY <1>13, PartingFrame DEF Exit, User, CreateFile, FinishFile, DeleteFile, MoveFile,
     Report, announcerVars
<1> QED
  BY <1>1, <1>2, <1>3, <1>4, <1>5, <1>6, <1>7, <1>8, <1>9, <1>10, <1>11, <1>12,
     <1>13 DEF Next, MainStep, WatcherStep, SignalStep

-----------------------------------------------------------------------------
\* What is listed has a hash.
LEMMA ListedHash ==
    ASSUME TypeOK, NEW i \in DOMAIN list
    PROVE  list[i].hash \in Hash
<1>1. list \in Seq([hash : Hash, file : Path])
  BY DEF TypeOK
<1>2. list[i] \in [hash : Hash, file : Path]
  BY <1>1, ElementOfSeq, LenProperties
<1> QED BY <1>2

\* A step that leaves the list and the shutdown's walk alone.
LEMMA GoodbyesFrame ==
    ASSUME TypeOK, TorrentLocksOK, GoodbyesOK, list' = list,
           at'["signal"] = at["signal"], phase'["signal"] = phase["signal"],
           pos'["signal"] = pos["signal"], \A h \in Hash : said[h] \subseteq said'[h]
    PROVE  GoodbyesOK'
<1>1. \A i \in DOMAIN list : list[i].hash \in Hash
  BY ListedHash
<1>2. at["signal"] = "answer" => pos["signal"] \in DOMAIN list
  BY DEF TorrentLocksOK, AtTorrent, InAnnounce, Task
<1>3. GoodbyesSoFar'
  BY <1>1 DEF GoodbyesOK, GoodbyesSoFar
<1>4. (at["signal"] = "answer" /\ phase["signal"] = "stopping"
          => Stopped(list[pos["signal"]].hash))'
  BY <1>1, <1>2 DEF GoodbyesOK, Stopped
<1> QED BY <1>3, <1>4 DEF GoodbyesOK

\* A step after which the shutdown is not walking the list.
LEMMA GoodbyesOver ==
    ASSUME at'["signal"] \notin InWalk
    PROVE  GoodbyesOK'
BY DEF GoodbyesOK, GoodbyesSoFar, InWalk

\* A step of the shutdown's walk: it goes past a torrent only after the answer
\* to its STOPPED.
LEMMA GoodbyesWalk ==
    ASSUME TypeOK, TorrentLocksOK, GoodbyesOK, Walk("signal")
    PROVE  GoodbyesOK'
<1> DEFINE s == "signal"
<1>0. s \in Task
  BY DEF Task
<1>1. at \in [Task -> Place] /\ pos \in [Task -> Nat] /\ list \in Seq([hash : Hash, file : Path])
  BY DEF TypeOK
<1>2. DOMAIN list = 1 .. Len(list) /\ Len(list) \in Nat
  BY <1>1, LenProperties
<1>3. phase' = phase
  BY <1>0, WalkMoves
<1>4. CASE phase[s] # "stopping"
  BY <1>3, <1>4 DEF GoodbyesOK, GoodbyesSoFar
<1>5. CASE phase[s] = "stopping"
  <2> USE <1>0, <1>1, <1>5 DEF GoTo
  <2>a. list' = list /\ \A h \in Hash : said[h] \subseteq said'[h]
    BY WalkSays
  <2>b. \A i \in DOMAIN list : list[i].hash \in Hash
    BY ListedHash
  <2>1. CASE AskClient(s) \/ PeekClient(s) \/ OpenList(s) \/ EndWalk(s)
    BY <2>1, GoodbyesOver DEF AskClient, PeekClient, OpenList, EndWalk, InWalk
  <2>2. CASE BeginWalk(s)
    <3>1. at'[s] = "next" /\ pos'[s] = 1
      BY <2>2 DEF BeginWalk, First
    <3> QED BY <1>2, <2>a, <3>1 DEF GoodbyesOK, GoodbyesSoFar
  <2>3. CASE LockNext(s) \/ Announce(s)
    <3>1. at[s] \in InWalk /\ at'[s] \in InWalk \ {"answer"} /\ pos' = pos
      BY <2>3 DEF LockNext, Announce, InWalk
    <3> QED BY <2>a, <2>b, <3>1 DEF GoodbyesOK, GoodbyesSoFar
  <2>4. ~Pass(s)
    BY DEF Pass, Passes
  <2>5. CASE FirstUrl(s) \/ BuildUrl(s) \/ NextUrl(s)
    <3>1. at[s] \in InAnnounce /\ at[s] \in InWalk /\ at'[s] \in {"key", "answer"} /\ pos' = pos
      BY <2>5 DEF FirstUrl, BuildUrl, NextUrl, CallTracker, Send, InAnnounce, InWalk
    <3>2. at'[s] = "answer" => Stopped(list[pos[s]].hash)'
      BY <2>a, <3>1, WalkSays DEF EventOf, Stopped
    <3> QED BY <2>a, <2>b, <3>1, <3>2 DEF GoodbyesOK, GoodbyesSoFar
  <2>6. CASE LastUrl(s)
    <3>1. at[s] = "answer" /\ at'[s] = "next" /\ pos'[s] = pos[s] + 1 /\ said' = said
      BY <2>6 DEF LastUrl, Following
    <3>2. /\ Stopped(list[pos[s]].hash)
          /\ \A i \in DOMAIN list : i < pos[s] => Stopped(list[i].hash)
      BY <3>1 DEF GoodbyesOK, GoodbyesSoFar, InWalk, Stopped
    <3>3. \A i \in DOMAIN list : i < pos[s] + 1 => i < pos[s] \/ i = pos[s]
      BY <1>2
    <3>4. \A i \in DOMAIN list : i < pos[s] + 1 => Stopped(list[i].hash)
      BY <3>2, <3>3
    <3> QED BY <2>a, <3>1, <3>4 DEF GoodbyesOK, GoodbyesSoFar, Stopped
  <2> QED BY <2>1, <2>2, <2>3, <2>4, <2>5, <2>6 DEF Walk
<1> QED BY <1>4, <1>5

\* Every step preserves GoodbyesOK.
LEMMA GoodbyesStep ==
    ASSUME TypeOK, TasksOK, ListLockOK, TorrentLocksOK, GoodbyesOK, Next
    PROVE  GoodbyesOK'
<1> USE DEF GoTo
<1>0. /\ W \in Task /\ "signal" \in Task /\ "main" \in Task /\ "renewer" \in Task
      /\ W # "signal"
  BY DEF Task, W
<1>a. at \in [Task -> Place] /\ phase \in [Task -> Phase] /\ pos \in [Task -> Nat]
  BY DEF TypeOK
<1>1. CASE Walk("signal")
  BY <1>1, GoodbyesWalk
<1>2. ASSUME NEW p \in {"main", W}, Walk(p)
      PROVE  GoodbyesOK'
  <2>1. p \in Task /\ p # "signal"
    BY <1>0
  <2>2. phase' = phase /\ at'["signal"] = at["signal"]
    BY <1>0, <1>2, <1>a, <2>1, WalkMoves
  <2>3. pos'["signal"] = pos["signal"]
    BY <1>0, <1>2, <1>a, <2>1 DEF Walk, AskClient, PeekClient, OpenList, BeginWalk,
       LockNext, EndWalk, Pass, Announce, FirstUrl, BuildUrl, NextUrl, LastUrl,
       CallTracker, Send
  <2> QED BY <1>2, <2>1, <2>2, <2>3, WalkSays, GoodbyesFrame
<1>3. CASE StartWatching \/ Receive \/ ParseFile \/ AfterWalk
  BY <1>0, <1>3, <1>a, GoodbyesFrame DEF StartWatching, Receive, ParseFile, AfterWalk
<1>4. CASE PushTorrent \/ RetainTorrents
  <2>1. at["signal"] \notin InWalk
    BY <1>0, <1>4, WriterIsAlone DEF PushTorrent, RetainTorrents, Writing
  <2>2. at'["signal"] = at["signal"]
    BY <1>0, <1>4, <1>a DEF PushTorrent, RetainTorrents
  <2> QED BY <2>1, <2>2, GoodbyesOver
<1>5. CASE LoadTorrents
  <2>1. at["signal"] = "unborn"
    BY <1>5 DEF LoadTorrents, TasksOK
  <2>2. at'["signal"] = "unborn"
    BY <1>0, <1>5, <1>a, <2>1 DEF LoadTorrents
  <2> QED BY <2>2, GoodbyesOver DEF InWalk
<1>6. CASE SpawnTasks
  <2>1. at'["signal"] = "idle"
    BY <1>0, <1>6, <1>a DEF SpawnTasks
  <2> QED BY <2>1, GoodbyesOver DEF InWalk
<1>7. CASE AfterTurn \/ WakeUp
  BY <1>0, <1>7, <1>a, GoodbyesFrame DEF AfterTurn, WakeUp
<1>8. CASE Interrupt
  <2>1. CASE at["signal"] = "idle" /\ at'["signal"] = "open"
    BY <2>1, GoodbyesOver DEF InWalk
  <2>2. CASE UNCHANGED announcerVars
    BY <2>2, GoodbyesFrame DEF announcerVars
  <2> QED BY <1>0, <1>8, <1>a, <2>1, <2>2 DEF Interrupt
<1>9. CASE RenewerStep
  BY <1>0, <1>9, <1>a, GoodbyesFrame DEF RenewerStep, AskToRenew, RenewKey
<1>10. CASE Exit \/ User
  BY <1>10, GoodbyesFrame DEF Exit, User, CreateFile, FinishFile, DeleteFile, MoveFile,
     Report, announcerVars
<1> QED
  BY <1>1, <1>2, <1>3, <1>4, <1>5, <1>6, <1>7, <1>8, <1>9, <1>10
     DEF Next, MainStep, WatcherStep, SignalStep

-----------------------------------------------------------------------------
\* What a walk of a task leaves of what the watcher handles.
LEMMA WalkWants ==
    ASSUME TypeOK, NEW p \in Task, Walk(p)
    PROVE  /\ list' = list
           /\ wanted'.file = wanted.file
           /\ phase[p] # "finding" => wanted' = wanted
<1>1. wanted \in [hash : Hash, file : File]
  BY DEF TypeOK
<1>2. CASE Pass(p)
  BY <1>1, <1>2 DEF Pass
<1>3. CASE ~Pass(p)
  BY <1>3 DEF Walk, AskClient, PeekClient, OpenList, BeginWalk, LockNext, EndWalk,
     Announce, FirstUrl, BuildUrl, NextUrl, LastUrl, CallTracker, Send
<1> QED BY <1>2, <1>3

\* A step that leaves the list, and where the watcher is with the removal, alone.
LEMMA FindingFrame ==
    ASSUME FindingOK, list' = list, wanted' = wanted, at'[W] = at[W],
           phase'[W] = phase[W], found'[W] = found[W], pos'[W] = pos[W]
    PROVE  FindingOK'
BY DEF FindingOK, NotAtUpTo, Entries

\* A step after which the watcher is not searching for a removed file.
LEMMA FindingOver ==
    ASSUME phase'[W] # "finding" \/ at'[W] \notin InWalk \cup {"done"}
    PROVE  FindingOK'
BY DEF FindingOK, InWalk, InAnnounce

\* A step of that search: it has gone past one torrent more, has found the one
\* with the file, or is over with the whole list seen.
LEMMA FindingWalk ==
    ASSUME TypeOK, TorrentLocksOK, FindingOK, Walk(W)
    PROVE  FindingOK'
<1>0. W \in Task
  BY DEF W, Task
<1>1. /\ at \in [Task -> Place] /\ pos \in [Task -> Nat] /\ found \in [Task -> BOOLEAN]
      /\ list \in Seq([hash : Hash, file : Path]) /\ wanted \in [hash : Hash, file : File]
  BY DEF TypeOK
<1>2. DOMAIN list = 1 .. Len(list) /\ Len(list) \in Nat
  BY <1>1, LenProperties
<1>3. phase' = phase
  BY <1>0, WalkMoves
<1>4. CASE phase[W] # "finding"
  BY <1>3, <1>4, FindingOver
<1>5. CASE phase[W] = "finding"
  <2> USE <1>0, <1>1, <1>5 DEF GoTo
  <2>1. CASE AskClient(W) \/ PeekClient(W) \/ OpenList(W)
    BY <2>1, FindingOver DEF AskClient, PeekClient, OpenList, InWalk
  <2>2. CASE BeginWalk(W)
    <3>1. /\ at'[W] = "next" /\ pos'[W] = 1 /\ ~found'[W] /\ list' = list
          /\ wanted' = wanted
      BY <2>2 DEF BeginWalk, First
    <3> QED BY <1>2, <3>1 DEF FindingOK, NotAtUpTo, InAnnounce
  <2>3. CASE LockNext(W)
    <3>1. /\ at[W] = "next" /\ at'[W] = "torrent" /\ ~found[W] /\ found' = found
          /\ pos' = pos /\ list' = list /\ wanted' = wanted
      BY <2>3 DEF LockNext, WalkIsOver
    <3> QED BY <3>1 DEF FindingOK, NotAtUpTo, InWalk, InAnnounce
  <2>4. CASE EndWalk(W)
    <3>1. /\ at[W] = "next" /\ at'[W] = "done" /\ found' = found
          /\ found[W] \/ pos[W] \notin DOMAIN list
          /\ list' = list /\ wanted' = wanted
      BY <2>4 DEF EndWalk, WalkIsOver
    <3>2. ~found[W] => pos[W] > Len(list) /\ NotAtUpTo(pos[W])
      BY <1>2, <3>1 DEF FindingOK, InWalk
    <3>3. ~found[W] => NotAtUpTo(Len(list) + 1)
      BY <1>2, <3>2 DEF NotAtUpTo
    <3> QED BY <3>1, <3>3 DEF FindingOK, NotAtUpTo, InWalk, InAnnounce, Entries
  <2>5. CASE Pass(W)
    <3>1. /\ at[W] = "torrent" /\ at'[W] = "next" /\ pos'[W] = pos[W] + 1
          /\ found'[W] = (list[pos[W]].file = wanted.file)
          /\ list' = list /\ wanted'.file = wanted.file
          /\ found'[W] => wanted' = [wanted EXCEPT !.hash = list[pos[W]].hash]
      BY <2>5 DEF Pass, Matches, Following
    <3>2. ~found[W] /\ pos[W] >= 1 /\ NotAtUpTo(pos[W])
      BY <3>1 DEF FindingOK, InWalk
    <3>3. ~found'[W] => NotAtUpTo(pos[W] + 1)
      <4> SUFFICES ASSUME list[pos[W]].file # wanted.file,
                          NEW i \in DOMAIN list, i < pos[W] + 1
                   PROVE  list[i].file # wanted.file
        BY <3>1 DEF NotAtUpTo
      <4>1. pos[W] \in Nat
        OBVIOUS
      <4>2. i < pos[W] \/ i = pos[W]
        BY <1>2, <4>1
      <4> QED BY <3>2, <4>2 DEF NotAtUpTo
    <3>4. found'[W] => wanted' \in Entries'
      <4> SUFFICES ASSUME found'[W] PROVE wanted' \in Entries'
        OBVIOUS
      <4>1. pos[W] \in DOMAIN list /\ list[pos[W]] \in [hash : Hash, file : Path]
        BY <1>2, <3>1, TorrentAtPos DEF AtTorrent
      <4> DEFINE e == list[pos[W]]
      <4>2. /\ wanted' = [hash |-> e.hash, file |-> e.file]
            /\ e = [hash |-> e.hash, file |-> e.file]
        BY <3>1, <4>1
      <4>3. wanted' = list[pos[W]]
        BY <4>2
      <4> QED BY <3>1, <4>1, <4>3 DEF Entries
    <3> QED BY <3>1, <3>2, <3>3, <3>4 DEF FindingOK, NotAtUpTo, InWalk, InAnnounce
  <2>6. ~Announce(W)
    BY DEF Announce, Announces
  <2>7. ~(FirstUrl(W) \/ BuildUrl(W) \/ NextUrl(W) \/ LastUrl(W))
    BY DEF FirstUrl, BuildUrl, NextUrl, LastUrl, FindingOK, InAnnounce
  <2> QED BY <2>1, <2>2, <2>3, <2>4, <2>5, <2>6, <2>7 DEF Walk
<1> QED BY <1>4, <1>5

\* Every step preserves FindingOK.
LEMMA FindingStep ==
    ASSUME TypeOK, TasksOK, TorrentLocksOK, FindingOK, Next
    PROVE  FindingOK'
<1> USE DEF GoTo
<1>0. W \in Task /\ W # "main" /\ W # "signal" /\ W # "renewer"
  BY DEF Task, W
<1>a. at \in [Task -> Place] /\ phase \in [Task -> Phase]
  BY DEF TypeOK
<1>1. CASE Walk(W)
  BY <1>1, FindingWalk
<1>2. ASSUME NEW p \in {"main", "signal"}, Walk(p)
      PROVE  FindingOK'
  <2>1. p \in Task /\ p # W /\ phase[p] # "finding"
    BY <1>0 DEF TasksOK, Task
  <2>2. phase' = phase /\ at'[W] = at[W] /\ list' = list /\ wanted' = wanted
    BY <1>0, <1>2, <1>a, <2>1, WalkMoves, WalkWants
  <2>3. found'[W] = found[W] /\ pos'[W] = pos[W]
    BY <1>0, <1>2, <2>1 DEF TypeOK, Walk, AskClient, PeekClient, OpenList, BeginWalk,
       LockNext, EndWalk, Pass, Announce, FirstUrl, BuildUrl, NextUrl, LastUrl,
       CallTracker, Send
  <2> QED BY <2>2, <2>3, FindingFrame
<1>3. CASE StartWatching \/ Receive \/ ParseFile \/ AfterWalk
  BY <1>0, <1>3, <1>a, FindingOver DEF StartWatching, Receive, ParseFile, AfterWalk, InWalk
<1>4. CASE PushTorrent \/ RetainTorrents
  BY <1>0, <1>4, <1>a, FindingOver DEF PushTorrent, RetainTorrents, InWalk
<1>5. CASE LoadTorrents
  <2>1. at[W] = "unborn"
    BY <1>5 DEF LoadTorrents, TasksOK
  <2>2. at'[W] = "unborn"
    BY <1>0, <1>5, <1>a, <2>1 DEF LoadTorrents
  <2> QED BY <2>2, FindingOver DEF InWalk
<1>6. CASE SpawnTasks
  <2>1. at'[W] = "spawned"
    BY <1>0, <1>6, <1>a DEF SpawnTasks, W
  <2> QED BY <2>1, FindingOver DEF InWalk
<1>7. CASE AfterTurn \/ WakeUp
  BY <1>0, <1>7, <1>a, FindingFrame DEF AfterTurn, WakeUp
<1>8. CASE Interrupt
  BY <1>0, <1>8, <1>a, FindingFrame DEF Interrupt, announcerVars
<1>9. CASE RenewerStep
  BY <1>0, <1>9, <1>a, FindingFrame DEF RenewerStep, AskToRenew, RenewKey
<1>10. CASE Exit \/ User
  BY <1>10, FindingFrame DEF Exit, User, CreateFile, FinishFile, DeleteFile, MoveFile,
     Report, announcerVars
<1> QED
  BY <1>1, <1>2, <1>3, <1>4, <1>5, <1>6, <1>7, <1>8, <1>9, <1>10
     DEF Next, MainStep, WatcherStep, SignalStep

-----------------------------------------------------------------------------
\* A step that changes neither the events nor the directory, and adds no file to
\* those that are listed or about to be.
LEMMA EventsFrame ==
    ASSUME EventsOK, UNCHANGED <<dir, events, missed>>,
           \A f \in File \ missed : Up(f)' => Up(f)
    PROVE  EventsOK'
<1>1. \A kind, f, n : Happens(kind, f, n)' <=> Happens(kind, f, n)
  BY DEF Happens
<1>2. ASSUME NEW f \in File \ missed, NEW n \in Nat, AddedAt(f, n)'
      PROVE  AddedAt(f, n)
  BY <1>1, <1>2 DEF AddedAt
<1> SUFFICES ASSUME NEW f \in File \ missed, NEW m \in 0 .. Len(events), AddedAt(f, m)'
             PROVE  /\ dir[f] = Absent
                         => \E k \in DOMAIN events : m < k /\ Happens("removed", f, k)
                    /\ \A n \in 0 .. Len(events) :
                          m < n /\ AddedAt(f, n)'
                             => \E k \in DOMAIN events :
                                   m < k /\ k < n /\ Happens("removed", f, k)
  BY <1>1 DEF EventsOK
<1>3. AddedAt(f, m)
  BY <1>2
<1> QED BY <1>2, <1>3 DEF EventsOK

\* A step that leaves the list, the directory and the events alone, starts to
\* add no other file, and gives up no removal it still has to make.
LEMMA TrackFrame ==
    ASSUME EventsOK, PresentOK, UNCHANGED <<list, dir, events, missed>>,
           \A f : Adding(f)' => Adding(f),
           \A e \in Entries : Leaving(e) => Leaving(e)' \/ e.file \in missed,
           Hashed' => Known(wanted)',
           at'[W] = "retain" => phase'[W] = "parting",
           at'["main"] = "load" => at["main"] = "load"
    PROVE  EventsOK' /\ PresentOK'
<1>1. Entries' = Entries
  BY DEF Entries
<1>2. ASSUME NEW f \in File \ missed, Up(f)'
      PROVE  Up(f)
  BY <1>1, <1>2 DEF Up
<1>3. EventsOK'
  BY <1>2, EventsFrame
<1>4. \A e \in Entries : Known(e)' <=> Known(e)
  BY DEF Known, Untracked, Reported
<1>5. \A e \in Entries : Leaving(e)' \/ Known(e)
  BY DEF PresentOK, Known, Untracked
<1>6. PresentOK'
  BY <1>1, <1>4, <1>5 DEF PresentOK, Untracked
<1> QED BY <1>3, <1>6

\* In particular one that does not concern the watcher.
LEMMA TrackElsewhere ==
    ASSUME EventsOK, PresentOK,
           UNCHANGED <<list, dir, events, missed, wanted>>,
           at'[W] = at[W], phase'[W] = phase[W],
           at'["main"] = "load" => at["main"] = "load"
    PROVE  EventsOK' /\ PresentOK'
<1>1. \A f : Adding(f)' <=> Adding(f)
  BY DEF Adding, Hashed
<1>2. \A e : Leaving(e)' <=> Leaving(e)
  BY DEF Leaving
<1>3. Hashed' => Known(wanted)'
  BY DEF PresentOK, Hashed, Known, Untracked, Reported
<1>4. at'[W] = "retain" => phase'[W] = "parting"
  BY DEF PresentOK
<1> QED BY <1>1, <1>2, <1>3, <1>4, TrackFrame

\* A walk: the watcher goes on with the file it handles.
LEMMA TrackWalk ==
    ASSUME TypeOK, TasksOK, EventsOK, PresentOK, NEW p \in {"main", W, "signal"}, Walk(p),
           UNCHANGED watcherVars
    PROVE  EventsOK' /\ PresentOK'
<1>1. p \in Task /\ W \in Task /\ "main" \in Task /\ at \in [Task -> Place]
  BY DEF Task, W, TypeOK
<1>2. /\ phase' = phase /\ list' = list
      /\ at[p] \in WalkPlace /\ at'[p] \in WalkPlace
      /\ \A q \in Task \ {p} : at'[q] = at[q]
  <2>1. PICK place \in WalkPlace : at' = [at EXCEPT ![p] = place]
    BY <1>1, WalkMoves
  <2> QED BY <1>1, <2>1, WalkMoves, WalkWants
<1>3. at'["main"] # "load" \/ at'["main"] = at["main"]
  BY <1>1, <1>2 DEF WalkPlace, InWalk
<1>4. CASE p # W
  <2>1. wanted' = wanted /\ at'[W] = at[W]
    <3>1. phase[p] # "finding"
      BY <1>4 DEF TasksOK
    <3> QED BY <1>1, <1>2, <1>4, <3>1, WalkWants
  <2> QED BY <1>2, <1>3, <2>1, TrackElsewhere DEF watcherVars
<1>5. CASE p = W
  <2>1. /\ at[W] \in WalkPlace \ {"settle", "push", "retain"}
        /\ at'[W] \in WalkPlace \ {"settle", "push", "retain"}
    BY <1>2, <1>5 DEF WalkPlace, InWalk
  <2>2. wanted'.file = wanted.file /\ (phase[W] # "finding" => wanted' = wanted)
    BY <1>1, <1>5, WalkWants
  <2>3. \A f : Adding(f)' => Adding(f)
    BY <1>2, <2>1, <2>2 DEF Adding, Hashed
  <2>4. \A e : Leaving(e) => Leaving(e)'
    BY <1>2, <2>1, <2>2 DEF Leaving
  <2>5. Hashed' => Known(wanted)'
    <3>1. Hashed' => Hashed /\ wanted' = wanted
      BY <1>2, <2>1, <2>2 DEF Hashed
    <3> QED BY <3>1 DEF PresentOK, Known, Untracked, Reported, watcherVars
  <2> QED BY <1>2, <1>3, <2>1, <2>3, <2>4, <2>5, TrackFrame DEF watcherVars
<1> QED BY <1>4, <1>5

\* The steps of the watcher that change neither the list nor the events.
LEMMA TrackWatcher ==
    ASSUME TypeOK, TasksOK, EventsOK, PresentOK, FindingOK,
           StartWatching \/ ParseFile \/ AfterWalk
    PROVE  EventsOK' /\ PresentOK'
<1> USE DEF GoTo
<1>1. /\ W \in Task /\ "main" \in Task /\ W # "main" /\ at \in [Task -> Place] /\ phase \in [Task -> Phase]
      /\ list \in Seq([hash : Hash, file : Path]) /\ wanted \in [hash : Hash, file : File]
  BY DEF TypeOK, Task, W
<1>2. UNCHANGED <<list, dir, events, missed>> /\ at'["main"] = at["main"]
  <2>1. CASE StartWatching
    BY <1>1, <2>1 DEF StartWatching, watcherVars
  <2>2. CASE ParseFile
    BY <1>1, <2>2 DEF ParseFile, watcherVars
  <2>3. CASE AfterWalk
    BY <1>1, <2>3 DEF AfterWalk, watcherVars
  <2> QED BY <2>1, <2>2, <2>3
<1>3. CASE StartWatching
  <2>1. at[W] = "spawned" /\ at'[W] \in {"idle", "gone"}
    BY <1>1, <1>3 DEF StartWatching
  <2>2. (\A f : ~Adding(f)') /\ (\A e : ~Leaving(e)) /\ ~Hashed'
    BY <2>1 DEF Adding, Hashed, Leaving, WalkPlace, InWalk
  <2> QED BY <1>2, <2>1, <2>2, TrackFrame
<1>4. CASE ParseFile
  <2>1. at[W] = "settle"
    BY <1>4 DEF ParseFile
  <2>2. \A e : ~Leaving(e)
    BY <2>1 DEF Leaving, WalkPlace, InWalk
  <2>3. CASE at'[W] \in {"panicked", "idle"}
    <3>1. (\A f : ~Adding(f)') /\ ~Hashed'
      BY <2>3 DEF Adding, Hashed, WalkPlace, InWalk
    <3> QED BY <1>2, <2>2, <2>3, <3>1, TrackFrame
  <2>4. CASE at'[W] = "open" /\ wanted' = [wanted EXCEPT !.hash = dir[wanted.file]]
    <3>1. wanted'.file = wanted.file /\ wanted'.hash = dir[wanted.file]
      BY <1>1, <2>4
    <3>2. \A f : Adding(f)' => Adding(f)
      BY <2>1, <3>1 DEF Adding
    <3>3. Known(wanted)'
      BY <1>2, <3>1 DEF Known, Untracked
    <3> QED BY <1>2, <2>2, <2>4, <3>2, <3>3, TrackFrame
  <2> QED BY <1>1, <1>4, <2>3, <2>4 DEF ParseFile
<1>5. CASE AfterWalk
  <2>1. at[W] = "done" /\ wanted' = wanted
    BY <1>5 DEF AfterWalk
  <2>2. CASE /\ at'[W] = "idle"
             /\ phase[W] \in {"dedup", "greeting"} \/ (phase[W] = "finding" /\ ~found[W])
    <3>1. (\A f : ~Adding(f)') /\ ~Hashed'
      BY <2>2 DEF Adding, Hashed, WalkPlace, InWalk
    <3>2. \A e \in Entries : ~Leaving(e)
      <4>1. CASE phase[W] \in {"dedup", "greeting"}
        BY <4>1 DEF Leaving
      <4>2. CASE phase[W] = "finding" /\ ~found[W]
        <5>1. NotAtUpTo(Len(list) + 1)
          BY <2>1, <4>2 DEF FindingOK
        <5>2. \A i \in DOMAIN list : list[i].file # wanted.file
          BY <1>1, <5>1, LenProperties DEF NotAtUpTo
        <5> QED BY <4>2, <5>2 DEF Leaving, Entries
      <4> QED BY <2>2, <4>1, <4>2
    <3> QED BY <1>2, <2>2, <3>1, <3>2, TrackFrame
  <2>3. CASE at'[W] = "push" /\ phase[W] = "dedup" /\ phase' = phase
    <3>1. Hashed
      BY <2>1, <2>3 DEF Hashed, WalkPlace
    <3>2. \A f : Adding(f)' => Adding(f)
      BY <2>1, <3>1 DEF Adding
    <3>3. \A e : ~Leaving(e)
      BY <2>3 DEF Leaving
    <3>4. Known(wanted)'
      BY <1>2, <2>1, <3>1 DEF PresentOK, Known, Untracked, Reported
    <3> QED BY <1>2, <2>3, <3>2, <3>3, <3>4, TrackFrame
  <2>4. CASE at'[W] = "ask" /\ phase[W] = "finding" /\ found[W] /\ phase'[W] = "parting"
    <3>1. (\A f : ~Adding(f)') /\ ~Hashed'
      BY <2>4 DEF Adding, Hashed
    <3>2. wanted \in Entries
      BY <2>1, <2>4 DEF FindingOK
    <3>3. \A e \in Entries : Leaving(e) => Leaving(e)' \/ e.file \in missed
      <4> SUFFICES ASSUME NEW e \in Entries, e.file = wanted.file, e.file \notin missed
                   PROVE  Leaving(e)'
        BY <2>4 DEF Leaving
      <4>1. e = wanted
        BY <1>1, <3>2 DEF PresentOK, Untracked
      <4> QED BY <2>1, <2>4, <4>1 DEF Leaving, WalkPlace
    <3> QED BY <1>2, <2>4, <3>1, <3>3, TrackFrame
  <2>5. CASE at'[W] = "retain" /\ phase[W] = "parting" /\ phase' = phase
    <3>1. (\A f : ~Adding(f)') /\ ~Hashed'
      BY <2>5 DEF Adding, Hashed, WalkPlace, InWalk
    <3>2. \A e \in Entries : Leaving(e) => Leaving(e)'
      BY <2>1, <2>5 DEF Leaving
    <3> QED BY <1>2, <2>5, <3>1, <3>2, TrackFrame
  <2>6. \/ /\ at' = [at EXCEPT ![W] = "idle"]
           /\ phase[W] \in {"dedup", "greeting"} \/ (phase[W] = "finding" /\ ~found[W])
        \/ at' = [at EXCEPT ![W] = "push"] /\ phase[W] = "dedup" /\ phase' = phase
        \/ /\ at' = [at EXCEPT ![W] = "ask"] /\ phase[W] = "finding" /\ found[W]
           /\ phase' = [phase EXCEPT ![W] = "parting"]
        \/ at' = [at EXCEPT ![W] = "retain"] /\ phase[W] = "parting" /\ phase' = phase
    BY <1>5 DEF AfterWalk
  <2> QED BY <1>1, <2>2, <2>3, <2>4, <2>5, <2>6
<1> QED BY <1>3, <1>4, <1>5

\* The push lists the torrent that was to be added.
LEMMA TrackPush ==
    ASSUME TypeOK, TasksOK, EventsOK, PresentOK, PushTorrent
    PROVE  EventsOK' /\ PresentOK'
<1>1. /\ W \in Task /\ "main" \in Task /\ W # "main" /\ at \in [Task -> Place]
      /\ phase \in [Task -> Phase] /\ list \in Seq([hash : Hash, file : Path])
      /\ wanted \in [hash : Hash, file : File]
  BY DEF TypeOK, Task, W
<1>2. /\ at[W] = "push" /\ at'[W] = "ask" /\ phase'[W] = "greeting"
      /\ wanted' = wanted /\ UNCHANGED <<dir, events, missed>> /\ at'["main"] = at["main"]
      /\ list' = Append(list, [hash |-> wanted.hash, file |-> wanted.file])
  BY <1>1 DEF PushTorrent, GoTo, watcherVars
<1>3. Entries' = Entries \cup {wanted}
  <2>1. wanted = [hash |-> wanted.hash, file |-> wanted.file]
    BY <1>1
  <2>2. list' = Append(list, wanted)
    BY <1>2, <2>1
  <2>3. /\ Len(list) \in Nat /\ DOMAIN list = 1 .. Len(list)
        /\ DOMAIN list' = 1 .. Len(list) + 1
        /\ \A i \in DOMAIN list : list'[i] = list[i]
        /\ list'[Len(list) + 1] = wanted
    BY <1>1, <2>2, AppendProperties, LenProperties
  <2>4. DOMAIN list' = DOMAIN list \cup {Len(list) + 1}
    BY <2>3
  <2> QED BY <2>3, <2>4 DEF Entries
<1>4. Hashed /\ Adding(wanted.file) /\ (\A e : ~Leaving(e))
  BY <1>2 DEF Hashed, Adding, Leaving, WalkPlace, InWalk
<1>5. ~Hashed' /\ (\A f : ~Adding(f)') /\ (\A e : ~Leaving(e)')
  BY <1>2 DEF Hashed, Adding, Leaving
<1>6. \A f \in File \ missed : Up(f)' => Up(f)
  BY <1>3, <1>4, <1>5 DEF Up
<1>7. \A e : Known(e)' <=> Known(e)
  BY <1>2 DEF Known, Untracked, Reported
<1>8. \A e, x \in Entries' : e.file = x.file => e = x \/ Untracked(e.file)
  BY <1>3, <1>4 DEF PresentOK, Untracked
<1>9. at'["main"] = "load" => events' = <<>>
  BY <1>2 DEF PresentOK
<1>10. PresentOK'
  BY <1>2, <1>3, <1>4, <1>5, <1>7, <1>8, <1>9 DEF PresentOK, Untracked
<1> QED BY <1>2, <1>6, <1>10, EventsFrame

\* The removal takes every torrent with the hash out: no mutex is taken then.
LEMMA RetainTakesAll ==
    ASSUME TypeOK, ListLockOK, TorrentLocksOK, RetainTorrents
    PROVE  \A e \in Entries' : e \in Entries /\ e.hash # wanted.hash
<1>1. PICK size \in 0 .. Len(list) : \E kept \in [1 .. size -> DOMAIN list] :
          /\ \A i \in DOMAIN list :
                (\E n \in 1 .. size : kept[n] = i)
                    <=> (list[i].hash # wanted.hash \/ Locked(i))
          /\ list' = [n \in 1 .. size |-> list[kept[n]]]
  BY DEF RetainTorrents
<1>2. PICK kept \in [1 .. size -> DOMAIN list] :
          /\ \A i \in DOMAIN list :
                (\E n \in 1 .. size : kept[n] = i)
                    <=> (list[i].hash # wanted.hash \/ Locked(i))
          /\ list' = [n \in 1 .. size |-> list[kept[n]]]
  BY <1>1
<1>3. list \in Seq([hash : Hash, file : Path]) /\ mutex \in Seq(Lock(Task))
  BY DEF TypeOK
<1>4. DOMAIN mutex = DOMAIN list
  BY <1>3, LenProperties DEF TorrentLocksOK
<1>5. \A i \in DOMAIN list : ~Locked(i)
  <2> SUFFICES ASSUME NEW i \in DOMAIN list PROVE ~Locked(i)
    OBVIOUS
  <2>1. mutex[i] \in Lock(Task)
    BY <1>3, <1>4, ElementOfSeq, LenProperties
  <2>2. \A p \in Task : mutex[i].mode[p] = "none"
    BY <1>4, WriterFindsAllFree DEF RetainTorrents, Writing
  <2> QED BY <2>1, <2>2 DEF Locked, Asked, Lock
<1>6. \A n \in 1 .. size : kept[n] \in DOMAIN list /\ list[kept[n]].hash # wanted.hash
  BY <1>2, <1>5
<1> QED BY <1>2, <1>6 DEF Entries

LEMMA TrackRetain ==
    ASSUME TypeOK, ListLockOK, TorrentLocksOK, EventsOK, PresentOK, RetainTorrents
    PROVE  EventsOK' /\ PresentOK'
<1>1. /\ W \in Task /\ "main" \in Task /\ W # "main" /\ at \in [Task -> Place]
  BY DEF TypeOK, Task, W
<1>2. /\ at[W] = "retain" /\ at'[W] = "idle" /\ phase[W] = "parting"
      /\ UNCHANGED <<dir, events, missed>> /\ at'["main"] = at["main"]
  BY <1>1 DEF RetainTorrents, PresentOK, GoTo, watcherVars
<1>3. \A e \in Entries' : e \in Entries /\ ~Leaving(e)
  BY <1>2, RetainTakesAll DEF Leaving
<1>4. ~Hashed' /\ (\A f : ~Adding(f)') /\ (\A e : ~Leaving(e)')
  BY <1>2 DEF Hashed, Adding, Leaving, WalkPlace, InWalk
<1>5. \A f \in File \ missed : Up(f)' => Up(f)
  BY <1>3, <1>4 DEF Up
<1>6. \A e : Known(e)' <=> Known(e)
  BY <1>2 DEF Known, Untracked, Reported
<1>7. PresentOK'
  BY <1>2, <1>3, <1>4, <1>6 DEF PresentOK, Untracked
<1> QED BY <1>2, <1>5, <1>7, EventsFrame

\* What load_torrents lists is what the directory holds.
LEMMA TrackLoad ==
    ASSUME TypeOK, TasksOK, PresentOK, LoadTorrents
    PROVE  EventsOK' /\ PresentOK'
<1>1. PICK size \in 0 .. Cardinality(File) :
         \E order \in [1 .. size -> {f \in File : dir[f] \in Hash}] :
            list' = [n \in 1 .. size |-> [hash |-> dir[order[n]], file |-> SourcePath[order[n]]]]
  BY DEF LoadTorrents
<1>2. PICK order \in [1 .. size -> {f \in File : dir[f] \in Hash}] :
         list' = [n \in 1 .. size |-> [hash |-> dir[order[n]], file |-> SourcePath[order[n]]]]
  BY <1>1
<1>3. /\ W \in Task /\ "main" \in Task /\ at \in [Task -> Place]
  BY DEF TypeOK, Task, W
<1>4. /\ at'[W] = "unborn" /\ at'["main"] = "open" /\ events = <<>>
      /\ UNCHANGED <<dir, events, missed>>
  BY <1>3 DEF LoadTorrents, TasksOK, PresentOK, GoTo, watcherVars, W
<1>5. \A e \in Entries' :
         \/ e.file \notin File
         \/ e = [hash |-> dir[e.file], file |-> e.file] /\ dir[e.file] \in Hash
  <2> SUFFICES ASSUME NEW e \in Entries', e.file \in File
               PROVE  e = [hash |-> dir[e.file], file |-> e.file] /\ dir[e.file] \in Hash
    OBVIOUS
  <2>1. PICK n \in 1 .. size : e = [hash |-> dir[order[n]], file |-> SourcePath[order[n]]]
    BY <1>2 DEF Entries
  <2>2. order[n] \in File /\ dir[order[n]] \in Hash
    BY <2>1
  <2>3. e.file = order[n]
    BY <2>1, <2>2, SourceAssumption
  <2> QED BY <2>1, <2>2, <2>3
<1>6. ~Hashed' /\ (\A f : ~Adding(f)') /\ (\A e : ~Leaving(e)')
  BY <1>4 DEF Hashed, Adding, Leaving, WalkPlace, InWalk
<1>7. PresentOK'
  <2>1. \A e \in Entries' : Known(e)'
    <3> SUFFICES ASSUME NEW e \in Entries', e.file \in File PROVE dir[e.file] = e.hash
      BY <1>4 DEF Known, Untracked
    <3>1. e = [hash |-> dir[e.file], file |-> e.file]
      BY <1>5
    <3> QED BY <3>1
  <2>2. \A e, x \in Entries' : e.file = x.file => e = x \/ e.file \notin File
    BY <1>5
  <2> QED BY <1>4, <1>6, <2>1, <2>2 DEF PresentOK, Untracked
<1>8. EventsOK'
  <2>1. Len(events) = 0 /\ DOMAIN events = {}
    BY <1>4
  <2>2. \A f \in File : \A m : AddedAt(f, m)' => dir[f] # Absent
    <3> SUFFICES ASSUME NEW f \in File, NEW m, AddedAt(f, m)' PROVE dir[f] # Absent
      OBVIOUS
    <3>1. Up(f)'
      BY <1>4, <2>1 DEF AddedAt, Happens
    <3>2. PICK e \in Entries' : e.file = f
      BY <1>6, <3>1 DEF Up
    <3> QED BY <1>5, <3>2, DirectoryAssumption
  <2> QED BY <1>4, <2>1, <2>2 DEF EventsOK
<1> QED BY <1>7, <1>8

\* The watcher takes the oldest event: an addition becomes the file it handles,
\* a removal the torrents that are to leave.
LEMMA TrackReceive ==
    ASSUME TypeOK, TasksOK, EventsOK, PresentOK, Receive
    PROVE  EventsOK' /\ PresentOK'
<1> DEFINE g == Head(events).file
<1>1. /\ W \in Task /\ "main" \in Task /\ W # "main" /\ at \in [Task -> Place]
      /\ phase \in [Task -> Phase] /\ wanted \in [hash : Hash, file : File]
      /\ events \in Seq(FsEvent) /\ events # <<>>
  BY DEF TypeOK, Task, W, Receive
<1>2. /\ at[W] = "idle" /\ at'["main"] = at["main"]
      /\ UNCHANGED <<list, dir, missed>> /\ events' = Tail(events)
      /\ wanted' = [wanted EXCEPT !.file = g]
      /\ \/ Head(events).kind = "added" /\ at'[W] = "settle"
         \/ Head(events).kind = "removed" /\ at'[W] = "open" /\ phase'[W] = "finding"
  BY <1>1 DEF Receive, GoTo
<1>3. /\ Len(events) \in Nat /\ Len(events) >= 1 /\ DOMAIN events = 1 .. Len(events)
      /\ Len(events') = Len(events) - 1 /\ DOMAIN events' = 1 .. Len(events) - 1
      /\ \A n \in 1 .. Len(events) - 1 : events'[n] = events[n + 1]
      /\ Head(events) = events[1] /\ events[1] \in FsEvent
  BY <1>1, <1>2, LenProperties, HeadTailProperties, ElementOfSeq
<1>4. /\ wanted'.file = g /\ g \in File
      /\ events[1] = [kind |-> events[1].kind, file |-> g]
  BY <1>1, <1>2, <1>3 DEF FsEvent
<1> HIDE DEF g
<1>5. Entries' = Entries
  BY <1>2 DEF Entries
<1>6. (\A f : ~Adding(f)) /\ (\A e : ~Leaving(e)) /\ ~Hashed
  BY <1>2 DEF Adding, Hashed, Leaving, WalkPlace, InWalk
<1>7. ~Hashed' /\ \A f : Adding(f)' => f = g /\ Happens("added", g, 1)
  BY <1>2, <1>3, <1>4 DEF Adding, Hashed, WalkPlace, InWalk, Happens
<1>8. \A e : \/ Leaving(e)' /\ e.file = g
             \/ ~Leaving(e)' /\ (e.file = g => ~Happens("removed", g, 1))
  BY <1>2, <1>3, <1>4 DEF Leaving, WalkPlace, InWalk, Happens
<1>9. \A kind, f : \A n \in 0 .. Len(events') :
         Happens(kind, f, n)' => n \in 1 .. Len(events') /\ Happens(kind, f, n + 1)
  BY <1>3 DEF Happens
<1>10. \A f : \A k \in DOMAIN events :
          k > 1 /\ Happens("removed", f, k)
             => k - 1 \in DOMAIN events' /\ Happens("removed", f, k - 1)'
  BY <1>3 DEF Happens
\* What counts as added now did before, at the head or one place later; and
\* the head is then not a removal of the file.
<1>11. ASSUME NEW f \in File, NEW m \in 0 .. Len(events'), AddedAt(f, m)'
       PROVE  \E l \in 0 .. Len(events) :
                 /\ AddedAt(f, l) /\ l <= m + 1
                 /\ \A k \in DOMAIN events :
                       l < k /\ Happens("removed", f, k) => m < k - 1
  <2>1. CASE Happens("added", f, m)'
    <3>1. AddedAt(f, m + 1) /\ m + 1 \in 0 .. Len(events)
      BY <1>3, <1>9, <2>1 DEF AddedAt
    <3> QED BY <1>3, <3>1
  <2>2. CASE m = 0 /\ Adding(f)'
    <3>1. AddedAt(f, 1)
      BY <1>7, <2>2 DEF AddedAt
    <3> QED BY <1>3, <2>2, <3>1
  <2>3. CASE m = 0 /\ \E e \in Entries : e.file = f /\ ~Leaving(e)'
    <3>1. AddedAt(f, 0)
      BY <1>6, <2>3 DEF AddedAt, Up
    <3>2. ~Happens("removed", f, 1)
      BY <1>3, <1>4, <1>8, <2>3 DEF Happens
    <3> QED BY <1>3, <2>3, <3>1, <3>2
  <2> QED BY <1>5, <1>11, <2>1, <2>2, <2>3 DEF AddedAt, Up
<1>12. EventsOK'
  <2> SUFFICES ASSUME NEW f \in File \ missed, NEW m \in 0 .. Len(events'), AddedAt(f, m)'
               PROVE  /\ dir[f] = Absent
                           => \E k \in DOMAIN events' : m < k /\ Happens("removed", f, k)'
                      /\ \A n \in 0 .. Len(events') :
                            m < n /\ AddedAt(f, n)'
                               => \E k \in DOMAIN events' :
                                     m < k /\ k < n /\ Happens("removed", f, k)'
    BY <1>2 DEF EventsOK
  <2>1. PICK l \in 0 .. Len(events) :
                 /\ AddedAt(f, l) /\ l <= m + 1
                 /\ \A k \in DOMAIN events :
                       l < k /\ Happens("removed", f, k) => m < k - 1
    BY <1>11
  <2>2. ASSUME dir[f] = Absent
        PROVE  \E k \in DOMAIN events' : m < k /\ Happens("removed", f, k)'
    <3>1. PICK k \in DOMAIN events : l < k /\ Happens("removed", f, k)
      BY <2>1, <2>2 DEF EventsOK
    <3>2. m < k - 1 /\ k > 1
      BY <1>3, <2>1, <3>1
    <3> QED BY <1>10, <3>1, <3>2
  <2>3. ASSUME NEW n \in 0 .. Len(events'), m < n, AddedAt(f, n)'
        PROVE  \E k \in DOMAIN events' : m < k /\ k < n /\ Happens("removed", f, k)'
    <3>1. AddedAt(f, n + 1) /\ n + 1 \in 0 .. Len(events) /\ l < n + 1
      <4>1. Happens("added", f, n)'
        BY <2>3 DEF AddedAt
      <4> QED BY <1>3, <1>9, <2>1, <2>3, <4>1 DEF AddedAt
    <3>2. PICK k \in DOMAIN events : l < k /\ k < n + 1 /\ Happens("removed", f, k)
      BY <2>1, <3>1 DEF EventsOK
    <3>3. m < k - 1 /\ k > 1 /\ k - 1 < n
      BY <1>3, <2>1, <3>2
    <3> QED BY <1>10, <3>2, <3>3
  <2> QED BY <2>2, <2>3
<1>13. PresentOK'
  <2>1. \A e \in Entries : Leaving(e)' \/ Known(e)'
    <3> SUFFICES ASSUME NEW e \in Entries, ~Leaving(e)' PROVE Known(e)'
      OBVIOUS
    <3>1. Known(e)
      BY <1>6 DEF PresentOK
    <3>2. CASE Reported(e.file)
      <4>1. PICK n \in DOMAIN events : Happens("removed", e.file, n)
        BY <3>2 DEF Reported, Happens
      <4>2. n # 1
        BY <1>3, <1>4, <1>8, <4>1 DEF Happens
      <4>3. n - 1 \in DOMAIN events' /\ Happens("removed", e.file, n - 1)'
        BY <1>3, <1>10, <4>1, <4>2
      <4> QED BY <4>3 DEF Known, Untracked, Reported, Happens
    <3> QED BY <1>2, <3>1, <3>2 DEF Known, Untracked
  <2>2. \A e \in Entries : Adding(e.file)' => e.file \in missed
    <3> SUFFICES ASSUME NEW e \in Entries, Adding(e.file)', e.file \notin missed
                 PROVE  FALSE
      OBVIOUS
    <3>1. e.file = g /\ AddedAt(g, 0) /\ AddedAt(g, 1)
      BY <1>6, <1>7 DEF AddedAt, Up
    <3>2. \E k \in DOMAIN events : 0 < k /\ k < 1
      BY <1>3, <1>4, <3>1 DEF EventsOK
    <3> QED BY <1>3, <3>2
  <2>3. at'["main"] = "load" => events' = <<>>
    BY <1>1, <1>2 DEF PresentOK
  <2> QED BY <1>2, <1>5, <1>7, <2>1, <2>2, <2>3 DEF PresentOK, Untracked
<1> QED BY <1>12, <1>13

\* An entry of the list is a torrent.
LEMMA EntryType ==
    ASSUME list \in Seq([hash : Hash, file : Path])
    PROVE  \A e \in Entries : e \in [hash : Hash, file : Path]
<1>1. DOMAIN list = 1 .. Len(list)
  BY LenProperties
<1>2. \A i \in 1 .. Len(list) : list[i] \in [hash : Hash, file : Path]
  BY ElementOfSeq
<1> QED BY <1>1, <1>2 DEF Entries

\* What the user does is nothing the watcher does.
LEMMA UserElsewhere ==
    ASSUME UNCHANGED announcerVars
    PROVE  /\ Entries' = Entries /\ (Hashed' <=> Hashed)
           /\ \A f : Adding(f)' <=> Adding(f)
           /\ \A e : Leaving(e)' <=> Leaving(e)
           /\ \A f : Up(f)' <=> Up(f)
<1>1. /\ Entries' = Entries /\ (Hashed' <=> Hashed)
      /\ \A f : Adding(f)' <=> Adding(f)
      /\ \A e : Leaving(e)' <=> Leaving(e)
  BY DEF announcerVars, Entries, Hashed, Adding, Leaving
<1> QED BY <1>1 DEF Up

\* A change without a new event: the file counts as missed, or is finished.
LEMMA TrackQuietly ==
    ASSUME EventsOK, PresentOK, UNCHANGED announcerVars, events' = events,
           missed \subseteq missed',
           \A f \in File : f \in missed' \/ dir'[f] = dir[f]
                           \/ (dir[f] = Partial /\ dir'[f] \in Hash),
           list \in Seq([hash : Hash, file : Path]), wanted \in [hash : Hash, file : File]
    PROVE  EventsOK' /\ PresentOK'
<1>1. \A kind, f, n : Happens(kind, f, n)' <=> Happens(kind, f, n)
  BY DEF Happens
<1>2. \A f, n : AddedAt(f, n)' <=> AddedAt(f, n)
  BY <1>1, UserElsewhere DEF AddedAt
<1>3. \A f \in File \ missed' : dir'[f] = Absent => dir[f] = Absent
  BY DirectoryAssumption
<1>4. EventsOK'
  BY <1>1, <1>2, <1>3 DEF EventsOK
<1>5. ASSUME NEW e \in [hash : Hash, file : Path], Known(e)
      PROVE  Known(e)'
  <2>1. e.hash # Partial
    BY <1>5, DirectoryAssumption
  <2> QED BY <1>5, <2>1 DEF Known, Untracked, Reported
<1>6. \A e \in Entries : e \in [hash : Hash, file : Path]
  BY EntryType
<1>7. at'["main"] = "load" => events' = <<>>
  BY DEF PresentOK, announcerVars
<1>8. wanted' = wanted /\ at' = at /\ phase' = phase
  BY DEF announcerVars
<1>9. Hashed' => Known(wanted)'
  <2>1. wanted \in [hash : Hash, file : Path]
    BY DEF Path
  <2> QED BY <1>5, <1>8, <2>1, UserElsewhere DEF PresentOK, Known, Untracked
<1>10. \A e \in Entries : Leaving(e)' \/ Known(e)'
  BY <1>5, <1>6, UserElsewhere DEF PresentOK
<1>11. \A e, x \in Entries : e.file = x.file => e = x \/ Untracked(e.file)'
  BY DEF PresentOK, Untracked
<1>12. \A e \in Entries : Adding(e.file)' => e.file \in missed'
  BY UserElsewhere DEF PresentOK
<1>13. at'[W] = "retain" => phase'[W] = "parting"
  BY <1>8 DEF PresentOK
<1>14. PresentOK'
  BY <1>7, <1>9, <1>10, <1>11, <1>12, <1>13, UserElsewhere DEF PresentOK
<1> QED BY <1>4, <1>14

\* A change the watcher is told of: the event goes behind all others.
LEMMA TrackReported ==
    ASSUME TypeOK, TasksOK, EventsOK, PresentOK, UNCHANGED announcerVars, missed' = missed,
           Watching, NEW g \in File, NEW kind \in {"added", "removed"},
           events' = Append(events, [kind |-> kind, file |-> g]),
           \A f \in File \ {g} : dir'[f] = dir[f],
           \/ kind = "added" /\ dir[g] = Absent /\ dir'[g] = Partial
           \/ kind = "removed" /\ dir'[g] = Absent
    PROVE  EventsOK' /\ PresentOK'
<1> DEFINE new == [kind |-> kind, file |-> g]
<1>1. events \in Seq(FsEvent) /\ new \in FsEvent
  BY DEF TypeOK, FsEvent
<1>2. events' = Append(events, new)
  OBVIOUS
<1> HIDE DEF new
<1>3. /\ Len(events) \in Nat /\ DOMAIN events = 1 .. Len(events)
      /\ Len(events') = Len(events) + 1 /\ DOMAIN events' = 1 .. Len(events) + 1
      /\ \A n \in 1 .. Len(events) : events'[n] = events[n]
      /\ events'[Len(events) + 1] = new
  BY <1>1, <1>2, LenProperties, AppendProperties
<1>l. PICK last \in Nat : last = Len(events) + 1
  BY <1>3
<1>4. \A k, f : \A n \in 0 .. Len(events) : Happens(k, f, n)' <=> Happens(k, f, n)
  BY <1>3 DEF Happens
<1>5. /\ Happens(kind, g, last)'
      /\ \A k, f : Happens(k, f, last)' => k = kind /\ f = g
  <2>1. Happens(kind, g, last)'
    BY <1>3, <1>l DEF Happens, new
  <2>2. ASSUME NEW k, NEW f, Happens(k, f, last)'
        PROVE  k = kind /\ f = g
    <3>1. [kind |-> kind, file |-> g] = [kind |-> k, file |-> f]
      BY <1>3, <1>l, <2>2 DEF Happens, new
    <3>2. /\ [kind |-> kind, file |-> g].kind = kind /\ [kind |-> kind, file |-> g].file = g
          /\ [kind |-> k, file |-> f].kind = k /\ [kind |-> k, file |-> f].file = f
      OBVIOUS
    <3> QED BY <3>1, <3>2
  <2> QED BY <2>1, <2>2
<1>6. \A f : \A n \in 0 .. Len(events) : AddedAt(f, n)' <=> AddedAt(f, n)
  BY <1>4, UserElsewhere DEF AddedAt
<1>7. \A f : AddedAt(f, last)' => kind = "added" /\ f = g
  BY <1>3, <1>5, <1>l DEF AddedAt
<1>8. DOMAIN events \subseteq DOMAIN events' /\ \A k \in DOMAIN events : k \in 0 .. Len(events)
  BY <1>3
<1>9. EventsOK'
  <2> SUFFICES ASSUME NEW f \in File \ missed, NEW m \in 0 .. Len(events'), AddedAt(f, m)'
               PROVE  /\ dir'[f] = Absent
                           => \E k \in DOMAIN events' : m < k /\ Happens("removed", f, k)'
                      /\ \A n \in 0 .. Len(events') :
                            m < n /\ AddedAt(f, n)'
                               => \E k \in DOMAIN events' :
                                     m < k /\ k < n /\ Happens("removed", f, k)'
    BY DEF EventsOK
  <2>1. CASE m = last
    <3>1. dir'[f] # Absent
      <4>1. f = g /\ kind = "added"
        BY <1>7, <2>1
      <4> QED BY <4>1, DirectoryAssumption
    <3>2. \A n \in 0 .. Len(events') : ~(m < n)
      BY <1>3, <1>l, <2>1
    <3> QED BY <3>1, <3>2
  <2>2. CASE m \in 0 .. Len(events)
    <3>1. AddedAt(f, m)
      BY <1>6, <2>2
    <3>2. ASSUME dir[f] = Absent
          PROVE  \E k \in DOMAIN events :
                    /\ k \in DOMAIN events' /\ m < k /\ k < last
                    /\ Happens("removed", f, k)'
      <4>1. PICK k \in DOMAIN events : m < k /\ Happens("removed", f, k)
        BY <2>2, <3>1, <3>2 DEF EventsOK
      <4> QED BY <1>3, <1>4, <1>8, <1>l, <4>1
    <3>3. ASSUME dir'[f] = Absent
          PROVE  \E k \in DOMAIN events' : m < k /\ Happens("removed", f, k)'
      <4>1. CASE f # g
        BY <3>2, <3>3, <4>1
      <4>2. CASE f = g
        <5>1. kind = "removed"
          BY <3>3, <4>2, DirectoryAssumption
        <5>2. last \in DOMAIN events' /\ m < last
          BY <1>3, <1>l, <2>2
        <5> QED BY <1>5, <4>2, <5>1, <5>2
      <4> QED BY <4>1, <4>2
    <3>4. ASSUME NEW n \in 0 .. Len(events'), m < n, AddedAt(f, n)'
          PROVE  \E k \in DOMAIN events' : m < k /\ k < n /\ Happens("removed", f, k)'
      <4>1. CASE n = last
        <5>1. dir[f] = Absent
          BY <1>7, <3>4, <4>1
        <5> QED BY <3>2, <4>1, <5>1
      <4>2. CASE n \in 0 .. Len(events)
        <5>1. PICK k \in DOMAIN events : m < k /\ k < n /\ Happens("removed", f, k)
          BY <1>6, <2>2, <3>1, <3>4, <4>2 DEF EventsOK
        <5> QED BY <1>4, <1>8, <5>1
      <4> QED BY <1>3, <1>l, <4>1, <4>2
    <3> QED BY <3>3, <3>4
  <2> QED BY <1>3, <1>l, <2>1, <2>2
<1>10. \A f : Reported(f) => Reported(f)'
  BY <1>3 DEF Reported
<1>11. ASSUME NEW e \in [hash : Hash, file : Path], Known(e)
       PROVE  Known(e)'
  <2>1. CASE e.file # g \/ Untracked(e.file) \/ Reported(e.file)
    BY <1>10, <1>11, <2>1 DEF Known, Untracked
  <2>2. CASE e.file = g /\ dir[g] = e.hash
    <3>1. e.hash # Absent
      BY <1>11, DirectoryAssumption
    <3>2. kind = "removed"
      BY <2>2, <3>1
    <3>3. Reported(g)'
      BY <1>3, <3>2 DEF Reported, new
    <3> QED BY <2>2, <3>3 DEF Known, Untracked
  <2> QED BY <1>11, <2>1, <2>2 DEF Known, Untracked
<1>12. \A e \in Entries : e \in [hash : Hash, file : Path]
  BY EntryType DEF TypeOK
<1>13. wanted' = wanted /\ at' = at /\ phase' = phase /\ wanted \in [hash : Hash, file : File]
  BY DEF announcerVars, TypeOK
<1>14. at["main"] # "load"
  BY DEF TasksOK, Watching
<1>15. Hashed' => Known(wanted)'
  <2>1. wanted \in [hash : Hash, file : Path]
    BY <1>13 DEF Path
  <2> QED BY <1>11, <1>13, <2>1, UserElsewhere DEF PresentOK, Known, Untracked
<1>16. \A e \in Entries : Leaving(e)' \/ Known(e)'
  BY <1>11, <1>12, UserElsewhere DEF PresentOK
<1>17. PresentOK'
  BY <1>13, <1>14, <1>15, <1>16, UserElsewhere DEF PresentOK, Untracked
<1> QED BY <1>9, <1>17

LEMMA TrackUser ==
    ASSUME TypeOK, TasksOK, EventsOK, PresentOK, User
    PROVE  EventsOK' /\ PresentOK'
<1>1. /\ dir \in [File -> Content] /\ list \in Seq([hash : Hash, file : Path])
      /\ wanted \in [hash : Hash, file : File]
  BY DEF TypeOK
<1>2. PICK g \in File : CreateFile(g) \/ FinishFile(g) \/ DeleteFile(g) \/ MoveFile(g)
  BY DEF User
<1>3. UNCHANGED announcerVars /\ \A f \in File \ {g} : dir'[f] = dir[f]
  BY <1>1, <1>2 DEF CreateFile, FinishFile, DeleteFile, MoveFile, Report
<1>4. CASE FinishFile(g) \/ MoveFile(g)
  <2>1. events' = events /\ missed \subseteq missed'
    BY <1>4 DEF FinishFile, MoveFile
  <2>2. g \in missed' \/ (dir[g] = Partial /\ dir'[g] \in Hash)
    BY <1>1, <1>4 DEF FinishFile, MoveFile
  <2> QED BY <1>1, <1>3, <2>1, <2>2, TrackQuietly
<1>5. CASE (CreateFile(g) \/ DeleteFile(g)) /\ ~Watching
  <2>1. events' = events /\ missed \subseteq missed' /\ g \in missed'
    BY <1>5 DEF CreateFile, DeleteFile, Report
  <2> QED BY <1>1, <1>3, <2>1, TrackQuietly
<1>6. CASE CreateFile(g) /\ Watching
  <2>1. /\ events' = Append(events, [kind |-> "added", file |-> g]) /\ missed' = missed
        /\ dir[g] = Absent /\ dir'[g] = Partial
    BY <1>1, <1>6 DEF CreateFile, Report
  <2> QED BY <1>3, <1>6, <2>1, TrackReported
<1>7. CASE DeleteFile(g) /\ Watching
  <2>1. /\ events' = Append(events, [kind |-> "removed", file |-> g]) /\ missed' = missed
        /\ dir'[g] = Absent
    BY <1>1, <1>7 DEF DeleteFile, Report
  <2> QED BY <1>3, <1>7, <2>1, TrackReported
<1> QED BY <1>2, <1>4, <1>5, <1>6, <1>7

\* Every step preserves EventsOK and PresentOK.
LEMMA TrackStep ==
    ASSUME TypeOK, TasksOK, ListLockOK, TorrentLocksOK, EventsOK, PresentOK, FindingOK, Next
    PROVE  EventsOK' /\ PresentOK'
<1> USE DEF GoTo
<1>1. /\ W \in Task /\ "main" \in Task /\ "signal" \in Task /\ "renewer" \in Task
      /\ W # "main" /\ W # "signal" /\ W # "renewer"
      /\ at \in [Task -> Place] /\ phase \in [Task -> Phase]
  BY DEF TypeOK, Task, W
<1>2. ASSUME NEW p \in {"main", W, "signal"}, Walk(p), UNCHANGED watcherVars
      PROVE  EventsOK' /\ PresentOK'
  BY <1>2, TrackWalk
<1>3. CASE StartWatching \/ ParseFile \/ AfterWalk
  BY <1>3, TrackWatcher
<1>4. CASE Receive \/ PushTorrent \/ RetainTorrents
  BY <1>4, TrackReceive, TrackPush, TrackRetain
<1>5. CASE LoadTorrents
  BY <1>5, TrackLoad
<1>6. CASE SpawnTasks
  <2>1. at[W] = "unborn" /\ at'[W] = "spawned" /\ at'["main"] = "open"
    BY <1>1, <1>6 DEF SpawnTasks, TasksOK, W
  <2>2. (\A f : ~Adding(f)') /\ (\A e : ~Leaving(e)) /\ ~Hashed'
    BY <2>1 DEF Adding, Hashed, Leaving, WalkPlace, InWalk
  <2> QED BY <1>6, <2>1, <2>2, TrackFrame DEF SpawnTasks, watcherVars
<1>7. CASE AfterTurn
  <2>1. at'[W] = at[W] /\ phase'[W] = phase[W] /\ at'["main"] # "load"
    BY <1>1, <1>7 DEF AfterTurn
  <2> QED BY <1>7, <2>1, TrackElsewhere DEF AfterTurn, watcherVars
<1>8. CASE WakeUp
  <2>1. at'[W] = at[W] /\ phase'[W] = phase[W] /\ at'["main"] # "load"
    BY <1>1, <1>8 DEF WakeUp
  <2> QED BY <1>8, <2>1, TrackElsewhere DEF WakeUp, watcherVars
<1>9. CASE Interrupt
  <2>1. /\ at'[W] = at[W] /\ phase'[W] = phase[W] /\ at'["main"] = at["main"]
        /\ UNCHANGED <<list, dir, events, missed, wanted>>
    BY <1>1, <1>9 DEF Interrupt, announcerVars, watcherVars
  <2> QED BY <2>1, TrackElsewhere
<1>10. CASE RenewerStep
  <2>1. /\ at'[W] = at[W] /\ phase'[W] = phase[W] /\ at'["main"] = at["main"]
        /\ UNCHANGED <<list, dir, events, missed, wanted>>
    BY <1>1, <1>10 DEF RenewerStep, AskToRenew, RenewKey, watcherVars
  <2> QED BY <2>1, TrackElsewhere
<1>11. CASE Exit
  BY <1>11, TrackElsewhere DEF Exit, announcerVars, watcherVars
<1>12. CASE User
  BY <1>12, TrackUser
<1> QED
  BY <1>2, <1>3, <1>4, <1>5, <1>6, <1>7, <1>8, <1>9, <1>10, <1>11, <1>12
     DEF Next, MainStep, WatcherStep, SignalStep

-----------------------------------------------------------------------------
\* All that a step of a walk can say is its event of the torrent it announces.
LEMMA WalkSaysOnly ==
    ASSUME TypeOK, TorrentLocksOK, NEW p \in Task, Walk(p), NEW h \in Hash
    PROVE  \/ said'[h] = said[h]
           \/ /\ at[p] \in InAnnounce /\ h = list[pos[p]].hash
              /\ said'[h] = said[h] \cup {EventOf(p)}
<1>1. said \in [Hash -> SUBSET Event]
  BY DEF TypeOK
<1>2. CASE AskClient(p) \/ PeekClient(p) \/ OpenList(p) \/ BeginWalk(p) \/ LockNext(p)
           \/ EndWalk(p) \/ Pass(p) \/ Announce(p) \/ LastUrl(p)
  BY <1>2 DEF AskClient, PeekClient, OpenList, BeginWalk, LockNext, EndWalk, Pass,
     Announce, LastUrl
<1>3. CASE FirstUrl(p) \/ BuildUrl(p) \/ NextUrl(p)
  <2>1. at[p] \in InAnnounce /\ (said' = said \/ Send(p))
    BY <1>3 DEF FirstUrl, BuildUrl, NextUrl, CallTracker, InAnnounce
  <2> QED BY <1>1, <2>1 DEF Send
<1> QED BY <1>2, <1>3 DEF Walk

\* A step that leaves the list and every announce alone.
LEMMA SaidFrame ==
    ASSUME SaidOK, list' = list, said' = said, phase' = phase,
           at'["main"] = "load" => at["main"] = "load",
           \A p \in Task : at'[p] = "answer" => at[p] = "answer" /\ pos'[p] = pos[p]
    PROVE  SaidOK'
BY DEF SaidOK, EventOf

\* A step that changes the phase of a task outside an announce.
LEMMA SaidPhase ==
    ASSUME SaidOK, list' = list, said' = said, pos' = pos, NEW q \in Task,
           at'[q] \notin {"load", "answer"},
           \A p \in Task \ {q} : at'[p] = at[p] /\ phase'[p] = phase[p]
    PROVE  SaidOK'
<1>1. at'["main"] = "load" => list' = <<>>
  BY DEF SaidOK, Task
<1>2. ASSUME NEW p \in Task, at'[p] = "answer"
      PROVE  EventOf(p)' \in said'[list'[pos'[p]].hash]
  <2>1. p # q
    BY <1>2
  <2> QED BY <1>2, <2>1 DEF SaidOK, EventOf
<1> QED BY <1>1, <1>2 DEF SaidOK

\* A step of a walk preserves SaidOK.
LEMMA SaidWalk ==
    ASSUME TypeOK, TorrentLocksOK, SaidOK, NEW p \in Task, Walk(p)
    PROVE  SaidOK'
<1>0. /\ at \in [Task -> Place] /\ said \in [Hash -> SUBSET Event]
      /\ pos \in [Task -> Nat]
  BY DEF TypeOK
<1>1. /\ list' = list /\ \A h \in Hash : said[h] \subseteq said'[h]
      /\ at'[p] = "answer" => /\ at[p] \in InAnnounce /\ pos' = pos
                              /\ EventOf(p) \in said'[list[pos[p]].hash]
  BY WalkSays
<1>2. /\ phase' = phase
      /\ \E place \in WalkPlace : at' = [at EXCEPT ![p] = place]
  BY WalkMoves
<1>3. at'["main"] = "load" => list' = <<>>
  BY <1>0, <1>1, <1>2 DEF SaidOK, WalkPlace, InWalk
<1>4. ASSUME NEW h \in Hash, said'[h] # {}
      PROVE  \E i \in DOMAIN list : list[i].hash = h
  <2>1. CASE said'[h] = said[h]
    BY <1>4, <2>1 DEF SaidOK
  <2>2. CASE at[p] \in InAnnounce /\ h = list[pos[p]].hash
    BY <2>2, TorrentAtPos DEF AtTorrent, TorrentLocksOK
  <2> QED BY <2>1, <2>2, WalkSaysOnly
<1>5. ASSUME NEW q \in Task, at'[q] = "answer"
      PROVE  EventOf(q)' \in said'[list'[pos'[q]].hash]
  <2>0. EventOf(q)' = EventOf(q)
    BY <1>2 DEF EventOf
  <2>1. CASE q = p
    BY <1>1, <1>5, <2>0, <2>1
  <2>2. CASE q # p
    <3>a. at[q] = "answer"
      BY <1>0, <1>2, <1>5, <2>2
    <3>b. pos'[q] = pos[q]
      BY <1>0, <2>2 DEF Walk, AskClient, PeekClient, OpenList, BeginWalk,
         LockNext, EndWalk, Pass, Announce, FirstUrl, BuildUrl, NextUrl, LastUrl, CallTracker
    <3>1. at[q] = "answer" /\ pos'[q] = pos[q]
      BY <3>a, <3>b
    <3>2. list[pos[q]].hash \in Hash
      BY <3>1, TorrentAtPos DEF AtTorrent, InAnnounce
    <3> QED BY <1>1, <2>0, <3>1, <3>2 DEF SaidOK
  <2> QED BY <2>1, <2>2
<1> QED BY <1>1, <1>3, <1>4, <1>5 DEF SaidOK

\* A removal takes out what has the wanted hash, nothing else, and with it what
\* was said of it.
LEMMA RetainTakesWanted ==
    ASSUME TypeOK, ListLockOK, TorrentLocksOK, RetainTorrents
    PROVE  /\ {list'[i].hash : i \in DOMAIN list'}
                = {list[i].hash : i \in DOMAIN list} \ {wanted.hash}
           /\ (\E i \in DOMAIN list : list[i].hash = wanted.hash)
                => said' = [said EXCEPT ![wanted.hash] = {}]
           /\ said' \in {said, [said EXCEPT ![wanted.hash] = {}]}
<1>1. PICK size \in 0 .. Len(list) : \E kept \in [1 .. size -> DOMAIN list] :
          /\ \A m, n \in 1 .. size : m < n => kept[m] < kept[n]
          /\ \A i \in DOMAIN list :
                (\E n \in 1 .. size : kept[n] = i)
                    <=> (list[i].hash # wanted.hash \/ Locked(i))
          /\ list' = [n \in 1 .. size |-> list[kept[n]]]
          /\ said' = IF size < Len(list)
                     THEN [said EXCEPT ![wanted.hash] = {}] ELSE said
  BY DEF RetainTorrents
<1>2. PICK kept \in [1 .. size -> DOMAIN list] :
          /\ \A m, n \in 1 .. size : m < n => kept[m] < kept[n]
          /\ \A i \in DOMAIN list :
                (\E n \in 1 .. size : kept[n] = i)
                    <=> (list[i].hash # wanted.hash \/ Locked(i))
          /\ list' = [n \in 1 .. size |-> list[kept[n]]]
  BY <1>1
<1>3. list \in Seq([hash : Hash, file : Path]) /\ mutex \in Seq(Lock(Task))
  BY DEF TypeOK
<1>a. Len(list) \in Nat
  BY <1>3, LenProperties
<1>b. size \in Nat /\ size <= Len(list)
  BY <1>a
<1>4. /\ DOMAIN mutex = DOMAIN list /\ DOMAIN list = 1 .. Len(list)
      /\ Len(list) \in Nat /\ size \in Nat
  BY <1>3, <1>b, LenProperties DEF TorrentLocksOK
<1>5. \A i \in DOMAIN list : ~Locked(i)
  <2> SUFFICES ASSUME NEW i \in DOMAIN list PROVE ~Locked(i)
    OBVIOUS
  <2>1. mutex[i] \in Lock(Task)
    BY <1>3, <1>4, ElementOfSeq, LenProperties
  <2>2. \A p \in Task : mutex[i].mode[p] = "none"
    BY <1>4, WriterFindsAllFree DEF RetainTorrents, Writing
  <2> QED BY <2>1, <2>2 DEF Locked, Asked, Lock
<1>6. /\ \A n \in 1 .. size : kept[n] \in DOMAIN list /\ list[kept[n]].hash # wanted.hash
      /\ \A i \in DOMAIN list : list[i].hash # wanted.hash => \E n \in 1 .. size : kept[n] = i
  BY <1>2, <1>5
<1>7. DOMAIN list' = 1 .. size /\ \A n \in 1 .. size : list'[n] = list[kept[n]]
  BY <1>2
<1>8. {list'[i].hash : i \in DOMAIN list'} = {list[i].hash : i \in DOMAIN list} \ {wanted.hash}
  <2>1. ASSUME NEW n \in 1 .. size
        PROVE  list'[n].hash \in {list[i].hash : i \in DOMAIN list} \ {wanted.hash}
    BY <1>6, <1>7
  <2>2. ASSUME NEW i \in DOMAIN list, list[i].hash # wanted.hash
        PROVE  list[i].hash \in {list'[n].hash : n \in DOMAIN list'}
    <3>1. PICK n \in 1 .. size : kept[n] = i
      BY <1>6, <2>2
    <3> QED BY <1>7, <3>1
  <2> QED BY <1>7, <2>1, <2>2
<1>9. ASSUME NEW i \in DOMAIN list, list[i].hash = wanted.hash
      PROVE  size < Len(list)
  <2> SUFFICES ASSUME ~(size < Len(list)) PROVE FALSE
    OBVIOUS
  <2>0. size = Len(list)
    BY <1>a, <1>b
  <2> DEFINE S == 1 .. size
             T == (1 .. size) \ {i}
  <2>1. IsFiniteSet(S) /\ Cardinality(S) = size /\ i \in S
    <3>1. IsFiniteSet(1 .. size) /\ Cardinality(1 .. size) = IF 1 > size THEN 0 ELSE size - 1 + 1
      BY <1>4, FS_Interval
    <3>2. i \in 1 .. size
      BY <1>4, <2>0
    <3> QED BY <1>4, <3>1, <3>2
  <2>2. IsFiniteSet(T) /\ Cardinality(T) = size - 1
    BY <2>1, FS_RemoveElement
  <2>3. kept \in [S -> T]
    BY <2>0, <1>4, <1>6, <1>9
  <2>4. Cardinality(T) < Cardinality(S)
    BY <1>4, <2>1, <2>2
  <2> HIDE DEF S, T
  <2>5. PICK m \in S, n \in S : m # n /\ kept[m] = kept[n]
    BY <2>1, <2>2, <2>3, <2>4, FS_PigeonHole
  <2>6. m \in 1 .. size /\ n \in 1 .. size /\ (m < n \/ n < m)
    BY <1>4, <2>5 DEF S
  <2>7. kept[m] \in Int /\ kept[n] \in Int
    BY <1>4, <2>6
  <2> QED BY <1>2, <2>5, <2>6, <2>7
<1> QED BY <1>1, <1>8, <1>9

\* A torrent pushed has a hash nobody has spoken of; a removed one takes with it
\* what was said.
LEMMA SaidChange ==
    ASSUME TypeOK, TasksOK, ListLockOK, TorrentLocksOK, SaidOK, DedupOK,
           PushTorrent \/ RetainTorrents
    PROVE  SaidOK'
<1>0. W \in Task /\ at \in [Task -> Place] /\ said \in [Hash -> SUBSET Event]
  BY DEF W, Task, TypeOK
<1>1. /\ at[W] \in Writing /\ Granted(torrents, W)
      /\ at'[W] \in {"ask", "idle"} /\ \A p \in Task \ {W} : at'[p] = at[p]
  BY <1>0 DEF PushTorrent, RetainTorrents, Writing, GoTo
<1>2. \A p \in Task : at'[p] \notin InWalk
  BY <1>0, <1>1, WriterIsAlone DEF InWalk
<1>3. at'["main"] # "load"
  <2>1. phase["main"] # "starting"
    BY <1>1 DEF TasksOK, Writing
  <2> QED BY <1>0, <1>1, <2>1 DEF TasksOK, W, Task
<1>4. ASSUME NEW h \in Hash, said'[h] # {}
      PROVE  \E i \in DOMAIN list' : list'[i].hash = h
  <2>1. CASE PushTorrent
    <3> DEFINE new == [hash |-> wanted.hash, file |-> wanted.file]
    <3>1. new \in [hash : Hash, file : Path] /\ list \in Seq([hash : Hash, file : Path])
      BY DEF TypeOK, Path
    <3>2. list' = Append(list, new) /\ said[h] # {}
      BY <1>0, <1>4, <2>1 DEF PushTorrent
    <3>3. PICK i \in DOMAIN list : list[i].hash = h
      BY <3>2 DEF SaidOK
    <3> HIDE DEF new
    <3>4. i \in DOMAIN list' /\ list'[i] = list[i]
      BY <3>1, <3>2, AppendProperties, LenProperties
    <3> QED BY <3>3, <3>4
  <2>2. CASE RetainTorrents
    <3>1. said[h] # {}
      BY <1>0, <1>4, <2>2, RetainTakesWanted
    <3>2. PICK i \in DOMAIN list : list[i].hash = h
      BY <3>1 DEF SaidOK
    <3>3. h # wanted.hash
      BY <1>0, <1>4, <2>2, <3>2, RetainTakesWanted
    <3>4. h \in {list'[j].hash : j \in DOMAIN list'}
      BY <2>2, <3>2, <3>3, RetainTakesWanted
    <3> QED BY <3>4
  <2> QED BY <2>1, <2>2
<1>5. \A p \in Task : at'[p] # "answer"
  BY <1>2 DEF InWalk
<1> QED BY <1>3, <1>4, <1>5 DEF SaidOK

\* Every step preserves SaidOK.
LEMMA SaidStep ==
    ASSUME TypeOK, TasksOK, ListLockOK, TorrentLocksOK, DedupOK, SaidOK, StartedOK, Next
    PROVE  SaidOK'
<1> USE DEF GoTo
<1>0. /\ W \in Task /\ "signal" \in Task /\ "main" \in Task /\ "renewer" \in Task
      /\ W # "signal" /\ W # "main"
  BY DEF Task, W
<1>a. at \in [Task -> Place] /\ phase \in [Task -> Phase]
  BY DEF TypeOK
<1>1. ASSUME NEW p \in Task, Walk(p)
      PROVE  SaidOK'
  BY <1>1, SaidWalk
<1>2. CASE StartWatching
  BY <1>0, <1>2, <1>a, SaidFrame DEF StartWatching
<1>3. CASE Receive \/ ParseFile \/ AfterWalk
  BY <1>0, <1>3, <1>a, SaidPhase DEF Receive, ParseFile, AfterWalk
<1>4. CASE PushTorrent \/ RetainTorrents
  BY <1>4, SaidChange
<1>5. CASE LoadTorrents
  <2>1. /\ said' = said /\ at'["main"] = "open"
        /\ \A p \in Task : at'[p] # "answer"
    <3>1. /\ at[W] = "unborn" /\ at["signal"] = "unborn"
          /\ at["renewer"] \in {"unborn", "idle", "renew"}
      BY <1>5 DEF LoadTorrents, TasksOK
    <3> QED BY <1>0, <1>5, <1>a, <3>1 DEF LoadTorrents, Task, W
  <2>2. \A h \in Hash : said[h] = {}
    <3>1. list = <<>>
      BY <1>5 DEF SaidOK, LoadTorrents
    <3>2. DOMAIN list = {}
      BY <3>1
    <3> QED BY <3>2 DEF SaidOK
  <2> QED BY <2>1, <2>2 DEF SaidOK
<1>6. CASE SpawnTasks
  <2>1. \A p \in Task : at'[p] = "answer" => at[p] = "answer" /\ p # "main"
    BY <1>0, <1>6, <1>a DEF SpawnTasks
  <2>2. /\ at'["main"] = "open" /\ list' = list /\ said' = said /\ pos' = pos
        /\ \A p \in Task : p # "main" => phase'[p] = phase[p]
    BY <1>0, <1>6, <1>a DEF SpawnTasks
  <2> QED BY <2>1, <2>2 DEF SaidOK, EventOf
<1>7. CASE AfterTurn \/ WakeUp
  BY <1>0, <1>7, <1>a, SaidPhase DEF AfterTurn, WakeUp
<1>8. CASE Interrupt
  <2>1. CASE UNCHANGED announcerVars
    BY <2>1, SaidFrame DEF announcerVars
  <2> QED BY <1>0, <1>8, <1>a, <2>1, SaidPhase DEF Interrupt
<1>9. CASE RenewerStep
  BY <1>0, <1>9, <1>a, SaidFrame DEF RenewerStep, AskToRenew, RenewKey
<1>10. CASE Exit \/ User
  BY <1>10, SaidFrame DEF Exit, User, CreateFile, FinishFile, DeleteFile, MoveFile,
     Report, announcerVars
<1> QED
  BY <1>0, <1>1, <1>2, <1>3, <1>4, <1>5, <1>6, <1>7, <1>8, <1>9, <1>10
     DEF Next, MainStep, WatcherStep, SignalStep

-----------------------------------------------------------------------------
\* A step that starts nothing and after which main(), the watcher and the Ctrl+C
\* task are each where they were or not at a start.
LEMMA StartedFrame ==
    ASSUME TypeOK, StartedOK, list' = list, wanted'.hash = wanted.hash,
           \A h \in Hash : Started(h)' => Started(h),
           \/ phase'["main"] # "starting"
           \/ at'["main"] = at["main"] /\ phase'["main"] = phase["main"]
                                       /\ pos'["main"] = pos["main"],
           \/ at'[W] \notin WalkPlace
           \/ phase'[W] \notin {"starting", "greeting"}
           \/ at'[W] = at[W] /\ phase'[W] = phase[W] /\ found'[W] = found[W],
           \/ at'["signal"] \in {"unborn", "idle"} \/ phase'["signal"] = "stopping"
           \/ at'["signal"] = at["signal"] /\ phase'["signal"] = phase["signal"]
    PROVE  StartedOK'
<1>1. wanted.hash \in Hash /\ \A i \in DOMAIN list : list[i].hash \in Hash
  BY ListedHash DEF TypeOK
<1>2. at'["signal"] \notin {"unborn", "idle"} => phase'["signal"] = "stopping"
  BY DEF StartedOK
<1>3. at'[W] \in WalkPlace => phase'[W] # "starting"
  BY DEF StartedOK
<1>4. phase'["main"] = "starting" /\ at'["main"] \notin InWalk \cup {"done"}
         => \A h \in Hash : ~Started(h)'
  BY DEF StartedOK
<1>5. phase'["main"] = "starting" /\ at'["main"] \in InWalk
         => \A i \in DOMAIN list :
                i > pos'["main"] \/ (i = pos'["main"] /\ at'["main"] \in {"next", "torrent"})
                    => ~Started(list[i].hash)'
  BY <1>1 DEF StartedOK
<1>6. phase'[W] = "greeting" /\ at'[W] \in WalkPlace
         => at'[W] = at[W] /\ phase'[W] = phase[W] /\ found'[W] = found[W]
  OBVIOUS
<1>7. Started(wanted.hash)' => Started(wanted.hash)
  BY <1>1 DEF Started
<1>8. {"ask", "peek", "open", "list", "torrent", "next"} \cup InAnnounce \subseteq WalkPlace
  BY DEF WalkPlace, InWalk, InAnnounce
<1>9. /\ phase'[W] = "greeting" /\ at'[W] \in {"ask", "peek", "open", "list", "torrent"}
          => ~Started(wanted.hash)'
      /\ phase'[W] = "greeting" /\ at'[W] = "next" /\ ~found'[W] => ~Started(wanted.hash)'
      /\ phase'[W] = "greeting" /\ at'[W] \in InAnnounce => found'[W]
  BY <1>6, <1>7, <1>8 DEF StartedOK
<1> QED BY <1>2, <1>3, <1>4, <1>5, <1>9 DEF StartedOK, Started

\* A walk that announces another event starts nothing.
LEMMA StartsNothing ==
    ASSUME TypeOK, TorrentLocksOK, NEW p \in Task, Walk(p),
           phase[p] \notin {"starting", "greeting"}
    PROVE  \A h \in Hash : Started(h)' => Started(h)
<1>1. EventOf(p) # "started"
  BY DEF EventOf
<1> QED BY <1>1, WalkSaysOnly DEF Started

\* main() starts the torrents one after the other, each of them once.
LEMMA StartedByMain ==
    ASSUME TypeOK, TasksOK, TorrentLocksOK, UniqueHashes, StartedOK, Walk("main"),
           phase["main"] = "starting"
    PROVE  StartedOK'
<1> USE DEF GoTo
<1>0. /\ at \in [Task -> Place] /\ pos \in [Task -> Nat] /\ said \in [Hash -> SUBSET Event]
      /\ "main" \in Task /\ W \in Task /\ "signal" \in Task
      /\ W # "main" /\ pos["main"] \in Nat
  BY DEF TypeOK, Task, W
<1>1. at[W] = "unborn" /\ at["signal"] = "unborn"
  BY DEF TasksOK
<1>2. at'[W] = "unborn" /\ at'["signal"] = "unborn" /\ phase' = phase /\ list' = list
  BY <1>0, <1>1, WalkMoves, WalkSays
<1>3. \A i \in DOMAIN list : i \in Nat /\ list[i].hash \in Hash
  <2>1. DOMAIN list = 1 .. Len(list)
    BY LenProperties DEF TypeOK
  <2> QED BY <2>1, ListedHash
<1> DEFINE Main == /\ at'["main"] \notin InWalk \cup {"done"} => \A h \in Hash : ~Started(h)'
                   /\ at'["main"] \in InWalk
                        => \A i \in DOMAIN list :
                              i > pos'["main"] \/ (i = pos'["main"] /\ at'["main"] \in {"next", "torrent"})
                                  => ~Started(list[i].hash)'
<1>4. Main
  <2>1. CASE AskClient("main") \/ PeekClient("main") \/ OpenList("main")
    BY <1>0, <2>1 DEF AskClient, PeekClient, OpenList, StartedOK, Started, InWalk
  <2>2. CASE BeginWalk("main")
    <3>1. at["main"] = "list" /\ at'["main"] = "next" /\ said' = said
      BY <1>0, <2>2 DEF BeginWalk
    <3> QED BY <1>2, <1>3, <3>1 DEF StartedOK, Started, InWalk
  <2>3. CASE LockNext("main")
    <3>1. /\ at["main"] = "next" /\ at'["main"] = "torrent" /\ said' = said /\ pos' = pos
      BY <1>0, <2>3 DEF LockNext
    <3> QED BY <1>2, <3>1 DEF StartedOK, Started, InWalk
  <2>4. CASE EndWalk("main")
    BY <1>0, <2>4 DEF EndWalk, InWalk
  <2>5. CASE Pass("main")
    BY <2>5 DEF Pass, Passes
  <2>6. CASE Announce("main")
    <3>1. at["main"] = "torrent" /\ at'["main"] = "client" /\ said' = said /\ pos' = pos
      BY <1>0, <2>6 DEF Announce
    <3> QED BY <1>2, <3>1 DEF StartedOK, Started, InWalk
  <2>7. CASE FirstUrl("main") \/ BuildUrl("main") \/ NextUrl("main")
    <3>1. at["main"] \in InAnnounce /\ at'["main"] \in {"key", "answer"} /\ pos' = pos
      BY <1>0, <2>7 DEF FirstUrl, BuildUrl, NextUrl, CallTracker, Send, InAnnounce
    <3>2. pos["main"] \in DOMAIN list
      BY <1>0, <3>1 DEF TorrentLocksOK, AtTorrent
    <3>3. ASSUME NEW i \in DOMAIN list, i > pos["main"]
          PROVE  ~Started(list[i].hash)'
      <4>1. list[i].hash # list[pos["main"]].hash
        <5>1. i # pos["main"]
          BY <1>0, <1>3, <3>3
        <5> QED BY <3>2, <5>1 DEF UniqueHashes
      <4>2. ~Started(list[i].hash)
        BY <3>1, <3>3 DEF StartedOK, InAnnounce, InWalk
      <4> QED BY <1>0, <1>2, <1>3, <4>1, <4>2, WalkSaysOnly DEF Started
    <3> QED BY <3>1, <3>3 DEF InWalk
  <2>8. CASE LastUrl("main")
    <3>1. /\ at["main"] = "answer" /\ at'["main"] = "next" /\ said' = said
          /\ pos'["main"] = pos["main"] + 1
      BY <1>0, <2>8 DEF LastUrl, Following
    <3>2. \A i \in DOMAIN list : i >= pos["main"] + 1 => i > pos["main"]
      BY <1>0, <1>3
    <3> QED BY <1>2, <1>0, <1>3, <3>1, <3>2 DEF StartedOK, Started, InWalk
  <2> QED BY <2>1, <2>2, <2>3, <2>4, <2>5, <2>6, <2>7, <2>8 DEF Walk
<1>5. at'[W] \notin WalkPlace \cup InAnnounce
  BY <1>2 DEF WalkPlace, InWalk, InAnnounce
<1> HIDE DEF GoTo
<1> QED BY <1>2, <1>4, <1>5 DEF StartedOK, Started, WalkPlace, InWalk

\* The watcher starts the torrent it has pushed, and no other.
LEMMA StartedByWatcher ==
    ASSUME TypeOK, TasksOK, TorrentLocksOK, StartedOK, Walk(W), phase[W] = "greeting"
    PROVE  StartedOK'
<1> USE DEF GoTo
<1>0. /\ at \in [Task -> Place] /\ found \in [Task -> BOOLEAN]
      /\ "main" \in Task /\ W \in Task /\ "signal" \in Task /\ W # "main" /\ W # "signal"
  BY DEF TypeOK, Task, W
<1>1. /\ phase' = phase /\ list' = list /\ at["signal"] = at'["signal"]
      /\ at'[W] \in WalkPlace
  BY <1>0, WalkMoves, WalkSays
<1>2. phase["main"] # "starting"
  <2>1. at[W] # "unborn"
    BY DEF Walk, AskClient, PeekClient, OpenList, BeginWalk, LockNext, EndWalk,
       Pass, Announce, FirstUrl, BuildUrl, NextUrl, LastUrl
  <2> QED BY <2>1 DEF TasksOK
<1> DEFINE Greeting == /\ at'[W] \in {"ask", "peek", "open", "list", "torrent"}
                            => ~Started(wanted.hash)'
                       /\ at'[W] = "next" /\ ~found'[W] => ~Started(wanted.hash)'
                       /\ at'[W] \in InAnnounce => found'[W]
<1>3. Greeting
  <2>1. CASE AskClient(W) \/ PeekClient(W) \/ OpenList(W)
    BY <1>0, <2>1 DEF AskClient, PeekClient, OpenList, StartedOK, Started, InAnnounce
  <2>2. CASE BeginWalk(W)
    BY <1>0, <2>2 DEF BeginWalk, StartedOK, Started, InAnnounce
  <2>3. CASE LockNext(W)
    <3>1. /\ at[W] = "next" /\ ~found[W] /\ at'[W] = "torrent"
          /\ said' = said /\ wanted' = wanted
      BY <1>0, <2>3 DEF LockNext, WalkIsOver
    <3> QED BY <3>1 DEF StartedOK, Started, InAnnounce
  <2>4. CASE EndWalk(W)
    BY <1>0, <2>4 DEF EndWalk, InAnnounce
  <2>5. CASE Pass(W)
    <3>1. /\ at[W] = "torrent" /\ at'[W] = "next" /\ said' = said /\ wanted' = wanted
      BY <1>0, <2>5 DEF Pass
    <3> QED BY <3>1 DEF StartedOK, Started, InAnnounce
  <2>6. CASE Announce(W)
    <3>1. at'[W] = "client" /\ found'[W]
      BY <1>0, <2>6 DEF Announce, Announces
    <3> QED BY <3>1 DEF InAnnounce
  <2>7. CASE FirstUrl(W) \/ BuildUrl(W) \/ NextUrl(W)
    <3>1. at[W] \in InAnnounce /\ at'[W] \in {"key", "answer"} /\ found' = found
      BY <1>0, <2>7 DEF FirstUrl, BuildUrl, NextUrl, CallTracker, Send, InAnnounce
    <3> QED BY <3>1 DEF StartedOK
  <2>8. CASE LastUrl(W)
    <3>1. at[W] \in InAnnounce /\ at'[W] = "next" /\ found' = found
      BY <1>0, <2>8 DEF LastUrl, InAnnounce
    <3> QED BY <3>1 DEF StartedOK, InAnnounce
  <2> QED BY <2>1, <2>2, <2>3, <2>4, <2>5, <2>6, <2>7, <2>8 DEF Walk
<1>4. /\ at'["signal"] \notin {"unborn", "idle"} => phase'["signal"] = "stopping"
      /\ phase'[W] # "starting" /\ phase'["main"] # "starting" /\ phase'[W] = "greeting"
  BY <1>1, <1>2 DEF StartedOK
<1> HIDE DEF GoTo
<1> QED BY <1>3, <1>4 DEF StartedOK, Started

\* Every step of a walk preserves StartedOK.
LEMMA StartedWalk ==
    ASSUME TypeOK, TasksOK, TorrentLocksOK, UniqueHashes, StartedOK,
           NEW p \in {"main", "signal", W}, Walk(p)
    PROVE  StartedOK'
<1>0. /\ at \in [Task -> Place] /\ pos \in [Task -> Nat] /\ found \in [Task -> BOOLEAN]
      /\ p \in Task /\ "main" \in Task /\ W \in Task /\ "signal" \in Task
      /\ W # "main" /\ W # "signal"
  BY DEF TypeOK, Task, W
<1>1. at[p] \in WalkPlace
  BY DEF Walk, AskClient, PeekClient, OpenList, BeginWalk, LockNext, EndWalk,
     Pass, Announce, FirstUrl, BuildUrl, NextUrl, LastUrl, WalkPlace, InWalk
<1>2. /\ phase' = phase /\ list' = list
      /\ \A q \in Task : q # p => at'[q] = at[q]
  BY <1>0, WalkMoves, WalkSays
<1>3. \A q \in Task : q # p => pos'[q] = pos[q]
  BY <1>0 DEF Walk, AskClient, PeekClient, OpenList, BeginWalk,
     LockNext, EndWalk, Pass, Announce, FirstUrl, BuildUrl, NextUrl, LastUrl, CallTracker
<1>4. \A q \in Task : q # p => found'[q] = found[q]
  BY <1>0 DEF Walk, AskClient, PeekClient, OpenList, BeginWalk,
     LockNext, EndWalk, Pass, Announce, FirstUrl, BuildUrl, NextUrl, LastUrl, CallTracker
<1>5. CASE phase[p] \notin {"starting", "greeting"}
  <2>1. \A h \in Hash : Started(h)' => Started(h)
    BY <1>0, <1>5, StartsNothing
  <2>2. CASE p = W
    <3>1. phase["main"] # "starting"
      BY <1>1, <2>2 DEF TasksOK, WalkPlace, InWalk
    <3>3. at'["signal"] = at["signal"] /\ phase'[W] \notin {"starting", "greeting"}
      BY <1>0, <1>2, <1>5, <2>2
    <3>2. CASE wanted'.hash = wanted.hash
      BY <1>0, <1>2, <2>1, <3>1, <3>2, <3>3, StartedFrame
    <3>4. phase'["main"] # "starting" /\ phase' = phase
      BY <1>2, <3>1
    <3> QED BY <3>3, <3>4 DEF StartedOK
  <2>3. CASE p # W
    <3>1. phase[p] # "finding"
      BY <2>3 DEF TasksOK
    <3>2. wanted' = wanted
      BY <1>0, <3>1, WalkWants
    <3>4. at'[W] = at[W] /\ found'[W] = found[W] /\ phase'[W] = phase[W]
      BY <1>0, <1>2, <1>4, <2>3
    <3>5. CASE p = "main"
      BY <1>0, <1>2, <1>5, <2>1, <3>2, <3>4, <3>5, StartedFrame
    <3>6. CASE p = "signal"
      <4>1. at'["main"] = at["main"] /\ pos'["main"] = pos["main"]
        BY <1>0, <1>2, <1>3, <3>6
      <4>2. phase'["signal"] = "stopping"
        BY <1>1, <1>2, <3>6 DEF StartedOK, WalkPlace, InWalk
      <4> QED BY <1>2, <2>1, <3>2, <3>4, <4>1, <4>2, StartedFrame
    <3> QED BY <2>3, <3>5, <3>6
  <2> QED BY <2>2, <2>3
<1>6. CASE phase[p] = "starting"
  <2>1. p = "main"
    BY <1>1, <1>6 DEF StartedOK, WalkPlace, InWalk
  <2> QED BY <1>6, <2>1, StartedByMain
<1>7. CASE phase[p] = "greeting"
  <2>1. p = W
    BY <1>7 DEF TasksOK
  <2> QED BY <1>7, <2>1, StartedByWatcher
<1> QED BY <1>5, <1>6, <1>7

\* Every step preserves StartedOK.
LEMMA StartedStep ==
    ASSUME TypeOK, TasksOK, TorrentLocksOK, UniqueHashes, StartedOK, Next
    PROVE  StartedOK'
<1> USE DEF GoTo
<1>0. /\ W \in Task /\ "signal" \in Task /\ "main" \in Task /\ "renewer" \in Task
      /\ W # "signal" /\ W # "main" /\ W # "renewer"
  BY DEF Task, W
<1>a. at \in [Task -> Place] /\ phase \in [Task -> Phase]
  BY DEF TypeOK
<1>b. phase["main"] = "starting" => at[W] = "unborn" /\ at["signal"] = "unborn"
  BY DEF TasksOK
<1>1. ASSUME NEW p \in {"main", "signal", W}, Walk(p)
      PROVE  StartedOK'
  BY <1>1, StartedWalk
<1>2. CASE StartWatching
  BY <1>0, <1>2, <1>a, StartedFrame DEF StartWatching, WalkPlace, InWalk, Started
<1>3. CASE Receive
  BY <1>0, <1>3, <1>a, StartedFrame DEF Receive, WalkPlace, InWalk, Started, TypeOK
<1>4. CASE ParseFile
  <2>1. CASE wanted' = wanted
    BY <1>0, <1>4, <1>a, <2>1, StartedFrame DEF ParseFile, WalkPlace, InWalk, Started
  <2>2. CASE wanted' # wanted
    <3>1. /\ at[W] = "settle" /\ phase'[W] = "dedup" /\ phase'["main"] = phase["main"]
          /\ at'["signal"] = at["signal"] /\ phase'["signal"] = phase["signal"]
      BY <1>0, <1>4, <1>a, <2>2 DEF ParseFile
    <3> QED BY <1>b, <3>1 DEF StartedOK
  <2> QED BY <2>1, <2>2
<1>5. CASE AfterWalk
  BY <1>0, <1>5, <1>a, StartedFrame DEF AfterWalk, WalkPlace, InWalk, Started
<1>6. CASE PushTorrent
  <2>1. /\ at[W] = "push" /\ at'[W] = "ask" /\ phase'[W] = "greeting"
        /\ at'["signal"] = at["signal"] /\ phase'["signal"] = phase["signal"]
        /\ phase'["main"] = phase["main"] /\ wanted' = wanted
    BY <1>0, <1>6, <1>a DEF PushTorrent
  <2>2. ~Started(wanted.hash)'
    BY <1>6 DEF PushTorrent, Started, TypeOK
  <2> QED BY <1>b, <2>1, <2>2 DEF StartedOK, Started, InAnnounce
<1>7. CASE RetainTorrents
  <2>1. /\ at[W] = "retain" /\ at'[W] = "idle" /\ phase' = phase
        /\ at'["signal"] = at["signal"]
    BY <1>0, <1>7, <1>a DEF RetainTorrents
  <2> QED BY <1>b, <2>1 DEF StartedOK, WalkPlace, InWalk, InAnnounce
<1>8. CASE LoadTorrents
  <2>1. /\ at["main"] = "load" /\ at'["main"] = "open" /\ phase' = phase
        /\ phase["main"] = "starting" /\ said' = said
        /\ at'[W] = "unborn" /\ at'["signal"] = "unborn"
    BY <1>0, <1>8, <1>a DEF LoadTorrents, TasksOK
  <2> QED BY <2>1 DEF StartedOK, Started, WalkPlace, InWalk, InAnnounce
<1>9. CASE SpawnTasks
  BY <1>0, <1>9, <1>a, StartedFrame DEF SpawnTasks, WalkPlace, InWalk, Started, W
<1>10. CASE AfterTurn \/ WakeUp
  BY <1>0, <1>10, <1>a, StartedFrame DEF AfterTurn, WakeUp, Started
<1>11. CASE Interrupt
  BY <1>0, <1>11, <1>a, StartedFrame DEF Interrupt, announcerVars, Started
<1>12. CASE RenewerStep
  BY <1>0, <1>12, <1>a, StartedFrame DEF RenewerStep, AskToRenew, RenewKey, Started
<1>13. CASE Exit \/ User
  BY <1>13, StartedFrame DEF Exit, User, CreateFile, FinishFile, DeleteFile, MoveFile,
     Report, announcerVars, Started
<1> QED
  BY <1>0, <1>1, <1>2, <1>3, <1>4, <1>5, <1>6, <1>7, <1>8, <1>9, <1>10, <1>11, <1>12, <1>13
     DEF Next, MainStep, WatcherStep, SignalStep
=============================================================================
