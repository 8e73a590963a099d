------------------------- MODULE RatioUpLockProofs -------------------------
(***************************************************************************)
(* Every step of RatioUp preserves its type invariant and the parts of its  *)
(* inductive invariant about tasks and locks: TasksOK, ListLockOK,          *)
(* TorrentLocksOK and ClientLockOK.                                         *)
(***************************************************************************)
EXTENDS RatioUpInv, SequenceTheorems, FiniteSetTheorems, TLAPS

-----------------------------------------------------------------------------
(* What the operations on a fair lock preserve, for any set of guards G.     *)

\* A lock nobody asked for is a lock, and it is ordered.
LEMMA UnlockedIsOrdered ==
    ASSUME NEW G
    PROVE  /\ Unlocked(G) \in Lock(G)
           /\ Ordered(Unlocked(G))
           /\ \A g \in G : Unlocked(G).mode[g] = "none" /\ Unlocked(G).behind[g] = {}
BY DEF Unlocked, Lock, Mode, Ordered, Conflict, Asked

\* To ask for a read guard gives that guard its mode and leaves the others be.
LEMMA AskReadType ==
    ASSUME NEW G, NEW q \in Lock(G), NEW g \in G
    PROVE  /\ AskRead(q, g) \in Lock(G)
           /\ \A h \in G : AskRead(q, g).mode[h] = IF h = g THEN "read" ELSE q.mode[h]
           /\ \A h \in G \ {g} : AskRead(q, g).behind[h] = q.behind[h]
BY DEF AskRead, Lock, Mode, AskedToWrite

\* The same of a write guard.
LEMMA AskWriteType ==
    ASSUME NEW G, NEW q \in Lock(G), NEW g \in G
    PROVE  /\ AskWrite(q, g) \in Lock(G)
           /\ \A h \in G : AskWrite(q, g).mode[h] = IF h = g THEN "write" ELSE q.mode[h]
           /\ \A h \in G \ {g} : AskWrite(q, g).behind[h] = q.behind[h]
BY DEF AskWrite, Lock, Mode, Asked

\* To drop a guard clears its mode; nobody waits for more than before.
LEMMA DropType ==
    ASSUME NEW G, NEW q \in Lock(G), NEW g \in G
    PROVE  /\ Drop(q, g) \in Lock(G)
           /\ \A h \in G : Drop(q, g).mode[h] = IF h = g THEN "none" ELSE q.mode[h]
           /\ \A h \in G : Drop(q, g).behind[h] \subseteq q.behind[h]
BY DEF Drop, Lock, Mode

\* A request that waits for those, and only those, it conflicts with keeps the order.
LEMMA AskOrdered ==
    ASSUME NEW G, NEW q \in Lock(G), NEW r \in Lock(G), NEW g \in G,
           Ordered(q), q.mode[g] = "none", r.mode[g] # "none",
           \A h \in G \ {g} : r.mode[h] = q.mode[h] /\ r.behind[h] = q.behind[h],
           r.behind[g] = {h \in G : Conflict(r, g, h)}
    PROVE  Ordered(r)
<1>1. DOMAIN q.mode = G /\ DOMAIN r.mode = G
  BY DEF Lock
<1>2. \A h \in G : g \notin q.behind[h]
  BY <1>1 DEF Ordered, Conflict
<1>3. ASSUME NEW h \in G, NEW k \in G
      PROVE  Conflict(r, h, k) <=> h \in r.behind[k] \/ k \in r.behind[h]
  <2>1. CASE h # g /\ k # g
    <3>1. Conflict(q, h, k) <=> h \in q.behind[k] \/ k \in q.behind[h]
      BY <1>1 DEF Ordered
    <3>2. Conflict(r, h, k) <=> Conflict(q, h, k)
      BY <2>1 DEF Conflict
    <3> QED BY <2>1, <3>1, <3>2
  <2>2. CASE h = g /\ k # g
    BY <1>2, <2>2
  <2>3. CASE k = g /\ h # g
    <3>1. Conflict(r, h, g) <=> Conflict(r, g, h)
      BY <2>3 DEF Conflict
    <3> QED BY <1>2, <2>3, <3>1
  <2>4. CASE h = g /\ k = g
    BY <2>4 DEF Conflict
  <2> QED BY <2>1, <2>2, <2>3, <2>4
<1>4. ASSUME NEW S \in SUBSET Asked(r), S # {}
      PROVE  \E h \in S : r.behind[h] \cap S = {}
  <2>1. CASE S \subseteq {g}
    BY <1>4, <2>1 DEF Conflict
  <2>2. CASE ~(S \subseteq {g})
    <3>1. S \ {g} \subseteq Asked(q) /\ S \ {g} # {}
      BY <1>1, <2>2 DEF Asked
    <3>2. PICK h \in S \ {g} : q.behind[h] \cap (S \ {g}) = {}
      BY <3>1 DEF Ordered
    <3>3. h \in G \ {g}
      BY <1>1, <3>2 DEF Asked
    <3>4. r.behind[h] = q.behind[h] /\ g \notin q.behind[h]
      BY <1>2, <3>3
    <3> QED BY <3>2, <3>4
  <2> QED BY <2>1, <2>2
<1> QED BY <1>1, <1>3, <1>4 DEF Ordered

\* A read request that queues behind the earlier writers keeps the order.
LEMMA AskReadOrdered ==
    ASSUME NEW G, NEW q \in Lock(G), NEW g \in G, Ordered(q), q.mode[g] = "none"
    PROVE  Ordered(AskRead(q, g))
<1> DEFINE r == AskRead(q, g)
<1>1. r \in Lock(G) /\ r.mode[g] = "read"
  BY AskReadType
<1>2. \A h \in G \ {g} : r.mode[h] = q.mode[h] /\ r.behind[h] = q.behind[h]
  BY AskReadType
<1>3. r.behind[g] = {h \in G : q.mode[h] = "write"}
  BY DEF AskRead, AskedToWrite, Lock
<1>4. \A h \in G : Conflict(r, g, h) <=> q.mode[h] = "write"
  BY <1>1, <1>2 DEF Conflict, Lock, Mode
<1> HIDE DEF r
<1>5. Ordered(r)
  BY <1>1, <1>2, <1>3, <1>4, AskOrdered
<1> QED BY <1>5 DEF r

\* A write request that queues behind every earlier request keeps the order.
LEMMA AskWriteOrdered ==
    ASSUME NEW G, NEW q \in Lock(G), NEW g \in G, Ordered(q), q.mode[g] = "none"
    PROVE  Ordered(AskWrite(q, g))
<1> DEFINE r == AskWrite(q, g)
<1>1. r \in Lock(G) /\ r.mode[g] = "write"
  BY AskWriteType
<1>2. \A h \in G \ {g} : r.mode[h] = q.mode[h] /\ r.behind[h] = q.behind[h]
  BY AskWriteType
<1>3. r.behind[g] = {h \in G : q.mode[h] # "none"}
  BY DEF AskWrite, Asked, Lock
<1>4. \A h \in G : Conflict(r, g, h) <=> q.mode[h] # "none"
  BY <1>1, <1>2 DEF Conflict, Lock, Mode
<1> HIDE DEF r
<1>5. Ordered(r)
  BY <1>1, <1>2, <1>3, <1>4, AskOrdered
<1> QED BY <1>5 DEF r

\* To drop a granted guard keeps the order of those that remain.
LEMMA DropOrdered ==
    ASSUME NEW G, NEW q \in Lock(G), NEW g \in G, Ordered(q), Granted(q, g)
    PROVE  Ordered(Drop(q, g))
<1> DEFINE r == Drop(q, g)
<1>1. DOMAIN q.mode = G /\ DOMAIN r.mode = G
  BY DEF Drop, Lock
<1>2. \A h \in G : r.mode[h] = IF h = g THEN "none" ELSE q.mode[h]
  BY DropType
<1>3. \A h \in G : r.behind[h] = q.behind[h] \ {g}
  BY DEF Drop, Lock
<1>4. Asked(r) = Asked(q) \ {g}
  BY <1>1, <1>2 DEF Asked
<1>5. ASSUME NEW h \in G, NEW k \in G
      PROVE  Conflict(r, h, k) <=> h \in r.behind[k] \/ k \in r.behind[h]
  <2>1. CASE h = g \/ k = g
    <3>1. ~Conflict(r, h, k)
      BY <1>2, <2>1 DEF Conflict
    <3> QED BY <1>3, <2>1, <3>1 DEF Granted
  <2>2. CASE h # g /\ k # g
    <3>1. Conflict(q, h, k) <=> h \in q.behind[k] \/ k \in q.behind[h]
      BY <1>1 DEF Ordered
    <3>2. Conflict(r, h, k) <=> Conflict(q, h, k)
      BY <1>2, <2>2 DEF Conflict
    <3> QED BY <1>3, <2>2, <3>1, <3>2
  <2> QED BY <2>1, <2>2
<1>6. ASSUME NEW S \in SUBSET Asked(r), S # {}
      PROVE  \E h \in S : r.behind[h] \cap S = {}
  <2>1. PICK h \in S : q.behind[h] \cap S = {}
    BY <1>4, <1>6 DEF Ordered
  <2>2. r.behind[h] \subseteq q.behind[h]
    BY <1>1, <1>3, <1>4 DEF Asked
  <2> QED BY <2>1, <2>2
<1> QED BY <1>1, <1>5, <1>6 DEF Ordered

\* Whom a guard waits for has asked too, for something that cannot be shared.
LEMMA BehindConflicts ==
    ASSUME NEW G, NEW q \in Lock(G), Ordered(q), NEW g \in G, NEW h \in q.behind[g]
    PROVE  /\ h \in G /\ h \in Asked(q) /\ g \in Asked(q)
           /\ q.mode[g] = "write" \/ q.mode[h] = "write"
<1>1. h \in G /\ DOMAIN q.mode = G
  BY DEF Lock
<1>2. Conflict(q, g, h)
  BY <1>1 DEF Ordered
<1> QED BY <1>1, <1>2 DEF Conflict, Asked

\* Every other request still waits for a granted write guard.
LEMMA GrantedWriteIsAlone ==
    ASSUME NEW G, NEW q \in Lock(G), Ordered(q), NEW g \in G, NEW h \in G, g # h,
           q.mode[g] = "write", Granted(q, g), q.mode[h] # "none"
    PROVE  g \in q.behind[h]
<1>1. Conflict(q, g, h)
  BY DEF Conflict, Lock, Mode
<1> QED BY <1>1 DEF Ordered, Granted, Lock

-----------------------------------------------------------------------------
(* The steps. *)

\* What a walk leaves alone outside the announcer.
Quiet == UNCHANGED <<watcherVars, process>>

\* The mutex of torrent i is replaced by another one.
LEMMA MutexType ==
    ASSUME TypeOK, NEW i \in DOMAIN mutex, NEW m \in Lock(Task)
    PROVE  [mutex EXCEPT ![i] = m] \in Seq(Lock(Task))
<1>1. mutex \in Seq(Lock(Task)) /\ i \in 1 .. Len(mutex)
  BY LenProperties DEF TypeOK
<1> QED BY <1>1, ExceptSeq

\* What an announce says is an event.
LEMMA EventType == ASSUME NEW p PROVE EventOf(p) \in Event
BY DEF EventOf, Event

\* Where a task has asked for the mutex of a torrent there is one.
LEMMA TorrentAtPos ==
    ASSUME TypeOK, TorrentLocksOK, NEW p \in Task, at[p] \in AtTorrent
    PROVE  /\ pos[p] \in 1 .. Len(list)
           /\ DOMAIN mutex = DOMAIN list
           /\ pos[p] \in DOMAIN mutex
           /\ list[pos[p]] \in [hash : Hash, file : Path]
           /\ mutex[pos[p]] \in Lock(Task)
           /\ Following(p) \in Nat
<1>1. list \in Seq([hash : Hash, file : Path]) /\ mutex \in Seq(Lock(Task))
  BY DEF TypeOK
<1>2. DOMAIN list = 1 .. Len(list) /\ DOMAIN mutex = 1 .. Len(mutex)
  BY <1>1, LenProperties
<1>3. Len(mutex) = Len(list) /\ pos[p] \in DOMAIN list
  BY DEF TorrentLocksOK
<1>4. Following(p) \in Nat
  <2>1. Len(list) \in Nat
    BY <1>1, LenProperties
  <2> QED BY <2>1, <1>2, <1>3 DEF Following
<1> QED BY <1>1, <1>2, <1>3, <1>4, ElementOfSeq

\* The index of the next URL is a number.
LEMMA UrlAfter == ASSUME TypeOK, NEW p \in Task PROVE url[p] + 1 \in Nat
<1>1. url \in [Task -> Nat]
  BY DEF TypeOK
<1> QED BY <1>1

\* A step of a walk preserves the types.
LEMMA WalkType ==
    ASSUME TypeOK, TasksOK, ListLockOK, TorrentLocksOK, NEW p \in Task, Walk(p), Quiet
    PROVE  TypeOK'
<1> USE DEF TypeOK, Place, GoTo, Quiet, watcherVars
<1>0. Outer(p) \in ClientGuard /\ Inner(p) \in ClientGuard
  BY DEF Outer, Inner, ClientGuard
<1>1. CASE AskClient(p)
  BY <1>0, <1>1, AskReadType DEF AskClient
<1>2. CASE PeekClient(p)
  BY <1>0, <1>2, DropType DEF PeekClient
<1>3. CASE OpenList(p)
  BY <1>3, AskReadType DEF OpenList
<1>4. CASE BeginWalk(p)
  BY <1>4, LenProperties DEF BeginWalk, First
<1>5. CASE LockNext(p)
  <2>1. pos[p] \in DOMAIN mutex /\ mutex[pos[p]] \in Lock(Task)
    <3>1. DOMAIN list = 1 .. Len(list) /\ DOMAIN mutex = 1 .. Len(mutex)
      BY LenProperties
    <3>2. pos[p] \in 1 .. Len(mutex)
      BY <1>5, <3>1 DEF LockNext, WalkIsOver, TorrentLocksOK
    <3> QED BY <3>1, <3>2, ElementOfSeq
  <2>2. mutex' \in Seq(Lock(Task))
    BY <1>5, <2>1, AskWriteType, MutexType DEF LockNext
  <2> QED BY <1>5, <2>2 DEF LockNext
<1>6. CASE EndWalk(p)
  BY <1>6, DropType DEF EndWalk
<1>7. CASE Pass(p)
  <2>1. at[p] \in AtTorrent
    BY <1>7 DEF Pass, AtTorrent
  <2>2. mutex' \in Seq(Lock(Task))
    BY <1>7, <2>1, TorrentAtPos, DropType, MutexType DEF Pass
  <2>3. Following(p) \in Nat
    BY <2>1, TorrentAtPos
  <2>4. wanted' \in [hash : Hash, file : File]
    <3>1. list[pos[p]].hash \in Hash
      BY <2>1, TorrentAtPos
    <3> QED BY <1>7, <3>1 DEF Pass
  <2>5. found' \in [Task -> BOOLEAN]
    BY <1>7 DEF Pass, Matches
  <2> QED BY <1>7, <2>2, <2>3, <2>4, <2>5 DEF Pass
<1>8. CASE Announce(p)
  <2>1. found' \in [Task -> BOOLEAN]
    BY <1>8 DEF Announce, Matches
  <2> QED BY <1>0, <1>8, <2>1, AskReadType DEF Announce
<1>9. ASSUME NEW u \in Nat, CallTracker(p, u), at[p] \in AtTorrent
      PROVE  TypeOK'
  <2>1. CASE Send(p) /\ UNCHANGED client
    <3>1. list[pos[p]].hash \in Hash /\ EventOf(p) \in Event
      BY <1>9, TorrentAtPos, EventType
    <3> QED BY <1>9, <2>1, <3>1 DEF CallTracker, Send
  <2>2. CASE client' = AskRead(client, Inner(p)) /\ GoTo(p, "key") /\ UNCHANGED said
    BY <1>0, <1>9, <2>2, AskReadType DEF CallTracker
  <2> QED BY <1>9, <2>1, <2>2 DEF CallTracker
<1>10. CASE FirstUrl(p)
  BY <1>9, <1>10 DEF FirstUrl, AtTorrent, InAnnounce
<1>11. CASE BuildUrl(p)
  <2>1. said' \in [Hash -> SUBSET Event]
    <3>1. list[pos[p]].hash \in Hash /\ EventOf(p) \in Event
      BY <1>11, TorrentAtPos, EventType DEF BuildUrl, AtTorrent, InAnnounce
    <3> QED BY <1>11, <3>1 DEF BuildUrl, Send
  <2>2. client' \in Lock(ClientGuard)
    BY <1>0, <1>11, DropType DEF BuildUrl
  <2>3. at' \in [Task -> Place]
    BY <1>11 DEF BuildUrl, Send
  <2> QED BY <1>11, <2>1, <2>2, <2>3 DEF BuildUrl
<1>12. CASE NextUrl(p)
  <2>1. url[p] + 1 \in Nat
    BY UrlAfter
  <2>2. CallTracker(p, url[p] + 1) /\ at[p] \in AtTorrent
    BY <1>12 DEF NextUrl, AtTorrent, InAnnounce
  <2> QED BY <1>9, <2>1, <2>2
<1>13. CASE LastUrl(p)
  <2>1. at[p] \in AtTorrent
    BY <1>13 DEF LastUrl, AtTorrent, InAnnounce
  <2>2. mutex' \in Seq(Lock(Task))
    BY <1>13, <2>1, TorrentAtPos, DropType, MutexType DEF LastUrl
  <2>3. Following(p) \in Nat
    BY <2>1, TorrentAtPos
  <2> QED BY <1>0, <1>13, <2>2, <2>3, DropType DEF LastUrl
<1> QED BY <1>1, <1>2, <1>3, <1>4, <1>5, <1>6, <1>7, <1>8, <1>10, <1>11, <1>12, <1>13 DEF Walk

\* A choice of elements of a sequence is a sequence of the same elements.
LEMMA SelectionType ==
    ASSUME NEW S, NEW s \in Seq(S), NEW size \in Nat,
           NEW kept \in [1 .. size -> DOMAIN s]
    PROVE  [n \in 1 .. size |-> s[kept[n]]] \in Seq(S)
<1>1. \A n \in 1 .. size : s[kept[n]] \in S
  BY LenProperties, ElementOfSeq
<1> QED BY <1>1

\* A step of the watcher outside its walks preserves the types.
LEMMA WatcherType ==
    ASSUME TypeOK, TorrentLocksOK, UNCHANGED process,
           StartWatching \/ Receive \/ ParseFile \/ AfterWalk \/ PushTorrent \/ RetainTorrents
    PROVE  TypeOK'
<1>0. W \in Task
  BY DEF W, Task
<1>a. at \in [Task -> Place] /\ phase \in [Task -> Phase] /\ torrents \in Lock(Task)
  BY DEF TypeOK
<1>b. list \in Seq([hash : Hash, file : Path]) /\ mutex \in Seq(Lock(Task))
  BY DEF TypeOK
<1>c. wanted \in [hash : Hash, file : File] /\ said \in [Hash -> SUBSET Event]
  BY DEF TypeOK
<1>1. CASE StartWatching
  <2>1. at' \in [Task -> Place]
    BY <1>0, <1>1, <1>a DEF StartWatching, GoTo, Place
  <2> QED BY <1>1, <2>1 DEF StartWatching, TypeOK, watcherVars
<1>2. CASE Receive
  <2>1. Head(events) \in FsEvent /\ events' \in Seq(FsEvent)
    BY <1>2, HeadTailProperties DEF Receive, TypeOK
  <2>2. wanted' \in [hash : Hash, file : File]
    BY <1>2, <1>c, <2>1 DEF Receive, FsEvent
  <2>3. at' \in [Task -> Place] /\ phase' \in [Task -> Phase]
    BY <1>0, <1>2, <1>a DEF Receive, GoTo, Place, Phase
  <2> QED BY <1>2, <2>1, <2>2, <2>3 DEF Receive, TypeOK
<1>3. CASE ParseFile
  <2>1. wanted' \in [hash : Hash, file : File]
    BY <1>3, <1>c DEF ParseFile
  <2>2. at' \in [Task -> Place] /\ phase' \in [Task -> Phase]
    BY <1>0, <1>3, <1>a DEF ParseFile, GoTo, Place, Phase
  <2> QED BY <1>3, <2>1, <2>2 DEF ParseFile, TypeOK, watcherVars
<1>4. CASE AfterWalk
  <2>1. torrents' \in Lock(Task)
    BY <1>0, <1>4, <1>a, AskWriteType DEF AfterWalk, ToChangeList
  <2>2. at' \in [Task -> Place] /\ phase' \in [Task -> Phase]
    BY <1>0, <1>4, <1>a DEF AfterWalk, GoTo, Place, Phase
  <2> QED BY <1>4, <2>1, <2>2 DEF AfterWalk, TypeOK, watcherVars
<1>5. CASE PushTorrent
  <2>1. list' \in Seq([hash : Hash, file : Path])
    BY <1>5, <1>b, <1>c, AppendProperties DEF PushTorrent, Path
  <2>2. mutex' \in Seq(Lock(Task))
    BY <1>5, <1>b, AppendProperties, UnlockedIsOrdered DEF PushTorrent
  <2>3. torrents' \in Lock(Task)
    BY <1>0, <1>5, <1>a, DropType DEF PushTorrent
  <2>4. at' \in [Task -> Place] /\ phase' \in [Task -> Phase]
    BY <1>0, <1>5, <1>a DEF PushTorrent, GoTo, Place, Phase
  <2>5. said' \in [Hash -> SUBSET Event]
    BY <1>5, <1>c DEF PushTorrent
  <2> QED BY <1>5, <2>1, <2>2, <2>3, <2>4, <2>5 DEF PushTorrent, TypeOK, watcherVars
<1>6. CASE RetainTorrents
  <2>1. PICK size \in 0 .. Len(list) : \E kept \in [1 .. size -> DOMAIN list] :
            /\ list'  = [n \in 1 .. size |-> list[kept[n]]]
            /\ mutex' = [n \in 1 .. size |-> mutex[kept[n]]]
            /\ said'  = IF size < Len(list)
                        THEN [said EXCEPT ![wanted.hash] = {}] ELSE said
    BY <1>6 DEF RetainTorrents
  <2>2. PICK kept \in [1 .. size -> DOMAIN list] :
            /\ list'  = [n \in 1 .. size |-> list[kept[n]]]
            /\ mutex' = [n \in 1 .. size |-> mutex[kept[n]]]
    BY <2>1
  <2>3. Len(mutex) = Len(list) /\ Len(list) \in Nat
    BY <1>b, LenProperties DEF TorrentLocksOK
  <2>4. DOMAIN mutex = DOMAIN list /\ size \in Nat
    BY <1>b, <2>3, LenProperties
  <2>5. list' \in Seq([hash : Hash, file : Path])
    BY <1>b, <2>2, <2>4, SelectionType
  <2>6. mutex' \in Seq(Lock(Task))
    BY <1>b, <2>2, <2>4, SelectionType
  <2>7. said' \in [Hash -> SUBSET Event]
    BY <1>c, <2>1
  <2>8. torrents' \in Lock(Task)
    BY <1>0, <1>6, <1>a, DropType DEF RetainTorrents
  <2>9. at' \in [Task -> Place]
    BY <1>0, <1>6, <1>a DEF RetainTorrents, GoTo, Place
  <2> QED BY <1>6, <2>5, <2>6, <2>7, <2>8, <2>9 DEF RetainTorrents, TypeOK, watcherVars
<1> QED BY <1>1, <1>2, <1>3, <1>4, <1>5, <1>6

\* A step of main() outside its walks preserves the types.
LEMMA MainType ==
    ASSUME TypeOK, LoadTorrents \/ SpawnTasks \/ AfterTurn \/ WakeUp
    PROVE  TypeOK'
<1>0. "main" \in Task
  BY DEF Task
<1>a. at \in [Task -> Place] /\ phase \in [Task -> Phase]
  BY DEF TypeOK
<1>1. CASE LoadTorrents
  <2>1. PICK size \in 0 .. Cardinality(File) :
            \E order \in [1 .. size -> {f \in File : dir[f] \in Hash}] :
               /\ list' = [n \in 1 .. size |->
                              [hash |-> dir[order[n]], file |-> SourcePath[order[n]]]]
               /\ mutex' = [n \in 1 .. size |-> Unlocked(Task)]
               /\ process' = IF size = 0 THEN "no torrent" ELSE process
    BY <1>1 DEF LoadTorrents
  <2>2. PICK order \in [1 .. size -> {f \in File : dir[f] \in Hash}] :
               list' = [n \in 1 .. size |->
                           [hash |-> dir[order[n]], file |-> SourcePath[order[n]]]]
    BY <2>1
  <2>3. size \in Nat
    BY TorrentAssumption, FS_CardinalityType DEF TorrentAssumption
  <2>4. list' \in Seq([hash : Hash, file : Path])
    <3>1. \A n \in 1 .. size : [hash |-> dir[order[n]], file |-> SourcePath[order[n]]]
                                  \in [hash : Hash, file : Path]
      BY DEF Path
    <3> QED BY <2>2, <2>3, <3>1
  <2>5. mutex' \in Seq(Lock(Task))
    <3>1. Unlocked(Task) \in Lock(Task)
      BY UnlockedIsOrdered
    <3>2. mutex' = [n \in 1 .. size |-> Unlocked(Task)]
      BY <2>1
    <3> QED BY <2>3, <3>1, <3>2
  <2>6. process' \in {"running", "graceful", "killed", "no torrent"}
    BY <2>1 DEF TypeOK
  <2>7. at' \in [Task -> Place]
    BY <1>0, <1>1, <1>a DEF LoadTorrents, GoTo, Place
  <2> QED BY <1>1, <2>4, <2>5, <2>6, <2>7 DEF LoadTorrents, TypeOK, watcherVars
<1>2. CASE SpawnTasks
  <2>1. at' \in [Task -> Place] /\ phase' \in [Task -> Phase]
    BY <1>2, <1>a DEF SpawnTasks, Place, Phase
  <2> QED BY <1>2, <2>1 DEF SpawnTasks, TypeOK, watcherVars
<1>3. CASE AfterTurn
  <2>1. at' \in [Task -> Place] /\ phase' \in [Task -> Phase]
    BY <1>3, <1>a DEF AfterTurn, GoTo, Place, Phase
  <2> QED BY <1>3, <2>1 DEF AfterTurn, TypeOK, watcherVars
<1>4. CASE WakeUp
  <2>1. at' \in [Task -> Place] /\ phase' \in [Task -> Phase]
    BY <1>4, <1>a DEF WakeUp, GoTo, Place, Phase
  <2> QED BY <1>4, <2>1 DEF WakeUp, TypeOK, watcherVars
<1> QED BY <1>1, <1>2, <1>3, <1>4

\* Steps of the signal, the renewer and the user preserve the types.
LEMMA OtherType ==
    ASSUME TypeOK, Interrupt \/ Exit \/ RenewerStep \/ (User /\ UNCHANGED process)
    PROVE  TypeOK'
<1>a. at \in [Task -> Place] /\ phase \in [Task -> Phase]
  BY DEF TypeOK
<1>1. CASE Interrupt
  <2>1. at' \in [Task -> Place] /\ phase' \in [Task -> Phase]
    BY <1>1, <1>a DEF Interrupt, GoTo, Place, Phase, announcerVars
  <2>2. process' \in {"running", "graceful", "killed", "no torrent"}
    BY <1>1 DEF Interrupt, TypeOK
  <2> QED BY <1>1, <2>1, <2>2 DEF Interrupt, TypeOK, announcerVars, watcherVars
<1>2. CASE Exit
  BY <1>2 DEF Exit, TypeOK, announcerVars, watcherVars
<1>3. CASE RenewerStep
  <2>1. Outer("renewer") \in ClientGuard
    BY DEF Outer, ClientGuard, Task
  <2>2. client' \in Lock(ClientGuard)
    <3>1. client \in Lock(ClientGuard)
      BY DEF TypeOK
    <3>2. /\ AskWrite(client, Outer("renewer")) \in Lock(ClientGuard)
          /\ Drop(client, Outer("renewer")) \in Lock(ClientGuard)
      BY <2>1, <3>1, AskWriteType, DropType
    <3> QED BY <1>3, <3>2 DEF RenewerStep, AskToRenew, RenewKey
  <2>3. at' \in [Task -> Place]
    BY <1>3, <1>a DEF RenewerStep, AskToRenew, RenewKey, GoTo, Place
  <2> QED BY <1>3, <2>2, <2>3 DEF RenewerStep, TypeOK, watcherVars
<1>4. CASE User /\ UNCHANGED process
  <2>1. PICK f \in File : CreateFile(f) \/ FinishFile(f) \/ DeleteFile(f) \/ MoveFile(f)
    BY <1>4 DEF User
  <2>2. ASSUME NEW kind \in {"added", "removed"}, Report(kind, f), dir' \in [File -> Content]
        PROVE  TypeOK'
    <3>1. [kind |-> kind, file |-> f] \in FsEvent
      BY <2>2 DEF FsEvent
    <3>2. events' \in Seq(FsEvent)
      <4>1. events \in Seq(FsEvent)
        BY DEF TypeOK
      <4> QED BY <2>2, <3>1, <4>1, AppendProperties DEF Report
    <3>3. changes' \in Nat /\ missed' \in SUBSET File
      <4>1. changes \in Nat /\ missed \in SUBSET File
        BY DEF TypeOK
      <4> QED BY <2>2, <4>1 DEF Report
    <3> QED BY <1>4, <2>2, <3>2, <3>3 DEF Report, TypeOK, announcerVars
  <2>3. CASE CreateFile(f)
    BY <2>2, <2>3 DEF CreateFile, Content, TypeOK
  <2>4. CASE FinishFile(f)
    BY <1>4, <2>4 DEF FinishFile, Content, TypeOK, announcerVars
  <2>5. CASE DeleteFile(f)
    BY <2>2, <2>5 DEF DeleteFile, Content, TypeOK
  <2>6. CASE MoveFile(f)
    <3>1. PICK c \in Content : dir' = [dir EXCEPT ![f] = c]
      BY <2>6 DEF MoveFile
    <3>2. dir' \in [File -> Content]
      BY <3>1 DEF TypeOK
    <3>3. changes' \in Nat /\ missed' \in SUBSET File
      <4>1. changes \in Nat /\ missed \in SUBSET File
        BY DEF TypeOK
      <4> QED BY <2>6, <4>1 DEF MoveFile
    <3> QED BY <1>4, <2>6, <3>2, <3>3 DEF MoveFile, TypeOK, announcerVars
  <2> QED BY <2>1, <2>3, <2>4, <2>5, <2>6
<1> QED BY <1>1, <1>2, <1>3, <1>4

\* Every step preserves the types.
LEMMA TypeStep ==
    ASSUME TypeOK, TasksOK, ListLockOK, TorrentLocksOK, Next
    PROVE  TypeOK'
<1>0. W \in Task /\ "main" \in Task /\ "signal" \in Task
  BY DEF W, Task
<1>1. ASSUME NEW p \in Task, Walk(p), UNCHANGED <<watcherVars, process>>
      PROVE  TypeOK'
  BY <1>1, WalkType DEF Quiet
<1>2. CASE MainStep
  BY <1>0, <1>1, <1>2, MainType DEF MainStep
<1>3. CASE WatcherStep /\ UNCHANGED process
  BY <1>0, <1>1, <1>3, WatcherType DEF WatcherStep
<1>4. CASE SignalStep
  BY <1>0, <1>1, <1>4, OtherType DEF SignalStep
<1>5. CASE RenewerStep \/ Interrupt \/ (User /\ UNCHANGED process)
  BY <1>5, OtherType
<1> QED BY <1>2, <1>3, <1>4, <1>5 DEF Next

-----------------------------------------------------------------------------
\* A step of a walk moves its own task from one place of a walk to another, and
\* does not leave the announce of a torrent it should pass.
LEMMA WalkMoves ==
    ASSUME NEW p \in Task, Walk(p)
    PROVE  /\ phase' = phase
           /\ at[p] \in WalkPlace
           /\ \E place \in WalkPlace :
                 /\ at' = [at EXCEPT ![p] = place]
                 /\ place \in InAnnounce => phase[p] # "dedup" \/ at[p] \in InAnnounce
<1> USE DEF GoTo, WalkPlace, InWalk, InAnnounce
<1>1. CASE AskClient(p)
  BY <1>1 DEF AskClient
<1>2. CASE PeekClient(p)
  BY <1>2 DEF PeekClient
<1>3. CASE OpenList(p)
  BY <1>3 DEF OpenList
<1>4. CASE BeginWalk(p)
  BY <1>4 DEF BeginWalk
<1>5. CASE LockNext(p)
  BY <1>5 DEF LockNext
<1>6. CASE EndWalk(p)
  BY <1>6 DEF EndWalk
<1>7. CASE Pass(p)
  BY <1>7 DEF Pass
<1>8. CASE Announce(p)
  BY <1>8 DEF Announce, Announces
<1>9. CASE FirstUrl(p)
  BY <1>9 DEF FirstUrl, CallTracker, Send
<1>10. CASE BuildUrl(p)
  BY <1>10 DEF BuildUrl, Send
<1>11. CASE NextUrl(p)
  BY <1>11 DEF NextUrl, CallTracker, Send
<1>12. CASE LastUrl(p)
  BY <1>12 DEF LastUrl
<1> QED BY <1>1, <1>2, <1>3, <1>4, <1>5, <1>6, <1>7, <1>8, <1>9, <1>10, <1>11, <1>12 DEF Walk

\* Every step preserves TasksOK.
LEMMA TasksStep ==
    ASSUME TypeOK, TasksOK, Next
    PROVE  TasksOK'
<1>0. at \in [Task -> Place] /\ phase \in [Task -> Phase]
  BY DEF TypeOK
<1> USE <1>0 DEF W, Task, Writing, InAnnounce, GoTo
<1>1. ASSUME NEW p \in Task, Walk(p)
      PROVE  TasksOK'
  <2>1. PICK place \in WalkPlace :
           /\ at' = [at EXCEPT ![p] = place]
           /\ place \in InAnnounce => phase[p] # "dedup" \/ at[p] \in InAnnounce
    BY <1>1, WalkMoves
  <2>2. phase' = phase /\ at[p] \in WalkPlace
    BY <1>1, WalkMoves
  <2> QED BY <2>1, <2>2 DEF TasksOK, WalkPlace, InWalk
<1>2. CASE StartWatching
  BY <1>2 DEF StartWatching, TasksOK
<1>3. CASE Receive
  BY <1>3 DEF Receive, TasksOK
<1>4. CASE ParseFile
  BY <1>4 DEF ParseFile, TasksOK
<1>5. CASE AfterWalk
  BY <1>5 DEF AfterWalk, TasksOK
<1>6. CASE PushTorrent
  BY <1>6 DEF PushTorrent, TasksOK
<1>7. CASE RetainTorrents
  BY <1>7 DEF RetainTorrents, TasksOK
<1>8. CASE LoadTorrents
  BY <1>8 DEF LoadTorrents, TasksOK
<1>9. CASE SpawnTasks
  BY <1>9 DEF SpawnTasks, TasksOK
<1>10. CASE AfterTurn
  BY <1>10 DEF AfterTurn, TasksOK
<1>11. CASE WakeUp
  BY <1>11 DEF WakeUp, TasksOK
<1>12. CASE Interrupt
  BY <1>12 DEF Interrupt, TasksOK, announcerVars
<1>13. CASE RenewerStep
  BY <1>13 DEF RenewerStep, AskToRenew, RenewKey, TasksOK
<1>14. CASE Exit \/ User
  BY <1>14 DEF Exit, User, CreateFile, FinishFile, DeleteFile, MoveFile, Report, TasksOK, announcerVars
<1> QED
  BY <1>1, <1>2, <1>3, <1>4, <1>5, <1>6, <1>7, <1>8, <1>9, <1>10, <1>11, <1>12,
     <1>13, <1>14 DEF Next, MainStep, WatcherStep, SignalStep

-----------------------------------------------------------------------------
\* What a task at a place has asked of the list.
ModeAt(place) == IF place \in Reading THEN "read"
                 ELSE IF place \in Writing THEN "write" ELSE "none"

\* Enough for a step of p to preserve ListLockOK: p's guard of the list fits the
\* place it goes to, and no other task loses or waits for more.
LEMMA ListLockMove ==
    ASSUME TypeOK, ListLockOK, NEW p \in Task, NEW place,
           at' = [at EXCEPT ![p] = place],
           Ordered(torrents'),
           torrents'.mode[p] = ModeAt(place),
           place \in InWalk => torrents'.behind[p] = {},
           \A q \in Task \ {p} : /\ torrents'.mode[q] = torrents.mode[q]
                                 /\ torrents'.behind[q] \subseteq torrents.behind[q]
    PROVE  ListLockOK'
<1>1. at \in [Task -> Place]
  BY DEF TypeOK
<1>2. \A q \in Task : at'[q] = IF q = p THEN place ELSE at[q]
  BY <1>1
<1>3. \A q \in Task :
         torrents'.mode[q] = IF at'[q] \in Reading THEN "read"
                             ELSE IF at'[q] \in Writing THEN "write" ELSE "none"
  BY <1>2 DEF ListLockOK, ModeAt
<1>4. \A q \in Task : at'[q] \in InWalk => torrents'.behind[q] = {}
  BY <1>2 DEF ListLockOK
<1> QED BY <1>3, <1>4 DEF ListLockOK

\* The common case: the list lock is not touched.
LEMMA ListLockFrame ==
    ASSUME TypeOK, ListLockOK, NEW p \in Task, NEW place,
           at' = [at EXCEPT ![p] = place], torrents' = torrents,
           \/ at[p] \in InWalk /\ place \in InWalk
           \/ at[p] \notin Reading \cup Writing /\ place \notin Reading \cup Writing
    PROVE  ListLockOK'
<1>1. torrents.mode[p] = ModeAt(place)
  BY DEF ListLockOK, ModeAt, Reading
<1>2. place \in InWalk => torrents.behind[p] = {}
  BY DEF ListLockOK, Reading
<1>3. Ordered(torrents)
  BY DEF ListLockOK
<1> QED BY <1>1, <1>2, <1>3, ListLockMove

\* A read guard or a write guard of the list is asked for.
LEMMA ListLockAsk ==
    ASSUME TypeOK, ListLockOK, NEW p \in Task, NEW place,
           at' = [at EXCEPT ![p] = place], at[p] \notin Reading \cup Writing,
           \/ torrents' = AskRead(torrents, p) /\ place = "list"
           \/ torrents' = AskWrite(torrents, p) /\ place \in Writing
    PROVE  ListLockOK'
<1>1. torrents \in Lock(Task) /\ Ordered(torrents)
  BY DEF TypeOK, ListLockOK
<1>2. torrents.mode[p] = "none"
  BY DEF ListLockOK
<1>3. Ordered(torrents')
  BY <1>1, <1>2, AskReadOrdered, AskWriteOrdered
<1>4. place \notin InWalk
  BY DEF InWalk, Writing
<1>5. torrents'.mode[p] = ModeAt(place)
  BY <1>1, AskReadType, AskWriteType DEF ModeAt, Reading, Writing, InWalk
<1>6. \A q \in Task \ {p} : /\ torrents'.mode[q] = torrents.mode[q]
                            /\ torrents'.behind[q] \subseteq torrents.behind[q]
  <2>1. CASE torrents' = AskRead(torrents, p)
    BY <1>1, <2>1, AskReadType
  <2>2. CASE torrents' = AskWrite(torrents, p)
    BY <1>1, <2>2, AskWriteType
  <2> QED BY <2>1, <2>2
<1> QED BY <1>3, <1>4, <1>5, <1>6, ListLockMove

\* A granted guard of the list is dropped.
LEMMA ListLockDrop ==
    ASSUME TypeOK, ListLockOK, NEW p \in Task, NEW place,
           at' = [at EXCEPT ![p] = place], torrents' = Drop(torrents, p),
           Granted(torrents, p), place \notin Reading \cup Writing
    PROVE  ListLockOK'
<1>1. torrents \in Lock(Task) /\ Ordered(torrents)
  BY DEF TypeOK, ListLockOK
<1>2. Ordered(torrents')
  BY <1>1, DropOrdered
<1>3. torrents'.mode[p] = ModeAt(place) /\ place \notin InWalk
  BY <1>1, DropType DEF ModeAt, Reading
<1>4. \A q \in Task \ {p} : /\ torrents'.mode[q] = torrents.mode[q]
                            /\ torrents'.behind[q] \subseteq torrents.behind[q]
  BY <1>1, DropType
<1> QED BY <1>2, <1>3, <1>4, ListLockMove

\* A granted guard stays granted while its task goes into the walk.
LEMMA ListLockEnter ==
    ASSUME TypeOK, ListLockOK, NEW p \in Task, at' = [at EXCEPT ![p] = "next"],
           torrents' = torrents, at[p] = "list", Granted(torrents, p)
    PROVE  ListLockOK'
<1>1. torrents.mode[p] = ModeAt("next")
  BY DEF ListLockOK, ModeAt, Reading, InWalk
<1>2. Ordered(torrents) /\ torrents.behind[p] = {}
  BY DEF ListLockOK, Granted
<1> QED BY <1>1, <1>2, ListLockMove

\* A step of a walk preserves ListLockOK.
LEMMA ListLockWalk ==
    ASSUME TypeOK, ListLockOK, NEW p \in Task, Walk(p)
    PROVE  ListLockOK'
<1> USE DEF GoTo, Reading, Writing, InWalk
<1>1. CASE AskClient(p)
  BY <1>1, ListLockFrame DEF AskClient
<1>2. CASE PeekClient(p)
  BY <1>2, ListLockFrame DEF PeekClient
<1>3. CASE OpenList(p)
  BY <1>3, ListLockAsk DEF OpenList
<1>4. CASE BeginWalk(p)
  BY <1>4, ListLockEnter DEF BeginWalk
<1>5. CASE LockNext(p)
  BY <1>5, ListLockFrame DEF LockNext
<1>6. CASE EndWalk(p)
  <2>1. Granted(torrents, p)
    BY <1>6 DEF EndWalk, ListLockOK, Granted
  <2> QED BY <1>6, <2>1, ListLockDrop DEF EndWalk
<1>7. CASE Pass(p)
  BY <1>7, ListLockFrame DEF Pass
<1>8. CASE Announce(p)
  BY <1>8, ListLockFrame DEF Announce
<1>9. CASE FirstUrl(p)
  BY <1>9, ListLockFrame DEF FirstUrl, CallTracker, Send
<1>10. CASE BuildUrl(p)
  BY <1>10, ListLockFrame DEF BuildUrl, Send
<1>11. CASE NextUrl(p)
  BY <1>11, ListLockFrame DEF NextUrl, CallTracker, Send
<1>12. CASE LastUrl(p)
  BY <1>12, ListLockFrame DEF LastUrl
<1> QED BY <1>1, <1>2, <1>3, <1>4, <1>5, <1>6, <1>7, <1>8, <1>9, <1>10, <1>11, <1>12 DEF Walk

\* Every step preserves ListLockOK.
LEMMA ListLockStep ==
    ASSUME TypeOK, TasksOK, ListLockOK, Next
    PROVE  ListLockOK'
<1> USE DEF W, GoTo, Reading, Writing, InWalk
<1>0. W \in Task /\ "main" \in Task /\ "signal" \in Task /\ "renewer" \in Task
  BY DEF Task
<1>1. ASSUME NEW p \in Task, Walk(p)
      PROVE  ListLockOK'
  BY <1>1, ListLockWalk
<1>2. CASE StartWatching
  BY <1>0, <1>2, ListLockFrame DEF StartWatching
<1>3. CASE Receive
  BY <1>0, <1>3, ListLockFrame DEF Receive
<1>4. CASE ParseFile
  BY <1>0, <1>4, ListLockFrame DEF ParseFile
<1>5. CASE AfterWalk
  BY <1>0, <1>5, ListLockFrame, ListLockAsk DEF AfterWalk, ToChangeList
<1>6. CASE PushTorrent
  BY <1>0, <1>6, ListLockDrop DEF PushTorrent
<1>7. CASE RetainTorrents
  BY <1>0, <1>7, ListLockDrop DEF RetainTorrents
<1>8. CASE LoadTorrents
  BY <1>0, <1>8, ListLockFrame DEF LoadTorrents
<1>9. CASE SpawnTasks
  <2>1. at[W] = "unborn" /\ at["signal"] = "unborn" /\ at["main"] = "done"
    BY <1>9 DEF SpawnTasks, TasksOK
  <2>2. at \in [Task -> Place]
    BY DEF TypeOK
  <2>3. /\ at'["main"] = "open" /\ at'["watcher"] = "spawned" /\ at'["signal"] = "idle"
        /\ \A p \in Task \ {"main", "watcher", "signal"} : at'[p] = at[p]
    BY <1>0, <1>9, <2>2 DEF SpawnTasks
  <2>4. ASSUME NEW p \in Task
        PROVE  \/ at'[p] = at[p]
               \/ /\ at[p] \notin Reading \cup Writing
                  /\ at'[p] \notin Reading \cup Writing
    BY <2>1, <2>3
  <2> QED BY <1>9, <2>4 DEF SpawnTasks, ListLockOK
<1>10. CASE AfterTurn
  BY <1>0, <1>10, ListLockFrame DEF AfterTurn
<1>11. CASE WakeUp
  BY <1>0, <1>11, ListLockFrame DEF WakeUp
<1>12. CASE Interrupt
  <2>1. CASE UNCHANGED announcerVars
    BY <2>1 DEF announcerVars, ListLockOK
  <2> QED BY <1>0, <1>12, <2>1, ListLockFrame DEF Interrupt
<1>13. CASE RenewerStep
  BY <1>0, <1>13, ListLockFrame DEF RenewerStep, AskToRenew, RenewKey
<1>14. CASE Exit \/ User
  BY <1>14 DEF Exit, User, CreateFile, FinishFile, DeleteFile, MoveFile, Report, ListLockOK, announcerVars
<1> QED
  BY <1>1, <1>2, <1>3, <1>4, <1>5, <1>6, <1>7, <1>8, <1>9, <1>10, <1>11, <1>12,
     <1>13, <1>14 DEF Next, MainStep, WatcherStep, SignalStep, Task

-----------------------------------------------------------------------------
\* Under the granted write guard of the list nobody is inside a walk.
LEMMA WriterIsAlone ==
    ASSUME TypeOK, ListLockOK, at[W] \in Writing, Granted(torrents, W)
    PROVE  \A p \in Task : at[p] \notin InWalk
<1> SUFFICES ASSUME NEW p \in Task, at[p] \in InWalk PROVE FALSE
  OBVIOUS
<1>0. W \in Task /\ p # W
  BY DEF W, Task, Writing, InWalk
<1>1. torrents \in Lock(Task) /\ Ordered(torrents)
  BY DEF TypeOK, ListLockOK
<1>2. torrents.mode[W] = "write" /\ torrents.mode[p] = "read" /\ torrents.behind[p] = {}
  BY <1>0 DEF ListLockOK, Reading, Writing, InWalk
<1>3. W \in torrents.behind[p]
  BY <1>0, <1>1, <1>2, GrantedWriteIsAlone
<1> QED BY <1>2, <1>3


\* A step that leaves the list and its mutexes alone.
LEMMA TorrentLocksFrame ==
    ASSUME TypeOK, TorrentLocksOK, NEW p \in Task, NEW place,
           at' = [at EXCEPT ![p] = place], list' = list, mutex' = mutex,
           \A q \in Task \ {p} : pos'[q] = pos[q],
           \/ at[p] \notin AtTorrent /\ place \notin AtTorrent
           \/ /\ at[p] \in AtTorrent /\ place \in AtTorrent /\ pos'[p] = pos[p]
              /\ place \in InAnnounce => mutex[pos[p]].behind[p] = {}
    PROVE  TorrentLocksOK'
<1>1. at \in [Task -> Place]
  BY DEF TypeOK
<1>2. \A q \in Task : at'[q] = IF q = p THEN place ELSE at[q]
  BY <1>1
<1>3. \A q \in Task : /\ at'[q] \in AtTorrent <=> at[q] \in AtTorrent
                      /\ at'[q] \in AtTorrent => pos'[q] = pos[q]
  BY <1>2
<1>4. \A i \in DOMAIN mutex' : \A q \in Task :
         mutex'[i].mode[q] = IF at'[q] \in AtTorrent /\ pos'[q] = i THEN "write" ELSE "none"
  BY <1>3 DEF TorrentLocksOK
<1>5. \A q \in Task : at'[q] \in AtTorrent => pos'[q] \in DOMAIN list'
  BY <1>3 DEF TorrentLocksOK
<1>6. \A q \in Task : at'[q] \in InAnnounce => mutex'[pos'[q]].behind[q] = {}
  BY <1>2, <1>3 DEF TorrentLocksOK, AtTorrent
<1>7. Len(mutex') = Len(list') /\ \A i \in DOMAIN mutex' : Ordered(mutex'[i])
  BY DEF TorrentLocksOK
<1> QED BY <1>4, <1>5, <1>6, <1>7 DEF TorrentLocksOK

\* A step of p that asks for the mutex of torrent i, or drops it.
LEMMA TorrentLocksMove ==
    ASSUME TypeOK, TorrentLocksOK, NEW p \in Task, NEW place,
           at' = [at EXCEPT ![p] = place], list' = list,
           \A q \in Task \ {p} : pos'[q] = pos[q],
           NEW i \in DOMAIN mutex, NEW m \in Lock(Task), Ordered(m),
           mutex' = [mutex EXCEPT ![i] = m],
           \A q \in Task \ {p} : /\ m.mode[q] = mutex[i].mode[q]
                                 /\ m.behind[q] \subseteq mutex[i].behind[q],
           place \notin InAnnounce,
           m.mode[p] = IF place \in AtTorrent THEN "write" ELSE "none",
           place \in AtTorrent => pos'[p] = i,
           at[p] \in AtTorrent => pos[p] = i
    PROVE  TorrentLocksOK'
<1>1. at \in [Task -> Place] /\ mutex \in Seq(Lock(Task)) /\ list \in Seq([hash : Hash, file : Path])
  BY DEF TypeOK
<1>2. \A q \in Task : at'[q] = IF q = p THEN place ELSE at[q]
  BY <1>1
<1>3. /\ DOMAIN mutex' = DOMAIN mutex
      /\ Len(mutex') = Len(mutex)
      /\ \A j \in DOMAIN mutex : mutex'[j] = IF j = i THEN m ELSE mutex[j]
  BY <1>1, ExceptSeq, LenProperties
<1>4. DOMAIN mutex = DOMAIN list
  BY <1>1, LenProperties DEF TorrentLocksOK
<1>5. ASSUME NEW j \in DOMAIN mutex, NEW q \in Task
      PROVE  mutex'[j].mode[q] = IF at'[q] \in AtTorrent /\ pos'[q] = j
                                 THEN "write" ELSE "none"
  <2>1. CASE q # p
    <3>1. mutex'[j].mode[q] = mutex[j].mode[q]
      BY <1>3, <2>1
    <3> QED BY <1>2, <2>1, <3>1 DEF TorrentLocksOK
  <2>2. CASE q = p /\ j = i
    BY <1>2, <1>3, <2>2 DEF AtTorrent
  <2>3. CASE q = p /\ j # i
    <3>1. mutex'[j].mode[q] = mutex[j].mode[q]
      BY <1>3, <2>3
    <3>2. mutex[j].mode[q] = "none"
      BY <2>3 DEF TorrentLocksOK
    <3>3. ~(at'[q] \in AtTorrent /\ pos'[q] = j)
      BY <1>2, <2>3
    <3> QED BY <3>1, <3>2, <3>3
  <2> QED BY <2>1, <2>2, <2>3
<1>6. \A q \in Task : at'[q] \in AtTorrent => pos'[q] \in DOMAIN list
  BY <1>2, <1>4 DEF TorrentLocksOK
<1>7. ASSUME NEW q \in Task, at'[q] \in InAnnounce
      PROVE  mutex'[pos'[q]].behind[q] = {}
  <2>1. q # p
    BY <1>2, <1>7 DEF AtTorrent, InAnnounce
  <2>2. at[q] \in InAnnounce /\ pos'[q] = pos[q]
    BY <1>2, <1>7, <2>1
  <2>3. mutex[pos[q]].behind[q] = {} /\ pos[q] \in DOMAIN mutex
    BY <1>4, <2>2 DEF TorrentLocksOK, AtTorrent
  <2> QED BY <1>3, <2>1, <2>2, <2>3
<1>8. \A j \in DOMAIN mutex : Ordered(mutex'[j])
  BY <1>3 DEF TorrentLocksOK
<1> QED BY <1>3, <1>5, <1>6, <1>7, <1>8 DEF TorrentLocksOK

\* p asks for the mutex of the torrent at pos[p].
LEMMA TorrentLocksAsk ==
    ASSUME TypeOK, TorrentLocksOK, NEW p \in Task, LockNext(p)
    PROVE  TorrentLocksOK'
<1> DEFINE m == AskWrite(mutex[pos[p]], p)
<1>1. mutex \in Seq(Lock(Task)) /\ list \in Seq([hash : Hash, file : Path])
  BY DEF TypeOK
<1>2. pos[p] \in DOMAIN mutex /\ mutex[pos[p]] \in Lock(Task)
  <2>1. DOMAIN mutex = DOMAIN list /\ DOMAIN mutex = 1 .. Len(mutex)
    BY <1>1, LenProperties DEF TorrentLocksOK
  <2>2. pos[p] \in DOMAIN list
    BY DEF LockNext, WalkIsOver
  <2> QED BY <1>1, <2>1, <2>2, ElementOfSeq
<1>3. at[p] \notin AtTorrent
  BY DEF LockNext, AtTorrent, InAnnounce
<1>4. mutex[pos[p]].mode[p] = "none" /\ Ordered(mutex[pos[p]])
  BY <1>2, <1>3 DEF TorrentLocksOK
<1>5. m \in Lock(Task) /\ Ordered(m)
  BY <1>2, <1>4, AskWriteType, AskWriteOrdered
<1>6. /\ m.mode[p] = "write"
      /\ \A q \in Task \ {p} : /\ m.mode[q] = mutex[pos[p]].mode[q]
                               /\ m.behind[q] \subseteq mutex[pos[p]].behind[q]
  BY <1>2, AskWriteType
<1> HIDE DEF m
<1>7. mutex' = [mutex EXCEPT ![pos[p]] = m]
  BY <1>2 DEF LockNext, m
<1>8. at' = [at EXCEPT ![p] = "torrent"] /\ list' = list
  BY DEF LockNext, GoTo
<1>9. pos'[p] = pos[p] /\ \A q \in Task \ {p} : pos'[q] = pos[q]
  BY DEF LockNext
<1>10. "torrent" \in AtTorrent /\ "torrent" \notin InAnnounce
  BY DEF AtTorrent, InAnnounce
<1> HIDE DEF m
<1> QED BY <1>2, <1>3, <1>5, <1>6, <1>7, <1>8, <1>9, <1>10, TorrentLocksMove

\* p drops the granted mutex and goes on.
LEMMA TorrentLocksDrop ==
    ASSUME TypeOK, TorrentLocksOK, NEW p \in Task,
           at[p] \in AtTorrent, Granted(mutex[pos[p]], p),
           at' = [at EXCEPT ![p] = "next"], list' = list,
           \A q \in Task \ {p} : pos'[q] = pos[q],
           mutex' = [mutex EXCEPT ![pos[p]] = Drop(@, p)]
    PROVE  TorrentLocksOK'
<1> DEFINE m == Drop(mutex[pos[p]], p)
<1>1. pos[p] \in DOMAIN mutex /\ mutex[pos[p]] \in Lock(Task)
  BY TorrentAtPos
<1>2. Ordered(mutex[pos[p]])
  BY <1>1 DEF TorrentLocksOK
<1>3. m \in Lock(Task) /\ Ordered(m)
  BY <1>1, <1>2, DropType, DropOrdered
<1>4. /\ m.mode[p] = "none"
      /\ \A q \in Task \ {p} : /\ m.mode[q] = mutex[pos[p]].mode[q]
                               /\ m.behind[q] \subseteq mutex[pos[p]].behind[q]
  BY <1>1, DropType
<1>5. mutex' = [mutex EXCEPT ![pos[p]] = m]
  BY <1>1
<1>6. "next" \notin AtTorrent /\ "next" \notin InAnnounce
  BY DEF AtTorrent, InAnnounce
<1> HIDE DEF m
<1> QED BY <1>1, <1>3, <1>4, <1>5, <1>6, TorrentLocksMove

\* A step of a walk preserves TorrentLocksOK.
LEMMA TorrentLocksWalk ==
    ASSUME TypeOK, TorrentLocksOK, NEW p \in Task, Walk(p)
    PROVE  TorrentLocksOK'
<1> USE DEF GoTo, AtTorrent, InAnnounce
<1>0. pos \in [Task -> Nat]
  BY DEF TypeOK
<1>1. CASE AskClient(p)
  BY <1>1, TorrentLocksFrame DEF AskClient
<1>2. CASE PeekClient(p)
  BY <1>2, TorrentLocksFrame DEF PeekClient
<1>3. CASE OpenList(p)
  BY <1>3, TorrentLocksFrame DEF OpenList
<1>4. CASE BeginWalk(p)
  BY <1>0, <1>4, TorrentLocksFrame DEF BeginWalk
<1>5. CASE LockNext(p)
  BY <1>5, TorrentLocksAsk
<1>6. CASE EndWalk(p)
  BY <1>0, <1>6, TorrentLocksFrame DEF EndWalk
<1>7. CASE Pass(p)
  BY <1>0, <1>7, TorrentLocksDrop DEF Pass
<1>8. CASE Announce(p)
  BY <1>8, TorrentLocksFrame DEF Announce, Granted
<1>9. CASE FirstUrl(p) \/ BuildUrl(p) \/ NextUrl(p)
  <2>1. at[p] \in InAnnounce
    BY <1>9 DEF FirstUrl, BuildUrl, NextUrl
  <2>2. mutex[pos[p]].behind[p] = {}
    BY <2>1 DEF TorrentLocksOK
  <2>3. /\ list' = list /\ mutex' = mutex /\ pos' = pos
        /\ \E place \in InAnnounce : at' = [at EXCEPT ![p] = place]
    BY <1>9 DEF FirstUrl, BuildUrl, NextUrl, CallTracker, Send
  <2> QED BY <2>1, <2>2, <2>3, TorrentLocksFrame
<1>10. CASE LastUrl(p)
  <2>1. at[p] \in InAnnounce
    BY <1>10 DEF LastUrl
  <2>2. Granted(mutex[pos[p]], p)
    BY <2>1, TorrentAtPos DEF TorrentLocksOK, Granted
  <2> QED BY <1>0, <1>10, <2>2, TorrentLocksDrop DEF LastUrl
<1> QED BY <1>1, <1>2, <1>3, <1>4, <1>5, <1>6, <1>7, <1>8, <1>9, <1>10 DEF Walk

\* Enough for a step that changes the list: nobody is at a torrent after it, and
\* no mutex of the new list is asked for.
LEMMA TorrentLocksFree ==
    ASSUME Len(mutex') = Len(list'),
           \A i \in DOMAIN mutex' : /\ Ordered(mutex'[i])
                                    /\ \A p \in Task : mutex'[i].mode[p] = "none",
           \A p \in Task : at'[p] \notin AtTorrent
    PROVE  TorrentLocksOK'
BY DEF TorrentLocksOK, AtTorrent

\* Under the granted write guard of the list no task has asked for a mutex.
LEMMA WriterFindsAllFree ==
    ASSUME TypeOK, ListLockOK, TorrentLocksOK, at[W] \in Writing, Granted(torrents, W)
    PROVE  /\ \A p \in Task : at[p] \notin AtTorrent
           /\ \A i \in DOMAIN mutex : \A p \in Task : mutex[i].mode[p] = "none"
<1>1. \A p \in Task : at[p] \notin AtTorrent
  BY WriterIsAlone DEF AtTorrent, InAnnounce, InWalk
<1> QED BY <1>1 DEF TorrentLocksOK

\* A torrent pushed to the list comes with a mutex nobody has asked for.
LEMMA TorrentLocksPush ==
    ASSUME TypeOK, ListLockOK, TorrentLocksOK, PushTorrent
    PROVE  TorrentLocksOK'
<1>1. /\ at[W] \in Writing /\ Granted(torrents, W)
      /\ at' = [at EXCEPT ![W] = "ask"]
      /\ mutex' = Append(mutex, Unlocked(Task))
      /\ list' = Append(list, [hash |-> wanted.hash, file |-> wanted.file])
  BY DEF PushTorrent, Writing, GoTo
<1>2. /\ at \in [Task -> Place] /\ mutex \in Seq(Lock(Task))
      /\ list \in Seq([hash : Hash, file : Path]) /\ wanted \in [hash : Hash, file : File]
  BY DEF TypeOK
<1>3. /\ Unlocked(Task) \in Lock(Task) /\ Ordered(Unlocked(Task))
      /\ \A p \in Task : Unlocked(Task).mode[p] = "none"
  BY UnlockedIsOrdered
<1>4. /\ Len(mutex') = Len(mutex) + 1 /\ DOMAIN mutex' = 1 .. Len(mutex) + 1
      /\ DOMAIN mutex = 1 .. Len(mutex)
      /\ \A i \in 1 .. Len(mutex) : mutex'[i] = mutex[i]
      /\ mutex'[Len(mutex) + 1] = Unlocked(Task)
  <2> DEFINE u == Unlocked(Task)
  <2> HIDE DEF u
  <2>1. mutex' = Append(mutex, u) /\ u \in Lock(Task)
    BY <1>1, <1>3 DEF u
  <2>2. /\ Append(mutex, u) \in Seq(Lock(Task))
        /\ Len(Append(mutex, u)) = Len(mutex) + 1
        /\ \A i \in 1 .. Len(mutex) : Append(mutex, u)[i] = mutex[i]
        /\ Append(mutex, u)[Len(mutex) + 1] = u
    BY <1>2, <2>1, AppendProperties
  <2> QED BY <1>2, <2>1, <2>2, LenProperties DEF u
<1>5. Len(list') = Len(list) + 1 /\ Len(mutex) = Len(list)
  BY <1>1, <1>2 DEF TorrentLocksOK
<1>6. \A i \in DOMAIN mutex' : /\ Ordered(mutex'[i])
                               /\ \A p \in Task : mutex'[i].mode[p] = "none"
  <2> SUFFICES ASSUME NEW i \in 1 .. Len(mutex) + 1
               PROVE  /\ Ordered(mutex'[i])
                      /\ \A p \in Task : mutex'[i].mode[p] = "none"
    BY <1>4
  <2>1. CASE i \in 1 .. Len(mutex)
    <3>1. mutex'[i] = mutex[i] /\ i \in DOMAIN mutex
      BY <1>4, <2>1
    <3>2. Ordered(mutex[i])
      BY <3>1 DEF TorrentLocksOK
    <3>3. \A p \in Task : mutex[i].mode[p] = "none"
      BY <1>1, <3>1, WriterFindsAllFree
    <3> QED BY <3>1, <3>2, <3>3
  <2>2. CASE i = Len(mutex) + 1
    BY <1>3, <1>4, <2>2
  <2> QED BY <1>2, <2>1, <2>2, LenProperties
<1>7. \A p \in Task : at'[p] \notin AtTorrent
  BY <1>1, <1>2, WriterFindsAllFree DEF AtTorrent, InAnnounce
<1> QED BY <1>4, <1>5, <1>6, <1>7, TorrentLocksFree

\* The mutexes of the torrents a removal keeps are mutexes of the old list.
LEMMA TorrentLocksRetain ==
    ASSUME TypeOK, ListLockOK, TorrentLocksOK, RetainTorrents
    PROVE  TorrentLocksOK'
<1>1. /\ at[W] \in Writing /\ Granted(torrents, W)
      /\ at' = [at EXCEPT ![W] = "idle"]
  BY DEF RetainTorrents, Writing, GoTo
<1>2. /\ at \in [Task -> Place] /\ mutex \in Seq(Lock(Task))
      /\ list \in Seq([hash : Hash, file : Path])
  BY DEF TypeOK
<1>3. PICK size \in 0 .. Len(list) : \E kept \in [1 .. size -> DOMAIN list] :
          /\ list'  = [n \in 1 .. size |-> list[kept[n]]]
          /\ mutex' = [n \in 1 .. size |-> mutex[kept[n]]]
  BY DEF RetainTorrents
<1>4. PICK kept \in [1 .. size -> DOMAIN list] :
          /\ list'  = [n \in 1 .. size |-> list[kept[n]]]
          /\ mutex' = [n \in 1 .. size |-> mutex[kept[n]]]
  BY <1>3
<1>5. size \in Nat /\ DOMAIN list = DOMAIN mutex
  BY <1>2, <1>3, LenProperties DEF TorrentLocksOK
<1>6. Len(mutex') = Len(list') /\ DOMAIN mutex' = 1 .. size
  BY <1>4, <1>5
<1>7. \A i \in DOMAIN mutex' : /\ Ordered(mutex'[i])
                               /\ \A p \in Task : mutex'[i].mode[p] = "none"
  <2> SUFFICES ASSUME NEW i \in 1 .. size
               PROVE  /\ Ordered(mutex'[i])
                      /\ \A p \in Task : mutex'[i].mode[p] = "none"
    BY <1>6
  <2>1. mutex'[i] = mutex[kept[i]] /\ kept[i] \in DOMAIN mutex
    BY <1>4, <1>5
  <2>2. Ordered(mutex[kept[i]])
    BY <2>1 DEF TorrentLocksOK
  <2>3. \A p \in Task : mutex[kept[i]].mode[p] = "none"
    BY <1>1, <2>1, WriterFindsAllFree
  <2> QED BY <2>1, <2>2, <2>3
<1>8. \A p \in Task : at'[p] \notin AtTorrent
  BY <1>1, <1>2, WriterFindsAllFree DEF AtTorrent, InAnnounce
<1> QED BY <1>6, <1>7, <1>8, TorrentLocksFree

\* When main() loads the torrents no other task is at one.
LEMMA TorrentLocksLoad ==
    ASSUME TypeOK, TasksOK, LoadTorrents
    PROVE  TorrentLocksOK'
<1>1. PICK size \in 0 .. Cardinality(File) :
         /\ \E order \in [1 .. size -> {f \in File : dir[f] \in Hash}] :
               list' = [n \in 1 .. size |-> [hash |-> dir[order[n]], file |-> SourcePath[order[n]]]]
         /\ mutex' = [n \in 1 .. size |-> Unlocked(Task)]
  BY DEF LoadTorrents
<1>2. PICK order \in [1 .. size -> {f \in File : dir[f] \in Hash}] :
         list' = [n \in 1 .. size |-> [hash |-> dir[order[n]], file |-> SourcePath[order[n]]]]
  BY <1>1
<1>3. size \in Nat
  BY <1>1, FS_CardinalityType, TorrentAssumption
<1>4. Len(mutex') = Len(list') /\ DOMAIN mutex' = 1 .. size
  BY <1>1, <1>2, <1>3
<1>5. \A i \in DOMAIN mutex' : /\ Ordered(mutex'[i])
                               /\ \A p \in Task : mutex'[i].mode[p] = "none"
  <2> SUFFICES ASSUME NEW i \in 1 .. size
               PROVE  /\ Ordered(mutex'[i])
                      /\ \A p \in Task : mutex'[i].mode[p] = "none"
    BY <1>4
  <2>1. mutex'[i] = Unlocked(Task)
    BY <1>1
  <2> QED BY <2>1, UnlockedIsOrdered
<1>6. \A p \in Task : at'[p] \notin AtTorrent
  <2>1. at \in [Task -> Place] /\ at' = [at EXCEPT !["main"] = "open"]
    BY DEF TypeOK, LoadTorrents, GoTo
  <2>2. /\ at[W] = "unborn" /\ at["signal"] = "unborn"
        /\ at["renewer"] \in {"unborn", "idle", "renew"}
    BY DEF TasksOK, LoadTorrents
  <2> QED BY <2>1, <2>2 DEF Task, W, AtTorrent, InAnnounce
<1> QED BY <1>4, <1>5, <1>6, TorrentLocksFree

\* Every step preserves TorrentLocksOK.
LEMMA TorrentLocksStep ==
    ASSUME TypeOK, TasksOK, ListLockOK, TorrentLocksOK, Next
    PROVE  TorrentLocksOK'
<1> USE DEF W, GoTo, AtTorrent, InAnnounce
<1>0. W \in Task /\ "main" \in Task /\ "signal" \in Task /\ "renewer" \in Task
  BY DEF Task
<1>1. ASSUME NEW p \in Task, Walk(p)
      PROVE  TorrentLocksOK'
  BY <1>1, TorrentLocksWalk
<1>2. CASE StartWatching
  BY <1>0, <1>2, TorrentLocksFrame DEF StartWatching
<1>3. CASE Receive
  BY <1>0, <1>3, TorrentLocksFrame DEF Receive
<1>4. CASE ParseFile
  BY <1>0, <1>4, TorrentLocksFrame DEF ParseFile
<1>5. CASE AfterWalk
  BY <1>0, <1>5, TorrentLocksFrame DEF AfterWalk
<1>6. CASE PushTorrent
  BY <1>6, TorrentLocksPush
<1>7. CASE RetainTorrents
  BY <1>7, TorrentLocksRetain
<1>8. CASE LoadTorrents
  BY <1>8, TorrentLocksLoad
<1>9. CASE SpawnTasks
  <2>1. at[W] = "unborn" /\ at["signal"] = "unborn" /\ at["main"] = "done"
    BY <1>9 DEF SpawnTasks, TasksOK
  <2>2. at \in [Task -> Place]
    BY DEF TypeOK
  <2>3. /\ at'["main"] = "open" /\ at'["watcher"] = "spawned" /\ at'["signal"] = "idle"
        /\ \A p \in Task \ {"main", "watcher", "signal"} : at'[p] = at[p]
    BY <1>0, <1>9, <2>2 DEF SpawnTasks
  <2>4. ASSUME NEW p \in Task
        PROVE  \/ at'[p] = at[p]
               \/ at[p] \notin AtTorrent /\ at'[p] \notin AtTorrent
    BY <2>1, <2>3
  <2>5. mutex' = mutex /\ list' = list /\ pos' = pos
    BY <1>9 DEF SpawnTasks
  <2> QED BY <2>4, <2>5 DEF TorrentLocksOK
<1>10. CASE AfterTurn
  BY <1>0, <1>10, TorrentLocksFrame DEF AfterTurn
<1>11. CASE WakeUp
  BY <1>0, <1>11, TorrentLocksFrame DEF WakeUp
<1>12. CASE Interrupt
  <2>1. CASE UNCHANGED announcerVars
    BY <2>1 DEF announcerVars, TorrentLocksOK
  <2> QED BY <1>0, <1>12, <2>1, TorrentLocksFrame DEF Interrupt
<1>13. CASE RenewerStep
  BY <1>0, <1>13, TorrentLocksFrame DEF RenewerStep, AskToRenew, RenewKey
<1>14. CASE Exit \/ User
  <2>1. list' = list /\ mutex' = mutex /\ at' = at /\ pos' = pos
    BY <1>14 DEF Exit, User, CreateFile, FinishFile, DeleteFile, MoveFile, Report, announcerVars
  <2> QED BY <2>1 DEF TorrentLocksOK
<1> QED
  BY <1>1, <1>2, <1>3, <1>4, <1>5, <1>6, <1>7, <1>8, <1>9, <1>10, <1>11, <1>12,
     <1>13, <1>14 DEF Next, MainStep, WatcherStep, SignalStep, Task

-----------------------------------------------------------------------------
\* What a task at a place has asked of CLIENT with its first guard.
OuterAt(place) == IF place \in {"peek"} \cup InAnnounce THEN "read"
                  ELSE IF place = "renew" THEN "write" ELSE "none"

\* Each task has two guards of CLIENT of its own.
LEMMA GuardsDiffer ==
    ASSUME NEW p \in Task, NEW q \in Task
    PROVE  /\ Outer(p) \in ClientGuard /\ Inner(p) \in ClientGuard
           /\ Outer(p) # Inner(q)
           /\ Outer(p) = Outer(q) => p = q
           /\ Inner(p) = Inner(q) => p = q
BY DEF Outer, Inner, ClientGuard

\* Enough for a step of p to preserve ClientLockOK: its guards fit the place it
\* goes to, and no other task loses or waits for more.
LEMMA ClientLockMove ==
    ASSUME TypeOK, ClientLockOK, NEW p \in Task, NEW place,
           at' = [at EXCEPT ![p] = place],
           Ordered(client'),
           client'.mode[Outer(p)] = OuterAt(place),
           client'.mode[Inner(p)] = IF place = "key" THEN "read" ELSE "none",
           place \in {"key", "answer"} => client'.behind[Outer(p)] = {},
           place = "key" => ~OnlyUdpTrackers,
           \A q \in Task \ {p} :
              /\ client'.mode[Outer(q)] = client.mode[Outer(q)]
              /\ client'.mode[Inner(q)] = client.mode[Inner(q)]
              /\ client'.behind[Outer(q)] \subseteq client.behind[Outer(q)]
    PROVE  ClientLockOK'
<1>1. \A q \in Task : at'[q] = IF q = p THEN place ELSE at[q]
  BY DEF TypeOK
<1>2. \A q \in Task : client'.mode[Outer(q)] = OuterAt(at'[q])
  BY <1>1 DEF ClientLockOK, OuterAt
<1>3. \A q \in Task : client'.mode[Inner(q)] = IF at'[q] = "key" THEN "read" ELSE "none"
  BY <1>1 DEF ClientLockOK
<1>4. \A q \in Task : at'[q] \in {"key", "answer"} => client'.behind[Outer(q)] = {}
  <2> SUFFICES ASSUME NEW q \in Task, at'[q] \in {"key", "answer"}
               PROVE  client'.behind[Outer(q)] = {}
    OBVIOUS
  <2>1. CASE q = p
    BY <1>1, <2>1
  <2>2. CASE q # p
    BY <1>1, <2>2 DEF ClientLockOK
  <2> QED BY <2>1, <2>2
<1>5. \A q \in Task : at'[q] = "key" => ~OnlyUdpTrackers
  BY <1>1 DEF ClientLockOK
<1>6. OnlyUdpTrackers' <=> OnlyUdpTrackers
  BY DEF OnlyUdpTrackers
<1> QED BY <1>2, <1>3, <1>4, <1>5, <1>6 DEF ClientLockOK, OuterAt

\* The common case: CLIENT is not touched.
LEMMA ClientLockFrame ==
    ASSUME TypeOK, ClientLockOK, NEW p \in Task, NEW place,
           at' = [at EXCEPT ![p] = place], client' = client,
           OuterAt(at[p]) = OuterAt(place),
           at[p] # "key" /\ place # "key",
           place = "answer" => client.behind[Outer(p)] = {}
    PROVE  ClientLockOK'
<1>1. /\ Ordered(client) /\ client.mode[Outer(p)] = OuterAt(place)
      /\ client.mode[Inner(p)] = "none"
  BY DEF ClientLockOK, OuterAt
<1> QED BY <1>1, ClientLockMove

\* The first guard is asked for.
LEMMA ClientLockAsk ==
    ASSUME TypeOK, ClientLockOK, NEW p \in Task, NEW place,
           at' = [at EXCEPT ![p] = place],
           OuterAt(at[p]) = "none", place \notin {"key", "answer"},
           \/ client' = AskRead(client, Outer(p)) /\ OuterAt(place) = "read"
           \/ client' = AskWrite(client, Outer(p)) /\ OuterAt(place) = "write"
    PROVE  ClientLockOK'
<1>1. client \in Lock(ClientGuard) /\ Ordered(client) /\ Outer(p) \in ClientGuard
  BY GuardsDiffer DEF TypeOK, ClientLockOK
<1>2. client.mode[Outer(p)] = "none" /\ client.mode[Inner(p)] = "none"
  BY DEF ClientLockOK, OuterAt, InAnnounce
<1>3. /\ Ordered(client') /\ client'.mode[Outer(p)] = OuterAt(place)
      /\ \A g \in ClientGuard \ {Outer(p)} : /\ client'.mode[g] = client.mode[g]
                                             /\ client'.behind[g] = client.behind[g]
  <2>1. CASE client' = AskRead(client, Outer(p)) /\ OuterAt(place) = "read"
    BY <1>1, <1>2, <2>1, AskReadOrdered, AskReadType
  <2>2. CASE client' = AskWrite(client, Outer(p)) /\ OuterAt(place) = "write"
    BY <1>1, <1>2, <2>2, AskWriteOrdered, AskWriteType
  <2> QED BY <2>1, <2>2
<1>4. client'.mode[Inner(p)] = "none"
  BY <1>2, <1>3, GuardsDiffer
<1>5. \A q \in Task \ {p} :
         /\ client'.mode[Outer(q)] = client.mode[Outer(q)]
         /\ client'.mode[Inner(q)] = client.mode[Inner(q)]
         /\ client'.behind[Outer(q)] \subseteq client.behind[Outer(q)]
  BY <1>3, GuardsDiffer
<1> QED BY <1>3, <1>4, <1>5, ClientLockMove

\* The first guard, granted, is dropped.
LEMMA ClientLockDrop ==
    ASSUME TypeOK, ClientLockOK, NEW p \in Task, NEW place,
           at' = [at EXCEPT ![p] = place], at[p] # "key",
           OuterAt(place) = "none",
           client' = Drop(client, Outer(p)), Granted(client, Outer(p))
    PROVE  ClientLockOK'
<1>1. client \in Lock(ClientGuard) /\ Ordered(client) /\ Outer(p) \in ClientGuard
  BY GuardsDiffer DEF TypeOK, ClientLockOK
<1>2. client.mode[Inner(p)] = "none" /\ place \notin {"key", "answer"}
  BY DEF ClientLockOK, OuterAt, InAnnounce
<1>3. Ordered(client')
  BY <1>1, DropOrdered
<1>4. \A g \in ClientGuard :
         /\ client'.mode[g] = IF g = Outer(p) THEN "none" ELSE client.mode[g]
         /\ client'.behind[g] \subseteq client.behind[g]
  BY <1>1, DropType
<1>5. client'.mode[Outer(p)] = "none" /\ client'.mode[Inner(p)] = "none"
  BY <1>2, <1>4, GuardsDiffer
<1>6. \A q \in Task \ {p} :
         /\ client'.mode[Outer(q)] = client.mode[Outer(q)]
         /\ client'.mode[Inner(q)] = client.mode[Inner(q)]
         /\ client'.behind[Outer(q)] \subseteq client.behind[Outer(q)]
  BY <1>4, GuardsDiffer
<1> QED BY <1>2, <1>3, <1>5, <1>6, ClientLockMove

\* The second guard is asked for under the first.
LEMMA ClientLockAskAgain ==
    ASSUME TypeOK, ClientLockOK, NEW p \in Task,
           at' = [at EXCEPT ![p] = "key"], at[p] \in {"client", "answer"},
           client.behind[Outer(p)] = {}, ~OnlyUdpTrackers,
           client' = AskRead(client, Inner(p))
    PROVE  ClientLockOK'
<1>1. client \in Lock(ClientGuard) /\ Ordered(client) /\ Inner(p) \in ClientGuard
  BY GuardsDiffer DEF TypeOK, ClientLockOK
<1>2. client.mode[Outer(p)] = "read" /\ client.mode[Inner(p)] = "none"
  BY DEF ClientLockOK, InAnnounce
<1>3. Ordered(client')
  BY <1>1, <1>2, AskReadOrdered
<1>4. /\ client'.mode[Inner(p)] = "read"
      /\ \A g \in ClientGuard \ {Inner(p)} : /\ client'.mode[g] = client.mode[g]
                                             /\ client'.behind[g] = client.behind[g]
  BY <1>1, AskReadType
<1>5. client'.mode[Outer(p)] = OuterAt("key") /\ client'.behind[Outer(p)] = {}
  BY <1>2, <1>4, GuardsDiffer DEF OuterAt, InAnnounce
<1>6. \A q \in Task \ {p} :
         /\ client'.mode[Outer(q)] = client.mode[Outer(q)]
         /\ client'.mode[Inner(q)] = client.mode[Inner(q)]
         /\ client'.behind[Outer(q)] \subseteq client.behind[Outer(q)]
  BY <1>4, GuardsDiffer
<1> QED BY <1>3, <1>4, <1>5, <1>6, ClientLockMove

\* The second guard, granted, is dropped.
LEMMA ClientLockDropAgain ==
    ASSUME TypeOK, ClientLockOK, NEW p \in Task,
           at' = [at EXCEPT ![p] = "answer"], at[p] = "key",
           client' = Drop(client, Inner(p)), Granted(client, Inner(p))
    PROVE  ClientLockOK'
<1>1. client \in Lock(ClientGuard) /\ Ordered(client) /\ Inner(p) \in ClientGuard
  BY GuardsDiffer DEF TypeOK, ClientLockOK
<1>2. client.mode[Outer(p)] = "read" /\ client.behind[Outer(p)] = {}
  BY DEF ClientLockOK, InAnnounce
<1>3. Ordered(client')
  BY <1>1, DropOrdered
<1>4. \A g \in ClientGuard :
         /\ client'.mode[g] = IF g = Inner(p) THEN "none" ELSE client.mode[g]
         /\ client'.behind[g] \subseteq client.behind[g]
  BY <1>1, DropType
<1>5. /\ client'.mode[Outer(p)] = OuterAt("answer") /\ client'.behind[Outer(p)] = {}
      /\ client'.mode[Inner(p)] = "none"
  BY <1>1, <1>2, <1>4, GuardsDiffer DEF OuterAt, InAnnounce
<1>6. \A q \in Task \ {p} :
         /\ client'.mode[Outer(q)] = client.mode[Outer(q)]
         /\ client'.mode[Inner(q)] = client.mode[Inner(q)]
         /\ client'.behind[Outer(q)] \subseteq client.behind[Outer(q)]
  BY <1>4, GuardsDiffer
<1> QED BY <1>3, <1>5, <1>6, ClientLockMove

\* A tracker is called: at once, or after the second guard is granted.
LEMMA ClientLockCall ==
    ASSUME TypeOK, TorrentLocksOK, ClientLockOK, NEW p \in Task,
           at[p] \in {"client", "answer"}, client.behind[Outer(p)] = {},
           NEW u \in DOMAIN Urls[list[pos[p]].hash], CallTracker(p, u)
    PROVE  ClientLockOK'
<1>1. at[p] \in AtTorrent
  BY DEF AtTorrent, InAnnounce
<1>2. CASE Send(p) /\ UNCHANGED client
  BY <1>2, ClientLockFrame DEF Send, GoTo, OuterAt, InAnnounce
<1>3. CASE /\ Urls[list[pos[p]].hash][u] = "http"
           /\ client' = AskRead(client, Inner(p)) /\ GoTo(p, "key")
  <2>1. ~OnlyUdpTrackers
    BY <1>1, <1>3, TorrentAtPos DEF OnlyUdpTrackers
  <2> QED BY <1>3, <2>1, ClientLockAskAgain DEF GoTo
<1> QED BY <1>2, <1>3 DEF CallTracker

\* A step of a walk preserves ClientLockOK.
LEMMA ClientLockWalk ==
    ASSUME TypeOK, TorrentLocksOK, ClientLockOK, NEW p \in Task, Walk(p)
    PROVE  ClientLockOK'
<1> USE DEF GoTo, OuterAt, InAnnounce
<1>1. CASE AskClient(p)
  BY <1>1, ClientLockAsk DEF AskClient
<1>2. CASE PeekClient(p)
  BY <1>2, ClientLockDrop DEF PeekClient
<1>3. CASE OpenList(p)
  BY <1>3, ClientLockFrame DEF OpenList
<1>4. CASE BeginWalk(p)
  BY <1>4, ClientLockFrame DEF BeginWalk
<1>5. CASE LockNext(p)
  BY <1>5, ClientLockFrame DEF LockNext
<1>6. CASE EndWalk(p)
  BY <1>6, ClientLockFrame DEF EndWalk
<1>7. CASE Pass(p)
  BY <1>7, ClientLockFrame DEF Pass
<1>8. CASE Announce(p)
  BY <1>8, ClientLockAsk DEF Announce
<1>a. ASSUME at[p] \in AtTorrent
      PROVE  /\ list[pos[p]].hash \in Hash
             /\ Len(Urls[list[pos[p]].hash]) \in Nat
             /\ DOMAIN Urls[list[pos[p]].hash] = 1 .. Len(Urls[list[pos[p]].hash])
             /\ 1 \in DOMAIN Urls[list[pos[p]].hash]
  <2>1. list[pos[p]].hash \in Hash
    BY <1>a, TorrentAtPos
  <2>2. Urls[list[pos[p]].hash] \in Seq(Scheme) /\ Urls[list[pos[p]].hash] # <<>>
    BY <2>1, TorrentAssumption DEF TorrentAssumption
  <2> QED BY <2>1, <2>2, LenProperties, EmptySeq
<1>9. CASE FirstUrl(p)
  <2>1. at[p] = "client" /\ client.behind[Outer(p)] = {} /\ CallTracker(p, 1)
    BY <1>9 DEF FirstUrl, Granted
  <2>2. 1 \in DOMAIN Urls[list[pos[p]].hash]
    BY <1>a, <2>1 DEF AtTorrent
  <2> QED BY <2>1, <2>2, ClientLockCall
<1>10. CASE BuildUrl(p)
  BY <1>10, ClientLockDropAgain DEF BuildUrl, Send
<1>11. CASE NextUrl(p)
  <2>1. /\ at[p] = "answer" /\ CallTracker(p, url[p] + 1)
        /\ url[p] < Len(Urls[list[pos[p]].hash])
    BY <1>11 DEF NextUrl
  <2>2. client.behind[Outer(p)] = {}
    BY <2>1 DEF ClientLockOK
  <2>3. url[p] \in Nat
    BY DEF TypeOK
  <2>4. url[p] + 1 \in DOMAIN Urls[list[pos[p]].hash]
    BY <1>a, <2>1, <2>3 DEF AtTorrent
  <2> QED BY <2>1, <2>2, <2>4, ClientLockCall
<1>12. CASE LastUrl(p)
  <2>1. Granted(client, Outer(p))
    BY <1>12 DEF LastUrl, Granted, ClientLockOK
  <2> QED BY <1>12, <2>1, ClientLockDrop DEF LastUrl
<1> QED BY <1>1, <1>2, <1>3, <1>4, <1>5, <1>6, <1>7, <1>8, <1>9, <1>10, <1>11, <1>12 DEF Walk

\* Every step preserves ClientLockOK.
LEMMA ClientLockStep ==
    ASSUME TypeOK, TasksOK, TorrentLocksOK, ClientLockOK, Next
    PROVE  ClientLockOK'
<1> USE DEF W, GoTo, OuterAt, InAnnounce
<1>0. W \in Task /\ "main" \in Task /\ "signal" \in Task /\ "renewer" \in Task
  BY DEF Task
<1>1. ASSUME NEW p \in Task, Walk(p)
      PROVE  ClientLockOK'
  BY <1>1, ClientLockWalk
<1>2. CASE StartWatching
  BY <1>0, <1>2, ClientLockFrame DEF StartWatching
<1>3. CASE Receive
  BY <1>0, <1>3, ClientLockFrame DEF Receive
<1>4. CASE ParseFile
  BY <1>0, <1>4, ClientLockFrame DEF ParseFile
<1>5. CASE AfterWalk
  BY <1>0, <1>5, ClientLockFrame DEF AfterWalk
<1>6. CASE PushTorrent
  BY <1>0, <1>6, ClientLockFrame DEF PushTorrent
<1>7. CASE RetainTorrents
  BY <1>0, <1>7, ClientLockFrame DEF RetainTorrents
<1>8. CASE LoadTorrents
  BY <1>0, <1>8, ClientLockFrame DEF LoadTorrents
<1>9. CASE SpawnTasks
  <2>1. at[W] = "unborn" /\ at["signal"] = "unborn" /\ at["main"] = "done"
    BY <1>9 DEF SpawnTasks, TasksOK
  <2>2. at \in [Task -> Place]
    BY DEF TypeOK
  <2>3. /\ at'["main"] = "open" /\ at'["watcher"] = "spawned" /\ at'["signal"] = "idle"
        /\ \A p \in Task \ {"main", "watcher", "signal"} : at'[p] = at[p]
    BY <1>0, <1>9, <2>2 DEF SpawnTasks
  <2>4. ASSUME NEW p \in Task
        PROVE  \/ at'[p] = at[p]
               \/ /\ at[p] \in {"unborn", "done"}
                  /\ at'[p] \in {"open", "spawned", "idle"}
    BY <2>1, <2>3
  <2>5. client' = client /\ (OnlyUdpTrackers' <=> OnlyUdpTrackers)
    BY <1>9 DEF SpawnTasks, OnlyUdpTrackers
  <2> QED BY <2>4, <2>5 DEF ClientLockOK
<1>10. CASE AfterTurn
  BY <1>0, <1>10, ClientLockFrame DEF AfterTurn
<1>11. CASE WakeUp
  BY <1>0, <1>11, ClientLockFrame DEF WakeUp
<1>12. CASE Interrupt
  <2>1. CASE UNCHANGED announcerVars
    BY <2>1 DEF announcerVars, ClientLockOK, OnlyUdpTrackers
  <2> QED BY <1>0, <1>12, <2>1, ClientLockFrame DEF Interrupt
<1>13. CASE AskToRenew
  <2>1. OuterAt(at["renewer"]) = "none" /\ OuterAt("renew") = "write"
    BY <1>13 DEF AskToRenew
  <2>2. /\ client' = AskWrite(client, Outer("renewer"))
        /\ at' = [at EXCEPT !["renewer"] = "renew"]
    BY <1>13 DEF AskToRenew
  <2>3. "renew" \notin {"key", "answer"}
    OBVIOUS
  <2> HIDE DEF OuterAt, InAnnounce
  <2> QED BY <1>0, <2>1, <2>2, <2>3, ClientLockAsk
<1>14. CASE RenewKey
  BY <1>0, <1>14, ClientLockDrop DEF RenewKey
<1>15. CASE Exit \/ User
  <2>1. client' = client /\ at' = at /\ (OnlyUdpTrackers' <=> OnlyUdpTrackers)
    BY <1>15 DEF Exit, User, CreateFile, FinishFile, DeleteFile, MoveFile, Report,
              OnlyUdpTrackers, announcerVars
  <2> QED BY <2>1 DEF ClientLockOK
<1> QED
  BY <1>1, <1>2, <1>3, <1>4, <1>5, <1>6, <1>7, <1>8, <1>9, <1>10, <1>11, <1>12,
     <1>13, <1>14, <1>15 DEF Next, MainStep, WatcherStep, SignalStep, RenewerStep, Task
=============================================================================
