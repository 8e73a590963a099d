--------------------------- MODULE RatioUpProofs ---------------------------
(***************************************************************************)
(* The inductive invariant of RatioUp, and the properties that follow.      *)
(***************************************************************************)
EXTENDS RatioUpListProofs

\* The initial states satisfy the invariant: nobody has asked for anything.
LEMMA InitInv == Init => Inv
<1> SUFFICES ASSUME Init PROVE Inv
  OBVIOUS
<1>1. /\ list = <<>> /\ mutex = <<>>
      /\ torrents = Unlocked(Task) /\ client = Unlocked(ClientGuard)
      /\ at["renewer"] = IF KeyRefresh THEN "idle" ELSE "unborn"
      /\ at[W] = "unborn" /\ at["signal"] = "unborn" /\ at["main"] = "load"
  BY DEF Init, Task, W
<1>p. phase = [p \in Task |-> "starting"] /\ found = [p \in Task |-> FALSE]
  BY DEF Init
<1>2. /\ torrents \in Lock(Task) /\ client \in Lock(ClientGuard)
      /\ Ordered(torrents) /\ Ordered(client)
      /\ \A p \in Task : torrents.mode[p] = "none"
      /\ \A p \in Task : client.mode[Outer(p)] = "none" /\ client.mode[Inner(p)] = "none"
  BY <1>1, UnlockedIsOrdered, GuardsDiffer
<1>3. /\ list \in Seq([hash : Hash, file : Path]) /\ mutex \in Seq(Lock(Task))
      /\ Len(list) = 0 /\ Len(mutex) = 0 /\ DOMAIN list = {} /\ DOMAIN mutex = {}
      /\ events \in Seq(FsEvent)
  BY <1>1 DEF Init
<1>4. TypeOK
  BY <1>2, <1>3 DEF Init, TypeOK, Place, Phase, Event, Content
<1>a. \A p \in Task : /\ at[p] \notin Reading /\ at[p] \notin Writing
                     /\ at[p] \notin InWalk /\ at[p] \notin AtTorrent
                     /\ at[p] \notin InAnnounce
                     /\ at[p] # "peek" /\ at[p] # "renew"
  BY <1>1 DEF Task, W, Reading, Writing, InWalk, AtTorrent, InAnnounce
<1>b. phase["main"] = "starting" /\ phase["signal"] = "starting" /\ phase[W] = "starting"
  BY <1>p DEF Task, W
<1>5. TasksOK
  BY <1>1, <1>a, <1>b DEF TasksOK
<1>6. ListLockOK
  <2>1. \A p \in Task :
          torrents.mode[p] = IF at[p] \in Reading THEN "read"
                             ELSE IF at[p] \in Writing THEN "write" ELSE "none"
    BY <1>2, <1>a
  <2>2. \A p \in Task : at[p] \in InWalk => torrents.behind[p] = {}
    BY <1>a
  <2> QED BY <1>2, <2>1, <2>2 DEF ListLockOK
<1>7. TorrentLocksOK
  BY <1>3, <1>a DEF TorrentLocksOK
<1>c. ClientLockOK
  BY <1>2, <1>a DEF ClientLockOK, InAnnounce
<1>8. DedupOK /\ UniqueHashes
  BY <1>1, <1>3, <1>b DEF DedupOK, UniqueHashes, NotListedUpTo, InWalk
<1>9. PartingOK /\ GoodbyesOK
  BY <1>1, <1>b DEF PartingOK, GoodbyesOK, GoodbyesSoFar, InWalk, InAnnounce
<1>d. SaidOK /\ StartedOK
  <2>1. said = [h \in Hash |-> {}]
    BY DEF Init
  <2>2. \A h \in Hash : ~Started(h)
    BY <2>1 DEF Started
  <2>3. \A p \in Task : at[p] # "answer"
    BY <1>a DEF InAnnounce
  <2> QED BY <1>1, <1>b, <2>1, <2>2, <2>3 DEF SaidOK, StartedOK, WalkPlace, InWalk, InAnnounce
<1>10. EventsOK
  <2>1. \A f, m : ~AddedAt(f, m)
    BY <1>1, <1>3 DEF Init, AddedAt, Happens, Up, Adding, Hashed, Entries, WalkPlace, InWalk
  <2> QED BY <2>1 DEF EventsOK
<1>11. PresentOK /\ FindingOK
  BY <1>1, <1>3, <1>b DEF Init, PresentOK, FindingOK, Hashed, Entries, WalkPlace, InWalk,
     InAnnounce
<1> QED BY <1>4, <1>5, <1>6, <1>7, <1>c, <1>8, <1>9, <1>d, <1>10, <1>11 DEF Inv

\* Every step, and the stuttering of an ended process, preserve the invariant.
LEMMA InvStep == Inv /\ [Next \/ Ended]_vars => Inv'
<1> SUFFICES ASSUME Inv, [Next \/ Ended]_vars PROVE Inv'
  OBVIOUS
<1>1. CASE Next
  BY <1>1, TypeStep, TasksStep, ListLockStep, TorrentLocksStep, ClientLockStep,
     DedupStep, UniqueHashesStep, PartingStep, GoodbyesStep, SaidStep, StartedStep,
     TrackStep, FindingStep DEF Inv
<1>2. CASE UNCHANGED vars
  <2> USE <1>2 DEF Inv, vars, announcerVars, watcherVars
  <2>1. TypeOK'
    BY DEF TypeOK
  <2>2. TasksOK' /\ DedupOK' /\ UniqueHashes'
    BY DEF TasksOK, DedupOK, NotListedUpTo, UniqueHashes
  <2>3. ListLockOK' /\ TorrentLocksOK' /\ ClientLockOK'
    BY DEF ListLockOK, TorrentLocksOK, ClientLockOK, OnlyUdpTrackers
  <2>4. PartingOK' /\ GoodbyesOK'
    BY DEF PartingOK, GoodbyesOK, GoodbyesSoFar, NotListedUpTo, Stopped
  <2>7. SaidOK' /\ StartedOK'
    BY DEF SaidOK, EventOf, StartedOK, Started
  <2>5. EventsOK' /\ PresentOK'
    BY TrackElsewhere
  <2>6. FindingOK'
    BY FindingFrame
  <2> QED BY <2>1, <2>2, <2>3, <2>4, <2>5, <2>6, <2>7
<1> QED BY <1>1, <1>2 DEF Ended

\* In every reachable state of every instance the invariant holds.
THEOREM InvHolds == Spec => []Inv
<1> QED BY InitInv, InvStep, PTL DEF Spec

\* In particular the type invariant.
THEOREM TypeCorrect == Spec => []TypeOK
<1>1. Inv => TypeOK
  BY DEF Inv
<1> QED BY <1>1, InvHolds, PTL

\* No info hash is ever listed twice, although the check for a duplicate and
\* the push are made under different guards of the list.
THEOREM NoHashTwice == Spec => []UniqueHashes
<1>1. Inv => UniqueHashes
  BY DEF Inv
<1> QED BY <1>1, InvHolds, PTL

\* The try_lock() of a removal never finds a torrent taken: whoever takes a
\* torrent holds a read guard of the list.
THEOREM RetainFindsAllFree == Spec => []RetainLocksAll
<1>1. Inv => RetainLocksAll
  <2> SUFFICES ASSUME Inv, at[W] = "retain", Granted(torrents, W), NEW i \in DOMAIN list
               PROVE  ~Locked(i)
    BY DEF RetainLocksAll
  <2>1. /\ list \in Seq([hash : Hash, file : Path]) /\ mutex \in Seq(Lock(Task))
        /\ Len(mutex) = Len(list)
    BY DEF Inv, TypeOK, TorrentLocksOK
  <2>2. i \in DOMAIN mutex /\ mutex[i] \in Lock(Task)
    BY <2>1, LenProperties, ElementOfSeq
  <2>3. \A p \in Task : mutex[i].mode[p] = "none"
    BY <2>2, WriterFindsAllFree DEF Inv, Writing
  <2> QED BY <2>2, <2>3 DEF Locked, Asked, Lock
<1> QED BY <1>1, InvHolds, PTL

\* A torrent is announced by one task at a time: both would hold its mutex.
THEOREM OneAnnouncer == Spec => []OneAnnouncerEach
<1>1. Inv => OneAnnouncerEach
  <2> SUFFICES ASSUME Inv, NEW p \in Task, NEW q \in Task, p # q,
                      at[p] \in InAnnounce, at[q] \in InAnnounce,
                      list[pos[p]].hash = list[pos[q]].hash
               PROVE  FALSE
    BY DEF OneAnnouncerEach
  <2>1. at[p] \in AtTorrent /\ at[q] \in AtTorrent
    BY DEF AtTorrent
  <2>2. /\ pos[p] \in DOMAIN list /\ pos[q] \in DOMAIN list
        /\ pos[p] \in DOMAIN mutex /\ mutex[pos[p]] \in Lock(Task)
    BY <2>1, TorrentAtPos DEF Inv, TorrentLocksOK
  <2>3. pos[q] = pos[p]
    BY <2>2 DEF Inv, UniqueHashes
  <2> DEFINE m == mutex[pos[p]]
  <2>4. m.mode[p] = "write" /\ m.mode[q] = "write"
    BY <2>1, <2>2, <2>3 DEF Inv, TorrentLocksOK
  <2>5. m.behind[p] = {} /\ m.behind[q] = {} /\ Ordered(m)
    BY <2>2, <2>3 DEF Inv, TorrentLocksOK
  <2> HIDE DEF m
  <2>6. m \in Lock(Task)
    BY <2>2 DEF m
  <2> QED BY <2>4, <2>5, <2>6, GrantedWriteIsAlone DEF Granted
<1> QED BY <1>1, InvHolds, PTL

\* Nothing is added to, removed from or moved in the list while some task walks
\* it, so the index a task carries across its awaits stays good.
THEOREM ListStaysInWalks == Spec => WalkSeesOneList
<1>1. Inv /\ [Next \/ Ended]_vars
         => [(\E p \in Task : at[p] \in InWalk) => UNCHANGED list]_vars
  <2> SUFFICES ASSUME Inv, Next, NEW p \in Task, at[p] \in InWalk
               PROVE  list' = list
    BY DEF Ended
  <2>1. ~LoadTorrents
    <3>1. at["main"] = "load" => p # "main" /\ at[W] = "unborn" /\ at["signal"] = "unborn"
      BY DEF Inv, TasksOK, InWalk
    <3>2. at["renewer"] \in {"unborn", "idle", "renew"}
      BY DEF Inv, TasksOK
    <3> QED BY <3>1, <3>2 DEF LoadTorrents, Task, W, InWalk
  <2>2. ~PushTorrent /\ ~RetainTorrents
    BY WriterIsAlone DEF Inv, PushTorrent, RetainTorrents, Writing
  <2> QED BY <2>1, <2>2, ListStays
<1> QED BY <1>1, InvHolds, PTL DEF Spec, WalkSeesOneList

\* The shutdown has told the trackers of all it has gone past STOPPED, whatever
\* comes and goes beside it.  It need not be the last they are told.
THEOREM GoodbyesAreSaid == Spec => []GoodbyesSoFar
<1>1. Inv => GoodbyesSoFar
  BY DEF Inv, GoodbyesOK
<1> QED BY <1>1, InvHolds, PTL

\* What the removal takes from the list has the hash it was asked to remove.
LEMMA OnlyWantedGo ==
    ASSUME TypeOK, RetainTorrents, NEW i \in DOMAIN list,
           \A j \in DOMAIN list' : list'[j].hash # list[i].hash
    PROVE  list[i].hash = wanted.hash
<1>1. PICK size \in 0 .. Len(list) : \E kept \in [1 .. size -> DOMAIN list] :
          /\ \A k \in DOMAIN list :
                (\E n \in 1 .. size : kept[n] = k)
                    <=> (list[k].hash # wanted.hash \/ Locked(k))
          /\ list' = [n \in 1 .. size |-> list[kept[n]]]
  BY DEF RetainTorrents
<1>2. PICK kept \in [1 .. size -> DOMAIN list] :
          /\ \A k \in DOMAIN list :
                (\E n \in 1 .. size : kept[n] = k)
                    <=> (list[k].hash # wanted.hash \/ Locked(k))
          /\ list' = [n \in 1 .. size |-> list[kept[n]]]
  BY <1>1
<1>3. ~\E n \in 1 .. size : kept[n] = i
  BY <1>2
<1> QED BY <1>2, <1>3

\* No torrent is dropped without a goodbye, whatever is announced between the
\* goodbye and the removal.
THEOREM RemovalFollowsGoodbye == Spec => RemovedAfterStopped
<1>1. Inv /\ [Next \/ Ended]_vars
         => [\A i \in DOMAIN list :
                \/ at["main"] = "load"
                \/ \E j \in DOMAIN list' : list'[j].hash = list[i].hash
                \/ "stopped" \in said[list[i].hash]]_vars
  <2> SUFFICES ASSUME Inv, Next, at["main"] # "load", NEW i \in DOMAIN list,
                      \A j \in DOMAIN list' : list'[j].hash # list[i].hash
               PROVE  "stopped" \in said[list[i].hash]
    BY DEF Ended
  <2>1. list \in Seq([hash : Hash, file : Path]) /\ TypeOK
    BY DEF Inv, TypeOK
  <2>2. list' # list /\ ~LoadTorrents
    BY DEF LoadTorrents
  <2>3. ~PushTorrent
    <3> SUFFICES ASSUME PushTorrent PROVE FALSE
      OBVIOUS
    <3> DEFINE new == [hash |-> wanted.hash, file |-> wanted.file]
    <3>1. new \in [hash : Hash, file : Path]
      BY <2>1 DEF TypeOK, Path
    <3>2. list' = Append(list, new)
      BY DEF PushTorrent
    <3> HIDE DEF new
    <3>3. i \in DOMAIN list' /\ list'[i] = list[i]
      BY <2>1, <3>1, <3>2, AppendProperties, LenProperties
    <3> QED BY <3>3
  <2>4. RetainTorrents
    BY <2>2, <2>3, ListStays
  <2>5. list[i].hash = wanted.hash
    BY <2>1, <2>4, OnlyWantedGo
  <2>6. at[W] = "retain"
    BY <2>4 DEF RetainTorrents
  <2>7. Stopped(wanted.hash) \/ NotListedUpTo(Len(list) + 1)
    BY <2>6 DEF Inv, PartingOK
  <2>8. i < Len(list) + 1
    BY <2>1, LenProperties
  <2> QED BY <2>5, <2>7, <2>8 DEF NotListedUpTo, Stopped
<1> QED BY <1>1, InvHolds, PTL DEF Spec, RemovedAfterStopped

\* Whatever the user did while the watcher was busy, once it has handled all
\* events each torrent listed under a path that events may name is that of its
\* file, unless the file changed unreported.
THEOREM ListFollowsDirectory == Spec => []QuietListIsPresent
<1>1. Inv => QuietListIsPresent
  <2> SUFFICES ASSUME Inv, at[W] = "idle", events = <<>>, NEW i \in DOMAIN list,
                      list[i].file \in File \ missed
               PROVE  dir[list[i].file] = list[i].hash
    BY DEF QuietListIsPresent
  <2>1. list[i] \in Entries /\ ~Leaving(list[i])
    BY DEF Entries, Leaving, WalkPlace, InWalk
  <2>2. Known(list[i])
    BY <2>1 DEF Inv, PresentOK
  <2>3. ~Reported(list[i].file)
    BY DEF Reported
  <2> QED BY <2>2, <2>3 DEF Known, Untracked
<1> QED BY <1>1, InvHolds, PTL

\* Where torrent_dir is absolute, so that a start-up torrent has the path that the
\* events name, the search for a removed file ends without a torrent only if none
\* is listed for that file: no walk, push or removal beside it hides one.
THEOREM AbsoluteRemovals ==
    ASSUME \A f \in File : SourcePath[f] = f
    PROVE  Spec => []RemovedIsFound
<1>1. Inv => RemovedIsFound
  <2> SUFFICES ASSUME Inv, at[W] = "done", phase[W] = "finding", ~found[W],
                      NEW i \in DOMAIN list
               PROVE  list[i].file \notin {wanted.file, SourcePath[wanted.file]}
    BY DEF RemovedIsFound, Forgotten
  <2>1. wanted.file \in File /\ list \in Seq([hash : Hash, file : Path])
    BY DEF Inv, TypeOK
  <2>2. i < Len(list) + 1
    BY <2>1, LenProperties
  <2>3. list[i].file # wanted.file
    BY <2>2 DEF Inv, FindingOK, NotAtUpTo
  <2> QED BY <2>1, <2>3
<1> QED BY <1>1, InvHolds, PTL

-----------------------------------------------------------------------------
\* Whoever reads CLIENT waits for the renewer only.
LEMMA ReadersAwaitRenewer ==
    ASSUME Inv, NEW p \in Task, at[p] \in {"peek", "client", "key"}, NEW q \in Awaits(p)
    PROVE  /\ q = "renewer" /\ at[q] = "renew"
           /\ at[p] # "key" => Outer("renewer") \in client.behind[Outer(p)]
<1>1. client \in Lock(ClientGuard) /\ Ordered(client)
  BY DEF Inv, TypeOK, ClientLockOK
<1> DEFINE own == IF at[p] = "key" THEN Inner(p) ELSE Outer(p)
<1>2. own \in ClientGuard /\ client.mode[own] = "read"
  BY GuardsDiffer DEF Inv, ClientLockOK, InAnnounce
<1>3. q \in Task /\ (Outer(q) \in client.behind[own] \/ Inner(q) \in client.behind[own])
  BY DEF Awaits, Owners
<1> HIDE DEF own
<1>4. PICK g \in client.behind[own] : g \in {Outer(q), Inner(q)}
  BY <1>3
<1>5. client.mode[g] = "write"
  BY <1>1, <1>2, <1>4, BehindConflicts
<1>6. g = Outer(q) /\ at[q] = "renew"
  BY <1>3, <1>4, <1>5 DEF Inv, ClientLockOK
<1>7. q = "renewer"
  BY <1>3, <1>6 DEF Inv, TasksOK
<1> QED BY <1>4, <1>6, <1>7 DEF own

\* A renewal waits for a task that announces, or looks whether there is a client.
LEMMA RenewerAwaitsReaders ==
    ASSUME Inv, NEW q \in Awaits("renewer")
    PROVE  /\ q \in Task /\ at[q] \in {"peek"} \cup InAnnounce
           /\ at[q] # "key" => Outer(q) \in client.behind[Outer("renewer")]
<1>0. "renewer" \in Task
  BY DEF Task
<1>1. client \in Lock(ClientGuard) /\ Ordered(client)
  BY DEF Inv, TypeOK, ClientLockOK
<1>2. at["renewer"] = "renew"
  BY DEF Inv, TasksOK, Awaits
<1>3. q \in Task /\ \E g \in client.behind[Outer("renewer")] : g \in {Outer(q), Inner(q)}
  BY <1>2 DEF Awaits, Owners
<1>4. PICK g \in client.behind[Outer("renewer")] : g \in {Outer(q), Inner(q)}
  BY <1>3
<1>5. client.mode[g] # "none" /\ g # Outer("renewer")
  <2>1. Outer("renewer") \in ClientGuard /\ DOMAIN client.mode = ClientGuard
    BY <1>0, <1>1, GuardsDiffer DEF Lock
  <2>2. g \in ClientGuard
    BY <1>1, <1>4, <2>1, BehindConflicts
  <2>3. Conflict(client, g, Outer("renewer"))
    BY <1>1, <1>4, <2>1, <2>2 DEF Ordered
  <2>4. g \in Asked(client)
    BY <1>1, <1>4, <2>1, BehindConflicts
  <2> QED BY <2>3, <2>4 DEF Conflict, Asked
<1>6. at[q] # "renew"
  <2> SUFFICES ASSUME at[q] = "renew" PROVE FALSE
    OBVIOUS
  <2>1. q = "renewer"
    BY <1>3 DEF Inv, TasksOK
  <2> QED BY <1>0, <1>2, <1>4, <1>5, <2>1 DEF Inv, ClientLockOK
<1> QED BY <1>3, <1>4, <1>5, <1>6 DEF Inv, ClientLockOK, InAnnounce

\* Whoever waits for the mutex of a torrent waits for tasks at that torrent.
LEMMA AwaitedAtTorrent ==
    ASSUME Inv, NEW p \in Task, at[p] = "torrent", NEW q \in Awaits(p)
    PROVE  q \in Task /\ at[q] \in AtTorrent /\ pos[q] = pos[p]
<1>1. pos[p] \in DOMAIN mutex /\ mutex[pos[p]] \in Lock(Task)
  BY TorrentAtPos DEF Inv, AtTorrent
<1>2. Ordered(mutex[pos[p]]) /\ q \in mutex[pos[p]].behind[p]
  BY <1>1 DEF Awaits, Inv, TorrentLocksOK
<1>3. q \in Task /\ mutex[pos[p]].mode[q] # "none"
  BY <1>1, <1>2, BehindConflicts DEF Asked
<1> QED BY <1>1, <1>3 DEF Inv, TorrentLocksOK

\* The circle of run interrupt is the only one.  Among tasks that wait for each
\* other without it nobody waits for CLIENT; of those at one torrent the first in
\* its queue waits for none of the others, and so does the first to have asked
\* for the list.
THEOREM OnlyOneDeadlock == Spec => []OnlyRenewalsDeadlock
<1>1. ASSUME Inv, NEW S \in SUBSET Task, Stuck(S)
      PROVE  "renewer" \in S /\ \E p \in S : at[p] = "key"
  <2> SUFFICES ASSUME ~("renewer" \in S /\ \E p \in S : at[p] = "key") PROVE FALSE
    OBVIOUS
  <2>a. at \in [Task -> Place] /\ S # {}
    BY <1>1 DEF Inv, TypeOK, Stuck
  <2>b. \A p \in S : \E q \in S : q \in Awaits(p)
    BY <1>1 DEF Stuck
  <2>1. "renewer" \notin S
    <3> SUFFICES ASSUME "renewer" \in S PROVE FALSE
      OBVIOUS
    <3>1. PICK q \in S : q \in Awaits("renewer")
      BY <2>b
    <3>2. q \in Task /\ at[q] \in {"peek"} \cup InAnnounce /\ at[q] # "key"
      BY <1>1, <3>1, RenewerAwaitsReaders
    <3>3. at[q] \in {"peek", "client"}
      BY <2>b, <3>2 DEF InAnnounce, Awaits
    <3>4. Outer("renewer") \in client.behind[Outer(q)]
      BY <1>1, <2>b, <3>2, <3>3, ReadersAwaitRenewer
    <3>5. Outer(q) \in client.behind[Outer("renewer")]
      BY <1>1, <3>1, <3>2, RenewerAwaitsReaders
    <3>6. client \in Lock(ClientGuard) /\ Ordered(client)
      BY <1>1 DEF Inv, TypeOK, ClientLockOK
    <3>7. /\ Outer(q) \in ClientGuard /\ Outer("renewer") \in ClientGuard
      BY <3>2, GuardsDiffer DEF Task
    <3>8. {Outer(q), Outer("renewer")} \subseteq Asked(client)
      BY <3>4, <3>5, <3>6, <3>7, BehindConflicts
    <3>9. PICK g \in {Outer(q), Outer("renewer")} :
             client.behind[g] \cap {Outer(q), Outer("renewer")} = {}
      BY <3>6, <3>8 DEF Ordered
    <3> QED BY <3>4, <3>5, <3>9
  <2>2. \A p \in S : at[p] \in {"list", "push", "retain", "torrent"}
    <3> SUFFICES ASSUME NEW p \in S, at[p] \notin {"list", "push", "retain", "torrent"}
                 PROVE  FALSE
      OBVIOUS
    <3>1. PICK q \in S : q \in Awaits(p)
      BY <2>b
    <3>2. at[p] \in {"peek", "client", "renew", "key"}
      BY <3>1 DEF Awaits
    <3>3. at[p] # "renew"
      BY <1>1, <2>1 DEF Inv, TasksOK
    <3>4. q = "renewer"
      BY <1>1, <3>1, <3>2, <3>3, ReadersAwaitRenewer
    <3> QED BY <2>1, <3>4
  <2>3. \A p \in S : at[p] # "torrent"
    <3> SUFFICES ASSUME NEW p \in S, at[p] = "torrent" PROVE FALSE
      OBVIOUS
    <3> DEFINE T == {t \in S : at[t] = "torrent" /\ pos[t] = pos[p]}
    <3>1. /\ pos[p] \in DOMAIN mutex /\ mutex[pos[p]] \in Lock(Task)
          /\ Ordered(mutex[pos[p]])
      BY <1>1, TorrentAtPos DEF Inv, AtTorrent, TorrentLocksOK
    <3>2. \A t \in T : \E q \in T : q \in mutex[pos[p]].behind[t]
      <4> SUFFICES ASSUME NEW t \in T PROVE \E q \in T : q \in mutex[pos[p]].behind[t]
        OBVIOUS
      <4>1. PICK q \in S : q \in Awaits(t)
        BY <2>b
      <4>2. at[q] \in AtTorrent /\ pos[q] = pos[t]
        BY <1>1, <4>1, AwaitedAtTorrent
      <4>3. q \in T
        BY <2>2, <4>2 DEF AtTorrent, InAnnounce
      <4> QED BY <4>1, <4>3 DEF Awaits
    <3>3. T \subseteq Asked(mutex[pos[p]])
      <4>1. DOMAIN mutex[pos[p]].mode = Task
        BY <3>1 DEF Lock
      <4>2. \A t \in T : mutex[pos[p]].mode[t] = "write"
        BY <1>1, <3>1 DEF Inv, TorrentLocksOK, AtTorrent
      <4> QED BY <4>1, <4>2 DEF Asked
    <3>4. T # {}
      OBVIOUS
    <3> HIDE DEF T
    <3>5. PICK t \in T : mutex[pos[p]].behind[t] \cap T = {}
      BY <3>1, <3>3, <3>4 DEF Ordered
    <3> QED BY <3>2, <3>5
  <2>4. \A p \in S : \E q \in S : q \in torrents.behind[p]
    BY <2>b, <2>2, <2>3 DEF Awaits
  <2>5. torrents \in Lock(Task) /\ Ordered(torrents)
    BY <1>1 DEF Inv, TypeOK, ListLockOK
  <2>6. S \subseteq Asked(torrents)
    BY <2>4, <2>5, BehindConflicts
  <2>7. PICK p \in S : torrents.behind[p] \cap S = {}
    BY <2>a, <2>5, <2>6 DEF Ordered
  <2> QED BY <2>4, <2>7
<1>2. Inv => OnlyRenewalsDeadlock
  BY <1>1 DEF OnlyRenewalsDeadlock
<1> QED BY <1>2, InvHolds, PTL

\* Without a key to renew, or with UDP trackers only, no tasks ever wait for
\* each other in a circle.
THEOREM NoDeadlockOtherwise ==
    ASSUME ~KeyRefresh \/ OnlyUdpTrackers
    PROVE  Spec => []NobodyStuck
<1>1. Inv /\ OnlyRenewalsDeadlock => NobodyStuck
  <2> SUFFICES ASSUME Inv, OnlyRenewalsDeadlock, NEW S \in SUBSET Task, Stuck(S)
               PROVE  FALSE
    BY DEF NobodyStuck
  <2>1. "renewer" \in S /\ \E p \in S : at[p] = "key"
    BY DEF OnlyRenewalsDeadlock
  <2>2. at["renewer"] # "unborn"
    BY <2>1 DEF Stuck, Awaits
  <2>3. KeyRefresh
    BY <2>2 DEF Inv, TasksOK
  <2>4. ~OnlyUdpTrackers
    BY <2>1 DEF Inv, ClientLockOK
  <2> QED BY <2>3, <2>4
<1> QED BY <1>1, InvHolds, OnlyOneDeadlock, PTL

-----------------------------------------------------------------------------
\* The announce of a torrent whose mutex p has been granted is that of nobody
\* else.
LEMMA AloneAtTorrent ==
    ASSUME Inv, NEW p \in Task, at[p] \in AtTorrent, Granted(mutex[pos[p]], p),
           NEW q \in Task, q # p, at[q] \in InAnnounce
    PROVE  list[pos[q]].hash # list[pos[p]].hash
<1> SUFFICES ASSUME list[pos[q]].hash = list[pos[p]].hash PROVE FALSE
  OBVIOUS
<1>1. at[q] \in AtTorrent
  BY DEF AtTorrent
<1>2. /\ pos[p] \in DOMAIN list /\ pos[q] \in DOMAIN list
      /\ pos[p] \in DOMAIN mutex /\ mutex[pos[p]] \in Lock(Task)
  BY <1>1, TorrentAtPos DEF Inv, TorrentLocksOK
<1>3. pos[q] = pos[p]
  BY <1>2 DEF Inv, UniqueHashes
<1> DEFINE m == mutex[pos[p]]
<1>4. m.mode[p] = "write" /\ m.mode[q] = "write"
  BY <1>1, <1>2, <1>3 DEF Inv, TorrentLocksOK
<1>5. m.behind[q] = {} /\ Ordered(m)
  BY <1>2, <1>3 DEF Inv, TorrentLocksOK
<1> HIDE DEF m
<1>6. m \in Lock(Task) /\ Granted(m, p)
  BY <1>2 DEF m
<1> QED BY <1>4, <1>5, <1>6, GrantedWriteIsAlone DEF Granted

\* A step that neither begins nor ends an announce.
LEMMA DoingFrame ==
    ASSUME list' = list,
           \A p \in Task : /\ at'[p] \in InAnnounce <=> at[p] \in InAnnounce
                           /\ at[p] \in InAnnounce
                                 => pos'[p] = pos[p] /\ phase'[p] = phase[p]
    PROVE  Listed' = Listed /\ Doing' = Doing
<1>1. \A p \in Task : at[p] \in InAnnounce => EventOf(p)' = EventOf(p)
  BY DEF EventOf
<1> QED BY <1>1 DEF Listed, Doing

LEMMA NothingDone ==
    ASSUME \A p \in Task : at[p] \notin InAnnounce
    PROVE  Doing = {}
BY DEF Doing

\* What a task announces is one of the announces under way.
LEMMA OwnAnnounce ==
    ASSUME Inv, NEW p \in Task, at[p] \in InAnnounce
    PROVE  /\ list[pos[p]].hash \in Hash /\ list[pos[p]].hash \in Listed
           /\ <<list[pos[p]].hash, EventOf(p)>> \in Doing
<1>1. pos[p] \in DOMAIN list
  BY DEF Inv, TorrentLocksOK, AtTorrent
<1> QED BY <1>1, ListedHash DEF Inv, Doing, Listed

\* Announce begins an announce of a torrent that nobody announces.
LEMMA AnnounceBegins ==
    ASSUME Inv, NEW p \in Task, Announce(p)
    PROVE  Promised!Begin(list[pos[p]].hash, EventOf(p))
<1> DEFINE h == list[pos[p]].hash
           e == EventOf(p)
<1>0. /\ at \in [Task -> Place] /\ "main" \in Task
      /\ at[p] = "torrent" /\ Granted(mutex[pos[p]], p) /\ at[p] \in AtTorrent
      /\ at' = [at EXCEPT ![p] = "client"]
      /\ list' = list /\ pos' = pos /\ phase' = phase /\ said' = said
  BY DEF Inv, TypeOK, Announce, GoTo, AtTorrent, Task
<1>1. pos[p] \in DOMAIN list /\ h \in Listed
  BY <1>0 DEF Inv, TorrentLocksOK, Listed
<1>2. \A d \in Doing : d[1] # h
  <2> SUFFICES ASSUME NEW q \in Task, at[q] \in InAnnounce
               PROVE  list[pos[q]].hash # h
    BY DEF Doing
  <2>1. q # p
    BY <1>0 DEF InAnnounce
  <2> QED BY <1>0, <2>1, AloneAtTorrent
<1>3. e = "started" => e \notin said[h]
  <2> SUFFICES ASSUME e = "started" PROVE ~Started(h)
    BY DEF Started
  <2>1. phase[p] \in {"starting", "greeting"}
    BY DEF EventOf
  <2>2. CASE phase[p] = "greeting"
    <3>0. p # "renewer"
      BY <1>0 DEF Inv, TasksOK
    <3>1. p = W
      BY <2>2, <3>0 DEF Inv, TasksOK, Task, W
    <3>2. list[pos[p]].hash = wanted.hash
      BY <2>2 DEF Announce, Announces, Matches
    <3> QED BY <1>0, <2>2, <3>1, <3>2 DEF Inv, StartedOK
  <2>3. CASE phase[p] = "starting"
    <3>1. p # "signal" /\ p # W
      BY <1>0, <2>3 DEF Inv, StartedOK, WalkPlace, InWalk
    <3>2. p # "renewer"
      BY <1>0 DEF Inv, TasksOK
    <3>3. p = "main"
      BY <3>1, <3>2 DEF Task, W
    <3> QED BY <1>0, <1>1, <2>3, <3>3 DEF Inv, StartedOK, InWalk
  <2> QED BY <2>1, <2>2, <2>3
<1>4. Listed' = Listed
  BY <1>0 DEF Listed
<1>5. Doing' = Doing \cup {<<h, e>>}
  <2>1. {q \in Task : at'[q] \in InAnnounce} = {q \in Task : at[q] \in InAnnounce} \cup {p}
    BY <1>0 DEF InAnnounce
  <2>2. \A q \in Task : EventOf(q)' = EventOf(q)
    BY <1>0 DEF EventOf
  <2> QED BY <1>0, <2>1, <2>2 DEF Doing
<1> QED BY <1>0, <1>1, <1>2, <1>3, <1>4, <1>5 DEF Promised!Begin

\* LastUrl ends it, after something was said.
LEMMA LastUrlEnds ==
    ASSUME Inv, NEW p \in Task, LastUrl(p)
    PROVE  Promised!End(list[pos[p]].hash, EventOf(p))
<1> DEFINE h == list[pos[p]].hash
           e == EventOf(p)
<1>0. /\ at \in [Task -> Place] /\ pos \in [Task -> Nat] /\ at[p] = "answer"
      /\ at[p] \in InAnnounce /\ at[p] \in AtTorrent
      /\ at' = [at EXCEPT ![p] = "next"]
      /\ list' = list /\ pos' = [pos EXCEPT ![p] = Following(p)]
      /\ phase' = phase /\ said' = said
  BY DEF Inv, TypeOK, LastUrl, GoTo, AtTorrent, InAnnounce
<1>1. <<h, e>> \in Doing /\ e \in said[h]
  BY <1>0, OwnAnnounce DEF Inv, SaidOK
<1>2. Granted(mutex[pos[p]], p)
  BY <1>0 DEF Inv, TorrentLocksOK, Granted
<1>3. Doing' = Doing \ {<<h, e>>}
  <2>1. ASSUME NEW q \in Task
        PROVE  /\ at'[q] \in InAnnounce <=> at[q] \in InAnnounce /\ q # p
               /\ q # p => pos'[q] = pos[q]
               /\ EventOf(q)' = EventOf(q)
    BY <1>0 DEF InAnnounce, EventOf
  <2>2. ASSUME NEW q \in Task, q # p, at[q] \in InAnnounce
        PROVE  <<list[pos[q]].hash, EventOf(q)>> # <<h, e>>
    BY <1>0, <1>2, <2>2, AloneAtTorrent
  <2>3. ASSUME NEW d \in Doing' PROVE d \in Doing \ {<<h, e>>}
    <3>1. PICK q \in Task : at'[q] \in InAnnounce /\ d = <<list'[pos'[q]].hash, EventOf(q)'>>
      BY <2>3 DEF Doing
    <3>2. at[q] \in InAnnounce /\ q # p /\ d = <<list[pos[q]].hash, EventOf(q)>>
      BY <1>0, <2>1, <3>1
    <3> QED BY <2>2, <3>2 DEF Doing
  <2>4. ASSUME NEW d \in Doing, d # <<h, e>> PROVE d \in Doing'
    <3>1. PICK q \in Task : at[q] \in InAnnounce /\ d = <<list[pos[q]].hash, EventOf(q)>>
      BY DEF Doing
    <3>2. at'[q] \in InAnnounce /\ d = <<list'[pos'[q]].hash, EventOf(q)'>>
      BY <1>0, <2>1, <2>4, <3>1
    <3> QED BY <3>2 DEF Doing
  <2> QED BY <2>3, <2>4
<1>4. Listed' = Listed
  BY <1>0 DEF Listed
<1> QED BY <1>0, <1>1, <1>3, <1>4 DEF Promised!End

\* A call to a tracker says the event of the announce, or waits for CLIENT first.
LEMMA CallSays ==
    ASSUME Inv, NEW p \in Task, FirstUrl(p) \/ BuildUrl(p) \/ NextUrl(p)
    PROVE  \/ Promised!Say(list[pos[p]].hash, EventOf(p))
           \/ UNCHANGED <<Listed, Doing, said>>
<1>1. /\ at[p] \in InAnnounce /\ list' = list /\ pos' = pos /\ phase' = phase
      /\ Send(p) \/ (at' = [at EXCEPT ![p] = "key"] /\ said' = said)
  BY DEF FirstUrl, BuildUrl, NextUrl, CallTracker, GoTo, InAnnounce
<1>2. at \in [Task -> Place]
  BY DEF Inv, TypeOK
<1>3. Listed' = Listed /\ Doing' = Doing
  <2>1. \A q \in Task : at'[q] \in InAnnounce <=> at[q] \in InAnnounce
    BY <1>1, <1>2 DEF Send, GoTo, InAnnounce
  <2> QED BY <1>1, <2>1, DoingFrame
<1> QED BY <1>1, <1>3, OwnAnnounce DEF Send, Promised!Say

\* A step of a walk.
LEMMA WalkImplements ==
    ASSUME Inv, NEW p \in Task, Walk(p)
    PROVE  Promised!Next \/ UNCHANGED <<Listed, Doing, said>>
<1>0. at \in [Task -> Place] /\ pos \in [Task -> Nat]
  BY DEF Inv, TypeOK
<1>e. EventOf(p) \in Promised!Event
  BY DEF EventOf, Promised!Event
<1>1. CASE AskClient(p) \/ PeekClient(p) \/ OpenList(p) \/ BeginWalk(p) \/ LockNext(p)
           \/ EndWalk(p) \/ Pass(p)
  <2>1. /\ at[p] \notin InAnnounce /\ list' = list /\ said' = said /\ phase' = phase
        /\ at'[p] \notin InAnnounce /\ \A q \in Task \ {p} : at'[q] = at[q]
    BY <1>0, <1>1 DEF AskClient, PeekClient, OpenList, BeginWalk, LockNext, EndWalk, Pass,
       GoTo, InAnnounce
  <2>2. \A q \in Task \ {p} : pos'[q] = pos[q]
    BY <1>0, <1>1 DEF AskClient, PeekClient, OpenList, BeginWalk, LockNext, EndWalk, Pass
  <2>3. Listed' = Listed /\ Doing' = Doing
    BY <2>1, <2>2, DoingFrame
  <2> QED BY <2>1, <2>3
<1>2. CASE Announce(p)
  <2>1. pos[p] \in DOMAIN list
    BY <1>2 DEF Announce, Inv, TorrentLocksOK, AtTorrent
  <2>2. list[pos[p]].hash \in Hash
    BY <2>1, ListedHash DEF Inv
  <2> QED BY <1>2, <1>e, <2>2, AnnounceBegins DEF Promised!Next
<1>3. CASE FirstUrl(p) \/ BuildUrl(p) \/ NextUrl(p)
  <2>1. list[pos[p]].hash \in Hash
    BY <1>3, OwnAnnounce DEF FirstUrl, BuildUrl, NextUrl, InAnnounce
  <2> QED BY <1>3, <1>e, <2>1, CallSays DEF Promised!Next
<1>4. CASE LastUrl(p)
  <2>1. list[pos[p]].hash \in Hash
    BY <1>4, OwnAnnounce DEF LastUrl, InAnnounce
  <2> QED BY <1>4, <1>e, <2>1, LastUrlEnds DEF Promised!Next
<1> QED BY <1>1, <1>2, <1>3, <1>4 DEF Walk

\* A change of the list, by load_torrents or by the watcher, comes when nothing
\* is announced: it lists what was not listed, or removes what was told STOPPED.
LEMMA ChangeImplements ==
    ASSUME Inv, TypeOK', LoadTorrents \/ PushTorrent \/ RetainTorrents
    PROVE  Promised!Next \/ UNCHANGED <<Listed, Doing, said>>
<1>0. /\ at \in [Task -> Place] /\ W \in Task /\ "main" \in Task
      /\ list \in Seq([hash : Hash, file : Path]) /\ wanted \in [hash : Hash, file : File]
      /\ list' \in Seq([hash : Hash, file : Path])
      /\ said \in [Hash -> SUBSET Event]
  BY DEF Inv, TypeOK, W, Task
<1>a. DOMAIN list = 1 .. Len(list) /\ Len(list) \in Nat
  BY <1>0, LenProperties
<1>1. CASE LoadTorrents
  <2>1. \A p \in Task : at[p] \notin InAnnounce /\ at'[p] \notin InAnnounce
    <3>1. /\ at["main"] = "load" /\ at[W] = "unborn" /\ at["signal"] = "unborn"
          /\ at["renewer"] \in {"unborn", "idle", "renew"}
          /\ at' = [at EXCEPT !["main"] = "open"]
      BY <1>1 DEF Inv, LoadTorrents, TasksOK, GoTo
    <3> QED BY <1>0, <3>1 DEF Task, W, InAnnounce
  <2>2. Doing = {} /\ Doing' = {}
    BY <2>1 DEF Doing
  <2>3. Listed = {} /\ said' = said
    <3>1. list = <<>>
      BY <1>1 DEF Inv, SaidOK, LoadTorrents
    <3>2. DOMAIN list = {}
      BY <3>1
    <3>3. Listed = {}
      BY <3>2 DEF Listed
    <3>4. said' = said
      BY <1>1 DEF LoadTorrents
    <3> QED BY <3>3, <3>4
  <2>4. Listed' \in SUBSET Hash
    <3>1. \A i \in DOMAIN list' : list'[i] \in [hash : Hash, file : Path]
      BY <1>0, ElementOfSeq, LenProperties
    <3> QED BY <3>1 DEF Listed
  <2>5. Promised!List(Listed')
    BY <2>2, <2>3 DEF Promised!List
  <2> QED BY <2>4, <2>5 DEF Promised!Next
<1>2. ASSUME PushTorrent \/ RetainTorrents
      PROVE  Doing = {} /\ Doing' = {}
  <2>1. /\ at[W] \in Writing /\ Granted(torrents, W)
        /\ \A p \in Task : at'[p] = at[p] \/ at'[p] \in {"ask", "idle"}
    BY <1>0, <1>2 DEF PushTorrent, RetainTorrents, Writing, GoTo
  <2>2. \A p \in Task : at[p] \notin InWalk
    BY <2>1, WriterIsAlone DEF Inv
  <2>3. \A p \in Task : at[p] \notin InAnnounce /\ at'[p] \notin InAnnounce
    BY <2>1, <2>2 DEF InWalk, InAnnounce
  <2> QED BY <2>3 DEF Doing
<1>3. CASE PushTorrent
  <2> DEFINE new == [hash |-> wanted.hash, file |-> wanted.file]
  <2>1. new \in [hash : Hash, file : Path] /\ new.hash = wanted.hash /\ wanted.hash \in Hash
    BY <1>0 DEF Path
  <2>2. list' = Append(list, new) /\ said' = [said EXCEPT ![wanted.hash] = {}]
    BY <1>3 DEF PushTorrent
  <2> HIDE DEF new
  <2>3. \A i \in DOMAIN list : list[i].hash # wanted.hash
    BY <1>3, <1>a DEF Inv, DedupOK, NotListedUpTo, PushTorrent
  <2>4. said' = said
    <3>1. said[wanted.hash] = {}
      BY <2>1, <2>3 DEF Inv, SaidOK
    <3> QED BY <1>0, <2>2, <3>1
  <2>5. Listed' = Listed \cup {wanted.hash}
    <3>1. /\ DOMAIN list' = 1 .. Len(list) + 1 /\ list'[Len(list) + 1] = new
          /\ \A i \in 1 .. Len(list) : list'[i] = list[i]
      BY <1>0, <2>1, <2>2, AppendProperties, LenProperties
    <3>2. 1 .. Len(list) + 1 = (1 .. Len(list)) \cup {Len(list) + 1}
      BY <1>a
    <3> QED BY <1>a, <2>1, <3>1, <3>2 DEF Listed
  <2>6. {wanted.hash} \in SUBSET Hash /\ {wanted.hash} \cap Listed = {}
    BY <2>1, <2>3 DEF Listed
  <2>7. Promised!List({wanted.hash})
    BY <1>2, <1>3, <2>4, <2>5, <2>6 DEF Promised!List
  <2> QED BY <2>6, <2>7 DEF Promised!Next
<1>4. CASE RetainTorrents
  <2>1. Listed' = Listed \ {wanted.hash}
    BY <1>4, RetainTakesWanted DEF Inv, Listed
  <2>2. CASE wanted.hash \in Listed
    <3>1. PICK i \in DOMAIN list : list[i].hash = wanted.hash
      BY <2>2 DEF Listed
    <3>2. said' = [said EXCEPT ![wanted.hash] = {}]
      BY <1>4, <3>1, RetainTakesWanted DEF Inv
    <3>3. "stopped" \in said[wanted.hash]
      <4>1. at[W] = "retain" /\ i < Len(list) + 1
        BY <1>4, <1>a DEF RetainTorrents
      <4> QED BY <3>1, <4>1 DEF Inv, PartingOK, NotListedUpTo, Stopped
    <3>4. Promised!Remove(wanted.hash)
      BY <1>2, <1>4, <2>1, <2>2, <3>2, <3>3 DEF Promised!Remove
    <3> QED BY <1>0, <3>4 DEF Promised!Next
  <2>3. CASE wanted.hash \notin Listed
    <3>1. said[wanted.hash] = {}
      BY <1>0, <2>3 DEF Inv, SaidOK, Listed
    <3>2. said' = said
      BY <1>0, <1>4, <3>1, RetainTakesWanted DEF Inv
    <3> QED BY <1>2, <1>4, <2>1, <2>3, <3>2
  <2> QED BY <2>2, <2>3
<1> QED BY <1>1, <1>3, <1>4

\* Every step of the program is a step of the lifecycle, or changes nothing in it.
LEMMA StepImplements ==
    ASSUME Inv, Next
    PROVE  Promised!Next \/ UNCHANGED <<Listed, Doing, said>>
<1> USE DEF GoTo
<1>0. /\ at \in [Task -> Place] /\ phase \in [Task -> Phase]
      /\ W \in Task /\ "signal" \in Task /\ "main" \in Task /\ "renewer" \in Task
      /\ W # "signal" /\ W # "main" /\ W # "renewer"
  BY DEF Inv, TypeOK, Task, W
<1>t. TypeOK'
  BY TypeStep DEF Inv
\* A step of one task outside its announces.
<1>m. ASSUME NEW q \in Task, list' = list, said' = said, pos' = pos,
             at[q] \notin InAnnounce, at'[q] \notin InAnnounce,
             \A p \in Task \ {q} : at'[p] = at[p] /\ phase'[p] = phase[p]
      PROVE  UNCHANGED <<Listed, Doing, said>>
  BY <1>m, DoingFrame
<1>1. ASSUME NEW p \in Task, Walk(p)
      PROVE  Promised!Next \/ UNCHANGED <<Listed, Doing, said>>
  BY <1>1, WalkImplements
<1>2. CASE LoadTorrents \/ PushTorrent \/ RetainTorrents
  BY <1>2, <1>t, ChangeImplements
<1>3. CASE StartWatching \/ Receive \/ ParseFile \/ AfterWalk
  <2>1. /\ list' = list /\ said' = said /\ pos' = pos
        /\ at[W] \notin InAnnounce /\ at'[W] \notin InAnnounce
        /\ \A p \in Task \ {W} : at'[p] = at[p] /\ phase'[p] = phase[p]
    BY <1>0, <1>3 DEF StartWatching, Receive, ParseFile, AfterWalk, InAnnounce
  <2> QED BY <1>0, <1>m, <2>1
<1>4. CASE SpawnTasks
  <2>1. /\ at[W] = "unborn" /\ at["signal"] = "unborn" /\ at["main"] = "done"
    BY <1>4 DEF Inv, TasksOK, SpawnTasks
  <2>2. /\ at' = [at EXCEPT !["main"] = "open", ![W] = "spawned", !["signal"] = "idle"]
        /\ phase' = [phase EXCEPT !["main"] = "scheduling"]
        /\ list' = list /\ said' = said /\ pos' = pos
    BY <1>4 DEF SpawnTasks, W
  <2>3. \A p \in Task : at'[p] = at[p] \/ (at[p] \notin InAnnounce /\ at'[p] \notin InAnnounce)
    BY <1>0, <2>1, <2>2 DEF InAnnounce
  <2>4. \A p \in Task : at[p] \in InAnnounce => phase'[p] = phase[p]
    BY <1>0, <2>1, <2>2 DEF InAnnounce
  <2> QED BY <2>2, <2>3, <2>4, DoingFrame
<1>5. CASE AfterTurn \/ WakeUp
  <2>1. /\ list' = list /\ said' = said /\ pos' = pos
        /\ at["main"] \notin InAnnounce /\ at'["main"] \notin InAnnounce
        /\ \A p \in Task \ {"main"} : at'[p] = at[p] /\ phase'[p] = phase[p]
    BY <1>0, <1>5 DEF AfterTurn, WakeUp, InAnnounce
  <2> QED BY <1>0, <1>m, <2>1
<1>6. CASE RenewerStep
  <2>1. /\ list' = list /\ said' = said /\ pos' = pos
        /\ at["renewer"] \notin InAnnounce /\ at'["renewer"] \notin InAnnounce
        /\ \A p \in Task \ {"renewer"} : at'[p] = at[p] /\ phase'[p] = phase[p]
    BY <1>0, <1>6 DEF RenewerStep, AskToRenew, RenewKey, InAnnounce
  <2> QED BY <1>0, <1>m, <2>1
<1>7. CASE Interrupt
  <2>1. CASE UNCHANGED announcerVars
    BY <2>1, DoingFrame DEF announcerVars
  <2>2. CASE ~UNCHANGED announcerVars
    <3>1. /\ list' = list /\ said' = said /\ pos' = pos
          /\ at["signal"] \notin InAnnounce /\ at'["signal"] \notin InAnnounce
          /\ \A p \in Task \ {"signal"} : at'[p] = at[p] /\ phase'[p] = phase[p]
      BY <1>0, <1>7, <2>2 DEF Interrupt, InAnnounce
    <3> QED BY <1>0, <1>m, <3>1
  <2> QED BY <2>1, <2>2
<1>8. CASE Exit \/ User
  <2>1. UNCHANGED announcerVars
    BY <1>8 DEF Exit, User, CreateFile, FinishFile, DeleteFile, MoveFile, Report
  <2> QED BY <2>1, DoingFrame DEF announcerVars
<1> QED
  BY <1>0, <1>1, <1>2, <1>3, <1>4, <1>5, <1>6, <1>7, <1>8
     DEF Next, MainStep, WatcherStep, SignalStep

\* Whatever the tasks do at once, the trackers of every torrent see the life of
\* module Lifecycle.
THEOREM LifecycleImplemented == Spec => ImplementsLifecycle
<1>1. Init => Promised!Init
  <2> SUFFICES ASSUME Init PROVE Promised!Init
    OBVIOUS
  <2>1. list = <<>> /\ said = [h \in Hash |-> {}]
    BY DEF Init
  <2>2. Listed = {}
    <3>1. DOMAIN list = {}
      BY <2>1
    <3> QED BY <3>1 DEF Listed
  <2>3. \A p \in Task : at[p] \notin InAnnounce
    BY DEF Init, Task, InAnnounce
  <2>4. Doing = {}
    BY <2>3, NothingDone
  <2> QED BY <2>1, <2>2, <2>4 DEF Promised!Init
<1>2. Inv /\ [Next \/ Ended]_vars => [Promised!Next]_<<Listed, Doing, said>>
  <2> SUFFICES ASSUME Inv, [Next \/ Ended]_vars
               PROVE  Promised!Next \/ UNCHANGED <<Listed, Doing, said>>
    OBVIOUS
  <2>1. CASE Next
    BY <2>1, StepImplements
  <2>2. CASE UNCHANGED vars
    BY <2>2, DoingFrame DEF vars, announcerVars
  <2> QED BY <2>1, <2>2 DEF Ended
<1> QED BY <1>1, <1>2, InvHolds, PTL DEF Spec, ImplementsLifecycle, Promised!Spec
=============================================================================
