----------------------------- MODULE Lifecycle -----------------------------
(***************************************************************************)
(* What the trackers of a torrent are promised, whichever task talks to     *)
(* them: one announce at a time; STARTED in one announce of a listing at    *)
(* most; no torrent comes or goes while any is announced; and none goes     *)
(* before its trackers were told STOPPED.                                   *)
(***************************************************************************)
CONSTANT Hash

VARIABLES
    listed,   \* the torrents there are
    doing,    \* the announces under way: pairs of a torrent and an event
    told      \* the events announced per torrent since it was listed

Event == {"started", "regular", "stopped"}

Init == listed = {} /\ doing = {} /\ told = [h \in Hash |-> {}]

List(new) ==
    /\ doing = {} /\ new \cap listed = {}
    /\ listed' = listed \cup new
    /\ UNCHANGED <<doing, told>>

Begin(h, e) ==
    /\ h \in listed /\ \A d \in doing : d[1] # h
    /\ e = "started" => e \notin told[h]
    /\ doing' = doing \cup {<<h, e>>}
    /\ UNCHANGED <<listed, told>>

\* To one of the trackers; each of them may be told.
Say(h, e) ==
    /\ <<h, e>> \in doing
    /\ told' = [told EXCEPT ![h] = @ \cup {e}]
    /\ UNCHANGED <<listed, doing>>

End(h, e) ==
    /\ <<h, e>> \in doing /\ e \in told[h]
    /\ doing' = doing \ {<<h, e>>}
    /\ UNCHANGED <<listed, told>>

Remove(h) ==
    /\ doing = {} /\ h \in listed /\ "stopped" \in told[h]
    /\ listed' = listed \ {h}
    /\ told' = [told EXCEPT ![h] = {}]
    /\ UNCHANGED doing

Next ==
    \/ \E new \in SUBSET Hash : List(new)
    \/ \E h \in Hash : Remove(h) \/ \E e \in Event : Begin(h, e) \/ Say(h, e) \/ End(h, e)

Spec == Init /\ [][Next]_<<listed, doing, told>>
=============================================================================
