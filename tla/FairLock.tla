------------------------------ MODULE FairLock ------------------------------
(***************************************************************************)
(* The fair lock under tokio::sync::RwLock and tokio::sync::Mutex, as the   *)
(* code in src/ uses it: requests are served in the order they were made,  *)
(* a write request is exclusive, a read request shares with other reads,   *)
(* and a read request made while a write request waits goes behind it.     *)
(*                                                                         *)
(* A lock is a record over the guards G that can be asked of it:           *)
(*   mode[g]    what g has asked for and not given back yet                 *)
(*   behind[g]  the guards asked for earlier that g still has to wait for   *)
(* A guard is granted as soon as it waits for nobody: granting is not a    *)
(* step of its own, so the guard is taken the moment the last conflicting  *)
(* one is dropped, as with tokio's permit handover.                        *)
(***************************************************************************)

Mode == {"none", "read", "write"}

Lock(G) == [mode : [G -> Mode], behind : [G -> SUBSET G]]

Unlocked(G) == [mode   |-> [g \in G |-> "none"],
                behind |-> [g \in G |-> {}]]

Asked(q) == {h \in DOMAIN q.mode : q.mode[h] # "none"}

AskedToWrite(q) == {h \in DOMAIN q.mode : q.mode[h] = "write"}

\* A read request waits for the write requests made before it.
AskRead(q, g) == [mode   |-> [q.mode EXCEPT ![g] = "read"],
                  behind |-> [q.behind EXCEPT ![g] = AskedToWrite(q)]]

\* A write request waits for every request made before it.
AskWrite(q, g) == [mode   |-> [q.mode EXCEPT ![g] = "write"],
                   behind |-> [q.behind EXCEPT ![g] = Asked(q)]]

Drop(q, g) == [mode   |-> [q.mode EXCEPT ![g] = "none"],
               behind |-> [h \in DOMAIN q.behind |-> q.behind[h] \ {g}]]

Granted(q, g) == q.mode[g] # "none" /\ q.behind[g] = {}

-----------------------------------------------------------------------------
\* Two requests conflict when one of them is a write.
Conflict(q, g, h) == /\ g # h
                     /\ {q.mode[g], q.mode[h]} \in {{"write"}, {"read", "write"}}

\* One of two requests waits for the other exactly when they conflict, and no
\* requests wait for each other in a circle.  Every operator above preserves this.
Ordered(q) ==
    /\ \A g, h \in DOMAIN q.mode :
          Conflict(q, g, h) <=> g \in q.behind[h] \/ h \in q.behind[g]
    /\ \A S \in SUBSET Asked(q) : S # {} => \E g \in S : q.behind[g] \cap S = {}
=============================================================================
