------------------------------ MODULE Request ------------------------------
(***************************************************************************)
(* What an announce over UDP promises to the torrent: one request at a time,*)
(* which the tracker may take or not, and which may be given up at any time, *)
(* but succeeds only when the tracker has taken this very request.  Torrent *)
(* relies on it in Call, Arrive, UdpFails and UdpSucceeds.                  *)
(***************************************************************************)
VARIABLES
    status,   \* "none", "waiting", "ok" or "failed": of the last request
    taken     \* the tracker has taken it

Init == status = "none" /\ taken = FALSE

Ask == status # "waiting" /\ status' = "waiting" /\ taken' = FALSE

\* A request given up may still be under way.
Take == status \in {"waiting", "failed"} /\ taken' = TRUE /\ UNCHANGED status

Succeed == status = "waiting" /\ taken /\ status' = "ok" /\ UNCHANGED taken

Fail == status = "waiting" /\ status' = "failed" /\ UNCHANGED taken

Next == Ask \/ Take \/ Succeed \/ Fail

Spec == Init /\ [][Next]_<<status, taken>>
=============================================================================
