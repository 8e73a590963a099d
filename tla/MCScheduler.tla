---------------------------- MODULE MCScheduler ----------------------------
(* Small instances of Scheduler for TLC. *)
EXTENDS Scheduler

CONSTANTS a, b

\* Long enough for jitter, and negative; 0, too short for it, is the interval
\* of a torrent without an answer.
SomeIntervals == {2, -1}
=============================================================================
