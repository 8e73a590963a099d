----------------------------- MODULE MCTorrent -----------------------------
(* Small instances of Torrent for TLC. *)
EXTENDS Torrent

SomeLists == {<<"udp">>, <<"udp", "http">>}

\* A range, two equal rates, no minimum, and rates in the wrong order.
SomeRates == {[min |-> 1, max |-> 3], [min |-> 2, max |-> 2],
              [min |-> 0, max |-> 2], [min |-> 3, max |-> 1]}

\* A negative interval and a positive one.
TwoIntervals == {-1, 2}

\* No peers, enough to upload, and a number that a u16 cuts to zero.
SomePeers == {0, 2, 4}
=============================================================================
