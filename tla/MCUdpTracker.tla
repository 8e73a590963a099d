---------------------------- MODULE MCUdpTracker ----------------------------
(* Small instances of UdpTracker for TLC. *)
EXTENDS UdpTracker

\* An answer without peers, and one of more peers than the
\* buffer holds: 1028 bytes are 168 peers, 1024 are 167 and two bytes.
SomeSizes == {20, 1028}
=============================================================================
