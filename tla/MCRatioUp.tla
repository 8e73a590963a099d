----------------------------- MODULE MCRatioUp -----------------------------
(* Small instances of RatioUp for TLC. *)
EXTENDS RatioUpInv, TLC

CONSTANTS h1, h2, f1, f2

OnlyHttp == [h \in Hash |-> <<"http">>]
OnlyUdp  == [h \in Hash |-> <<"udp">>]
Symmetry == Permutations({h1, h2}) \cup Permutations({f1, f2})

\* What read_dir calls the files of "/t", and those of ".".
Absolute == [f \in File |-> f]
Relative == [f \in File |-> <<"./", f>>]
=============================================================================
