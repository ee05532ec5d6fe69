--------------------------- MODULE MCSupervision ---------------------------
(* Supervision for TLC: the peers are model values. *)
EXTENDS Supervision

CONSTANTS p1, p2

OnePeer == {p1}
TwoPeers == {p1, p2}
=============================================================================
