------------------------------ MODULE MCReplog ------------------------------
(* Replog for TLC: the calls are model values. *)
EXTENDS ReplogInv

CONSTANTS c1, c2

OneCall == {c1}
TwoCalls == {c1, c2}
=============================================================================
