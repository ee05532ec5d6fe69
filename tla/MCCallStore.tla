---------------------------- MODULE MCCallStore ----------------------------
(* CallStore for TLC: calls and drainers are model values. *)
EXTENDS CallStore

CONSTANTS c1, c2, d1, d2

OneCall == {c1}
TwoCalls == {c1, c2}
TwoDrainers == {d1, d2}
=============================================================================
