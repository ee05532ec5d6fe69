--------------------------- MODULE MCCallHandling ---------------------------
(***************************************************************************)
(* Instances of CallHandling: an a leg, or an a leg and a b leg.           *)
(***************************************************************************)
EXTENDS CallHandling

CONSTANTS a, b
BothLegs == {a, b}
OneLeg == {a}
=============================================================================
