--------------------------- MODULE MCCallLimiter ---------------------------
(* Three calls, which nothing tells apart. *)
EXTENDS CallLimiter, TLC

CONSTANTS c1, c2, c3

ThreeCalls == {c1, c2, c3}
AnyOrder == Permutations(ThreeCalls)
=============================================================================
