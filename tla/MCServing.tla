----------------------------- MODULE MCServing -----------------------------
(* Instances of Serving for TLC. *)
EXTENDS Serving

CONSTANTS c1, r1, r2

\* None, nothing but the margin, less than the pool waits, and as long.
DeadlineSet == {None, 1, 2, 3}
=============================================================================
