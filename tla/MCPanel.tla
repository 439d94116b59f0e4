------------------------------ MODULE MCPanel ------------------------------
(* Bounds for model checking Panel. *)
EXTENDS Panel, TLC

CONSTANTS s1, s2    \* the sticks

=============================================================================
