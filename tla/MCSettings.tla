------------------------------ MODULE MCSettings ------------------------------
(***************************************************************************)
(* Settings for TLC.                                                       *)
(***************************************************************************)
EXTENDS Settings, TLC

CONSTANTS r1, r2, t1
MCSymmetry == Permutations({r1, r2})

=============================================================================
