------------------------------ MODULE MCLoader ------------------------------
(* Bounds for model checking Loader. *)
EXTENDS Loader, TLC

CONSTANTS k1, k2    \* the keys

=============================================================================
