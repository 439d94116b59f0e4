-------------------------- MODULE MCInternetSharing --------------------------
(* Bounds for model checking InternetSharing. *)
EXTENDS InternetSharing, TLC

=============================================================================
