---------------------------- MODULE MCKnownWifi ----------------------------
(* KnownWifi for TLC: the networks are model values.                       *)
EXTENDS KnownWifi
CONSTANTS n1, n2
=============================================================================
