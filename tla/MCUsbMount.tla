----------------------------- MODULE MCUsbMount -----------------------------
(* Bounds for model checking UsbMount. *)
EXTENDS UsbMount, TLC

CONSTANTS k1, k2, k3    \* the keys

\* Keys that may be exchanged: all three, each with a partition table (usb_poll only).
SameKeys == Permutations({k1, k2, k3})

=============================================================================
