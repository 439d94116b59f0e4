------------------------------- MODULE MCBoot -------------------------------
(* Boot for TLC: the adapter on the board, and a Realtek one on USB. *)
EXTENDS Boot, TLC

CONSTANTS onboard, dongle

MCDriver == (onboard :> "brcmfmac") @@ (dongle :> "rtl88")
=============================================================================
