----------------------------- MODULE BrandStore -----------------------------
(***************************************************************************)
(* What the programs of the box expect of brand.j2, the JSON file that     *)
(* holds the settings of the box: a record that is changed one setting at  *)
(* a time, each program its own.  The command-line administration sets an  *)
(* option, the front panel keeps the name equal to the hostname, PxUSBm    *)
(* records the board and phone home the token the server knows the box by, *)
(* once.                                                                   *)
(*                                                                         *)
(* The real file is read, changed and rewritten whole by four programs     *)
(* that share no lock (module Settings).  `spoilt' is the history of the   *)
(* cases in which that is known to lose settings; the store promises       *)
(* nothing from then on.                                                   *)
(***************************************************************************)

CONSTANTS Names, Options, Tokens, NoToken

VARIABLES store, spoilt

Boards == {"other", "this"}

Brands == [name : Names, option : Options, token : Tokens \cup {NoToken},
           board : Boards]

Init == /\ store \in Brands
        /\ spoilt = FALSE

SetOption == \E v \in Options : store' = [store EXCEPT !.option = v]

Rename == \E n \in Names : store' = [store EXCEPT !.name = n]

\* The token is made once and never changed.
Register == /\ store.token = NoToken
            /\ \E t \in Tokens : store' = [store EXCEPT !.token = t]

RecordBoard == /\ store.board = "other"
               /\ store' = [store EXCEPT !.board = "this"]

Next == \/ /\ spoilt' = FALSE
           /\ SetOption \/ Rename \/ Register \/ RecordBoard
        \/ spoilt'

Spec == Init /\ [][Next]_<<store, spoilt>>
=============================================================================
