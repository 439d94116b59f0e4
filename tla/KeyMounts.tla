----------------------------- MODULE KeyMounts -----------------------------
(***************************************************************************)
(* Where the USB keys of the box are mounted, as people who use it see it: *)
(* there is no poll, no table, no snapshot and no stack of mounts here.    *)
(* A key that is plugged in gets one of the mount points usb0, usb1, ...,  *)
(* which no other key has, and stays there until it is pulled out or until *)
(* the front panel takes the key at usb0 away, to put a key at usb11 later *)
(* and to give it back.  Only a daemon that starts takes keys off their    *)
(* mount points, and it has taken all of them off when it has started.     *)
(* With more keys than mount points a reboot is ordered, and until the box *)
(* is down nothing of this is promised, except that a key that is not      *)
(* plugged in is nowhere.                                                  *)
(* UsbMount shows how PxUSBm.py and the front panel bring this about.      *)
(***************************************************************************)
EXTENDS Naturals

CONSTANTS
  Keys,       \* the USB keys
  BadKeys,    \* those that cannot be mounted
  Slots,      \* the mount points usb0 .. of the daemon
  OverSlot,   \* the one that it goes on to when all are taken
  PanelSlot   \* usb11, the mount point of the front panel

VARIABLES
  plugged,    \* the keys that are plugged in
  at,         \* the mount points of each key that is plugged in
  held,       \* the panel has taken a key from usb0 and not yet put one at usb11
  starting,   \* the daemon starts
  ending      \* a reboot is ordered, and the box is not down yet

keyVars == <<plugged, at, held, starting, ending>>
Points  == Slots \cup {OverSlot, PanelSlot}

Init ==
  /\ plugged = {}
  /\ at = [k \in Keys |-> {}]
  /\ held = FALSE
  /\ starting = TRUE
  /\ ending = FALSE

Plug(k) ==
  /\ k \notin plugged
  /\ plugged' = plugged \cup {k}
  /\ UNCHANGED <<at, held, starting, ending>>

PullOut(k) ==
  /\ k \in plugged
  /\ plugged' = plugged \ {k}
  /\ at' = [at EXCEPT ![k] = {}]
  /\ UNCHANGED <<held, starting, ending>>

\* One mount point for a key, and one key at a mount point.
Mount(k, s) ==
  /\ ~starting
  /\ k \in plugged \ BadKeys
  /\ at[k] \cap Slots = {}
  /\ \A other \in Keys : s \notin at[other]
  /\ at' = [at EXCEPT ![k] = @ \cup {s}]
  /\ UNCHANGED <<plugged, held, starting, ending>>

TakeAway(k) ==
  /\ ~held
  /\ 0 \in at[k]
  /\ at' = [at EXCEPT ![k] = @ \ {0}]
  /\ held' = TRUE
  /\ UNCHANGED <<plugged, starting, ending>>

PutBeside(k) ==
  /\ held
  /\ k \in plugged \ BadKeys
  /\ at' = [at EXCEPT ![k] = @ \cup {PanelSlot}]
  /\ held' = FALSE
  /\ UNCHANGED <<plugged, starting, ending>>

\* The mount failed: the key is nowhere, or where it was.
LetGo ==
  /\ held
  /\ held' = FALSE
  /\ UNCHANGED <<plugged, at, starting, ending>>

GiveBack(k) ==
  /\ PanelSlot \in at[k]
  /\ at' = [at EXCEPT ![k] = @ \ {PanelSlot}]
  /\ UNCHANGED <<plugged, held, starting, ending>>

Start ==
  /\ starting' = TRUE
  /\ UNCHANGED <<plugged, at, held, ending>>

Release(k, s) ==
  /\ starting
  /\ s \in at[k]
  /\ at' = [at EXCEPT ![k] = @ \ {s}]
  /\ UNCHANGED <<plugged, held, starting, ending>>

Ready ==
  /\ \A k \in Keys : at[k] \cap Slots = {}
  /\ starting' = FALSE
  /\ UNCHANGED <<plugged, at, held, ending>>

\* More keys than mount points: a reboot is ordered ...
Order ==
  /\ ~starting
  /\ ending' = TRUE
  /\ UNCHANGED <<plugged, at, held, starting>>

\* ... after which keys may be anywhere, also over one another ...
GoOn ==
  /\ ending /\ ending' = TRUE
  /\ plugged' \in SUBSET Keys
  /\ at' \in [Keys -> SUBSET Points]
  /\ \A k \in Keys \ plugged' : at'[k] = {}
  /\ held' \in BOOLEAN /\ starting' \in BOOLEAN

\* ... until the box goes down.
Reboot ==
  /\ ending /\ ending' = FALSE
  /\ at' = [k \in Keys |-> {}]
  /\ held' = FALSE
  /\ starting' = TRUE
  /\ UNCHANGED plugged

Next ==
  \/ \E k \in Keys :
       \/ Plug(k) \/ PullOut(k)
       \/ TakeAway(k) \/ PutBeside(k) \/ GiveBack(k)
       \/ \E s \in Slots : Mount(k, s) \/ Release(k, s)
  \/ LetGo \/ Start \/ Ready \/ Order \/ GoOn \/ Reboot

Spec == Init /\ [][Next]_keyVars

-----------------------------------------------------------------------------
\* What that amounts to: a key that is not plugged in is nowhere and, unless a
\* reboot is ordered, no two keys are at one mount point of the daemon, and no key
\* is at two of them.
OneEach ==
  /\ \A k \in Keys : k \notin plugged => at[k] = {}
  /\ \/ ending
     \/ /\ \A k, other \in Keys, s \in Slots : s \in at[k] /\ s \in at[other] => k = other
        /\ \A k \in Keys : \A s, t \in Slots : s \in at[k] /\ t \in at[k] => s = t
=============================================================================
