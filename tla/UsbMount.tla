------------------------------ MODULE UsbMount ------------------------------
(***************************************************************************)
(* How PxUSBm.py keeps USB keys mounted at /media/usb0 .. /media/usb9.     *)
(*                                                                         *)
(* The daemon polls: one lsblk snapshot, then mountCheck() walks its mount *)
(* table for keys that went away (pass 1), the snapshot for keys to mount  *)
(* or to register (pass 2), and closes up the table (pass 3), after which  *)
(* check_internal_content() looks after the box's own content.  The world  *)
(* does not wait for the poll: people plug keys in and pull them out, the  *)
(* front panel moves the key at /media/usb0 to /media/usb11 and unmounts   *)
(* it there, and the daemon itself may be restarted between any two steps. *)
(* With more keys than mount points the daemon orders a reboot, and goes   *)
(* on until the box is down.                                               *)
(***************************************************************************)
EXTENDS Integers, Sequences

CONSTANTS
  Keys,           \* the USB keys (sticks)
  WholeKeys,      \* those with a file system on the whole disk (sdX, not sdX1)
  BadKeys,        \* those that no mount command succeeds on
  NoKey,          \* "nothing is plugged in"
  NumLetters,     \* drive letters sda, sdb, ... are 0 .. NumLetters-1
  NumSlots,       \* mount points usb0 .. ; 10 in the code
  OwnContent,     \* TRUE if the SD card has content in /media/usb0/content
  PanelActive,    \* TRUE if the front panel may move and unmount keys
  CopyMode,       \* TRUE if the panel may set usb0NoMount
  Restarts,       \* TRUE if the daemon may be restarted at any moment
  UmountMayFail,  \* TRUE if the daemon's umount commands may fail
  LoaderMayFail   \* TRUE if starting the content loader may come to nothing

ASSUME UsbMountAssumption ==
  /\ WholeKeys \subseteq Keys /\ BadKeys \subseteq Keys /\ NoKey \notin Keys
  /\ NumLetters \in Nat \ {0} /\ NumSlots \in Nat \ {0}
  /\ {"empty", "own"} \cap Keys = {}
  /\ {OwnContent, PanelActive, CopyMode, Restarts, UmountMayFail,
      LoaderMayFail} \subseteq BOOLEAN

Letters     == 0 .. NumLetters - 1
Slots       == 0 .. NumSlots - 1
OverSlot    == NumSlots                  \* chr(ord('0') + 10): /media/usb:
PanelSlot   == NumSlots + 1              \* /media/usb11
MountPoints == Slots \cup {OverSlot, PanelSlot}
None        == -1                        \* the tables' empty value

\* A device node: <<l, TRUE>> is /dev/sdX, <<l, FALSE>> is /dev/sdX1.
Dev   == Letters \X BOOLEAN
NoDev == <<None, FALSE>>

VARIABLES
  \* The kernel
  port,       \* the key that has each drive letter
  mounts,     \* the stack of devices mounted at each mount point, last on top
  rebooting,  \* a reboot is ordered, and the box is not down yet
  \* The front panel
  noMount,    \* brand.j2's usb0NoMount
  moving,     \* device a moveMount() has unmounted and not yet mounted again
  \* The daemon's tables
  mnt, loc,   \* table index -> drive letter, mount point number
  wholeDisk,  \* letters mounted as whole disks (whole_disk)
  failed,     \* devices that failed to mount (failed_mounts)
  \* The daemon's progress through a poll
  pc, cursor,
  seen,       \* the lsblk snapshot: what each letter is ...
  seenAt,     \* ... and where the snapshot shows it mounted
  target,     \* the mount point chosen for the key being mounted
  \* What survives a restart of the daemon
  sentinel,   \* /tmp/.usb0_indexed exists
  ownIndexed, \* /tmp/.internal_indexed exists
  indexed     \* what the menus were last built from

kernel  == <<port, mounts, rebooting>>
panel   == <<noMount, moving>>
tables  == <<mnt, loc, wholeDisk, failed>>
polling == <<pc, cursor, seen, seenAt, target>>
markers == <<sentinel, ownIndexed, indexed>>
vars    == <<kernel, panel, tables, polling, markers>>

-----------------------------------------------------------------------------
\* The kernel's view

Layout(k) == IF k = NoKey THEN "none" ELSE IF k \in WholeKeys THEN "whole" ELSE "part"
DevAt(l)  == <<l, port[l] \in WholeKeys>>
Live(d)   == d \in Dev /\ port[d[1]] # NoKey /\ DevAt(d[1]) = d

\* The name appears in an lsblk listing (or in /dev): "sdb" is also part of "sdb1".
NameIn(d, layout) == IF d[2] THEN layout[d[1]] # "none" ELSE layout[d[1]] = "part"
NodeExists(d)     == NameIn(d, [l \in Letters |-> Layout(port[l])])

Top(stack) == IF stack = <<>> THEN NoDev ELSE stack[Len(stack)]
Pop(stack) == IF stack = <<>> THEN <<>> ELSE SubSeq(stack, 1, Len(stack) - 1)
In(d, stack) == \E i \in 1 .. Len(stack) : stack[i] = d

Mountable(d) == Live(d) /\ port[d[1]] \notin BadKeys

\* What the loader finds under /media/usb0/content.
ContentAt0 ==
  IF mounts[0] = <<>>
  THEN IF OwnContent THEN "own" ELSE "empty"
  ELSE IF Live(Top(mounts[0])) THEN port[Top(mounts[0])[1]] ELSE "empty"

\* start_content_loader(): a systemd-run that fails is only logged, and the new
\* mmiLoader gives up when another one is running.
StartContentLoader ==
  \/ indexed' = ContentAt0
  \/ LoaderMayFail /\ UNCHANGED indexed

-----------------------------------------------------------------------------
\* Keys come and go

\* The kernel does not give a letter again while something is still mounted on it.
InsertKey(k, l) ==
  /\ port[l] = NoKey
  /\ \A x \in Letters : port[x] # k
  /\ \A m \in MountPoints, b \in BOOLEAN : ~In(<<l, b>>, mounts[m])
  /\ port' = [port EXCEPT ![l] = k]
  /\ UNCHANGED <<mounts, rebooting, panel, tables, polling, markers>>

RemoveKey(l) ==
  /\ port[l] # NoKey
  /\ port' = [port EXCEPT ![l] = NoKey]
  /\ UNCHANGED <<mounts, rebooting, panel, tables, polling, markers>>

-----------------------------------------------------------------------------
\* The front panel (buttons.py and usb.py, another process)

PanelSetNoMount ==
  /\ PanelActive /\ CopyMode
  /\ noMount' = ~noMount
  /\ UNCHANGED <<kernel, moving, tables, polling, markers>>

\* moveMount(): first the umount ...  (The panel only looks for /dev/sdX1.)
PanelUnmount0 ==
  /\ PanelActive
  /\ moving = NoDev
  /\ Live(Top(mounts[0])) /\ ~Top(mounts[0])[2]
  /\ moving' = Top(mounts[0])
  /\ mounts' = [mounts EXCEPT ![0] = Pop(@)]
  /\ UNCHANGED <<port, rebooting, noMount, tables, polling, markers>>

\* ... then, after a dosfsck, the mount; its failure goes unnoticed.
PanelMount11 ==
  /\ moving # NoDev
  /\ moving' = NoDev
  /\ mounts' = IF Mountable(moving) /\ ~In(moving, mounts[PanelSlot])
               THEN [mounts EXCEPT ![PanelSlot] = Append(@, moving)]
               ELSE mounts
  /\ UNCHANGED <<port, rebooting, noMount, tables, polling, markers>>

PanelUnmount11 ==
  /\ PanelActive
  /\ mounts[PanelSlot] # <<>>
  /\ mounts' = [mounts EXCEPT ![PanelSlot] = Pop(@)]
  /\ UNCHANGED <<port, rebooting, panel, tables, polling, markers>>

-----------------------------------------------------------------------------
\* The daemon starts (again)

NoTable == [i \in Slots |-> None]
NoSnapshot ==
  /\ seen'   = [l \in Letters |-> "none"]
  /\ seenAt' = [l \in Letters |-> None]
  /\ target' = None

StartOver ==
  /\ pc' = "start" /\ cursor' = 0 /\ NoSnapshot
  /\ mnt' = NoTable /\ loc' = NoTable /\ wholeDisk' = {} /\ failed' = {}

Restart ==
  /\ Restarts
  /\ pc # "start"
  /\ StartOver
  /\ UNCHANGED <<kernel, panel, markers>>

\* The box goes down, and /tmp and all mounts with it.
Reboot ==
  /\ rebooting /\ rebooting' = FALSE
  /\ mounts' = [m \in MountPoints |-> <<>>] /\ moving' = NoDev
  /\ StartOver
  /\ sentinel' = FALSE /\ ownIndexed' = FALSE
  /\ UNCHANGED <<port, noMount, indexed>>

\* One round of release_usb_slots(), which gives up when umount fails.
ReleaseUsbSlot(s) ==
  /\ pc = "start"
  /\ mounts[s] # <<>>
  /\ sentinel' = (sentinel /\ s # 0)
  /\ \/ mounts' = [mounts EXCEPT ![s] = Pop(@)] /\ UNCHANGED pc
     \/ UmountMayFail /\ pc' = "idle" /\ UNCHANGED mounts
  /\ UNCHANGED <<port, rebooting, panel, tables, cursor, seen, seenAt, target, ownIndexed, indexed>>

SlotsReleased ==
  /\ pc = "start"
  /\ \A s \in Slots : mounts[s] = <<>>
  /\ pc' = "idle"
  /\ UNCHANGED <<kernel, panel, tables, cursor, seen, seenAt, target, markers>>

-----------------------------------------------------------------------------
\* mountCheck() pass 1: keys that went away

\* usb_device_name(); the variant knows partitions only.
PartitionName(l) == <<l, FALSE>>
UsbDeviceName(l) == <<l, l \in wholeDisk>>

\* The main loop skips mountCheck() while usb0NoMount is set; the snapshot shows
\* one of the mount points of a device that has several.
PollStart ==
  /\ pc = "idle"
  /\ ~noMount
  /\ seen' = [l \in Letters |-> Layout(port[l])]
  /\ seenAt' \in [Letters -> MountPoints \cup {None}]
  /\ \A l \in Letters :
       LET at == {m \in MountPoints : port[l] # NoKey /\ In(DevAt(l), mounts[m])}
       IN  IF at = {} THEN seenAt'[l] = None ELSE seenAt'[l] \in at
  /\ failed' = {d \in failed : NameIn(d, seen')}
  /\ pc' = "removals" /\ cursor' = 0
  /\ UNCHANGED <<kernel, panel, mnt, loc, wholeDisk, target, markers>>

Forget(i) ==
  /\ mnt' = [mnt EXCEPT ![i] = None]
  /\ loc' = [loc EXCEPT ![i] = None]

\* A marker that is removed when the entry of usb0 is forgotten.
MarkerKept(marker, i) == marker
MarkerAfter(marker, i) == marker /\ loc[i] # 0

SkipEmptyEntry ==
  /\ pc = "removals" /\ cursor < NumSlots
  /\ mnt[cursor] = None
  /\ cursor' = cursor + 1
  /\ UNCHANGED <<kernel, panel, tables, pc, seen, seenAt, target, markers>>

\* The device is not in the snapshot: for usb0 stop the loader and empty the
\* menus (mmiLoader --clear), then `umount -l` the mount point ...
UnmountGone ==
  /\ pc = "removals" /\ cursor < NumSlots
  /\ mnt[cursor] # None
  /\ ~NameIn(UsbDeviceName(mnt[cursor]), seen)
  /\ indexed' = IF loc[cursor] = 0 THEN "empty" ELSE indexed
  /\ \/ mounts' = [mounts EXCEPT ![loc[cursor]] = Pop(@)]
     \/ UmountMayFail /\ UNCHANGED mounts
  /\ pc' = "gone"
  /\ UNCHANGED <<port, rebooting, panel, tables, cursor, seen, seenAt, target, sentinel, ownIndexed>>

\* ... and, whatever umount said, remove the markers and free the entry.
ForgetGone ==
  /\ pc = "gone"
  /\ sentinel'   = MarkerAfter(sentinel, cursor)
  /\ ownIndexed' = MarkerAfter(ownIndexed, cursor)
  /\ wholeDisk'  = wholeDisk \ {mnt[cursor]}
  /\ Forget(cursor)
  /\ pc' = "removals" /\ cursor' = cursor + 1
  /\ UNCHANGED <<kernel, panel, failed, seen, seenAt, target, indexed>>

\* Plugged in, but /proc/mounts has something else at its mount point.
ForgetMoved ==
  /\ pc = "removals" /\ cursor < NumSlots
  /\ mnt[cursor] # None
  /\ NameIn(UsbDeviceName(mnt[cursor]), seen)
  /\ Top(mounts[loc[cursor]]) # UsbDeviceName(mnt[cursor])
  /\ sentinel' = MarkerAfter(sentinel, cursor)
  /\ Forget(cursor)
  /\ cursor' = cursor + 1
  /\ UNCHANGED <<kernel, panel, wholeDisk, failed, pc, seen, seenAt, target,
                 ownIndexed, indexed>>

\* Still mounted where it was put: a key at usb0 is indexed once.
StillMounted ==
  /\ pc = "removals" /\ cursor < NumSlots
  /\ mnt[cursor] # None
  /\ NameIn(UsbDeviceName(mnt[cursor]), seen)
  /\ Top(mounts[loc[cursor]]) = UsbDeviceName(mnt[cursor])
  /\ IF loc[cursor] = 0 /\ ~sentinel
     THEN StartContentLoader /\ sentinel' = TRUE
     ELSE UNCHANGED <<sentinel, indexed>>
  /\ cursor' = cursor + 1
  /\ UNCHANGED <<kernel, panel, tables, pc, seen, seenAt, target, ownIndexed>>

RemovalsDone ==
  /\ pc = "removals" /\ cursor = NumSlots
  /\ pc' = "insertions" /\ cursor' = 0
  /\ UNCHANGED <<kernel, panel, tables, seen, seenAt, target, markers>>

-----------------------------------------------------------------------------
\* mountCheck() pass 2: keys to mount, mounts to register

SeenDev(l) == <<l, seen[l] = "whole">>

\* The mount points that entries book; the variant starts the scan one too late.
UsedSlotsButFirst == {loc[i] : i \in Slots \ {0}} \ {None}
UsedSlots == {loc[i] : i \in Slots} \ {None}

\* The lowest number that no entry books, the one after the last if all do.
LowestFreeSlot(s) ==
  /\ s \notin UsedSlots
  /\ \A u \in 0 .. s - 1 : u \in UsedSlots

\* The entry a new key is written to: the first hole, the last index without one.
IsNewIndex(i) ==
  /\ mnt[i] = None \/ i = NumSlots - 1
  /\ \A h \in 0 .. i - 1 : mnt[h] # None

NothingToDo(l) ==
  \/ seen[l] = "none" \/ seenAt[l] = OverSlot
  \/ seenAt[l] = None /\ SeenDev(l) \in failed
  \/ seenAt[l] \in UsedSlots
  \/ seenAt[l] \in Slots /\ \A i \in Slots : mnt[i] # None

SkipLine ==
  /\ pc = "insertions" /\ cursor < NumLetters
  /\ NothingToDo(cursor)
  /\ cursor' = cursor + 1
  /\ UNCHANGED <<kernel, panel, tables, pc, seen, seenAt, target, markers>>

\* In the snapshot, not mounted yet, and not on record as failed.
NewKeySeen(l) == seen[l] # "none" /\ seenAt[l] = None /\ SeenDev(l) \notin failed

\* With more keys than mount points a reboot is ordered, and the poll goes on at once
\* (the sleep after it is commented out): the key is for /media/usb: .
ChooseSlot(s) ==
  /\ pc = "insertions" /\ cursor < NumLetters
  /\ NewKeySeen(cursor)
  /\ OverSlot \notin UsedSlots
  /\ LowestFreeSlot(s)
  /\ rebooting' = (rebooting \/ s = OverSlot)
  /\ target' = s
  /\ pc' = "clearing"
  /\ UNCHANGED <<port, mounts, panel, tables, cursor, seen, seenAt, markers>>

\* An entry with ":" is out of the range of f[]: the IndexError ends the daemon, and
\* systemd starts it again.
PollDies ==
  /\ pc = "insertions" /\ cursor < NumLetters
  /\ NewKeySeen(cursor)
  /\ OverSlot \in UsedSlots
  /\ StartOver
  /\ UNCHANGED <<kernel, panel, markers>>

\* One round of clear_dead_mounts(); when umount fails the key is mounted on top.
ClearDeadMount ==
  /\ pc = "clearing"
  /\ mounts[target] # <<>>
  /\ ~NodeExists(Top(mounts[target]))
  /\ \/ mounts' = [mounts EXCEPT ![target] = Pop(@)] /\ UNCHANGED pc
     \/ UmountMayFail /\ pc' = "mounting" /\ UNCHANGED mounts
  /\ UNCHANGED <<port, rebooting, panel, tables, cursor, seen, seenAt, target, markers>>

\* The file-system check: none for a FAT volume that was unmounted cleanly.  Whatever
\* it finds, and if it is stopped after FS_CHECK_SECS, the mount is tried next.
RunFsCheck == pc' = "mounting"

\* Nothing dead is left at the mount point.
CheckFileSystem ==
  /\ pc = "clearing"
  /\ mounts[target] # <<>> => NodeExists(Top(mounts[target]))
  /\ RunFsCheck
  /\ UNCHANGED <<kernel, panel, tables, cursor, seen, seenAt, target, markers>>

MountSucceeds ==
  /\ pc = "mounting"
  /\ Mountable(SeenDev(cursor))
  /\ mounts' = [mounts EXCEPT ![target] = Append(@, SeenDev(cursor))]
  /\ \E i \in Slots :
       /\ IsNewIndex(i)
       /\ mnt' = [mnt EXCEPT ![i] = cursor]
       /\ loc' = [loc EXCEPT ![i] = target]
  /\ wholeDisk' = IF seen[cursor] = "whole" THEN wholeDisk \cup {cursor} ELSE wholeDisk
  /\ pc' = "insertions" /\ cursor' = cursor + 1 /\ target' = None
  /\ UNCHANGED <<port, rebooting, panel, failed, seen, seenAt, markers>>

MountFails ==
  /\ pc = "mounting"
  /\ ~Mountable(SeenDev(cursor))
  /\ failed' = failed \cup {SeenDev(cursor)}
  /\ pc' = "insertions" /\ cursor' = cursor + 1 /\ target' = None
  /\ UNCHANGED <<kernel, panel, mnt, loc, wholeDisk, seen, seenAt, markers>>

\* The snapshot shows it at a mount point the table does not have.  (Its line cannot
\* be parsed if that is /media/usb: .)
RegisterMount ==
  /\ pc = "insertions" /\ cursor < NumLetters
  /\ seen[cursor] # "none"
  /\ seenAt[cursor] \in Slots \ UsedSlots
  /\ \E i \in Slots :
       /\ mnt[i] = None /\ IsNewIndex(i)
       /\ mnt' = [mnt EXCEPT ![i] = cursor]
       /\ loc' = [loc EXCEPT ![i] = seenAt[cursor]]
  /\ wholeDisk' = IF seen[cursor] = "whole" THEN wholeDisk \cup {cursor} ELSE wholeDisk
  /\ cursor' = cursor + 1
  /\ UNCHANGED <<kernel, panel, failed, pc, seen, seenAt, target, markers>>

\* "USB number >= 10": umount /media/usb11, which does nothing while the panel's
\* copy keeps it busy.
PanelSlotBusy ==
  /\ pc = "insertions" /\ cursor < NumLetters
  /\ PanelActive
  /\ seenAt[cursor] = PanelSlot
  /\ cursor' = cursor + 1
  /\ UNCHANGED <<kernel, panel, tables, pc, seen, seenAt, target, markers>>

UnmountPanelSlot ==
  /\ pc = "insertions" /\ cursor < NumLetters
  /\ seenAt[cursor] = PanelSlot
  /\ mounts' = [mounts EXCEPT ![PanelSlot] = Pop(@)]
  /\ cursor' = cursor + 1
  /\ UNCHANGED <<port, rebooting, panel, tables, pc, seen, seenAt, target, markers>>

-----------------------------------------------------------------------------
\* mountCheck() pass 3 and check_internal_content()

\* Everything after index h moves down by one.
CloseUp(f, h) ==
  [i \in Slots |-> IF i < h THEN f[i] ELSE IF i + 1 \in Slots THEN f[i + 1] ELSE None]

\* The two nested loops close up the first hole, and only that one.
CompactTable ==
  /\ pc = "insertions" /\ cursor = NumLetters
  /\ \/ /\ \A i \in Slots : mnt[i] # None
        /\ UNCHANGED <<mnt, loc>>
     \/ \E h \in Slots :
          /\ mnt[h] = None
          /\ \A i \in 0 .. h - 1 : mnt[i] # None
          /\ mnt' = CloseUp(mnt, h)
          /\ loc' = CloseUp(loc, h)
  /\ pc' = "own" /\ cursor' = 0 /\ NoSnapshot
  /\ UNCHANGED <<kernel, panel, wholeDisk, failed, markers>>

CheckInternalContent ==
  /\ pc = "own"
  /\ IF ownIndexed \/ mounts[0] # <<>>
     THEN UNCHANGED <<ownIndexed, indexed>>
     ELSE /\ ownIndexed' = TRUE
          /\ IF OwnContent THEN StartContentLoader ELSE UNCHANGED indexed
  /\ pc' = "idle"
  /\ UNCHANGED <<kernel, panel, tables, cursor, seen, seenAt, target, sentinel>>

-----------------------------------------------------------------------------
Init ==
  /\ port = [l \in Letters |-> NoKey]
  /\ mounts = [m \in MountPoints |-> <<>>]
  /\ noMount = FALSE /\ moving = NoDev
  /\ mnt = NoTable /\ loc = NoTable /\ wholeDisk = {} /\ failed = {}
  /\ pc = "start" /\ cursor = 0 /\ target = None
  /\ seen = [l \in Letters |-> "none"] /\ seenAt = [l \in Letters |-> None]
  /\ sentinel = FALSE /\ ownIndexed = FALSE /\ indexed = "empty"
  /\ rebooting = FALSE

World ==
  \/ \E k \in Keys, l \in Letters : InsertKey(k, l)
  \/ \E l \in Letters : RemoveKey(l)

Panel ==
  \/ PanelSetNoMount \/ PanelUnmount0 \/ PanelMount11 \/ PanelUnmount11

Poll ==
  \/ \E s \in Slots : ReleaseUsbSlot(s)
  \/ SlotsReleased \/ PollStart
  \/ SkipEmptyEntry \/ UnmountGone \/ ForgetGone \/ ForgetMoved \/ StillMounted
  \/ RemovalsDone \/ SkipLine \/ PollDies
  \/ \E s \in 0 .. NumSlots : ChooseSlot(s)
  \/ ClearDeadMount \/ CheckFileSystem \/ MountSucceeds \/ MountFails
  \/ RegisterMount \/ UnmountPanelSlot \/ PanelSlotBusy
  \/ CompactTable \/ CheckInternalContent

Next == World \/ Panel \/ Restart \/ Poll \/ Reboot

Spec == Init /\ [][Next]_vars

\* The daemon's loop keeps running, a moveMount() that began is finished, no
\* copy keeps /media/usb11 busy for ever, and a reboot that is ordered comes;
\* nobody has to plug, pull or press anything.
FairSpec ==
  /\ Spec /\ WF_vars(Poll) /\ WF_vars(PanelMount11) /\ SF_vars(UnmountPanelSlot)
  /\ WF_vars(Reboot)

-----------------------------------------------------------------------------
TypeOK ==
  /\ port \in [Letters -> Keys \cup {NoKey}]
  /\ mounts \in [MountPoints -> Seq(Dev)]
  /\ rebooting \in BOOLEAN
  /\ noMount \in BOOLEAN
  /\ moving \in Dev \cup {NoDev}
  /\ mnt \in [Slots -> Letters \cup {None}]
  /\ loc \in [Slots -> Slots \cup {OverSlot, None}]
  /\ wholeDisk \subseteq Letters
  /\ failed \subseteq Dev
  /\ pc \in {"start", "idle", "removals", "gone", "insertions", "clearing", "mounting", "own"}
  /\ cursor \in Nat
  /\ seen \in [Letters -> {"none", "part", "whole"}]
  /\ seenAt \in [Letters -> MountPoints \cup {None}]
  /\ target \in Slots \cup {OverSlot, None}
  /\ sentinel \in BOOLEAN /\ ownIndexed \in BOOLEAN
  /\ indexed \in Keys \cup {"empty", "own"}

\* No two table entries have the same mount point, and the drive letter and the
\* mount point of an entry are set and cleared together (mountCheck's parallel
\* arrays mnt[] and loc[]).
SlotsUnique ==
  \A i, j \in Slots :
    /\ (mnt[i] = None) = (loc[i] = None)
    /\ loc[i] # None /\ loc[i] = loc[j] => i = j

\* No drive letter is in the table twice.
LettersUnique ==
  \A i, j \in Slots : mnt[i] # None /\ mnt[i] = mnt[j] => i = j

\* No key that is plugged in is hidden under another one mounted at the same
\* mount point (clear_dead_mounts: "so mounts never stack").  Not so between the
\* order to reboot and the reboot: the key whose entry was overwritten is mounted over.
NoHiddenKey ==
  rebooting \/ \A s \in Slots : \A i, j \in 1 .. Len(mounts[s]) :
    Live(mounts[s][i]) /\ Live(mounts[s][j]) => i = j

\* While the daemon's marker says "usb0 is indexed", the menus are those of the
\* key that is at usb0 (unless a reboot is ordered, as above).
IndexedIsAtUsb0 ==
  ~rebooting /\ sentinel /\ (\E i \in Slots : loc[i] = 0) /\ Live(Top(mounts[0]))
    => indexed = port[Top(mounts[0])[1]]

\* The marker "usb0 is indexed" never outlives the table entry of usb0: with no
\* key booked at usb0 the next one there is indexed (unless a reboot is ordered).
SentinelBooked == sentinel /\ ~rebooting => \E i \in Slots : loc[i] = 0

\* mountCheck() never unmounts a key that is still plugged in from usb0..usb9
\* (its lazy unmount is for devices that are gone), unless a reboot is ordered.
NeverUnmountsLive ==
  [][pc # "start" /\ Poll /\ pc' # "start" /\ ~rebooting =>
       \A s \in Slots : \A i \in 1 .. Len(mounts[s]) :
         Live(mounts[s][i]) => In(mounts[s][i], mounts'[s])]_vars

\* Which keys are plugged in, and the mount points of each.
PluggedKeys == {port[l] : l \in Letters} \ {NoKey}
KeyAt == [k \in Keys |->
  {m \in MountPoints : \E l \in Letters : port[l] = k /\ In(DevAt(l), mounts[m])}]

Kept == INSTANCE KeyMounts WITH plugged <- PluggedKeys, at <- KeyAt,
                                held <- moving # NoDev, starting <- pc = "start",
                                ending <- rebooting

\* Polls, tables, snapshots and stacked mounts come to what KeyMounts describes:
\* each key has a mount point of its own from usb0 .. and keeps it until it is
\* pulled out or the front panel takes it away; the daemon never unmounts a key
\* that is plugged in, unless it starts, and then it unmounts all (mountCheck,
\* clear_dead_mounts, release_usb_slots, moveMount).  From the order to reboot until
\* the box is down nothing of the kind is promised.
MountsKept == Kept!Spec

\* From some point on nobody plugs, pulls or presses anything.
PanelRests == <>[][~PanelUnmount0 /\ ~PanelUnmount11]_mounts
MountingOn == <>[](~noMount)

MountedKey(l) == \E s \in Slots : Top(mounts[s]) = DevAt(l)

\* A good key that stays plugged in ends up mounted and visible, or on record
\* as one that failed to mount, once the panel leaves the keys alone and
\* mounting is not suspended.  This is about no more keys than mount points: with
\* more, the daemon reboots the box again and again.
KeyGetsMounted ==
  \A k \in Keys \ BadKeys, l \in Letters :
    PanelRests /\ MountingOn /\ <>[](port[l] = k)
      => <>[](MountedKey(l) \/ DevAt(l) \in failed)

\* Once keys stop coming and going, the menus end up showing what is at
\* /media/usb0: the key mounted there, or the box's own content ("when it is
\* pulled out (or the box starts without a key) the box's own content is indexed
\* again") ...
MenusSettle ==
  PanelRests /\ MountingOn /\ <>[][FALSE]_port => <>[](indexed = ContentAt0)

\* ... which is so if the panel has not moved a key meanwhile.
PanelNeverMoves == [](moving = NoDev)
MenusSettleUnmoved == PanelNeverMoves => MenusSettle
=============================================================================
