--------------------------- MODULE UsbMountProofs ---------------------------
(***************************************************************************)
(* What TLAPS proves about UsbMount, for any number of keys, drive letters *)
(* and mount points: the type invariant; that the mount table never books  *)
(* a mount point or a drive letter twice; that no key that is plugged in   *)
(* is ever hidden under another one, or unmounted by mountCheck; that the  *)
(* "usb0 is indexed" marker never outlives the entry of usb0, and that     *)
(* while it is there the menus are those of the key at usb0; and that the  *)
(* mounts are those that KeyMounts describes, which knows of no poll, no   *)
(* table and no snapshot.  All but the types and the table hold until a    *)
(* reboot is ordered, and again when the box has gone down.                *)
(***************************************************************************)
EXTENDS UsbMount, FiniteSetTheorems, TLAPS

\* Where a poll in progress may be: the entry or snapshot line it works on, and
\* a mount point chosen for a key that no entry books meanwhile.
ProgressOK ==
  /\ pc = "gone" => cursor \in Slots /\ mnt[cursor] # None
  /\ pc \in {"clearing", "mounting"} => cursor \in Letters
  /\ pc \in {"clearing", "mounting"} => target \in (Slots \cup {OverSlot}) \ UsedSlots

IInv == TypeOK /\ SlotsUnique /\ ProgressOK

\* Nothing is, or is going to be, at the mount point after the last, unless a reboot
\* is ordered.
InRange == ~rebooting => target # OverSlot /\ \A i \in Slots : loc[i] # OverSlot
Usual   == ~rebooting /\ InRange

-----------------------------------------------------------------------------
LEMMA PopType ==
  ASSUME NEW S, NEW s \in Seq(S)
  PROVE  Pop(s) \in Seq(S)
BY DEF Pop

LEMMA PopMounts ==
  ASSUME mounts \in [MountPoints -> Seq(Dev)], NEW m
  PROVE  [mounts EXCEPT ![m] = Pop(@)] \in [MountPoints -> Seq(Dev)]
BY PopType

LEMMA AppendMounts ==
  ASSUME mounts \in [MountPoints -> Seq(Dev)], NEW d \in Dev, NEW m
  PROVE  [mounts EXCEPT ![m] = Append(@, d)] \in [MountPoints -> Seq(Dev)]
<1> DEFINE g == [mounts EXCEPT ![m] = Append(@, d)]
<1>1. \A x \in MountPoints : g[x] \in Seq(Dev)
  <2> TAKE x \in MountPoints
  <2>1. mounts[x] \in Seq(Dev) /\ Append(mounts[x], d) \in Seq(Dev)
    OBVIOUS
  <2> QED
    BY <2>1
<1>2. DOMAIN g = MountPoints
  OBVIOUS
<1> QED
  BY <1>1, <1>2

LEMMA Constants ==
  /\ NumLetters \in Nat \ {0} /\ NumSlots \in Nat \ {0}
  /\ 0 \in Slots /\ Slots \subseteq Nat /\ Letters \subseteq Nat
  /\ None \notin Slots /\ None \notin Letters /\ None \notin MountPoints
  /\ PanelSlot \notin Slots /\ Slots \subseteq MountPoints
  /\ OverSlot \notin Slots /\ OverSlot \in MountPoints /\ OverSlot \in Nat /\ OverSlot # 0
  /\ None # OverSlot /\ PanelSlot # OverSlot
BY UsbMountAssumption DEF Slots, Letters, None, PanelSlot, OverSlot, MountPoints

LEMMA UsualSlots ==
  ASSUME TypeOK, Usual
  PROVE  /\ target \in Slots \cup {None}
         /\ loc \in [Slots -> Slots \cup {None}]
<1>1. \A i \in Slots : loc[i] \in Slots \cup {None}
  BY DEF TypeOK, Usual, InRange
<1> QED
  BY <1>1 DEF TypeOK, Usual, InRange

LEMMA TypeInit == Init => IInv
<1> SUFFICES ASSUME Init PROVE IInv
  OBVIOUS
<1>1. TypeOK
  BY Constants DEF Init, TypeOK, NoTable
<1>2. SlotsUnique
  BY DEF Init, SlotsUnique, NoTable
<1>3. ProgressOK
  BY DEF Init, ProgressOK
<1> QED
  BY <1>1, <1>2, <1>3 DEF IInv

-----------------------------------------------------------------------------
\* Steps that leave the table alone keep SlotsUnique; if the place in the poll
\* does not change either, they keep ProgressOK too.
LEMMA TableUnchanged ==
  ASSUME SlotsUnique, mnt' = mnt, loc' = loc
  PROVE  SlotsUnique'
BY DEF SlotsUnique

LEMMA PlaceUnchanged ==
  ASSUME ProgressOK, mnt' = mnt, loc' = loc, pc' = pc, cursor' = cursor, target' = target
  PROVE  ProgressOK'
BY DEF ProgressOK, UsedSlots

LEMMA KernelKept ==
  ASSUME TypeOK, UNCHANGED <<rebooting, tables, polling, markers>>,
         port' \in [Letters -> Keys \cup {NoKey}],
         mounts' \in [MountPoints -> Seq(Dev)],
         noMount' \in BOOLEAN, moving' \in Dev \cup {NoDev}
  PROVE  TypeOK'
BY DEF TypeOK, tables, polling, markers

LEMMA WorldStep == IInv /\ World => IInv'
<1> SUFFICES ASSUME IInv, World PROVE IInv'
  OBVIOUS
<1>1. UNCHANGED <<panel, tables, polling, markers>> /\ UNCHANGED <<mounts, rebooting>>
  BY DEF World, InsertKey, RemoveKey
<1>2. port' \in [Letters -> Keys \cup {NoKey}]
  BY DEF World, InsertKey, RemoveKey, IInv, TypeOK
<1>3. TypeOK'
  BY <1>1, <1>2, KernelKept DEF IInv, TypeOK, panel
<1>4. SlotsUnique' /\ ProgressOK'
  BY <1>1, TableUnchanged, PlaceUnchanged DEF IInv, tables, polling
<1> QED
  BY <1>3, <1>4 DEF IInv

LEMMA PanelStep == IInv /\ Panel => IInv'
<1> SUFFICES ASSUME IInv, Panel PROVE IInv'
  OBVIOUS
<1>1. UNCHANGED <<tables, polling, markers>> /\ UNCHANGED <<port, rebooting>>
  BY DEF Panel, PanelSetNoMount, PanelUnmount0, PanelMount11, PanelUnmount11, kernel
<1>2. mounts' \in [MountPoints -> Seq(Dev)]
  <2>1. CASE PanelSetNoMount
    BY <2>1 DEF PanelSetNoMount, kernel, IInv, TypeOK
  <2>2. CASE PanelUnmount0
    BY <2>2, PopMounts DEF PanelUnmount0, IInv, TypeOK
  <2>3. CASE PanelMount11
    <3>1. CASE mounts' = mounts
      BY <3>1 DEF IInv, TypeOK
    <3>2. CASE moving \in Dev /\ mounts' = [mounts EXCEPT ![PanelSlot] = Append(@, moving)]
      BY <3>2, AppendMounts DEF IInv, TypeOK
    <3> QED
      BY <2>3, <3>1, <3>2 DEF PanelMount11, Mountable, Live
  <2>4. CASE PanelUnmount11
    BY <2>4, PopMounts DEF PanelUnmount11, IInv, TypeOK
  <2> QED
    BY <2>1, <2>2, <2>3, <2>4 DEF Panel
<1>3. noMount' \in BOOLEAN /\ moving' \in Dev \cup {NoDev}
  BY DEF Panel, PanelSetNoMount, PanelUnmount0, PanelMount11, PanelUnmount11,
         Live, panel, IInv, TypeOK
<1>4. TypeOK'
  BY <1>1, <1>2, <1>3, KernelKept DEF IInv, TypeOK
<1>5. SlotsUnique' /\ ProgressOK'
  BY <1>1, TableUnchanged, PlaceUnchanged DEF IInv, tables, polling
<1> QED
  BY <1>4, <1>5 DEF IInv

-----------------------------------------------------------------------------
\* The daemon's steps, pass by pass.

LEMMA StartStep ==
  ASSUME IInv, NEW s \in Slots,
         Restart \/ PollDies \/ ReleaseUsbSlot(s) \/ SlotsReleased \/ Reboot
  PROVE  IInv'
<1>1. CASE Restart \/ PollDies
  <2>1. StartOver /\ UNCHANGED <<kernel, panel, markers>>
    BY <1>1 DEF Restart, PollDies
  <2> QED
    BY <2>1, Constants DEF StartOver, NoSnapshot, NoTable, kernel, panel, markers,
       IInv, TypeOK, SlotsUnique, ProgressOK
<1>2. CASE ReleaseUsbSlot(s)
  <2>1. mounts' \in [MountPoints -> Seq(Dev)]
    BY <1>2, PopMounts DEF ReleaseUsbSlot, IInv, TypeOK
  <2> QED
    BY <1>2, <2>1 DEF ReleaseUsbSlot, panel, tables, polling, IInv, TypeOK,
       SlotsUnique, ProgressOK, UsedSlots
<1>3. CASE SlotsReleased
  BY <1>3 DEF SlotsReleased, kernel, panel, tables, markers, IInv, TypeOK,
     SlotsUnique, ProgressOK, UsedSlots
<1>4. CASE Reboot
  <2>1. mounts' \in [MountPoints -> Seq(Dev)]
    BY <1>4 DEF Reboot
  <2>2. sentinel' \in BOOLEAN /\ ownIndexed' \in BOOLEAN
    BY <1>4 DEF Reboot
  <2>3. TypeOK'
    BY <1>4, <2>1, <2>2, Constants DEF Reboot, StartOver, NoSnapshot, NoTable, IInv, TypeOK
  <2>4. SlotsUnique' /\ ProgressOK'
    BY <1>4 DEF Reboot, StartOver, NoTable, SlotsUnique, ProgressOK
  <2> QED
    BY <2>3, <2>4 DEF IInv
<1> QED
  BY <1>1, <1>2, <1>3, <1>4

LEMMA IndexedType ==
  ASSUME TypeOK, StartContentLoader
  PROVE  indexed' \in Keys \cup {"empty", "own"}
<1>1. ContentAt0 \in Keys \cup {"empty", "own"}
  <2>1. CASE Live(Top(mounts[0]))
    <3>1. Top(mounts[0])[1] \in Letters
      BY <2>1 DEF Live, Dev
    <3>2. port[Top(mounts[0])[1]] \in Keys
      BY <2>1, <3>1 DEF Live, TypeOK
    <3> QED
      BY <3>2 DEF ContentAt0
  <2>2. CASE ~Live(Top(mounts[0]))
    BY <2>2 DEF ContentAt0
  <2> QED
    BY <2>1, <2>2
<1> QED
  BY <1>1 DEF StartContentLoader, TypeOK

\* Forgetting an entry cannot make two entries equal.
LEMMA ForgetOK ==
  ASSUME TypeOK, SlotsUnique, NEW i \in Slots, Forget(i)
  PROVE  /\ mnt' \in [Slots -> Letters \cup {None}]
         /\ loc' \in [Slots -> Slots \cup {OverSlot, None}]
         /\ SlotsUnique'
<1>1. mnt' \in [Slots -> Letters \cup {None}] /\ loc' \in [Slots -> Slots \cup {OverSlot, None}]
  BY DEF Forget, TypeOK
<1>2. ASSUME NEW a \in Slots, NEW b \in Slots
      PROVE  /\ (mnt'[a] = None) = (loc'[a] = None)
             /\ loc'[a] # None /\ loc'[a] = loc'[b] => a = b
  <2>1. CASE a = i
    BY <2>1 DEF Forget, TypeOK
  <2>2. CASE a # i
    <3>1. mnt'[a] = mnt[a] /\ loc'[a] = loc[a]
      BY <2>2 DEF Forget, TypeOK
    <3>2. loc'[b] = loc[b] \/ loc'[b] = None
      BY DEF Forget, TypeOK
    <3> QED
      BY <3>1, <3>2 DEF SlotsUnique
  <2> QED
    BY <2>1, <2>2
<1> QED
  BY <1>1, <1>2 DEF SlotsUnique

LEMMA RemovalsStep ==
  ASSUME IInv,
         \/ PollStart \/ SkipEmptyEntry \/ UnmountGone \/ ForgetGone
         \/ ForgetMoved \/ StillMounted \/ RemovalsDone
  PROVE  IInv'
<1> USE DEF IInv
<1>1. CASE PollStart
  <2>1. seen' \in [Letters -> {"none", "part", "whole"}]
    BY <1>1 DEF PollStart, Layout
  <2> QED
    BY <1>1, <2>1 DEF PollStart, kernel, panel, markers, TypeOK, SlotsUnique, ProgressOK
<1>2. CASE SkipEmptyEntry
  BY <1>2 DEF SkipEmptyEntry, kernel, panel, tables, markers, TypeOK, SlotsUnique, ProgressOK
<1>3. CASE UnmountGone
  <2>1. mounts' \in [MountPoints -> Seq(Dev)]
    BY <1>3, PopMounts DEF UnmountGone, TypeOK
  <2>2. cursor \in Slots
    BY <1>3, Constants DEF UnmountGone, TypeOK, Slots
  <2> QED
    BY <1>3, <2>1, <2>2 DEF UnmountGone, panel, tables, TypeOK, SlotsUnique, ProgressOK
<1>4. CASE ForgetGone
  <2>1. cursor \in Slots
    BY <1>4 DEF ForgetGone, ProgressOK
  <2>2. sentinel' \in BOOLEAN /\ ownIndexed' \in BOOLEAN
    BY <1>4 DEF ForgetGone, MarkerAfter
  <2>3. /\ mnt' \in [Slots -> Letters \cup {None}]
        /\ loc' \in [Slots -> Slots \cup {OverSlot, None}]
        /\ SlotsUnique'
    BY <1>4, <2>1, ForgetOK DEF ForgetGone
  <2> QED
    <3>1. wholeDisk' \subseteq Letters /\ cursor' \in Nat
      BY <1>4 DEF ForgetGone, TypeOK
    <3>2. TypeOK'
      BY <1>4, <2>2, <2>3, <3>1 DEF ForgetGone, kernel, panel, TypeOK
    <3>3. ProgressOK'
      BY <1>4 DEF ForgetGone, ProgressOK
    <3> QED
      BY <2>3, <3>2, <3>3
<1>5. CASE ForgetMoved
  <2>1. cursor \in Slots
    BY <1>5, Constants DEF ForgetMoved, TypeOK, Slots
  <2>2. sentinel' \in BOOLEAN
    BY <1>5 DEF ForgetMoved, MarkerAfter
  <2>3. /\ mnt' \in [Slots -> Letters \cup {None}]
        /\ loc' \in [Slots -> Slots \cup {OverSlot, None}]
        /\ SlotsUnique'
    BY <1>5, <2>1, ForgetOK DEF ForgetMoved
  <2> QED
    BY <1>5, <2>1, <2>2, <2>3 DEF ForgetMoved, kernel, panel, TypeOK, ProgressOK
<1>6. CASE StillMounted
  <2>1. indexed' \in Keys \cup {"empty", "own"}
    BY <1>6, IndexedType DEF StillMounted, TypeOK
  <2>2. sentinel' \in BOOLEAN
    BY <1>6 DEF StillMounted, TypeOK
  <2> QED
    BY <1>6, <2>1, <2>2 DEF StillMounted, kernel, panel, tables, TypeOK, SlotsUnique, ProgressOK
<1>7. CASE RemovalsDone
  BY <1>7 DEF RemovalsDone, kernel, panel, tables, markers, TypeOK, SlotsUnique, ProgressOK
<1> QED
  BY <1>1, <1>2, <1>3, <1>4, <1>5, <1>6, <1>7

\* A new entry for a mount point that no entry books keeps them all different.
LEMMA NewEntryOK ==
  ASSUME TypeOK, SlotsUnique, NEW i \in Slots, NEW l \in Letters,
         NEW s \in (Slots \cup {OverSlot}) \ UsedSlots,
         mnt' = [mnt EXCEPT ![i] = l], loc' = [loc EXCEPT ![i] = s]
  PROVE  /\ mnt' \in [Slots -> Letters \cup {None}]
         /\ loc' \in [Slots -> Slots \cup {OverSlot, None}]
         /\ SlotsUnique'
BY Constants DEF TypeOK, SlotsUnique, UsedSlots

LEMMA InsertionsStep ==
  ASSUME IInv, NEW s \in 0 .. NumSlots,
         \/ SkipLine \/ ChooseSlot(s) \/ ClearDeadMount \/ CheckFileSystem
         \/ MountSucceeds \/ MountFails \/ RegisterMount
         \/ UnmountPanelSlot \/ PanelSlotBusy
  PROVE  IInv'
<1> USE DEF IInv
<1> DEFINE Line == cursor < NumLetters => cursor \in Letters
<1>0. Line
  BY Constants DEF TypeOK, Letters
<1>1. CASE SkipLine
  BY <1>1 DEF SkipLine, kernel, panel, tables, markers, TypeOK, SlotsUnique, ProgressOK
<1>2. CASE ChooseSlot(s)
  <2>1. s \in Slots \cup {OverSlot}
    BY Constants DEF Slots, OverSlot
  <2>2. rebooting' \in BOOLEAN
    BY <1>2 DEF ChooseSlot
  <2> QED
    BY <1>0, <1>2, <2>1, <2>2 DEF ChooseSlot, LowestFreeSlot, panel, tables, markers,
       TypeOK, SlotsUnique, ProgressOK, UsedSlots
<1>3. CASE ClearDeadMount
  <2>1. mounts' \in [MountPoints -> Seq(Dev)]
    BY <1>3, PopMounts DEF ClearDeadMount, TypeOK
  <2> QED
    BY <1>3, <2>1 DEF ClearDeadMount, panel, tables, markers, TypeOK,
       SlotsUnique, ProgressOK, UsedSlots
<1>4. CASE CheckFileSystem
  BY <1>4 DEF CheckFileSystem, RunFsCheck, kernel, panel, tables, markers, TypeOK,
     SlotsUnique, ProgressOK, UsedSlots
<1>5. CASE MountSucceeds
  <2>1. cursor \in Letters /\ target \in (Slots \cup {OverSlot}) \ UsedSlots
    BY <1>5 DEF MountSucceeds, ProgressOK
  <2>2. SeenDev(cursor) \in Dev
    BY <2>1 DEF SeenDev, Dev
  <2>3. mounts' \in [MountPoints -> Seq(Dev)]
    BY <1>5, <2>2, AppendMounts DEF MountSucceeds, TypeOK
  <2>4. PICK i \in Slots : mnt' = [mnt EXCEPT ![i] = cursor] /\ loc' = [loc EXCEPT ![i] = target]
    BY <1>5 DEF MountSucceeds
  <2>5. /\ mnt' \in [Slots -> Letters \cup {None}]
        /\ loc' \in [Slots -> Slots \cup {OverSlot, None}]
        /\ SlotsUnique'
    BY <2>1, <2>4, NewEntryOK
  <2> QED
    BY <1>5, <2>1, <2>3, <2>5 DEF MountSucceeds, panel, markers, TypeOK, ProgressOK
<1>6. CASE MountFails
  <2>1. SeenDev(cursor) \in Dev
    BY <1>6 DEF MountFails, ProgressOK, SeenDev, Dev
  <2> QED
    BY <1>6, <2>1 DEF MountFails, kernel, panel, markers, TypeOK, SlotsUnique, ProgressOK
<1>7. CASE RegisterMount
  <2>1. cursor \in Letters /\ seenAt[cursor] \in Slots \ UsedSlots
    BY <1>0, <1>7 DEF RegisterMount
  <2>2. PICK i \in Slots : mnt' = [mnt EXCEPT ![i] = cursor]
                           /\ loc' = [loc EXCEPT ![i] = seenAt[cursor]]
    BY <1>7 DEF RegisterMount
  <2>3. /\ mnt' \in [Slots -> Letters \cup {None}]
        /\ loc' \in [Slots -> Slots \cup {OverSlot, None}]
        /\ SlotsUnique'
    BY <2>1, <2>2, NewEntryOK
  <2> QED
    BY <1>7, <2>1, <2>3 DEF RegisterMount, kernel, panel, markers, TypeOK, ProgressOK
<1>8. CASE UnmountPanelSlot \/ PanelSlotBusy
  <2>1. mounts' \in [MountPoints -> Seq(Dev)]
    BY <1>8, PopMounts DEF UnmountPanelSlot, PanelSlotBusy, kernel, TypeOK
  <2> QED
    BY <1>8, <2>1 DEF UnmountPanelSlot, PanelSlotBusy, kernel, panel, tables, markers,
       TypeOK, SlotsUnique, ProgressOK
<1> QED
  BY <1>1, <1>2, <1>3, <1>4, <1>5, <1>6, <1>7, <1>8

\* Closing up index h keeps all other entries, each at one index.
LEMMA CloseUpOK ==
  ASSUME TypeOK, SlotsUnique, NEW h \in Slots,
         mnt' = CloseUp(mnt, h), loc' = CloseUp(loc, h)
  PROVE  /\ mnt' \in [Slots -> Letters \cup {None}]
         /\ loc' \in [Slots -> Slots \cup {OverSlot, None}]
         /\ SlotsUnique'
<1>1. mnt' \in [Slots -> Letters \cup {None}] /\ loc' \in [Slots -> Slots \cup {OverSlot, None}]
  BY DEF CloseUp, TypeOK
<1>2. ASSUME NEW i \in Slots, NEW j \in Slots
      PROVE  /\ (mnt'[i] = None) = (loc'[i] = None)
             /\ loc'[i] # None /\ loc'[i] = loc'[j] => i = j
  BY <1>2, Constants DEF CloseUp, SlotsUnique, TypeOK
<1> QED
  BY <1>1, <1>2 DEF SlotsUnique

LEMMA CompactStep ==
  ASSUME IInv, CompactTable \/ CheckInternalContent
  PROVE  IInv'
<1> USE DEF IInv
<1>1. CASE CompactTable
  <2>1. /\ mnt' \in [Slots -> Letters \cup {None}]
        /\ loc' \in [Slots -> Slots \cup {OverSlot, None}]
        /\ SlotsUnique'
    <3>1. CASE UNCHANGED <<mnt, loc>>
      BY <3>1, TableUnchanged DEF TypeOK
    <3>2. CASE \E h \in Slots : mnt' = CloseUp(mnt, h) /\ loc' = CloseUp(loc, h)
      BY <3>2, CloseUpOK
    <3> QED
      BY <1>1, <3>1, <3>2 DEF CompactTable
  <2> QED
    BY <1>1, <2>1 DEF CompactTable, NoSnapshot, kernel, panel, markers, TypeOK, ProgressOK
<1>2. CASE CheckInternalContent
  <2>1. indexed' \in Keys \cup {"empty", "own"} /\ ownIndexed' \in BOOLEAN
    BY <1>2, IndexedType DEF CheckInternalContent, TypeOK
  <2> QED
    BY <1>2, <2>1 DEF CheckInternalContent, kernel, panel, tables, TypeOK,
       SlotsUnique, ProgressOK
<1> QED
  BY <1>1, <1>2

\* Every step of the system keeps IInv.
THEOREM IInvStep == IInv /\ [Next]_vars => IInv'
<1> SUFFICES ASSUME IInv, [Next]_vars PROVE IInv'
  OBVIOUS
<1>1. CASE World
  BY <1>1, WorldStep
<1>2. CASE Panel
  BY <1>2, PanelStep
<1>3. CASE Restart \/ Reboot
  BY <1>3, StartStep, Constants
<1>4. CASE Poll
  BY <1>4, StartStep, RemovalsStep, InsertionsStep, CompactStep, Constants DEF Poll
<1>5. CASE UNCHANGED vars
  BY <1>5 DEF vars, kernel, panel, tables, polling, markers, IInv, TypeOK,
     SlotsUnique, ProgressOK, UsedSlots
<1> QED
  BY <1>1, <1>2, <1>3, <1>4, <1>5 DEF Next

\* Every variable keeps its type.
THEOREM TypeCorrect == Spec => []TypeOK
<1>1. IInv => TypeOK
  BY DEF IInv
<1> QED
  BY TypeInit, IInvStep, <1>1, PTL DEF Spec

\* mountCheck's table never books one mount point twice, and mnt[] and loc[]
\* are filled and emptied together, whatever the world, the panel and restarts do.
THEOREM SlotsStayUnique == Spec => []SlotsUnique
<1>1. IInv => SlotsUnique
  BY DEF IInv
<1> QED
  BY TypeInit, IInvStep, <1>1, PTL DEF Spec

-----------------------------------------------------------------------------
\* A reboot that is ordered stands until the box has gone down, and as long as none
\* is, nothing books the mount point after the last.
LEMMA OrderStands ==
  ASSUME [Next]_vars, ~Reboot, ~rebooting' PROVE ~rebooting
<1>1. CASE World \/ Panel \/ Restart
  BY <1>1 DEF World, InsertKey, RemoveKey, Panel, PanelSetNoMount, PanelUnmount0, PanelMount11,
     PanelUnmount11, Restart, kernel
<1>2. CASE Poll
  BY <1>2 DEF Poll, ReleaseUsbSlot, SlotsReleased, PollStart, SkipEmptyEntry, UnmountGone,
     ForgetGone, ForgetMoved, StillMounted, RemovalsDone, SkipLine, PollDies, ChooseSlot,
     ClearDeadMount, CheckFileSystem, RunFsCheck, MountSucceeds, MountFails, RegisterMount,
     UnmountPanelSlot, PanelSlotBusy, CompactTable, CheckInternalContent, kernel
<1>3. CASE UNCHANGED vars
  BY <1>3 DEF vars, kernel
<1> QED
  BY <1>1, <1>2, <1>3 DEF Next

\* mountCheck orders it when it chooses the mount point after the last.
LEMMA OrderGiven ==
  ASSUME [Next]_vars, ~rebooting, rebooting' PROVE \E s \in 0 .. NumSlots : ChooseSlot(s)
<1>1. ~World /\ ~Panel /\ ~Restart /\ ~Reboot
  BY DEF World, InsertKey, RemoveKey, Panel, PanelSetNoMount, PanelUnmount0, PanelMount11,
     PanelUnmount11, Restart, Reboot, kernel
<1>2. ~UNCHANGED vars
  BY DEF vars, kernel
<1>3. Poll
  BY <1>1, <1>2 DEF Next
<1> QED
  BY <1>3 DEF Poll, ReleaseUsbSlot, SlotsReleased, PollStart, SkipEmptyEntry, UnmountGone,
     ForgetGone, ForgetMoved, StillMounted, RemovalsDone, SkipLine, PollDies,
     ClearDeadMount, CheckFileSystem, RunFsCheck, MountSucceeds, MountFails, RegisterMount,
     UnmountPanelSlot, PanelSlotBusy, CompactTable, CheckInternalContent, kernel

LEMMA Alive == ASSUME Usual PROVE ~PollDies
BY DEF Usual, InRange, PollDies, UsedSlots

LEMMA RangeInit == Init => InRange
BY Constants DEF Init, InRange, NoTable

LEMMA RangeStep == IInv /\ InRange /\ [Next]_vars => InRange'
<1> SUFFICES ASSUME IInv, InRange, [Next]_vars, ~rebooting'
             PROVE  target' # OverSlot /\ \A i \in Slots : loc'[i] # OverSlot
  BY DEF InRange
<1>1. CASE Restart \/ Reboot
  <2>1. StartOver
    BY <1>1 DEF Restart, Reboot
  <2> QED
    BY <2>1, Constants DEF StartOver, NoTable, NoSnapshot
<1>2. CASE ~Reboot /\ ~Restart
  <2>1. Usual
    BY <1>2, OrderStands DEF Usual
  <2>2. target # OverSlot /\ loc \in [Slots -> Slots \cup {None}]
    BY <2>1, UsualSlots DEF IInv, Usual, InRange
  <2>3. CASE UNCHANGED <<loc, target>>
    BY <2>1, <2>3 DEF Usual, InRange
  <2>4. CASE World \/ Panel \/ UNCHANGED vars
    <3>1. UNCHANGED <<loc, target>>
      BY <2>4 DEF World, InsertKey, RemoveKey, Panel, PanelSetNoMount, PanelUnmount0, PanelMount11,
         PanelUnmount11, tables, polling, vars
    <3> QED
      BY <2>3, <3>1
  <2>5. CASE PollStart \/ SkipEmptyEntry \/ UnmountGone \/ StillMounted \/ RemovalsDone \/ SkipLine
             \/ ClearDeadMount \/ CheckFileSystem \/ UnmountPanelSlot \/ PanelSlotBusy
             \/ CheckInternalContent \/ SlotsReleased \/ \E s \in Slots : ReleaseUsbSlot(s)
    <3>1. UNCHANGED <<loc, target>>
      BY <2>5 DEF PollStart, SkipEmptyEntry, UnmountGone, StillMounted, RemovalsDone, SkipLine,
         ClearDeadMount, CheckFileSystem, RunFsCheck, UnmountPanelSlot, PanelSlotBusy,
         CheckInternalContent, SlotsReleased, ReleaseUsbSlot, tables
    <3> QED
      BY <2>3, <3>1
  <2>6. CASE ForgetGone \/ ForgetMoved
    <3>1. target' = target /\ loc' = [loc EXCEPT ![cursor] = None]
      BY <2>6 DEF ForgetGone, ForgetMoved, Forget
    <3> QED
      BY <2>2, <3>1, Constants
  <2>7. ASSUME NEW s \in 0 .. NumSlots, ChooseSlot(s)
        PROVE  target' # OverSlot /\ \A i \in Slots : loc'[i] # OverSlot
    <3>1. target' = s /\ s # OverSlot /\ loc' = loc
      BY <2>7 DEF ChooseSlot, tables
    <3> QED
      BY <2>2, <3>1, Constants
  <2>8. CASE MountSucceeds
    <3>1. target' = None /\ target \in Slots
      BY <2>2, <2>8 DEF MountSucceeds, IInv, ProgressOK
    <3>2. PICK i \in Slots : loc' = [loc EXCEPT ![i] = target]
      BY <2>8 DEF MountSucceeds
    <3> QED
      BY <2>2, <3>1, <3>2, Constants
  <2>9. CASE MountFails
    BY <2>2, <2>9, Constants DEF MountFails
  <2>10. CASE RegisterMount
    <3>1. target' = target /\ seenAt[cursor] \in Slots
      BY <2>10 DEF RegisterMount
    <3>2. PICK i \in Slots : loc' = [loc EXCEPT ![i] = seenAt[cursor]]
      BY <2>10 DEF RegisterMount
    <3> QED
      BY <2>2, <3>1, <3>2, Constants
  <2>11. CASE CompactTable
    <3>1. target' = None
      BY <2>11 DEF CompactTable, NoSnapshot
    <3>2. ASSUME NEW h \in Slots, loc' = CloseUp(loc, h)
          PROVE  \A i \in Slots : loc'[i] # OverSlot
      BY <2>2, <3>2, Constants DEF CloseUp
    <3> QED
      BY <2>2, <2>11, <3>1, <3>2, Constants DEF CompactTable
  <2> QED
    BY <1>2, <2>1, <2>4, <2>5, <2>6, <2>7, <2>8, <2>9, <2>10, <2>11, Alive DEF Next, Poll
<1> QED
  BY <1>1, <1>2

-----------------------------------------------------------------------------
\* The marker of usb0.  A mount point that no entry books leaves a hole in the
\* table, so a new key never overwrites an entry, unless a reboot is ordered.
LEMMA HoleLeft ==
  ASSUME TypeOK, SlotsUnique, Usual, NEW s \in Slots \ UsedSlots
  PROVE  \E i \in Slots : mnt[i] = None
<1> SUFFICES ASSUME \A i \in Slots : mnt[i] # None
             PROVE  FALSE
  OBVIOUS
<1>1. \A i \in Slots : loc[i] \in Slots \ {s}
  BY UsualSlots DEF SlotsUnique, UsedSlots
<1>2. loc \in [Slots -> Slots \ {s}]
  BY <1>1 DEF TypeOK
<1>3. IsFiniteSet(Slots) /\ Cardinality(Slots) \in Nat
  <2>1. IsFiniteSet(0 .. NumSlots - 1)
    BY FS_Interval, Constants
  <2> QED
    BY <2>1, FS_CardinalityType DEF Slots
<1>4. IsFiniteSet(Slots \ {s}) /\ Cardinality(Slots \ {s}) = Cardinality(Slots) - 1
  BY <1>3, FS_RemoveElement
<1>5. Cardinality(Slots \ {s}) < Cardinality(Slots)
  BY <1>3, <1>4
<1>6. PICK x, y \in Slots : x # y /\ loc[x] = loc[y]
  BY <1>2, <1>3, <1>4, <1>5, FS_PigeonHole
<1> QED
  BY <1>1, <1>6, Constants DEF SlotsUnique

LEMMA NewIndexIsHole ==
  ASSUME TypeOK, SlotsUnique, Usual, NEW s \in Slots \ UsedSlots,
         NEW i \in Slots, IsNewIndex(i)
  PROVE  mnt[i] = None /\ loc[i] = None
<1>1. PICK h \in Slots : mnt[h] = None
  BY HoleLeft
<1>2. mnt[i] = None
  <2>1. CASE i = NumSlots - 1 /\ \A x \in 0 .. i - 1 : mnt[x] # None
    <3>1. h = i \/ h \in 0 .. i - 1
      BY <2>1, Constants DEF Slots
    <3> QED
      BY <1>1, <2>1, <3>1
  <2> QED
    BY <2>1 DEF IsNewIndex
<1> QED
  BY <1>2 DEF SlotsUnique

\* Without a restart the entry of usb0 goes only when its marker goes.
MarkerBooked == sentinel => \E i \in Slots : loc[i] = 0

LEMMA SentinelPoll ==
  ASSUME IInv, Usual, MarkerBooked, Poll
  PROVE  MarkerBooked'
<1> USE DEF IInv
<1>1. ASSUME NEW s \in Slots, ReleaseUsbSlot(s)
      PROVE  MarkerBooked'
  BY <1>1 DEF ReleaseUsbSlot, tables, MarkerBooked
<1>2. CASE SlotsReleased \/ PollStart \/ SkipEmptyEntry \/ UnmountGone \/ RemovalsDone \/ SkipLine
  BY <1>2 DEF SlotsReleased, PollStart, SkipEmptyEntry, UnmountGone, RemovalsDone, SkipLine,
     tables, markers, MarkerBooked
<1>3. ASSUME NEW s \in 0 .. NumSlots, ChooseSlot(s)
      PROVE  MarkerBooked'
  BY <1>3 DEF ChooseSlot, tables, markers, MarkerBooked
<1>4. CASE ForgetGone \/ ForgetMoved
  <2>1. /\ sentinel' = (sentinel /\ loc[cursor] # 0)
        /\ loc' = [loc EXCEPT ![cursor] = None]
    BY <1>4 DEF ForgetGone, ForgetMoved, MarkerAfter, Forget
  <2> QED
    BY <2>1 DEF MarkerBooked, TypeOK
<1>5. CASE StillMounted
  <2>1. cursor \in Slots
    BY <1>5, Constants DEF StillMounted, TypeOK, Slots
  <2>2. loc' = loc /\ (sentinel' => sentinel \/ loc[cursor] = 0)
    BY <1>5 DEF StillMounted, tables
  <2> QED
    BY <2>1, <2>2 DEF MarkerBooked
<1>6. ~PollDies
  BY Alive
<1>7. CASE ClearDeadMount \/ CheckFileSystem \/ MountFails \/ UnmountPanelSlot \/ PanelSlotBusy
  BY <1>7 DEF ClearDeadMount, CheckFileSystem, RunFsCheck, MountFails, UnmountPanelSlot, PanelSlotBusy,
     tables, markers, MarkerBooked
<1>8. CASE MountSucceeds
  <2>1. target \in Slots \ UsedSlots
    BY <1>8, UsualSlots, Constants DEF MountSucceeds, ProgressOK
  <2>2. PICK i \in Slots : IsNewIndex(i) /\ loc' = [loc EXCEPT ![i] = target]
    BY <1>8 DEF MountSucceeds
  <2>3. loc[i] = None /\ sentinel' = sentinel
    BY <1>8, <2>1, <2>2, NewIndexIsHole DEF MountSucceeds, markers
  <2> QED
    BY <2>2, <2>3, Constants DEF MarkerBooked, TypeOK
<1>9. CASE RegisterMount
  <2>1. PICK i \in Slots : mnt[i] = None /\ loc' = [loc EXCEPT ![i] = seenAt[cursor]]
    BY <1>9 DEF RegisterMount
  <2>2. loc[i] = None /\ sentinel' = sentinel
    BY <1>9, <2>1 DEF RegisterMount, SlotsUnique, markers
  <2> QED
    BY <2>1, <2>2, Constants DEF MarkerBooked, TypeOK
<1>10. CASE CompactTable
  <2>1. sentinel' = sentinel
    BY <1>10 DEF CompactTable, markers
  <2>2. ASSUME NEW h \in Slots, mnt[h] = None, loc' = CloseUp(loc, h)
        PROVE  MarkerBooked'
    <3> SUFFICES ASSUME sentinel PROVE \E i \in Slots : loc'[i] = 0
      BY <2>1 DEF MarkerBooked
    <3>1. PICK i \in Slots : loc[i] = 0
      BY DEF MarkerBooked
    <3>2. i # h
      BY <2>2, <3>1, Constants DEF SlotsUnique
    <3>3. CASE i < h
      BY <2>2, <3>1, <3>3 DEF CloseUp
    <3>4. CASE i > h
      <4>1. i - 1 \in Slots /\ ~(i - 1 < h) /\ (i - 1) + 1 = i
        BY <3>4, Constants DEF Slots
      <4> QED
        BY <2>2, <3>1, <4>1 DEF CloseUp
    <3> QED
      BY <3>2, <3>3, <3>4, Constants DEF Slots
  <2> QED
    BY <1>10, <2>1, <2>2 DEF CompactTable, MarkerBooked
<1>11. CASE CheckInternalContent
  BY <1>11 DEF CheckInternalContent, tables, MarkerBooked
<1> QED
  BY <1>1, <1>2, <1>3, <1>4, <1>5, <1>6, <1>7, <1>8, <1>9, <1>10, <1>11 DEF Poll

\* As long as the daemon is not restarted and no reboot is ordered, the marker
\* "usb0 is indexed" never outlives the table entry of usb0: the next key at usb0 is
\* always indexed (mountCheck removes the marker in both branches that forget an entry).
THEOREM SentinelStaysBooked == ~Restarts /\ Spec => []SentinelBooked
<1> SUFFICES ASSUME ~Restarts PROVE Spec => []SentinelBooked
  OBVIOUS
<1>1. Init => SentinelBooked
  BY DEF Init, SentinelBooked
<1>2. IInv /\ InRange /\ SentinelBooked /\ [Next]_vars => SentinelBooked'
  <2> SUFFICES ASSUME IInv, InRange, SentinelBooked, [Next]_vars, ~rebooting'
               PROVE  MarkerBooked'
    BY DEF SentinelBooked, MarkerBooked
  <2>1. CASE Reboot
    BY <2>1 DEF Reboot, MarkerBooked
  <2>2. CASE ~Reboot
    <3>1. Usual /\ MarkerBooked
      BY <2>2, OrderStands DEF Usual, SentinelBooked, MarkerBooked
    <3>2. CASE World \/ Panel
      BY <3>1, <3>2 DEF World, InsertKey, RemoveKey, Panel, PanelSetNoMount, PanelUnmount0,
         PanelMount11, PanelUnmount11, tables, markers, MarkerBooked
    <3>3. ~Restart
      BY DEF Restart
    <3>4. CASE Poll
      BY <3>1, <3>4, SentinelPoll
    <3>5. CASE UNCHANGED vars
      BY <3>1, <3>5 DEF vars, tables, markers, MarkerBooked
    <3> QED
      BY <2>2, <3>2, <3>3, <3>4, <3>5 DEF Next
  <2> QED
    BY <2>1, <2>2
<1> QED
  BY TypeInit, IInvStep, RangeInit, RangeStep, <1>1, <1>2, PTL DEF Spec

-----------------------------------------------------------------------------
\* What is mounted where.  Nothing is mounted on a stack of usb0..usb9 but by
\* mountCheck, on a mount point that no entry books: so if every key that is
\* still plugged in is booked where it is mounted, none is ever covered.  That
\* needs the whole poll: the snapshot's lines must agree with what is mounted,
\* and pass 1 must have left no entry that pass 2 makes again.

\* Where the daemon starts, either its umount commands work or nothing has been
\* mounted before.
ReleaseWorks == ~UmountMayFail \/ ~Restarts

Polling == pc \in {"removals", "gone", "insertions", "clearing", "mounting"}

\* A drive letter something is mounted on is not given to another key.
LettersKept ==
  \A m \in MountPoints, d \in Dev : In(d, mounts[m]) => Live(d) \/ port[d[1]] = NoKey

\* Below the top of a stack there are only keys that are gone.
OnlyTopLive ==
  \A s \in Slots, d \in Dev : In(d, Pop(mounts[s])) => ~Live(d)

LiveBooked ==
  pc # "start" =>
    \A s \in Slots, d \in Dev : In(d, mounts[s]) /\ Live(d) =>
      /\ UsbDeviceName(d[1]) = d
      /\ \E i \in Slots : mnt[i] = d[1] /\ loc[i] = s

\* whole_disk has no leftovers.
WholeBooked == \A l \in wholeDisk : \E i \in Slots : mnt[i] = l
WholeMounted ==
  \A i \in Slots : mnt[i] \in wholeDisk /\ ~(pc = "gone" /\ i = cursor)
    => Top(mounts[loc[i]]) = <<mnt[i], TRUE>>

StartClean ==
  pc = "start" =>
    /\ wholeDisk = {}
    /\ ~Restarts => \A s \in Slots : mounts[s] = <<>>

\* Where the snapshot shows a letter, if it is on the stack, or in the entry, of s.
SeenAtOK(l, s) == seenAt[l] # None /\ (seenAt[l] \in Slots => seenAt[l] = s)

SeenAgrees ==
  Polling => \A s \in Slots, d \in Dev :
    In(d, mounts[s]) /\ seen[d[1]] # "none" => SeenDev(d[1]) = d

SeenMounted ==
  pc \in {"removals", "gone"} => \A s \in Slots, d \in Dev : In(d, mounts[s]) =>
    /\ Live(d) => seen[d[1]] # "none"
    /\ seen[d[1]] # "none" => SeenAtOK(d[1], s)

WholeSeen ==
  Polling => \A l \in Letters : seen[l] = "whole" /\ seenAt[l] \in Slots =>
    l \in wholeDisk /\ \E i \in Slots : mnt[i] = l /\ loc[i] = seenAt[l]

\* Entries pass 1 has been through, and pass 2 has not yet come to.
PassedBy(i) ==
  \/ pc \in {"removals", "gone"} /\ i < cursor
  \/ pc \in {"insertions", "clearing", "mounting"} /\ cursor <= mnt[i]

PassOneDone ==
  \A i \in Slots : mnt[i] # None /\ PassedBy(i) /\ seen[mnt[i]] # "none"
    => SeenAtOK(mnt[i], loc[i])

GoneNotSeen == pc = "gone" => ~NameIn(UsbDeviceName(mnt[cursor]), seen)
ChosenUnmounted ==
  pc \in {"clearing", "mounting"} => seen[cursor] # "none" /\ seenAt[cursor] = None

SnapshotOK ==
  /\ SeenAgrees /\ SeenMounted /\ WholeSeen /\ PassOneDone /\ GoneNotSeen
  /\ ChosenUnmounted

KInv ==
  /\ LettersKept /\ OnlyTopLive /\ LiveBooked /\ WholeBooked /\ WholeMounted
  /\ StartClean /\ LettersUnique /\ SnapshotOK

-----------------------------------------------------------------------------
\* Stacks

LEMMA InPop ==
  ASSUME NEW d, NEW s \in Seq(Dev), In(d, Pop(s))
  PROVE  In(d, s)
BY DEF In, Pop

LEMMA InSplit ==
  ASSUME NEW d, NEW s \in Seq(Dev), In(d, s)
  PROVE  d = Top(s) \/ In(d, Pop(s))
<1>1. PICK i \in 1 .. Len(s) : s[i] = d
  BY DEF In
<1>2. CASE i = Len(s)
  BY <1>1, <1>2 DEF Top
<1>3. CASE i # Len(s)
  BY <1>1, <1>3 DEF In, Pop
<1> QED
  BY <1>2, <1>3

LEMMA TopIn ==
  ASSUME NEW s \in Seq(Dev), s # <<>>
  PROVE  In(Top(s), s) /\ Top(s) \in Dev
BY DEF In, Top

LEMMA NoDevNotDev == NoDev \notin Dev
BY Constants DEF NoDev, Dev

LEMMA LiveTopIn ==
  ASSUME NEW s \in Seq(Dev), Top(s) \in Dev
  PROVE  In(Top(s), s)
BY TopIn, NoDevNotDev DEF Top

LEMMA InAppend ==
  ASSUME NEW d, NEW s \in Seq(Dev), NEW e \in Dev
  PROVE  /\ In(d, Append(s, e)) => In(d, s) \/ d = e
         /\ Pop(Append(s, e)) = s
         /\ Top(Append(s, e)) = e
<1>1. In(d, Append(s, e)) => In(d, s) \/ d = e
  BY DEF In
<1>2. Top(Append(s, e)) = e
  BY DEF Top
<1>3. Pop(Append(s, e)) = s
  BY DEF Pop
<1> QED
  BY <1>1, <1>2, <1>3

LEMMA NotInEmpty == \A d : ~In(d, <<>>) /\ ~In(d, Pop(<<>>))
BY DEF In, Pop

LEMMA DevPair ==
  ASSUME NEW d \in Dev
  PROVE  d[1] \in Letters /\ d[2] \in BOOLEAN /\ d = <<d[1], d[2]>>
BY DEF Dev

LEMMA UsbName ==
  ASSUME NEW l, NEW d, UsbDeviceName(l) = d
  PROVE  (l \in wholeDisk) = d[2]
BY DEF UsbDeviceName

LEMMA UsbNameType ==
  ASSUME NEW l \in Letters
  PROVE  UsbDeviceName(l) \in Dev /\ UsbDeviceName(l)[1] = l
<1>1. ASSUME NEW b \in BOOLEAN PROVE <<l, b>> \in Dev
  BY DEF Dev
<1>2. (l \in wholeDisk) \in BOOLEAN
  OBVIOUS
<1>3. UsbDeviceName(l) \in Dev
  BY <1>1, <1>2, Zenon DEF UsbDeviceName
<1>4. UsbDeviceName(l)[1] = l
  BY DEF UsbDeviceName
<1> QED
  BY <1>3, <1>4

LEMMA UsbNameIs ==
  ASSUME NEW d \in Dev, NEW W, (d[1] \in W) = d[2]
  PROVE  <<d[1], d[1] \in W>> = d
<1>1. d = <<d[1], d[2]>>
  BY DevPair
<1> QED
  BY <1>1, Zenon

\* What an entry of the table is.
LEMMA Booked ==
  ASSUME TypeOK, SlotsUnique, Usual, NEW i \in Slots, mnt[i] # None
  PROVE  /\ mnt[i] \in Letters /\ mnt[i] \in Nat
         /\ loc[i] \in Slots /\ loc[i] \in MountPoints /\ loc[i] \in UsedSlots
         /\ \A j \in Slots : j # i => loc[j] # loc[i]
<1>1. mnt[i] \in Letters /\ mnt[i] \in Nat
  BY Constants DEF TypeOK
<1>2. loc[i] \in Slots /\ loc[i] # None
  BY UsualSlots DEF SlotsUnique
<1>3. \A j \in Slots : j # i => loc[j] # loc[i]
  BY <1>2 DEF SlotsUnique
<1> QED
  BY <1>1, <1>2, <1>3, Constants DEF UsedSlots

\* A device in the listing is alive if its letter was not given away, and the
\* snapshot of a letter names what it is now.
LEMMA NamesLive ==
  ASSUME TypeOK, NEW d \in Dev, Live(d) \/ port[d[1]] = NoKey
  PROVE  NodeExists(d) <=> Live(d)
BY DevPair DEF NodeExists, NameIn, Layout, Live, DevAt, TypeOK

\* No state of the stacks where a whole disk and a partition share a letter.
LEMMA OneDevAt ==
  ASSUME NEW d, NEW e, Live(d), Live(e) \/ port[e[1]] = NoKey, d[1] = e[1]
  PROVE  d = e
BY DEF Live

-----------------------------------------------------------------------------
\* Steps that only take things off the stacks of usb0..usb9, and change nothing
\* of the daemon's.
OnlyShrinks ==
  \A s \in Slots, d \in Dev :
    /\ In(d, mounts'[s]) => In(d, mounts[s])
    /\ In(d, Pop(mounts'[s])) => In(d, Pop(mounts[s]))
    /\ In(d, mounts[s]) /\ Live(d)' => Live(d)

DaemonSame == UNCHANGED <<mnt, loc, wholeDisk, pc, cursor, seen, seenAt>>

LEMMA PopShrinks ==
  ASSUME TypeOK, NEW m \in MountPoints, port' = port,
         mounts' \in {mounts, [mounts EXCEPT ![m] = Pop(@)]}
  PROVE  /\ OnlyShrinks
         /\ LettersKept => LettersKept'
         /\ \A n \in MountPoints \ {m} : mounts'[n] = mounts[n]
         /\ \A s \in Slots : mounts[s] = <<>> => mounts'[s] = <<>>
<1>1. ASSUME NEW n \in MountPoints
      PROVE  /\ mounts[n] \in Seq(Dev) /\ Pop(mounts[n]) \in Seq(Dev)
             /\ mounts'[n] = mounts[n] \/ mounts'[n] = Pop(mounts[n])
             /\ mounts[n] = <<>> => mounts'[n] = <<>>
             /\ n # m => mounts'[n] = mounts[n]
  <2>1. mounts[n] \in Seq(Dev) /\ Pop(mounts[n]) \in Seq(Dev)
    BY PopType DEF TypeOK
  <2>2. mounts'[n] = mounts[n] \/ mounts'[n] = Pop(mounts[n])
    BY DEF TypeOK
  <2>3. n # m => mounts'[n] = mounts[n]
    BY DEF TypeOK
  <2> QED
    BY <2>1, <2>2, <2>3 DEF Pop
<1>2. ASSUME NEW n \in MountPoints, NEW d \in Dev
      PROVE  /\ In(d, mounts'[n]) => In(d, mounts[n])
             /\ In(d, Pop(mounts'[n])) => In(d, Pop(mounts[n]))
  BY <1>1, InPop
<1>3. \A d : Live(d)' = Live(d)
  BY DEF Live, DevAt
<1>4. OnlyShrinks
  BY <1>2, <1>3, Constants DEF OnlyShrinks
<1>5. LettersKept => LettersKept'
  BY <1>2, <1>3 DEF LettersKept
<1> QED
  BY <1>1, <1>4, <1>5, Constants

LEMMA ShrinkTop ==
  ASSUME TypeOK, OnlyTopLive, OnlyShrinks
  PROVE  OnlyTopLive'
<1> SUFFICES ASSUME NEW s \in Slots, NEW d \in Dev, In(d, Pop(mounts'[s])), Live(d)'
             PROVE  FALSE
  BY DEF OnlyTopLive
<1>1. In(d, Pop(mounts[s]))
  BY DEF OnlyShrinks
<1>2. mounts[s] \in Seq(Dev)
  BY Constants DEF TypeOK
<1>3. Live(d)
  BY <1>1, <1>2, InPop DEF OnlyShrinks
<1> QED
  BY <1>1, <1>3 DEF OnlyTopLive

LEMMA ShrinkStep ==
  ASSUME TypeOK, KInv, DaemonSame, OnlyShrinks, LettersKept',
         \A i \in Slots : mnt[i] \in wholeDisk /\ ~(pc = "gone" /\ i = cursor)
           => Top(mounts'[loc[i]]) = Top(mounts[loc[i]]),
         \A s \in Slots : mounts[s] = <<>> => mounts'[s] = <<>>
  PROVE  KInv'
<1> USE DEF DaemonSame
<1>1. OnlyTopLive'
  BY ShrinkTop DEF KInv
<1>2. LiveBooked'
  BY DEF KInv, LiveBooked, OnlyShrinks, UsbDeviceName
<1>3. WholeBooked' /\ WholeMounted' /\ StartClean' /\ LettersUnique'
  BY DEF KInv, WholeBooked, WholeMounted, StartClean, LettersUnique
<1>4. SeenAgrees' /\ SeenMounted'
  BY DEF KInv, SnapshotOK, SeenAgrees, SeenMounted, Polling, OnlyShrinks, SeenDev, SeenAtOK
<1>5. WholeSeen' /\ PassOneDone' /\ GoneNotSeen' /\ ChosenUnmounted'
  BY DEF KInv, SnapshotOK, WholeSeen, PassOneDone, PassedBy, GoneNotSeen, ChosenUnmounted,
     Polling, SeenAtOK, UsbDeviceName, NameIn
<1> QED
  BY <1>1, <1>2, <1>3, <1>4, <1>5 DEF KInv, SnapshotOK

LEMMA KWorld == ASSUME TypeOK, KInv, World PROVE KInv'
<1>1. UNCHANGED mounts /\ DaemonSame
  BY DEF World, InsertKey, RemoveKey, tables, polling, DaemonSame
<1>2. ASSUME NEW m \in MountPoints, NEW d \in Dev, In(d, mounts[m])
      PROVE  /\ Live(d)' => Live(d)
             /\ Live(d)' \/ port'[d[1]] = NoKey
  <2>1. Live(d) \/ port[d[1]] = NoKey
    BY <1>2 DEF KInv, LettersKept
  <2>2. CASE \E k \in Keys, l \in Letters : InsertKey(k, l)
    <3>1. port'[d[1]] = port[d[1]]
      BY <2>2, <1>2, DevPair DEF InsertKey, TypeOK
    <3> QED
      BY <2>1, <3>1 DEF Live, DevAt
  <2>3. CASE \E l \in Letters : RemoveKey(l)
    <3>1. port'[d[1]] = port[d[1]] \/ port'[d[1]] = NoKey
      BY <2>3, DevPair DEF RemoveKey, TypeOK
    <3> QED
      BY <2>1, <3>1 DEF Live, DevAt
  <2> QED
    BY <2>2, <2>3 DEF World
<1>3. LettersKept'
  BY <1>1, <1>2 DEF LettersKept
<1>4. OnlyShrinks
  BY <1>1, <1>2, Constants DEF OnlyShrinks
<1> QED
  BY <1>1, <1>3, <1>4, ShrinkStep

LEMMA KPanel == ASSUME IInv, Usual, KInv, Panel PROVE KInv'
<1> USE DEF IInv
<1>1. DaemonSame /\ UNCHANGED port
  BY DEF Panel, PanelSetNoMount, PanelUnmount0, PanelMount11, PanelUnmount11,
         kernel, tables, polling, DaemonSame
<1>2. \A d : Live(d)' = Live(d)
  BY <1>1 DEF Live, DevAt
<1>3. \A i \in Slots : mnt[i] \in wholeDisk => loc[i] \in Slots
  BY Constants, Booked DEF TypeOK
<1>4. CASE PanelSetNoMount
  <2>1. UNCHANGED mounts
    BY <1>4 DEF PanelSetNoMount, kernel
  <2>2. OnlyShrinks /\ LettersKept'
    BY <1>1, <2>1, PopShrinks, Constants DEF KInv
  <2> QED
    BY <1>1, <2>1, <2>2, ShrinkStep
<1>5. CASE PanelUnmount0
  <2>1. mounts' = [mounts EXCEPT ![0] = Pop(@)] /\ Live(Top(mounts[0])) /\ ~Top(mounts[0])[2]
    BY <1>5 DEF PanelUnmount0
  <2>2. 0 \in MountPoints
    BY Constants
  <2>3. /\ OnlyShrinks /\ LettersKept'
        /\ \A n \in MountPoints \ {0} : mounts'[n] = mounts[n]
        /\ \A s \in Slots : mounts[s] = <<>> => mounts'[s] = <<>>
    BY <1>1, <2>1, <2>2, PopShrinks DEF KInv
  <2>4. ASSUME NEW i \in Slots, mnt[i] \in wholeDisk, ~(pc = "gone" /\ i = cursor)
        PROVE  Top(mounts'[loc[i]]) = Top(mounts[loc[i]])
    <3>1. Top(mounts[loc[i]]) = <<mnt[i], TRUE>>
      BY <2>4 DEF KInv, WholeMounted
    <3>2. loc[i] # 0
      <4> SUFFICES ASSUME loc[i] = 0 PROVE FALSE
        OBVIOUS
      <4>1. Top(mounts[0])[2] = TRUE
        BY <3>1
      <4> QED
        BY <2>1, <4>1
    <3> QED
      BY <1>3, <2>3, <2>4, <3>2, Constants
  <2> QED
    BY <1>1, <2>3, <2>4, ShrinkStep
<1>6. CASE PanelMount11 \/ PanelUnmount11
  <2>1. \A s \in Slots : mounts'[s] = mounts[s]
    BY <1>6, Constants DEF PanelMount11, PanelUnmount11, TypeOK
  <2>2. OnlyShrinks
    BY <1>2, <2>1 DEF OnlyShrinks
  <2>3. LettersKept'
    <3>1. CASE mounts' = mounts
      BY <1>1, <1>2, <3>1 DEF KInv, LettersKept
    <3>2. CASE PanelUnmount11
      <4>1. PanelSlot \in MountPoints
        BY DEF MountPoints
      <4> QED
        BY <1>1, <3>2, <4>1, PopShrinks DEF PanelUnmount11, KInv
    <3>3. CASE /\ Mountable(moving)
               /\ mounts' = [mounts EXCEPT ![PanelSlot] = Append(@, moving)]
      <4> SUFFICES ASSUME NEW m \in MountPoints, NEW d \in Dev, In(d, mounts'[m])
                   PROVE  Live(d) \/ port[d[1]] = NoKey
        BY <1>1, <1>2 DEF LettersKept
      <4>1. mounts[m] \in Seq(Dev) /\ moving \in Dev /\ Live(moving)
        BY <3>3 DEF TypeOK, Mountable, Live
      <4>2. In(d, mounts[m]) \/ d = moving
        <5>1. mounts'[m] = mounts[m] \/ mounts'[m] = Append(mounts[m], moving)
          BY <3>3 DEF TypeOK
        <5>2. In(d, Append(mounts[m], moving)) => In(d, mounts[m]) \/ d = moving
          BY <4>1, InAppend
        <5> QED
          BY <5>1, <5>2
      <4> QED
        BY <4>1, <4>2 DEF KInv, LettersKept
    <3> QED
      BY <1>6, <3>1, <3>2, <3>3 DEF PanelMount11
  <2> QED
    BY <1>1, <1>3, <2>1, <2>2, <2>3, ShrinkStep
<1> QED
  BY <1>4, <1>5, <1>6 DEF Panel

-----------------------------------------------------------------------------
\* The daemon starts: whatever is still mounted is released.
LEMMA KStart ==
  ASSUME ReleaseWorks, IInv, KInv, NEW s \in Slots,
         Restart \/ ReleaseUsbSlot(s) \/ SlotsReleased
  PROVE  KInv'
<1> USE DEF IInv
<1>1. port' = port /\ \A d : Live(d)' = Live(d)
  BY DEF Restart, ReleaseUsbSlot, SlotsReleased, kernel, Live, DevAt
<1>2. CASE Restart
  <2>1. /\ UNCHANGED mounts /\ pc' = "start" /\ wholeDisk' = {} /\ mnt' = NoTable
        /\ Restarts
    BY <1>2 DEF Restart, StartOver, kernel
  <2>2. LettersKept' /\ OnlyTopLive' /\ StartClean'
    BY <1>1, <2>1 DEF KInv, LettersKept, OnlyTopLive, StartClean
  <2>3. LiveBooked' /\ WholeBooked' /\ WholeMounted' /\ LettersUnique'
    BY <2>1 DEF LiveBooked, WholeBooked, WholeMounted, LettersUnique, NoTable
  <2>4. SnapshotOK'
    BY <2>1 DEF SnapshotOK, SeenAgrees, SeenMounted, WholeSeen, PassOneDone, PassedBy,
       GoneNotSeen, ChosenUnmounted, Polling
  <2> QED
    BY <2>2, <2>3, <2>4 DEF KInv
<1>3. CASE ReleaseUsbSlot(s)
  <2>1. /\ pc = "start" /\ mounts[s] # <<>> /\ wholeDisk' = {}
        /\ mounts' \in {mounts, [mounts EXCEPT ![s] = Pop(@)]}
        /\ UNCHANGED <<mnt, loc, wholeDisk, cursor>>
    BY <1>3 DEF ReleaseUsbSlot, KInv, StartClean, tables
  <2>2. Restarts /\ ~UmountMayFail
    BY <2>1 DEF ReleaseWorks, KInv, StartClean
  <2>3. pc' = "start"
    BY <1>3, <2>1, <2>2 DEF ReleaseUsbSlot
  <2>4. OnlyShrinks /\ LettersKept'
    BY <1>1, <2>1, PopShrinks, Constants DEF KInv
  <2>5. DaemonSame
    BY <1>3, <2>1, <2>3 DEF ReleaseUsbSlot, DaemonSame
  <2>6. \A t \in Slots : mounts[t] = <<>> => mounts'[t] = <<>>
    BY <1>1, <2>1, PopShrinks, Constants DEF KInv
  <2>7. wholeDisk = {}
    BY <2>1
  <2> QED
    BY <2>4, <2>5, <2>6, <2>7, ShrinkStep
<1>4. CASE SlotsReleased
  <2>1. /\ UNCHANGED <<mounts, mnt, loc, wholeDisk, seen, seenAt, cursor>>
        /\ pc' = "idle" /\ wholeDisk = {}
        /\ \A t \in Slots : mounts[t] = <<>>
    BY <1>4 DEF SlotsReleased, kernel, tables, KInv, StartClean
  <2>2. LettersKept' /\ OnlyTopLive' /\ StartClean' /\ LettersUnique'
    BY <1>1, <2>1 DEF KInv, LettersKept, OnlyTopLive, StartClean, LettersUnique
  <2>3. LiveBooked' /\ WholeBooked' /\ WholeMounted'
    BY <2>1, NotInEmpty DEF LiveBooked, WholeBooked, WholeMounted
  <2>4. SnapshotOK'
    BY <2>1 DEF SnapshotOK, SeenAgrees, SeenMounted, WholeSeen, PassOneDone, PassedBy,
       GoneNotSeen, ChosenUnmounted, Polling
  <2> QED
    BY <2>2, <2>3, <2>4 DEF KInv
<1> QED
  BY <1>2, <1>3, <1>4

\* The box has gone down: whatever was mounted, nothing is.
LEMMA KReboot == ASSUME Reboot PROVE KInv'
<1>1. /\ mounts' = [m \in MountPoints |-> <<>>] /\ pc' = "start"
      /\ wholeDisk' = {} /\ mnt' = NoTable
  BY DEF Reboot, StartOver
<1>2. \A m \in MountPoints : mounts'[m] = <<>>
  BY <1>1
<1>3. LettersKept' /\ OnlyTopLive' /\ StartClean'
  BY <1>1, <1>2, NotInEmpty, Constants DEF LettersKept, OnlyTopLive, StartClean
<1>4. LiveBooked' /\ WholeBooked' /\ WholeMounted' /\ LettersUnique'
  BY <1>1 DEF LiveBooked, WholeBooked, WholeMounted, LettersUnique, NoTable
<1>5. SnapshotOK'
  BY <1>1 DEF SnapshotOK, SeenAgrees, SeenMounted, WholeSeen, PassOneDone, PassedBy,
     GoneNotSeen, ChosenUnmounted, Polling
<1> QED
  BY <1>3, <1>4, <1>5 DEF KInv

-----------------------------------------------------------------------------
\* Pass 1.
LEMMA KPollStart == ASSUME IInv, Usual, KInv, PollStart PROVE KInv'
<1> USE DEF IInv
<1>1. /\ UNCHANGED <<port, mounts, mnt, loc, wholeDisk>>
      /\ pc = "idle" /\ pc' = "removals" /\ cursor' = 0
      /\ seen' = [l \in Letters |-> Layout(port[l])]
      /\ seenAt' \in [Letters -> MountPoints \cup {None}]
  BY DEF PollStart, kernel
<1>2. \A d : Live(d)' = Live(d)
  BY <1>1 DEF Live, DevAt
<1>3. /\ LettersKept' /\ OnlyTopLive' /\ LiveBooked' /\ WholeBooked' /\ WholeMounted'
      /\ StartClean' /\ LettersUnique'
  <2>1. LettersKept' /\ OnlyTopLive' /\ StartClean' /\ LettersUnique'
    BY <1>1, <1>2 DEF KInv, LettersKept, OnlyTopLive, StartClean, LettersUnique
  <2>2. LiveBooked'
    BY <1>1, <1>2 DEF KInv, LiveBooked, UsbDeviceName
  <2>3. WholeBooked' /\ WholeMounted'
    BY <1>1 DEF KInv, WholeBooked, WholeMounted
  <2> QED
    BY <2>1, <2>2, <2>3
<1>4. ASSUME NEW s \in Slots, NEW d \in Dev, In(d, mounts[s]), seen'[d[1]] # "none"
      PROVE  /\ Live(d) /\ DevAt(d[1]) = d
             /\ seen'[d[1]] = "whole" <=> d[2]
  <2>1. d[1] \in Letters /\ port[d[1]] # NoKey
    BY <1>1, <1>4, DevPair DEF Layout
  <2>2. Live(d)
    BY <1>4, <2>1, Constants DEF KInv, LettersKept
  <2>3. DevAt(d[1]) = d /\ d[2] = (port[d[1]] \in WholeKeys)
    BY <2>2, DevPair DEF Live, DevAt
  <2> QED
    BY <1>1, <2>1, <2>2, <2>3 DEF Layout
\* A key that is mounted twice would have two entries.
<1>5. ASSUME NEW s \in Slots, NEW t \in Slots, NEW d \in Dev,
             Live(d), In(d, mounts[s]), In(d, mounts[t])
      PROVE  s = t
  <2>1. PICK i \in Slots : mnt[i] = d[1] /\ loc[i] = s
    BY <1>1, <1>5 DEF KInv, LiveBooked
  <2>2. PICK j \in Slots : mnt[j] = d[1] /\ loc[j] = t
    BY <1>1, <1>5 DEF KInv, LiveBooked
  <2>3. i = j
    BY <2>1, <2>2, DevPair, Constants DEF KInv, LettersUnique
  <2> QED
    BY <2>1, <2>2, <2>3
\* The snapshot's mount point is one of those of the device.
<1>6. ASSUME NEW l \in Letters, seen'[l] # "none"
      PROVE  /\ seenAt'[l] # None => In(DevAt(l), mounts[seenAt'[l]])
             /\ \A m \in MountPoints : In(DevAt(l), mounts[m]) => seenAt'[l] # None
  <2> DEFINE at == {m \in MountPoints : port[l] # NoKey /\ In(DevAt(l), mounts[m])}
  <2>1. IF at = {} THEN seenAt'[l] = None ELSE seenAt'[l] \in at
    BY DEF PollStart
  <2>2. port[l] # NoKey
    BY <1>1, <1>6 DEF Layout
  <2>3. None \notin at
    BY Constants
  <2> QED
    BY <2>1, <2>2, <2>3
<1>7. SeenAgrees'
  <2> SUFFICES ASSUME NEW s \in Slots, NEW d \in Dev, In(d, mounts[s]), seen'[d[1]] # "none"
               PROVE  <<d[1], seen'[d[1]] = "whole">> = d
    BY <1>1 DEF SeenAgrees, SeenDev
  <2> QED
    BY <1>4, DevPair
<1>8. SeenMounted'
  <2> SUFFICES ASSUME NEW s \in Slots, NEW d \in Dev, In(d, mounts[s])
               PROVE  /\ Live(d) => seen'[d[1]] # "none"
                      /\ seen'[d[1]] # "none" => SeenAtOK(d[1], s)'
    BY <1>1, <1>2 DEF SeenMounted
  <2>1. Live(d) => seen'[d[1]] # "none"
    BY <1>1, DevPair DEF Live, Layout
  <2>2. ASSUME seen'[d[1]] # "none"
        PROVE  SeenAtOK(d[1], s)'
    <3>1. Live(d) /\ DevAt(d[1]) = d /\ d[1] \in Letters
      BY <1>4, <2>2, DevPair
    <3>2. seenAt'[d[1]] # None /\ In(d, mounts[seenAt'[d[1]]])
      BY <1>6, <2>2, <3>1, Constants
    <3>3. seenAt'[d[1]] \in Slots => seenAt'[d[1]] = s
      BY <1>5, <3>1, <3>2
    <3> QED
      BY <3>2, <3>3 DEF SeenAtOK
  <2> QED
    BY <2>1, <2>2
<1>9. WholeSeen'
  <2> SUFFICES ASSUME NEW l \in Letters, seen'[l] = "whole", seenAt'[l] \in Slots
               PROVE  l \in wholeDisk /\ \E i \in Slots : mnt[i] = l /\ loc[i] = seenAt'[l]
    BY <1>1 DEF WholeSeen
  <2>1. In(DevAt(l), mounts[seenAt'[l]])
    BY <1>6, Constants
  <2>2. DevAt(l) \in Dev /\ DevAt(l)[1] = l /\ Live(DevAt(l)) /\ DevAt(l)[2] = TRUE
    <3>1. port[l] # NoKey /\ port[l] \in WholeKeys
      BY <1>1 DEF Layout
    <3>2. DevAt(l) = <<l, TRUE>>
      BY <3>1 DEF DevAt
    <3>3. <<l, TRUE>> \in Dev /\ <<l, TRUE>>[1] = l /\ <<l, TRUE>>[2] = TRUE
      BY DEF Dev
    <3> QED
      BY <3>1, <3>2, <3>3 DEF Live
  <2>3. UsbDeviceName(l) = DevAt(l) /\ \E i \in Slots : mnt[i] = l /\ loc[i] = seenAt'[l]
    BY <1>1, <2>1, <2>2 DEF KInv, LiveBooked
  <2>4. l \in wholeDisk
    BY <2>2, <2>3, UsbName
  <2> QED
    BY <2>3, <2>4
<1>10. PassOneDone' /\ GoneNotSeen' /\ ChosenUnmounted'
  BY <1>1 DEF PassOneDone, PassedBy, GoneNotSeen, ChosenUnmounted, Slots
<1> QED
  BY <1>3, <1>7, <1>8, <1>9, <1>10 DEF KInv, SnapshotOK

\* Steps of mountCheck that leave the table alone.
LEMMA PlaceStep ==
  ASSUME TypeOK, KInv, UNCHANGED <<mnt, loc, wholeDisk, seen, seenAt>>,
         OnlyShrinks, LettersKept',
         \A i \in Slots : mnt[i] \in wholeDisk /\ ~(pc' = "gone" /\ i = cursor')
           => Top(mounts'[loc[i]]) = <<mnt[i], TRUE>>,
         pc # "start", pc' # "start", Polling' => Polling,
         pc' \in {"removals", "gone"} => pc \in {"removals", "gone"},
         PassOneDone', GoneNotSeen', ChosenUnmounted'
  PROVE  KInv'
<1>1. OnlyTopLive'
  BY ShrinkTop DEF KInv
<1>2. LiveBooked'
  BY DEF KInv, LiveBooked, OnlyShrinks, UsbDeviceName
<1>3. WholeBooked' /\ WholeMounted' /\ StartClean' /\ LettersUnique'
  BY DEF KInv, WholeBooked, WholeMounted, StartClean, LettersUnique
<1>4. SeenAgrees' /\ SeenMounted'
  BY DEF KInv, SnapshotOK, SeenAgrees, SeenMounted, OnlyShrinks, SeenDev, SeenAtOK
<1>5. WholeSeen'
  BY DEF KInv, SnapshotOK, WholeSeen
<1> QED
  BY <1>1, <1>2, <1>3, <1>4, <1>5 DEF KInv, SnapshotOK

LEMMA PassedLess ==
  ASSUME PassOneDone, UNCHANGED <<mnt, loc, seen, seenAt>>,
         \A i \in Slots : mnt[i] # None /\ PassedBy(i)' => PassedBy(i)
  PROVE  PassOneDone'
BY DEF PassOneDone, SeenAtOK

\* Nothing is mounted or unmounted either.
LEMMA QuietStep ==
  ASSUME TypeOK, KInv, UNCHANGED <<port, mounts, mnt, loc, wholeDisk, seen, seenAt>>,
         pc \notin {"start", "gone"}, pc' \notin {"start", "gone"}, Polling' => Polling,
         pc' = "removals" => pc = "removals",
         PassOneDone', ChosenUnmounted'
  PROVE  KInv'
<1>1. OnlyShrinks /\ LettersKept'
  BY PopShrinks, Constants DEF KInv
<1>2. GoneNotSeen'
  BY DEF GoneNotSeen
<1>3. \A i \in Slots : mnt[i] \in wholeDisk => Top(mounts[loc[i]]) = <<mnt[i], TRUE>>
  BY DEF KInv, WholeMounted
<1> QED
  BY <1>1, <1>2, <1>3, PlaceStep

LEMMA LaterLines ==
  ASSUME TypeOK, SlotsUnique, UNCHANGED mnt, pc \in {"insertions", "mounting"},
         pc' = "insertions", cursor' = cursor + 1
  PROVE  \A i \in Slots : mnt[i] # None /\ PassedBy(i)' => PassedBy(i)
<1> SUFFICES ASSUME NEW i \in Slots, mnt[i] # None, PassedBy(i)' PROVE PassedBy(i)
  OBVIOUS
<1>1. cursor \in Nat /\ mnt[i] \in Nat
  BY Constants DEF TypeOK
<1>2. cursor + 1 <= mnt[i]
  BY DEF PassedBy
<1> QED
  BY <1>1, <1>2 DEF PassedBy

LEMMA KQuiet ==
  ASSUME IInv, Usual, KInv, NEW s \in 0 .. NumSlots,
         \/ SkipEmptyEntry \/ StillMounted \/ RemovalsDone \/ SkipLine \/ ChooseSlot(s)
         \/ CheckFileSystem \/ MountFails \/ CheckInternalContent
  PROVE  KInv'
<1> USE DEF IInv
<1>0. UNCHANGED <<port, mounts, mnt, loc, wholeDisk, seen, seenAt>>
  BY DEF SkipEmptyEntry, StillMounted, RemovalsDone, SkipLine, ChooseSlot,
     CheckFileSystem, RunFsCheck, MountFails, CheckInternalContent, kernel, tables
<1>1. CASE SkipEmptyEntry
  <2>1. pc = "removals" /\ pc' = "removals" /\ cursor' = cursor + 1 /\ mnt[cursor] = None
    BY <1>1 DEF SkipEmptyEntry
  <2>2. \A i \in Slots : mnt[i] # None /\ PassedBy(i)' => PassedBy(i)
    BY <1>0, <2>1, Constants DEF PassedBy, TypeOK
  <2> QED
    BY <1>0, <2>1, <2>2, PassedLess, QuietStep DEF KInv, SnapshotOK, ChosenUnmounted, Polling
<1>2. CASE StillMounted
  <2>1. /\ pc = "removals" /\ pc' = "removals" /\ cursor' = cursor + 1 /\ mnt[cursor] # None
        /\ cursor \in Slots /\ Top(mounts[loc[cursor]]) = UsbDeviceName(mnt[cursor])
    BY <1>2, Constants DEF StillMounted, TypeOK, Slots
  <2>2. ASSUME seen[mnt[cursor]] # "none"
        PROVE  SeenAtOK(mnt[cursor], loc[cursor])
    <3> DEFINE d == UsbDeviceName(mnt[cursor])
    <3>1. mnt[cursor] \in Letters /\ loc[cursor] \in Slots
      BY <2>1, Booked
    <3>2. d \in Dev /\ d[1] = mnt[cursor]
      BY <3>1, UsbNameType
    <3>3. In(d, mounts[loc[cursor]])
      <4>1. mounts[loc[cursor]] \in Seq(Dev) /\ Top(mounts[loc[cursor]]) = d
        BY <2>1, <3>1, Constants DEF TypeOK
      <4> QED
        BY <3>2, <4>1, LiveTopIn
    <3> QED
      BY <2>1, <2>2, <3>1, <3>2, <3>3 DEF KInv, SnapshotOK, SeenMounted
  <2>3. PassOneDone'
    <3> SUFFICES ASSUME NEW i \in Slots, mnt[i] # None, PassedBy(i)', seen[mnt[i]] # "none"
                 PROVE  SeenAtOK(mnt[i], loc[i])
      BY <1>0 DEF PassOneDone, SeenAtOK
    <3>1. i = cursor \/ PassedBy(i)
      BY <2>1, Constants DEF PassedBy, TypeOK
    <3> QED
      BY <2>2, <3>1 DEF KInv, SnapshotOK, PassOneDone
  <2> QED
    BY <1>0, <2>1, <2>3, QuietStep DEF ChosenUnmounted, Polling
<1>3. CASE RemovalsDone
  <2>1. pc = "removals" /\ cursor = NumSlots /\ pc' = "insertions" /\ cursor' = 0
    BY <1>3 DEF RemovalsDone
  <2>2. \A i \in Slots : PassedBy(i)
    BY <2>1, Constants DEF PassedBy, Slots
  <2> QED
    BY <1>0, <2>1, <2>2, PassedLess, QuietStep DEF KInv, SnapshotOK, ChosenUnmounted, Polling
<1>4. CASE SkipLine \/ MountFails
  <2>1. /\ pc \in {"insertions", "mounting"} /\ pc' = "insertions" /\ cursor' = cursor + 1
    BY <1>4 DEF SkipLine, MountFails
  <2>2. \A i \in Slots : mnt[i] # None /\ PassedBy(i)' => PassedBy(i)
    BY <1>0, <2>1, LaterLines
  <2> QED
    BY <1>0, <2>1, <2>2, PassedLess, QuietStep DEF KInv, SnapshotOK, ChosenUnmounted, Polling
<1>5. CASE ChooseSlot(s)
  <2>1. /\ pc = "insertions" /\ pc' = "clearing" /\ cursor' = cursor
        /\ seen[cursor] # "none" /\ seenAt[cursor] = None
    BY <1>5 DEF ChooseSlot, NewKeySeen
  <2>2. \A i \in Slots : mnt[i] # None /\ PassedBy(i)' => PassedBy(i)
    BY <1>0, <2>1 DEF PassedBy
  <2> QED
    BY <1>0, <2>1, <2>2, PassedLess, QuietStep DEF KInv, SnapshotOK, ChosenUnmounted, Polling
<1>6. CASE CheckFileSystem
  <2>1. pc = "clearing" /\ pc' = "mounting" /\ cursor' = cursor
    BY <1>6 DEF CheckFileSystem, RunFsCheck
  <2>2. \A i \in Slots : mnt[i] # None /\ PassedBy(i)' => PassedBy(i)
    BY <1>0, <2>1 DEF PassedBy
  <2> QED
    BY <1>0, <2>1, <2>2, PassedLess, QuietStep DEF KInv, SnapshotOK, ChosenUnmounted, Polling
<1>7. CASE CheckInternalContent
  <2>1. pc = "own" /\ pc' = "idle"
    BY <1>7 DEF CheckInternalContent
  <2> QED
    BY <1>0, <2>1, QuietStep DEF PassOneDone, PassedBy, ChosenUnmounted, Polling
<1> QED
  BY <1>1, <1>2, <1>3, <1>4, <1>5, <1>6, <1>7

\* Of the keys whose device is not in the snapshot none is plugged in and mounted.
LEMMA GoneIsDead ==
  ASSUME IInv, Usual, KInv, pc \in {"removals", "gone"}, NEW i \in Slots, mnt[i] # None,
         ~NameIn(UsbDeviceName(mnt[i]), seen),
         NEW d \in Dev, In(d, mounts[loc[i]]), d[1] = mnt[i]
  PROVE  ~Live(d)
<1> SUFFICES ASSUME Live(d) PROVE FALSE
  OBVIOUS
<1>1. loc[i] \in Slots
  BY Booked DEF IInv
<1>2. UsbDeviceName(mnt[i]) = d
  BY <1>1 DEF KInv, LiveBooked
<1>3. seen[d[1]] # "none" /\ SeenDev(d[1]) = d
  BY <1>1 DEF KInv, SnapshotOK, SeenMounted, SeenAgrees, Polling
<1>4. d[2] \/ seen[d[1]] = "part"
  BY <1>3, DevPair DEF SeenDev, IInv, TypeOK
<1> QED
  BY <1>2, <1>3, <1>4 DEF NameIn

LEMMA KUnmount ==
  ASSUME IInv, Usual, KInv, UnmountGone \/ ClearDeadMount \/ UnmountPanelSlot \/ PanelSlotBusy
  PROVE  KInv'
<1> USE DEF IInv
<1>0. UNCHANGED <<port, mnt, loc, wholeDisk, seen, seenAt>>
  BY DEF UnmountGone, ClearDeadMount, UnmountPanelSlot, PanelSlotBusy, kernel, tables
<1>1. CASE UnmountGone
  <2>1. /\ pc = "removals" /\ pc' = "gone" /\ cursor' = cursor
        /\ cursor \in Slots /\ mnt[cursor] # None
        /\ ~NameIn(UsbDeviceName(mnt[cursor]), seen)
        /\ mounts' \in {mounts, [mounts EXCEPT ![loc[cursor]] = Pop(@)]}
    BY <1>1, Constants DEF UnmountGone, TypeOK, Slots
  <2>2. loc[cursor] \in Slots
    BY <2>1, Booked
  <2>3. /\ OnlyShrinks /\ LettersKept'
        /\ \A n \in MountPoints \ {loc[cursor]} : mounts'[n] = mounts[n]
    BY <1>0, <2>1, <2>2, PopShrinks, Constants DEF KInv
  <2>4. ASSUME NEW i \in Slots, mnt[i] \in wholeDisk, i # cursor
        PROVE  Top(mounts'[loc[i]]) = <<mnt[i], TRUE>>
    <3>1. loc[i] \in Slots \ {loc[cursor]}
      <4>1. mnt[i] # None
        BY <2>4, Constants DEF TypeOK
      <4> QED
        BY <2>1, <2>4, <4>1, Booked
    <3>2. mounts'[loc[i]] = mounts[loc[i]]
      BY <2>3, <3>1, Constants
    <3> QED
      BY <2>1, <2>4, <3>2 DEF KInv, WholeMounted
  <2>5. PassOneDone'
    BY <1>0, <2>1, PassedLess DEF KInv, SnapshotOK, PassedBy
  <2>6. GoneNotSeen' /\ ChosenUnmounted'
    BY <1>0, <2>1 DEF GoneNotSeen, ChosenUnmounted, UsbDeviceName, NameIn
  <2> QED
    BY <1>0, <2>1, <2>3, <2>4, <2>5, <2>6, PlaceStep DEF Polling
<1>2. CASE ClearDeadMount
  <2>1. /\ pc = "clearing" /\ pc' \in {"clearing", "mounting"} /\ cursor' = cursor
        /\ mounts' \in {mounts, [mounts EXCEPT ![target] = Pop(@)]}
        /\ target \in Slots \ UsedSlots
    BY <1>2, UsualSlots, Constants DEF ClearDeadMount, ProgressOK
  <2>2. /\ OnlyShrinks /\ LettersKept'
        /\ \A n \in MountPoints \ {target} : mounts'[n] = mounts[n]
    BY <1>0, <2>1, PopShrinks, Constants DEF KInv
  <2>3. ASSUME NEW i \in Slots, mnt[i] \in wholeDisk
        PROVE  Top(mounts'[loc[i]]) = <<mnt[i], TRUE>>
    <3>1. loc[i] \in Slots \ {target}
      <4>1. mnt[i] # None
        BY <2>3, Constants DEF TypeOK
      <4> QED
        BY <2>1, <2>3, <4>1, Booked
    <3>2. mounts'[loc[i]] = mounts[loc[i]]
      BY <2>2, <3>1, Constants
    <3> QED
      BY <2>1, <2>3, <3>2 DEF KInv, WholeMounted
  <2>4. PassOneDone'
    BY <1>0, <2>1, PassedLess DEF KInv, SnapshotOK, PassedBy
  <2>5. GoneNotSeen' /\ ChosenUnmounted'
    BY <1>0, <2>1 DEF KInv, SnapshotOK, GoneNotSeen, ChosenUnmounted
  <2> QED
    BY <1>0, <2>1, <2>2, <2>3, <2>4, <2>5, PlaceStep DEF Polling
<1>3. CASE UnmountPanelSlot \/ PanelSlotBusy
  <2>1. /\ pc = "insertions" /\ pc' = "insertions" /\ cursor' = cursor + 1
        /\ mounts' \in {mounts, [mounts EXCEPT ![PanelSlot] = Pop(@)]}
    BY <1>3 DEF UnmountPanelSlot, PanelSlotBusy, kernel
  <2>2. /\ OnlyShrinks /\ LettersKept'
        /\ \A n \in MountPoints \ {PanelSlot} : mounts'[n] = mounts[n]
    BY <1>0, <2>1, PopShrinks DEF KInv, MountPoints
  <2>3. ASSUME NEW i \in Slots, mnt[i] \in wholeDisk
        PROVE  Top(mounts'[loc[i]]) = <<mnt[i], TRUE>>
    <3>1. loc[i] \in Slots
      <4>1. mnt[i] # None
        BY <2>3, Constants DEF TypeOK
      <4> QED
        BY <4>1, Booked
    <3>2. mounts'[loc[i]] = mounts[loc[i]]
      BY <2>2, <3>1, Constants
    <3> QED
      BY <2>1, <2>3, <3>2 DEF KInv, WholeMounted
  <2>4. PassOneDone'
    BY <1>0, <2>1, LaterLines, PassedLess DEF KInv, SnapshotOK
  <2>5. GoneNotSeen' /\ ChosenUnmounted'
    BY <1>0, <2>1 DEF GoneNotSeen, ChosenUnmounted
  <2> QED
    BY <1>0, <2>1, <2>2, <2>3, <2>4, <2>5, PlaceStep DEF Polling
<1> QED
  BY <1>1, <1>2, <1>3

LEMMA KForget ==
  ASSUME IInv, Usual, KInv, ForgetGone \/ ForgetMoved
  PROVE  KInv'
<1> USE DEF IInv
<1> DEFINE l == mnt[cursor]
           s == loc[cursor]
<1>1. /\ UNCHANGED <<port, mounts, seen, seenAt>>
      /\ pc \in {"removals", "gone"} /\ pc' = "removals" /\ cursor' = cursor + 1
      /\ cursor \in Slots /\ mnt[cursor] # None
      /\ mnt' = [mnt EXCEPT ![cursor] = None] /\ loc' = [loc EXCEPT ![cursor] = None]
      /\ wholeDisk' \subseteq wholeDisk /\ wholeDisk \ {l} \subseteq wholeDisk'
  BY Constants DEF ForgetGone, ForgetMoved, kernel, Forget, ProgressOK, TypeOK, Slots
<1>2. l \in Letters /\ s \in Slots /\ s \in MountPoints
  BY <1>1, Booked
<1>3. \A d : Live(d)' = Live(d)
  BY <1>1 DEF Live, DevAt
\* The key that is forgotten is not both plugged in and mounted there ...
<1>4. ASSUME NEW d \in Dev, In(d, mounts[s]), d[1] = l
      PROVE  ~Live(d)
  <2>1. CASE ForgetGone
    <3>1. ~NameIn(UsbDeviceName(l), seen)
      BY <2>1 DEF ForgetGone, KInv, SnapshotOK, GoneNotSeen
    <3> QED
      BY <1>1, <1>4, <3>1, GoneIsDead
  <2>2. CASE ForgetMoved
    <3> SUFFICES ASSUME Live(d) PROVE FALSE
      OBVIOUS
    <3>1. UsbDeviceName(l) = d
      BY <1>1, <1>2, <1>4 DEF KInv, LiveBooked
    <3>2. d # Top(mounts[s]) /\ mounts[s] \in Seq(Dev)
      BY <1>2, <2>2, <3>1 DEF ForgetMoved, TypeOK
    <3>3. In(d, Pop(mounts[s]))
      BY <1>4, <3>2, InSplit
    <3> QED
      BY <1>2, <3>3 DEF KInv, OnlyTopLive
  <2> QED
    BY <2>1, <2>2
\* ... nor anywhere else.
<1>5. ASSUME NEW t \in Slots, NEW d \in Dev, In(d, mounts[t]), Live(d)
      PROVE  d[1] # l /\ \E i \in Slots \ {cursor} : mnt[i] = d[1] /\ loc[i] = t
  <2>1. PICK i \in Slots : mnt[i] = d[1] /\ loc[i] = t
    BY <1>1, <1>5 DEF KInv, LiveBooked
  <2>2. i # cursor
    BY <1>4, <1>5, <2>1
  <2>3. d[1] # l
    BY <1>1, <2>1, <2>2 DEF KInv, LettersUnique
  <2> QED
    BY <2>1, <2>2, <2>3
<1>6. l \notin wholeDisk'
  <2>1. CASE ForgetGone
    BY <2>1 DEF ForgetGone
  <2>2. CASE ForgetMoved
    <3> SUFFICES ASSUME l \in wholeDisk PROVE FALSE
      BY <1>1
    <3>1. Top(mounts[s]) = <<l, TRUE>>
      BY <1>1, <2>2 DEF KInv, WholeMounted, ForgetMoved
    <3>2. UsbDeviceName(l) = <<l, TRUE>>
      BY DEF UsbDeviceName
    <3> QED
      BY <2>2, <3>1, <3>2 DEF ForgetMoved
  <2> QED
    BY <2>1, <2>2
<1>7. wholeDisk' = wholeDisk \ {l}
  BY <1>1, <1>6
<1>8. \A i \in Slots \ {cursor} : mnt'[i] = mnt[i] /\ loc'[i] = loc[i]
  BY <1>1 DEF TypeOK
<1>9. mnt'[cursor] = None /\ loc'[cursor] = None
  BY <1>1 DEF TypeOK
<1>10. LettersKept' /\ OnlyTopLive' /\ StartClean'
  BY <1>1, <1>3 DEF KInv, LettersKept, OnlyTopLive, StartClean
<1>11. LiveBooked'
  <2> SUFFICES ASSUME NEW t \in Slots, NEW d \in Dev, In(d, mounts[t]), Live(d)
               PROVE  /\ UsbDeviceName(d[1])' = d
                      /\ \E i \in Slots : mnt'[i] = d[1] /\ loc'[i] = t
    BY <1>1, <1>3 DEF LiveBooked
  <2>1. d[1] # l /\ \E i \in Slots \ {cursor} : mnt[i] = d[1] /\ loc[i] = t
    BY <1>5
  <2>2. UsbDeviceName(d[1])' = UsbDeviceName(d[1])
    BY <1>7, <2>1 DEF UsbDeviceName
  <2> QED
    BY <1>1, <1>8, <2>1, <2>2 DEF KInv, LiveBooked
<1>12. WholeBooked'
  BY <1>7, <1>8 DEF KInv, WholeBooked
<1>13. WholeMounted'
  <2> SUFFICES ASSUME NEW i \in Slots, mnt'[i] \in wholeDisk'
               PROVE  Top(mounts'[loc'[i]]) = <<mnt'[i], TRUE>>
    BY <1>1 DEF WholeMounted
  <2>1. wholeDisk \subseteq Letters
    BY DEF TypeOK
  <2>2. i # cursor
    BY <1>7, <1>9, <2>1, Constants
  <2> QED
    BY <1>1, <1>7, <1>8, <2>2 DEF KInv, WholeMounted
<1>14. LettersUnique'
  BY <1>8, <1>9 DEF KInv, LettersUnique
<1>15. SeenAgrees' /\ SeenMounted'
  BY <1>1, <1>3 DEF KInv, SnapshotOK, SeenAgrees, SeenMounted, Polling, SeenDev, SeenAtOK
<1>16. WholeSeen'
  <2> SUFFICES ASSUME NEW x \in Letters, seen[x] = "whole", seenAt[x] \in Slots
               PROVE  x \in wholeDisk' /\ \E i \in Slots : mnt'[i] = x /\ loc'[i] = seenAt[x]
    BY <1>1 DEF WholeSeen
  <2>1. x \in wholeDisk /\ \E i \in Slots : mnt[i] = x /\ loc[i] = seenAt[x]
    BY <1>1 DEF KInv, SnapshotOK, WholeSeen, Polling
  <2>2. x # l
    <3>1. CASE ForgetGone
      <4>1. ~NameIn(UsbDeviceName(l), seen)
        BY <3>1 DEF ForgetGone, KInv, SnapshotOK, GoneNotSeen
      <4>2. x = l => UsbDeviceName(l) = <<x, TRUE>>
        BY <2>1 DEF UsbDeviceName
      <4>3. NameIn(<<x, TRUE>>, seen)
        BY DEF NameIn
      <4> QED
        BY <4>1, <4>2, <4>3
    <3>2. CASE ForgetMoved
      BY <1>6, <2>1, <3>2 DEF ForgetMoved
    <3> QED
      BY <3>1, <3>2
  <2> QED
    BY <1>7, <1>8, <2>1, <2>2
<1>17. PassOneDone'
  <2> SUFFICES ASSUME NEW i \in Slots, mnt'[i] # None, PassedBy(i)', seen[mnt'[i]] # "none"
               PROVE  SeenAtOK(mnt'[i], loc'[i])
    BY <1>1 DEF PassOneDone, SeenAtOK
  <2>1. i # cursor /\ i < cursor + 1
    BY <1>1, <1>9 DEF PassedBy
  <2>2. PassedBy(i)
    BY <1>1, <2>1, Constants DEF PassedBy
  <2> QED
    BY <1>8, <2>1, <2>2 DEF KInv, SnapshotOK, PassOneDone
<1>18. GoneNotSeen' /\ ChosenUnmounted'
  BY <1>1 DEF GoneNotSeen, ChosenUnmounted
<1> QED
  BY <1>10, <1>11, <1>12, <1>13, <1>14, <1>15, <1>16, <1>17, <1>18 DEF KInv, SnapshotOK

-----------------------------------------------------------------------------
\* Pass 2 makes entries for letters that have none.
LEMMA NoEntryYet ==
  ASSUME IInv, Usual, KInv, pc \in {"insertions", "mounting"}, cursor \in Letters,
         seen[cursor] # "none",
         \/ seenAt[cursor] = None
         \/ seenAt[cursor] \in Slots \ UsedSlots
  PROVE  /\ \A i \in Slots : mnt[i] # cursor
         /\ cursor \notin wholeDisk
         /\ \A s \in Slots, d \in Dev : In(d, mounts[s]) /\ Live(d) => d[1] # cursor
<1> USE DEF IInv
<1>1. ASSUME NEW i \in Slots, mnt[i] = cursor
      PROVE  FALSE
  <2>1. mnt[i] # None /\ cursor \in Nat /\ PassedBy(i)
    BY <1>1, Constants DEF PassedBy
  <2>2. SeenAtOK(cursor, loc[i])
    BY <1>1, <2>1 DEF KInv, SnapshotOK, PassOneDone
  <2>3. loc[i] \in UsedSlots
    BY <2>1, Booked
  <2> QED
    BY <2>2, <2>3 DEF SeenAtOK
<1>2. cursor \notin wholeDisk
  BY <1>1 DEF KInv, WholeBooked
<1>3. \A s \in Slots, d \in Dev : In(d, mounts[s]) /\ Live(d) => d[1] # cursor
  BY <1>1 DEF KInv, LiveBooked
<1> QED
  BY <1>1, <1>2, <1>3

LEMMA KMount == ASSUME IInv, Usual, KInv, MountSucceeds PROVE KInv'
<1> USE DEF IInv
<1> DEFINE d0 == SeenDev(cursor)
<1>1. /\ UNCHANGED <<port, seen, seenAt>>
      /\ pc = "mounting" /\ pc' = "insertions" /\ cursor' = cursor + 1
      /\ mounts' = [mounts EXCEPT ![target] = Append(@, d0)]
      /\ wholeDisk' = IF seen[cursor] = "whole" THEN wholeDisk \cup {cursor} ELSE wholeDisk
      /\ Mountable(d0)
  BY DEF MountSucceeds
<1>2. /\ cursor \in Letters /\ cursor \in Nat
      /\ target \in Slots \ UsedSlots /\ target \in MountPoints
      /\ seen[cursor] # "none" /\ seenAt[cursor] = None
  <2>1. target \in Slots \ UsedSlots
    BY <1>1, UsualSlots, Constants DEF ProgressOK
  <2> QED
    BY <1>1, <2>1, Constants DEF ProgressOK, KInv, SnapshotOK, ChosenUnmounted
<1>3. PICK n \in Slots : /\ IsNewIndex(n)
                         /\ mnt' = [mnt EXCEPT ![n] = cursor]
                         /\ loc' = [loc EXCEPT ![n] = target]
  BY DEF MountSucceeds
<1>4. mnt[n] = None /\ loc[n] = None
  BY <1>2, <1>3, NewIndexIsHole
<1>5. /\ \A i \in Slots \ {n} : mnt'[i] = mnt[i] /\ loc'[i] = loc[i]
      /\ mnt'[n] = cursor /\ loc'[n] = target
  BY <1>3 DEF TypeOK
<1>6. /\ \A i \in Slots : mnt[i] # cursor
      /\ cursor \notin wholeDisk
      /\ \A s \in Slots, d \in Dev : In(d, mounts[s]) /\ Live(d) => d[1] # cursor
  BY <1>1, <1>2, NoEntryYet
<1>7. d0 \in Dev /\ d0[1] = cursor /\ Live(d0) /\ d0[2] = (seen[cursor] = "whole")
  BY <1>1, <1>2 DEF Mountable, Live, SeenDev
<1>8. \A d : Live(d)' = Live(d)
  BY <1>1 DEF Live, DevAt
<1>9. /\ mounts[target] \in Seq(Dev)
      /\ mounts'[target] = Append(mounts[target], d0)
      /\ \A m \in MountPoints \ {target} : mounts'[m] = mounts[m]
  BY <1>1, <1>2 DEF TypeOK
<1>10. /\ \A d : In(d, mounts'[target]) => In(d, mounts[target]) \/ d = d0
       /\ Pop(mounts'[target]) = mounts[target]
       /\ Top(mounts'[target]) = d0
  BY <1>7, <1>9, InAppend
\* Nothing that is plugged in gets covered.
<1>11. \A d \in Dev : In(d, mounts[target]) => ~Live(d)
  <2> SUFFICES ASSUME NEW d \in Dev, In(d, mounts[target]), Live(d) PROVE FALSE
    OBVIOUS
  <2>1. PICK i \in Slots : loc[i] = target
    BY <1>1, <1>2 DEF KInv, LiveBooked
  <2> QED
    BY <1>2, <2>1, Constants DEF UsedSlots
<1>12. LettersKept'
  <2> SUFFICES ASSUME NEW m \in MountPoints, NEW d \in Dev, In(d, mounts'[m])
               PROVE  Live(d) \/ port[d[1]] = NoKey
    BY <1>1, <1>8 DEF LettersKept
  <2>1. In(d, mounts[m]) \/ d = d0
    BY <1>9, <1>10
  <2> QED
    BY <1>7, <2>1 DEF KInv, LettersKept
<1>13. OnlyTopLive'
  <2> SUFFICES ASSUME NEW s \in Slots, NEW d \in Dev, In(d, Pop(mounts'[s])), Live(d)
               PROVE  FALSE
    BY <1>8 DEF OnlyTopLive
  <2>1. CASE s = target
    BY <1>10, <1>11, <2>1
  <2>2. CASE s # target
    <3>1. mounts'[s] = mounts[s]
      BY <1>9, <2>2, Constants
    <3> QED
      BY <3>1 DEF KInv, OnlyTopLive
  <2> QED
    BY <2>1, <2>2
<1>14. \A l : l # cursor => (l \in wholeDisk' <=> l \in wholeDisk)
  BY <1>1
<1>15. (cursor \in wholeDisk') = d0[2]
  BY <1>1, <1>6, <1>7
<1>16. LiveBooked'
  <2> SUFFICES ASSUME NEW s \in Slots, NEW d \in Dev, In(d, mounts'[s]), Live(d)
               PROVE  /\ UsbDeviceName(d[1])' = d
                      /\ \E i \in Slots : mnt'[i] = d[1] /\ loc'[i] = s
    BY <1>8 DEF LiveBooked
  <2>1. CASE In(d, mounts[s])
    <3>1. d[1] # cursor
      BY <1>6, <2>1
    <3>2. UsbDeviceName(d[1])' = UsbDeviceName(d[1])
      BY <1>14, <3>1 DEF UsbDeviceName
    <3>3. UsbDeviceName(d[1]) = d /\ \E i \in Slots : mnt[i] = d[1] /\ loc[i] = s
      BY <1>1, <2>1 DEF KInv, LiveBooked
    <3>4. \A i \in Slots : mnt[i] = d[1] => i # n
      BY <1>4, DevPair, Constants
    <3> QED
      BY <1>5, <3>2, <3>3, <3>4
  <2>2. CASE d = d0 /\ s = target
    <3>1. (d[1] \in wholeDisk') = d[2]
      BY <1>7, <1>15, <2>2
    <3>2. UsbDeviceName(d[1])' = d
      BY <3>1, UsbNameIs DEF UsbDeviceName
    <3> QED
      BY <1>5, <1>7, <2>2, <3>2
  <2>3. In(d, mounts[s]) \/ (d = d0 /\ s = target)
    BY <1>9, <1>10, Constants
  <2> QED
    BY <2>1, <2>2, <2>3
<1>17. WholeBooked'
  <2> SUFFICES ASSUME NEW l \in wholeDisk' PROVE \E i \in Slots : mnt'[i] = l
    BY DEF WholeBooked
  <2>1. CASE l = cursor
    BY <1>5, <2>1
  <2>2. CASE l # cursor
    <3>1. PICK i \in Slots : mnt[i] = l
      BY <1>14, <2>2 DEF KInv, WholeBooked
    <3>2. l \in Letters
      BY <1>14, <2>2 DEF TypeOK
    <3>3. i # n
      BY <1>4, <3>1, <3>2, Constants
    <3> QED
      BY <1>5, <3>1, <3>3
  <2> QED
    BY <2>1, <2>2
<1>18. WholeMounted'
  <2> SUFFICES ASSUME NEW i \in Slots, mnt'[i] \in wholeDisk'
               PROVE  Top(mounts'[loc'[i]]) = <<mnt'[i], TRUE>>
    BY DEF WholeMounted
  <2>1. CASE i = n
    <3>1. d0[2] = TRUE
      BY <1>5, <1>15, <1>7, DevPair, <2>1
    <3> QED
      BY <1>5, <1>7, <1>10, <2>1, <3>1, DevPair
  <2>2. CASE i # n
    <3>1. mnt'[i] = mnt[i] /\ loc'[i] = loc[i] /\ mnt[i] # cursor
      BY <1>5, <1>6, <2>2
    <3>2. mnt[i] \in wholeDisk /\ mnt[i] # None
      BY <1>14, <3>1, Constants DEF TypeOK
    <3>3. loc[i] \in MountPoints \ {target}
      BY <1>2, <3>2, Booked
    <3>4. mounts'[loc[i]] = mounts[loc[i]]
      BY <1>9, <3>3
    <3> QED
      BY <1>1, <3>1, <3>2, <3>4 DEF KInv, WholeMounted
  <2> QED
    BY <2>1, <2>2
<1>19. LettersUnique' /\ StartClean'
  BY <1>1, <1>4, <1>5, <1>6 DEF KInv, LettersUnique, StartClean
<1>20. SeenAgrees'
  <2> SUFFICES ASSUME NEW s \in Slots, NEW d \in Dev, In(d, mounts'[s]), seen[d[1]] # "none"
               PROVE  SeenDev(d[1]) = d
    BY <1>1 DEF SeenAgrees, SeenDev
  <2>1. In(d, mounts[s]) \/ d = d0
    BY <1>9, <1>10, Constants
  <2> QED
    BY <1>1, <1>7, <2>1 DEF KInv, SnapshotOK, SeenAgrees, Polling
<1>21. WholeSeen'
  <2> SUFFICES ASSUME NEW x \in Letters, seen[x] = "whole", seenAt[x] \in Slots
               PROVE  x \in wholeDisk' /\ \E i \in Slots : mnt'[i] = x /\ loc'[i] = seenAt[x]
    BY <1>1 DEF WholeSeen
  <2>1. x \in wholeDisk /\ \E i \in Slots : mnt[i] = x /\ loc[i] = seenAt[x]
    BY <1>1 DEF KInv, SnapshotOK, WholeSeen, Polling
  <2>2. \A i \in Slots : mnt[i] = x => i # n
    BY <1>4, Constants
  <2> QED
    BY <1>1, <1>5, <2>1, <2>2
<1>22. PassOneDone'
  <2> SUFFICES ASSUME NEW i \in Slots, mnt'[i] # None, PassedBy(i)', seen[mnt'[i]] # "none"
               PROVE  SeenAtOK(mnt'[i], loc'[i])
    BY <1>1 DEF PassOneDone, SeenAtOK
  <2>1. cursor + 1 <= mnt'[i]
    BY <1>1 DEF PassedBy
  <2>2. i # n
    BY <1>2, <1>5, <2>1
  <2>3. mnt'[i] = mnt[i] /\ loc'[i] = loc[i] /\ mnt[i] \in Nat
    BY <1>5, <2>2, Booked
  <2>4. PassedBy(i)
    BY <1>1, <1>2, <2>1, <2>3 DEF PassedBy
  <2> QED
    BY <2>3, <2>4 DEF KInv, SnapshotOK, PassOneDone
<1>23. SeenMounted' /\ GoneNotSeen' /\ ChosenUnmounted'
  BY <1>1 DEF SeenMounted, GoneNotSeen, ChosenUnmounted
<1> QED
  BY <1>12, <1>13, <1>16, <1>17, <1>18, <1>19, <1>20, <1>21, <1>22, <1>23 DEF KInv, SnapshotOK

LEMMA KRegister == ASSUME IInv, Usual, KInv, RegisterMount PROVE KInv'
<1> USE DEF IInv
<1>1. /\ UNCHANGED <<port, mounts, seen, seenAt>>
      /\ pc = "insertions" /\ pc' = "insertions" /\ cursor' = cursor + 1
      /\ cursor \in Letters /\ cursor \in Nat
      /\ seen[cursor] # "none" /\ seenAt[cursor] \in Slots \ UsedSlots
      /\ wholeDisk' = IF seen[cursor] = "whole" THEN wholeDisk \cup {cursor} ELSE wholeDisk
  BY Constants DEF RegisterMount, kernel, TypeOK, Letters
<1>2. PICK n \in Slots : /\ mnt[n] = None
                         /\ mnt' = [mnt EXCEPT ![n] = cursor]
                         /\ loc' = [loc EXCEPT ![n] = seenAt[cursor]]
  BY DEF RegisterMount
<1>3. /\ \A i \in Slots \ {n} : mnt'[i] = mnt[i] /\ loc'[i] = loc[i]
      /\ mnt'[n] = cursor /\ loc'[n] = seenAt[cursor]
  BY <1>2 DEF TypeOK
<1>4. (\A i \in Slots : mnt[i] # cursor) /\ cursor \notin wholeDisk
  BY <1>1, NoEntryYet
\* A whole disk in the snapshot has its entry still.
<1>5. wholeDisk' = wholeDisk
  BY <1>1, <1>4 DEF KInv, SnapshotOK, WholeSeen, Polling
<1>6. \A d : Live(d)' = Live(d)
  BY <1>1 DEF Live, DevAt
<1>7. \A i \in Slots : mnt[i] \in Letters => i # n
  BY <1>2, Constants
<1>8. LettersKept' /\ OnlyTopLive' /\ StartClean'
  BY <1>1, <1>6 DEF KInv, LettersKept, OnlyTopLive, StartClean
<1>9. LiveBooked'
  <2> SUFFICES ASSUME NEW s \in Slots, NEW d \in Dev, In(d, mounts[s]), Live(d)
               PROVE  /\ UsbDeviceName(d[1])' = d
                      /\ \E i \in Slots : mnt'[i] = d[1] /\ loc'[i] = s
    BY <1>1, <1>6 DEF LiveBooked
  <2>1. UsbDeviceName(d[1]) = d /\ \E i \in Slots : mnt[i] = d[1] /\ loc[i] = s
    BY <1>1 DEF KInv, LiveBooked
  <2>2. UsbDeviceName(d[1])' = UsbDeviceName(d[1])
    BY <1>5 DEF UsbDeviceName
  <2> QED
    BY <1>3, <1>7, <2>1, <2>2, DevPair
<1>10. WholeBooked'
  BY <1>3, <1>5, <1>7 DEF KInv, WholeBooked, TypeOK
<1>11. WholeMounted'
  <2> SUFFICES ASSUME NEW i \in Slots, mnt'[i] \in wholeDisk
               PROVE  Top(mounts[loc'[i]]) = <<mnt'[i], TRUE>>
    BY <1>1, <1>5 DEF WholeMounted
  <2>1. i # n
    BY <1>3, <1>4
  <2> QED
    BY <1>1, <1>3, <2>1 DEF KInv, WholeMounted
<1>12. LettersUnique'
  BY <1>3, <1>4 DEF KInv, LettersUnique
<1>13. SeenAgrees'
  BY <1>1 DEF KInv, SnapshotOK, SeenAgrees, Polling, SeenDev
<1>14. WholeSeen'
  BY <1>1, <1>3, <1>5, <1>7 DEF KInv, SnapshotOK, WholeSeen, Polling
<1>15. PassOneDone'
  <2> SUFFICES ASSUME NEW i \in Slots, mnt'[i] # None, PassedBy(i)', seen[mnt'[i]] # "none"
               PROVE  SeenAtOK(mnt'[i], loc'[i])
    BY <1>1 DEF PassOneDone, SeenAtOK
  <2>1. cursor + 1 <= mnt'[i]
    BY <1>1 DEF PassedBy
  <2>2. i # n
    BY <1>1, <1>3, <2>1
  <2>3. mnt'[i] = mnt[i] /\ loc'[i] = loc[i] /\ mnt[i] \in Nat
    BY <1>3, <2>2, Booked
  <2>4. PassedBy(i)
    BY <1>1, <2>1, <2>3 DEF PassedBy
  <2> QED
    BY <2>3, <2>4 DEF KInv, SnapshotOK, PassOneDone
<1>16. SeenMounted' /\ GoneNotSeen' /\ ChosenUnmounted'
  BY <1>1 DEF SeenMounted, GoneNotSeen, ChosenUnmounted
<1> QED
  BY <1>8, <1>9, <1>10, <1>11, <1>12, <1>13, <1>14, <1>15, <1>16 DEF KInv, SnapshotOK

-----------------------------------------------------------------------------
\* Pass 3: every entry is still there, once.
LEMMA CloseUpKeeps ==
  ASSUME TypeOK, SlotsUnique, NEW h \in Slots, mnt[h] = None,
         mnt' = CloseUp(mnt, h), loc' = CloseUp(loc, h)
  PROVE  /\ \A i \in Slots : mnt[i] # None
              => \E j \in Slots : mnt'[j] = mnt[i] /\ loc'[j] = loc[i]
         /\ \A j \in Slots : mnt'[j] # None
              => \E i \in Slots : mnt'[j] = mnt[i] /\ loc'[j] = loc[i]
         /\ LettersUnique => LettersUnique'
<1> DEFINE From(j) == IF j < h THEN j ELSE j + 1
<1>1. ASSUME NEW j \in Slots
      PROVE  /\ From(j) \in Slots => mnt'[j] = mnt[From(j)] /\ loc'[j] = loc[From(j)]
             /\ From(j) \notin Slots => mnt'[j] = None /\ loc'[j] = None
  BY Constants DEF CloseUp, Slots
<1>2. ASSUME NEW i \in Slots, mnt[i] # None
      PROVE  \E j \in Slots : From(j) = i
  <2>1. CASE i < h
    BY <2>1
  <2>2. CASE i > h
    <3>1. i - 1 \in Slots /\ From(i - 1) = i
      BY <2>2, Constants DEF Slots
    <3> QED
      BY <3>1
  <2> QED
    BY <1>2, <2>1, <2>2, Constants DEF Slots
<1>3. ASSUME NEW i \in Slots, NEW j \in Slots, From(i) = From(j)
      PROVE  i = j
  BY <1>3, Constants DEF Slots
<1> HIDE DEF From
<1>4. LettersUnique => LettersUnique'
  <2> SUFFICES ASSUME LettersUnique, NEW i \in Slots, NEW j \in Slots,
                      mnt'[i] # None, mnt'[i] = mnt'[j]
               PROVE  i = j
    BY DEF LettersUnique
  <2>1. From(i) \in Slots /\ From(j) \in Slots
    BY <1>1
  <2>2. From(i) = From(j)
    BY <1>1, <2>1 DEF LettersUnique
  <2> QED
    BY <1>3, <2>2
<1>5. \A i \in Slots : mnt[i] # None
        => \E j \in Slots : mnt'[j] = mnt[i] /\ loc'[j] = loc[i]
  BY <1>1, <1>2
<1>6. \A j \in Slots : mnt'[j] # None
        => \E i \in Slots : mnt'[j] = mnt[i] /\ loc'[j] = loc[i]
  BY <1>1
<1> QED
  BY <1>4, <1>5, <1>6

LEMMA KCompact == ASSUME IInv, Usual, KInv, CompactTable PROVE KInv'
<1> USE DEF IInv
<1>1. /\ UNCHANGED <<port, mounts, wholeDisk>>
      /\ pc = "insertions" /\ pc' = "own"
  BY DEF CompactTable, kernel
<1>2. \A d : Live(d)' = Live(d)
  BY <1>1 DEF Live, DevAt
<1>3. /\ \A i \in Slots : mnt[i] # None
           => \E j \in Slots : mnt'[j] = mnt[i] /\ loc'[j] = loc[i]
      /\ \A j \in Slots : mnt'[j] # None
           => \E i \in Slots : mnt'[j] = mnt[i] /\ loc'[j] = loc[i]
      /\ LettersUnique'
  <2>1. CASE UNCHANGED <<mnt, loc>>
    BY <2>1 DEF KInv, LettersUnique
  <2>2. CASE \E h \in Slots : /\ mnt[h] = None
                              /\ mnt' = CloseUp(mnt, h) /\ loc' = CloseUp(loc, h)
    BY <2>2, CloseUpKeeps DEF KInv
  <2> QED
    BY <2>1, <2>2 DEF CompactTable
<1>4. LettersKept' /\ OnlyTopLive' /\ StartClean'
  BY <1>1, <1>2 DEF KInv, LettersKept, OnlyTopLive, StartClean
<1>5. LiveBooked'
  <2> SUFFICES ASSUME NEW s \in Slots, NEW d \in Dev, In(d, mounts[s]), Live(d)
               PROVE  /\ UsbDeviceName(d[1])' = d
                      /\ \E i \in Slots : mnt'[i] = d[1] /\ loc'[i] = s
    BY <1>1, <1>2 DEF LiveBooked
  <2>1. UsbDeviceName(d[1]) = d /\ \E i \in Slots : mnt[i] = d[1] /\ loc[i] = s
    BY <1>1 DEF KInv, LiveBooked
  <2>2. UsbDeviceName(d[1])' = UsbDeviceName(d[1]) /\ d[1] # None
    BY <1>1, DevPair, Constants DEF UsbDeviceName
  <2> QED
    BY <1>3, <2>1, <2>2
<1>6. \A l \in wholeDisk : l # None
  BY Constants DEF TypeOK
<1>7. WholeBooked'
  BY <1>1, <1>3, <1>6 DEF KInv, WholeBooked
<1>8. WholeMounted'
  <2> SUFFICES ASSUME NEW i \in Slots, mnt'[i] \in wholeDisk
               PROVE  Top(mounts[loc'[i]]) = <<mnt'[i], TRUE>>
    BY <1>1 DEF WholeMounted
  <2>1. mnt'[i] # None
    BY <1>6
  <2>2. PICK h \in Slots : mnt'[i] = mnt[h] /\ loc'[i] = loc[h]
    BY <1>3, <2>1
  <2>3. Top(mounts[loc[h]]) = <<mnt[h], TRUE>>
    BY <1>1, <2>2 DEF KInv, WholeMounted
  <2> QED
    BY <2>2, <2>3, Zenon
<1>9. SnapshotOK'
  BY <1>1 DEF SnapshotOK, SeenAgrees, SeenMounted, WholeSeen, PassOneDone, PassedBy,
     GoneNotSeen, ChosenUnmounted, Polling
<1> QED
  BY <1>3, <1>4, <1>5, <1>7, <1>8, <1>9 DEF KInv

-----------------------------------------------------------------------------
LEMMA KInit == Init => KInv
<1> SUFFICES ASSUME Init PROVE KInv
  OBVIOUS
<1>1. \A m \in MountPoints : mounts[m] = <<>>
  BY DEF Init
<1>2. LettersKept /\ OnlyTopLive
  BY <1>1, NotInEmpty, Constants DEF LettersKept, OnlyTopLive
<1>3. LiveBooked /\ WholeBooked /\ WholeMounted /\ StartClean /\ LettersUnique
  BY <1>1, Constants DEF Init, NoTable, LiveBooked, WholeBooked, WholeMounted, StartClean,
     LettersUnique
<1>4. SnapshotOK
  BY DEF Init, SnapshotOK, SeenAgrees, SeenMounted, WholeSeen, PassOneDone, PassedBy,
     GoneNotSeen, ChosenUnmounted, Polling
<1> QED
  BY <1>2, <1>3, <1>4 DEF KInv

LEMMA KInvStep ==
  ReleaseWorks /\ IInv /\ InRange /\ (rebooting \/ KInv) /\ [Next]_vars => rebooting' \/ KInv'
<1> SUFFICES ASSUME ReleaseWorks, IInv, InRange, rebooting \/ KInv, [Next]_vars, ~rebooting'
             PROVE  KInv'
  OBVIOUS
<1>1. CASE Reboot
  BY <1>1, KReboot
<1>2. CASE ~Reboot
  <2>1. Usual /\ KInv
    BY <1>2, OrderStands DEF Usual
  <2>2. CASE World
    BY <2>1, <2>2, KWorld DEF IInv
  <2>3. CASE Panel
    BY <2>1, <2>3, KPanel
  <2>4. CASE Restart
    BY <2>1, <2>4, KStart, Constants
  <2>5. CASE Poll
    <3>1. ~PollDies
      BY <2>1, Alive
    <3> QED
      BY <2>1, <2>5, <3>1, KStart, KPollStart, KQuiet, KUnmount, KForget, KMount, KRegister,
         KCompact, Constants DEF Poll
  <2>6. CASE UNCHANGED vars
    <3>1. UNCHANGED <<port, mounts>> /\ DaemonSame
      BY <2>6 DEF vars, kernel, tables, polling, DaemonSame
    <3>2. OnlyShrinks /\ LettersKept'
      BY <2>1, <3>1, PopShrinks, Constants DEF KInv, IInv
    <3> QED
      BY <2>1, <3>1, <3>2, ShrinkStep DEF IInv
  <2> QED
    BY <1>2, <2>2, <2>3, <2>4, <2>5, <2>6 DEF Next
<1> QED
  BY <1>1, <1>2

\* Unless a reboot is ordered, every key that is plugged in and mounted on usb0..usb9
\* is booked in the table where it is mounted, under its own letter, and is on top of
\* its stack; during a poll the snapshot agrees with the mounts as far as it is still
\* used.  With more keys than mount points mountCheck orders the reboot and goes on:
\* it writes the key for /media/usb: over the last entry, whose key is then mounted
\* without one.  All this holds again when the box is down.
THEOREM KeysTracked == ReleaseWorks /\ Spec => [](IInv /\ InRange /\ (rebooting \/ KInv))
<1> SUFFICES ASSUME ReleaseWorks PROVE Spec => [](IInv /\ InRange /\ (rebooting \/ KInv))
  OBVIOUS
<1>1. IInv /\ InRange /\ (rebooting \/ KInv) /\ [Next]_vars => rebooting' \/ KInv'
  BY KInvStep
<1> QED
  BY TypeInit, RangeInit, KInit, IInvStep, RangeStep, <1>1, PTL DEF Spec

\* No drive letter is in the table twice, unless a reboot is ordered: what pass 2
\* mounts or registers has no entry any more.
THEOREM LettersStayUnique == ReleaseWorks /\ Spec => [](rebooting \/ LettersUnique)
<1>1. rebooting \/ KInv => rebooting \/ LettersUnique
  BY DEF KInv
<1> QED
  BY KeysTracked, <1>1, PTL

\* A key that is plugged in is never hidden under another one, in whatever order
\* keys come and go and the panel moves them, if the daemon's umount commands
\* work, or if it is never restarted, unless a reboot is ordered because there are
\* more keys than mount points.
THEOREM NoKeyHidden == ReleaseWorks /\ Spec => []NoHiddenKey
<1>1. IInv /\ (rebooting \/ KInv) => NoHiddenKey
  <2> SUFFICES ASSUME IInv, KInv, NEW s \in Slots,
                      NEW i \in 1 .. Len(mounts[s]), NEW j \in 1 .. Len(mounts[s]),
                      Live(mounts[s][i]), Live(mounts[s][j])
               PROVE  i = j
    BY DEF NoHiddenKey
  <2>1. mounts[s] \in Seq(Dev)
    BY Constants DEF IInv, TypeOK
  <2>2. ASSUME NEW k \in 1 .. Len(mounts[s]), Live(mounts[s][k]), k # Len(mounts[s])
        PROVE  FALSE
    <3>1. In(mounts[s][k], Pop(mounts[s])) /\ mounts[s][k] \in Dev
      BY <2>1, <2>2 DEF In, Pop
    <3> QED
      BY <2>2, <3>1 DEF KInv, OnlyTopLive
  <2> QED
    BY <2>2
<1> QED
  BY KeysTracked, <1>1, PTL

\* mountCheck never unmounts a key that is still plugged in from usb0..usb9, unless
\* a reboot is ordered.
LEMMA LiveStaysMounted ==
  ASSUME IInv, Usual, KInv, pc # "start", Poll, pc' # "start",
         NEW s \in Slots, NEW d \in Dev, In(d, mounts[s]), Live(d)
  PROVE  In(d, mounts'[s])
<1> USE DEF IInv
<1>1. mounts[s] \in Seq(Dev) /\ s \in MountPoints
  BY Constants DEF TypeOK
\* It is on top of its stack.
<1>2. d = Top(mounts[s]) /\ ~In(d, Pop(mounts[s]))
  BY <1>1, InSplit DEF KInv, OnlyTopLive
<1>3. CASE mounts' = mounts
  BY <1>3
<1>4. CASE UnmountGone
  <2>1. /\ mounts' \in {mounts, [mounts EXCEPT ![loc[cursor]] = Pop(@)]}
        /\ pc = "removals" /\ cursor \in Slots /\ mnt[cursor] # None
        /\ ~NameIn(UsbDeviceName(mnt[cursor]), seen)
    BY <1>4, Constants DEF UnmountGone, TypeOK, Slots
  <2>2. loc[cursor] # s
    <3> SUFFICES ASSUME loc[cursor] = s PROVE FALSE
      OBVIOUS
    <3>1. PICK i \in Slots : mnt[i] = d[1] /\ loc[i] = s
      BY DEF KInv, LiveBooked
    <3>2. i = cursor
      BY <2>1, <3>1, Booked
    <3> QED
      BY <2>1, <3>1, <3>2, GoneIsDead
  <2> QED
    BY <1>1, <2>1, <2>2 DEF TypeOK
<1>5. CASE ClearDeadMount
  <2>1. /\ mounts' \in {mounts, [mounts EXCEPT ![target] = Pop(@)]}
        /\ ~NodeExists(Top(mounts[target]))
    BY <1>5 DEF ClearDeadMount
  <2>2. NodeExists(d)
    BY NamesLive
  <2> QED
    BY <1>1, <1>2, <2>1, <2>2 DEF TypeOK
<1>6. CASE UnmountPanelSlot
  BY <1>1, <1>6, Constants DEF UnmountPanelSlot, TypeOK
<1>7. CASE MountSucceeds
  <2>1. mounts'[s] = mounts[s] \/ mounts'[s] = Append(mounts[s], SeenDev(cursor))
    BY <1>1, <1>7 DEF MountSucceeds, TypeOK
  <2> QED
    BY <1>1, <2>1 DEF In
<1>8. ~PollDies /\ \A t \in Slots : ~ReleaseUsbSlot(t)
  BY Alive DEF ReleaseUsbSlot
<1> QED
  BY <1>3, <1>4, <1>5, <1>6, <1>7, <1>8 DEF Poll, SlotsReleased, PollStart, SkipEmptyEntry,
     ForgetGone, ForgetMoved, StillMounted, RemovalsDone, SkipLine, ChooseSlot, CheckFileSystem, RunFsCheck,
     MountFails, RegisterMount, PanelSlotBusy, CompactTable, CheckInternalContent, kernel

THEOREM LiveNeverUnmounted == ReleaseWorks /\ Spec => NeverUnmountsLive
<1>1. IInv /\ InRange /\ (rebooting \/ KInv) /\ [Next]_vars =>
        [pc # "start" /\ Poll /\ pc' # "start" /\ ~rebooting =>
           \A s \in Slots : \A i \in 1 .. Len(mounts[s]) :
             Live(mounts[s][i]) => In(mounts[s][i], mounts'[s])]_vars
  <2> SUFFICES ASSUME IInv, InRange, rebooting \/ KInv, ~rebooting,
                      pc # "start", Poll, pc' # "start", NEW s \in Slots,
                      NEW i \in 1 .. Len(mounts[s]), Live(mounts[s][i])
               PROVE  In(mounts[s][i], mounts'[s])
    OBVIOUS
  <2>1. Usual /\ KInv
    BY DEF Usual
  <2>2. mounts[s][i] \in Dev /\ In(mounts[s][i], mounts[s])
    BY DEF Live, In
  <2> QED
    BY <2>1, <2>2, LiveStaysMounted
<1> QED
  BY KeysTracked, <1>1, PTL DEF Spec, NeverUnmountsLive
-----------------------------------------------------------------------------
\* While the marker is there, an entry books usb0 (SentinelBooked): nothing is
\* mounted there, and what is there is unmounted only with the menus emptied.
IndexedOK ==
  sentinel /\ Live(Top(mounts[0])) => indexed = port[Top(mounts[0])[1]]

LEMMA Stack0 ==
  ASSUME TypeOK
  PROVE  /\ 0 \in MountPoints /\ mounts[0] \in Seq(Dev)
         /\ Live(Top(mounts[0])) => In(Top(mounts[0]), mounts[0]) /\ mounts[0] # <<>>
<1>1. 0 \in MountPoints /\ mounts[0] \in Seq(Dev)
  BY Constants DEF TypeOK
<1>2. ASSUME Live(Top(mounts[0])) PROVE In(Top(mounts[0]), mounts[0]) /\ mounts[0] # <<>>
  <2>1. Top(mounts[0]) \in Dev
    BY <1>2 DEF Live
  <2> QED
    BY <1>1, <2>1, LiveTopIn, NotInEmpty
<1> QED
  BY <1>1, <1>2

\* Nothing that is plugged in shows once the top of usb0 is unmounted.
LEMMA PoppedDead ==
  ASSUME TypeOK, KInv
  PROVE  ~Live(Top(Pop(mounts[0])))
<1> SUFFICES ASSUME Live(Top(Pop(mounts[0]))) PROVE FALSE
  OBVIOUS
<1>1. Pop(mounts[0]) \in Seq(Dev)
  BY Stack0, PopType
<1>2. Top(Pop(mounts[0])) \in Dev
  BY DEF Live
<1>3. In(Top(Pop(mounts[0])), Pop(mounts[0]))
  BY <1>1, <1>2, LiveTopIn
<1> QED
  BY <1>2, <1>3, Constants DEF KInv, OnlyTopLive

\* Steps after which usb0 has the same mounts, with the same menus.
LEMMA IndexedKept ==
  ASSUME IndexedOK, UNCHANGED <<port, indexed>>, mounts'[0] = mounts[0], sentinel' => sentinel
  PROVE  IndexedOK'
BY DEF IndexedOK, Live, DevAt

LEMMA IndexedWorld == ASSUME IInv, Usual, KInv, IndexedOK, World PROVE IndexedOK'
<1>1. UNCHANGED <<mounts, sentinel, indexed>>
  BY DEF World, InsertKey, RemoveKey, markers
<1> SUFFICES ASSUME NEW d \in Dev, d = Top(mounts[0]), sentinel, Live(d)'
             PROVE  indexed = port'[d[1]]
  BY <1>1 DEF IndexedOK, Live
<1>2. In(d, mounts[0]) /\ 0 \in MountPoints
  BY Stack0, LiveTopIn DEF IInv
<1>3. port'[d[1]] = port[d[1]]
  <2>1. port'[d[1]] # NoKey
    BY DEF Live
  <2>2. CASE \E k \in Keys, l \in Letters : InsertKey(k, l)
    BY <2>2, <1>2, DevPair DEF InsertKey, IInv, TypeOK
  <2>3. CASE \E l \in Letters : RemoveKey(l)
    BY <2>1, <2>3, DevPair DEF RemoveKey, IInv, TypeOK
  <2> QED
    BY <2>2, <2>3 DEF World
<1>4. Live(d)
  BY <1>3 DEF Live, DevAt
<1> QED
  BY <1>3, <1>4 DEF IndexedOK

LEMMA IndexedPanel == ASSUME IInv, Usual, KInv, IndexedOK, Panel PROVE IndexedOK'
<1> USE Stack0 DEF IInv
<1>1. UNCHANGED <<port, indexed, sentinel>>
  BY DEF Panel, PanelSetNoMount, PanelUnmount0, PanelMount11, PanelUnmount11, kernel, markers
<1>2. CASE PanelUnmount0
  <2>1. mounts'[0] = Pop(mounts[0])
    BY <1>2 DEF PanelUnmount0, TypeOK
  <2>2. ~Live(Top(Pop(mounts[0])))
    BY PoppedDead
  <2> QED
    BY <1>1, <2>1, <2>2 DEF IndexedOK, Live, DevAt
<1>3. CASE ~PanelUnmount0
  <2>1. mounts'[0] = mounts[0]
    BY <1>3, Constants DEF Panel, PanelSetNoMount, PanelMount11, PanelUnmount11, TypeOK, kernel
  <2> QED
    BY <1>1, <2>1, IndexedKept
<1> QED
  BY <1>2, <1>3

LEMMA IndexedPoll ==
  ASSUME ~LoaderMayFail, IInv, Usual, KInv, SentinelBooked, IndexedOK, Poll
  PROVE  IndexedOK'
<1> USE Stack0 DEF IInv
<1>1. CASE /\ UNCHANGED <<port, mounts, indexed>>
           /\ sentinel' => sentinel
  BY <1>1, IndexedKept
<1>2. ASSUME NEW s \in Slots, ReleaseUsbSlot(s) PROVE IndexedOK'
  <2>1. CASE s = 0
    BY <1>2, <2>1 DEF ReleaseUsbSlot, IndexedOK
  <2>2. CASE s # 0
    <3>1. /\ UNCHANGED <<port, indexed>>
          /\ sentinel' => sentinel
          /\ mounts'[0] = mounts[0]
      BY <1>2, <2>2 DEF ReleaseUsbSlot, TypeOK
    <3> QED
      BY <3>1, IndexedKept
  <2> QED
    BY <2>1, <2>2
<1>3. CASE UnmountGone
  <2>1. /\ UNCHANGED <<port, sentinel>>
        /\ mounts' \in {mounts, [mounts EXCEPT ![loc[cursor]] = Pop(@)]}
        /\ pc = "removals" /\ cursor \in Slots /\ mnt[cursor] # None
        /\ ~NameIn(UsbDeviceName(mnt[cursor]), seen)
        /\ loc[cursor] # 0 => indexed' = indexed
    BY <1>3, Constants DEF UnmountGone, TypeOK, Slots
  <2>2. CASE loc[cursor] # 0
    <3>1. mounts'[0] = mounts[0]
      BY <2>1, <2>2 DEF TypeOK
    <3> QED
      BY <2>1, <2>2, <3>1, IndexedKept
  <2>3. CASE loc[cursor] = 0
    <3>1. mounts'[0] = mounts[0] \/ mounts'[0] = Pop(mounts[0])
      BY <2>1, <2>3 DEF TypeOK
    <3>2. ~Live(Top(Pop(mounts[0])))
      BY PoppedDead
    <3>3. ~Live(Top(mounts[0]))
      <4> SUFFICES ASSUME NEW d \in Dev, d = Top(mounts[0]), Live(d) PROVE FALSE
        BY DEF Live
      <4>1. In(d, mounts[0])
        OBVIOUS
      <4>2. PICK i \in Slots : mnt[i] = d[1] /\ loc[i] = 0
        BY <2>1, <4>1, Constants DEF KInv, LiveBooked
      <4>3. i = cursor
        BY <2>1, <2>3, <4>2, Booked
      <4> QED
        BY <2>1, <4>1, <4>2, <4>3, GoneIsDead, Constants
    <3> QED
      BY <2>1, <3>1, <3>2, <3>3 DEF IndexedOK, Live, DevAt
  <2> QED
    BY <2>2, <2>3
<1>4. CASE StillMounted
  <2>1. UNCHANGED kernel
    BY <1>4 DEF StillMounted
  <2>2. CASE loc[cursor] = 0 /\ ~sentinel
    <3>1. indexed' = ContentAt0
      BY <1>4, <2>2 DEF StillMounted, StartContentLoader
    <3> QED
      BY <2>1, <3>1 DEF ContentAt0, IndexedOK, Live, DevAt, kernel
  <2>3. CASE ~(loc[cursor] = 0 /\ ~sentinel)
    <3>1. UNCHANGED <<sentinel, indexed>>
      BY <1>4, <2>3 DEF StillMounted
    <3> QED
      BY <2>1, <3>1, IndexedKept DEF kernel
  <2> QED
    BY <2>2, <2>3
<1>5. ~PollDies
  BY Alive
<1>6. CASE ClearDeadMount \/ MountSucceeds
  <2>1. /\ UNCHANGED <<port, indexed, sentinel>>
        /\ target \in Slots \ UsedSlots
    BY <1>6, UsualSlots, Constants DEF ClearDeadMount, MountSucceeds, ProgressOK, markers
  <2>2. CASE sentinel
    <3>1. target # 0
      BY <2>1, <2>2, Constants DEF SentinelBooked, UsedSlots, Usual
    <3>2. mounts'[0] = mounts[0]
      BY <1>6, <3>1 DEF ClearDeadMount, MountSucceeds, TypeOK
    <3> QED
      BY <2>1, <3>2, IndexedKept
  <2> QED
    BY <2>1, <2>2 DEF IndexedOK
<1>7. CASE UnmountPanelSlot
  <2>1. UNCHANGED <<port, indexed, sentinel>> /\ mounts'[0] = mounts[0]
    BY <1>7, Constants DEF UnmountPanelSlot, TypeOK, markers
  <2> QED
    BY <2>1, IndexedKept
<1>8. CASE CheckInternalContent
  <2>1. UNCHANGED <<port, mounts, sentinel>> /\ (mounts[0] # <<>> => indexed' = indexed)
    BY <1>8 DEF CheckInternalContent, kernel
  <2>2. CASE mounts[0] = <<>>
    BY <2>1, <2>2 DEF IndexedOK, Live, DevAt
  <2> QED
    BY <2>1, <2>2, IndexedKept
<1>9. CASE ForgetGone \/ ForgetMoved
  BY <1>9, <1>1 DEF ForgetGone, ForgetMoved, MarkerAfter, kernel
<1>10. CASE \/ SlotsReleased \/ PollStart \/ SkipEmptyEntry \/ RemovalsDone \/ SkipLine
            \/ \E s \in 0 .. NumSlots : ChooseSlot(s)
            \/ CheckFileSystem \/ MountFails \/ RegisterMount \/ PanelSlotBusy \/ CompactTable
  BY <1>10, <1>1 DEF SlotsReleased, PollStart, SkipEmptyEntry, RemovalsDone, SkipLine,
     ChooseSlot, CheckFileSystem, RunFsCheck, MountFails, RegisterMount, PanelSlotBusy, CompactTable,
     kernel, markers
<1> QED
  BY <1>2, <1>3, <1>4, <1>5, <1>6, <1>7, <1>8, <1>9, <1>10 DEF Poll

\* While the daemon's marker says "usb0 is indexed", the menus are those of the
\* key at usb0, if every loader that mountCheck starts does index (the daemon
\* does not look) and the daemon, whose table a restart empties while the marker
\* in /tmp stays, is not restarted; not so from the order to reboot until the box
\* is down.
THEOREM IndexedStaysAtUsb0 ==
  ~Restarts /\ ~LoaderMayFail /\ Spec => []IndexedIsAtUsb0
<1> SUFFICES ASSUME ~Restarts, ~LoaderMayFail PROVE Spec => []IndexedIsAtUsb0
  OBVIOUS
<1>1. Init => IndexedOK
  BY DEF Init, IndexedOK
<1>2. /\ IInv /\ InRange /\ (rebooting \/ KInv) /\ SentinelBooked
      /\ (rebooting \/ IndexedOK) /\ [Next]_vars
      => rebooting' \/ IndexedOK'
  <2> SUFFICES ASSUME IInv, InRange, rebooting \/ KInv, SentinelBooked,
                      rebooting \/ IndexedOK, [Next]_vars, ~rebooting'
               PROVE  IndexedOK'
    OBVIOUS
  <2>1. CASE Reboot
    BY <2>1 DEF Reboot, IndexedOK
  <2>2. CASE ~Reboot
    <3>1. Usual /\ KInv /\ IndexedOK
      BY <2>2, OrderStands DEF Usual
    <3>2. CASE World
      BY <3>1, <3>2, IndexedWorld
    <3>3. CASE Panel
      BY <3>1, <3>3, IndexedPanel
    <3>4. ~Restart
      BY DEF Restart
    <3>5. CASE Poll
      BY <3>1, <3>5, IndexedPoll
    <3>6. CASE UNCHANGED vars
      BY <3>1, <3>6, IndexedKept DEF vars, kernel, markers
    <3> QED
      BY <2>2, <3>2, <3>3, <3>4, <3>5, <3>6 DEF Next
  <2> QED
    BY <2>1, <2>2
<1>3. rebooting \/ IndexedOK => IndexedIsAtUsb0
  BY DEF IndexedOK, IndexedIsAtUsb0
<1>4. ReleaseWorks
  BY DEF ReleaseWorks
<1> QED
  BY KeysTracked, SentinelStaysBooked, <1>1, <1>2, <1>3, <1>4, PTL DEF Spec
-----------------------------------------------------------------------------
\* The daemon and the panel implement KeyMounts: each step does to the keys what
\* one of its actions does, or nothing.

PortsUnique ==
  \A l, x \in Letters : port[l] # NoKey /\ port[l] = port[x] => l = x

LEMMA PortsInit == Init => PortsUnique
BY DEF Init, PortsUnique

LEMMA PortKept ==
  ASSUME Panel \/ Restart \/ Poll \/ Reboot \/ UNCHANGED vars
  PROVE  port' = port
BY DEF Panel, PanelSetNoMount, PanelUnmount0, PanelMount11, PanelUnmount11, Restart, Poll,
   ReleaseUsbSlot, SlotsReleased, PollStart, SkipEmptyEntry, UnmountGone, ForgetGone,
   ForgetMoved, StillMounted, RemovalsDone, SkipLine, PollDies, Reboot, ChooseSlot, ClearDeadMount,
   CheckFileSystem, MountSucceeds, MountFails, RegisterMount, UnmountPanelSlot, PanelSlotBusy,
   CompactTable, CheckInternalContent, kernel, vars

LEMMA PortsStep ==
  ASSUME TypeOK, PortsUnique, [Next]_vars
  PROVE  PortsUnique'
<1>1. CASE World
  <2>1. ASSUME NEW k \in Keys, NEW l \in Letters, InsertKey(k, l) PROVE PortsUnique'
    <3>1. \A x \in Letters : port[x] # k /\ port'[x] = IF x = l THEN k ELSE port[x]
      BY <2>1 DEF InsertKey, TypeOK
    <3> QED
      BY <3>1 DEF PortsUnique
  <2>2. ASSUME NEW l \in Letters, RemoveKey(l) PROVE PortsUnique'
    <3>1. \A x \in Letters : port'[x] = IF x = l THEN NoKey ELSE port[x]
      BY <2>2 DEF RemoveKey, TypeOK
    <3> QED
      BY <3>1 DEF PortsUnique
  <2> QED
    BY <1>1, <2>1, <2>2 DEF World
<1>2. CASE ~World
  <2>1. port' = port
    BY <1>2, PortKept DEF Next
  <2> QED
    BY <2>1 DEF PortsUnique
<1> QED
  BY <1>1, <1>2

\* The key of a device that is plugged in, and its mount points.
LEMMA KeyOf ==
  ASSUME TypeOK, PortsUnique, NEW d \in Dev, Live(d)
  PROVE  /\ port[d[1]] \in Keys /\ port[d[1]] \in PluggedKeys
         /\ \A m \in MountPoints : m \in KeyAt[port[d[1]]] <=> In(d, mounts[m])
<1>1. d[1] \in Letters /\ DevAt(d[1]) = d /\ port[d[1]] # NoKey
  BY DevPair DEF Live
<1>2. port[d[1]] \in Keys /\ port[d[1]] \in PluggedKeys
  BY <1>1 DEF TypeOK, PluggedKeys
<1>3. \A l \in Letters : port[l] = port[d[1]] => l = d[1]
  BY <1>1 DEF PortsUnique
<1> QED
  BY <1>1, <1>2, <1>3 DEF KeyAt

LEMMA LetterDevice ==
  ASSUME NEW l \in Letters
  PROVE  DevAt(l) \in Dev /\ DevAt(l)[1] = l
<1>1. (port[l] \in WholeKeys) \in BOOLEAN
  OBVIOUS
<1>2. ASSUME NEW b \in BOOLEAN PROVE <<l, b>> \in Dev
  BY DEF Dev
<1>3. DevAt(l) \in Dev
  BY <1>1, <1>2, Zenon DEF DevAt
<1> QED
  BY <1>3 DEF DevAt

\* A key has a mount point as the device it is.
LEMMA KeyDevice ==
  ASSUME TypeOK, NEW k \in Keys, NEW m, m \in KeyAt[k]
  PROVE  m \in MountPoints /\ \E d \in Dev : Live(d) /\ port[d[1]] = k /\ In(d, mounts[m])
<1>1. PICK l \in Letters : port[l] = k /\ In(DevAt(l), mounts[m])
  BY DEF KeyAt
<1>2. DevAt(l) \in Dev /\ DevAt(l)[1] = l
  BY LetterDevice
<1>3. k # NoKey
  BY UsbMountAssumption
<1>4. Live(DevAt(l))
  BY <1>1, <1>2, <1>3 DEF Live
<1> QED
  BY <1>1, <1>2, <1>4 DEF KeyAt

\* Mounts of keys that are gone are nobody's.
LEMMA SameKeyAt ==
  ASSUME TypeOK, TypeOK', PortsUnique, port' = port,
         \A m \in MountPoints, d \in Dev : Live(d) => (In(d, mounts'[m]) <=> In(d, mounts[m]))
  PROVE  KeyAt' = KeyAt /\ PluggedKeys' = PluggedKeys
<1>1. PluggedKeys' = PluggedKeys
  BY DEF PluggedKeys
<1>2. ASSUME NEW l \in Letters, port[l] \in Keys, NEW m \in MountPoints
      PROVE  In(DevAt(l), mounts'[m]) <=> In(DevAt(l), mounts[m])
  <2>1. DevAt(l) \in Dev /\ DevAt(l)[1] = l
    BY LetterDevice
  <2>2. Live(DevAt(l))
    BY <1>2, <2>1, UsbMountAssumption DEF Live
  <2> QED
    BY <2>1, <2>2
<1>3. \A l \in Letters : DevAt(l)' = DevAt(l)
  BY DEF DevAt
<1>4. ASSUME NEW k \in Keys PROVE KeyAt'[k] = KeyAt[k]
  BY <1>2, <1>3 DEF KeyAt
<1> QED
  BY <1>1, <1>4 DEF KeyAt

\* An unmounting takes the mount point from the key on top, if it is plugged in.
LEMMA PopKey ==
  ASSUME TypeOK, TypeOK', PortsUnique, port' = port, NEW m \in MountPoints,
         mounts'[m] = Pop(mounts[m]), \A n \in MountPoints \ {m} : mounts'[n] = mounts[n],
         NEW t, t = Top(mounts[m])
  PROVE  /\ PluggedKeys' = PluggedKeys
         /\ \/ KeyAt' = KeyAt /\ ~(Live(t) /\ ~In(t, Pop(mounts[m])))
            \/ /\ Live(t) /\ port[t[1]] \in Keys /\ m \in KeyAt[port[t[1]]]
               /\ KeyAt' = [KeyAt EXCEPT ![port[t[1]]] = @ \ {m}]
<1>1. mounts[m] \in Seq(Dev)
  BY DEF TypeOK
<1>2. /\ \A d : In(d, Pop(mounts[m])) => In(d, mounts[m])
      /\ \A d : In(d, mounts[m]) => In(d, Pop(mounts[m])) \/ d = t
  BY <1>1, InPop, InSplit
<1> PICK k : k = port[t[1]]
  OBVIOUS
<1>4. CASE Live(t) /\ ~In(t, Pop(mounts[m]))
  <2>1. t \in Dev
    BY <1>4 DEF Live
  <2>2. In(t, mounts[m])
    BY <1>1, <2>1, LiveTopIn
  <2>3. /\ k \in Keys
        /\ \A n \in MountPoints : n \in KeyAt[k] <=> In(t, mounts[n])
    BY <1>4, <2>1, KeyOf
  <2>4. \A n \in MountPoints : n \in KeyAt'[k] <=> In(t, mounts'[n])
    <3>1. ASSUME NEW l \in Letters, port[l] = k PROVE l = t[1]
      BY <1>4, <2>1, <3>1, DevPair DEF PortsUnique, Live
    <3>2. DevAt(t[1])' = t /\ t[1] \in Letters
      BY <1>4, <2>1, DevPair DEF Live, DevAt
    <3> QED
      BY <2>3, <3>1, <3>2 DEF KeyAt
  <2>5. KeyAt[k] \subseteq MountPoints /\ KeyAt'[k] \subseteq MountPoints
    BY <2>3 DEF KeyAt
  <2>6. KeyAt'[k] = KeyAt[k] \ {m}
    BY <1>1, <1>4, <2>3, <2>4, <2>5
  <2>7. ASSUME NEW j \in Keys, j # k PROVE KeyAt'[j] = KeyAt[j]
    <3>1. ASSUME NEW l \in Letters, port[l] = j, NEW n \in MountPoints
          PROVE  In(DevAt(l), mounts'[n]) <=> In(DevAt(l), mounts[n])
      <4>1. DevAt(l) # t
        BY <2>7, <3>1 DEF DevAt
      <4>2. DevAt(l) \in Dev
        BY LetterDevice
      <4> QED
        BY <1>1, <1>2, <4>1, <4>2
    <3>2. \A l \in Letters : DevAt(l)' = DevAt(l)
      BY DEF DevAt
    <3> QED
      BY <3>1, <3>2 DEF KeyAt
  <2>8. KeyAt' = [KeyAt EXCEPT ![k] = @ \ {m}]
    BY <2>6, <2>7 DEF KeyAt
  <2> QED
    BY <1>4, <2>2, <2>3, <2>8 DEF PluggedKeys
<1>5. CASE ~(Live(t) /\ ~In(t, Pop(mounts[m])))
  <2>1. \A d : Live(d) => (In(d, Pop(mounts[m])) <=> In(d, mounts[m]))
    BY <1>2, <1>5
  <2>2. \A n \in MountPoints, d \in Dev : Live(d) => (In(d, mounts'[n]) <=> In(d, mounts[n]))
    BY <2>1
  <2> QED
    BY <1>5, <2>2, SameKeyAt
<1> QED
  BY <1>4, <1>5

LEMMA InAppended ==
  ASSUME NEW d, NEW s \in Seq(Dev), NEW e \in Dev
  PROVE  In(d, Append(s, e)) <=> In(d, s) \/ d = e
<1>1. ASSUME NEW i \in 1 .. Len(s) PROVE i \in 1 .. Len(Append(s, e)) /\ Append(s, e)[i] = s[i]
  OBVIOUS
<1>2. /\ Len(s) + 1 \in 1 .. Len(Append(s, e))
      /\ Append(s, e)[Len(s) + 1] = e
  OBVIOUS
<1> QED
  BY <1>1, <1>2, InAppend DEF In

\* A mounting gives the mount point to the key.
LEMMA PushKey ==
  ASSUME TypeOK, TypeOK', PortsUnique, port' = port, NEW m \in MountPoints,
         NEW d \in Dev, Live(d), mounts'[m] = Append(mounts[m], d),
         \A n \in MountPoints \ {m} : mounts'[n] = mounts[n]
  PROVE  /\ PluggedKeys' = PluggedKeys
         /\ KeyAt' = [KeyAt EXCEPT ![port[d[1]]] = @ \cup {m}]
<1> PICK k : k = port[d[1]]
  OBVIOUS
<1>1. mounts[m] \in Seq(Dev)
  BY DEF TypeOK
<1>2. \A e : In(e, mounts'[m]) <=> In(e, mounts[m]) \/ e = d
  BY <1>1, InAppended
<1>3. /\ k \in Keys
      /\ \A n \in MountPoints : n \in KeyAt[k] <=> In(d, mounts[n])
  BY KeyOf
<1>4. \A n \in MountPoints : n \in KeyAt'[k] <=> In(d, mounts'[n])
  <2>1. ASSUME NEW l \in Letters, port[l] = k PROVE l = d[1]
    BY <2>1, DevPair DEF PortsUnique, Live
  <2>2. DevAt(d[1])' = d /\ d[1] \in Letters
    BY DevPair DEF Live, DevAt
  <2> QED
    BY <1>3, <2>1, <2>2 DEF KeyAt
<1>5. KeyAt[k] \subseteq MountPoints /\ KeyAt'[k] \subseteq MountPoints
  BY <1>3 DEF KeyAt
<1>6. KeyAt'[k] = KeyAt[k] \cup {m}
  BY <1>1, <1>2, <1>3, <1>4, <1>5
<1>7. ASSUME NEW j \in Keys, j # k PROVE KeyAt'[j] = KeyAt[j]
  <2>1. ASSUME NEW l \in Letters, port[l] = j, NEW n \in MountPoints
        PROVE  In(DevAt(l), mounts'[n]) <=> In(DevAt(l), mounts[n])
    <3>1. DevAt(l) # d
      BY <1>7, <2>1 DEF DevAt
    <3> QED
      BY <1>1, <1>2, <3>1
  <2>2. \A l \in Letters : DevAt(l)' = DevAt(l)
    BY DEF DevAt
  <2> QED
    BY <2>1, <2>2 DEF KeyAt
<1>8. KeyAt' = [KeyAt EXCEPT ![k] = @ \cup {m}]
  BY <1>6, <1>7 DEF KeyAt
<1> QED
  BY <1>8 DEF PluggedKeys

-----------------------------------------------------------------------------
LEMMA QuietKept ==
  ASSUME UNCHANGED <<port, mounts, moving, rebooting>>, pc' = "start" <=> pc = "start"
  PROVE  UNCHANGED Kept!keyVars
<1>1. PluggedKeys' = PluggedKeys /\ KeyAt' = KeyAt
  BY DEF PluggedKeys, KeyAt, DevAt, In
<1> QED
  BY <1>1 DEF Kept!keyVars

LEMMA KeptWorld ==
  ASSUME TypeOK, TypeOK', PortsUnique, World
  PROVE  Kept!Next
<1>1. UNCHANGED <<mounts, moving, pc, rebooting>>
  BY DEF World, InsertKey, RemoveKey, panel, polling
<1>2. ASSUME NEW k \in Keys, NEW l \in Letters, InsertKey(k, l) PROVE Kept!Plug(k)
  <2>1. /\ port' = [port EXCEPT ![l] = k] /\ port[l] = NoKey
        /\ \A x \in Letters : port[x] # k
        /\ \A m \in MountPoints, b \in BOOLEAN : ~In(<<l, b>>, mounts[m])
    BY <1>2 DEF InsertKey
  <2>2. k # NoKey /\ NoKey \notin Keys
    BY UsbMountAssumption
  <2>3. \A x \in Letters : port'[x] = IF x = l THEN k ELSE port[x]
    BY <2>1 DEF TypeOK
  <2>4. k \notin PluggedKeys /\ PluggedKeys' = PluggedKeys \cup {k}
    BY <2>1, <2>2, <2>3 DEF PluggedKeys
  <2>5. ASSUME NEW j \in Keys, NEW m \in MountPoints
        PROVE  m \in KeyAt'[j] <=> m \in KeyAt[j]
    <3>1. CASE j = k
      <4>1. m \notin KeyAt[j]
        BY <2>1, <3>1 DEF KeyAt
      <4>2. ASSUME NEW x \in Letters, port'[x] = k, In(DevAt(x)', mounts[m]) PROVE FALSE
        <5>1. x = l
          BY <2>1, <2>3, <4>2
        <5>2. (port'[x] \in WholeKeys) \in BOOLEAN
          OBVIOUS
        <5> QED
          BY <2>1, <4>2, <5>1, <5>2, Zenon DEF DevAt
      <4> QED
        BY <1>1, <3>1, <4>1, <4>2 DEF KeyAt
    <3>2. CASE j # k
      <4>1. \A x \in Letters : /\ port'[x] = j <=> port[x] = j
                               /\ port[x] = j => DevAt(x)' = DevAt(x)
        BY <2>1, <2>2, <2>3, <3>2 DEF DevAt
      <4> QED
        BY <1>1, <4>1 DEF KeyAt
    <3> QED
      BY <3>1, <3>2
  <2>6. KeyAt' = KeyAt
    BY <2>5 DEF KeyAt
  <2> QED
    BY <1>1, <2>4, <2>6 DEF Kept!Plug
<1>3. ASSUME NEW l \in Letters, RemoveKey(l) PROVE port[l] \in Keys /\ Kept!PullOut(port[l])
  <2> PICK k : k = port[l]
    OBVIOUS
  <2>1. port' = [port EXCEPT ![l] = NoKey] /\ k # NoKey
    BY <1>3 DEF RemoveKey
  <2>2. k \in Keys /\ NoKey \notin Keys
    BY <2>1, UsbMountAssumption DEF TypeOK
  <2>3. \A x \in Letters : /\ port'[x] = IF x = l THEN NoKey ELSE port[x]
                           /\ port[x] = k => x = l
    BY <2>1 DEF TypeOK, PortsUnique
  <2>4. k \in PluggedKeys /\ PluggedKeys' = PluggedKeys \ {k}
    BY <2>1, <2>2, <2>3 DEF PluggedKeys
  <2>5. KeyAt'[k] = {}
    BY <2>1, <2>2, <2>3 DEF KeyAt
  <2>6. ASSUME NEW j \in Keys, j # k PROVE KeyAt'[j] = KeyAt[j]
    <3>1. \A x \in Letters : /\ port'[x] = j <=> port[x] = j
                             /\ port[x] = j => DevAt(x)' = DevAt(x)
      BY <2>2, <2>3, <2>6 DEF DevAt
    <3> QED
      BY <1>1, <3>1 DEF KeyAt
  <2>7. KeyAt' = [KeyAt EXCEPT ![k] = {}]
    BY <2>5, <2>6 DEF KeyAt
  <2> QED
    BY <1>1, <2>2, <2>4, <2>7 DEF Kept!PullOut
<1> QED
  BY <1>2, <1>3 DEF World, Kept!Next

\* Popping usb11, by whomever.
LEMMA KeptPanelSlot ==
  ASSUME TypeOK, TypeOK', PortsUnique, UNCHANGED <<port, moving, rebooting>>,
         mounts' = [mounts EXCEPT ![PanelSlot] = Pop(@)], pc' = pc
  PROVE  Kept!Next \/ UNCHANGED Kept!keyVars
<1> PICK t : t = Top(mounts[PanelSlot])
  OBVIOUS
<1>1. /\ PanelSlot \in MountPoints
      /\ mounts'[PanelSlot] = Pop(mounts[PanelSlot])
      /\ \A n \in MountPoints \ {PanelSlot} : mounts'[n] = mounts[n]
  BY DEF MountPoints, TypeOK
<1>2. PluggedKeys' = PluggedKeys
  BY <1>1, PopKey
<1>3. CASE KeyAt' = KeyAt
  BY <1>2, <1>3 DEF Kept!keyVars
<1>4. CASE KeyAt' # KeyAt
  <2>1. PICK k \in Keys : PanelSlot \in KeyAt[k] /\ KeyAt' = [KeyAt EXCEPT ![k] = @ \ {PanelSlot}]
    BY <1>1, <1>4, PopKey
  <2>2. Kept!GiveBack(k)
    BY <1>2, <2>1 DEF Kept!GiveBack
  <2> QED
    BY <2>2 DEF Kept!Next
<1> QED
  BY <1>3, <1>4

LEMMA KeptPanel ==
  ASSUME TypeOK, TypeOK', KInv, PortsUnique, Panel
  PROVE  Kept!Next \/ UNCHANGED Kept!keyVars
<1>1. port' = port /\ pc' = pc /\ rebooting' = rebooting
  BY DEF Panel, PanelSetNoMount, PanelUnmount0, PanelMount11, PanelUnmount11, kernel, polling
<1>2. CASE PanelSetNoMount
  BY <1>2, QuietKept DEF PanelSetNoMount, kernel, polling
<1>3. CASE PanelUnmount0
  <2> PICK t : t = Top(mounts[0])
    OBVIOUS
  <2>1. /\ moving = NoDev /\ moving' = t /\ Live(t)
        /\ mounts' = [mounts EXCEPT ![0] = Pop(@)]
    BY <1>3 DEF PanelUnmount0
  <2>2. /\ 0 \in MountPoints /\ 0 \in Slots
        /\ mounts'[0] = Pop(mounts[0])
        /\ \A n \in MountPoints \ {0} : mounts'[n] = mounts[n]
    BY <2>1, Constants DEF TypeOK
  <2>3. ~In(t, Pop(mounts[0]))
    BY <2>1, <2>2 DEF KInv, OnlyTopLive, Live
  <2>4. PluggedKeys' = PluggedKeys
    BY <1>1, <2>2, PopKey
  <2>5. PICK k \in Keys : 0 \in KeyAt[k] /\ KeyAt' = [KeyAt EXCEPT ![k] = @ \ {0}]
    BY <1>1, <2>1, <2>2, <2>3, PopKey
  <2>6. moving' # NoDev
    BY <2>1, NoDevNotDev DEF Live
  <2>7. Kept!TakeAway(k)
    BY <1>1, <2>1, <2>4, <2>5, <2>6 DEF Kept!TakeAway
  <2> QED
    BY <2>7 DEF Kept!Next
<1>4. CASE PanelMount11
  <2>1. moving # NoDev /\ moving' = NoDev
    BY <1>4 DEF PanelMount11
  <2>2. CASE Mountable(moving) /\ ~In(moving, mounts[PanelSlot])
    <3>1. mounts' = [mounts EXCEPT ![PanelSlot] = Append(@, moving)]
      BY <1>4, <2>2 DEF PanelMount11
    <3>2. /\ PanelSlot \in MountPoints
          /\ mounts'[PanelSlot] = Append(mounts[PanelSlot], moving)
          /\ \A n \in MountPoints \ {PanelSlot} : mounts'[n] = mounts[n]
      BY <3>1 DEF MountPoints, TypeOK
    <3>3. Live(moving) /\ moving \in Dev /\ port[moving[1]] \notin BadKeys
      BY <2>2 DEF Mountable, Live
    <3>4. port[moving[1]] \in Keys /\ port[moving[1]] \in PluggedKeys
      BY <3>3, KeyOf
    <3>5. /\ PluggedKeys' = PluggedKeys
          /\ KeyAt' = [KeyAt EXCEPT ![port[moving[1]]] = @ \cup {PanelSlot}]
      BY <1>1, <3>2, <3>3, PushKey
    <3>6. Kept!PutBeside(port[moving[1]])
      BY <1>1, <2>1, <3>3, <3>4, <3>5 DEF Kept!PutBeside
    <3> QED
      BY <3>4, <3>6 DEF Kept!Next
  <2>3. CASE ~(Mountable(moving) /\ ~In(moving, mounts[PanelSlot]))
    <3>1. mounts' = mounts
      BY <1>4, <2>3 DEF PanelMount11
    <3>2. PluggedKeys' = PluggedKeys /\ KeyAt' = KeyAt
      BY <1>1, <3>1 DEF PluggedKeys, KeyAt, DevAt, In
    <3>3. Kept!LetGo
      BY <1>1, <2>1, <3>2 DEF Kept!LetGo
    <3> QED
      BY <3>3 DEF Kept!Next
  <2> QED
    BY <2>2, <2>3
<1>5. CASE PanelUnmount11
  BY <1>1, <1>5, KeptPanelSlot DEF PanelUnmount11, panel
<1> QED
  BY <1>2, <1>3, <1>4, <1>5 DEF Panel

LEMMA KeptStart ==
  ASSUME ReleaseWorks, TypeOK, TypeOK', KInv, PortsUnique, NEW s \in Slots,
         Restart \/ ReleaseUsbSlot(s) \/ SlotsReleased
  PROVE  Kept!Next \/ UNCHANGED Kept!keyVars
<1>1. CASE Restart
  <2>1. UNCHANGED <<port, mounts, moving, rebooting>> /\ pc' = "start"
    BY <1>1 DEF Restart, StartOver, kernel, panel
  <2>2. PluggedKeys' = PluggedKeys /\ KeyAt' = KeyAt
    BY <2>1 DEF PluggedKeys, KeyAt, DevAt, In
  <2>3. Kept!Start
    BY <2>1, <2>2 DEF Kept!Start
  <2> QED
    BY <2>3 DEF Kept!Next
<1>2. CASE ReleaseUsbSlot(s)
  <2>1. /\ UNCHANGED <<port, moving, rebooting>> /\ pc = "start" /\ mounts[s] # <<>>
        /\ \/ mounts' = [mounts EXCEPT ![s] = Pop(@)] /\ pc' = pc
           \/ UmountMayFail
    BY <1>2 DEF ReleaseUsbSlot, panel
  <2>2. ~UmountMayFail
    BY <2>1 DEF ReleaseWorks, KInv, StartClean
  <2> PICK t : t = Top(mounts[s])
    OBVIOUS
  <2>3. /\ s \in MountPoints
        /\ mounts'[s] = Pop(mounts[s])
        /\ \A n \in MountPoints \ {s} : mounts'[n] = mounts[n]
    BY <2>1, <2>2, Constants DEF TypeOK
  <2>4. PluggedKeys' = PluggedKeys
    BY <2>1, <2>3, PopKey
  <2>5. CASE KeyAt' = KeyAt
    BY <2>1, <2>2, <2>4, <2>5 DEF Kept!keyVars
  <2>6. CASE KeyAt' # KeyAt
    <3>1. PICK k \in Keys : s \in KeyAt[k] /\ KeyAt' = [KeyAt EXCEPT ![k] = @ \ {s}]
      BY <2>1, <2>3, <2>6, PopKey
    <3>2. Kept!Release(k, s)
      BY <2>1, <2>2, <2>4, <3>1 DEF Kept!Release
    <3> QED
      BY <3>2 DEF Kept!Next
  <2> QED
    BY <2>5, <2>6
<1>3. CASE SlotsReleased
  <2>1. /\ UNCHANGED <<port, mounts, moving, rebooting>> /\ pc' # "start"
        /\ \A x \in Slots : mounts[x] = <<>>
    BY <1>3 DEF SlotsReleased, kernel, panel
  <2>2. PluggedKeys' = PluggedKeys /\ KeyAt' = KeyAt
    BY <2>1 DEF PluggedKeys, KeyAt, DevAt, In
  <2>3. ASSUME NEW k \in Keys PROVE KeyAt[k] \cap Slots = {}
    BY <2>1, NotInEmpty DEF KeyAt
  <2>4. Kept!Ready
    BY <2>1, <2>2, <2>3 DEF Kept!Ready
  <2> QED
    BY <2>4 DEF Kept!Next
<1> QED
  BY <1>1, <1>2, <1>3

\* From the order to reboot until the box is down anything may happen to the keys,
\* but one that is not plugged in is nowhere.
LEMMA KeptReboot == ASSUME Reboot PROVE Kept!Reboot
<1>1. /\ port' = port /\ moving' = NoDev /\ pc' = "start" /\ rebooting /\ rebooting' = FALSE
      /\ mounts' = [m \in MountPoints |-> <<>>]
  BY DEF Reboot, StartOver
<1>2. PluggedKeys' = PluggedKeys
  BY <1>1 DEF PluggedKeys
<1>3. ASSUME NEW m \in MountPoints, NEW d PROVE ~In(d, mounts'[m])
  BY <1>1, NotInEmpty
<1>4. KeyAt' = [k \in Keys |-> {}]
  BY <1>3 DEF KeyAt
<1> QED
  BY <1>1, <1>2, <1>4 DEF Kept!Reboot

LEMMA KeptGoOn == ASSUME TypeOK', rebooting, rebooting' PROVE Kept!GoOn
<1>1. rebooting' = TRUE
  BY DEF TypeOK
<1>2. PluggedKeys' \in SUBSET Keys
  BY DEF TypeOK, PluggedKeys
<1>3. ASSUME NEW k \in Keys PROVE KeyAt'[k] \subseteq Kept!Points
  BY DEF KeyAt, MountPoints, Kept!Points
<1>4. KeyAt' \in [Keys -> SUBSET Kept!Points]
  BY <1>3 DEF KeyAt
<1>5. ASSUME NEW k \in Keys \ PluggedKeys' PROVE KeyAt'[k] = {}
  BY <1>5, UsbMountAssumption DEF PluggedKeys, KeyAt
<1>6. (moving # NoDev)' \in BOOLEAN /\ (pc = "start")' \in BOOLEAN
  OBVIOUS
<1> QED
  BY <1>1, <1>2, <1>4, <1>5, <1>6 DEF Kept!GoOn

LEMMA KeptOrder ==
  ASSUME TypeOK', [Next]_vars, ~rebooting, rebooting'
  PROVE  Kept!Order
<1>1. PICK s \in 0 .. NumSlots : ChooseSlot(s)
  BY OrderGiven
<1>2. /\ UNCHANGED <<port, mounts, moving>> /\ pc = "insertions" /\ pc' = "clearing"
      /\ rebooting' = TRUE
  BY <1>1 DEF ChooseSlot, panel, TypeOK
<1>3. PluggedKeys' = PluggedKeys /\ KeyAt' = KeyAt
  BY <1>2 DEF PluggedKeys, KeyAt, DevAt, In
<1> QED
  BY <1>2, <1>3 DEF Kept!Order

\* mountCheck gives a mount point that no key has to a key that has none.
LEMMA KeptMount ==
  ASSUME IInv, TypeOK', Usual, KInv, PortsUnique, MountSucceeds
  PROVE  Kept!Next
<1> USE DEF IInv
<1> PICK d : d = SeenDev(cursor)
  OBVIOUS
<1>1. /\ UNCHANGED <<port, moving, rebooting>> /\ pc = "mounting" /\ pc' = "insertions"
      /\ mounts' = [mounts EXCEPT ![target] = Append(@, d)]
      /\ Mountable(d)
  BY DEF MountSucceeds, panel
<1>2. /\ cursor \in Letters /\ target \in Slots \ UsedSlots /\ target \in MountPoints
      /\ seen[cursor] # "none" /\ seenAt[cursor] = None
  <2>1. target \in Slots \ UsedSlots
    BY <1>1, UsualSlots, Constants DEF ProgressOK
  <2> QED
    BY <1>1, <2>1, Constants DEF ProgressOK, KInv, SnapshotOK, ChosenUnmounted
<1>3. Live(d) /\ d \in Dev /\ d[1] = cursor /\ port[cursor] \notin BadKeys
  BY <1>1 DEF Mountable, Live, SeenDev
<1>4. port[cursor] \in Keys /\ port[cursor] \in PluggedKeys
  BY <1>3, KeyOf
<1>5. KeyAt[port[cursor]] \cap Slots = {}
  <2>1. \A s \in Slots : ~In(d, mounts[s])
    BY <1>1, <1>2, <1>3, NoEntryYet
  <2> QED
    BY <1>3, <2>1, KeyOf, Constants
<1>6. ASSUME NEW other \in Keys PROVE target \notin KeyAt[other]
  <2> SUFFICES ASSUME target \in KeyAt[other] PROVE FALSE
    OBVIOUS
  <2>1. PICK e \in Dev : Live(e) /\ In(e, mounts[target])
    BY KeyDevice
  <2>2. PICK i \in Slots : loc[i] = target
    BY <1>1, <1>2, <2>1 DEF KInv, LiveBooked
  <2> QED
    BY <1>2, <2>2, Constants DEF UsedSlots
<1>7. /\ mounts'[target] = Append(mounts[target], d)
      /\ \A n \in MountPoints \ {target} : mounts'[n] = mounts[n]
  BY <1>1, <1>2 DEF TypeOK
<1>8. /\ PluggedKeys' = PluggedKeys
      /\ KeyAt' = [KeyAt EXCEPT ![port[cursor]] = @ \cup {target}]
  BY <1>1, <1>2, <1>3, <1>7, PushKey
<1>9. Kept!Mount(port[cursor], target)
  BY <1>1, <1>2, <1>3, <1>4, <1>5, <1>6, <1>8 DEF Kept!Mount
<1> QED
  BY <1>2, <1>4, <1>9 DEF Kept!Next

\* What mountCheck unmounts from usb0 .. is nobody's.
LEMMA KeptUnmount ==
  ASSUME IInv, TypeOK', Usual, KInv, PortsUnique, UnmountGone \/ ClearDeadMount
  PROVE  UNCHANGED Kept!keyVars
<1> USE DEF IInv
<1>1. UNCHANGED <<port, moving, rebooting>> /\ pc # "start" /\ pc' # "start" /\ Poll
  BY DEF UnmountGone, ClearDeadMount, panel, Poll
<1>2. PICK s \in Slots : mounts' \in {mounts, [mounts EXCEPT ![s] = Pop(@)]}
  <2>1. CASE UnmountGone
    <3>1. cursor \in Slots /\ mnt[cursor] # None
      BY <2>1, Constants DEF UnmountGone, TypeOK, Slots
    <3>2. loc[cursor] \in Slots
      BY <3>1, Booked
    <3> QED
      BY <2>1, <3>2 DEF UnmountGone
  <2>2. CASE ClearDeadMount
    BY <2>2, UsualSlots, Constants DEF ClearDeadMount, ProgressOK
  <2> QED
    BY <2>1, <2>2
<1>3. s \in MountPoints
  BY Constants
<1>4. /\ OnlyShrinks
      /\ \A n \in MountPoints \ {s} : mounts'[n] = mounts[n]
  BY <1>1, <1>2, <1>3, PopShrinks
<1>5. ASSUME NEW m \in MountPoints, NEW d \in Dev, Live(d)
      PROVE  In(d, mounts'[m]) <=> In(d, mounts[m])
  <2>1. CASE m = s
    BY <1>1, <1>4, <1>5, <2>1, LiveStaysMounted DEF OnlyShrinks
  <2>2. CASE m # s
    BY <1>4, <2>2
  <2> QED
    BY <2>1, <2>2
<1>6. KeyAt' = KeyAt /\ PluggedKeys' = PluggedKeys
  BY <1>1, <1>5, SameKeyAt
<1> QED
  BY <1>1, <1>6 DEF Kept!keyVars

LEMMA KeptPoll ==
  ASSUME ReleaseWorks, IInv, TypeOK', Usual, KInv, PortsUnique, Poll, ~rebooting'
  PROVE  Kept!Next \/ UNCHANGED Kept!keyVars
<1> USE DEF IInv
<1>1. CASE (\E s \in Slots : ReleaseUsbSlot(s)) \/ SlotsReleased
  BY <1>1, KeptStart, Constants
<1>2. CASE MountSucceeds
  BY <1>2, KeptMount
<1>3. CASE UnmountGone \/ ClearDeadMount
  BY <1>3, KeptUnmount
<1>4. CASE UnmountPanelSlot
  BY <1>4, KeptPanelSlot DEF UnmountPanelSlot, panel
<1>5. CASE \/ PollStart \/ SkipEmptyEntry \/ ForgetGone \/ ForgetMoved \/ StillMounted
           \/ RemovalsDone \/ SkipLine \/ (\E s \in 0 .. NumSlots : ChooseSlot(s))
           \/ CheckFileSystem \/ MountFails \/ RegisterMount \/ PanelSlotBusy
           \/ CompactTable \/ CheckInternalContent
  <2>1. UNCHANGED <<port, mounts, moving>> /\ pc # "start" /\ pc' # "start"
    BY <1>5 DEF PollStart, SkipEmptyEntry, ForgetGone, ForgetMoved, StillMounted,
       RemovalsDone, SkipLine, ChooseSlot, CheckFileSystem, RunFsCheck, MountFails,
       RegisterMount, PanelSlotBusy, CompactTable, CheckInternalContent, kernel, panel
  <2>2. UNCHANGED rebooting
    BY DEF Usual, TypeOK
  <2> QED
    BY <2>1, <2>2, QuietKept
<1>6. ~PollDies
  BY Alive
<1> QED
  BY <1>1, <1>2, <1>3, <1>4, <1>5, <1>6 DEF Poll

LEMMA KeptInit == Init => Kept!Init
<1> SUFFICES ASSUME Init PROVE Kept!Init
  OBVIOUS
<1>1. PluggedKeys = {}
  BY DEF Init, PluggedKeys
<1>2. \A k \in Keys : KeyAt[k] = {}
  BY UsbMountAssumption DEF Init, KeyAt
<1>3. KeyAt = [k \in Keys |-> {}]
  BY <1>2 DEF KeyAt
<1> QED
  BY <1>1, <1>3 DEF Init, Kept!Init

\* However keys, panel, polls and restarts interleave, each key has a mount point
\* of its own until it is pulled out or the panel takes it away: the mounts that
\* PxUSBm.py and usb.py make are those that KeyMounts describes, if the daemon's
\* umount commands work, or if it is never restarted.  (KeyMounts promises nothing of
\* the kind from the order to reboot, which more keys than mount points bring about,
\* until the box is down.)
THEOREM MountsImplementKeyMounts == ReleaseWorks /\ Spec => MountsKept
<1> SUFFICES ASSUME ReleaseWorks PROVE Spec => MountsKept
  OBVIOUS
<1>1. /\ IInv /\ InRange /\ (rebooting \/ KInv) /\ PortsUnique /\ IInv' /\ [Next]_vars
      => [Kept!Next]_(Kept!keyVars)
  <2> SUFFICES ASSUME IInv, InRange, rebooting \/ KInv, PortsUnique, IInv', [Next]_vars
               PROVE  Kept!Next \/ UNCHANGED Kept!keyVars
    OBVIOUS
  <2>1. TypeOK /\ TypeOK'
    BY DEF IInv
  <2>2. CASE Reboot
    BY <2>2, KeptReboot DEF Kept!Next
  <2>3. CASE rebooting'
    <3>1. CASE rebooting
      BY <2>1, <2>3, <3>1, KeptGoOn DEF Kept!Next
    <3>2. CASE ~rebooting
      BY <2>1, <2>3, <3>2, KeptOrder DEF Kept!Next
    <3> QED
      BY <3>1, <3>2
  <2>4. CASE ~Reboot /\ ~rebooting'
    <3>1. Usual /\ KInv
      BY <2>4, OrderStands DEF Usual
    <3>2. CASE World
      BY <2>1, <3>2, KeptWorld
    <3>3. CASE Panel
      BY <2>1, <3>1, <3>3, KeptPanel
    <3>4. CASE Restart
      BY <2>1, <3>1, <3>4, KeptStart, Constants
    <3>5. CASE Poll
      BY <2>1, <2>4, <3>1, <3>5, KeptPoll
    <3>6. CASE UNCHANGED vars
      BY <3>6, QuietKept DEF vars, kernel, panel, polling
    <3> QED
      BY <2>4, <3>2, <3>3, <3>4, <3>5, <3>6 DEF Next
  <2> QED
    BY <2>2, <2>3, <2>4
<1>2. IInv /\ PortsUnique /\ [Next]_vars => PortsUnique'
  BY PortsStep DEF IInv
<1> QED
  BY KeysTracked, PortsInit, KeptInit, <1>1, <1>2, PTL DEF Spec, MountsKept, Kept!Spec

\* What KeyMounts promises follows from its steps alone.
LEMMA OneEachStep ==
  ASSUME Kept!OneEach, Kept!Next \/ UNCHANGED Kept!keyVars
  PROVE  Kept!OneEach'
<1>1. /\ KeyAt = [k \in Keys |-> KeyAt[k]]
      /\ KeyAt' = [k \in Keys |-> KeyAt'[k]]
  BY DEF KeyAt
<1>2. CASE Kept!GoOn
  BY <1>2 DEF Kept!GoOn, Kept!OneEach
<1>3. CASE Kept!Reboot
  BY <1>3 DEF Kept!Reboot, Kept!OneEach
<1>4. CASE Kept!Order
  BY <1>4 DEF Kept!Order, Kept!OneEach
<1>5. CASE \/ UNCHANGED Kept!keyVars
           \/ Kept!LetGo \/ Kept!Start \/ Kept!Ready
           \/ \E k \in Keys : Kept!Plug(k)
  <2>1. /\ KeyAt' = KeyAt /\ rebooting' = rebooting
        /\ \A j \in PluggedKeys : j \in PluggedKeys'
    BY <1>5 DEF Kept!keyVars, Kept!LetGo, Kept!Start, Kept!Ready, Kept!Plug
  <2> QED
    BY <2>1 DEF Kept!OneEach
\* Steps that only take mount points away.
<1>6. CASE \E k \in Keys : \/ Kept!PullOut(k) \/ Kept!TakeAway(k) \/ Kept!GiveBack(k)
                           \/ \E s \in Slots : Kept!Release(k, s)
  <2>1. /\ \A j \in Keys : KeyAt'[j] \subseteq KeyAt[j]
        /\ rebooting' = rebooting
    BY <1>1, <1>6 DEF Kept!PullOut, Kept!TakeAway, Kept!GiveBack, Kept!Release
  <2>2. \A j \in Keys : j \in PluggedKeys /\ j \notin PluggedKeys' => KeyAt'[j] = {}
    BY <1>1, <1>6 DEF Kept!PullOut, Kept!TakeAway, Kept!GiveBack, Kept!Release
  <2>3. \A j \in Keys : j \notin PluggedKeys' => KeyAt'[j] = {}
    BY <2>1, <2>2 DEF Kept!OneEach
  <2> QED
    BY <2>1, <2>3 DEF Kept!OneEach
<1>7. ASSUME NEW k \in Keys, Kept!PutBeside(k)
      PROVE  /\ PluggedKeys' = PluggedKeys /\ k \in PluggedKeys /\ rebooting' = rebooting
             /\ \A j \in Keys \ {k} : KeyAt'[j] = KeyAt[j]
             /\ \A s \in Slots : s \in KeyAt'[k] <=> s \in KeyAt[k]
  BY <1>1, <1>7, Constants DEF Kept!PutBeside
<1>8. CASE \E k \in Keys : Kept!PutBeside(k)
  BY <1>7, <1>8 DEF Kept!OneEach
<1>9. ASSUME NEW k \in Keys, NEW t \in Slots, Kept!Mount(k, t)
      PROVE  /\ PluggedKeys' = PluggedKeys /\ k \in PluggedKeys /\ rebooting' = rebooting
             /\ \A j \in Keys \ {k} : KeyAt'[j] = KeyAt[j] /\ t \notin KeyAt[j]
             /\ \A s \in Slots : s \in KeyAt'[k] <=> s = t
  BY <1>1, <1>9 DEF Kept!Mount
<1>10. CASE \E k \in Keys, t \in Slots : Kept!Mount(k, t)
  <2> PICK k \in Keys, t \in Slots : Kept!Mount(k, t)
    BY <1>10
  <2> QED
    BY <1>9 DEF Kept!OneEach
<1> QED
  BY <1>2, <1>3, <1>4, <1>5, <1>6, <1>8, <1>10 DEF Kept!Next

\* Under the same assumption, and unless a reboot is ordered, no two keys that are plugged
\* in are at one mount point of usb0 .., and no key is at two of them; and a key that is
\* not plugged in is nowhere, whatever is ordered.
THEOREM OneSlotEach == ReleaseWorks /\ Spec => []Kept!OneEach
<1>1. Kept!Init => Kept!OneEach
  BY DEF Kept!Init, Kept!OneEach
<1>2. Kept!OneEach /\ [Kept!Next]_(Kept!keyVars) => Kept!OneEach'
  BY OneEachStep
<1> QED
  BY MountsImplementKeyMounts, <1>1, <1>2, PTL DEF MountsKept, Kept!Spec
=============================================================================
