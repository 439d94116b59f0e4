----------------------------- MODULE PanelProofs -----------------------------
(***************************************************************************)
(* What TLAPS proves about Panel, for any sticks, buttons and faults: the  *)
(* types; that every command that ends by itself has put usb0NoMount back, *)
(* if all callbacks share a thread; that the status file is explained by a *)
(* command or a run of mmiLoader, whatever the threads; and, for one stick *)
(* and one thread, that copy_from_usb never empties the stick it copies.   *)
(***************************************************************************)
EXTENDS Panel, TLAPS

\* From its first step to its clean-up, copy_from_usb has mounting suspended.
Suspended == {"cf_look", "cf_insert", "cf_dev", "cf_move", "cf_remount", "cf_mount",
              "cf_space", "cf_erase", "cf_check", "cf_copy", "cf_remove", "cf_wait",
              "cf_done"}

\* A command that is here may have written the status file.
Writing == (Suspended \ {"cf_look", "cf_insert"}) \cup
           {"ru_wait", "ct_move", "ct_mount", "ct_erase", "ct_check", "ct_copy",
            "ct_stuck", "ct_remove", "ct_wait", "ct_done"}

Astray == {"crashed", "moved"}

Places == {"idle", "timing", "short", "over", "ru_start", "cf_suspend", "ef_start",
           "ct_start", "ct_insert", "ct_look", "ct_sizes"}
          \cup Suspended \cup Writing \cup Astray

PcType == pc \in [Buttons -> Places]

\* The admin pages are shown from the admin menu only.
AdminShown == page \in AdminPages => pages = "admin"

PInv == TypeOK /\ PcType /\ AdminShown /\ 0 \in dirs

-----------------------------------------------------------------------------
\* isUsbPresent() answers with a stick that is plugged in, or with none.
LEMMA FirstFromType ==
  ASSUME plugged \subseteq Sticks, NEW d
  PROVE  FirstFrom(d) \in Sticks \cup {NoStick}
BY DEF FirstFrom

\* The highest mount point there is exists.
LEMMA HighestPoint ==
  ASSUME dirs \subseteq Points, 0 \in dirs
  PROVE  (CHOOSE x \in dirs : \A y \in dirs : y <= x) \in dirs
<1>1. \E x \in dirs : \A y \in dirs : y <= x
  <2>1. CASE 11 \in dirs
    BY <2>1 DEF Points
  <2>2. CASE 11 \notin dirs /\ 1 \in dirs
    BY <2>2 DEF Points
  <2>3. CASE 11 \notin dirs /\ 1 \notin dirs
    BY <2>3 DEF Points
  <2> QED
    BY <2>1, <2>2, <2>3
<1> QED
  BY <1>1

\* Turning pages, either way, ends at a page.
LEMMA TurnType ==
  ASSUME pages \in {"status", "admin"}
  PROVE  /\ Turn(Forward(page)) \in AdminPages \cup StatusPages
         /\ Turn(Backward(page)) \in AdminPages \cup StatusPages
         /\ pages = "status" => Turn(Forward(page)) \in StatusPages /\ Turn(Backward(page)) \in StatusPages
<1>1. CASE pages = "admin"
  <2>1. PagesOf[pages] = AdminPages /\ StartPage[pages] = "copy_from_usb"
    BY <1>1 DEF PagesOf, StartPage
  <2>2. \A p \in AdminPages : NextPage[p] \in AdminPages
    BY DEF NextPage, AdminPages, StatusPages
  <2>3. \A p \in AdminPages : \E q \in AdminPages : NextPage[q] = p
    BY DEF NextPage, AdminPages, StatusPages
  <2>4. ASSUME page \in AdminPages PROVE Backward(page) \in AdminPages
    BY <2>1, <2>3, <2>4 DEF Backward
  <2> QED
    BY <1>1, <2>1, <2>2, <2>4 DEF Turn, Forward, AdminPages
<1>2. CASE pages = "status"
  <2>1. PagesOf[pages] = StatusPages /\ StartPage[pages] = "main"
    BY <1>2 DEF PagesOf, StartPage
  <2>2. \A p \in StatusPages : NextPage[p] \in StatusPages
    BY DEF NextPage, AdminPages, StatusPages
  <2>3. \A p \in StatusPages : \E q \in StatusPages : NextPage[q] = p
    BY DEF NextPage, AdminPages, StatusPages
  <2>4. ASSUME page \in StatusPages PROVE Backward(page) \in StatusPages
    BY <2>1, <2>3, <2>4 DEF Backward
  <2> QED
    BY <2>1, <2>2, <2>4 DEF Turn, Forward, StatusPages
<1> QED
  BY <1>1, <1>2

LEMMA PanelInit == Init => PInv
<1> SUFFICES ASSUME Init PROVE PInv
  OBVIOUS
<1>1. WorldType /\ 0 \in dirs
  BY PanelAssumption DEF Init, WorldType, Points, None
<1>2. FlagsType
  BY DEF Init, FlagsType
<1>3. DisplayType /\ AdminShown
  BY DEF Init, DisplayType, StackNames, StatusPages, AdminPages, AdminShown
<1>4. LocalsType
  BY DEF Init, LocalsType, StackNames, Points, None
<1>5. PcType
  BY DEF Init, PcType, Places
<1> QED
  BY <1>1, <1>2, <1>3, <1>4, <1>5 DEF PInv, TypeOK

-----------------------------------------------------------------------------
\* The sticks, the mounts and the folders

LEMMA CopyFromWorld ==
  ASSUME PInv, NEW b \in Buttons, CopyFromUsb(b) PROVE WorldType' /\ 0 \in dirs'
<1> USE DEF PInv, TypeOK, WorldType
<1>1. CASE CfUnmount(b)
  BY <1>1 DEF CfUnmount, Points, None
<1>2. CASE CfRemount(b)
  BY <1>2 DEF CfRemount, Points
<1>3. CASE CfMount(b)
  <2>1. FirstFrom(dev[b]) \in Sticks \cup {NoStick}
    BY FirstFromType
  <2>2. (CHOOSE x \in dirs : \A y \in dirs : y <= x) \in Points
    BY HighestPoint
  <2> QED
    BY <1>3, <2>1, <2>2 DEF CfMount
<1>4. CASE CfErase(b)
  BY <1>4 DEF CfErase, EraseAt
<1>5. CASE CfCopied(b)
  BY <1>5 DEF CfCopied, LiveAt, None
<1>6. CASE UNCHANGED world
  BY <1>6 DEF world
<1> QED
  BY <1>1, <1>2, <1>3, <1>4, <1>5, <1>6
  DEF CopyFromUsb, CfSuspend, CfLook, CfInserted, CfDev, CfMoveFails, CfSpace, CfCheck,
      CfRemoved, CfCopyFails, CfAllOut, CfDone

LEMMA CopyToWorld ==
  ASSUME PInv, NEW b \in Buttons, CopyToUsb(b) PROVE WorldType' /\ 0 \in dirs'
<1> USE DEF PInv, TypeOK, WorldType
<1>1. CASE CtMount(b)
  BY <1>1, FirstFromType DEF CtMount, Points
<1>2. CASE CtMoveFails(b)
  BY <1>2 DEF CtMoveFails
<1>6. CASE CtMoved(b)
  <2>1. at' \in [Sticks -> Points \cup {None}]
    BY <1>6 DEF CtMoved, Points
  <2>2. dirs' \subseteq Points /\ 0 \in dirs'
    BY <1>6 DEF CtMoved, Points
  <2> QED
    BY <1>6, <2>1, <2>2 DEF CtMoved
<1>3. CASE CtErase(b)
  BY <1>3 DEF CtErase
<1>4. CASE CtCopied(b)
  BY <1>4 DEF CtCopied, LiveAt, None
<1>5. CASE UNCHANGED world
  BY <1>5 DEF world
<1> QED
  BY <1>1, <1>2, <1>3, <1>4, <1>5, <1>6
  DEF CopyToUsb, CtStart, CtInserted, CtLook, CtSizes, CtCheck, CtRemoved, CtCopyFails,
      CtAllOut, CtDone

LEMMA WorldStep == ASSUME PInv, Next PROVE WorldType' /\ 0 \in dirs'
<1> USE DEF PInv, TypeOK, WorldType
<1>1. CASE People
  BY <1>1 DEF People, PlugIn, PullOut, None
<1>2. CASE Daemon
  <2>1. ASSUME NEW k \in Sticks, Poll(k) PROVE WorldType' /\ 0 \in dirs'
    BY <2>1 DEF Poll, Points
  <2>2. ASSUME NEW k \in Sticks, DaemonFreesUsb11(k) PROVE WorldType' /\ 0 \in dirs'
    BY <2>2 DEF DaemonFreesUsb11
  <2> QED
    BY <1>2, <2>1, <2>2 DEF Daemon
<1>3. CASE PowerCut
  BY <1>3 DEF PowerCut, None
<1>4. ASSUME NEW b \in Buttons, Callback(b) PROVE WorldType' /\ 0 \in dirs'
  <2>1. CASE EraseFolder(b)
    BY <2>1 DEF EraseFolder, EfStart, EfErase, world
  <2>2. CASE Handle(b) \/ RemoveUsb(b)
    BY <2>2 DEF Handle, Released, LongPress, Noise, ShortPress, MoveToStartPage, ChooseCancel, MovePage, EnterOnMenu,
       EnterCommand, CallbackOver, RemoveUsb, RuStart, RuAgain, RuDone, world
  <2> QED
    BY <1>4, <2>1, <2>2, CopyFromWorld, CopyToWorld DEF Callback
<1>5. CASE UNCHANGED world
  BY <1>5 DEF world
<1> QED
  BY <1>1, <1>2, <1>3, <1>4, <1>5
  DEF Next, LoaderStarts, LoaderEnds, MainLoop, DisplayTimesOut, ShowProgress,
      ProgressOver, LowBatteryPage, Press, ServiceRestarts

-----------------------------------------------------------------------------
\* The flags

LEMMA FlagsStep == ASSUME PInv, Next PROVE FlagsType'
<1> USE DEF PInv, TypeOK, FlagsType, files
<1>1. CASE People \/ Daemon \/ LoaderStarts \/ LoaderEnds
  BY <1>1 DEF People, PlugIn, PullOut, Daemon, Poll, DaemonFreesUsb11, LoaderStarts, LoaderEnds
<1>2. CASE MainLoop \/ PowerCut \/ ServiceRestarts
  BY <1>2 DEF MainLoop, DisplayTimesOut, ShowProgress, ProgressOver, LowBatteryPage,
     PowerCut, ServiceRestarts, Fresh
<1>3. ASSUME NEW b \in Buttons, Press(b) \/ Callback(b) PROVE FlagsType'
  <2> USE DEF LocalsType, Quiet, PutBack, StartLoader
  <2>1. CASE Press(b) \/ Handle(b)
    BY <2>1 DEF Press, Handle, Released, LongPress, Noise, ShortPress, MoveToStartPage, ChooseCancel, MovePage, EnterOnMenu,
       EnterCommand, CallbackOver
  <2>2. CASE RemoveUsb(b) \/ EraseFolder(b)
    BY <2>2 DEF RemoveUsb, RuStart, RuAgain, RuDone, EraseFolder, EfStart, EfErase
  <2>3. CASE CopyFromUsb(b)
    BY <2>3 DEF CopyFromUsb, CfSuspend, CfLook, CfInserted, CfDev, CfMoveFails, CfUnmount,
       CfRemount, CfMount, CfSpace, CfErase, CfCheck, CfRemoved, CfCopyFails, CfCopied,
       CfAllOut, CfDone
  <2>4. CASE CopyToUsb(b)
    BY <2>4 DEF CopyToUsb, CtStart, CtInserted, CtLook, CtSizes, CtMount, CtMoveFails,
       CtMoved, CtErase, CtCheck, CtRemoved, CtCopyFails, CtCopied, CtAllOut, CtDone
  <2> QED
    BY <1>3, <2>1, <2>2, <2>3, <2>4 DEF Callback
<1> QED
  BY <1>1, <1>2, <1>3 DEF Next

-----------------------------------------------------------------------------
\* The display

LEMMA SwitchType == ASSUME PInv, SwitchPages PROVE DisplayType' /\ AdminShown'
BY DEF PInv, TypeOK, DisplayType, AdminShown, StackNames, SwitchPages, StartPage, AdminPages, StatusPages

LEMMA DisplayStep == ASSUME PInv, Next PROVE DisplayType' /\ AdminShown'
<1> USE DEF PInv, TypeOK, DisplayType, AdminShown, display
<1>1. CASE UNCHANGED display
  BY <1>1
<1>2. CASE People \/ Daemon \/ LoaderStarts \/ LoaderEnds
  BY <1>1, <1>2 DEF People, PlugIn, PullOut, Daemon, Poll, DaemonFreesUsb11,
     LoaderStarts, LoaderEnds
<1>3. CASE MainLoop
  BY <1>3 DEF MainLoop, DisplayTimesOut, ShowProgress, ProgressOver, LowBatteryPage,
     Show, PowerOffDisplay, OtherPages, AdminPages, StackNames
<1>4. CASE PowerCut \/ ServiceRestarts
  BY <1>4 DEF PowerCut, ServiceRestarts, Fresh, StatusPages, AdminPages, StackNames
<1>5. ASSUME NEW b \in Buttons, Press(b) \/ Handle(b) PROVE DisplayType' /\ AdminShown'
  <2>1. CASE ShortPress(b)
    <3>1. page' \in AdminPages \cup StatusPages /\ AdminShown'
      BY <2>1, TurnType DEF ShortPress, MoveToStartPage, ChooseCancel, MovePage, Show, StartPage, AdminPages, StatusPages
    <3>2. pages' = pages /\ command' = command /\ stack' \in {"admin", stack}
      BY <2>1 DEF ShortPress, MoveToStartPage, ChooseCancel, MovePage, Show
    <3> QED
      BY <3>1, <3>2 DEF StackNames
  <2>2. CASE LongPress(b)
    BY <2>2, SwitchType DEF LongPress
  <2>3. CASE EnterOnMenu(b)
    <3>1. CASE SwitchPages
      BY <3>1, SwitchType
    <3>2. CASE UNCHANGED pages /\ stack' = "confirm" /\ page' = "confirm"
               /\ command' = page /\ page \in AdminPages \ {LastPage}
      <4>1. LastPage = "exit"
        BY <3>2 DEF LastPage
      <4> QED
        BY <3>2, <4>1 DEF StackNames, OtherPages, AdminPages
    <3> QED
      BY <2>3, <3>1, <3>2, <1>1 DEF EnterOnMenu
  <2> QED
    BY <1>1, <1>5, <2>1, <2>2, <2>3 DEF Press, Handle, Released, Noise, EnterCommand, CallbackOver
<1>6. ASSUME NEW b \in Buttons, RemoveUsb(b) \/ EraseFolder(b) \/ CopyFromUsb(b) \/ CopyToUsb(b)
      PROVE  DisplayType' /\ AdminShown'
  <2>1. CASE \/ UNCHANGED display \/ AskToRemove \/ ShowError \/ ShowSuccess \/ Show("wait")
             \/ ShowAs("wait", "wait") \/ ShowAs("insertUSB", "insert_usb")
             \/ ShowAs("remove_usb", "remove_usb")
    BY <2>1 DEF AskToRemove, ShowError, ShowSuccess, Show, ShowAs, StackNames, OtherPages, AdminPages
  <2>2. CASE RemoveUsb(b) \/ EraseFolder(b)
    BY <2>1, <2>2 DEF RemoveUsb, RuStart, RuAgain, RuDone, EraseFolder, EfStart, EfErase
  <2>3. CASE CopyFromUsb(b)
    BY <2>1, <2>3 DEF CopyFromUsb, CfSuspend, CfLook, CfInserted, CfDev, CfMoveFails,
       CfUnmount, CfRemount, CfMount, CfSpace, CfErase, CfCheck, CfRemoved, CfCopyFails,
       CfCopied, CfAllOut, CfDone
  <2>4. CASE CopyToUsb(b)
    BY <2>1, <2>4 DEF CopyToUsb, CtStart, CtInserted, CtLook, CtSizes, CtMount, CtMoveFails,
       CtMoved, CtErase, CtCheck, CtRemoved, CtCopyFails, CtCopied, CtAllOut, CtDone
  <2> QED
    BY <1>6, <2>2, <2>3, <2>4
<1> QED
  BY <1>2, <1>3, <1>4, <1>5, <1>6 DEF Next, Callback
-----------------------------------------------------------------------------
\* The callbacks' places and variables

\* A callback moves itself only.
LEMMA OthersStay ==
  ASSUME PInv, NEW b \in Buttons, Press(b) \/ Callback(b), NEW c \in Buttons, c # b
  PROVE  pc'[c] = pc[c]
<1> USE DEF PInv, PcType, Goto
<1>1. CASE Press(b) \/ Handle(b)
  BY <1>1 DEF Press, Handle, Released, LongPress, Noise, ShortPress, MoveToStartPage, ChooseCancel, MovePage, EnterOnMenu, EnterCommand, CallbackOver
<1>2. CASE RemoveUsb(b) \/ EraseFolder(b)
  BY <1>2 DEF RemoveUsb, RuStart, RuAgain, RuDone, EraseFolder, EfStart, EfErase
<1>3. CASE CopyFromUsb(b)
  BY <1>3 DEF CopyFromUsb, CfSuspend, CfLook, CfInserted, CfDev, CfMoveFails, CfUnmount, CfRemount,
     CfMount, CfSpace, CfErase, CfCheck, CfRemoved, CfCopyFails, CfCopied, CfAllOut,
     CfDone
<1>4. CASE CopyToUsb(b)
  BY <1>4 DEF CopyToUsb, CtStart, CtInserted, CtLook, CtSizes, CtMount, CtMoveFails, CtMoved, CtErase,
     CtCheck, CtRemoved, CtCopyFails, CtCopied, CtAllOut, CtDone
<1> QED
  BY <1>1, <1>2, <1>3, <1>4 DEF Callback

LEMMA PcMoves ==
  ASSUME PInv, NEW b \in Buttons, Press(b) \/ Callback(b)
  PROVE  PcType'
<1> USE DEF PInv, PcType, Goto, Places
<1>1. CASE Press(b) \/ Handle(b)
  <2>1. ASSUME command # "none" PROVE CommandStart[command] \in Places
    BY <2>1 DEF TypeOK, DisplayType, CommandStart
  <2> QED
    BY <1>1, <2>1 DEF Press, Handle, Astray, Released, LongPress, Noise, ShortPress, MoveToStartPage, ChooseCancel, MovePage, EnterOnMenu, EnterCommand, CallbackOver
<1>2. CASE RemoveUsb(b) \/ EraseFolder(b)
  BY <1>2 DEF Writing, Astray, RemoveUsb, RuStart, RuAgain, RuDone, EraseFolder, EfStart, EfErase
<1>3. CASE CopyFromUsb(b)
  BY <1>3 DEF Suspended, Astray, CopyFromUsb, CfSuspend, CfLook, CfInserted, CfDev, CfMoveFails, CfUnmount, CfRemount,
     CfMount, CfSpace, CfErase, CfCheck, CfRemoved, CfCopyFails, CfCopied, CfAllOut,
     CfDone
<1>4. CASE CopyToUsb(b)
  BY <1>4 DEF Writing, Astray, CopyToUsb, CtStart, CtInserted, CtLook, CtSizes, CtMount, CtMoveFails, CtMoved, CtErase,
     CtCheck, CtRemoved, CtCopyFails, CtCopied, CtAllOut, CtDone
<1> QED
  BY <1>1, <1>2, <1>3, <1>4 DEF Callback

LEMMA PcStep == ASSUME PInv, Next PROVE PcType'
<1>1. CASE PowerCut \/ ServiceRestarts
  BY <1>1 DEF PowerCut, ServiceRestarts, Fresh, PcType, Places
<1>2. CASE UNCHANGED pc
  BY <1>2 DEF PInv, PcType
<1> QED
  BY <1>1, <1>2, PcMoves
  DEF Next, People, PlugIn, PullOut, Daemon, Poll, DaemonFreesUsb11, LoaderStarts,
      LoaderEnds, MainLoop, DisplayTimesOut, ShowProgress, ProgressOver, LowBatteryPage

LEMMA LocalsStep == ASSUME PInv, Next PROVE LocalsType'
<1> USE DEF PInv, TypeOK, LocalsType
<1>1. CASE PowerCut \/ ServiceRestarts
  BY <1>1 DEF PowerCut, ServiceRestarts, Fresh, StackNames, None
<1>2. CASE UNCHANGED locals
  BY <1>2 DEF locals
<1>3. ASSUME NEW b \in Buttons, Handle(b) PROVE LocalsType'
  BY <1>3 DEF Set, DisplayType, StackNames, None, locals, Handle, Released, LongPress, Noise, ShortPress, MoveToStartPage, ChooseCancel, MovePage, EnterOnMenu, EnterCommand, CallbackOver
<1>4. ASSUME NEW b \in Buttons, CopyFromUsb(b) PROVE LocalsType'
  <2> USE DEF Set, Quiet
  <2>1. CASE CfSuspend(b)
    BY <1>4, <2>1 DEF CfSuspend, FlagsType
  <2>2. CASE CfDev(b)
    <3>1. FirstFrom(First) \in Sticks \cup {NoStick}
      BY FirstFromType DEF WorldType
    <3> QED
      BY <2>2, <3>1 DEF CfDev, WorldType
  <2>3. CASE CfRemount(b)
    BY <2>3 DEF CfRemount, Points
  <2>4. CASE CfMount(b)
    <3>1. (CHOOSE x \in dirs : \A y \in dirs : y <= x) \in Points
      BY HighestPoint DEF WorldType
    <3> QED
      BY <2>4, <3>1 DEF CfMount
  <2>5. CASE UNCHANGED locals
    BY <2>5 DEF locals
  <2> QED
    BY <1>4, <2>1, <2>2, <2>3, <2>4, <2>5
    DEF locals, CopyFromUsb, CfLook, CfInserted, CfMoveFails, CfUnmount, CfSpace, CfErase,
        CfCheck, CfRemoved, CfCopyFails, CfCopied, CfAllOut, CfDone
<1>5. ASSUME NEW b \in Buttons, CopyToUsb(b) PROVE LocalsType'
  <2> USE DEF Set, Quiet
  <2>1. CASE CtStart(b)
    BY <2>1 DEF CtStart, FlagsType
  <2>2. CASE CtSizes(b)
    BY <2>2, PanelAssumption DEF CtSizes, WorldType
  <2>3. CASE CtMount(b)
    BY <2>3 DEF CtMount, Points
  <2>4. CASE UNCHANGED locals
    BY <2>4 DEF locals
  <2> QED
    BY <1>5, <2>1, <2>2, <2>3, <2>4
    DEF locals, CopyToUsb, CtInserted, CtLook, CtMoveFails, CtMoved, CtErase, CtCheck,
        CtRemoved, CtCopyFails, CtCopied, CtAllOut, CtDone
<1>6. ASSUME NEW b \in Buttons, Press(b) \/ RemoveUsb(b) \/ EraseFolder(b) PROVE LocalsType'
  BY <1>6, <1>2 DEF Press, Quiet, locals, RemoveUsb, RuStart, RuAgain, RuDone, EraseFolder, EfStart, EfErase
<1> QED
  BY <1>1, <1>2, <1>3, <1>4, <1>5, <1>6
  DEF Next, Callback, People, PlugIn, PullOut, Daemon, Poll, DaemonFreesUsb11,
      LoaderStarts, LoaderEnds, MainLoop, DisplayTimesOut, ShowProgress, ProgressOver,
      LowBatteryPage

LEMMA PanelStep == PInv /\ [Next]_vars => PInv'
<1> SUFFICES ASSUME PInv, [Next]_vars PROVE PInv'
  OBVIOUS
<1>1. CASE UNCHANGED vars
  BY <1>1 DEF vars, world, files, display, locals, PInv, TypeOK, WorldType, FlagsType,
     DisplayType, LocalsType, PcType, AdminShown
<1>2. CASE Next
  BY <1>2, WorldStep, FlagsStep, DisplayStep, LocalsStep, PcStep DEF PInv, TypeOK
<1> QED
  BY <1>1, <1>2

\* Every variable keeps its type, whatever people, buttons and faults do; the folders
\* on the SD card and the pages of the display never leave the sets the code knows.
THEOREM PanelTypeCorrect == Spec => []TypeOK
<1>1. PInv => TypeOK
  BY DEF PInv
<1> QED
  BY PanelInit, PanelStep, <1>1, PTL DEF Spec

-----------------------------------------------------------------------------
\* usb0NoMount is put back

Alone == \A b, c \in Buttons : pc[b] # "idle" /\ pc[c] # "idle" => b = c

\* Until something goes astray, no command has found the flag set, and it is set only
\* while copy_from_usb runs or has just broken off.
FlagOwned ==
  ~astray => /\ \A b \in Buttons : orig[b] = FALSE
             /\ noMount => \E b \in Buttons : pc[b] \in Suspended \cup Astray

FlagInv == PInv /\ Alone /\ FlagOwned

LEMMA AloneStep == ASSUME PInv, Alone, OneThread, Next PROVE Alone'
<1>1. CASE PowerCut \/ ServiceRestarts
  BY <1>1 DEF PowerCut, ServiceRestarts, Fresh, Alone
<1>2. CASE UNCHANGED pc
  BY <1>2 DEF Alone
<1>3. ASSUME NEW b \in Buttons, Press(b) PROVE Alone'
  BY <1>3 DEF Press, Idle, Alone, Goto, PInv, PcType
<1>4. ASSUME NEW b \in Buttons, Callback(b) PROVE Alone'
  <2>1. pc[b] # "idle"
    <3> USE DEF At
    <3>1. CASE Handle(b) \/ RemoveUsb(b) \/ EraseFolder(b)
      BY <3>1 DEF Handle, Released, LongPress, Noise, ShortPress, MoveToStartPage, ChooseCancel, MovePage, EnterOnMenu, EnterCommand,
     CallbackOver, RemoveUsb, RuStart, RuAgain, RuDone, EraseFolder, EfStart,
     EfErase
    <3>2. CASE CopyFromUsb(b)
      BY <3>2 DEF CopyFromUsb, CfSuspend, CfLook, CfInserted, CfDev, CfMoveFails, CfUnmount, CfRemount,
     CfMount, CfSpace, CfErase, CfCheck, CfRemoved, CfCopyFails, CfCopied, CfAllOut,
     CfDone
    <3>3. CASE CopyToUsb(b)
      BY <3>3 DEF CopyToUsb, CtStart, CtInserted, CtLook, CtSizes, CtMount, CtMoveFails, CtMoved, CtErase,
     CtCheck, CtRemoved, CtCopyFails, CtCopied, CtAllOut, CtDone
    <3> QED
      BY <1>4, <3>1, <3>2, <3>3 DEF Callback
  <2> QED
    BY <1>4, <2>1, OthersStay DEF Alone
<1> QED
  BY <1>1, <1>2, <1>3, <1>4
  DEF Next, People, PlugIn, PullOut, Daemon, Poll, DaemonFreesUsb11, LoaderStarts,
      LoaderEnds, MainLoop, DisplayTimesOut, ShowProgress, ProgressOver, LowBatteryPage

\* copy_from_usb goes on, breaks off, or has put the flag back.
LEMMA SuspendedStays ==
  ASSUME PInv, NEW b \in Buttons, Press(b) \/ Callback(b), ~orig[b],
         pc[b] \in Suspended \cup Astray, noMount'
  PROVE  pc'[b] \in Suspended \cup Astray \/ astray'
<1> USE DEF PInv, PcType, At, Goto, Suspended, Astray, PutBack
<1>1. CASE Press(b) \/ Handle(b)
  BY <1>1 DEF Press, Handle, Released, LongPress, Noise, ShortPress, MoveToStartPage, ChooseCancel, MovePage, EnterOnMenu,
     EnterCommand, CallbackOver
<1>2. CASE RemoveUsb(b) \/ EraseFolder(b)
  BY <1>2 DEF RemoveUsb, RuStart, RuAgain, RuDone, EraseFolder, EfStart, EfErase
<1>3. CASE CopyFromUsb(b)
  BY <1>3 DEF CopyFromUsb, CfSuspend, CfLook, CfInserted, CfDev, CfMoveFails, CfUnmount,
     CfRemount, CfMount, CfSpace, CfErase, CfCheck, CfRemoved, CfCopyFails, CfCopied,
     CfAllOut, CfDone
<1>4. CASE CopyToUsb(b)
  BY <1>4 DEF CopyToUsb, CtStart, CtInserted, CtLook, CtSizes, CtMount, CtMoveFails,
     CtMoved, CtErase, CtCheck, CtRemoved, CtCopyFails, CtCopied, CtAllOut, CtDone
<1> QED
  BY <1>1, <1>2, <1>3, <1>4 DEF Callback

\* Only copy_from_usb raises the flag, and what a command has found goes into orig.
LEMMA FlagMoves ==
  ASSUME PInv, NEW b \in Buttons, Press(b) \/ Callback(b), \A c \in Buttons : ~orig[c]
  PROVE  /\ noMount' => noMount \/ pc'[b] = "cf_look"
         /\ \/ pc[b] \in {"cf_suspend", "ct_start"} /\ orig' = [orig EXCEPT ![b] = noMount]
            \/ \A c \in Buttons : ~orig'[c]
<1> USE DEF PInv, PcType, TypeOK, LocalsType, At, Goto, Set, PutBack, files, locals
<1>1. CASE Press(b) \/ Handle(b)
  BY <1>1 DEF Press, Handle, Released, LongPress, Noise, ShortPress, MoveToStartPage, ChooseCancel, MovePage, EnterOnMenu,
     EnterCommand, CallbackOver
<1>2. CASE RemoveUsb(b) \/ EraseFolder(b)
  BY <1>2 DEF RemoveUsb, RuStart, RuAgain, RuDone, EraseFolder, EfStart, EfErase
<1>3. CASE CopyFromUsb(b)
  BY <1>3 DEF CopyFromUsb, CfSuspend, CfLook, CfInserted, CfDev, CfMoveFails, CfUnmount,
     CfRemount, CfMount, CfSpace, CfErase, CfCheck, CfRemoved, CfCopyFails, CfCopied,
     CfAllOut, CfDone
<1>4. CASE CopyToUsb(b)
  BY <1>4 DEF CopyToUsb, CtStart, CtInserted, CtLook, CtSizes, CtMount, CtMoveFails,
     CtMoved, CtErase, CtCheck, CtRemoved, CtCopyFails, CtCopied, CtAllOut, CtDone
<1> QED
  BY <1>1, <1>2, <1>3, <1>4 DEF Callback

\* Nothing excuses what was not excused before.
LEMMA AstrayStays ==
  ASSUME PInv, NEW b \in Buttons, Press(b) \/ Callback(b), astray PROVE astray'
BY DEF Quiet, locals, Callback, Press, Handle, Released, LongPress, Noise, ShortPress, MoveToStartPage, ChooseCancel, MovePage,
       EnterOnMenu, EnterCommand, CallbackOver, RemoveUsb, RuStart, RuAgain, RuDone,
       EraseFolder, EfStart, EfErase, CopyFromUsb, CfSuspend, CfLook, CfInserted, CfDev,
       CfMoveFails, CfUnmount, CfRemount, CfMount, CfSpace, CfErase, CfCheck, CfRemoved,
       CfCopyFails, CfCopied, CfAllOut, CfDone, CopyToUsb, CtStart, CtInserted, CtLook,
       CtSizes, CtMount, CtMoveFails, CtMoved, CtErase, CtCheck, CtRemoved, CtCopyFails,
       CtCopied, CtAllOut, CtDone

LEMMA FlagOwnedStep == ASSUME FlagInv, OneThread, Next PROVE FlagOwned'
<1> USE DEF FlagInv
<1>1. CASE PowerCut \/ ServiceRestarts
  <2>1. CASE Idle
    <3>1. \A b \in Buttons : pc[b] \notin Suspended \cup Astray
      BY <2>1 DEF Idle, Suspended, Astray
    <3>2. (noMount' => noMount) /\ (astray => astray') /\ \A b \in Buttons : orig'[b] = FALSE
      <4>1. Fresh /\ noMount' = noMount
        BY <1>1 DEF PowerCut, ServiceRestarts
      <4> QED
        BY <4>1 DEF Fresh
    <3> QED
      BY <3>1, <3>2 DEF FlagOwned
  <2>2. CASE ~Idle
    BY <1>1, <2>2 DEF PowerCut, ServiceRestarts, Fresh, FlagOwned
  <2> QED
    BY <2>1, <2>2
<1>2. CASE UNCHANGED <<pc, orig, noMount, astray>>
  BY <1>2 DEF FlagOwned
<1>3. ASSUME NEW b \in Buttons, Press(b) \/ Callback(b) PROVE FlagOwned'
  <2> SUFFICES ASSUME ~astray' PROVE /\ \A c \in Buttons : orig'[c] = FALSE
                                     /\ noMount' => \E c \in Buttons : pc'[c] \in Suspended \cup Astray
    BY DEF FlagOwned
  <2>1. ~astray
    BY <1>3, AstrayStays
  <2>2. \A c \in Buttons : ~orig[c]
    BY <2>1 DEF FlagOwned
  <2>3. ASSUME noMount, pc[b] \in {"cf_suspend", "ct_start"} PROVE FALSE
    <3>1. PICK c \in Buttons : pc[c] \in Suspended \cup Astray
      BY <2>1, <2>3 DEF FlagOwned
    <3>2. pc[c] # "idle" /\ pc[c] # pc[b]
      BY <2>3, <3>1 DEF Suspended, Astray
    <3> QED
      BY <2>3, <3>2 DEF Alone
  <2>4. \A c \in Buttons : orig'[c] = FALSE
    <3>1. CASE pc[b] \in {"cf_suspend", "ct_start"} /\ orig' = [orig EXCEPT ![b] = noMount]
      BY <2>2, <2>3, <3>1 DEF PInv, TypeOK, LocalsType, FlagsType
    <3>2. CASE \A c \in Buttons : ~orig'[c]
      BY <1>3, <3>2, LocalsStep DEF LocalsType, Next
    <3> QED
      BY <1>3, <2>2, <3>1, <3>2, FlagMoves
  <2>5. ASSUME noMount' PROVE \E c \in Buttons : pc'[c] \in Suspended \cup Astray
    <3>1. CASE noMount
      <4>1. PICK c \in Buttons : pc[c] \in Suspended \cup Astray
        BY <2>1, <3>1 DEF FlagOwned
      <4>2. CASE c = b
        BY <1>3, <2>2, <2>5, <4>1, <4>2, SuspendedStays
      <4>3. CASE c # b
        BY <1>3, <4>1, <4>3, OthersStay
      <4> QED
        BY <4>2, <4>3
    <3>2. CASE pc'[b] = "cf_look"
      BY <3>2 DEF Suspended
    <3> QED
      BY <1>3, <2>2, <2>5, <3>1, <3>2, FlagMoves
  <2> QED
    BY <2>4, <2>5
<1> QED
  BY <1>1, <1>2, <1>3
  DEF Next, People, PlugIn, PullOut, Daemon, Poll, DaemonFreesUsb11, LoaderStarts,
      LoaderEnds, MainLoop, DisplayTimesOut, ShowProgress, ProgressOver, LowBatteryPage,
      files, locals

\* If all callbacks share a thread, then whichever way a command ends by itself,
\* usb0NoMount is as it found it, and the daemon mounts again.
THEOREM FlagStaysPutBack == ASSUME OneThread PROVE Spec => []FlagPutBack
<1>1. Init => FlagInv
  BY PanelInit DEF Init, FlagInv, Alone, FlagOwned
<1>2. FlagInv /\ [Next]_vars => FlagInv'
  <2>1. ASSUME FlagInv, UNCHANGED vars PROVE Alone' /\ FlagOwned'
    BY <2>1 DEF FlagInv, Alone, FlagOwned, vars, files, locals
  <2> QED
    BY <2>1, PanelStep, AloneStep, FlagOwnedStep DEF FlagInv
<1>3. FlagInv => FlagPutBack
  BY DEF FlagInv, FlagOwned, FlagPutBack, Idle, Suspended, Astray
<1> QED
  BY <1>1, <1>2, <1>3, PTL DEF Spec

-----------------------------------------------------------------------------
\* The status file is explained

StatusOwned == ~astray /\ status /\ ~loader => \E b \in Buttons : pc[b] \in Writing \cup Astray

StatusInv == PInv /\ StatusOwned

LEMMA WritingStays ==
  ASSUME PInv, NEW b \in Buttons, Press(b) \/ Callback(b), status', ~loader', ~astray'
  PROVE  pc[b] \in Writing \cup Astray => pc'[b] \in Writing \cup Astray
<1> USE DEF PInv, PcType, At, Goto, Writing, Suspended, Astray, PutBack, StartLoader, files,
            Quiet
<1>1. CASE Press(b) \/ Handle(b)
  BY <1>1 DEF Press, Handle, Released, LongPress, Noise, ShortPress, MoveToStartPage, ChooseCancel, MovePage, EnterOnMenu,
     EnterCommand, CallbackOver
<1>2. CASE RemoveUsb(b) \/ EraseFolder(b)
  BY <1>2 DEF RemoveUsb, RuStart, RuAgain, RuDone, EraseFolder, EfStart, EfErase
<1>3. CASE CopyFromUsb(b)
  BY <1>3 DEF CopyFromUsb, CfSuspend, CfLook, CfInserted, CfDev, CfMoveFails, CfUnmount,
     CfRemount, CfMount, CfSpace, CfErase, CfCheck, CfRemoved, CfCopyFails, CfCopied,
     CfAllOut, CfDone
<1>4. CASE CopyToUsb(b)
  BY <1>4 DEF CopyToUsb, CtStart, CtInserted, CtLook, CtSizes, CtMount, CtMoveFails,
     CtMoved, CtErase, CtCheck, CtRemoved, CtCopyFails, CtCopied, CtAllOut, CtDone
<1> QED
  BY <1>1, <1>2, <1>3, <1>4 DEF Callback

LEMMA WritingBegins ==
  ASSUME PInv, NEW b \in Buttons, Press(b) \/ Callback(b), status', ~loader'
  PROVE  (status /\ ~loader) \/ pc'[b] \in Writing \cup Astray
<1> USE DEF PInv, PcType, At, Goto, Writing, Suspended, Astray, PutBack, StartLoader, files,
            Quiet
<1>1. CASE Press(b) \/ Handle(b)
  BY <1>1 DEF Press, Handle, Released, LongPress, Noise, ShortPress, MoveToStartPage, ChooseCancel, MovePage, EnterOnMenu,
     EnterCommand, CallbackOver
<1>2. CASE RemoveUsb(b) \/ EraseFolder(b)
  BY <1>2 DEF RemoveUsb, RuStart, RuAgain, RuDone, EraseFolder, EfStart, EfErase
<1>3. CASE CopyFromUsb(b)
  BY <1>3 DEF CopyFromUsb, CfSuspend, CfLook, CfInserted, CfDev, CfMoveFails, CfUnmount,
     CfRemount, CfMount, CfSpace, CfErase, CfCheck, CfRemoved, CfCopyFails, CfCopied,
     CfAllOut, CfDone
<1>4. CASE CopyToUsb(b)
  BY <1>4 DEF CopyToUsb, CtStart, CtInserted, CtLook, CtSizes, CtMount, CtMoveFails,
     CtMoved, CtErase, CtCheck, CtRemoved, CtCopyFails, CtCopied, CtAllOut, CtDone
<1> QED
  BY <1>1, <1>2, <1>3, <1>4 DEF Callback

LEMMA StatusStep == ASSUME StatusInv, Next PROVE StatusOwned'
<1> USE DEF StatusInv
<1>1. CASE PowerCut \/ ServiceRestarts
  BY <1>1 DEF PowerCut, ServiceRestarts, StatusOwned
<1>2. CASE LoaderStarts \/ LoaderEnds
  BY <1>2 DEF LoaderStarts, LoaderEnds, StatusOwned
<1>3. CASE UNCHANGED <<pc, status, loader, astray>>
  BY <1>3 DEF StatusOwned
<1>4. ASSUME NEW b \in Buttons, Press(b) \/ Callback(b), status', ~loader', ~astray'
      PROVE  \E c \in Buttons : pc'[c] \in Writing \cup Astray
  <2>1. CASE pc'[b] \in Writing \cup Astray
    BY <2>1
  <2>2. CASE status /\ ~loader
    <3>1. PICK c \in Buttons : pc[c] \in Writing \cup Astray
      BY <1>4, <2>2, AstrayStays DEF StatusOwned
    <3>2. CASE c = b
      BY <1>4, <3>1, <3>2, WritingStays
    <3>3. CASE c # b
      BY <1>4, <3>1, <3>3, OthersStay
    <3> QED
      BY <3>2, <3>3
  <2> QED
    BY <1>4, <2>1, <2>2, WritingBegins
<1>5. ASSUME NEW b \in Buttons, Press(b) \/ Callback(b) PROVE StatusOwned'
  BY <1>4, <1>5 DEF StatusOwned
<1> QED
  BY <1>1, <1>2, <1>3, <1>5
  DEF Next, People, PlugIn, PullOut, Daemon, Poll, DaemonFreesUsb11, MainLoop,
      DisplayTimesOut, ShowProgress, ProgressOver, LowBatteryPage, files, locals

\* However many callbacks run, the status text that keeps the screen on "wait" is there
\* only while a command or mmiLoader runs, or a command has broken off.
THEOREM StatusStaysExplained == Spec => []StatusExplained
<1>1. Init => StatusInv
  BY PanelInit DEF Init, StatusInv, StatusOwned
<1>2. StatusInv /\ [Next]_vars => StatusInv'
  <2>1. ASSUME StatusInv, UNCHANGED vars PROVE StatusOwned'
    BY <2>1 DEF StatusInv, StatusOwned, vars, files
  <2> QED
    BY <2>1, PanelStep, StatusStep DEF StatusInv
<1>3. StatusInv => StatusExplained
  BY DEF StatusInv, StatusOwned, StatusExplained, Idle, Writing, Suspended, Astray
<1> QED
  BY <1>1, <1>2, <1>3, PTL DEF Spec

-----------------------------------------------------------------------------
\* copy_from_usb and erase_folder leave a stick's content alone

\* What is not plugged in is not mounted (but for a dead mount point).
OnlyPluggedMounted == \A k \in Sticks \ plugged : at[k] = None

\* copy_from_usb suspends the daemon's polls.
PollsSuspended == \A b \in Buttons : pc[b] \in Suspended => noMount

\* With the stick at another mount point than usb0, if there is another one,
\* copy_from_usb goes on to empty usb0's content folder.
OutOfTheWay ==
  \A b \in Buttons :
    /\ pc[b] \in {"cf_remount", "cf_mount", "cf_space", "cf_erase"}
         => at[First] # 0 \/ dirs = {0}
    /\ pc[b] = "cf_mount" => at[First] = None

StickInv == PInv /\ Alone /\ OnlyPluggedMounted /\ PollsSuspended /\ OutOfTheWay

LEMMA FirstFromPlugged ==
  ASSUME plugged \subseteq Sticks, NEW d
  PROVE  /\ FirstFrom(d) \in plugged \cup {NoStick}
         /\ FirstFrom(d) = NoStick => First \notin plugged \/ d # First
BY PanelAssumption DEF FirstFrom

LEMMA PluggedStep == ASSUME PInv, OnlyPluggedMounted, Next PROVE OnlyPluggedMounted'
<1> USE DEF OnlyPluggedMounted, PInv, TypeOK, WorldType
<1>1. CASE People
  BY <1>1 DEF People, PlugIn, PullOut
<1>2. CASE Daemon
  BY <1>2 DEF Daemon, Poll, DaemonFreesUsb11
<1>3. CASE PowerCut
  BY <1>3 DEF PowerCut
<1>4. CASE UNCHANGED <<plugged, at>>
  BY <1>4
<1>5. ASSUME NEW b \in Buttons, CfUnmount(b) \/ CfRemount(b) \/ CfCopied(b) \/ CtMoved(b)
                                \/ CtCopied(b)
      PROVE  OnlyPluggedMounted'
  BY <1>5 DEF CfUnmount, CfRemount, CfCopied, CtMoved, CtCopied
<1>6. ASSUME NEW b \in Buttons, CfMount(b) \/ CtMount(b)
      PROVE  OnlyPluggedMounted'
  <2>1. \/ at' = at
        \/ \E k \in plugged : \E x : at' = [at EXCEPT ![k] = x]
    BY <1>6, FirstFromPlugged DEF CfMount, CtMount
  <2>2. plugged' = plugged
    BY <1>6 DEF CfMount, CtMount
  <2> QED
    BY <2>1, <2>2
<1>7. ASSUME NEW b \in Buttons, Press(b) \/ Callback(b)
      PROVE  \/ UNCHANGED <<plugged, at>>
             \/ CfUnmount(b) \/ CfRemount(b) \/ CfCopied(b) \/ CtMoved(b) \/ CtCopied(b)
             \/ CfMount(b) \/ CtMount(b)
  BY <1>7 DEF Callback, Press, Handle, Released, LongPress, Noise, ShortPress, MoveToStartPage, ChooseCancel, MovePage, EnterOnMenu,
     EnterCommand, CallbackOver, RemoveUsb, RuStart, RuAgain, RuDone, EraseFolder, EfStart, EfErase,
     CopyFromUsb, CfSuspend, CfLook, CfInserted, CfDev, CfMoveFails, CfSpace, CfErase, CfCheck,
     CfRemoved, CfCopyFails, CfAllOut, CfDone, CopyToUsb, CtStart, CtInserted, CtLook, CtSizes,
     CtMoveFails, CtErase, CtCheck, CtRemoved, CtCopyFails, CtAllOut, CtDone, world
<1> QED
  BY <1>1, <1>2, <1>3, <1>4, <1>5, <1>6, <1>7
  DEF Next, LoaderStarts, LoaderEnds, MainLoop, DisplayTimesOut, ShowProgress, ProgressOver,
      LowBatteryPage, ServiceRestarts, world

\* A callback acts alone.
LEMMA CallbackAlone ==
  ASSUME PInv, Alone, OneThread, NEW b \in Buttons, Press(b) \/ Callback(b),
         NEW c \in Buttons, c # b
  PROVE  pc'[c] = "idle"
<1>1. pc'[c] = pc[c]
  BY OthersStay
<1>2. CASE Press(b)
  BY <1>1, <1>2 DEF Press, Idle
<1>3. CASE Callback(b)
  <2>1. pc[b] # "idle"
    <3> USE DEF At
    <3>1. CASE Handle(b) \/ RemoveUsb(b) \/ EraseFolder(b)
      BY <3>1 DEF Handle, Released, LongPress, Noise, ShortPress, MoveToStartPage, ChooseCancel, MovePage, EnterOnMenu, EnterCommand,
     CallbackOver, RemoveUsb, RuStart, RuAgain, RuDone, EraseFolder, EfStart,
     EfErase
    <3>2. CASE CopyFromUsb(b)
      BY <3>2 DEF CopyFromUsb, CfSuspend, CfLook, CfInserted, CfDev, CfMoveFails, CfUnmount, CfRemount,
     CfMount, CfSpace, CfErase, CfCheck, CfRemoved, CfCopyFails, CfCopied, CfAllOut,
     CfDone
    <3>3. CASE CopyToUsb(b)
      BY <3>3 DEF CopyToUsb, CtStart, CtInserted, CtLook, CtSizes, CtMount, CtMoveFails, CtMoved, CtErase,
     CtCheck, CtRemoved, CtCopyFails, CtCopied, CtAllOut, CtDone
    <3> QED
      BY <1>3, <3>1, <3>2, <3>3 DEF Callback
  <2> QED
    BY <1>1, <2>1 DEF Alone
<1> QED
  BY <1>2, <1>3

\* Within copy_from_usb the flag stays up.
LEMMA SuspendedFlag ==
  ASSUME PInv, PollsSuspended, NEW b \in Buttons, Press(b) \/ Callback(b), pc'[b] \in Suspended
  PROVE  noMount' = TRUE
<1> USE DEF PInv, PcType, TypeOK, FlagsType, PollsSuspended, At, Goto, Suspended, PutBack, files
<1>1. CASE Press(b) \/ Handle(b)
  <2>1. command = "none" \/ CommandStart[command] \notin Suspended
    BY DEF DisplayType, CommandStart
  <2> QED
    BY <1>1, <2>1 DEF Press, Handle, Released, LongPress, Noise, ShortPress, MoveToStartPage, ChooseCancel, MovePage, EnterOnMenu,
       EnterCommand, CallbackOver
<1>2. CASE RemoveUsb(b) \/ EraseFolder(b)
  BY <1>2 DEF RemoveUsb, RuStart, RuAgain, RuDone, EraseFolder, EfStart, EfErase
<1>3. CASE CopyFromUsb(b)
  BY <1>3 DEF CopyFromUsb, CfSuspend, CfLook, CfInserted, CfDev, CfMoveFails, CfUnmount,
     CfRemount, CfMount, CfSpace, CfErase, CfCheck, CfRemoved, CfCopyFails, CfCopied,
     CfAllOut, CfDone
<1>4. CASE CopyToUsb(b)
  BY <1>4 DEF CopyToUsb, CtStart, CtInserted, CtLook, CtSizes, CtMount, CtMoveFails,
     CtMoved, CtErase, CtCheck, CtRemoved, CtCopyFails, CtCopied, CtAllOut, CtDone
<1> QED
  BY <1>1, <1>2, <1>3, <1>4 DEF Callback

Near == {"cf_remount", "cf_mount", "cf_space", "cf_erase"}

LEMMA NearErase ==
  ASSUME PInv, NEW b \in Buttons, Press(b) \/ Callback(b),
         ~(CfDev(b) \/ CfUnmount(b) \/ CfRemount(b) \/ CfMount(b) \/ CfSpace(b))
  PROVE  pc'[b] \notin Near
<1> USE DEF Goto, Near
<1>0. PcType
  BY DEF PInv
<1>1. CASE Press(b) \/ Handle(b)
  <2>1. command = "none" \/ CommandStart[command] \notin Near
    BY DEF PInv, TypeOK, DisplayType, CommandStart
  <2> QED
    BY <1>0, <1>1, <2>1 DEF PcType, Press, Handle, Released, LongPress, Noise, ShortPress, MoveToStartPage, ChooseCancel, MovePage,
       EnterOnMenu, EnterCommand, CallbackOver
<1>2. CASE RemoveUsb(b) \/ EraseFolder(b)
  BY <1>0, <1>2 DEF At, PcType, RemoveUsb, RuStart, RuAgain, RuDone, EraseFolder, EfStart, EfErase
<1>3. CASE CopyFromUsb(b)
  BY <1>0, <1>3 DEF PcType, CopyFromUsb, CfSuspend, CfLook, CfInserted, CfMoveFails, CfErase,
     CfCheck, CfRemoved, CfCopyFails, CfCopied, CfAllOut, CfDone
<1>4. CASE CopyToUsb(b)
  BY <1>0, <1>4 DEF PcType, CopyToUsb, CtStart, CtInserted, CtLook, CtSizes, CtMount, CtMoveFails,
     CtMoved, CtErase, CtCheck, CtRemoved, CtCopyFails, CtCopied, CtAllOut, CtDone
<1> QED
  BY <1>1, <1>2, <1>3, <1>4 DEF Callback

\* How copy_from_usb comes to the steps before its erasing.
LEMMA WayToErase ==
  ASSUME StickInv, Sticks = {First}, NEW b \in Buttons, Press(b) \/ Callback(b)
  PROVE  /\ pc'[b] \in {"cf_remount", "cf_mount", "cf_space", "cf_erase"}
              => at'[First] # 0 \/ dirs' = {0}
         /\ pc'[b] = "cf_mount" => at'[First] = None
<1> USE DEF StickInv, PInv, PcType, TypeOK, WorldType
<1>1. CASE CfDev(b)
  <2>1. /\ FirstFrom(First) = NoStick => at[First] = None
        /\ FirstFrom(First) # NoStick => FirstFrom(First) = First
    BY PanelAssumption, FirstFromPlugged DEF OnlyPluggedMounted
  <2>2. UNCHANGED <<at, dirs>> /\ dev'[b] = FirstFrom(First)
    BY <1>1 DEF CfDev, Set, LocalsType, world
  <2>3. pc'[b] = IF dev'[b] = NoStick THEN "cf_space"
                 ELSE IF at[dev'[b]] = 0 THEN "cf_move"
                 ELSE IF at[dev'[b]] = None THEN "cf_mount" ELSE "cf_space"
    BY <1>1 DEF CfDev, Goto
  <2> QED
    BY <2>1, <2>2, <2>3 DEF None
<1>2. CASE CfUnmount(b)
  <2>1. at'[First] # 0 /\ pc'[b] = "cf_remount"
    BY <1>2, PanelAssumption DEF CfUnmount, Goto, None
  <2> QED
    BY <2>1
<1>3. CASE CfRemount(b)
  <2>1. at'[First] \in {at[First], 11} /\ dirs' = dirs /\ pc'[b] # "cf_mount"
    BY <1>3, PanelAssumption DEF CfRemount, Goto
  <2>2. at[First] # 0 \/ dirs = {0}
    BY <1>3 DEF CfRemount, At, OutOfTheWay
  <2> QED
    BY <2>1, <2>2
<1>4. CASE CfMount(b)
  <2> DEFINE x == CHOOSE x \in dirs : \A y \in dirs : y <= x
  <2>1. x = 0 => dirs = {0}
    <3>1. \E z \in dirs : \A y \in dirs : y <= z
      <4>1. CASE 11 \in dirs
        BY <4>1 DEF Points
      <4>2. CASE 11 \notin dirs /\ 1 \in dirs
        BY <4>2 DEF Points
      <4>3. CASE 11 \notin dirs /\ 1 \notin dirs
        BY <4>3 DEF Points
      <4> QED
        BY <4>1, <4>2, <4>3
    <3>2. x \in dirs /\ \A y \in dirs : y <= x
      BY <3>1
    <3>3. ASSUME x = 0, NEW y \in dirs PROVE y = 0
      BY <3>2, <3>3 DEF Points
    <3>4. 0 \in dirs
      OBVIOUS
    <3> QED
      BY <3>3, <3>4
  <2>2. /\ dirs' = dirs /\ pc'[b] # "cf_mount"
        /\ at' = at \/ \E k : at' = [at EXCEPT ![k] = x]
    BY <1>4 DEF CfMount, Goto
  <2> HIDE DEF x
  <2>3. at'[First] \in {at[First], x}
    BY <2>2, PanelAssumption
  <2>4. at[First] = None
    BY <1>4 DEF CfMount, At, OutOfTheWay
  <2> QED
    BY <2>1, <2>2, <2>3, <2>4 DEF None
<1>5. CASE CfSpace(b)
  BY <1>5 DEF CfSpace, At, Goto, OutOfTheWay, world
<1>6. CASE ~(CfDev(b) \/ CfUnmount(b) \/ CfRemount(b) \/ CfMount(b) \/ CfSpace(b))
  <2>1. pc'[b] \notin Near
    BY <1>6, NearErase
  <2> QED
    BY <2>1 DEF Near
<1> QED
  BY <1>1, <1>2, <1>3, <1>4, <1>5, <1>6

LEMMA StickStep ==
  ASSUME StickInv, Sticks = {First}, OneThread, Next
  PROVE  PollsSuspended' /\ OutOfTheWay'
<1> USE DEF StickInv
<1>1. CASE PowerCut \/ ServiceRestarts
  BY <1>1 DEF PowerCut, ServiceRestarts, Fresh, PollsSuspended, OutOfTheWay, Suspended
<1>2. CASE UNCHANGED <<pc, noMount, at, dirs>>
  BY <1>2 DEF PollsSuspended, OutOfTheWay
<1>3. CASE People
  <2>1. UNCHANGED <<pc, noMount, dirs>> /\ at'[First] \in {at[First], None}
    BY <1>3, PanelAssumption DEF People, PlugIn, PullOut, files, PInv, TypeOK, WorldType
  <2> QED
    BY <2>1 DEF PollsSuspended, OutOfTheWay, None
<1>4. CASE Daemon
  <2>1. ~noMount /\ UNCHANGED <<pc, noMount>>
    BY <1>4 DEF Daemon, Poll, DaemonFreesUsb11, files
  <2>2. \A b \in Buttons : pc'[b] \notin Suspended
    BY <2>1 DEF PollsSuspended
  <2> QED
    BY <2>2 DEF PollsSuspended, OutOfTheWay, Suspended
<1>5. ASSUME NEW b \in Buttons, Press(b) \/ Callback(b)
      PROVE  PollsSuspended' /\ OutOfTheWay'
  <2>1. \A c \in Buttons : c # b => pc'[c] = "idle"
    BY <1>5, CallbackAlone
  <2>2. pc'[b] \in Suspended => noMount'
    BY <1>5, SuspendedFlag
  <2>3. PollsSuspended'
    BY <2>1, <2>2 DEF PollsSuspended, Suspended
  <2>4. OutOfTheWay'
    BY <1>5, <2>1, WayToErase DEF OutOfTheWay
  <2> QED
    BY <2>3, <2>4
<1> QED
  BY <1>1, <1>2, <1>3, <1>4, <1>5
  DEF Next, LoaderStarts, LoaderEnds, MainLoop, DisplayTimesOut, ShowProgress, ProgressOver,
      LowBatteryPage, world, files

\* Who empties folders.
LEMMA Erasers ==
  ASSUME [Next]_vars, NEW k \in has \ has'
  PROVE  \E b \in Buttons : CfErase(b) \/ CtErase(b)
<1>1. has' # has
  OBVIOUS
<1>2. ASSUME NEW b \in Buttons, Press(b) \/ Callback(b)
      PROVE  CfErase(b) \/ CtErase(b)
  <2>1. ~CfCopied(b) /\ ~CtCopied(b)
    BY DEF CfCopied, CtCopied
  <2> QED
    BY <1>1, <1>2, <2>1
    DEF Callback, Press, Handle, Released, LongPress, Noise, ShortPress, MoveToStartPage, ChooseCancel, MovePage, EnterOnMenu,
     EnterCommand, CallbackOver, RemoveUsb, RuStart, RuAgain, RuDone, EraseFolder, EfStart, EfErase,
     CopyFromUsb, CfSuspend, CfLook, CfInserted, CfDev, CfMoveFails, CfUnmount, CfRemount, CfMount,
     CfSpace, CfCheck, CfRemoved, CfCopyFails, CfAllOut, CfDone, CopyToUsb, CtStart, CtInserted,
     CtLook, CtSizes, CtMount, CtMoveFails, CtMoved, CtCheck, CtRemoved, CtCopyFails, CtAllOut,
     CtDone, world
<1>3. ~(People \/ Daemon \/ LoaderStarts \/ LoaderEnds \/ MainLoop \/ PowerCut \/ ServiceRestarts)
  BY <1>1 DEF People, PlugIn, PullOut, Daemon, Poll, DaemonFreesUsb11, LoaderStarts, LoaderEnds,
     MainLoop, DisplayTimesOut, ShowProgress, ProgressOver, LowBatteryPage, PowerCut,
     ServiceRestarts, world
<1>4. ~UNCHANGED vars
  BY <1>1 DEF vars, world
<1> QED
  BY <1>2, <1>3, <1>4 DEF Next

\* With one stick and all callbacks in one thread, whatever people, the daemon and
\* power cuts do in between, only copy_to_usb takes a stick's content away - unless
\* usb0 is the only mount point that exists when copy_from_usb mounts the stick.
THEOREM StickContentSafe ==
  ASSUME Sticks = {First}, OneThread PROVE Spec => StickKeepsContent
<1>1. Init => StickInv
  <2> SUFFICES ASSUME Init PROVE StickInv
    OBVIOUS
  <2>1. PInv
    BY PanelInit
  <2>2. Alone /\ PollsSuspended /\ OutOfTheWay
    BY DEF Init, Alone, PollsSuspended, OutOfTheWay, Suspended
  <2>3. OnlyPluggedMounted
    BY DEF Init, OnlyPluggedMounted
  <2> QED
    BY <2>1, <2>2, <2>3 DEF StickInv
<1>2. StickInv /\ [Next]_vars => StickInv'
  <2> SUFFICES ASSUME StickInv, [Next]_vars PROVE StickInv'
    OBVIOUS
  <2>1. PInv'
    BY PanelStep DEF StickInv
  <2>2. CASE UNCHANGED vars
    BY <2>1, <2>2 DEF StickInv, Alone, OnlyPluggedMounted, PollsSuspended, OutOfTheWay, vars, world,
       files
  <2>3. CASE Next
    BY <2>1, <2>3, AloneStep, PluggedStep, StickStep DEF StickInv
  <2> QED
    BY <2>2, <2>3
<1>3. StickInv /\ [Next]_vars
        => \A k \in has \ has' : dirs = {0} \/ \E b \in Buttons : pc[b] = "ct_erase"
  <2> SUFFICES ASSUME StickInv, [Next]_vars, NEW k \in has \ has'
               PROVE  dirs = {0} \/ \E b \in Buttons : pc[b] = "ct_erase"
    OBVIOUS
  <2>1. PICK b \in Buttons : CfErase(b) \/ CtErase(b)
    BY Erasers
  <2>2. CASE CtErase(b)
    BY <2>2 DEF CtErase, At
  <2>3. CASE CfErase(b)
    <3>1. at[First] # 0 \/ dirs = {0}
      BY <2>3 DEF CfErase, At, StickInv, OutOfTheWay
    <3>2. k \in LiveAt(0)
      BY <2>3 DEF CfErase, EraseAt
    <3>3. at[First] = 0
      BY <3>2 DEF LiveAt, StickInv, PInv, TypeOK, WorldType
    <3> QED
      BY <3>1, <3>3
  <2> QED
    BY <2>1, <2>2, <2>3
<1> QED
  BY <1>1, <1>2, <1>3, PTL DEF Spec, StickKeepsContent
=============================================================================
