------------------------------- MODULE Panel -------------------------------
(***************************************************************************)
(* The front panel: buttons.py, usb.py, displays.py and the main loop of   *)
(* hats.py.                                                                *)
(*                                                                         *)
(* A button's callback times the press and then acts on it, which may mean *)
(* to run a whole admin command: copy a stick to the box, the box to a     *)
(* stick, or empty the box.  A command waits for people to plug sticks in  *)
(* and out, moves and unmounts them under the mounting daemon's feet,      *)
(* suspends that daemon through usb0NoMount (which is on disk, and must be *)
(* put back), and shares a status file with mmiLoader and with the panel's *)
(* own main loop, which redraws the screen meanwhile.                      *)
(***************************************************************************)
EXTENDS Integers, FiniteSets

CONSTANTS
  Sticks,         \* the USB sticks, a drive letter each; all have a partition
  First,          \* the one that is /dev/sda1
  NoStick,        \* "no stick"
  Dirs0,          \* which of /media/usb0, /media/usb1, /media/usb11 exist at first
  Buttons,        \* the buttons people press: {"left", "right"} or a part of it
  OneThread,      \* TRUE if all callbacks share a thread (RPi.GPIO), FALSE if each
                  \* pin has its own (OPi.GPIO)
  CutsMayCome,    \* TRUE if the power may fail, or the panel's service restart
  BatteryMayDip   \* TRUE if the battery may go below the warning voltage

ASSUME PanelAssumption ==
  /\ First \in Sticks /\ NoStick \notin Sticks
  /\ Cardinality(Sticks) <= 2
  /\ Dirs0 \subseteq {0, 1, 11} /\ 0 \in Dirs0
  /\ Buttons \subseteq {"left", "right"}
  /\ {OneThread, CutsMayCome, BatteryMayDip} \subseteq BOOLEAN

None   == -1
Points == {0, 1, 11}                   \* /media/usb0, /media/usb1, /media/usb11

VARIABLES
  \* The world
  plugged,    \* the sticks that are plugged in
  at,         \* where each stick is mounted
  dead,       \* of usb0 and usb1, those with a mount whose stick is gone
  has,        \* the sticks that have a content folder with something in it
  own,        \* /media/usb0/content on the SD card: absent, empty or full
  dirs,       \* the mount points that exist as directories
  \* Files
  noMount,    \* brand.j2's usb0NoMount is "1"
  status,     \* /tmp/creating_menus.txt exists
  \* Other processes
  loader,     \* mmiLoader is running
  \* The display, shared by all threads
  stack, pages, page,   \* pageStack, pages, _curPage
  command,    \* command_to_reference
  indexing,   \* the main loop's var_Indexing
  busy,       \* BUTTON_PRESS_BUSY
  \* The callbacks, one for each button
  pc, seen,   \* where it is, the pageStack it read
  orig,       \* NoMountOrig
  dev, mnt,   \* the stick and the mount point it works with
  \* History
  astray      \* a command has ended some other way than by its own clean-up: in an
              \* exception, in a power cut, or after moving a stick

world   == <<plugged, at, dead, has, own, dirs>>
files   == <<noMount, status>>
display == <<stack, pages, page, command>>
locals  == <<seen, orig, dev, mnt>>
vars    == <<world, files, loader, display, indexing, busy, pc, locals, astray>>

AdminPages  == {"copy_from_usb", "erase_folder", "copy_to_usb", "exit"}
StatusPages == {"main", "show_admin"}            \* those between are alike
OtherPages  == {"confirm", "success", "error", "remove_usb", "insert_usb", "wait",
                "blank", "low_battery"}
NextPage == [p \in AdminPages \cup StatusPages |->
  CASE p = "copy_from_usb" -> "erase_folder" [] p = "erase_folder" -> "copy_to_usb"
    [] p = "copy_to_usb" -> "exit"           [] p = "exit" -> "copy_from_usb"
    [] p = "main" -> "show_admin"            [] p = "show_admin" -> "main"]
StartPage == [s \in {"status", "admin"} |-> IF s = "admin" THEN "copy_from_usb" ELSE "main"]
PagesOf   == [s \in {"status", "admin"} |-> IF s = "admin" THEN AdminPages ELSE StatusPages]

-----------------------------------------------------------------------------
\* usb.py's questions

\* isUsbPresent(dev): the first stick at or after dev's letter.
FirstFrom(d) ==
  IF d \in plugged THEN d
  ELSE IF d = First /\ plugged # {} THEN CHOOSE k \in plugged : TRUE
  ELSE NoStick
UsbPresent == plugged # {}

LiveAt(p) == {k \in plugged : at[k] = p}

\* Is there anything in the content folder of mount point p?
HasContent(p) ==
  IF LiveAt(p) # {} THEN LiveAt(p) \cap has # {}
  ELSE p = 0 /\ 0 \notin dead /\ own = "full"

\* shutil.rmtree of p's content folder, with errors ignored; the variant takes every
\* mount point's.
EraseAnywhere(p) == has' = {k \in has : at[k] = None} /\ own' = "absent"
EraseAt(p) ==
  /\ has' = has \ LiveAt(p)
  /\ own' = IF p = 0 /\ LiveAt(0) = {} /\ 0 \notin dead THEN "absent" ELSE own

-----------------------------------------------------------------------------
\* People, the daemon and the loader

PlugIn(k) ==
  /\ k \notin plugged
  /\ plugged' = plugged \cup {k}
  /\ UNCHANGED <<at, dead, has, own, dirs, files, loader, display, indexing, busy,
                 pc, locals, astray>>

PullOut(k) ==
  /\ k \in plugged
  /\ plugged' = plugged \ {k}
  /\ at' = [at EXCEPT ![k] = None]
  /\ dead' = dead \cup ({at[k]} \cap {0, 1})
  /\ UNCHANGED <<has, own, dirs, files, loader, display, indexing, busy, pc, locals, astray>>

\* PxUSBm's main loop polls only while usb0NoMount is not set.  A poll unmounts
\* what went away and mounts what has come, each stick at the lowest free slot; it
\* is taken to be over before the sleep in checkReturn is ("to allow PxUSBm to catch
\* up").
Poll(k) ==
  /\ ~noMount
  /\ dead' = {}
  /\ IF k \in plugged /\ at[k] = None
     THEN LET slot == IF LiveAt(0) # {} THEN 1 ELSE 0
          IN  at' = [at EXCEPT ![k] = slot] /\ dirs' = dirs \cup {slot}
     ELSE dead # {} /\ UNCHANGED <<at, dirs>>
  /\ UNCHANGED <<plugged, has, own, files, loader, display, indexing, busy, pc, locals, astray>>

\* "USB number >= 10": the daemon unmounts usb11, unless a copy is using it.
InUse(k) == \E b \in Buttons : pc[b] \in {"cf_copy", "ct_copy"} /\ at[k] = mnt[b]
DaemonFreesUsb11(k) ==
  /\ ~noMount
  /\ at[k] = 11 /\ ~InUse(k)
  /\ at' = [at EXCEPT ![k] = None]
  /\ UNCHANGED <<plugged, dead, has, own, dirs, files, loader, display, indexing,
                 busy, pc, locals, astray>>

\* A run of mmiLoader has its status file; it removes it at the end.
LoaderStarts ==
  /\ ~loader /\ ~status
  /\ loader' = TRUE /\ status' = TRUE
  /\ UNCHANGED <<world, noMount, display, indexing, busy, pc, locals, astray>>

LoaderEnds ==
  /\ loader
  /\ loader' = FALSE /\ status' = FALSE
  /\ UNCHANGED <<world, noMount, display, indexing, busy, pc, locals, astray>>

-----------------------------------------------------------------------------
\* The main loop (Axp209HAT.mainLoop) and what it does to the display

Show(p) == page' = p /\ UNCHANGED <<stack, pages, command>>
ShowAs(s, p) == stack' = s /\ page' = p /\ UNCHANGED <<pages, command>>

\* powerOffDisplay(): any stack but a waiting one gives way to the status pages.
PowerOffDisplay ==
  /\ stack \notin {"wait", "remove_usb", "insertUSB"}
  /\ page # "blank"
  /\ stack' = "status" /\ pages' = "status" /\ page' = "blank"
  /\ UNCHANGED command

\* Nobody has pressed anything for DISPLAY_TIMEOUT_SECS.
DisplayTimesOut ==
  /\ ~indexing
  /\ \A b \in Buttons : pc[b] = "idle"
  /\ PowerOffDisplay
  /\ UNCHANGED <<world, files, loader, indexing, busy, pc, locals, astray>>

ShowProgress ==
  /\ status /\ page # "wait"
  /\ Show("wait") /\ indexing' = TRUE
  /\ UNCHANGED <<world, files, loader, busy, pc, locals, astray>>

ProgressOver ==
  /\ ~status /\ indexing
  /\ Show("success") /\ indexing' = FALSE
  /\ UNCHANGED <<world, files, loader, busy, pc, locals, astray>>

\* The voltage is read afresh in every round.
LowBatteryPage ==
  /\ BatteryMayDip
  /\ \/ page # "low_battery" /\ Show("low_battery")
     \/ page = "low_battery" /\ PowerOffDisplay
  /\ UNCHANGED <<world, files, loader, indexing, busy, pc, locals, astray>>

-----------------------------------------------------------------------------
\* handleButtonPress()

Idle == \A b \in Buttons : pc[b] = "idle"
Goto(b, l) == pc' = [pc EXCEPT ![b] = l]
At(b, l) == pc[b] = l
Set(f, b, v) == f' = [f EXCEPT ![b] = v]

\* The flag is tested and set (in two steps, a few microseconds apart).
Press(b) ==
  /\ At(b, "idle") /\ (OneThread => Idle)
  /\ ~busy
  /\ busy' = TRUE
  /\ Goto(b, "timing")
  /\ UNCHANGED <<world, files, loader, display, indexing, locals, astray>>

\* checkPressTime() is over: the flag is cleared and pageStack read, before the
\* press is acted upon.
Released(b) ==
  /\ At(b, "timing") /\ Goto(b, "short")
  /\ busy' = FALSE
  /\ seen' = [seen EXCEPT ![b] = stack]
  /\ UNCHANGED <<world, files, loader, display, indexing, orig, dev, mnt, astray>>

\* switchPages()
SwitchPages ==
  /\ stack' = IF stack = "admin" THEN "status" ELSE "admin"
  /\ pages' = stack' /\ page' = StartPage[stack']
  /\ UNCHANGED command

\* Both buttons were held.
LongPress(b) ==
  /\ At(b, "timing") /\ Goto(b, "idle")
  /\ busy' = FALSE
  /\ SwitchPages
  /\ UNCHANGED <<world, files, loader, indexing, locals, astray>>

\* Less than 0.1 s.
Noise(b) ==
  /\ At(b, "timing") /\ Goto(b, "idle")
  /\ busy' = FALSE
  /\ UNCHANGED <<world, files, loader, display, indexing, locals, astray>>

\* moveForward() and moveBackward()
Turn(next)   == IF page \in PagesOf[pages] THEN next ELSE StartPage[pages]
Forward(p)  == NextPage[p]
Backward(p) == CHOOSE q \in PagesOf[pages] : NextPage[q] = p

\* What a short press does, by button and by the stack it saw.
ToStart(b)  == seen[b] = "success"
Cancels(b)  == \/ b = "left" /\ seen[b] \in {"confirm", "error"}
               \/ b = "right" /\ seen[b] = "error"
Enters(b)   == \/ b = "left" /\ seen[b] = "remove_usb"
               \/ b = "right" /\ seen[b] \notin {"success", "status", "error"}
Moves(b)    == ~ToStart(b) /\ ~Cancels(b) /\ ~Enters(b)

MoveToStartPage ==
  stack' = "admin" /\ page' = StartPage[pages] /\ UNCHANGED <<pages, command>>
ChooseCancel(b) ==
  /\ stack' = IF b = "left" THEN "admin" ELSE stack
  /\ page' = Turn(Forward(page)) /\ UNCHANGED <<pages, command>>
MovePage(b) == IF b = "left" THEN Show(Turn(Forward(page))) ELSE Show(Turn(Backward(page)))

ShortPress(b) ==
  /\ At(b, "short")
  /\ Goto(b, "idle")
  /\ \/ ToStart(b) /\ MoveToStartPage
     \/ Cancels(b) /\ ChooseCancel(b)
     \/ Moves(b) /\ MovePage(b)
  /\ Set(seen, b, "status")
  /\ UNCHANGED <<world, files, loader, indexing, busy, orig, dev, mnt, astray>>

\* (The variant forgets the admin pages.)
LastStatusPage == "show_admin"
LastPage == IF pages = "admin" THEN "exit" ELSE "show_admin"

\* chooseEnter() on an admin page asks for confirmation, on the last page leaves
\* them; on any other page (a blank one: ValueError) the callback dies.
EnterOnMenu(b) ==
  /\ At(b, "short") /\ Enters(b) /\ seen[b] = "admin"
  /\ \/ /\ page = LastPage /\ SwitchPages
        /\ Goto(b, "idle")
     \/ /\ page \in AdminPages \ {LastPage}
        /\ command' = page /\ stack' = "confirm" /\ page' = "confirm"
        /\ UNCHANGED pages
        /\ Goto(b, "idle")
     \/ /\ page \notin AdminPages \cup {LastPage}
        /\ Goto(b, "crashed") /\ UNCHANGED display
  /\ Set(seen, b, "status")
  /\ UNCHANGED <<world, files, loader, indexing, busy, orig, dev, mnt, astray>>

\* On any other page it runs the command it has in mind, battery permitting; a
\* callback whose command has raised an exception is simply over.
CommandStart == [c \in {"copy_from_usb", "copy_to_usb", "erase_folder", "remove_usb"} |->
  CASE c = "copy_from_usb" -> "cf_suspend" [] c = "copy_to_usb" -> "ct_start"
    [] c = "erase_folder" -> "ef_start"    [] c = "remove_usb" -> "ru_start"]

EnterCommand(b) ==
  /\ At(b, "short") /\ Enters(b) /\ seen[b] # "admin"
  /\ \/ command # "none" /\ Goto(b, CommandStart[command])
     \/ (command = "none" \/ BatteryMayDip) /\ Goto(b, "over")
  /\ UNCHANGED <<world, files, loader, display, indexing, busy, locals, astray>>

CallbackOver(b) ==
  /\ pc[b] \in {"over", "crashed", "moved"}
  /\ Goto(b, "idle")
  /\ Set(seen, b, "status") /\ Set(orig, b, FALSE) /\ Set(dev, b, NoStick) /\ Set(mnt, b, None)
  /\ astray' = (astray \/ pc[b] # "over")
  /\ UNCHANGED <<world, files, loader, display, indexing, busy>>

-----------------------------------------------------------------------------
\* Steps that commands share

Quiet == UNCHANGED <<loader, indexing, busy, seen, astray>>

\* checkReturn(NoMountOrig), then the status file is removed; the variants do half.
StatusOnly(b) == status' = FALSE /\ UNCHANGED noMount
FlagOnly(b) == noMount' = orig[b] /\ UNCHANGED status
PutBack(b) == noMount' = orig[b] /\ status' = FALSE

\* remove_usb page; the next press of "left" is to run remove_usb again.
AskToRemove ==
  /\ stack' = "remove_usb" /\ page' = "remove_usb" /\ command' = "remove_usb"
  /\ UNCHANGED pages

ShowError   == ShowAs("error", "error")
ShowSuccess == ShowAs("success", "success")

\* mmiLoader is started in the background, and writes the status file.
StartLoader == loader' = TRUE /\ status' = TRUE

-----------------------------------------------------------------------------
\* remove_usb

RuStart(b) ==
  /\ At(b, "ru_start") /\ Goto(b, "ru_wait")
  /\ status' = TRUE
  /\ UNCHANGED <<world, noMount, display, orig, dev, mnt>> /\ Quiet

RuAgain(b) ==
  /\ At(b, "ru_wait") /\ UsbPresent
  /\ <<stack, page>> # <<"remove_usb", "remove_usb">>
  /\ ShowAs("remove_usb", "remove_usb")
  /\ UNCHANGED <<world, files, pc, orig, dev, mnt>> /\ Quiet

RuDone(b) ==
  /\ At(b, "ru_wait") /\ ~UsbPresent /\ Goto(b, "over")
  /\ ShowSuccess
  /\ status' = FALSE
  /\ UNCHANGED <<world, noMount, orig, dev, mnt>> /\ Quiet

-----------------------------------------------------------------------------
\* copy_from_usb

CfSuspend(b) ==
  /\ At(b, "cf_suspend") /\ Goto(b, "cf_look")
  /\ Set(orig, b, noMount) /\ noMount' = TRUE
  /\ UNCHANGED <<world, status, display, dev, mnt>> /\ Quiet

CfLook(b) ==
  /\ At(b, "cf_look")
  /\ IF UsbPresent
     THEN Goto(b, "cf_dev") /\ UNCHANGED display
     ELSE Goto(b, "cf_insert") /\ ShowAs("insertUSB", "insert_usb")
  /\ UNCHANGED <<world, files, orig, dev, mnt>> /\ Quiet

CfInserted(b) ==
  /\ At(b, "cf_insert") /\ UsbPresent /\ Goto(b, "cf_dev")
  /\ status' = TRUE
  /\ UNCHANGED <<world, noMount, display, orig, dev, mnt>> /\ Quiet

\* getUSB, isUsbPresent; with no stick after all, dev is "".
CfDev(b) ==
  /\ At(b, "cf_dev")
  /\ Set(dev, b, FirstFrom(First))
  /\ status' = TRUE
  /\ Goto(b, IF dev'[b] = NoStick THEN "cf_space"
             ELSE IF at[dev'[b]] = 0 THEN "cf_move"
             ELSE IF at[dev'[b]] = None THEN "cf_mount" ELSE "cf_space")
  /\ Set(mnt, b, IF dev'[b] = NoStick THEN None ELSE at[dev'[b]])
  /\ UNCHANGED <<world, noMount, display, orig>> /\ Quiet

\* moveMount() cannot unmount what is in use, which an error page reports.
CfMoveFails(b) ==
  /\ At(b, "cf_move") /\ Goto(b, "over")
  /\ ShowError /\ PutBack(b)
  /\ UNCHANGED <<world, orig, dev, mnt>> /\ Quiet

\* moveMount() unmounts what df shows at usb0 ...
CfUnmount(b) ==
  /\ At(b, "cf_move") /\ Goto(b, "cf_remount")
  /\ at' = [k \in Sticks |-> IF at[k] = 0 THEN None ELSE at[k]]
  /\ dirs' = dirs \cup {11}
  /\ UNCHANGED <<plugged, dead, has, own, files, display, orig, dev, mnt>> /\ Quiet

\* ... and mounts it at usb11, a failure of which goes unnoticed.  If usb11 is
\* listed (it may be the mount of a stick long gone), the loop that was to remove the status file also leaves the command.
CfRemount(b) ==
  /\ At(b, "cf_remount")
  /\ at' = IF dev[b] \in plugged /\ at[dev[b]] = None
           THEN [at EXCEPT ![dev[b]] = 11] ELSE at
  /\ \/ status /\ Goto(b, "moved") /\ UNCHANGED mnt
     \/ ~(status /\ \E k \in Sticks : at'[k] = 11) /\ Goto(b, "cf_space") /\ Set(mnt, b, 11)
  /\ status' = FALSE
  /\ UNCHANGED <<plugged, dead, has, own, dirs, noMount, display, orig, dev>> /\ Quiet

\* A stick that is not mounted goes to the highest /media/usbN that exists; that
\* the mount may fail is not looked at.
CfMount(b) ==
  /\ At(b, "cf_mount")
  /\ LET x == CHOOSE x \in dirs : \A y \in dirs : y <= x
         k == FirstFrom(dev[b])
     IN /\ Set(mnt, b, x)
        /\ IF k # NoStick /\ at[k] # None
           THEN Goto(b, "crashed") /\ UNCHANGED at      \* exsisting_mount_point
           ELSE Goto(b, "cf_space") /\ \/ UNCHANGED at
                                       \/ k # NoStick /\ at' = [at EXCEPT ![k] = x]
  /\ UNCHANGED <<plugged, dead, has, own, dirs, files, display, orig, dev>> /\ Quiet

CfSpace(b) ==
  /\ At(b, "cf_space") /\ Goto(b, "cf_erase")
  /\ status' = TRUE
  /\ ShowAs("wait", "wait")
  /\ UNCHANGED <<world, noMount, orig, dev, mnt>> /\ Quiet

\* "Destination path already exists, erasing before copy"
CfErase(b) ==
  /\ At(b, "cf_erase") /\ Goto(b, "cf_check")
  /\ EraseAt(0)
  /\ UNCHANGED <<plugged, at, dead, dirs, files, display, orig, dev, mnt>> /\ Quiet

CfCheck(b) ==
  /\ At(b, "cf_check")
  /\ \/ /\ mnt[b] # None /\ HasContent(mnt[b])         \* there is room
        /\ Goto(b, "cf_copy")
        /\ status' = TRUE /\ Show("wait") /\ UNCHANGED noMount
     \/ /\ dev[b] = NoStick                            \* isUsbPresent("")
        /\ Goto(b, "crashed") /\ UNCHANGED <<files, display>>
     \/ /\ dev[b] # NoStick                            \* no room, or nothing to copy
        /\ IF FirstFrom(dev[b]) # NoStick
           THEN Goto(b, "cf_remove") /\ AskToRemove
           ELSE Goto(b, "cf_done") /\ UNCHANGED display
        /\ UNCHANGED files
  /\ UNCHANGED <<world, orig, dev, mnt>> /\ Quiet

CfRemoved(b) ==
  /\ At(b, "cf_remove") /\ FirstFrom(dev[b]) = NoStick /\ Goto(b, "over")
  /\ ShowSuccess /\ PutBack(b)
  /\ UNCHANGED <<world, orig, dev, mnt>> /\ Quiet

\* copyFiles(): a source that is gone meets `logginf`.
CfCopyFails(b) ==
  /\ At(b, "cf_copy")
  /\ IF HasContent(mnt[b])
     THEN Goto(b, "over") /\ ShowError /\ PutBack(b)
     ELSE Goto(b, "crashed") /\ UNCHANGED <<files, display>>
  /\ UNCHANGED <<world, orig, dev, mnt>> /\ Quiet

CfCopied(b) ==
  /\ At(b, "cf_copy") /\ HasContent(mnt[b]) /\ Goto(b, "cf_wait")
  /\ has' = has \cup LiveAt(0)
  /\ own' = IF LiveAt(0) = {} /\ 0 \notin dead THEN "full" ELSE own
  /\ at' = [k \in Sticks |-> IF at[k] = mnt[b] THEN None ELSE at[k]]
  /\ status' = FALSE
  /\ ShowAs("remove_usb", "remove_usb")
  /\ UNCHANGED <<plugged, dead, dirs, noMount, orig, dev, mnt>> /\ Quiet

CfAllOut(b) ==
  /\ At(b, "cf_wait") /\ ~UsbPresent /\ Goto(b, "cf_done")
  /\ UNCHANGED <<world, files, display, orig, dev, mnt>> /\ Quiet

CfDone(b) ==
  /\ At(b, "cf_done") /\ Goto(b, "over")
  /\ ShowSuccess /\ noMount' = orig[b] /\ StartLoader
  /\ UNCHANGED <<world, indexing, busy, locals, astray>>

-----------------------------------------------------------------------------
\* erase_folder

\* A stick is to be pulled out first: Popen('umount sda1 ') finds no such program.
EfStart(b) ==
  /\ At(b, "ef_start") /\ UsbPresent /\ Goto(b, "crashed")
  /\ AskToRemove
  /\ UNCHANGED <<world, files, orig, dev, mnt>> /\ Quiet

\* os.listdir() fails where there is no content folder, or a dead mount.
EfErase(b) ==
  /\ At(b, "ef_start") /\ ~UsbPresent
  /\ IF own = "absent" \/ 0 \in dead
     THEN Goto(b, "crashed") /\ UNCHANGED <<own, display, loader, status>>
     ELSE Goto(b, "over") /\ own' = "empty" /\ ShowSuccess /\ StartLoader
  /\ UNCHANGED <<plugged, at, dead, has, dirs, noMount, indexing, busy, locals, astray>>

-----------------------------------------------------------------------------
\* copy_to_usb

\* brand.j2 is read, and written to another file: usb0NoMount stays as it is.
CtStart(b) ==
  /\ At(b, "ct_start")
  /\ Set(orig, b, noMount)
  /\ IF UsbPresent
     THEN Goto(b, "ct_sizes") /\ UNCHANGED display
     ELSE Goto(b, "ct_insert") /\ ShowAs("insertUSB", "insert_usb")
  /\ UNCHANGED <<world, files, dev, mnt>> /\ Quiet

CtInserted(b) ==
  /\ At(b, "ct_insert") /\ UsbPresent /\ Goto(b, "ct_look")
  /\ UNCHANGED <<world, files, display, orig, dev, mnt>> /\ Quiet

CtLook(b) ==
  /\ At(b, "ct_look")
  /\ IF UsbPresent THEN Goto(b, "ct_sizes") /\ UNCHANGED noMount
     ELSE Goto(b, "over") /\ noMount' = orig[b]
  /\ UNCHANGED <<world, status, display, orig, dev, mnt>> /\ Quiet

\* dev is /dev/sda1, even if the stick that was found is another one.
CtSizes(b) ==
  /\ At(b, "ct_sizes")
  /\ Set(dev, b, First) /\ Set(mnt, b, at[First])
  /\ status' = TRUE
  /\ ShowAs("wait", "wait")
  /\ Goto(b, IF at[First] = 0 THEN "ct_move"
             ELSE IF at[First] = None THEN "ct_mount" ELSE "ct_erase")
  /\ UNCHANGED <<world, noMount, orig>> /\ Quiet

CtMount(b) ==
  /\ At(b, "ct_mount")
  /\ dirs' = dirs \cup {11}
  /\ LET k == FirstFrom(dev[b])
     IN \/ /\ k # NoStick /\ at[k] = None              \* mounted
           /\ at' = [at EXCEPT ![k] = 11] /\ Set(mnt, b, 11)
           /\ Goto(b, "ct_erase") /\ UNCHANGED <<files, display>>
        \/ /\ k # NoStick => at[k] = None              \* not mounted
           /\ Goto(b, "over") /\ status' = FALSE
           /\ UNCHANGED <<at, mnt, noMount, display>>
        \/ /\ k # NoStick /\ at[k] # None              \* exsisting_mount_point
           /\ Goto(b, "over") /\ ShowError /\ PutBack(b)
           /\ UNCHANGED <<at, mnt>>
  /\ UNCHANGED <<plugged, dead, has, own, orig, dev>> /\ Quiet

CtMoveFails(b) ==
  /\ At(b, "ct_move")
  /\ ShowError
  /\ \/ Goto(b, "crashed") /\ UNCHANGED <<dirs, files>>    \* rmdir of what is mounted
     \/ LiveAt(11) = {} /\ Goto(b, "over") /\ PutBack(b) /\ dirs' = dirs \ {11}
  /\ UNCHANGED <<plugged, at, dead, has, own, orig, dev, mnt>> /\ Quiet

\* After a moveMount(): `getDev` is not defined.
CtMoved(b) ==
  /\ At(b, "ct_move") /\ Goto(b, "crashed")
  /\ at' = [k \in Sticks |-> IF k = First /\ k \in plugged THEN 11
                              ELSE IF at[k] = 0 THEN None ELSE at[k]]
  /\ dirs' = dirs \cup {11}
  /\ UNCHANGED <<plugged, dead, has, own, files, display, orig, dev, mnt>> /\ Quiet

CtErase(b) ==
  /\ At(b, "ct_erase") /\ Goto(b, "ct_check")
  /\ has' = has \ LiveAt(mnt[b])
  /\ UNCHANGED <<plugged, at, dead, own, dirs, files, display, orig, dev, mnt>> /\ Quiet

CtCheck(b) ==
  /\ At(b, "ct_check")
  /\ \/ /\ HasContent(0)                               \* there is room
        /\ Goto(b, "ct_copy")
        /\ status' = TRUE /\ Show("wait")
     \/ /\ HasContent(0)                               \* there is none: "We finished"
        /\ Goto(b, "ct_done") /\ UNCHANGED <<status, display>>
     \/ /\ ~HasContent(0)                              \* nothing to copy
        /\ status' = FALSE
        /\ IF FirstFrom(dev[b]) # NoStick
           THEN Goto(b, "ct_remove") /\ AskToRemove
           ELSE Goto(b, "over") /\ UNCHANGED display
  /\ UNCHANGED <<world, noMount, orig, dev, mnt>> /\ Quiet

CtRemoved(b) ==
  /\ At(b, "ct_remove") /\ FirstFrom(dev[b]) = NoStick /\ Goto(b, "over")
  /\ ShowSuccess /\ PutBack(b)
  /\ UNCHANGED <<world, orig, dev, mnt>> /\ Quiet

\* After a failed copy getMount() is waited for to be False, which it never is.
CtCopyFails(b) ==
  /\ At(b, "ct_copy")
  /\ IF HasContent(0)
     THEN Goto(b, "ct_stuck") /\ ShowAs("remove_usb", "remove_usb")
     ELSE Goto(b, "crashed") /\ UNCHANGED display      \* `logginf`
  /\ UNCHANGED <<world, files, orig, dev, mnt>> /\ Quiet

CtCopied(b) ==
  /\ At(b, "ct_copy") /\ HasContent(0) /\ Goto(b, "ct_wait")
  /\ has' = has \cup LiveAt(mnt[b])
  /\ at' = [k \in Sticks |-> IF at[k] = mnt[b] THEN None ELSE at[k]]
  /\ status' = FALSE
  /\ ShowAs("remove_usb", "remove_usb")
  /\ UNCHANGED <<plugged, dead, own, dirs, noMount, orig, dev, mnt>> /\ Quiet

CtAllOut(b) ==
  /\ At(b, "ct_wait") /\ ~UsbPresent /\ Goto(b, "ct_done")
  /\ UNCHANGED <<world, files, display, orig, dev, mnt>> /\ Quiet

CtDone(b) ==
  /\ At(b, "ct_done") /\ Goto(b, "over")
  /\ ShowSuccess /\ PutBack(b)
  /\ UNCHANGED <<world, orig, dev, mnt>> /\ Quiet

-----------------------------------------------------------------------------
\* The power fails, or a single long press shuts the box down, or the service
\* restarts alone: brand.j2 stays as it was.
Fresh ==
  /\ stack' = "status" /\ pages' = "status" /\ page' = "main" /\ command' = "none"
  /\ indexing' = FALSE /\ busy' = FALSE
  /\ pc' = [b \in Buttons |-> "idle"] /\ seen' = [b \in Buttons |-> "status"]
  /\ orig' = [b \in Buttons |-> FALSE] /\ dev' = [b \in Buttons |-> NoStick]
  /\ mnt' = [b \in Buttons |-> None]
  /\ astray' = (astray \/ ~Idle)

PowerCut ==
  /\ CutsMayCome
  /\ Fresh
  /\ at' = [k \in Sticks |-> None] /\ dead' = {} /\ loader' = FALSE /\ status' = FALSE
  /\ UNCHANGED <<plugged, has, own, dirs, noMount>>

\* cli.py removes the status file when it starts.
ServiceRestarts ==
  /\ CutsMayCome
  /\ Fresh
  /\ status' = FALSE
  /\ UNCHANGED <<world, noMount, loader>>

Init ==
  /\ plugged = {} /\ at = [k \in Sticks |-> None] /\ dead = {} /\ has \in SUBSET Sticks
  /\ own \in {"absent", "full"} /\ dirs = Dirs0
  /\ noMount = FALSE /\ status = FALSE /\ loader = FALSE
  /\ stack = "status" /\ pages = "status" /\ page = "main" /\ command = "none"
  /\ indexing = FALSE /\ busy = FALSE
  /\ pc = [b \in Buttons |-> "idle"] /\ seen = [b \in Buttons |-> "status"]
  /\ orig = [b \in Buttons |-> FALSE] /\ dev = [b \in Buttons |-> NoStick]
  /\ mnt = [b \in Buttons |-> None] /\ astray = FALSE

People == \E k \in Sticks : PlugIn(k) \/ PullOut(k)
Daemon ==
  \E k \in Sticks : Poll(k) \/ DaemonFreesUsb11(k)
MainLoop == DisplayTimesOut \/ ShowProgress \/ ProgressOver \/ LowBatteryPage
Handle(b) ==
  \/ Released(b) \/ LongPress(b) \/ Noise(b) \/ ShortPress(b) \/ EnterOnMenu(b)
  \/ EnterCommand(b) \/ CallbackOver(b)
RemoveUsb(b) == RuStart(b) \/ RuAgain(b) \/ RuDone(b)
CopyFromUsb(b) ==
  \/ CfSuspend(b) \/ CfLook(b) \/ CfInserted(b) \/ CfDev(b) \/ CfMoveFails(b)
  \/ CfUnmount(b) \/ CfRemount(b) \/ CfMount(b) \/ CfSpace(b)
  \/ CfErase(b) \/ CfCheck(b) \/ CfRemoved(b) \/ CfCopyFails(b) \/ CfCopied(b)
  \/ CfAllOut(b) \/ CfDone(b)
EraseFolder(b) == EfStart(b) \/ EfErase(b)
CopyToUsb(b) ==
  \/ CtStart(b) \/ CtInserted(b) \/ CtLook(b) \/ CtSizes(b) \/ CtMount(b)
  \/ CtMoveFails(b) \/ CtMoved(b) \/ CtErase(b) \/ CtCheck(b) \/ CtRemoved(b)
  \/ CtCopyFails(b) \/ CtCopied(b) \/ CtAllOut(b) \/ CtDone(b)
Callback(b) ==
  Handle(b) \/ RemoveUsb(b) \/ CopyFromUsb(b) \/ EraseFolder(b) \/ CopyToUsb(b)

Next ==
  \/ People \/ Daemon \/ LoaderStarts \/ LoaderEnds \/ MainLoop
  \/ \E b \in Buttons : Press(b) \/ Callback(b)
  \/ PowerCut \/ ServiceRestarts

Spec == Init /\ [][Next]_vars

-----------------------------------------------------------------------------
WorldType ==
  /\ plugged \subseteq Sticks /\ at \in [Sticks -> Points \cup {None}]
  /\ dead \subseteq {0, 1}
  /\ has \subseteq Sticks /\ own \in {"absent", "empty", "full"}
  /\ dirs \subseteq Points

FlagsType == {noMount, status, loader, indexing, busy, astray} \subseteq BOOLEAN

StackNames == {"status", "admin", "confirm", "success", "error", "wait", "remove_usb",
               "insertUSB"}
DisplayType ==
  /\ stack \in StackNames
  /\ pages \in {"status", "admin"}
  /\ page \in AdminPages \cup StatusPages \cup OtherPages
  /\ command \in {"none", "copy_from_usb", "copy_to_usb", "erase_folder", "remove_usb"}

LocalsType ==
  /\ seen \in [Buttons -> StackNames]
  /\ orig \in [Buttons -> BOOLEAN]
  /\ dev \in [Buttons -> Sticks \cup {NoStick}]
  /\ mnt \in [Buttons -> Points \cup {None}]

TypeOK == WorldType /\ FlagsType /\ DisplayType /\ LocalsType

\* usb0NoMount is raised for the time of a command only: whatever way a command
\* ends by itself, error returns included, the daemon may mount again afterwards
\* ("turn off automount temporarily", copyFiles in usb.py).
FlagPutBack == Idle /\ noMount => astray

\* The status file, which keeps the screen on "wait", is there only while a
\* command or mmiLoader runs (README: "it can never stay on 'Indexing' with
\* nothing running").
StatusExplained == Idle /\ status /\ ~loader => astray

\* The only step that takes a stick's content away is copy_to_usb's; copy_from_usb,
\* which empties /media/usb0/content before it copies, and erase_folder never do,
\* as long as there is another mount point than usb0 to put the stick at.
StickKeepsContent ==
  [][\A k \in has \ has' : dirs = {0} \/ \E b \in Buttons : pc[b] = "ct_erase"]_vars

\* The same without that proviso (README: "Copy from USB copies a stick's content/
\* to the box's SD card").
CopyFromKeepsStick ==
  [][\A k \in has \ has' : \E b \in Buttons : pc[b] = "ct_erase"]_vars
=============================================================================
