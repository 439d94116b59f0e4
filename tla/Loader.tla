------------------------------- MODULE Loader -------------------------------
(***************************************************************************)
(* The life of a run of mmiLoader.py, the program that builds the menus.   *)
(*                                                                         *)
(* PxUSBm.py starts a run in the unit connectbox-loader when a key has     *)
(* been mounted at /media/usb0, or the box's own content has come back     *)
(* there, and stops it when the key is pulled out; the front panel and the *)
(* admin page start runs of their own, outside that unit.  A run restores  *)
(* the menus from a saved.zip or walks the content directory by directory, *)
(* writes the menus and saves them in a saved.zip on whatever is at        *)
(* /media/usb0 by then.  Two files in /tmp tell the world about it: the    *)
(* front panel's status text and the "loading new content" page.           *)
(*                                                                         *)
(* The daemon's side is that of UsbMount.tla as seen from /media/usb0.     *)
(***************************************************************************)
EXTENDS Integers

CONSTANTS
  Keys,         \* the USB keys, each with content
  Own,          \* the SD card, seen at /media/usb0 while no key is mounted
  NoKey,        \* "nothing is plugged in"
  UsedBefore,   \* the keys that this box has indexed before
  NumDirs,      \* directories that a walk visits on every volume
  OwnContent,   \* TRUE if the SD card has content in /media/usb0/content
  ExtraRuns,    \* TRUE if the panel and the admin page start runs too
  Kills         \* TRUE if systemd may have to kill a run it stops (90 s)

ASSUME LoaderAssumption ==
  /\ Own \notin Keys /\ NoKey \notin Keys /\ Own # NoKey
  /\ UsedBefore \subseteq Keys
  /\ NumDirs \in Nat \ {0}
  /\ {OwnContent, ExtraRuns, Kills} \subseteq BOOLEAN

Volumes == Keys \cup {Own}
Dirs    == 1 .. NumDirs
Cards   == Volumes \X Dirs           \* what one directory puts in the menus
CardsOf(v) == {v} \X Dirs

Runs == {"unit", "extra"}

VARIABLES
  \* /media/usb0
  plugged,     \* the key that is plugged in
  at0,         \* the volume at /media/usb0 ...
  dead,        \* ... which is a key that has been pulled out
  zip,         \* the cards in each volume's saved.zip, {} without one
  \* What visitors and the panel see
  menus,       \* the cards in the menus
  status,      \* who wrote /tmp/creating_menus.txt, "none" if there is none
  page,        \* the "loading new content" page exists
  \* The runs
  pc,
  term,        \* _shutdown_requested
  usb0Was,     \* _usb0_was_mount: "unknown" (None), "key" or "card"
  dir,         \* the directory the walk has come to, 0 before the walk
  found,       \* the cards the walk has made
  \* PxUSBm.py
  dpc,
  sentinel,    \* /tmp/.usb0_indexed exists
  ownIndexed   \* /tmp/.internal_indexed exists

usb0   == <<plugged, at0, dead>>
shown  == <<menus, status, page>>
walk   == <<usb0Was, dir, found>>
daemon == <<dpc, sentinel, ownIndexed>>
vars   == <<usb0, zip, shown, pc, term, walk, daemon>>

Alive(r) == pc[r] # "none"
Goto(r, label) == pc' = [pc EXCEPT ![r] = label]

\* SIGTERM goes to the whole unit: the zip or unzip that a run waits for dies.
Stopping == dpc \in {"stop_to_start", "stop_to_clear"}
MayBreakOff(r) == dead \/ (r = "unit" /\ Stopping)

-----------------------------------------------------------------------------
\* Keys come and go

InsertKey(k) ==
  /\ plugged = NoKey
  /\ plugged' = k
  /\ UNCHANGED <<at0, dead, zip, shown, pc, term, walk, daemon>>

RemoveKey ==
  /\ plugged # NoKey
  /\ plugged' = NoKey
  /\ dead' = (at0 # Own)
  /\ UNCHANGED <<at0, zip, shown, pc, term, walk, daemon>>

-----------------------------------------------------------------------------
\* A run starts: the single-instance guard and the preparations

\* What a run shows on the front panel once it has been told to stop: nothing.
ShowStatus(r) == status' = IF term[r] THEN status ELSE r

GuardFree(r) ==
  /\ pc[r] = "starting"
  /\ status = "none"
  /\ Goto(r, "initialize")
  /\ UNCHANGED <<usb0, zip, shown, term, walk, daemon>>

\* other_loader_running(); the variant takes the file's word for it.
FileSaysSo(r) == TRUE
OtherLoaderRunning(r) == \E o \in Runs \ {r} : Alive(o)

GuardTaken(r) ==
  /\ pc[r] = "starting"
  /\ status # "none"
  /\ OtherLoaderRunning(r)
  /\ Goto(r, "none")
  /\ term' = [term EXCEPT ![r] = FALSE]
  /\ UNCHANGED <<usb0, zip, shown, walk, daemon>>

\* The file is there and no other loader is: it is stale ...
FindStale(r) ==
  /\ pc[r] = "starting"
  /\ status # "none"
  /\ ~OtherLoaderRunning(r)
  /\ Goto(r, "stale")
  /\ UNCHANGED <<usb0, zip, shown, term, walk, daemon>>

\* ... and removed, whoever has written it by now.
RemoveStale(r) ==
  /\ pc[r] = "stale"
  /\ status' = "none"
  /\ Goto(r, "initialize")
  /\ UNCHANGED <<usb0, zip, menus, page, term, walk, daemon>>

InitializeRun(r) ==
  /\ pc[r] = "initialize"
  /\ status' = IF term[r] THEN "none" ELSE r
  /\ Goto(r, "remove_content")
  /\ UNCHANGED <<usb0, zip, menus, page, term, walk, daemon>>

RemoveContent(r) ==
  /\ pc[r] = "remove_content"
  /\ menus' = {}
  /\ Goto(r, "look_for_zip")
  /\ UNCHANGED <<usb0, zip, status, page, term, walk, daemon>>

-----------------------------------------------------------------------------
\* The fast path: restore_from_saved_zip()

FindZip(r) ==
  /\ pc[r] = "look_for_zip"
  /\ zip[at0] # {} /\ ~dead
  /\ ShowStatus(r)
  /\ Goto(r, "unzip")
  /\ UNCHANGED <<usb0, zip, menus, page, term, walk, daemon>>

Unzip(r) ==
  /\ pc[r] = "unzip"
  /\ \E part \in SUBSET zip[at0] :
       /\ part # zip[at0] => MayBreakOff(r)
       /\ menus' = menus \cup part
  /\ Goto(r, "restored")
  /\ UNCHANGED <<usb0, zip, status, page, term, walk, daemon>>

EndRestore(r) ==
  /\ pc[r] = "restored"
  /\ status' = "none"
  /\ Goto(r, "exit")
  /\ UNCHANGED <<usb0, zip, menus, page, term, walk, daemon>>

-----------------------------------------------------------------------------
\* The full index: setup_fresh_content_dir(), the walk, finalize_output()

\* The page is shown even by a run that has been told to stop.
FreshContent(r) ==
  /\ pc[r] = "look_for_zip"
  /\ zip[at0] = {} \/ dead
  /\ menus' = {}
  /\ ShowStatus(r)
  /\ page' = TRUE
  /\ dir' = [dir EXCEPT ![r] = 1]
  /\ Goto(r, "languages")
  /\ UNCHANGED <<usb0, zip, term, usb0Was, found, daemon>>

\* set_indexing_languages() and indexing_progress() write the page anew only if it
\* exists, but look some time before they write: the first looks its messages up
\* on the internet meanwhile.
SetIndexingLanguages(r) ==
  /\ pc[r] = "languages"
  /\ \/ page /\ Goto(r, "messages")
     \/ Goto(r, "walk")
  /\ UNCHANGED <<usb0, zip, shown, term, walk, daemon>>

WriteIndexingPage(r) ==
  /\ page' = TRUE
  /\ \/ pc[r] = "messages" /\ Goto(r, "walk")
     \/ pc[r] = "progress" /\ Goto(r, "files")
  /\ UNCHANGED <<usb0, zip, menus, status, term, walk, daemon>>

\* Not at every file: every 25 files or 10 seconds.
IndexingProgress(r) == Goto(r, "files") \/ (page /\ Goto(r, "progress"))

IsMount == at0 # Own

\* _usb0_was_mount as usb_is_present() leaves it.
FirstLook(r) ==
  IF term[r] \/ usb0Was[r] # "unknown" THEN usb0Was[r]
  ELSE IF IsMount THEN "key" ELSE "card"

UsbIsPresent(r) ==
  /\ ~term[r]
  /\ IF FirstLook(r) = "key" THEN IsMount ELSE IsMount \/ OwnContent

Look(r) == usb0Was' = [usb0Was EXCEPT ![r] = FirstLook(r)]

\* The walk has another directory; the variant goes one too far.
OneTooFar(r)  == dir[r] <= NumDirs + 1
MoreToWalk(r) == dir[r] <= NumDirs

EnterDirectory(r) ==
  /\ pc[r] = "walk" /\ MoreToWalk(r)
  /\ UsbIsPresent(r) /\ Look(r)
  /\ ShowStatus(r)
  /\ IndexingProgress(r)
  /\ UNCHANGED <<usb0, zip, menus, page, term, dir, found, daemon>>

StopWalk(r) ==
  /\ pc[r] = "walk" /\ MoreToWalk(r)
  /\ ~UsbIsPresent(r) /\ Look(r)
  /\ Goto(r, "exit")
  /\ UNCHANGED <<usb0, zip, shown, term, dir, found, daemon>>

\* process_directory_files() reads whatever is at /media/usb0 now; a key that has
\* been pulled out may still answer.
ProcessFiles(r) ==
  /\ pc[r] = "files"
  /\ UsbIsPresent(r) /\ Look(r)
  /\ ShowStatus(r)
  /\ \/ found' = [found EXCEPT ![r] = @ \cup {<<at0, dir[r]>>}]
     \/ dead /\ UNCHANGED found
  /\ dir' = [dir EXCEPT ![r] = @ + 1]
  /\ Goto(r, "walk")
  /\ UNCHANGED <<usb0, zip, menus, page, term, daemon>>

\* It returns early; only the walk's own check, at the next directory, ends the run.
BreakOffFiles(r) ==
  /\ pc[r] = "files"
  /\ ~UsbIsPresent(r) /\ Look(r)
  /\ ShowStatus(r)
  /\ dir' = [dir EXCEPT ![r] = @ + 1]
  /\ Goto(r, "walk")
  /\ UNCHANGED <<usb0, zip, menus, page, term, found, daemon>>

EndWalk(r) ==
  /\ pc[r] = "walk" /\ ~MoreToWalk(r)
  /\ Goto(r, "write")
  /\ UNCHANGED <<usb0, zip, shown, term, walk, daemon>>

NothingFound(r) ==
  /\ pc[r] = "write"
  /\ found[r] = {}
  /\ status' = "none"
  /\ Goto(r, "exit")
  /\ UNCHANGED <<usb0, zip, menus, page, term, walk, daemon>>

WriteMenus(r) ==
  /\ pc[r] = "write"
  /\ found[r] # {}
  /\ menus' = found[r]
  /\ Goto(r, "check")
  /\ UNCHANGED <<usb0, zip, status, page, term, walk, daemon>>

\* The last look before the zip; the variant does not look.
UsbAssumed(r) == TRUE
UsbForZip(r)  == UsbIsPresent(r)

EndPage(r) ==
  /\ pc[r] = "check"
  /\ UsbForZip(r) /\ Look(r)
  /\ page' = FALSE
  /\ Goto(r, "zip")
  /\ UNCHANGED <<usb0, zip, menus, status, term, dir, found, daemon>>

SkipZip(r) ==
  /\ pc[r] = "check"
  /\ ~UsbForZip(r) /\ Look(r)
  /\ Goto(r, "exit")
  /\ UNCHANGED <<usb0, zip, shown, term, dir, found, daemon>>

\* zip -r adds to an archive that is already there.
WriteZip(r) ==
  /\ pc[r] = "zip"
  /\ \/ ~dead /\ zip' = [zip EXCEPT ![at0] = @ \cup menus]
     \/ MayBreakOff(r) /\ UNCHANGED zip
  /\ Goto(r, "finish")
  /\ UNCHANGED <<usb0, shown, term, walk, daemon>>

Finish(r) ==
  /\ pc[r] = "finish"
  /\ status' = "none"
  /\ Goto(r, "exit")
  /\ UNCHANGED <<usb0, zip, menus, page, term, walk, daemon>>

Forget(r) ==
  /\ Goto(r, "none")
  /\ term'    = [term EXCEPT ![r] = FALSE]
  /\ usb0Was' = [usb0Was EXCEPT ![r] = "unknown"]
  /\ dir'     = [dir EXCEPT ![r] = 0]
  /\ found'   = [found EXCEPT ![r] = {}]

\* The atexit functions: the status if it still holds this run's text (another run
\* may have written the same), the page if this run has shown one; the variant
\* removes the page at the end of finalize_output() only.
KeepPage(r) == page
PageAfter(r) == page /\ dir[r] = 0

Exit(r) ==
  /\ pc[r] = "exit"
  /\ \/ status' = IF status = r THEN "none" ELSE status
     \/ status \in Runs \ {r} /\ status' = "none"
  /\ page' = PageAfter(r)
  /\ Forget(r)
  /\ UNCHANGED <<usb0, zip, menus, daemon>>

\* _sigterm_handler() removes both files, whoever wrote them, and lets the run go on.
Sigterm ==
  /\ Stopping
  /\ Alive("unit") /\ ~term["unit"]
  /\ term' = [term EXCEPT !["unit"] = TRUE]
  /\ status' = "none" /\ page' = FALSE
  /\ UNCHANGED <<usb0, zip, menus, pc, walk, daemon>>

Kill ==
  /\ Kills
  /\ Stopping
  /\ Alive("unit") /\ term["unit"]
  /\ Forget("unit")
  /\ UNCHANGED <<usb0, zip, shown, daemon>>

-----------------------------------------------------------------------------
\* PxUSBm.py's polls, as far as /media/usb0 is concerned

MountKey ==
  /\ dpc = "idle"
  /\ plugged # NoKey /\ at0 = Own
  /\ at0' = plugged
  /\ UNCHANGED <<plugged, dead, zip, shown, pc, term, walk, daemon>>

\* Pass 1, key still mounted: index it once.
StillMounted ==
  /\ dpc = "idle"
  /\ IsMount /\ ~dead /\ ~sentinel
  /\ sentinel' = TRUE
  /\ dpc' = "stop_to_start"
  /\ UNCHANGED <<usb0, zip, shown, pc, term, walk, ownIndexed>>

CheckInternalContent ==
  /\ dpc = "idle"
  /\ ~IsMount /\ ~ownIndexed
  /\ ownIndexed' = TRUE
  /\ dpc' = IF OwnContent THEN "stop_to_start" ELSE dpc
  /\ UNCHANGED <<usb0, zip, shown, pc, term, walk, sentinel>>

\* Pass 1, key gone: stop the run, --clear, umount.
FindGone ==
  /\ dpc = "idle"
  /\ IsMount /\ dead
  /\ dpc' = "stop_to_clear"
  /\ UNCHANGED <<usb0, zip, shown, pc, term, walk, sentinel, ownIndexed>>

\* systemctl stop returns when the unit is down; the variant stops nothing.
StopReturns == TRUE
UnitStopped == ~Alive("unit")

StartUnit ==
  /\ dpc = "stop_to_start"
  /\ UnitStopped
  /\ Goto("unit", "starting")
  /\ dpc' = "idle"
  /\ UNCHANGED <<usb0, zip, shown, term, walk, sentinel, ownIndexed>>

ClearMenus ==
  /\ dpc = "stop_to_clear"
  /\ UnitStopped
  /\ menus' = {} /\ status' = "none" /\ page' = FALSE
  /\ dpc' = "umount"
  /\ UNCHANGED <<usb0, zip, pc, term, walk, sentinel, ownIndexed>>

UmountGone ==
  /\ dpc = "umount"
  /\ at0' = Own /\ dead' = FALSE
  /\ sentinel' = FALSE /\ ownIndexed' = FALSE
  /\ dpc' = "idle"
  /\ UNCHANGED <<plugged, zip, shown, pc, term, walk>>

-----------------------------------------------------------------------------
\* The front panel and the admin page

StartExtra ==
  /\ ExtraRuns
  /\ ~Alive("extra")
  /\ Goto("extra", "starting")
  /\ UNCHANGED <<usb0, zip, shown, term, walk, daemon>>

\* The panel's own messages go through the same file.
PanelShows ==
  /\ ExtraRuns
  /\ status' = "panel"
  /\ UNCHANGED <<usb0, zip, menus, page, pc, term, walk, daemon>>

PanelHides ==
  /\ ExtraRuns
  /\ status' = "none"
  /\ UNCHANGED <<usb0, zip, menus, page, pc, term, walk, daemon>>

-----------------------------------------------------------------------------
Init ==
  /\ plugged = NoKey /\ at0 = Own /\ dead = FALSE
  /\ zip = [v \in Volumes |-> IF v \in UsedBefore THEN CardsOf(v) ELSE {}]
  /\ menus = {} /\ status = "none" /\ page = FALSE
  /\ pc = [r \in Runs |-> "none"]
  /\ term = [r \in Runs |-> FALSE]
  /\ usb0Was = [r \in Runs |-> "unknown"]
  /\ dir = [r \in Runs |-> 0]
  /\ found = [r \in Runs |-> {}]
  /\ dpc = "idle" /\ sentinel = FALSE /\ ownIndexed = FALSE

World == RemoveKey \/ \E k \in Keys : InsertKey(k)

Step(r) ==
  \/ GuardFree(r) \/ GuardTaken(r) \/ FindStale(r) \/ RemoveStale(r)
  \/ InitializeRun(r) \/ RemoveContent(r)
  \/ FindZip(r) \/ Unzip(r) \/ EndRestore(r)
  \/ FreshContent(r) \/ SetIndexingLanguages(r) \/ WriteIndexingPage(r)
  \/ EnterDirectory(r) \/ StopWalk(r)
  \/ ProcessFiles(r) \/ BreakOffFiles(r) \/ EndWalk(r)
  \/ NothingFound(r) \/ WriteMenus(r) \/ EndPage(r) \/ SkipZip(r)
  \/ WriteZip(r) \/ Finish(r) \/ Exit(r)

Poll ==
  \/ MountKey \/ StillMounted \/ CheckInternalContent \/ FindGone
  \/ StartUnit \/ ClearMenus \/ UmountGone

Others == StartExtra \/ PanelShows \/ PanelHides

Next == World \/ (\E r \in Runs : Step(r)) \/ Sigterm \/ Kill \/ Poll \/ Others

Spec == Init /\ [][Next]_vars

\* Runs go on, signals arrive and the daemon keeps polling; nobody has to plug a
\* key in, pull it out, or press anything.
FairSpec ==
  /\ Spec
  /\ \A r \in Runs : WF_vars(Step(r))
  /\ WF_vars(Sigterm) /\ WF_vars(Poll)

-----------------------------------------------------------------------------
TypeOK ==
  /\ plugged \in Keys \cup {NoKey} /\ at0 \in Volumes /\ dead \in BOOLEAN
  /\ zip \in [Volumes -> SUBSET Cards]
  /\ menus \subseteq Cards
  /\ status \in Runs \cup {"none", "panel"} /\ page \in BOOLEAN
  /\ pc \in [Runs -> {"none", "starting", "stale", "initialize", "remove_content",
                      "look_for_zip", "unzip", "restored", "languages", "messages",
                      "walk", "progress", "files", "write", "check", "zip", "finish", "exit"}]
  /\ term \in [Runs -> BOOLEAN]
  /\ usb0Was \in [Runs -> {"unknown", "key", "card"}]
  /\ dir \in [Runs -> 0 .. NumDirs + 1]
  /\ found \in [Runs -> SUBSET Cards]
  /\ dpc \in {"idle", "stop_to_start", "stop_to_clear", "umount"}
  /\ sentinel \in BOOLEAN /\ ownIndexed \in BOOLEAN

\* A volume's saved.zip never holds cards of another volume, nor only some of its
\* own: whoever plugs the key in again gets its menus "in seconds", and all of them.
ZipIsOwn == \A v \in Volumes : zip[v] \in {{}, CardsOf(v)}

\* Once keys stop coming and going, the menus end up complete and showing what is
\* at /media/usb0, and nothing else.
Contents == IF IsMount \/ OwnContent THEN CardsOf(at0) ELSE {}
MenusSettle == <>[][FALSE]_plugged => <>[](menus = Contents)

\* Both are so if no key is ever mounted over content that a run is indexing.
CardRunOnKey == IsMount /\ \E r \in Runs : usb0Was[r] = "card"
Undisturbed == []~CardRunOnKey
ZipIsOwnUndisturbed    == Undisturbed => []ZipIsOwn
MenusSettleUndisturbed == Undisturbed => MenusSettle

\* The panel's "Indexing" text and the visitors' "loading new content" page are
\* there only while a run that will remove them is alive ("so it can never stay on
\* 'Indexing' with nothing running").
ShownWhileRunning ==
  /\ status \in Runs => Alive(status)
  /\ page => \E r \in Runs : Alive(r) /\ dir[r] > 0
=============================================================================
