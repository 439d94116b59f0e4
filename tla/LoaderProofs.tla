---------------------------- MODULE LoaderProofs ----------------------------
(***************************************************************************)
(* What TLAPS proves about Loader, for any keys and any number of          *)
(* directories: the type invariant; that the panel's text and the          *)
(* visitors' page never outlive the runs that remove them; and that a run  *)
(* saves a volume's own menus, and all of them, in that volume's           *)
(* saved.zip, as long as PxUSBm.py alone starts runs and mounts no key     *)
(* over content that a run is indexing.                                    *)
(***************************************************************************)
EXTENDS Loader, TLAPS

-----------------------------------------------------------------------------
\* The type invariant, and where the walk is at each point of a run

Before == {"none", "starting", "stale", "initialize", "remove_content",
           "look_for_zip", "unzip", "restored"}

WalkOK(r) ==
  /\ pc[r] \in Before => dir[r] = 0
  /\ pc[r] = "walk" => dir[r] \in 1 .. NumDirs + 1
  /\ pc[r] \in {"languages", "messages"} => dir[r] = 1
  /\ pc[r] \in {"progress", "files"} => dir[r] \in Dirs
  /\ pc[r] \in {"write", "check"} => dir[r] = NumDirs + 1

TInv == TypeOK /\ \A r \in Runs : WalkOK(r)

LEMMA LoaderTypeInit == Init => TInv
<1> SUFFICES ASSUME Init PROVE TInv
  OBVIOUS
<1>1. zip \in [Volumes -> SUBSET Cards]
  BY DEF Init, CardsOf, Cards, Volumes
<1>2. 0 \in 0 .. NumDirs + 1 /\ at0 \in Volumes
  BY LoaderAssumption DEF Init, Volumes
<1>3. dir \in [Runs -> 0 .. NumDirs + 1] /\ found \in [Runs -> SUBSET Cards]
  BY <1>2 DEF Init
<1>4. TypeOK
  BY <1>1, <1>2, <1>3 DEF Init, TypeOK
<1>5. \A r \in Runs : WalkOK(r)
  BY DEF Init, WalkOK, Before
<1> QED
  BY <1>4, <1>5 DEF TInv

\* The steps of a run before its walk.
LEMMA TypeStartRun ==
  ASSUME TInv, NEW r \in Runs,
         \/ GuardFree(r) \/ GuardTaken(r) \/ FindStale(r) \/ RemoveStale(r)
         \/ InitializeRun(r) \/ RemoveContent(r)
         \/ FindZip(r) \/ Unzip(r) \/ EndRestore(r)
  PROVE  TInv'
<1> USE DEF TInv, TypeOK, WalkOK, Before, Runs, Goto, usb0, shown, walk, daemon
<1>1. CASE GuardFree(r) \/ FindStale(r)
  BY <1>1 DEF GuardFree, FindStale
<1>2. CASE GuardTaken(r)
  BY <1>2 DEF GuardTaken
<1>3. CASE RemoveStale(r) \/ InitializeRun(r) \/ EndRestore(r)
  BY <1>3 DEF RemoveStale, InitializeRun, EndRestore
<1>4. CASE RemoveContent(r)
  BY <1>4 DEF RemoveContent
<1>5. CASE FindZip(r)
  BY <1>5 DEF FindZip, ShowStatus
<1>6. CASE Unzip(r)
  <2>1. at0 \in Volumes /\ zip[at0] \subseteq Cards
    OBVIOUS
  <2>2. menus' \subseteq Cards
    BY <1>6, <2>1 DEF Unzip
  <2> QED
    BY <1>6, <2>2 DEF Unzip
<1> QED
  BY <1>1, <1>2, <1>3, <1>4, <1>5, <1>6

LEMMA LookType ==
  ASSUME TypeOK, NEW r \in Runs, Look(r)
  PROVE  usb0Was' \in [Runs -> {"unknown", "key", "card"}]
BY DEF TypeOK, Look, FirstLook

\* The walk.
LEMMA TypeWalkRun ==
  ASSUME TInv, NEW r \in Runs,
         \/ FreshContent(r) \/ SetIndexingLanguages(r) \/ WriteIndexingPage(r)
         \/ EnterDirectory(r) \/ StopWalk(r)
         \/ ProcessFiles(r) \/ BreakOffFiles(r) \/ EndWalk(r)
  PROVE  TInv'
<1> USE LoaderAssumption
        DEF TInv, TypeOK, WalkOK, Before, Runs, Goto, Dirs, MoreToWalk, ShowStatus,
            usb0, shown, walk, daemon
<1>1. CASE FreshContent(r)
  BY <1>1 DEF FreshContent
<1>2. CASE EnterDirectory(r)
  BY <1>2, LookType DEF EnterDirectory, IndexingProgress
<1>3. CASE StopWalk(r)
  BY <1>3, LookType DEF StopWalk
<1>4. CASE ProcessFiles(r)
  <2>1. <<at0, dir[r]>> \in Cards
    BY <1>4 DEF ProcessFiles, Cards
  <2>2. found' \in [Runs -> SUBSET Cards]
    BY <1>4, <2>1 DEF ProcessFiles
  <2> QED
    BY <1>4, <2>2, LookType DEF ProcessFiles
<1>5. CASE BreakOffFiles(r)
  BY <1>5, LookType DEF BreakOffFiles
<1>6. CASE EndWalk(r)
  BY <1>6 DEF EndWalk
<1>7. CASE SetIndexingLanguages(r)
  BY <1>7 DEF SetIndexingLanguages
<1>8. CASE WriteIndexingPage(r)
  BY <1>8 DEF WriteIndexingPage
<1> QED
  BY <1>1, <1>2, <1>3, <1>4, <1>5, <1>6, <1>7, <1>8

LEMMA ForgetType ==
  ASSUME TInv, NEW r \in Runs, Forget(r)
  PROVE  /\ pc' = [pc EXCEPT ![r] = "none"]
         /\ term' \in [Runs -> BOOLEAN]
         /\ usb0Was' \in [Runs -> {"unknown", "key", "card"}]
         /\ dir' \in [Runs -> 0 .. NumDirs + 1]
         /\ found' \in [Runs -> SUBSET Cards]
         /\ \A q \in Runs : WalkOK(q)'
BY LoaderAssumption DEF TInv, TypeOK, Forget, Goto, WalkOK, Before

\* After the walk.
LEMMA TypeEndRun ==
  ASSUME TInv, NEW r \in Runs,
         \/ NothingFound(r) \/ WriteMenus(r) \/ EndPage(r) \/ SkipZip(r)
         \/ WriteZip(r) \/ Finish(r) \/ Exit(r)
  PROVE  TInv'
<1> USE DEF TInv, TypeOK, WalkOK, Before, Runs, Goto, usb0, shown, walk, daemon
<1>1. CASE NothingFound(r) \/ Finish(r)
  BY <1>1 DEF NothingFound, Finish
<1>2. CASE WriteMenus(r)
  BY <1>2 DEF WriteMenus
<1>3. CASE EndPage(r)
  BY <1>3, LookType DEF EndPage
<1>4. CASE SkipZip(r)
  BY <1>4, LookType DEF SkipZip
<1>5. CASE WriteZip(r)
  BY <1>5 DEF WriteZip
<1>6. CASE Exit(r)
  <2>1. page' \in BOOLEAN
    BY <1>6 DEF Exit, PageAfter
  <2> QED
    BY <1>6, <2>1, ForgetType DEF Exit
<1> QED
  BY <1>1, <1>2, <1>3, <1>4, <1>5, <1>6

\* Everybody else.
LEMMA TypeOtherStep ==
  ASSUME TInv, World \/ Sigterm \/ Kill \/ Poll \/ Others
  PROVE  TInv'
<1> USE DEF TInv, TypeOK, WalkOK, Before, Runs, Goto, usb0, shown, walk, daemon
<1>1. CASE World
  BY <1>1 DEF World, InsertKey, RemoveKey
<1>2. CASE Sigterm
  BY <1>2 DEF Sigterm
<1>3. CASE Kill
  BY <1>3, ForgetType DEF Kill
<1>4. CASE MountKey \/ StillMounted \/ CheckInternalContent \/ FindGone
  BY <1>4 DEF MountKey, StillMounted, CheckInternalContent, FindGone, Volumes
<1>5. CASE StartUnit
  BY <1>5 DEF StartUnit, UnitStopped, Alive
<1>6. CASE ClearMenus \/ UmountGone
  BY <1>6 DEF ClearMenus, UmountGone, Volumes
<1>7. CASE Others
  BY <1>7 DEF Others, StartExtra, PanelShows, PanelHides, Alive
<1> QED
  BY <1>1, <1>2, <1>3, <1>4, <1>5, <1>6, <1>7 DEF Poll

LEMMA TypeStep == TInv /\ [Next]_vars => TInv'
<1> SUFFICES ASSUME TInv, [Next]_vars PROVE TInv'
  OBVIOUS
<1>1. CASE UNCHANGED vars
  BY <1>1 DEF TInv, TypeOK, WalkOK, vars, usb0, shown, walk, daemon
<1>2. ASSUME NEW r \in Runs, Step(r) PROVE TInv'
  BY <1>2, TypeStartRun, TypeWalkRun, TypeEndRun DEF Step
<1>3. CASE World \/ Sigterm \/ Kill \/ Poll \/ Others
  BY <1>3, TypeOtherStep
<1> QED
  BY <1>1, <1>2, <1>3 DEF Next

\* Every variable of the model keeps its type; in particular no walk goes beyond
\* the last directory (mmiloader_code's main walk).
THEOREM LoaderTypeCorrect == Spec => []TypeOK
<1>1. TInv => TypeOK
  BY DEF TInv
<1> QED
  BY <1>1, LoaderTypeInit, TypeStep, PTL DEF Spec

-----------------------------------------------------------------------------
\* The status text and the page go with their run

Unwritten == {"none", "starting", "stale", "initialize"}

StatusOwned == \A r \in Runs : status = r => pc[r] \notin Unwritten
PageOwned   == page => \E r \in Runs : dir[r] > 0

SInv == TInv /\ StatusOwned /\ PageOwned

LEMMA PageKept ==
  ASSUME PageOwned, page' => page, \A r \in Runs : dir[r] > 0 => dir[r]' > 0
  PROVE  PageOwned'
BY DEF PageOwned

LEMMA ShownStartRun ==
  ASSUME SInv, NEW r \in Runs,
         \/ GuardFree(r) \/ GuardTaken(r) \/ FindStale(r) \/ RemoveStale(r)
         \/ InitializeRun(r) \/ RemoveContent(r)
         \/ FindZip(r) \/ Unzip(r) \/ EndRestore(r)
  PROVE  StatusOwned' /\ PageOwned'
<1> USE DEF SInv, TInv, TypeOK, StatusOwned, Unwritten, Runs, Goto, ShowStatus,
            usb0, shown, walk, daemon
<1>1. page' = page /\ dir' = dir
  BY DEF GuardFree, GuardTaken, FindStale, RemoveStale, InitializeRun, RemoveContent,
         FindZip, Unzip, EndRestore
<1>2. PageOwned'
  BY <1>1, PageKept
<1>3. CASE GuardFree(r) \/ GuardTaken(r) \/ FindStale(r) \/ RemoveStale(r)
  BY <1>2, <1>3 DEF GuardFree, GuardTaken, FindStale, RemoveStale
<1>4. CASE InitializeRun(r) \/ RemoveContent(r)
  BY <1>2, <1>4 DEF InitializeRun, RemoveContent
<1>5. CASE FindZip(r) \/ Unzip(r) \/ EndRestore(r)
  BY <1>2, <1>5 DEF FindZip, Unzip, EndRestore
<1> QED
  BY <1>3, <1>4, <1>5

LEMMA ShownWalkRun ==
  ASSUME SInv, NEW r \in Runs,
         \/ FreshContent(r) \/ SetIndexingLanguages(r) \/ WriteIndexingPage(r)
         \/ EnterDirectory(r) \/ StopWalk(r)
         \/ ProcessFiles(r) \/ BreakOffFiles(r) \/ EndWalk(r)
  PROVE  StatusOwned' /\ PageOwned'
<1> USE DEF SInv, TInv, TypeOK, StatusOwned, Unwritten, Runs, Goto, ShowStatus,
            usb0, shown, walk, daemon
<1>1. CASE FreshContent(r)
  <2>1. dir[r]' > 0
    BY <1>1 DEF FreshContent
  <2> QED
    BY <1>1, <2>1 DEF FreshContent, PageOwned
<1>2. CASE EnterDirectory(r) \/ StopWalk(r) \/ EndWalk(r)
  <2>1. page' = page /\ dir' = dir
    BY <1>2 DEF EnterDirectory, StopWalk, EndWalk
  <2> QED
    BY <1>2, <2>1, PageKept DEF EnterDirectory, IndexingProgress, StopWalk, EndWalk
<1>3. CASE ProcessFiles(r) \/ BreakOffFiles(r)
  <2>1. page' = page /\ \A q \in Runs : dir[q] > 0 => dir[q]' > 0
    BY <1>3 DEF ProcessFiles, BreakOffFiles
  <2>2. PageOwned'
    BY <2>1, PageKept
  <2> QED
    BY <1>3, <2>2 DEF ProcessFiles, BreakOffFiles
<1>4. CASE SetIndexingLanguages(r)
  <2>1. page' = page /\ dir' = dir
    BY <1>4 DEF SetIndexingLanguages
  <2> QED
    BY <1>4, <2>1, PageKept DEF SetIndexingLanguages
<1>5. CASE WriteIndexingPage(r)
  <2>1. dir[r]' > 0
    BY <1>5, LoaderAssumption DEF WriteIndexingPage, WalkOK, Dirs
  <2> QED
    BY <1>5, <2>1 DEF WriteIndexingPage, PageOwned
<1> QED
  BY <1>1, <1>2, <1>3, <1>4, <1>5

LEMMA ShownEndRun ==
  ASSUME SInv, NEW r \in Runs,
         \/ NothingFound(r) \/ WriteMenus(r) \/ EndPage(r) \/ SkipZip(r)
         \/ WriteZip(r) \/ Finish(r) \/ Exit(r)
  PROVE  StatusOwned' /\ PageOwned'
<1> USE DEF SInv, TInv, TypeOK, StatusOwned, Unwritten, Runs, Goto,
            usb0, shown, walk, daemon
<1>1. CASE Exit(r)
  <2>1. page' => page /\ dir[r] = 0
    BY <1>1 DEF Exit, PageAfter
  <2>2. dir' = [dir EXCEPT ![r] = 0] /\ pc' = [pc EXCEPT ![r] = "none"]
    BY <1>1 DEF Exit, Forget
  <2>3. PageOwned'
    BY <2>1, <2>2 DEF PageOwned
  <2>4. status' # r /\ (status' = status \/ status' = "none")
    BY <1>1 DEF Exit
  <2> QED
    BY <2>2, <2>3, <2>4
<1>2. CASE ~Exit(r)
  <2>1. (page' => page) /\ dir' = dir
    BY <1>2 DEF NothingFound, WriteMenus, EndPage, SkipZip, WriteZip, Finish
  <2>2. PageOwned'
    BY <2>1, PageKept
  <2>3. StatusOwned'
    BY <1>2 DEF NothingFound, WriteMenus, EndPage, SkipZip, WriteZip, Finish
  <2> QED
    BY <2>2, <2>3
<1> QED
  BY <1>1, <1>2

LEMMA ShownOtherStep ==
  ASSUME SInv, ~Kills, World \/ Sigterm \/ Kill \/ Poll \/ Others
  PROVE  StatusOwned' /\ PageOwned'
<1> USE DEF SInv, TInv, TypeOK, StatusOwned, Unwritten, Runs, Goto,
            usb0, shown, walk, daemon
<1>1. (page' => page) /\ dir' = dir
  BY DEF World, InsertKey, RemoveKey, Sigterm, Kill, Poll, MountKey, StillMounted,
         CheckInternalContent, FindGone, StartUnit, ClearMenus, UmountGone,
         Others, StartExtra, PanelShows, PanelHides
<1>2. PageOwned'
  BY <1>1, PageKept
<1>3. CASE World
  BY <1>2, <1>3 DEF World, InsertKey, RemoveKey
<1>4. CASE Sigterm \/ Kill
  BY <1>2, <1>4 DEF Sigterm, Kill
<1>5. CASE Poll
  BY <1>2, <1>5 DEF Poll, MountKey, StillMounted, CheckInternalContent, FindGone,
              StartUnit, UnitStopped, Alive, ClearMenus, UmountGone
<1>6. CASE Others
  BY <1>2, <1>6 DEF Others, StartExtra, PanelShows, PanelHides, Alive
<1> QED
  BY <1>3, <1>4, <1>5, <1>6

LEMMA ShownStep ==
  ASSUME ~Kills
  PROVE  SInv /\ [Next]_vars => SInv'
<1> SUFFICES ASSUME SInv, [Next]_vars PROVE SInv'
  OBVIOUS
<1>1. TInv'
  BY TypeStep DEF SInv
<1>2. CASE UNCHANGED vars
  BY <1>1, <1>2 DEF SInv, StatusOwned, PageOwned, vars, shown, walk
<1>3. ASSUME NEW r \in Runs, Step(r) PROVE StatusOwned' /\ PageOwned'
  BY <1>3, ShownStartRun, ShownWalkRun, ShownEndRun DEF Step
<1>4. CASE World \/ Sigterm \/ Kill \/ Poll \/ Others
  BY <1>1, <1>4, ShownOtherStep DEF SInv
<1> QED
  BY <1>1, <1>2, <1>3, <1>4 DEF Next, SInv

\* A run that is stopped, breaks off or gives way to another one never leaves the
\* "Indexing" text or the "loading new content" page behind, however many runs the
\* daemon, the panel and the admin page start, as long as systemd need not kill
\* one (remove_own_status and start_indexing_page's atexit functions).
THEOREM ShownStaysTrue ==
  ASSUME ~Kills
  PROVE  Spec => []ShownWhileRunning
<1>1. Init => SInv
  BY LoaderTypeInit DEF Init, SInv, StatusOwned, PageOwned, Runs
<1>2. SInv => ShownWhileRunning
  <2> SUFFICES ASSUME SInv PROVE ShownWhileRunning
    OBVIOUS
  <2>1. status \in Runs => Alive(status)
    BY DEF SInv, StatusOwned, Unwritten, Alive
  <2>2. \A r \in Runs : dir[r] > 0 => Alive(r)
    BY DEF SInv, TInv, WalkOK, Before, Alive
  <2> QED
    BY <2>1, <2>2 DEF SInv, PageOwned, ShownWhileRunning
<1> QED
  BY <1>1, <1>2, ShownStep, PTL DEF Spec

-----------------------------------------------------------------------------
\* A volume's saved.zip

\* The unit's run is the only one, it is down while its key is unmounted, and only
\* a key can be gone.
Alone ==
  /\ pc["extra"] = "none"
  /\ dpc = "umount" => pc["unit"] = "none"
  /\ dead => at0 # Own

\* Once the run has looked at /media/usb0 ...
Looked ==
  /\ pc["unit"] \in Before => found["unit"] = {} /\ usb0Was["unit"] = "unknown"
  /\ usb0Was["unit"] = "key" => at0 # Own
  /\ usb0Was["unit"] = "unknown" => pc["unit"] \in Before \cup {"languages", "messages", "walk", "exit"}
  /\ usb0Was["unit"] = "unknown" /\ pc["unit"] = "walk" => dir["unit"] = 1
  /\ usb0Was["unit"] = "card" /\ pc["unit"] \in {"progress", "files"} => OwnContent

Walking == {"languages", "messages", "walk", "progress", "files"}

\* ... and unless it has been told to stop, it has the cards of every directory
\* that it passed.
FoundAll ==
  /\ pc["unit"] \in Walking \cup {"write", "check"} /\ ~term["unit"] /\ ~dead
       => found["unit"] = {at0} \X (1 .. dir["unit"] - 1)
  /\ pc["unit"] = "check" => menus = found["unit"]
  /\ pc["unit"] = "zip" /\ ~dead => menus = CardsOf(at0)

ZInv == TInv /\ Alone /\ Looked /\ FoundAll /\ ZipIsOwn

\* The unit's run, step by step.
LEMMA ZipStartRun ==
  ASSUME ZInv,
         \/ GuardFree("unit") \/ GuardTaken("unit") \/ FindStale("unit")
         \/ RemoveStale("unit") \/ InitializeRun("unit") \/ RemoveContent("unit")
         \/ FindZip("unit") \/ Unzip("unit") \/ EndRestore("unit")
  PROVE  Alone' /\ Looked' /\ FoundAll' /\ ZipIsOwn'
<1> USE DEF ZInv, TInv, TypeOK, Alone, Looked, FoundAll, ZipIsOwn, Before, Walking, Runs, Goto,
            usb0, shown, walk, daemon
<1>1. zip' = zip /\ at0' = at0 /\ dead' = dead /\ dpc' = dpc
      /\ found' = found /\ usb0Was' = usb0Was /\ dir' = dir
  BY DEF GuardFree, GuardTaken, FindStale, RemoveStale, InitializeRun, RemoveContent,
         FindZip, Unzip, EndRestore
<1>2. /\ pc["unit"] \in Before /\ dpc # "umount"
      /\ pc["unit"]' \in Before \cup {"exit"} /\ pc["extra"]' = pc["extra"]
  BY DEF GuardFree, GuardTaken, FindStale, RemoveStale, InitializeRun, RemoveContent,
         FindZip, Unzip, EndRestore
<1>3. Alone' /\ Looked' /\ FoundAll'
  BY <1>1, <1>2
<1>4. ZipIsOwn'
  BY <1>1
<1> QED
  BY <1>3, <1>4

\* What usb_is_present() says of a run that goes on undisturbed.
LEMMA LookUnit ==
  ASSUME ZInv, ~CardRunOnKey, Look("unit")
  PROVE  /\ usb0Was["unit"]' = FirstLook("unit")
         /\ FirstLook("unit") = "key" => at0 # Own
         /\ UsbIsPresent("unit") => ~term["unit"] /\ FirstLook("unit") # "unknown"
         /\ UsbIsPresent("unit") /\ FirstLook("unit") = "card" => OwnContent
<1> USE DEF ZInv, TInv, TypeOK, Looked, Runs, CardRunOnKey
<1>1. usb0Was["unit"]' = FirstLook("unit")
  BY DEF Look
<1>2. FirstLook("unit") = "key" => at0 # Own
  BY DEF FirstLook, IsMount
<1>3. FirstLook("unit") = "card" => at0 = Own
  BY DEF FirstLook, IsMount
<1>4. UsbIsPresent("unit") => ~term["unit"] /\ FirstLook("unit") # "unknown"
  BY DEF UsbIsPresent, FirstLook
<1>5. UsbIsPresent("unit") /\ FirstLook("unit") = "card" => OwnContent
  BY <1>3 DEF UsbIsPresent, IsMount
<1> QED
  BY <1>1, <1>2, <1>4, <1>5

LEMMA ZipWalkRun ==
  ASSUME ZInv, ~CardRunOnKey,
         \/ FreshContent("unit") \/ SetIndexingLanguages("unit")
         \/ WriteIndexingPage("unit") \/ EnterDirectory("unit") \/ StopWalk("unit")
         \/ ProcessFiles("unit") \/ BreakOffFiles("unit") \/ EndWalk("unit")
  PROVE  Alone' /\ Looked' /\ FoundAll' /\ ZipIsOwn'
<1> USE LoaderAssumption
        DEF ZInv, TInv, TypeOK, WalkOK, Alone, Looked, FoundAll, Before, Walking, Runs, Goto,
            Dirs, MoreToWalk, usb0, shown, walk, daemon
<1>1. zip' = zip /\ at0' = at0 /\ dead' = dead /\ dpc' = dpc /\ term' = term
      /\ pc["extra"]' = pc["extra"]
  BY DEF FreshContent, SetIndexingLanguages, WriteIndexingPage, EnterDirectory,
         IndexingProgress, StopWalk, ProcessFiles, BreakOffFiles, EndWalk
<1>2. ZipIsOwn'
  BY <1>1 DEF ZipIsOwn
<1>3. Alone'
  BY <1>1 DEF FreshContent, SetIndexingLanguages, WriteIndexingPage, EnterDirectory,
              IndexingProgress, StopWalk, ProcessFiles, BreakOffFiles, EndWalk
<1>4. CASE FreshContent("unit")
  <2>1. pc["unit"]' = "languages" /\ dir["unit"]' = 1 /\ found' = found /\ usb0Was' = usb0Was
    BY <1>4 DEF FreshContent
  <2>2. found["unit"]' = {at0} \X (1 .. dir["unit"]' - 1)
    BY <2>1, <1>4 DEF FreshContent
  <2> QED
    BY <1>1, <1>2, <1>3, <1>4, <2>1, <2>2 DEF FreshContent
<1>5. CASE EnterDirectory("unit")
  <2>1. pc["unit"]' \in {"progress", "files"} /\ dir' = dir /\ found' = found
    BY <1>5 DEF EnterDirectory, IndexingProgress
  <2> QED
    BY <1>1, <1>2, <1>3, <1>5, <2>1, LookUnit DEF EnterDirectory
<1>6. CASE StopWalk("unit")
  <2>1. pc["unit"]' = "exit" /\ dir' = dir /\ found' = found
    BY <1>6 DEF StopWalk
  <2> QED
    BY <1>1, <1>2, <1>3, <1>6, <2>1, LookUnit DEF StopWalk
<1>7. CASE ProcessFiles("unit")
  <2>1. pc["unit"]' = "walk" /\ dir["unit"]' = dir["unit"] + 1 /\ dir["unit"] \in Nat \ {0}
    BY <1>7 DEF ProcessFiles
  <2>2. ~dead => found["unit"]' = found["unit"] \cup {<<at0, dir["unit"]>>}
    BY <1>7 DEF ProcessFiles
  <2>3. 1 .. dir["unit"]' - 1 = (1 .. dir["unit"] - 1) \cup {dir["unit"]}
    BY <2>1
  <2>4. ~term["unit"] /\ ~dead => found["unit"]' = {at0} \X (1 .. dir["unit"]' - 1)
    BY <1>7, <2>2, <2>3 DEF ProcessFiles
  <2>5. FoundAll'
    BY <1>1, <2>1, <2>4
  <2>6. Looked'
    BY <1>1, <1>7, <2>1, LookUnit DEF ProcessFiles
  <2> QED
    BY <1>2, <1>3, <2>5, <2>6
<1>8. CASE BreakOffFiles("unit")
  <2>1. pc["unit"]' = "walk" /\ dir["unit"]' = dir["unit"] + 1 /\ found' = found
    BY <1>8 DEF BreakOffFiles
  <2>2. term["unit"]
    <3>1. usb0Was["unit"] # "unknown" /\ ~term["unit"] => FirstLook("unit") = usb0Was["unit"]
      BY DEF FirstLook
    <3> QED
      BY <1>8, <3>1 DEF BreakOffFiles, UsbIsPresent, IsMount
  <2>3. FoundAll'
    BY <1>1, <2>1, <2>2
  <2>4. Looked'
    <3>1. usb0Was["unit"]' = usb0Was["unit"] /\ usb0Was["unit"] # "unknown"
      BY <1>8, <2>2 DEF BreakOffFiles, Look, FirstLook
    <3> QED
      BY <1>1, <2>1, <3>1
  <2> QED
    BY <1>2, <1>3, <2>3, <2>4
<1>9. CASE EndWalk("unit")
  <2>1. pc["unit"]' = "write" /\ dir' = dir /\ found' = found /\ usb0Was' = usb0Was
    BY <1>9 DEF EndWalk
  <2>2. dir["unit"] > NumDirs /\ usb0Was["unit"] # "unknown"
    BY <1>9 DEF EndWalk
  <2> QED
    BY <1>1, <1>2, <1>3, <1>9, <2>1, <2>2 DEF EndWalk
<1>10. CASE SetIndexingLanguages("unit")
  <2>1. pc["unit"]' \in {"messages", "walk"} /\ dir' = dir /\ found' = found
        /\ usb0Was' = usb0Was
    BY <1>10 DEF SetIndexingLanguages
  <2> QED
    BY <1>1, <1>2, <1>3, <1>10, <2>1 DEF SetIndexingLanguages
<1>11. CASE WriteIndexingPage("unit")
  <2>1. dir' = dir /\ found' = found /\ usb0Was' = usb0Was
        /\ \/ pc["unit"] = "messages" /\ pc["unit"]' = "walk"
           \/ pc["unit"] = "progress" /\ pc["unit"]' = "files"
    BY <1>11 DEF WriteIndexingPage
  <2> QED
    BY <1>1, <1>2, <1>3, <2>1
<1> QED
  BY <1>4, <1>5, <1>6, <1>7, <1>8, <1>9, <1>10, <1>11

LEMMA ForgetUnit ==
  ASSUME ZInv, Forget("unit")
  PROVE  /\ pc["unit"]' = "none" /\ pc["extra"]' = pc["extra"]
         /\ found["unit"]' = {} /\ usb0Was["unit"]' = "unknown"
BY DEF ZInv, TInv, TypeOK, Forget, Goto, Runs

LEMMA ZipEndRun ==
  ASSUME ZInv, ~CardRunOnKey,
         \/ NothingFound("unit") \/ WriteMenus("unit") \/ EndPage("unit")
         \/ SkipZip("unit") \/ WriteZip("unit") \/ Finish("unit") \/ Exit("unit")
  PROVE  Alone' /\ Looked' /\ FoundAll' /\ ZipIsOwn'
<1> USE LoaderAssumption
        DEF ZInv, TInv, TypeOK, WalkOK, Alone, Looked, FoundAll, Before, Walking, Runs, Goto,
            usb0, shown, walk, daemon
<1>1. at0' = at0 /\ dead' = dead /\ dpc' = dpc
  BY DEF NothingFound, WriteMenus, EndPage, SkipZip, WriteZip, Finish, Exit
<1>2. ~WriteZip("unit") => ZipIsOwn'
  <2>1. ~WriteZip("unit") => zip' = zip
    BY DEF NothingFound, WriteMenus, EndPage, SkipZip, Finish, Exit
  <2> QED
    BY <2>1 DEF ZipIsOwn
<1>3. CASE NothingFound("unit") \/ Finish("unit")
  <2>1. pc["unit"]' = "exit" /\ found' = found /\ usb0Was' = usb0Was
    BY <1>3 DEF NothingFound, Finish
  <2>2. ~WriteZip("unit")
    BY <1>3 DEF NothingFound, Finish, WriteZip
  <2> QED
    BY <1>1, <1>2, <1>3, <2>1, <2>2 DEF NothingFound, Finish
<1>4. CASE WriteMenus("unit")
  <2>1. pc["unit"]' = "check" /\ ~WriteZip("unit")
    BY <1>4 DEF WriteMenus, WriteZip
  <2> QED
    BY <1>1, <1>2, <1>4, <2>1 DEF WriteMenus
<1>5. CASE EndPage("unit")
  <2>1. pc["unit"]' = "zip" /\ ~WriteZip("unit")
    BY <1>5 DEF EndPage, WriteZip
  <2>2. ~term["unit"]
    BY <1>5 DEF EndPage, UsbForZip, UsbIsPresent
  <2>3. ~dead => menus = {at0} \X Dirs
    BY <1>5, <2>2 DEF EndPage, Dirs
  <2>4. ~dead => menus' = CardsOf(at0)
    BY <1>5, <2>3 DEF EndPage, CardsOf
  <2> QED
    BY <1>1, <1>2, <1>5, <2>1, <2>4, LookUnit DEF EndPage, UsbForZip, CardsOf
<1>6. CASE SkipZip("unit")
  <2>1. pc["unit"]' = "exit" /\ ~WriteZip("unit")
    BY <1>6 DEF SkipZip, WriteZip
  <2> QED
    BY <1>1, <1>2, <1>6, <2>1, LookUnit DEF SkipZip
<1>7. CASE WriteZip("unit")
  <2>1. pc["unit"]' = "finish" /\ found' = found /\ usb0Was' = usb0Was
    BY <1>7 DEF WriteZip
  <2>2. Alone' /\ Looked' /\ FoundAll'
    BY <1>1, <1>7, <2>1 DEF WriteZip
  <2>3. zip[at0] \cup CardsOf(at0) = CardsOf(at0)
    BY DEF ZipIsOwn
  <2>4. ~dead => zip' = [zip EXCEPT ![at0] = CardsOf(at0)] \/ zip' = zip
    BY <1>7, <2>3 DEF WriteZip
  <2>5. ZipIsOwn'
    BY <1>7, <2>4 DEF ZipIsOwn, WriteZip
  <2> QED
    BY <2>2, <2>5
<1>8. CASE Exit("unit")
  <2>1. pc["unit"]' = "none" /\ pc["extra"]' = pc["extra"]
        /\ found["unit"]' = {} /\ usb0Was["unit"]' = "unknown"
    BY <1>8, ForgetUnit DEF Exit
  <2>2. ~WriteZip("unit")
    BY <1>8 DEF Exit, WriteZip
  <2> QED
    BY <1>1, <1>2, <2>1, <2>2
<1> QED
  BY <1>3, <1>4, <1>5, <1>6, <1>7, <1>8

\* Everybody else: no step but a mount changes what is at /media/usb0 while the
\* run is alive, and a mount over content that it indexes is excluded.
LEMMA ZipOtherStep ==
  ASSUME ZInv, ~CardRunOnKey', ~ExtraRuns, World \/ Sigterm \/ Kill \/ Poll \/ Others
  PROVE  Alone' /\ Looked' /\ FoundAll' /\ ZipIsOwn'
<1> USE LoaderAssumption
        DEF ZInv, TInv, TypeOK, WalkOK, Alone, Looked, FoundAll, Before, Walking, Runs, Goto,
            usb0, shown, walk, daemon
<1>1. zip' = zip
  BY DEF World, InsertKey, RemoveKey, Sigterm, Kill, Poll, MountKey, StillMounted,
         CheckInternalContent, FindGone, StartUnit, ClearMenus, UmountGone,
         Others, StartExtra, PanelShows, PanelHides
<1>2. ZipIsOwn'
  BY <1>1 DEF ZipIsOwn
<1>3. CASE World
  BY <1>2, <1>3 DEF World, InsertKey, RemoveKey
<1>4. CASE Sigterm
  BY <1>2, <1>4 DEF Sigterm, Stopping, Alive
<1>5. CASE Kill
  <2>1. pc["unit"]' = "none" /\ pc["extra"]' = pc["extra"]
        /\ found["unit"]' = {} /\ usb0Was["unit"]' = "unknown"
    BY <1>5, ForgetUnit DEF Kill
  <2> QED
    BY <1>2, <1>5, <2>1 DEF Kill
<1>6. CASE MountKey
  <2>1. at0 = Own /\ at0' # Own /\ ~dead /\ ~dead'
    BY <1>6 DEF MountKey
  <2>2. usb0Was' = usb0Was /\ pc' = pc /\ found' = found /\ dir' = dir
        /\ menus' = menus /\ dpc' = dpc /\ term' = term
    BY <1>6 DEF MountKey
  <2>3. usb0Was["unit"] = "unknown"
    BY <2>1, <2>2 DEF CardRunOnKey, IsMount
  <2>4. pc["unit"] \in Walking /\ ~term["unit"] => found["unit"] = {}
    BY <2>1, <2>3
  <2>5. pc["unit"] \in Walking => {at0'} \X (1 .. dir["unit"] - 1) = {}
    BY <2>3
  <2> QED
    BY <1>2, <2>1, <2>2, <2>3, <2>4, <2>5
<1>7. CASE StillMounted \/ CheckInternalContent \/ FindGone
  BY <1>2, <1>7 DEF StillMounted, CheckInternalContent, FindGone
<1>8. CASE StartUnit
  BY <1>2, <1>8 DEF StartUnit, UnitStopped, Alive
<1>9. CASE ClearMenus
  BY <1>2, <1>9 DEF ClearMenus, UnitStopped, Alive
<1>10. CASE UmountGone
  BY <1>2, <1>10 DEF UmountGone
<1>11. CASE Others
  BY <1>2, <1>11 DEF Others, StartExtra, PanelShows, PanelHides
<1> QED
  BY <1>3, <1>4, <1>5, <1>6, <1>7, <1>8, <1>9, <1>10, <1>11 DEF Poll

LEMMA ZipStep ==
  ASSUME ~ExtraRuns
  PROVE  ZInv /\ [Next]_vars /\ ~CardRunOnKey /\ ~CardRunOnKey' => ZInv'
<1> SUFFICES ASSUME ZInv, [Next]_vars, ~CardRunOnKey, ~CardRunOnKey' PROVE ZInv'
  OBVIOUS
<1>1. TInv'
  BY TypeStep DEF ZInv
<1>2. CASE UNCHANGED vars
  BY <1>1, <1>2 DEF ZInv, Alone, Looked, FoundAll, ZipIsOwn, vars, usb0, shown, walk, daemon
<1>3. CASE Step("unit")
  BY <1>1, <1>3, ZipStartRun, ZipWalkRun, ZipEndRun DEF Step, ZInv
<1>4. ~Step("extra")
  BY DEF ZInv, Alone, Step, GuardFree, GuardTaken, FindStale, RemoveStale, InitializeRun,
         RemoveContent, FindZip, Unzip, EndRestore, FreshContent, SetIndexingLanguages,
         WriteIndexingPage, EnterDirectory, StopWalk, ProcessFiles, BreakOffFiles, EndWalk, NothingFound, WriteMenus, EndPage, SkipZip,
         WriteZip, Finish, Exit
<1>5. CASE World \/ Sigterm \/ Kill \/ Poll \/ Others
  BY <1>1, <1>5, ZipOtherStep DEF ZInv
<1> QED
  BY <1>2, <1>3, <1>4, <1>5 DEF Next, Runs

\* Whatever keys come and go, however often a run is stopped or killed: a saved.zip
\* holds all the cards of its own volume and no others, if PxUSBm.py alone starts
\* runs and mounts no key over content that one is indexing (finalize_output and
\* usb_is_present).
THEOREM ZipStaysOwn ==
  ASSUME ~ExtraRuns
  PROVE  Spec => ZipIsOwnUndisturbed
<1>1. Init => ZInv
  <2> SUFFICES ASSUME Init PROVE ZInv
    OBVIOUS
  <2>1. TInv
    BY LoaderTypeInit
  <2>2. Alone /\ Looked /\ FoundAll
    BY DEF Init, Alone, Looked, FoundAll, Before, Runs
  <2>3. ZipIsOwn
    BY DEF Init, ZipIsOwn
  <2> QED
    BY <2>1, <2>2, <2>3 DEF ZInv
<1>2. ZInv => ZipIsOwn
  BY DEF ZInv
<1> QED
  BY <1>1, <1>2, ZipStep, PTL DEF Spec, ZipIsOwnUndisturbed, Undisturbed
=============================================================================
