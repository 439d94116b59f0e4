-------------------------------- MODULE Hat --------------------------------
(***************************************************************************)
(* The service of the front panel (cli.py, hats.py): it waits until the SD *)
(* card is expanded, finds out which HAT is fitted, registers the buttons  *)
(* and the power-down line of the AXP209, and then goes round a loop that  *)
(* keeps the screen, the low battery page and the LED.  The callbacks of   *)
(* the pins run in another thread and change the screen and the LED too.   *)
(* systemd starts the service again whenever it dies.  What the buttons    *)
(* do to the screen while a command runs is module Panel.                  *)
(***************************************************************************)
EXTENDS Integers

CONSTANTS Boxes,       \* the boards, each with the HAT fitted to it and its "otg"
          Levels,      \* of the battery; without one it reads as full
          MaxEvents    \* how often, a flat battery's recovery apart, the world changes

Boards == {"NEO", "CM", "RM3", "PI"}
Classes == {"none", "q1y2018", "q3y2018", "q4y2018", "q3y2021"}

ASSUME HatAssumption ==
  /\ Boxes \subseteq [board : Boards, hat : Classes, otg : {"off", "on", "named"}]
  /\ Levels \subseteq {"full", "half", "low", "flat"}
  /\ MaxEvents \in Nat

VARIABLES
  box,               \* the hardware, and "otg" of brand.j2
  step, writing,     \* lines of the progress file completed; it is being rewritten
  readable, battery, ap, line, \* I2C answers, charge, access point, power-down line
  status,            \* /tmp/creating_menus.txt exists
  pc, class,         \* where the service is, its HAT class
  page,              \* on the screen; "menu": of the stacks, "command": of a command
  stack,             \* pageStack: "status", the other menus, or "kept", one of the values
                     \* wait, remove_usb and insertUSB, which only commands set
  timer, indexing,
  led,
  look,              \* the callback of the power-down line
  cmd,               \* a command of the buttons occupies the callback thread
  gadget,            \* the USB gadget driver is loaded
  events

expansion == <<step, writing>>
world == <<box, readable, battery, ap, line>>
screen == <<page, stack, timer, indexing>>
vars == <<expansion, world, status, pc, class, screen, led, look, cmd,
          gadget, events>>

Loop == {"top", "look", "battery", "led"}

\* The service looks at the world only from here on.
Looking == {"detect", "setup", "arm"} \cup Loop

Event == events < MaxEvents /\ events' = events + 1

-----------------------------------------------------------------------------
\* PxUSBm opens the progress file for writing, which empties it, and writes
\* fdisk_done, resize2fs_done, and rewrite_netfiles_done or running, in this order.
\* Nobody looks while the service is up.
OpensProgress ==
  /\ pc \in {"down", "wait"} /\ step < 3 /\ ~writing /\ writing' = TRUE
  /\ UNCHANGED <<step, world, status, pc, class, screen, led, look, cmd, gadget,
                 events>>

WritesProgress ==
  /\ pc \in {"down", "wait"} /\ writing /\ step' = step + 1 /\ writing' = FALSE
  /\ UNCHANGED <<world, status, pc, class, screen, led, look, cmd, gadget, events>>

\* What the wait for the expansion reads in the file.
Waits(s, w) == ~w /\ s \in {1, 2}

-----------------------------------------------------------------------------
Starts ==
  /\ pc = "down" /\ pc' = "wait"
  /\ status' = FALSE /\ led' = "off"
  /\ UNCHANGED <<expansion, world, class, screen, look, cmd, gadget, events>>

Proceeds ==
  /\ pc = "wait" /\ (step > 0 \/ writing) /\ ~Waits(step, writing) /\ pc' = "detect"
  /\ UNCHANGED <<expansion, world, status, class, screen, led, look, cmd, gadget, events>>

\* Without an OLED there is no HAT; an AXP209 that does not answer makes it the
\* oldest one.  The other classes are told by the levels of pins: on a Pi the pin
\* of the LED is not connected, and on a CM the third pin is the right button.
Detected(held) ==
  CASE box.hat = "none" -> "none"
    [] box.hat = "q1y2018" -> "q1y2018"
    [] box.hat \in Classes \ {"none", "q1y2018"} ->
         CASE ~readable -> "q1y2018"
           [] readable /\ box.board = "PI" -> "none"
           [] readable /\ box.board = "CM" -> IF held THEN "q3y2021" ELSE "q4y2018"
           [] readable /\ box.board = "RM3" -> "q4y2018"
           [] readable /\ box.board = "NEO" -> box.hat

Detects ==
  /\ pc = "detect" /\ pc' = "setup"
  /\ \E held \in BOOLEAN : class' = Detected(held)
  /\ UNCHANGED <<expansion, world, status, screen, led, look, cmd, gadget, events>>

\* An exception that reaches the top of the program: nothing of it is left but
\* what the screen shows.
Dies ==
  /\ pc' = "down" /\ look' = "idle" /\ cmd' = "none"
  /\ indexing' = FALSE
  /\ UNCHANGED <<page, stack, timer>>

UsableBut2021(c) == c \in {"q3y2018", "q4y2018"}

\* The constructors of DummyHAT and q1y2018HAT use pins they never defined; the
\* others write to the AXP209 first.
Usable(c) == c \in {"q3y2018", "q4y2018", "q3y2021"}

LevelShown == IF readable THEN battery ELSE "full"

Pattern(level) ==
  CASE level = "full" -> "solid"
    [] level = "half" -> "once"
    [] level = "low" -> "twice"
    [] level = "flat" -> "thrice"

LedFor(level) == IF ap THEN Pattern(level) ELSE "off"

SetsUp ==
  /\ pc = "setup" /\ Usable(class) /\ readable /\ pc' = "arm"
  /\ page' = "menu" /\ stack' = "status" /\ timer' = "near" /\ indexing' = FALSE
  /\ led' = LedFor("full")
  /\ UNCHANGED <<expansion, world, status, class, look, cmd, gadget, events>>

SetUpFails ==
  /\ pc = "setup" /\ (~Usable(class) \/ ~readable)
  /\ Dies
  /\ UNCHANGED <<expansion, world, status, class, led, gadget, events>>

-----------------------------------------------------------------------------
\* The callbacks of RPi.GPIO share one thread; on the RM3 each has its own.
Blocked == cmd # "none" /\ box.board # "RM3"

\* handleOtgSelect.  Only the NEO has the pin; "none", "high" and "low" are
\* combined with a number.
OtgRaises == box.board = "NEO" /\ box.otg = "named"

OtgSelect == gadget' = (gadget \/ (box.board = "NEO" /\ box.otg = "on"))

Arms ==
  /\ pc = "arm" /\ ~(class = "q4y2018" /\ OtgRaises) /\ pc' = "top"
  /\ IF class = "q4y2018" THEN OtgSelect ELSE UNCHANGED gadget
  /\ UNCHANGED <<expansion, world, status, class, screen, led, look, cmd, events>>

ArmFails ==
  /\ pc = "arm" /\ class = "q4y2018" /\ OtgRaises
  /\ Dies
  /\ UNCHANGED <<expansion, world, status, class, led, gadget, events>>

\* An exception in a callback only ends the callback.
OtgEdge ==
  /\ pc \in Loop /\ class = box.hat /\ class # "q3y2018" /\ box.board = "NEO"
  /\ box.otg = "on" /\ ~Blocked /\ Event
  /\ OtgSelect
  /\ UNCHANGED <<expansion, world, status, pc, class, screen, led, look, cmd>>

-----------------------------------------------------------------------------
\* What a command left in pageStack counts as a screen that waits, long after it.
PowerOffDisplay ==
  \/ page = "blank" /\ UNCHANGED <<page, stack, timer>>
  \/ page # "blank" /\ stack = "kept" /\ timer' = "near" /\ UNCHANGED <<page, stack>>
  \/ /\ page # "blank" /\ stack # "kept"
     /\ page' = "blank" /\ stack' = "status" /\ UNCHANGED timer

GoesTo(p) ==
  /\ pc' = p
  /\ UNCHANGED <<expansion, world, status, class, look, cmd, gadget, events>>

Darkens ==
  /\ pc = "top" /\ timer = "past" /\ ~indexing /\ GoesTo("look")
  /\ PowerOffDisplay
  /\ UNCHANGED <<indexing, led>>

StaysLit ==
  /\ pc = "top" /\ (timer # "past" \/ indexing) /\ GoesTo("look")
  /\ UNCHANGED <<screen, led>>

\* The pages of the progress file leave pageStack alone.
ShowsWait ==
  /\ pc = "look" /\ status /\ GoesTo("battery")
  /\ page' = "progress" /\ indexing' = TRUE
  /\ UNCHANGED <<stack, timer, led>>

ShowsSuccess ==
  /\ pc = "look" /\ ~status /\ indexing /\ GoesTo("battery")
  /\ page' = "progress" /\ indexing' = FALSE
  /\ UNCHANGED <<stack, timer, led>>

KeepsPage ==
  /\ pc = "look" /\ ~status /\ ~indexing /\ GoesTo("battery")
  /\ UNCHANGED <<screen, led>>

\* A reading that fails counts as no battery, and no battery as enough charge.
Warns ==
  /\ pc = "battery" /\ LevelShown = "flat" /\ GoesTo("led")
  /\ page' = "low_battery" /\ timer' = "never"
  /\ UNCHANGED <<stack, indexing, led>>

HidesNothing ==
  /\ pc = "battery" /\ LevelShown # "flat" /\ page = "low_battery" /\ GoesTo("led")
  /\ UNCHANGED <<screen, led>>

PutsPageBack ==
  /\ pc = "battery" /\ LevelShown # "flat" /\ page = "low_battery" /\ GoesTo("led")
  /\ page' = "menu"
  /\ UNCHANGED <<stack, timer, indexing, led>>

HidesWarning ==
  /\ pc = "battery" /\ LevelShown # "flat" /\ page = "low_battery" /\ GoesTo("led")
  /\ PowerOffDisplay
  /\ UNCHANGED <<indexing, led>>

NoWarning ==
  /\ pc = "battery" /\ LevelShown # "flat" /\ page # "low_battery" /\ GoesTo("led")
  /\ UNCHANGED <<screen, led>>

UpdatesLed ==
  /\ pc = "led" /\ GoesTo("top")
  /\ led' = LedFor(LevelShown)
  /\ UNCHANGED screen

\* The display, iwconfig or brand.j2 gives no answer the loop can use.
LoopDies ==
  /\ pc \in Loop /\ Event
  /\ Dies
  /\ UNCHANGED <<expansion, world, status, class, led, gadget>>

TimePasses ==
  /\ pc # "off" /\ timer = "near" /\ timer' = "past"
  /\ UNCHANGED <<expansion, world, status, pc, class, page, stack, indexing, led,
                 look, cmd, gadget, events>>

-----------------------------------------------------------------------------
\* Registered on the right pin, so that a falling edge is noticed.
Watched == pc \in Loop /\ class = box.hat /\ class # "q3y2018"

LineFalls ==
  /\ pc \in Looking /\ line = "high" /\ line' = "low" /\ Event
  /\ look' = IF Watched /\ look = "idle" THEN "edge" ELSE look
  /\ UNCHANGED <<expansion, box, readable, battery, ap, status, pc, class,
                 screen, led, cmd, gadget>>

LineRises ==
  /\ pc \in Looking /\ line = "low" /\ line' = "high" /\ Event
  /\ UNCHANGED <<expansion, box, readable, battery, ap, status, pc, class,
                 screen, led, look, cmd, gadget>>

\* shutdownDevice, up to the call of poweroff.
ShutsDown ==
  /\ look' = "down" /\ led' = "off" /\ page' = "power_down"
  /\ UNCHANGED <<stack, indexing>>

FalseAlarmOnLow ==
  /\ look = "edge" /\ ~Blocked /\ line = "low" /\ look' = "idle"
  /\ UNCHANGED <<expansion, world, status, pc, class, screen, led, cmd, gadget, events>>

\* shutdownDeviceCallback, when it has waited a tenth of a second.
FalseAlarm ==
  /\ look = "edge" /\ ~Blocked /\ line = "high" /\ look' = "idle"
  /\ UNCHANGED <<expansion, world, status, pc, class, screen, led, cmd, gadget,
                 events>>

PowerFails ==
  /\ look = "edge" /\ ~Blocked /\ line = "low"
  /\ ShutsDown
  /\ UNCHANGED <<expansion, world, status, pc, class, timer, cmd, gadget, events>>

\* checkPressTime: one button held for more than three seconds.
LongPress ==
  /\ pc \in Loop /\ class = box.hat /\ ~Blocked /\ look # "down" /\ Event
  /\ ShutsDown /\ timer' = "near"
  /\ UNCHANGED <<expansion, world, status, pc, class, cmd, gadget>>

BoxGoesOff ==
  /\ look = "down" /\ pc' = "off" /\ look' = "idle"
  /\ page' = "blank" /\ led' = "off" /\ cmd' = "none"
  /\ UNCHANGED <<expansion, world, status, class, stack, timer, indexing, gadget,
                 events>>

\* moveForward and moveBackward stay in their stack, also in one a command has left;
\* the menu pages and both buttons held together lead to the other stack.
Moves ==
  /\ page' = "menu" /\ timer' = "near"
  /\ stack' \in {"status", "menu", stack}
  /\ UNCHANGED <<indexing, cmd>>

\* chooseEnter on anything but the first pages of the menu; with a low battery no
\* command is carried out.
Confirms ==
  /\ stack # "status" /\ UNCHANGED <<page, stack, indexing>>
  /\ IF LevelShown = "flat" THEN timer' = "near" /\ UNCHANGED cmd
     ELSE cmd' = (IF cmd = "none" THEN "runs" ELSE cmd) /\ UNCHANGED timer

Presses ==
  /\ pc \in Loop /\ class = box.hat /\ ~Blocked /\ look # "down" /\ Event
  /\ Moves \/ Confirms
  /\ UNCHANGED <<expansion, world, status, pc, class, led, look, gadget>>

\* Whichever page a command shows and whatever it puts in pageStack, it does not move
\* the timer: its "hat" is the module hats, not the HAT.
CommandShows ==
  /\ cmd = "runs" /\ page' = "command" /\ stack' \in {"menu", "kept"}
  /\ UNCHANGED <<expansion, world, status, pc, class, timer, indexing, led, look, cmd,
                 gadget, events>>

\* chooseEnter sets the timer when the command returns, an exception does not; the
\* command leaves pageStack as it is.
CommandEnds ==
  /\ cmd = "runs" /\ cmd' = "none" /\ timer' \in {"near", timer}
  /\ UNCHANGED <<expansion, world, status, pc, class, page, stack, indexing, led, look,
                 gadget, events>>

\* It waits for a stick that is never put in, or never pulled.
CommandSticks ==
  /\ cmd = "runs" /\ cmd' = "stuck" /\ page' = "command" /\ stack' = "kept"
  /\ UNCHANGED <<expansion, world, status, pc, class, timer, indexing, led, look,
                 gadget, events>>

-----------------------------------------------------------------------------
WorldChanges ==
  /\ pc \in Looking
  /\ \/ /\ battery' \in Levels \ {battery} /\ UNCHANGED <<readable, ap, status>>
        /\ IF battery = "flat" THEN UNCHANGED events ELSE Event
     \/ Event /\ readable' = ~readable /\ UNCHANGED <<battery, ap, status>>
     \/ Event /\ ap' = ~ap /\ UNCHANGED <<readable, battery, status>>
     \/ Event /\ status' = ~status /\ UNCHANGED <<readable, battery, ap>>
  /\ UNCHANGED <<expansion, box, line, pc, class, screen, led, look, cmd,
                 gadget>>

Init ==
  /\ box \in Boxes
  /\ step = 0 /\ writing = FALSE
  /\ readable = TRUE /\ battery \in Levels /\ ap = TRUE /\ line = "high"
  /\ status = FALSE
  /\ pc = "down" /\ class = "none"
  /\ page = "blank" /\ stack = "status" /\ timer = "near" /\ indexing = FALSE
  /\ led = "off" /\ look = "idle" /\ cmd = "none"
  /\ gadget = FALSE /\ events = 0

Expansion == OpensProgress \/ WritesProgress
Service ==
  \/ Starts \/ Proceeds \/ Detects \/ SetsUp \/ SetUpFails \/ Arms \/ ArmFails
  \/ Darkens \/ StaysLit \/ ShowsWait \/ ShowsSuccess \/ KeepsPage
  \/ Warns \/ HidesWarning \/ NoWarning \/ UpdatesLed
Command == CommandShows \/ CommandEnds \/ CommandSticks
Callbacks == FalseAlarm \/ PowerFails \/ BoxGoesOff
People ==
  OtgEdge \/ LoopDies \/ LineFalls \/ LineRises \/ LongPress \/ Presses \/ WorldChanges

Next ==
  Expansion \/ Service \/ TimePasses \/ Callbacks \/ Command \/ People

Spec == Init /\ [][Next]_vars

\* PxUSBm, the loop, the callback thread, the clock and every command go on.
FairSpec ==
  /\ Spec
  /\ WF_vars(Expansion) /\ WF_vars(Service) /\ WF_vars(Callbacks)
  /\ WF_vars(TimePasses) /\ WF_vars(CommandEnds \/ CommandSticks)

-----------------------------------------------------------------------------
\* On every HAT that is supported the loop runs again and again, whatever the
\* service died of, once the expansion is over and the AXP209 answers; and with the
\* USB gadget driver where the HAT loads it at the start.
StartsUp ==
  (/\ box.hat \in {"q3y2018", "q4y2018", "q3y2021"} /\ box.board # "PI"
   /\ box.otg # "named"
   /\ <>[]readable)
    => []<>(\/ pc = "off"
            \/ pc \in Loop /\ (box.hat = "q4y2018" /\ box.otg = "on" => gadget))

\* "The AXP209 signals that power is about to go down" (shutdownDevice): a fall of
\* the line that lasts switches the box off, unless the program dies first or a
\* command of the buttons never gives the callback thread back.
PowerDownServed ==
  (look = "edge" /\ line = "low")
    ~> (pc \in {"off", "down"} \/ line = "high" \/ cmd = "stuck")

\* Once the charge no longer changes the LED shows it, the low battery page comes
\* back again and again while the battery is flat, and is taken away otherwise,
\* whatever the callbacks, the commands and the progress page did to both in between.
\* What the code does not give: a command that returns with pageStack at wait or
\* remove_usb ("failed to mount", buttons.py 428-430) leaves a screen that is never
\* darkened (powerOffDisplay), and there the low battery page stays until a button
\* is pressed, however well the battery is charged.
TellsBattery ==
  \A level \in Levels :
    <>[](pc \in Loop /\ readable /\ ap /\ battery = level)
      => /\ <>[](led = Pattern(level))
         /\ IF level = "flat"
              THEN []<>(page = "low_battery")
              ELSE <>[](page = "low_battery" => stack = "kept")

\* A screen nobody uses goes dark, "DISPLAY_TIMEOUT_SECS".  What the code does not
\* give: it stays lit for ever when a command left pageStack at a value of a screen
\* that waits, also after its end (displays.py 366-368), and, as the warning of a low
\* battery stops the timer, when a progress page or the page of a command that failed
\* with an exception took the warning's place before the battery was well again.
ScreenGoesDark ==
  <>[](pc \in Loop /\ readable /\ battery # "flat" /\ ~status)
    => <>[](\/ page = "blank"
            \/ stack = "kept"
            \/ timer = "never" /\ page \in {"progress", "command"})
=============================================================================
