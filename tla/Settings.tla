------------------------------ MODULE Settings ------------------------------
(***************************************************************************)
(* The settings of the box and the programs that change them.              *)
(*                                                                         *)
(* ConnectBoxManage.sh runs one command per request of the admin API: it   *)
(* refuses to run while its lock file exists, backs a configuration file   *)
(* up before the first change of it, and exits at the first step that      *)
(* fails.  A command is a script of steps here, and two commands may run   *)
(* at once, because the lock file is tested and made in two steps.         *)
(*                                                                         *)
(* brand.j2 is read, changed and rewritten by that script, by the main     *)
(* loop of the front panel (globals.init), by phone home and by PxUSBm at  *)
(* its start, and only PxUSBm replaces it in one step.  The others         *)
(* truncate it first: it is Empty meanwhile.  (The buttons of the panel    *)
(* rewrite it like its main loop does: module Panel.)                      *)
(***************************************************************************)
EXTENDS Naturals, Sequences

CONSTANTS Commands,     \* the commands that are asked for
          Requests,     \* runs of ConnectBoxManage.sh that may be under way together
          Names,        \* hostnames
          First,        \* the one the box was made with
          BadNames,     \* hostnames that `hostname' refuses
          Options,      \* values of a setting of brand.j2
          Default,      \* the one a new brand.j2 has
          NoToken, Tokens,
          Empty, None,
          MaxAsked,     \* bound: commands asked for
          MaxCuts,      \* bound: power cuts
          Afterwards,   \* bound: follow brand.j2 after it was spoilt, commands
                        \* after two were mixed
          TmpSurvives   \* /tmp is kept over a restart of the box

ASSUME SettingsAssumption ==
    /\ First \in Names \ BadNames
    /\ BadNames \subseteq Names
    /\ Default \in Options
    /\ Commands \subseteq {"get", "password", "ui", "wifi", "country",
                           "hostname", "brand", "static", "reset"}
    /\ NoToken \notin Tokens
    /\ MaxAsked \in Nat /\ MaxCuts \in Nat
    /\ TmpSurvives \in BOOLEAN /\ Afterwards \in BOOLEAN
    /\ Requests \cap {"loop", "phone", "px"} = {}
    /\ None \notin Names \cup {"factory", "chosen", "icon-only", "static-site"}

Brands == [name : Names, option : Options, token : Tokens \cup {NoToken},
           board : {"other", "this"}]

ASSUME EmptyAssumption == Empty \notin Brands

VARIABLES
    conf,       \* contents of the configuration files
    original,   \* their .original copies
    live,       \* the hostname the kernel has
    link,       \* where nginx's connectbox_interface.conf points
    lock,       \* the lock file of ConnectBoxManage.sh exists
    run,        \* the runs of ConnectBoxManage.sh
    brand,      \* contents of brand.j2
    use,        \* what each program is doing with brand.j2
    held,       \* what it is going to write there
    panel,      \* the front panel's service: "up" or "down"
    phone,      \* where phone home is
    px,         \* PxUSBm has read brand.j2 at its start
    spoilt,     \* history: brand.j2 was used by two at once, or cut short
    raced,      \* history: two commands ran at once, or one was cut short
    refused,    \* history: a name was changed, or restored, half way only, and no
                \* reset has ended well since
    uncopied,   \* history: hostapd.conf was changed when it had no .original copy
    asked,      \* number of commands asked for
    cuts        \* number of power cuts

files == <<conf, original, live, link>>
brandVars == <<brand, use, held, spoilt>>
history == <<raced, refused, uncopied, asked, cuts>>
vars == <<files, lock, run, brandVars, panel, phone, px, history>>

Users == Requests \cup {"loop", "phone", "px"}

-----------------------------------------------------------------------------
(* The commands of ConnectBoxManage.sh, step by step. *)

Backup(f) == <<"backup", f>>
Change(f) == <<"change", f>>
Restore(f) == <<"restore", f>>

\* As it would be if set_hostname made no copy of /etc/hosts.
ScriptWithoutCopy ==
    [get |-> <<>>, password |-> <<Backup("password"), Change("password")>>,
     country  |-> <<<<"country", "hostapd">> >>,
     hostname |-> <<Backup("hostname"), <<"look", "hostname">>,
                    Change("hostname"), <<"live", "hostname">>, <<"sed", "hosts">> >>,
     brand    |-> <<<<"jq", "brand">>, <<"open", "brand">>, <<"save", "brand">> >>,
     static   |-> <<<<"unlink", "site">>, <<"link", "site">> >>,
     reset    |-> <<Restore("password"), Restore("hostapd"), Restore("hostname"),
                    Restore("hosts"), Restore("ui"), <<"restart", "hostapd">> >>]

Script ==
    [get      |-> <<>>,
     password |-> <<Backup("password"), Change("password")>>,
     ui       |-> <<Backup("ui"), Change("ui")>>,
     wifi     |-> <<Backup("hostapd"), Change("hostapd")>>,
     country  |-> <<<<"country", "hostapd">> >>,
     hostname |-> <<Backup("hostname"), Backup("hosts"), <<"look", "hostname">>,
                    Change("hostname"), <<"live", "hostname">>, <<"sed", "hosts">> >>,
     brand    |-> <<<<"jq", "brand">>, <<"open", "brand">>, <<"save", "brand">> >>,
     static   |-> <<<<"unlink", "site">>, <<"link", "site">> >>,
     reset    |-> <<Restore("password"), Restore("hostapd"), Restore("hostname"),
                    Restore("hosts"), Restore("ui"), <<"restart", "hostapd">> >>]

Files == {"password", "hostapd", "hostname", "hosts", "ui"}
Factory == [f \in Files |-> IF f \in {"hostname", "hosts"} THEN First ELSE "factory"]

\* The values a command may be given.
Values(c) == CASE c = "hostname" -> Names
               [] c = "brand"    -> Options
               [] c = "static"   -> {"static-site"}
               [] c \in {"password", "ui", "wifi", "country"} -> {"chosen"}
               [] OTHER -> {None}

Idle == [phase |-> "idle", cmd |-> "get", value |-> None, at |-> 1, seen |-> None]

Running(r) == run[r].phase = "body"
Followed(r) == Running(r) /\ (raced => Afterwards)
Over(r) == run[r].at > Len(Script[run[r].cmd])
At(r, op) == Followed(r) /\ ~Over(r) /\ Script[run[r].cmd][run[r].at][1] = op
File(r) == Script[run[r].cmd][run[r].at][2]
GoOn(r) == run' = [run EXCEPT ![r].at = @ + 1]

\* As it would be without the trap.
ExitOnly(r) == run' = [run EXCEPT ![r] = Idle] /\ UNCHANGED lock

\* Every exit runs the trap that removes the lock file.
Exit(r) == /\ run' = [run EXCEPT ![r] = Idle]
           /\ lock' = FALSE

Init ==
    /\ conf = Factory
    /\ original = [f \in Files |-> None]
    /\ live = First
    /\ link = "icon-only"
    /\ lock = FALSE
    /\ run = [r \in Requests |-> Idle]
    /\ brand = [name |-> First, option |-> Default, token |-> NoToken, board |-> "other"]
    /\ use = [a \in Users |-> "no"]
    /\ held = [a \in Users |-> Empty]
    /\ panel = "up"
    /\ phone = "idle"
    /\ px = FALSE
    /\ spoilt = FALSE /\ raced = FALSE /\ refused = FALSE /\ uncopied = FALSE
    /\ asked = 0 /\ cuts = 0

-----------------------------------------------------------------------------
(* Reading, changing and rewriting brand.j2. *)

Others(a) == {b \in Users \ {a} : use[b] # "no"}

\* a reads brand.j2 and will write `new' over it.
Read(a, new) ==
    /\ spoilt => Afterwards
    /\ use' = [use EXCEPT ![a] = "held"]
    /\ held' = [held EXCEPT ![a] = new]
    /\ spoilt' = (spoilt \/ Others(a) # {})
    /\ UNCHANGED brand

\* open(..., "w"), or the shell's > : the file is empty from now on.
Open(a) ==
    /\ use[a] = "held"
    /\ use' = [use EXCEPT ![a] = "open"]
    /\ brand' = Empty
    /\ UNCHANGED <<held, spoilt>>

Save(a) ==
    /\ use[a] = "open"
    /\ use' = [use EXCEPT ![a] = "no"]
    /\ brand' = held[a]
    /\ held' = [held EXCEPT ![a] = Empty]
    /\ UNCHANGED spoilt

With(b, key, v) == IF b = Empty THEN Empty ELSE [b EXCEPT ![key] = v]

-----------------------------------------------------------------------------
(* ConnectBoxManage.sh *)

\* A request comes in; the script finds the lock file and answers that it is
\* already running, or goes on.
Ask(r) ==
    /\ run[r] = Idle
    /\ asked < MaxAsked
    /\ asked' = asked + 1
    /\ \E c \in Commands : \E v \in Values(c) :
          run' = IF lock THEN run
                 ELSE [run EXCEPT ![r] = [Idle EXCEPT !.phase = "tested", !.cmd = c, !.value = v]]
    /\ UNCHANGED <<files, lock, brandVars, panel, phone, px, raced, refused, uncopied, cuts>>

TouchLock(r) ==
    /\ run[r].phase = "tested"
    /\ lock' = TRUE
    /\ run' = [run EXCEPT ![r].phase = "body"]
    /\ raced' = (raced \/ \E q \in Requests \ {r} : Running(q))
    /\ UNCHANGED <<files, brandVars, panel, phone, px, refused, uncopied, asked, cuts>>

\* The copy is made once; a copy that fails ends the command.
BackUp(r) ==
    /\ At(r, "backup")
    /\ \/ /\ original' = IF original[File(r)] # None THEN original
                         ELSE [original EXCEPT ![File(r)] = conf[File(r)]]
          /\ GoOn(r)
          /\ UNCHANGED lock
       \/ /\ original[File(r)] = None
          /\ Exit(r)
          /\ UNCHANGED original
    /\ UNCHANGED <<conf, live, link, brandVars, panel, phone, px, history>>

\* echo, the Wi-Fi configurator, or sed on /etc/hostname; nobody looks whether
\* that sed failed, and the command goes on with the name that is in use.
ChangeFile(r) ==
    /\ At(r, "change")
    /\ \/ /\ conf' = [conf EXCEPT ![File(r)] = run[r].value]
          /\ GoOn(r)
          /\ UNCHANGED <<lock, refused>>
       \/ /\ File(r) # "hostname"
          /\ Exit(r)
          /\ UNCHANGED <<conf, refused>>
       \/ /\ File(r) = "hostname"
          /\ GoOn(r)
          /\ refused' = TRUE
          /\ UNCHANGED <<conf, lock>>
    /\ UNCHANGED <<original, live, link, brandVars, panel, phone, px, raced, uncopied, asked, cuts>>

\* set_client_wificountry: sed on hostapd.conf, which is not backed up first;
\* nobody looks whether it failed.
SetCountry(r) ==
    /\ At(r, "country")
    /\ GoOn(r)
    /\ \/ /\ conf' = [conf EXCEPT ![File(r)] = run[r].value]
          /\ uncopied' = (uncopied \/ original[File(r)] = None)
       \/ UNCHANGED <<conf, uncopied>>
    /\ UNCHANGED <<original, live, link, lock, brandVars, panel, phone, px, raced, refused, asked, cuts>>

\* host_name=`cat $HOSTNAME_CONFIG`
LookUp(r) ==
    /\ At(r, "look")
    /\ run' = [run EXCEPT ![r].seen = conf["hostname"], ![r].at = @ + 1]
    /\ UNCHANGED <<files, lock, brandVars, panel, phone, px, history>>

\* `hostname' refuses some names, when /etc/hostname has been changed already.
SetLive(r) ==
    /\ At(r, "live")
    /\ IF run[r].value \in BadNames
       THEN Exit(r) /\ refused' = TRUE /\ UNCHANGED live
       ELSE GoOn(r) /\ live' = run[r].value /\ UNCHANGED <<lock, refused>>
    /\ UNCHANGED <<conf, original, link, brandVars, panel, phone, px, raced, uncopied, asked, cuts>>

\* As it would be if this sed were quoted like the one on brand.j2.
SedNothing(r) ==
    /\ At(r, "sed")
    /\ GoOn(r)
    /\ UNCHANGED <<files, lock, brandVars, panel, phone, px, history>>

\* The name read before is replaced in /etc/hosts, if it is there; the same
\* edit of brand.j2 is in single quotes and never finds anything.  A sed that
\* fails ends the command with the hostname changed already.
SedHosts(r) ==
    /\ At(r, "sed")
    /\ \/ /\ conf' = IF conf["hosts"] = run[r].seen
                     THEN [conf EXCEPT !["hosts"] = run[r].value] ELSE conf
          /\ GoOn(r)
          /\ UNCHANGED <<lock, refused>>
       \/ /\ Exit(r)
          /\ refused' = TRUE
          /\ UNCHANGED conf
    /\ UNCHANGED <<original, live, link, brandVars, panel, phone, px, raced, uncopied, asked, cuts>>

\* setBrand: jq prints nothing when it cannot read the file, and whatever it
\* printed is written back.
RunJq(r) ==
    /\ At(r, "jq")
    /\ Read(r, With(brand, "option", run[r].value))
    /\ GoOn(r)
    /\ UNCHANGED <<files, lock, panel, phone, px, history>>

OpenBrand(r) ==
    /\ At(r, "open")
    /\ Open(r)
    /\ GoOn(r)
    /\ UNCHANGED <<files, lock, panel, phone, px, history>>

SaveBrand(r) ==
    /\ At(r, "save")
    /\ Save(r)
    /\ GoOn(r)
    /\ UNCHANGED <<files, lock, panel, phone, px, history>>

\* set_staticsite: rm fails when the link is not there.
Unlink(r) ==
    /\ At(r, "unlink")
    /\ IF link = None THEN Exit(r) /\ UNCHANGED link
                      ELSE GoOn(r) /\ link' = None /\ UNCHANGED lock
    /\ UNCHANGED <<conf, original, live, brandVars, panel, phone, px, history>>

Link(r) ==
    /\ At(r, "link")
    /\ IF link = None THEN GoOn(r) /\ link' = run[r].value /\ UNCHANGED lock
                      ELSE Exit(r) /\ UNCHANGED link
    /\ UNCHANGED <<conf, original, live, brandVars, panel, phone, px, history>>

\* As it would be if the copy were not looked for first.
RestoreBlindly(r) ==
    /\ At(r, "restore")
    /\ conf' = [conf EXCEPT ![File(r)] = original[File(r)]]
    /\ GoOn(r)
    /\ UNCHANGED <<original, live, link, lock, brandVars, panel, phone, px, history>>

\* reset: a file that was never backed up is left alone, a copy that fails ends
\* it; restoring the hostname also sets the live one.
RestoreFile(r) ==
    /\ At(r, "restore")
    /\ LET f == File(r) kept == original[f] # None IN
          \/ /\ conf' = IF kept THEN [conf EXCEPT ![f] = original[f]] ELSE conf
             /\ live' = IF kept /\ f = "hostname" THEN original[f] ELSE live
             /\ GoOn(r)
             /\ UNCHANGED <<lock, refused>>
          \/ /\ kept
             /\ Exit(r)
             /\ refused' = (refused \/ f = "hosts")
             /\ UNCHANGED <<conf, live>>
    /\ UNCHANGED <<original, link, brandVars, panel, phone, px, raced, uncopied, asked, cuts>>

\* restart_hostapd: ifdown and ifup, either of which may fail.
RestartHostapd(r) ==
    /\ At(r, "restart")
    /\ \/ GoOn(r) /\ UNCHANGED lock
       \/ Exit(r)
    /\ UNCHANGED <<files, brandVars, panel, phone, px, history>>

\* success, or the exit 0 of the dispatcher.
Finish(r) ==
    /\ Followed(r) /\ Over(r)
    /\ Exit(r)
    /\ refused' = (refused /\ run[r].cmd # "reset")
    /\ UNCHANGED <<files, brandVars, panel, phone, px, raced, uncopied, asked, cuts>>

-----------------------------------------------------------------------------
(* The front panel *)

\* globals.init(), at the start and at the end of every round of the main
\* loop: an unreadable brand.j2 ends the service.
LoopReads ==
    /\ panel = "up"
    /\ use["loop"] = "no"
    /\ IF brand = Empty
       THEN /\ panel' = "down"
            /\ spoilt' = TRUE
            /\ UNCHANGED <<brand, use, held>>
       ELSE /\ brand.name # conf["hostname"]
            /\ Read("loop", [brand EXCEPT !.name = conf["hostname"]])
            /\ UNCHANGED panel
    /\ UNCHANGED <<files, lock, run, phone, px, history>>

LoopOpens == Open("loop") /\ UNCHANGED <<files, lock, run, panel, phone, px, history>>
LoopSaves == Save("loop") /\ UNCHANGED <<files, lock, run, panel, phone, px, history>>

\* systemd starts it again after a failure.
PanelStarts ==
    /\ panel = "down"
    /\ panel' = "up"
    /\ UNCHANGED <<files, lock, run, brandVars, phone, px, history>>

-----------------------------------------------------------------------------
(* PxUSBm at its start *)

NewBrand == [name |-> First, option |-> Default, token |-> NoToken, board |-> "other"]

\* As it would be if a new board got a new file.
PxStartsAfresh ==
    /\ ~px
    /\ use["px"] = "no"
    /\ IF brand # Empty /\ brand.board = "this"
       THEN px' = TRUE /\ UNCHANGED brandVars
       ELSE Read("px", [NewBrand EXCEPT !.board = "this"]) /\ UNCHANGED px
    /\ UNCHANGED <<files, lock, run, panel, phone, history>>

\* An unreadable file is replaced by one with the default settings.
PxReads ==
    /\ ~px
    /\ use["px"] = "no"
    /\ IF brand # Empty /\ brand.board = "this"
       THEN px' = TRUE /\ UNCHANGED brandVars
       ELSE /\ Read("px", IF brand = Empty THEN NewBrand ELSE [brand EXCEPT !.board = "this"])
            /\ UNCHANGED px
    /\ UNCHANGED <<files, lock, run, panel, phone, history>>

\* write_brand_file: a temporary file, renamed into place.
PxReplaces ==
    /\ use["px"] = "held"
    /\ brand' = held["px"]
    /\ use' = [use EXCEPT !["px"] = "no"]
    /\ held' = [held EXCEPT !["px"] = Empty]
    /\ UNCHANGED <<files, lock, run, spoilt, panel, phone, px, history>>

-----------------------------------------------------------------------------
(* Phone home *)

\* An unreadable file ends it; a box without a token makes one and saves it.
PhoneReads ==
    /\ phone = "idle" /\ (spoilt => Afterwards)
    /\ brand # Empty
    /\ IF brand.token = NoToken
       THEN /\ \E t \in Tokens : Read("phone", [brand EXCEPT !.token = t])
            /\ phone' = "token"
       ELSE phone' = "talk" /\ UNCHANGED brandVars
    /\ UNCHANGED <<files, lock, run, panel, px, history>>

PhoneOpens ==
    /\ Open("phone")
    /\ UNCHANGED <<files, lock, run, panel, phone, px, history>>

PhoneSaves ==
    /\ Save("phone")
    /\ phone' = "talk"
    /\ UNCHANGED <<files, lock, run, panel, px, history>>

\* Health check, roster, web log and the settings: any may fail.
PhoneEnds ==
    /\ phone = "talk"
    /\ phone' = "idle"
    /\ UNCHANGED <<files, lock, run, brandVars, panel, px, history>>

\* processSettings: connectboxmanage applies a setting queued on the server, or
\* fails, which is answered like a success.
PhoneApplies ==
    /\ phone = "talk" /\ (spoilt => Afterwards)
    /\ \E v \in Options : brand' = With(brand, "option", v)
    /\ spoilt' = (spoilt \/ Others("phone") # {})
    /\ UNCHANGED <<files, lock, run, use, held, panel, phone, px, history>>

-----------------------------------------------------------------------------
\* Power fails: all programs end, the kernel's hostname is read again at boot.
PowerCut ==
    /\ cuts < MaxCuts
    /\ cuts' = cuts + 1
    /\ run' = [r \in Requests |-> Idle]
    /\ raced' = (raced \/ \E r \in Requests : Running(r))
    /\ lock' = (lock /\ TmpSurvives)
    /\ use' = [a \in Users |-> "no"]
    /\ held' = [a \in Users |-> Empty]
    /\ spoilt' = (spoilt \/ \E a \in Users : use[a] = "open")
    /\ live' = conf["hostname"]
    /\ panel' = "up"
    /\ phone' = "idle"
    /\ px' = FALSE
    /\ UNCHANGED <<conf, original, link, brand, refused, uncopied, asked>>

Manage(r) == \/ TouchLock(r) \/ BackUp(r) \/ ChangeFile(r) \/ SetCountry(r) \/ LookUp(r) \/ SetLive(r)
             \/ SedHosts(r) \/ RunJq(r) \/ OpenBrand(r) \/ SaveBrand(r) \/ Unlink(r)
             \/ Link(r) \/ RestoreFile(r) \/ RestartHostapd(r) \/ Finish(r)
Loop == LoopReads \/ LoopOpens \/ LoopSaves \/ PanelStarts
Px == PxReads \/ PxReplaces
PhoneHome == PhoneOpens \/ PhoneSaves \/ PhoneEnds

Next == \/ \E r \in Requests : Ask(r) \/ Manage(r)
        \/ Loop \/ Px
        \/ PhoneReads \/ PhoneHome \/ PhoneApplies
        \/ PowerCut

Spec == Init /\ [][Next]_vars

\* A command that runs gets on, and so does the main loop of the panel; nobody
\* has to ask for anything, and phone home may wait for its server for ever.
Fairness == (\A r \in Requests : WF_vars(Manage(r))) /\ WF_vars(Loop)

FairSpec == Spec /\ Fairness

-----------------------------------------------------------------------------
TypeOK ==
    /\ conf \in [Files -> Names \cup {"factory", "chosen"}]
    /\ original \in [Files -> Names \cup {"factory", "chosen", None}]
    /\ live \in Names
    /\ link \in {"icon-only", "static-site", None}
    /\ lock \in BOOLEAN /\ px \in BOOLEAN
    /\ spoilt \in BOOLEAN /\ raced \in BOOLEAN /\ refused \in BOOLEAN
    /\ uncopied \in BOOLEAN
    /\ \A r \in Requests : /\ run[r].phase \in {"idle", "tested", "body"}
                            /\ run[r].cmd \in DOMAIN Script
                            /\ run[r].at \in 1 .. Len(Script[run[r].cmd]) + 1
    /\ use \in [Users -> {"no", "held", "open"}]
    /\ panel \in {"up", "down"}
    /\ phone \in {"idle", "token", "talk"}

(* What is in brand.j2, seen as the record that BrandStore keeps: a program *)
(* that has opened the file for writing counts as having written it.        *)
Stored == IF \E a \in Users : use[a] = "open"
          THEN held[CHOOSE a \in Users : use[a] = "open"] ELSE brand

Store == INSTANCE BrandStore WITH store <- Stored

(* As long as no two programs use brand.j2 at the same time and none is     *)
(* killed while it rewrites it, it behaves as the store of settings         *)
(* described in BrandStore: no program undoes what another one set, the     *)
(* token that phone home registered stays, and the file is never left empty *)
(* (setBrand, globals.init, phonehome.py, write_brand_file).                *)
SettingsKept == Store!Spec

(* After the last command, the name in brand.j2, /etc/hostname, the entry   *)
(* in /etc/hosts and the hostname in use come to agree for good.  Left out  *)
(* is what the code does not mend: a command of which one step failed (a    *)
(* name that `hostname' refuses, a sed that fails, a copy that cannot be    *)
(* put back) leaves them apart, whether the script goes on or exits, until  *)
(* a reset ends well; so do mixed commands and a spoilt brand.j2            *)
(* (set_hostname, which cannot edit brand.j2, and globals.init, which       *)
(* repairs it).                                                             *)
NamesSettle ==
    <>[](\/ refused \/ raced \/ spoilt
         \/ /\ live = conf["hostname"]
            /\ conf["hosts"] = conf["hostname"]
            /\ brand # Empty => brand.name = conf["hostname"])

(* A reset that answers SUCCESS has put every configuration file back as    *)
(* the box was made, whatever commands ran or failed before, as long as no  *)
(* two were mixed: every command makes its copies before its first change,  *)
(* but for one.  set_client_wificountry edits hostapd.conf and makes no     *)
(* copy: when it is the first to change that file, no reset puts it back.   *)
ResetRestores ==
    [][\A r \in Requests :
         Running(r) /\ run[r].cmd = "reset" /\ Over(r) /\ ~Running(r)' /\ ~raced'
         => /\ \A f \in Files : conf[f] = Factory[f] \/ (f = "hostapd" /\ uncopied)
            /\ live = First]_vars

(* The lock file is there exactly while a command runs, and the link that   *)
(* nginx serves by is only missing while set_staticsite replaces it, unless *)
(* commands were mixed or cut short: a lock file or a missing link that     *)
(* stays behind makes every later command fail.                             *)
NothingLeftBehind ==
    raced \/ /\ lock <=> \E r \in Requests : Running(r)
             /\ link = None => \E r \in Requests : At(r, "link")
=============================================================================
