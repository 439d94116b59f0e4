-------------------------------- MODULE Boot --------------------------------
(***************************************************************************)
(* From power on to a working access point: PxUSBm's main program up to    *)
(* its main loop, and the main loop's watch over the access point, eth0    *)
(* and PM2.                                                                *)
(*                                                                         *)
(* The program expands the SD card in two boots (do_fdisk, do_resize2fs,   *)
(* with expand_progress.txt as memory), gives oddly named Wi-Fi adapters a *)
(* wlanN name (setNetworkNames, another boot), decides which adapter is    *)
(* the access point (getNetworkClass) and rewrites the network's files to  *)
(* suit (fixfiles).  Power may fail, and the program be killed, between    *)
(* any two of its steps; adapters trade places from boot to boot.          *)
(*                                                                         *)
(* A write to the card is taken to be there after a power cut if a later   *)
(* one is: what was not yet synced is the same as a cut a little earlier.  *)
(***************************************************************************)
EXTENDS Integers, FiniteSets

CONSTANTS
  Wifi,         \* the Wi-Fi adapters there may be
  Driver,       \* each adapter's driver
  Predictable,  \* the adapters that the kernel gives a name like wlx00c0ca...
  MaxFaults     \* bound on power cuts, kills, unplugged adapters and radio faults

Nums     == 0 .. Cardinality(Wifi) - 1    \* N in wlanN
Odd      == -3                            \* a name that is not wlanN
Absent   == -4                            \* not plugged in
Missing  == -2                            \* there is no such file
Nobody   == -1                            \* no client interface
Blank    == [ap |-> Nobody, ci |-> Nobody]    \* cli.py's first wificonf.txt
Empty    == [ap |-> Missing, ci |-> Missing]  \* wificonf.txt, opened to be written
NoRoles  == Blank

ASSUME BootAssumption ==
  /\ IsFiniteSet(Wifi)
  /\ Predictable \subseteq Wifi
  /\ Driver \in [Wifi -> {"rtl88", "brcmfmac", "other"}]
  /\ MaxFaults \in Nat

Served == {"interfaces", "hostapd", "dnsmasq"}    \* the files that name the AP
Files  == Served \cup {"dhcpcd"}

VARIABLES
  progress,   \* expand_progress.txt
  grown,      \* the partition has the size of the card
  resized,    \* so has the file system
  links,      \* the numbers of each adapter's .link files
  conf,       \* wificonf.txt
  served,     \* the wlan that each of the files Served names as the AP
  denied,     \* the wlan of dhcpcd.conf's denyinterfaces
  num,        \* the number in each adapter's name since it was plugged in
  radio,      \* what it takes to bring the AP on the air: "up" (nothing), "hostapd", "ifup"
  eth,        \* eth0: "ok" (an address, or no cable), "asking" (dhclient), "stuck"
  pm2,        \* PM2 is online
  faults,     \* faults so far
  pc,         \* the program's place
  rebooting,  \* a reboot has been ordered and not yet come
  started,    \* the program has been through to its main loop
  todo,       \* adapters setNetworkNames still has to name
  taken,      \* numbers it found or gave
  wrote,      \* it wrote a .link file
  roles,      \* AP and CI as getNetworkClass found them
  changed,    \* fixfiles rewrote the files
  swapped,    \* how many of fixfiles' four moves and four copies are done
  tmpDenied,  \* dhcpcd.tmp
  again,      \* checkServices is called the second time
  ethRecent   \* it has restarted eth0 in the last five minutes

card    == <<progress, grown, resized>>
netfiles == <<conf, served, denied>>
naming  == <<todo, taken, wrote>>
fixing  == <<roles, changed, swapped, tmpDenied>>
local   == <<fixing, again, ethRecent>>
others  == <<eth, pm2>>
vars    == <<card, links, netfiles, num, radio, others, faults, pc, rebooting, started,
             naming, local>>

Lowest(S)  == CHOOSE x \in S : \A y \in S : x <= y
Goto(p)    == pc' = p
Standard   == {w \in Wifi : num[w] \in Nums}

Init ==
  /\ progress = "missing" /\ grown = FALSE /\ resized = FALSE
  /\ links = [w \in Wifi |-> {}]
  /\ conf = Blank
  /\ served = [f \in Served |-> 0] /\ denied = 1
  /\ num = [w \in Wifi |-> Absent] /\ radio = "up" /\ eth = "ok" /\ pm2 = FALSE
  /\ faults = 0
  /\ pc = "off" /\ rebooting = FALSE /\ started = FALSE
  /\ todo = {} /\ taken = {} /\ wrote = FALSE
  /\ roles = NoRoles /\ changed = FALSE /\ swapped = 0 /\ tmpDenied = Missing
  /\ again = FALSE /\ ethRecent = FALSE

-----------------------------------------------------------------------------
(* The box around the program                                              *)

\* The names udev and the kernel may give: the first .link file's, unless
\* another adapter has that name already.
Names(present) ==
  {n \in [Wifi -> Nums \cup {Odd, Absent}] :
     \A w \in Wifi :
        /\ n[w] = Absent <=> w \notin present
        /\ \A v \in Wifi \ {w} : n[v] = n[w] => n[w] \notin Nums
        /\ w \in present =>
             IF links[w] # {} THEN \/ n[w] = Lowest(links[w])
                                   \/ n[w] = Odd /\ \E v \in Wifi : n[v] = Lowest(links[w])
             ELSE n[w] = Odd <=> w \in Predictable}

\* Whether systemd brings the AP up is left to the first look at it, in
\* CheckApServices.
PowerOn ==
  /\ pc = "off"
  /\ \E present \in SUBSET Wifi : num' \in Names(present)
  /\ radio' = "ifup" /\ eth' = "ok" /\ pm2' = FALSE
  /\ rebooting' = FALSE
  /\ Goto("start")
  /\ UNCHANGED <<card, links, netfiles, faults, started, naming, local>>

StopsAt(place) ==
  /\ Goto(place)
  /\ started' = FALSE
  /\ todo' = {} /\ taken' = {} /\ wrote' = FALSE
  /\ roles' = NoRoles /\ changed' = FALSE /\ swapped' = 0 /\ tmpDenied' = Missing
  /\ again' = FALSE /\ ethRecent' = FALSE

\* The end of an ordered reboot: the program has gone on until now.
Reboot ==
  /\ rebooting /\ pc # "off"
  /\ StopsAt("off")
  /\ UNCHANGED <<card, links, netfiles, num, radio, others, faults, rebooting>>

Fault == faults < MaxFaults /\ faults' = faults + 1

PowerCut ==
  /\ pc # "off" /\ Fault
  /\ StopsAt("off")
  /\ UNCHANGED <<card, links, netfiles, num, radio, others, rebooting>>

\* The program is killed.
Killed ==
  /\ pc \notin {"off", "dead"} /\ Fault
  /\ StopsAt("dead")
  /\ UNCHANGED <<card, links, netfiles, num, radio, others, rebooting>>

\* An exception that nothing catches.
Crashes ==
  /\ StopsAt("dead")
  /\ UNCHANGED <<card, links, netfiles, num, radio, others, faults, rebooting>>

\* Restart=on-failure, after ten seconds.
Restart ==
  /\ pc = "dead" /\ Goto("start")
  /\ UNCHANGED <<card, links, netfiles, num, radio, others, faults, rebooting, started,
                 naming, local>>

\* An adapter is unplugged, or is plugged in and gets another name.
Replug ==
  /\ pc = "loop" /\ Fault
  /\ \E present \in SUBSET Wifi : num' \in Names(present)
  /\ UNCHANGED <<card, links, netfiles, radio, others, pc, rebooting, started, naming, local>>

RadioFails ==
  /\ pc = "loop" /\ radio = "up" /\ Fault
  /\ radio' \in {"hostapd", "ifup"}
  /\ UNCHANGED <<card, links, netfiles, num, others, pc, rebooting, started, naming, local>>

\* eth0 loses its address, and no dhclient asks for one.
EthFails ==
  /\ pc = "loop" /\ eth = "ok" /\ Fault
  /\ eth' = "stuck"
  /\ UNCHANGED <<card, links, netfiles, num, radio, pm2, pc, rebooting, started, naming, local>>

EthAnswers ==
  /\ eth = "asking" /\ eth' = "ok"
  /\ UNCHANGED <<card, links, netfiles, num, radio, pm2, faults, pc, rebooting, started,
                 naming, local>>

FiveMinutes ==
  /\ ethRecent /\ ethRecent' = FALSE
  /\ UNCHANGED <<card, links, netfiles, num, radio, others, faults, pc, rebooting, started,
                 naming, fixing, again>>

Pm2Stops ==
  /\ pc = "loop" /\ pm2 /\ Fault
  /\ pm2' = FALSE
  /\ UNCHANGED <<card, links, netfiles, num, radio, eth, pc, rebooting, started, naming, local>>

-----------------------------------------------------------------------------
(* Expansion of the card                                                   *)

\* A step from one place of the program to another that does nothing else
\* to the box than what its other conjuncts say.
Step(p, q) == pc = p /\ Goto(q) /\ UNCHANGED <<num, faults, started>>
From(p, q) == Step(p, q) /\ UNCHANGED others

ReadProgress ==
  /\ From("start", IF progress = "missing" THEN "fdisk"
                   ELSE IF progress = "fdisk_done" THEN "resize" ELSE "names")
  /\ UNCHANGED <<card, links, netfiles, radio, rebooting, naming, local>>

FdiskUnwritten ==
  /\ From("fdisk", "fdisk_open")
  /\ UNCHANGED <<card, links, netfiles, radio, rebooting, naming, local>>

\* do_fdisk: the last partition deleted and made again, with the same start.
Fdisk ==
  /\ From("fdisk", "fdisk_open")
  /\ grown' = TRUE
  /\ UNCHANGED <<progress, resized, links, netfiles, radio, rebooting, naming, local>>

\* A prompt of fdisk does not come in time: the program ends, the table written
\* or not.
FdiskTimesOut ==
  /\ pc = "fdisk" /\ Fault
  /\ grown' \in {grown, TRUE}
  /\ StopsAt("dead")
  /\ UNCHANGED <<progress, resized, links, netfiles, num, radio, others, rebooting>>

\* do_resize2fs: says "blocks long" when it grew the file system or has nothing to
\* do; without that the function returns and the program goes on.
Resize ==
  /\ \/ /\ From("resize", "resize_open")
        /\ resized' = TRUE
     \/ /\ From("resize", "names")
        /\ UNCHANGED resized
  /\ UNCHANGED <<progress, grown, links, netfiles, radio, rebooting, naming, local>>

\* open(progress_file, "w") ...
OpenProgress ==
  /\ \/ From("fdisk_open", "fdisk_write")
     \/ From("resize_open", "resize_write")
     \/ From("netfiles_open", "netfiles_write")
     \/ From("running_open", "running_write")
  /\ progress' = "empty"
  /\ UNCHANGED <<grown, resized, links, netfiles, radio, rebooting, naming, local>>

\* ... and f.write(), with the reboot that follows the first two.  The program
\* does not wait for it, only for the end of the clients' dhclient, for a second.
ExpansionReboot == rebooting' = TRUE
FdiskDone ==
  From("fdisk_write", "names") /\ progress' = "fdisk_done" /\ ExpansionReboot

WriteProgress ==
  /\ \/ FdiskDone
     \/ From("resize_write", "names") /\ progress' = "resize2fs_done" /\ ExpansionReboot
     \/ From("netfiles_write", "up") /\ progress' = "rewrite_netfiles_done" /\ UNCHANGED rebooting
     \/ From("running_write", "services") /\ progress' = "running" /\ UNCHANGED rebooting
  /\ UNCHANGED <<grown, resized, links, netfiles, radio, naming, local>>

-----------------------------------------------------------------------------
(* setNetworkNames                                                         *)

LookAtNames ==
  /\ From("names", "name")
  /\ todo' = {w \in Wifi : num[w] = Odd}
  /\ taken' = {num[w] : w \in Standard}
  /\ wrote' = FALSE
  /\ UNCHANGED <<card, links, netfiles, radio, rebooting, local>>

NextNumber    == IF taken = {} THEN 0 ELSE 1 + CHOOSE x \in taken : \A y \in taken : y <= x
NeverKnown(w) == FALSE

FreeNumber   == Lowest(Nums \ taken)
LinkKnown(w) == FreeNumber \in links[w]

\* A .link file for the lowest number not in use.
NameAdapter(w) ==
  /\ From("name", "name")
  /\ w \in todo /\ todo' = todo \ {w}
  /\ \/ /\ ~LinkKnown(w)
        /\ links' = [links EXCEPT ![w] = @ \cup {FreeNumber}]
        /\ taken' = taken \cup {FreeNumber}
        /\ wrote' = TRUE
     \/ /\ LinkKnown(w)
        /\ UNCHANGED <<links, taken, wrote>>
  /\ UNCHANGED <<card, netfiles, radio, rebooting, local>>

EndNames ==
  /\ From("name", "class")
  /\ todo = {}
  /\ rebooting' = (rebooting \/ wrote)
  /\ taken' = {} /\ wrote' = FALSE
  /\ UNCHANGED <<card, links, netfiles, radio, todo, local>>

-----------------------------------------------------------------------------
(* getNetworkClass                                                         *)

Is88(w) == Driver[w] = "rtl88"

\* Of two adapters, in the order lshw lists them, the first becomes the AP.
FirstIsAP(v, w) == Is88(v) \/ (~Is88(w) /\ Driver[v] # "brcmfmac")

PossibleRoles ==
  {[ap |-> num[w], ci |-> Nobody] : w \in {v \in Wifi : Standard = {v}}}
  \cup {[ap |-> num[IF FirstIsAP(p[1], p[2]) THEN p[1] ELSE p[2]],
         ci |-> num[IF FirstIsAP(p[1], p[2]) THEN p[2] ELSE p[1]]] :
          p \in {q \in Wifi \X Wifi : q[1] # q[2] /\ Standard = {q[1], q[2]}}}

\* None or more than two adapters: nothing is done.
NoClass ==
  /\ From("class", IF started THEN "eth0" ELSE "battery")
  /\ PossibleRoles = {}
  /\ roles' = NoRoles
  /\ UNCHANGED <<card, links, netfiles, radio, rebooting, naming, changed, swapped, tmpDenied,
                 again, ethRecent>>

FindClass ==
  /\ From("class", "fix")
  /\ roles' \in PossibleRoles
  /\ UNCHANGED <<card, links, netfiles, radio, rebooting, naming, changed, swapped, tmpDenied,
                 again, ethRecent>>

\* After fixfiles: if it changed anything, everything is brought up again,
\* eth0 too.
BringUp ==
  /\ Step("up", IF started THEN "eth0" ELSE "battery")
  /\ IF changed THEN radio' = "up" /\ eth' = "asking" ELSE UNCHANGED <<radio, eth>>
  /\ UNCHANGED pm2
  /\ changed' = FALSE
  /\ UNCHANGED <<card, links, netfiles, rebooting, naming, roles, swapped, tmpDenied,
                 again, ethRecent>>

-----------------------------------------------------------------------------
(* network_files_match and fixfiles                                        *)

ConfKnows(ap)  == TRUE
FilesMatch(ap) == \A f \in Served : served[f] = ap

\* Nothing to do: wificonf.txt and the files agree with the adapters.
AlreadyFixed ==
  /\ From("fix", "netfiles_open")
  /\ conf = roles /\ FilesMatch(roles.ap)
  /\ changed' = FALSE
  /\ UNCHANGED <<card, links, netfiles, radio, rebooting, naming, roles, swapped, tmpDenied,
                 again, ethRecent>>

\* Nothing to go on with: wificonf.txt is empty, or hostapd.conf is not
\* there to look for the box's name.
FixCrashes ==
  /\ pc = "fix"
  /\ conf = Empty \/ (conf = roles /\ served["hostapd"] = Missing)
  /\ Crashes

\* Files to be rewritten are not there.  The services are stopped by now.
CopyCrashes ==
  /\ pc = "fix"
  /\ conf # Empty
  /\ denied = Missing \/ \E f \in {"hostapd", "dnsmasq"} : served[f] = Missing
  /\ StopsAt("dead")
  /\ radio' = "ifup"
  /\ UNCHANGED <<card, links, netfiles, num, others, faults, rebooting>>

\* dhcpcd.conf: a line that denies a wlan is rewritten, and goes for good when
\* there is no client.
NewDenied(ci) == IF denied = Nobody THEN Nobody ELSE ci

\* Services stopped, the new files written next to the old ones, interfaces
\* taken down.  This is also done if only the box's name was changed.
WriteTmpFiles ==
  /\ From("fix", "swap")
  /\ conf # Empty
  /\ served["hostapd"] # Missing /\ served["dnsmasq"] # Missing /\ denied # Missing
  /\ tmpDenied' = NewDenied(roles.ci)
  /\ changed' = TRUE /\ swapped' = 0 /\ radio' = "ifup"
  /\ UNCHANGED <<card, links, netfiles, rebooting, naming, roles, again, ethRecent>>

\* The four live files are moved to .bak, then the new ones copied in.
SwapOrder == <<"interfaces", "hostapd", "dnsmasq", "dhcpcd",
               "hostapd", "dnsmasq", "interfaces", "dhcpcd">>

SwapFile ==
  /\ From("swap", IF swapped = 7 THEN "conf_open" ELSE "swap")
  /\ swapped' = swapped + 1
  /\ LET file == SwapOrder[swapped + 1]
         copy == swapped >= 4
     IN  /\ served' = [f \in Served |-> IF f # file THEN served[f]
                                        ELSE IF copy THEN roles.ap ELSE Missing]
         /\ denied' = IF file # "dhcpcd" THEN denied ELSE IF copy THEN tmpDenied ELSE Missing
  /\ UNCHANGED <<card, links, conf, radio, rebooting, naming, roles, changed, tmpDenied,
                 again, ethRecent>>

\* wificonf.txt is written last; open() empties it.
WriteConf ==
  /\ \/ From("conf_open", "conf_write") /\ conf' = Empty /\ UNCHANGED <<swapped, tmpDenied>>
     \/ From("conf_write", "netfiles_open") /\ conf' = roles
        /\ swapped' = 0 /\ tmpDenied' = Missing
  /\ UNCHANGED <<card, links, served, denied, radio, rebooting, naming, roles, changed,
                 again, ethRecent>>

-----------------------------------------------------------------------------
(* The rest of the start, and the watch over the access point              *)

\* neo-battery-shutdown is waited for; at the end "running" is written.
RunMode ==
  /\ From("battery", "pm2")
  /\ UNCHANGED <<card, links, netfiles, radio, rebooting, naming, local>>

\* check_PM2 comes back when PM2 is online; a restart that does not help is
\* tried again.
CheckPm2 ==
  /\ \/ pm2 /\ Step("pm2", IF started THEN "loop" ELSE "running_open") /\ UNCHANGED others
     \/ ~pm2 /\ Step("pm2", "pm2") /\ pm2' = TRUE /\ UNCHANGED eth
  /\ UNCHANGED <<card, links, netfiles, radio, rebooting, naming, local>>

\* get_AP() can tell a number.
ApNamed == conf.ap \in Nums
ApUp    == radio = "up" /\ \E w \in Wifi : num[w] = conf.ap

-----------------------------------------------------------------------------
(* checkServices                                                           *)

Restores(r) == radio' \in {"up", r}

\* A call ends.  The second comes after a first that found all well.
ServicesEnd(well) ==
  /\ IF well /\ ~again
     THEN again' = TRUE /\ Goto("services") /\ UNCHANGED started
     ELSE again' = FALSE /\ Goto("loop") /\ started' = TRUE
  /\ UNCHANGED <<card, links, netfiles, num, radio, others, faults, rebooting, naming, fixing,
                 ethRecent>>

\* networking.service is waited for, and restarted if it is not active.
CheckNetworking ==
  \/ /\ From("services", "services_ap")
     /\ UNCHANGED <<card, links, netfiles, radio, rebooting, naming, local>>
  \/ pc = "services" /\ ServicesEnd(FALSE)

\* hostapd, the radio and the AP's ifup are restarted if they do not look well.
CheckApServices ==
  /\ From("services_ap", "services_eth0")
  /\ ApNamed /\ Restores(radio)
  /\ UNCHANGED <<card, links, netfiles, rebooting, naming, local>>

\* The unit that is restarted is not eth0's, so that a restart never helps.
CheckEthService ==
  \/ /\ From("services_eth0", "services_client")
     /\ UNCHANGED <<card, links, netfiles, radio, rebooting, naming, local>>
  \/ pc = "services_eth0" /\ ServicesEnd(FALSE)

\* get_CI() and check_CI(): a client's ifup is restarted, whatever comes of it.
CheckClientService == pc = "services_client" /\ ServicesEnd(TRUE)

CheckServices == CheckNetworking \/ CheckApServices \/ CheckEthService \/ CheckClientService

-----------------------------------------------------------------------------
(* The main loop                                                           *)

RestartHostapd == radio' = IF radio = "hostapd" THEN "up" ELSE radio

\* It looks at the access point every half minute, and goes as far as it
\* takes: hostapd, ifdown and ifup, getNetworkClass.
WatchAp ==
  /\ ApNamed
  /\ \/ From("loop", IF ApUp THEN "eth0" ELSE "hostapd") /\ UNCHANGED radio
     \/ From("hostapd", "hostapd_done") /\ RestartHostapd
     \/ From("hostapd_done", IF ApUp THEN "eth0" ELSE "ifup") /\ UNCHANGED radio
     \/ From("ifup", "ifup_done") /\ radio' = "up"
     \/ From("ifup_done", IF ApUp THEN "eth0" ELSE "class") /\ UNCHANGED radio
  /\ UNCHANGED <<card, links, netfiles, rebooting, naming, local>>

\* check_eth0: a cable, no address and no dhclient that asks for one; eth0 is
\* restarted in the background, at most every five minutes.
EthIsStuck == eth = "stuck" /\ ~ethRecent

WatchEth ==
  /\ \/ /\ EthIsStuck
        /\ Step("eth0", "pm2") /\ eth' = "asking" /\ ethRecent' = TRUE
        /\ UNCHANGED pm2
     \/ /\ ~EthIsStuck
        /\ From("eth0", "pm2") /\ UNCHANGED ethRecent
  /\ UNCHANGED <<card, links, netfiles, radio, rebooting, naming, fixing, again>>

\* get_AP() raises an exception.
NoApCrashes == pc \in {"services_ap", "loop"} /\ ~ApNamed /\ Crashes

-----------------------------------------------------------------------------
World == PowerOn \/ Reboot \/ PowerCut \/ Killed \/ Restart \/ Replug \/ RadioFails
         \/ EthFails \/ EthAnswers \/ FiveMinutes \/ Pm2Stops

Expansion == ReadProgress \/ Fdisk \/ Resize \/ OpenProgress \/ WriteProgress

SetNetworkNames == LookAtNames \/ (\E w \in Wifi : NameAdapter(w)) \/ EndNames

GetNetworkClass == NoClass \/ FindClass \/ BringUp

FixFiles == AlreadyFixed \/ FixCrashes \/ CopyCrashes \/ WriteTmpFiles \/ SwapFile \/ WriteConf

Program == Expansion \/ SetNetworkNames \/ GetNetworkClass \/ FixFiles
           \/ RunMode \/ CheckPm2 \/ CheckServices \/ WatchAp \/ NoApCrashes \/ WatchEth

Next == World \/ Program \/ FdiskTimesOut

Spec == Init /\ [][Next]_vars

\* The program goes on (and PM2 with its restarts), systemd starts it again, an
\* ordered reboot comes, somebody switches the box on, eth0's router answers.
FairSpec ==
  /\ Spec
  /\ WF_vars(Program) /\ WF_vars(PowerOn) /\ WF_vars(Reboot) /\ WF_vars(Restart)
  /\ WF_vars(EthAnswers) /\ WF_vars(FiveMinutes)

-----------------------------------------------------------------------------
Adapters == Nums \cup {Odd, Absent}
Number   == Nums \cup {Missing, Nobody}
Wlan     == Nums \cup {0, 1, Missing, Nobody}    \* 0 and 1: as installed
Places   == {"off", "dead", "start", "fdisk", "fdisk_open", "fdisk_write", "resize",
             "resize_open", "resize_write", "names", "name", "class", "fix", "swap",
             "conf_open", "conf_write", "netfiles_open", "netfiles_write", "up", "battery",
             "pm2", "running_open", "running_write", "services", "services_ap",
             "services_eth0", "services_client", "loop", "hostapd", "hostapd_done", "ifup",
             "ifup_done", "eth0"}

DiskType ==
  /\ progress \in {"missing", "empty", "fdisk_done", "resize2fs_done",
                   "rewrite_netfiles_done", "running"}
  /\ grown \in BOOLEAN /\ resized \in BOOLEAN
  /\ links \in [Wifi -> SUBSET Nums]
  /\ conf \in [ap : Number, ci : Number]
  /\ served \in [Served -> Nums \cup {0, Missing}]
  /\ denied \in Wlan
WorldType ==
  /\ num \in [Wifi -> Adapters]
  /\ radio \in {"up", "hostapd", "ifup"}
  /\ eth \in {"ok", "asking", "stuck"} /\ pm2 \in BOOLEAN
  /\ faults \in 0 .. MaxFaults
ProgramType ==
  /\ pc \in Places
  /\ rebooting \in BOOLEAN /\ started \in BOOLEAN
  /\ todo \in SUBSET Wifi /\ taken \in SUBSET Nums /\ wrote \in BOOLEAN
  /\ roles \in [ap : Nums \cup {Nobody}, ci : Nums \cup {Nobody}]
  /\ changed \in BOOLEAN
  /\ swapped \in 0 .. 8
  /\ tmpDenied \in Wlan
  /\ again \in BOOLEAN /\ ethRecent \in BOOLEAN

\* Every variable keeps its type: in particular setNetworkNames never runs
\* out of numbers, and fixfiles' swap does not go on after its last file.
TypeOK == DiskType /\ WorldType /\ ProgramType

\* expand_progress.txt never runs ahead of the card: what it says is done is
\* done, whenever the power was cut (do_fdisk and do_resize2fs write the
\* file after the disk; do_resize2fs must not be left to a partition that
\* has not grown).
ProgressTrue ==
  /\ progress = "fdisk_done" => grown
  /\ progress = "resize2fs_done" => resized
  /\ resized => grown

\* Once getNetworkClass has found the adapters' roles and the program has
\* come to its main loop, wificonf.txt and all three files name the same
\* access point, whatever an earlier rewriting left half done.
FilesInStep ==
  started /\ pc \in {"loop", "eth0", "pm2"} /\ roles # NoRoles
    => conf = roles /\ \A f \in Served : served[f] = roles.ap

\* A configuration file has gone missing: fixfiles was ended between a move
\* and the copy that follows, or while it wrote wificonf.txt.
Lost ==
  pc \in {"off", "dead"} /\ (conf = Empty \/ denied = Missing
                             \/ \E f \in {"hostapd", "dnsmasq"} : served[f] = Missing)

\* The box comes up, through all the reboots it orders itself, and its
\* access point, PM2 and eth0 come back after every fault, if no file was lost
\* and there are one or two adapters with wlan names.
BoxComesUp ==
  []~Lost /\ <>[](PossibleRoles # {}) => <>[](started /\ ApUp /\ pm2 /\ eth = "ok")
=============================================================================
