------------------------------ MODULE KnownWifi ------------------------------
(***************************************************************************)
(* The box's way to the internet by Wi-Fi: PxUSBm's check_known_wifi and   *)
(* check_stat_CI, called from the main loop about once a minute, next to   *)
(* wpa_supplicant, dhclient, the admin page and ConnectBoxManage.sh.       *)
(*                                                                         *)
(* wpa_supplicant.conf holds the admin's own network and, after a marker,  *)
(* the remembered ones.  check_known_wifi reads it, tests the internet for *)
(* up to 45 seconds, remembers the network that is connected and writes    *)
(* the file again; everybody else may have written to it by then.          *)
(***************************************************************************)
EXTENDS Integers, Sequences

CONSTANTS
  Nets,      \* the Wi-Fi networks in range at some time
  Online,    \* those with a way to the internet
  Odd,       \* those with "Network" and "Password" in the name, and in the password
  None,      \* no network; also the name in a wiped wpa_supplicant.conf
  First,     \* the network the image was built with, or None
  MaxKnown,  \* KNOWN_WIFI_MAX
  MaxActs    \* bound on what admins do to the files, on dying interfaces and on restarts

ASSUME WifiAssumption ==
  /\ None \notin Nets /\ Online \subseteq Nets /\ Odd \subseteq Nets
  /\ First \in Nets \cup {None}
  /\ MaxKnown \in Nat \ {0} /\ MaxActs \in Nat

\* A network={} block: a name, and whose password it has.
Names  == Nets \cup {None}
Blocks == [ssid : Names, psk : Names]
Works(b) == b.ssid \in Nets /\ b.psk = b.ssid
Wiped  == [ssid |-> None, psk |-> None]

VARIABLES
  own,         \* wpa_supplicant.conf before the marker
  extra,       \* ... and after it
  known,       \* connectbox_known_wifi.json
  upTo,        \* what wpa_supplicant.conf's time is not over a second after: "wpa" (wpa_supplicant's
               \* start), "write" (this process's last write, conf_written), or "none" of them
  soon,        \* which of the two was less than a second ago, or "none"
  loaded,      \* the blocks wpa_supplicant has read
  now,         \* the one it is connected with; 0: none
  lease,       \* the network that dhclient's lease is from
  asking,      \* dhclient is looking for a lease
  iface,       \* the client interface: "up", "down", "deaf" (wpa_cli fails at once) or
               \* "hung" (wpa_cli waits for an answer until it times out)
  ifup,        \* ifdown and ifup have been started in the background
  recent,      \* what was restarted in the last 5 minutes: "dhcp_refresh", "ci_restart"
  lastNet,     \* last_ssid
  seen,        \* wpa_supplicant was not started after last_seen
  tested,      \* networks without internet when tested
  pc,          \* check_known_wifi's place
  text,        \* what it has read of wpa_supplicant.conf
  entries,     \* what it has read of the list
  block,       \* the block it tests
  learnt,      \* changed
  acts,        \* acts so far
  disturbed,   \* what changed under the running check: "wipe", "files", "link", "nothing"
  early,       \* the client moved when PxUSBm could not tell
  misread      \* the times say that wpa_supplicant has read the file, and it has not

conf  == <<own, extra, upTo, soon>>
wpa   == <<loaded, now, lease, asking, iface, ifup>>
state == <<lastNet, seen, tested>>
check == <<pc, text, entries, block, learnt>>
ghost == <<disturbed, early, misread>>
vars  == <<conf, known, wpa, recent, state, check, acts, ghost>>

Nothing == [own |-> Wiped, extra |-> <<>>]
NetNow  == IF now = 0 THEN None ELSE loaded[now].ssid

Init ==
  /\ own = [ssid |-> First, psk |-> First] /\ extra = <<>> /\ known = <<>>
  /\ upTo = "wpa" /\ soon = "wpa"
  /\ loaded = <<own>> /\ now = 0 /\ lease = None /\ asking = TRUE
  /\ iface = "up" /\ ifup = FALSE /\ recent = {}
  /\ lastNet = None /\ seen = FALSE /\ tested = {}
  /\ pc = "idle" /\ text = Nothing /\ entries = <<>> /\ block = Wiped /\ learnt = FALSE
  /\ acts = 0
  /\ disturbed = "nothing" /\ early = FALSE /\ misread = FALSE

-----------------------------------------------------------------------------
(* Those who write to the files                                            *)

Act == acts < MaxActs /\ acts' = acts + 1

\* What happens while a check is under way; a wipe of the list counts most.
Disturbed(by) ==
  disturbed' = IF pc = "idle" THEN "nothing"
               ELSE IF disturbed = "wipe" \/ (disturbed = "files" /\ by = "link")
               THEN disturbed ELSE by

Edited(newOwn, newExtra, by) ==
  /\ own' = newOwn /\ extra' = newExtra
  /\ upTo' = soon /\ misread' = (soon # "none")
  /\ Disturbed(by)
  /\ UNCHANGED <<soon, wpa, recent, state, check, early>>

\* The admin page saves a network; the password may be wrong.
SaveNetwork ==
  /\ Act
  /\ \E n \in Nets, p \in Nets : Edited([ssid |-> n, psk |-> p], extra, "files")
  /\ UNCHANGED known

\* ConnectBoxManage.sh: sed changes every ssid= line there is, or every psk=.
SetClientSsid ==
  /\ Act
  /\ \E n \in Nets : Edited([own EXCEPT !.ssid = n],
                            [i \in DOMAIN extra |-> [extra[i] EXCEPT !.ssid = n]], "files")
  /\ UNCHANGED known

SetClientPassword ==
  /\ Act
  /\ \E p \in Nets : Edited([own EXCEPT !.psk = p],
                            [i \in DOMAIN extra |-> [extra[i] EXCEPT !.psk = p]], "files")
  /\ UNCHANGED known

\* The admin page's Wipe: default name and password, no list.
Wipe ==
  /\ Act
  /\ Edited(Wiped, <<>>, "wipe")
  /\ known' = <<>>

-----------------------------------------------------------------------------
(* wpa_supplicant, dhclient and time                                       *)

FileBlocks(o, e) == <<o>> \o e

\* ifdown and ifup: both programs start again.
Restarted ==
  /\ loaded' = FileBlocks(own, extra) /\ now' = 0
  /\ lease' = None /\ asking' = TRUE /\ iface' = "up"
  /\ upTo' = "wpa" /\ soon' = "wpa" /\ seen' = FALSE
  /\ Disturbed("link") /\ early' = FALSE /\ misread' = FALSE
  /\ UNCHANGED <<own, extra, known, recent, lastNet, tested, check,
                 acts>>

IfUp  == ifup /\ ifup' = FALSE /\ Restarted
Apply == UNCHANGED ifup /\ Restarted     \* the admin page does it

\* A move to n that the next check cannot tell, or cannot follow up.
TooEarly(n) ==
  /\ ~asking /\ n # lease
  /\ ~(pc = "idle" /\ seen /\ lastNet = lease /\ "dhcp_refresh" \notin recent)

\* A scan and a handshake take longer than a second.
Connect ==
  /\ now = 0 /\ iface = "up"
  /\ now' \in {i \in DOMAIN loaded : Works(loaded[i])}
  /\ early' = (early \/ TooEarly(loaded[now'].ssid))
  /\ soon' = "none"
  /\ UNCHANGED <<own, extra, upTo, known, loaded, lease, asking, iface, ifup, recent,
                 state, check, acts, disturbed, misread>>

Drop ==
  /\ now # 0 /\ now' = 0
  /\ Disturbed("link")
  /\ UNCHANGED <<conf, known, loaded, lease, asking, iface, ifup, recent,
                 state, check, acts, early, misread>>

GetLease ==
  /\ asking /\ now # 0
  /\ asking' = FALSE /\ lease' = NetNow
  /\ UNCHANGED <<conf, known, loaded, now, iface, ifup, recent, state, check, acts, ghost>>

InterfaceDies ==
  /\ iface = "up" /\ Act
  /\ iface' \in {"down", "deaf", "hung"} /\ now' = 0
  /\ UNCHANGED <<conf, known, loaded, lease, asking, ifup, recent, state, check, ghost>>

SecondPasses ==
  /\ soon # "none" /\ soon' = "none"
  /\ UNCHANGED <<own, extra, upTo, known, wpa, recent, state, check, acts, ghost>>

FiveMinutes ==
  /\ recent # {} /\ recent' = {}
  /\ UNCHANGED <<conf, known, wpa, state, check, acts, ghost>>

\* What the check has read is of no more use.
DropRead(place) ==
  /\ pc' = place /\ text' = Nothing /\ entries' = <<>> /\ block' = Wiped
  /\ learnt' = FALSE /\ disturbed' = "nothing"

EndCheck == DropRead("idle")

\* PxUSBm is started again, and has not written the file yet.
Started(time) == IF time = "write" THEN "none" ELSE time

DaemonRestart ==
  /\ Act
  /\ lastNet' = None /\ seen' = FALSE /\ tested' = {} /\ recent' = {}
  /\ upTo' = Started(upTo) /\ soon' = Started(soon)
  /\ EndCheck
  /\ early' = (early \/ lease # NetNow)
  /\ misread' = (misread \/ (pc = "reconfigure" /\ upTo = "wpa"))
  /\ UNCHANGED <<own, extra, known, wpa>>

-----------------------------------------------------------------------------
(* check_stat_CI                                                           *)

\* check_CI: no "Password" before the file's first psk, no "Network" between
\* that and the next one, where the next block's name is.
Configured ==
  /\ own.ssid \notin Odd /\ own.psk \notin Odd
  /\ extra # <<>> => extra[1].ssid \notin Odd

OnlyDown(i) == i = "down"

\* A wpa_cli that does not come back in 10 seconds is taken for one that is fine.
NeedsRestart(i) == i \in {"down", "deaf"}

CheckStatCI ==
  /\ pc = "idle" /\ Configured /\ NeedsRestart(iface)
  /\ "ci_restart" \notin recent /\ recent' = recent \cup {"ci_restart"}
  /\ ifup' = TRUE
  /\ UNCHANGED <<conf, known, loaded, now, lease, asking, iface, state, check, acts, ghost>>

-----------------------------------------------------------------------------
(* check_known_wifi                                                        *)

ReadFiles ==
  /\ pc = "idle" /\ pc' = "status"
  /\ text' = [own |-> own, extra |-> extra] /\ entries' = known
  /\ UNCHANGED <<conf, known, wpa, recent, state, block, learnt, acts, ghost>>

OtherRun == ~seen
SameRun  == seen      \* wpa_started < last_seen

\* The client is at another network than at the last check, by itself.
Moved == NetNow # None /\ lastNet # None /\ NetNow # lastNet /\ SameRun

\* It still has the other network's lease, and is restarted.
RenewLease ==
  /\ pc = "status" /\ Moved
  /\ "dhcp_refresh" \notin recent /\ recent' = recent \cup {"dhcp_refresh"}
  /\ ifup' = TRUE /\ lastNet' = NetNow
  /\ EndCheck
  /\ UNCHANGED <<conf, known, loaded, now, lease, asking, iface, seen, tested, acts,
                 early, misread>>

AlwaysFresh == TRUE

\* wpa_supplicant.conf has not changed since wpa_supplicant read it, or did so
\* within a second.
Fresh == upTo # "none"

\* The block in use: that of wpa_supplicant's number in the text as read.
BlockInUse == FileBlocks(text.own, text.extra)[now]
BlockFound ==
  /\ Fresh
  /\ now \in DOMAIN FileBlocks(text.own, text.extra)
  /\ BlockInUse.ssid = NetNow

Top(list) == IF list = <<>> THEN Wiped ELSE list[1]

ToTest ==
  /\ NetNow # None /\ BlockFound
  /\ Top(entries) # BlockInUse
  /\ lease # None

ReadStatus ==
  /\ pc = "status"
  /\ ~Moved \/ "dhcp_refresh" \in recent
  /\ lastNet' = IF NetNow # None THEN NetNow ELSE lastNet
  /\ seen' = TRUE
  /\ \/ /\ ToTest
        /\ pc' = "test" /\ block' = BlockInUse
     \/ /\ ToTest => BlockInUse.ssid \in tested     \* KNOWN_WIFI_RETRY
        /\ pc' = "write" /\ UNCHANGED block
  /\ UNCHANGED <<conf, known, wpa, recent, tested, text, entries, learnt, acts, ghost>>

\* internet_through: by the interface itself, through its lease's router.
InternetThrough == now # 0 /\ lease = NetNow /\ lease \in Online

Take(s, n) == SubSeq(s, 1, IF Len(s) < n THEN Len(s) ELSE n)

\* The entries of other networks than n.
Without(list, n) ==
  LET kept[i \in 0 .. Len(list)] ==
        IF i = 0 THEN <<>>
        ELSE IF list[i].ssid # n THEN Append(kept[i - 1], list[i]) ELSE kept[i - 1]
  IN  kept[Len(list)]

\* Newest first; one entry a network.
Remember(b, list) == Take(<<b>> \o Without(list, b.ssid), MaxKnown)

Learn ==
  /\ pc = "test" /\ pc' = "write"
  /\ InternetThrough
  /\ entries' = Remember(block, entries) /\ known' = entries'
  /\ learnt' = TRUE /\ block' = Wiped
  /\ tested' = tested \ {block.ssid}
  /\ UNCHANGED <<conf, wpa, recent, lastNet, seen, text, acts, ghost>>

\* Also when the test takes too long.
NoInternet ==
  /\ pc = "test" /\ pc' = "write"
  /\ tested' = tested \cup {block.ssid} /\ block' = Wiped
  /\ UNCHANGED <<conf, known, wpa, recent, lastNet, seen, text, entries, learnt, acts, ghost>>

EntriesAsRead == entries
OnlyNewEntries == IF learnt THEN entries ELSE text.extra

\* The list is read again, in case it was wiped meanwhile.
EntriesToWrite == IF learnt THEN entries ELSE known

\* The remembered networks that are not the admin's own.
Others(o, list) == Without(list, o.ssid)

OwnFromList(o, list) == IF Top(list).ssid = o.ssid THEN Top(list) ELSE o
OwnText(o, list) == o

WriteConf ==
  /\ pc = "write"
  /\ LET list == EntriesToWrite
         new  == [own |-> OwnText(text.own, list), extra |-> Others(text.own, list)]
     IN  IF new = text THEN EndCheck /\ UNCHANGED conf
         ELSE /\ own' = new.own /\ extra' = new.extra
              /\ upTo' = (IF soon = "wpa" THEN "wpa" ELSE "write") /\ soon' = "write"
              /\ DropRead("reconfigure")
  /\ UNCHANGED <<known, wpa, recent, state, acts, early, misread>>

\* wpa_cli reconfigure: wpa_supplicant reads the file and connects again.
\* If it does not answer, the file counts as read all the same.
Reconfigure ==
  /\ pc = "reconfigure" /\ iface = "up"
  /\ loaded' = FileBlocks(own, extra) /\ now' = 0 /\ misread' = FALSE
  /\ EndCheck
  /\ UNCHANGED <<conf, known, lease, asking, iface, ifup, recent, state, acts, early>>

ReconfigureFails ==
  /\ pc = "reconfigure"
  /\ misread' = TRUE
  /\ EndCheck
  /\ UNCHANGED <<conf, known, wpa, recent, state, acts, early>>

-----------------------------------------------------------------------------
People == SaveNetwork \/ SetClientSsid \/ SetClientPassword \/ Wipe \/ Apply

CheckKnownWifi == ReadFiles \/ RenewLease \/ ReadStatus \/ Learn \/ NoInternet
                  \/ WriteConf \/ Reconfigure \/ ReconfigureFails

Next == People \/ IfUp \/ Connect \/ Drop \/ GetLease \/ InterfaceDies \/ SecondPasses \/ FiveMinutes
        \/ DaemonRestart \/ CheckStatCI \/ CheckKnownWifi

Spec == Init /\ [][Next]_vars

\* The main loop comes back to both checks, ifup ends, a client that is in
\* range connects and gets a lease, and five minutes pass.
FairSpec ==
  /\ Spec
  /\ WF_vars(CheckKnownWifi) /\ SF_vars(CheckStatCI)
  /\ WF_vars(IfUp) /\ WF_vars(GetLease) /\ WF_vars(FiveMinutes)

-----------------------------------------------------------------------------
BlockSeqs == UNION {[1 .. n -> Blocks] : n \in 0 .. MaxKnown}

\* Every variable keeps its type; neither the list nor what is written to
\* wpa_supplicant.conf ever grows beyond KNOWN_WIFI_MAX.
TypeOK ==
  /\ own \in Blocks /\ extra \in BlockSeqs /\ known \in BlockSeqs
  /\ upTo \in {"wpa", "write", "none"} /\ soon \in {"wpa", "write", "none"}
  /\ loaded \in UNION {[1 .. n -> Blocks] : n \in 1 .. MaxKnown + 1}
  /\ now \in 0 .. Len(loaded)
  /\ lease \in Names /\ asking \in BOOLEAN
  /\ iface \in {"up", "down", "deaf", "hung"} /\ ifup \in BOOLEAN
  /\ recent \subseteq {"dhcp_refresh", "ci_restart"}
  /\ lastNet \in Names /\ seen \in BOOLEAN /\ tested \subseteq Nets
  /\ pc \in {"idle", "status", "test", "write", "reconfigure"}
  /\ text \in [own : Blocks, extra : BlockSeqs] /\ entries \in BlockSeqs
  /\ block \in Blocks /\ learnt \in BOOLEAN
  /\ acts \in 0 .. MaxActs
  /\ disturbed \in {"wipe", "files", "link", "nothing"} /\ early \in BOOLEAN /\ misread \in BOOLEAN

\* Only a network that is connected, with the password that connected it, and
\* by whose own lease the internet answers is remembered, however many wrong
\* passwords were saved and not yet applied - unless files or connection
\* changed under the very check, or wpa_supplicant has not read the file when
\* the times say it has: a reconfigure went unanswered, or the file was changed
\* in the very second after it was read, which the code grants.
LearntWorks ==
  [][known' # known /\ known' # <<>> /\ disturbed = "nothing" /\ ~misread
       => Works(known'[1]) /\ known'[1].ssid = lease /\ lease \in Online]_vars

\* A check writes wpa_supplicant.conf.
Written == pc = "write" /\ pc' = "reconfigure"

\* A check leaves the admin's own network as it is; only what was typed
\* while it was under way may be undone by it.
OwnKept == [][Written /\ own' # own => disturbed \in {"files", "wipe"}]_vars

\* What a check writes after the marker are networks that are in the list
\* then, even if the list was wiped after the check had read it.  A check that
\* learns a network does not read the list again: it saves the one it read
\* before its test of up to 45 seconds, with the network on top.  So a wipe at
\* any time during a check that learns is left out here: the check brings all
\* the wiped networks back, against docs/administration.md, by which the wipe
\* "forgets all remembered networks".
WipeHolds ==
  [][Written /\ extra' # extra /\ (learnt => disturbed # "wipe")
       => \A i \in DOMAIN extra' : \E j \in DOMAIN known : extra'[i] = known[j]]_vars

\* wpa_supplicant.conf is brought in line with the list again and again.
ConfCatchesUp ==
  <>[][~People /\ ~DaemonRestart]_vars => []<>(extra = Others(own, known))

\* A client that moved to another network when the last check saw it at the one
\* its lease is from, and no renewal was started in the last five minutes, does
\* not stay there without a lease of that network.
LeaseFollows ==
  \A n \in Nets : []<>(NetNow = n /\ ~asking /\ ~early => lease = n)

\* With a network configured, a client interface that is down, or whose
\* wpa_supplicant is gone, does not stay so.  (One whose wpa_supplicant hangs is
\* never restarted.)
ClientComesBack == []<>(iface \notin {"down", "deaf"} \/ ~Configured)
=============================================================================
