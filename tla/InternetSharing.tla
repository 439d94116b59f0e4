--------------------------- MODULE InternetSharing ---------------------------
(***************************************************************************)
(* How PxUSBm.py shares the box's internet connection with the phones and  *)
(* keeps the total of what they used.                                      *)
(*                                                                         *)
(* check_internet_sharing() runs about every 30 s.  It makes IPv4          *)
(* forwarding, the firewall's CB_SHARE chains and dnsmasq follow the       *)
(* setting of the admin page, adds what the chain's byte counters counted  *)
(* to a total in a file, and makes the phones rejoin after the setting has *)
(* changed.  The kernel, dnsmasq, the phones and the admin page do not     *)
(* wait for it, and the daemon or the whole box may be restarted between   *)
(* any two of its commands.                                                *)
(***************************************************************************)
EXTENDS Integers

CONSTANTS
  MaxBytes,      \* bound on the bytes passed and counted (for model checking)
  RestartAt,     \* the places of a check at which the daemon may be restarted
  ResetAt,       \* those at which the admin page's Reset may come
  ListMayFail,   \* TRUE if `iptables -L` may fail though the chain is there
  DnsMayFail     \* TRUE if `systemctl restart dnsmasq` may time out

Places == {"idle", "count", "save", "unhook", "remove", "add", "hook", "nat",
           "dns", "dnsmasq", "phones"}

ASSUME InternetSharingAssumption ==
  /\ MaxBytes \in Nat
  /\ RestartAt \subseteq Places /\ ResetAt \subseteq Places
  /\ ListMayFail \in BOOLEAN /\ DnsMayFail \in BOOLEAN

VARIABLES
  setting,     \* brand.j2's internet_sharing
  apUp,        \* the access point has an IPv4 address
  \* The kernel and dnsmasq
  forwarding,  \* ip_forward
  chain,       \* CB_SHARE: "none", "unhooked" (no jump from FORWARD) or "hooked"
  nat,         \* CB_SHARE_NAT: "none", or made for the "current" or an "old" address
  counter,     \* bytes that CB_SHARE has counted
  dnsConf,     \* dnsmasq.conf: "offline", or "real" servers; "old" for an old address
  dns,         \* the same, as dnsmasq has read it
  \* A phone: "away", or what it found when it joined, "offline" or "online"
  phone,
  \* USAGE_FILE
  total,       \* bytes passed
  saved,       \* the value of counter that is in the total already
  thisBoot,    \* boot_id is the running system's
  \* The daemon
  known,       \* sharing_state['on']: "none", or the last setting acted upon
  pc,
  on, switched, rebuild,   \* local variables of the check
  renumbered,  \* the address has changed since the check read it
  listed,      \* the counter as update_usage() read it
  newTotal, newSaved,      \* what update_usage() is about to write
  \* For the properties only
  passed,      \* bytes that phones have passed since the last Reset
  lost         \* those whose counter vanished before they were added

admin == <<setting, apUp>>
fw    == <<forwarding, chain, nat, counter>>
names == <<dnsConf, dns>>
usage == <<total, saved, thisBoot>>
local == <<on, switched, rebuild, renumbered>>
count == <<listed, newTotal, newSaved>>
ghost == <<passed, lost>>
vars  == <<admin, fw, names, phone, usage, known, pc, local, count, ghost>>

-----------------------------------------------------------------------------
\* What update_usage() takes for the part of the counter that is in the total.
Counted == IF thisBoot THEN saved ELSE 0

\* Bytes that the chain has counted and the total does not have yet.  While the
\* rules are being rebuilt the total has what was listed, and `saved' is 0 already.
Rebuilding == {"unhook", "remove"}
Pending ==
  IF chain = "none" THEN 0
  ELSE IF pc \in Rebuilding THEN counter - listed ELSE counter - Counted

\* sharing_rules_ok(); the variant looks at the filter chain only.
FilterRulesOk(want) == chain = (IF want THEN "hooked" ELSE "none")
RulesOk(want) ==
  /\ chain = (IF want THEN "hooked" ELSE "none")
  /\ nat = (IF want THEN "current" ELSE "none")

SharingWorks == forwarding /\ RulesOk(TRUE) /\ dns = "real"

-----------------------------------------------------------------------------
\* The admin page, the phones, the network

SetSharing ==
  /\ setting' = ~setting
  /\ UNCHANGED <<apUp, fw, names, phone, usage, known, pc, local, count, ghost>>

\* connectbox-manage sets the total to 0 and leaves the counter values.
Reset ==
  /\ pc \in ResetAt
  /\ total' = 0 /\ passed' = passed - total
  /\ UNCHANGED <<admin, fw, names, phone, saved, thisBoot, known, pc, local, count, lost>>

ApGoesUpOrDown ==
  /\ apUp' = ~apUp
  /\ UNCHANGED <<setting, fw, names, phone, usage, known, pc, local, count, ghost>>

\* The access point gets another address, or the uplink other name servers.
Renumber ==
  /\ nat'     = IF nat = "current" THEN "old" ELSE nat
  /\ dnsConf' = IF dnsConf = "real" THEN "old" ELSE dnsConf
  /\ dns'     = IF dns = "real" THEN "old" ELSE dns
  /\ renumbered' = (pc # "idle")
  /\ UNCHANGED <<admin, forwarding, chain, counter, phone, usage, known, pc,
                 on, switched, rebuild, count, ghost>>

PassByte ==
  /\ passed < MaxBytes /\ counter < MaxBytes
  /\ forwarding /\ chain = "hooked"
  /\ counter' = counter + 1
  /\ passed' = passed + 1
  /\ UNCHANGED <<admin, forwarding, chain, nat, names, phone, usage, known, pc,
                 local, count, lost>>

PhoneJoins ==
  /\ phone' = IF SharingWorks THEN "online" ELSE "offline"
  /\ UNCHANGED <<admin, fw, names, usage, known, pc, local, count, ghost>>

PhoneLeaves ==
  /\ phone' = "away"
  /\ UNCHANGED <<admin, fw, names, usage, known, pc, local, count, ghost>>

-----------------------------------------------------------------------------
\* The daemon or the box is restarted

ForgetCheck ==
  /\ pc' = "idle" /\ known' = "none"
  /\ on' = FALSE /\ switched' = FALSE /\ rebuild' = FALSE /\ renumbered' = FALSE
  /\ listed' = 0 /\ newTotal' = 0 /\ newSaved' = 0

Restart ==
  /\ pc \in RestartAt
  /\ ForgetCheck
  /\ UNCHANGED <<admin, fw, names, phone, usage, ghost>>

Reboot ==
  /\ ForgetCheck
  /\ forwarding' = FALSE /\ chain' = "none" /\ nat' = "none" /\ counter' = 0
  /\ lost' = lost + Pending
  /\ dns' = dnsConf
  /\ thisBoot' = FALSE
  /\ phone' = "away"
  /\ UNCHANGED <<admin, dnsConf, total, saved, passed>>

-----------------------------------------------------------------------------
\* check_internet_sharing(): the setting and IPv4 forwarding

\* The setting has changed while the daemon was running; the variant compares
\* after the new setting has been noted.
AfterNoting(want) == FALSE
Switched(want) == known # "none" /\ known # (IF want THEN "on" ELSE "off")

\* Without an address of the access point there is nothing to do yet.
StartCheck ==
  /\ pc = "idle"
  /\ setting => apUp
  /\ on' = setting
  /\ switched' = Switched(setting)
  /\ known' = IF setting THEN "on" ELSE "off"
  /\ forwarding' = setting
  /\ renumbered' = FALSE /\ rebuild' = FALSE
  /\ pc' = "count"
  /\ UNCHANGED <<admin, chain, nat, counter, names, phone, usage, count, ghost>>

-----------------------------------------------------------------------------
\* update_usage(): the file and the counters are read ...

\* What the counter has counted since it was read last; the variant takes all.
SinceReset(c) == c
Since(c)      == IF c >= Counted THEN c - Counted ELSE c

\* The counter value to save, 0 if the rules are about to be rebuilt; the variants
\* save none, or forget that the counter starts again.
SaveNone(c)   == 0
SaveAlways(c) == c
SaveValue(c)  == IF RulesOk(on) THEN c ELSE 0

ListCounters ==
  /\ pc = "count"
  /\ rebuild' = ~RulesOk(on)
  /\ \/ /\ chain # "none"
        /\ listed' = counter
        /\ newTotal' = total + Since(counter)
        /\ newSaved' = SaveValue(counter)
     \/ /\ chain = "none" \/ ListMayFail
        /\ listed' = 0 /\ newTotal' = total /\ newSaved' = 0
  /\ pc' = "save"
  /\ UNCHANGED <<admin, fw, names, phone, usage, known, on, switched, renumbered, ghost>>

\* ... and the new total replaces the file.
SaveUsage ==
  /\ pc = "save"
  /\ total' = newTotal /\ saved' = newSaved /\ thisBoot' = TRUE
  /\ newTotal' = 0 /\ newSaved' = 0
  /\ pc' = IF rebuild THEN "unhook" ELSE "dns"
  /\ UNCHANGED <<admin, fw, names, phone, known, local, listed, ghost>>

-----------------------------------------------------------------------------
\* set_sharing_rules(): the jumps, then the chains go, and are made again

RemoveJumps ==
  /\ pc = "unhook"
  /\ chain' = IF chain = "hooked" THEN "unhooked" ELSE chain
  /\ pc' = "remove"
  /\ UNCHANGED <<admin, forwarding, nat, counter, names, phone, usage, known, local,
                 count, ghost>>

RemoveChains ==
  /\ pc = "remove"
  /\ chain' = "none" /\ nat' = "none" /\ counter' = 0
  /\ lost' = lost + Pending
  /\ pc' = IF on THEN "add" ELSE "dns"
  /\ UNCHANGED <<admin, forwarding, names, phone, usage, known, local, count, passed>>

AddRules ==
  /\ pc = "add"
  /\ chain' = "unhooked"
  /\ pc' = "hook"
  /\ UNCHANGED <<admin, forwarding, nat, counter, names, phone, usage, known, local,
                 count, ghost>>

HookRules ==
  /\ pc = "hook"
  /\ chain' = "hooked"
  /\ pc' = "nat"
  /\ UNCHANGED <<admin, forwarding, nat, counter, names, phone, usage, known, local,
                 count, ghost>>

AddNat ==
  /\ pc = "nat"
  /\ nat' = IF renumbered THEN "old" ELSE "current"
  /\ pc' = "dns"
  /\ UNCHANGED <<admin, forwarding, chain, counter, names, phone, usage, known, local,
                 count, ghost>>

-----------------------------------------------------------------------------
\* DNS and the phones

\* dnsmasq_sharing_text() for the address that the check has read.
SharingText == IF ~on THEN "offline" ELSE IF renumbered THEN "old" ELSE "real"

\* dnsmasq is restarted when its file has changed, and only then.
WriteDnsConf ==
  /\ pc = "dns"
  /\ dnsConf' = SharingText
  /\ pc' = IF dnsConf' # dnsConf THEN "dnsmasq" ELSE "phones"
  /\ UNCHANGED <<admin, fw, dns, phone, usage, known, local, count, ghost>>

RestartDnsmasq ==
  /\ pc = "dnsmasq"
  /\ dns' = dnsConf
  /\ pc' = "phones"
  /\ UNCHANGED <<admin, fw, dnsConf, phone, usage, known, local, count, ghost>>

EndCheck ==
  /\ pc' = "idle"
  /\ on' = FALSE /\ switched' = FALSE /\ rebuild' = FALSE /\ renumbered' = FALSE
  /\ listed' = 0

\* An exception ends the check; the phones are not asked to rejoin.
DnsmasqFails ==
  /\ DnsMayFail
  /\ pc = "dnsmasq"
  /\ EndCheck
  /\ UNCHANGED <<admin, fw, names, phone, usage, known, newTotal, newSaved, ghost>>

\* disconnect_ap_stations() after the setting was switched.
EndOfCheck ==
  /\ pc = "phones"
  /\ phone' = IF switched THEN "away" ELSE phone
  /\ EndCheck
  /\ UNCHANGED <<admin, fw, names, usage, known, newTotal, newSaved, ghost>>

-----------------------------------------------------------------------------
Init ==
  /\ setting = FALSE /\ apUp = FALSE
  /\ forwarding = FALSE /\ chain = "none" /\ nat = "none" /\ counter = 0
  /\ dnsConf = "offline" /\ dns = "offline"
  /\ phone = "away"
  /\ total = 0 /\ saved = 0 /\ thisBoot = FALSE
  /\ known = "none" /\ pc = "idle"
  /\ on = FALSE /\ switched = FALSE /\ rebuild = FALSE /\ renumbered = FALSE
  /\ listed = 0 /\ newTotal = 0 /\ newSaved = 0
  /\ passed = 0 /\ lost = 0

World ==
  \/ SetSharing \/ Reset \/ ApGoesUpOrDown \/ Renumber
  \/ PassByte \/ PhoneJoins \/ PhoneLeaves

Check ==
  \/ StartCheck \/ ListCounters \/ SaveUsage
  \/ RemoveJumps \/ RemoveChains \/ AddRules \/ HookRules \/ AddNat
  \/ WriteDnsConf \/ RestartDnsmasq \/ DnsmasqFails \/ EndOfCheck

Next == World \/ Restart \/ Reboot \/ Check

Spec == Init /\ [][Next]_vars

\* The daemon's loop goes on; nothing else has to happen.
FairSpec == Spec /\ WF_vars(Check)

-----------------------------------------------------------------------------
SwitchesType ==
  /\ setting \in BOOLEAN /\ apUp \in BOOLEAN /\ forwarding \in BOOLEAN
  /\ thisBoot \in BOOLEAN
  /\ on \in BOOLEAN /\ switched \in BOOLEAN
  /\ rebuild \in BOOLEAN /\ renumbered \in BOOLEAN

NamesType ==
  /\ chain \in {"none", "unhooked", "hooked"}
  /\ nat \in {"none", "current", "old"}
  /\ dnsConf \in {"offline", "real", "old"} /\ dns \in {"offline", "real", "old"}
  /\ phone \in {"away", "offline", "online"}
  /\ known \in {"none", "on", "off"}
  /\ pc \in Places

NumbersType ==
  /\ counter \in Nat /\ total \in Nat /\ saved \in Nat
  /\ listed \in Nat /\ newTotal \in Nat /\ newSaved \in Nat
  /\ passed \in Nat /\ lost \in Nat

TypeOK == SwitchesType /\ NamesType /\ NumbersType

\* The total never shows more than the phones have passed: no byte is counted twice
\* ("so a PxUSBm restart does not count them twice").
NeverTwice == total <= passed

\* Every byte passed is in the total, waiting in the chain's counter for the next
\* check, or went with a chain that was removed before it was read again.
Accounted == total + Pending + lost = passed

\* Once the setting, the address and the rest of the world hold still, forwarding,
\* firewall and dnsmasq follow the setting ("so the setting also survives reboots").
Settled ==
  IF setting
  THEN forwarding /\ chain = "hooked" /\ nat = "current" /\ dns = "real"
  ELSE ~forwarding /\ chain = "none" /\ nat = "none" /\ dns = "offline"

WorldRests == <>[][FALSE]_<<setting, apUp, known>> /\ <>[][~Renumber /\ ~Reboot]_vars
\* (dnsmasq has heard of its file unless its restart, or the daemon, broke off right
\* then: no later check restarts it.)
Unheard == pc # "dnsmasq" /\ dns # dnsConf
SharingSettles ==
  WorldRests /\ []~Unheard /\ <>[](setting => apUp) => <>[]Settled

\* No phone goes on taking the box for an internet connection after sharing was
\* turned off ("disconnect the phones so they rejoin and check again"), unless the
\* daemon was restarted, or broke off, before it noticed.
Forgotten == known = "none" /\ phone = "online" /\ ~setting
PhonesRejoin == []~Unheard /\ []~Forgotten /\ <>[](~setting) => <>[](phone # "online")
=============================================================================
