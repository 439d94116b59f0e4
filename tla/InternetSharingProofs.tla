------------------------ MODULE InternetSharingProofs ------------------------
(***************************************************************************)
(* What TLAPS proves about InternetSharing, for any number of bytes: that  *)
(* the data total neither counts a byte twice nor forgets one, as long as  *)
(* the daemon is not restarted between counting and removing the rules, a  *)
(* listing of the rules succeeds, and no Reset falls between reading and   *)
(* writing the file.                                                       *)
(***************************************************************************)
EXTENDS InternetSharing, TLAPS

\* The races that the theorems exclude.
NoRaces == RestartAt \cap Rebuilding = {} /\ "save" \notin ResetAt /\ ~ListMayFail

\* Where the check is decides what the firewall looks like ...
ChainOK ==
  /\ chain = "none" => counter = 0 /\ Counted = 0
  /\ pc = "add" => chain = "none"
  /\ pc = "hook" => chain = "unhooked"

\* ... and how the file, the counter and what was read of both are related.
CountOK ==
  /\ chain # "none" /\ pc \notin Rebuilding => Counted <= counter
  /\ pc \in Rebuilding => saved = 0 /\ (chain # "none" => listed <= counter)
  /\ pc = "save" /\ chain # "none" =>
       /\ Counted <= listed /\ listed <= counter
       /\ newTotal = total + (listed - Counted)
       /\ newSaved = (IF rebuild THEN 0 ELSE listed)
  /\ pc = "save" /\ chain = "none" => newTotal = total /\ newSaved = 0

AInv == TypeOK /\ ChainOK /\ CountOK /\ Accounted

-----------------------------------------------------------------------------
LEMMA SharingInit == Init => AInv
<1> SUFFICES ASSUME Init PROVE AInv
  OBVIOUS
<1>1. SwitchesType
  BY DEF Init, SwitchesType
<1>2. NamesType
  BY DEF Init, NamesType, Places
<1>3. NumbersType
  BY DEF Init, NumbersType
<1>4. ChainOK /\ CountOK /\ Accounted
  BY DEF Init, ChainOK, CountOK, Accounted, Pending, Counted, Rebuilding
<1> QED
  BY <1>1, <1>2, <1>3, <1>4 DEF AInv, TypeOK

\* Nothing moves that the accounts depend on.
LEMMA AccountsKept ==
  ASSUME AInv, TypeOK', UNCHANGED <<chain, counter, usage, count, rebuild, ghost>>,
         pc' = pc
  PROVE  AInv'
BY DEF AInv, ChainOK, CountOK, Accounted, Pending, Counted, usage, count, ghost

LEMMA SharingWorld == ASSUME AInv, NoRaces, World PROVE AInv'
<1> USE DEF AInv, TypeOK, SwitchesType, NamesType, NumbersType, admin, fw, names, usage, local, count, ghost
<1>1. CASE SetSharing \/ ApGoesUpOrDown \/ Renumber \/ PhoneJoins \/ PhoneLeaves
  <2>1. TypeOK'
    <3>1. SwitchesType' /\ NumbersType'
      BY <1>1 DEF SetSharing, ApGoesUpOrDown, Renumber, PhoneJoins, PhoneLeaves
    <3>2. NamesType'
      BY <1>1 DEF SetSharing, ApGoesUpOrDown, Renumber, PhoneJoins, PhoneLeaves
    <3> QED
      BY <3>1, <3>2
  <2>2. UNCHANGED <<chain, counter, usage, count, rebuild, ghost, pc>>
    BY <1>1 DEF SetSharing, ApGoesUpOrDown, Renumber, PhoneJoins, PhoneLeaves
  <2> QED
    BY <2>1, <2>2, AccountsKept
<1>2. CASE Reset
  <2>1. Pending \in Nat
    BY DEF Pending, Counted, CountOK, Rebuilding
  <2>2. passed - total = Pending + lost
    BY <2>1 DEF Accounted
  <2>3. TypeOK' /\ UNCHANGED <<chain, counter, saved, thisBoot, pc, listed, lost>>
    BY <1>2, <2>1, <2>2 DEF Reset
  <2>4. Counted' = Counted /\ Pending' = Pending
    BY <2>3 DEF Pending, Counted
  <2>5. ChainOK' /\ CountOK'
    BY <1>2, <2>3, <2>4 DEF Reset, ChainOK, CountOK, NoRaces, Rebuilding
  <2>6. Accounted'
    BY <1>2, <2>1, <2>2, <2>3, <2>4 DEF Reset, Accounted
  <2> QED
    BY <2>3, <2>5, <2>6
<1>3. CASE PassByte
  BY <1>3 DEF PassByte, ChainOK, CountOK, Accounted, Pending, Counted, Rebuilding
<1> QED
  BY <1>1, <1>2, <1>3 DEF World

LEMMA SharingRestart == ASSUME AInv, NoRaces, Restart \/ Reboot PROVE AInv'
<1> USE DEF AInv, TypeOK, SwitchesType, NamesType, NumbersType, admin, fw, names, usage, ghost, Places
<1>1. Pending \in Nat
  BY DEF Pending, Counted, CountOK, Rebuilding
<1>2. CASE Restart
  <2>1. TypeOK'
    <3>1. SwitchesType' /\ NumbersType'
      BY <1>2 DEF Restart, ForgetCheck
    <3>2. NamesType'
      BY <1>2 DEF Restart, ForgetCheck
    <3> QED
      BY <3>1, <3>2
  <2>2. pc \notin Rebuilding
    BY <1>2 DEF Restart, NoRaces
  <2> QED
    BY <1>2, <2>1, <2>2
       DEF Restart, ForgetCheck, ChainOK, CountOK, Accounted, Pending, Counted, Rebuilding
<1>3. CASE Reboot
  <2>1. TypeOK'
    <3>1. SwitchesType'
      BY <1>3 DEF Reboot, ForgetCheck
    <3>2. NamesType'
      BY <1>3 DEF Reboot, ForgetCheck
    <3>3. NumbersType'
      BY <1>1, <1>3 DEF Reboot, ForgetCheck
    <3> QED
      BY <3>1, <3>2, <3>3
  <2>2. Pending' = 0 /\ ChainOK' /\ CountOK'
    BY <1>3 DEF Reboot, ForgetCheck, ChainOK, CountOK, Pending, Counted, Rebuilding
  <2>3. Accounted'
    BY <1>1, <1>3, <2>2 DEF Reboot, Accounted
  <2> QED
    BY <2>1, <2>2, <2>3
<1> QED
  BY <1>2, <1>3

-----------------------------------------------------------------------------
\* Counting.
LEMMA SharingCount == ASSUME AInv, NoRaces, ListCounters \/ SaveUsage PROVE AInv'
<1> USE DEF AInv, TypeOK, SwitchesType, NamesType, NumbersType, admin, fw, names, usage, local, ghost, Places
<1>1. CASE ListCounters
  <2> USE <1>1 DEF ListCounters
  <2>1. chain # "none" => /\ listed' = counter
                          /\ newTotal' = total + (counter - Counted)
                          /\ newSaved' = (IF rebuild' THEN 0 ELSE counter)
    BY DEF CountOK, Since, SaveValue, NoRaces, Rebuilding, Counted
  <2>2. chain = "none" => listed' = 0 /\ newTotal' = total /\ newSaved' = 0
    OBVIOUS
  <2>3. chain # "none" => Counted <= counter
    BY DEF CountOK, Rebuilding
  <2>4. TypeOK'
    BY <2>1, <2>2, <2>3 DEF Counted
  <2>5. ChainOK' /\ CountOK'
    BY <2>1, <2>2, <2>3 DEF ChainOK, CountOK, Counted, Rebuilding
  <2>6. Accounted'
    BY DEF Accounted, Pending, Counted, Rebuilding
  <2> QED
    BY <2>4, <2>5, <2>6
<1>2. CASE SaveUsage
  <2> USE <1>2 DEF SaveUsage
  <2>1. TypeOK'
    OBVIOUS
  <2>2. ChainOK' /\ CountOK'
    BY DEF ChainOK, CountOK, Counted, Rebuilding
  <2>3. Accounted'
    BY DEF Accounted, CountOK, Pending, Counted, Rebuilding
  <2> QED
    BY <2>1, <2>2, <2>3
<1> QED
  BY <1>1, <1>2

\* Rebuilding the rules.
LEMMA SharingRules ==
  ASSUME AInv, RemoveJumps \/ RemoveChains \/ AddRules \/ HookRules \/ AddNat
  PROVE  AInv'
<1> USE DEF AInv, TypeOK, SwitchesType, NamesType, NumbersType, admin, names, usage, local, count, ghost, Places
<1>1. CASE RemoveJumps
  BY <1>1 DEF RemoveJumps, ChainOK, CountOK, Accounted, Pending, Counted, Rebuilding
<1>2. CASE RemoveChains
  <2>1. Pending \in Nat
    BY DEF Pending, Counted, CountOK, Rebuilding
  <2>2. TypeOK'
    BY <1>2, <2>1 DEF RemoveChains
  <2>3. Pending' = 0 /\ ChainOK' /\ CountOK'
    BY <1>2 DEF RemoveChains, ChainOK, CountOK, Pending, Counted, Rebuilding
  <2>4. Accounted'
    BY <1>2, <2>1, <2>3 DEF RemoveChains, Accounted
  <2> QED
    BY <2>2, <2>3, <2>4
<1>3. CASE AddRules
  BY <1>3 DEF AddRules, ChainOK, CountOK, Accounted, Pending, Counted, Rebuilding
<1>4. CASE HookRules
  BY <1>4 DEF HookRules, ChainOK, CountOK, Accounted, Pending, Counted, Rebuilding
<1>5. CASE AddNat
  BY <1>5 DEF AddNat, ChainOK, CountOK, Accounted, Pending, Counted, Rebuilding
<1> QED
  BY <1>1, <1>2, <1>3, <1>4, <1>5

\* The rest of the check leaves the accounts alone.
LEMMA SharingOtherSteps ==
  ASSUME AInv, StartCheck \/ WriteDnsConf \/ RestartDnsmasq \/ DnsmasqFails \/ EndOfCheck
  PROVE  AInv'
<1> USE DEF AInv, TypeOK, SwitchesType, NamesType, NumbersType, admin, fw, names, usage, local, count, ghost, Places
<1>1. TypeOK'
  <2>1. SwitchesType'
    BY DEF StartCheck, WriteDnsConf, RestartDnsmasq, DnsmasqFails, EndOfCheck, EndCheck,
           Switched
  <2>2. NamesType'
    BY DEF StartCheck, WriteDnsConf, SharingText, RestartDnsmasq, DnsmasqFails,
           EndOfCheck, EndCheck
  <2>3. NumbersType'
    BY DEF StartCheck, WriteDnsConf, RestartDnsmasq, DnsmasqFails, EndOfCheck, EndCheck
  <2> QED
    BY <2>1, <2>2, <2>3
<1>2. /\ UNCHANGED <<chain, counter, usage, ghost>>
      /\ pc \notin Rebuilding \cup {"save"}
      /\ pc' \notin Rebuilding \cup {"save", "add", "hook"}
  BY DEF StartCheck, WriteDnsConf, RestartDnsmasq, DnsmasqFails, EndOfCheck, EndCheck,
         Rebuilding
<1>3. ChainOK' /\ CountOK' /\ Accounted'
  BY <1>2 DEF ChainOK, CountOK, Accounted, Pending, Counted, Rebuilding
<1> QED
  BY <1>1, <1>3

LEMMA SharingStep == ASSUME AInv, NoRaces, [Next]_vars PROVE AInv'
<1>1. CASE UNCHANGED vars
  <2>1. TypeOK'
    BY <1>1 DEF AInv, TypeOK, SwitchesType, NamesType, NumbersType, vars, admin, fw, names,
              usage, local, count, ghost
  <2> QED
    BY <1>1, <2>1, AccountsKept DEF vars, fw, local
<1>2. CASE Check
  BY <1>2, SharingCount, SharingRules, SharingOtherSteps DEF Check
<1> QED
  BY <1>1, <1>2, SharingWorld, SharingRestart DEF Next

\* Every variable keeps its type; in particular no counter goes below zero.
THEOREM SharingTypeCorrect == ASSUME NoRaces PROVE Spec => []TypeOK
<1>1. AInv => TypeOK
  BY DEF AInv
<1>2. AInv /\ [Next]_vars => AInv'
  BY SharingStep
<1> QED
  BY <1>1, <1>2, SharingInit, PTL DEF Spec

\* Without the races, every byte that phones passed is in the total, or waits in the
\* chain's counter, or went with a chain removed by a reboot or a rebuild
\* (update_usage and set_sharing_rules).
THEOREM SharingAccounted == ASSUME NoRaces PROVE Spec => []Accounted
<1>1. AInv => Accounted
  BY DEF AInv
<1>2. AInv /\ [Next]_vars => AInv'
  BY SharingStep
<1> QED
  BY <1>1, <1>2, SharingInit, PTL DEF Spec

\* Without the races, the total never shows a byte twice, through restarts of the
\* daemon, reboots and resets (update_usage).
THEOREM SharingNeverTwice == ASSUME NoRaces PROVE Spec => []NeverTwice
<1>1. AInv => NeverTwice
  <2> SUFFICES ASSUME AInv PROVE NeverTwice
    OBVIOUS
  <2>1. Pending \in Nat
    BY DEF AInv, TypeOK, NamesType, NumbersType, SwitchesType, Pending, Counted, CountOK, Rebuilding
  <2> QED
    BY <2>1 DEF AInv, TypeOK, NumbersType, Accounted, NeverTwice
<1>2. AInv /\ [Next]_vars => AInv'
  BY SharingStep
<1> QED
  BY <1>1, <1>2, SharingInit, PTL DEF Spec
=============================================================================
