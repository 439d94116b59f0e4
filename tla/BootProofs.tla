------------------------------ MODULE BootProofs ------------------------------
(***************************************************************************)
(* What TLAPS proves about Boot, for any set of Wi-Fi adapters, any        *)
(* drivers and any number of faults: the type invariant (setNetworkNames   *)
(* never runs out of numbers), that expand_progress.txt never runs ahead   *)
(* of the card, and that the files fixfiles writes agree with the roles of *)
(* the adapters whenever the main loop is reached.                         *)
(***************************************************************************)
EXTENDS Boot, FiniteSetTheorems, WellFoundedInduction, TLAPS

\* fixfiles works with an access point; its copies are counted.
Fixing == pc \in {"fix", "swap", "conf_open", "conf_write"}

Copied ==
  (IF swapped >= 5 THEN {"hostapd"} ELSE {}) \cup (IF swapped >= 6 THEN {"dnsmasq"} ELSE {})
  \cup (IF swapped >= 7 THEN {"interfaces"} ELSE {})

SwapOK ==
  /\ Fixing => roles.ap \in Nums
  /\ pc = "swap" => swapped \in 0 .. 7 /\ \A f \in Copied : served[f] = roles.ap
  /\ pc \in {"conf_open", "conf_write"} => \A f \in Served : served[f] = roles.ap

\* Every adapter still to be named leaves a number for it.
NamingOK ==
  pc = "name" => /\ Cardinality(taken) + Cardinality(todo) <= Cardinality(Wifi)
                 /\ IsFiniteSet(taken)

IInv == TypeOK /\ SwapOK /\ NamingOK

-----------------------------------------------------------------------------
LEMMA Constants ==
  /\ IsFiniteSet(Wifi) /\ Cardinality(Wifi) \in Nat /\ MaxFaults \in Nat
  /\ Nums \subseteq Nat /\ IsFiniteSet(Nums) /\ Cardinality(Nums) = Cardinality(Wifi)
  /\ Odd \notin Nums /\ Absent \notin Nums /\ Missing \notin Nums /\ Nobody \notin Nums
<1>1. IsFiniteSet(Wifi) /\ Cardinality(Wifi) \in Nat /\ MaxFaults \in Nat
  BY BootAssumption, FS_CardinalityType
<1>2. IsFiniteSet(Nums) /\ Cardinality(Nums) = Cardinality(Wifi)
  BY <1>1, FS_Interval DEF Nums
<1> QED
  BY <1>1, <1>2 DEF Nums, Odd, Absent, Missing, Nobody

LEMMA Least ==
  ASSUME NEW T \in SUBSET Nat, T # {}
  PROVE  Lowest(T) \in T /\ \A y \in T : Lowest(T) <= y
<1> DEFINE Less == {p \in Nat \X Nat : p[1] < p[2]}
<1>1. IsWellFoundedOn(Less, Nat)
  BY NatLessThanWellFounded DEF OpToRel
<1>2. \A x, y \in Nat : x < y => <<x, y>> \in Less
  OBVIOUS
<1> HIDE DEF Less
<1>3. PICK x \in T : \A y \in T : ~(<<y, x>> \in Less)
  BY <1>1, WFMin
<1>4. \A y \in T : x <= y
  <2> TAKE y \in T
  <2>1. x \in Nat /\ y \in Nat
    OBVIOUS
  <2>2. ~(y < x)
    BY <1>2, <1>3, <2>1
  <2> QED
    BY <2>1, <2>2
<1> QED
  BY <1>3, <1>4 DEF Lowest

\* The number setNetworkNames chooses is a number, and nobody's.
LEMMA FreeNumberFree ==
  ASSUME taken \subseteq Nums, Cardinality(taken) < Cardinality(Wifi)
  PROVE  FreeNumber \in Nums \ taken
<1>1. Nums \ taken # {}
  <2> SUFFICES ASSUME taken = Nums PROVE FALSE
    OBVIOUS
  <2> QED
    BY Constants
<1>2. Nums \ taken \in SUBSET Nat
  BY Constants
<1> QED
  BY <1>1, <1>2, Least DEF FreeNumber

\* The roles are those of adapters with wlan names.
LEMMA RolesType ==
  ASSUME TypeOK, NEW r \in PossibleRoles
  PROVE  r \in [ap : Nums, ci : Nums \cup {Nobody}]
<1>1. \A w \in Standard : w \in Wifi /\ num[w] \in Nums
  BY DEF Standard
<1>2. CASE r \in {[ap |-> num[w], ci |-> Nobody] : w \in {v \in Wifi : Standard = {v}}}
  <2>1. PICK w \in Wifi : Standard = {w} /\ r = [ap |-> num[w], ci |-> Nobody]
    BY <1>2
  <2> QED
    BY <1>1, <2>1
<1>3. CASE r \in {[ap |-> num[IF FirstIsAP(p[1], p[2]) THEN p[1] ELSE p[2]],
                   ci |-> num[IF FirstIsAP(p[1], p[2]) THEN p[2] ELSE p[1]]] :
                    p \in {q \in Wifi \X Wifi : q[1] # q[2] /\ Standard = {q[1], q[2]}}}
  <2>1. PICK p \in Wifi \X Wifi :
               /\ Standard = {p[1], p[2]}
               /\ r = [ap |-> num[IF FirstIsAP(p[1], p[2]) THEN p[1] ELSE p[2]],
                       ci |-> num[IF FirstIsAP(p[1], p[2]) THEN p[2] ELSE p[1]]]
    BY <1>3
  <2>2. num[p[1]] \in Nums /\ num[p[2]] \in Nums
    BY <1>1, <2>1
  <2> QED
    BY <2>1, <2>2
<1> QED
  BY <1>2, <1>3 DEF PossibleRoles

-----------------------------------------------------------------------------
LEMMA InitInv == Init => IInv
<1> SUFFICES ASSUME Init PROVE IInv
  OBVIOUS
<1>1. DiskType
  BY DEF Init, DiskType, Blank, Number, Wlan
<1>2. WorldType
  <2>1. faults \in 0 .. MaxFaults
    BY Constants DEF Init
  <2>2. num \in [Wifi -> Adapters]
    BY DEF Init, Adapters
  <2>3. radio = "up" /\ eth = "ok" /\ pm2 = FALSE
    BY DEF Init
  <2> QED
    BY <2>1, <2>2, <2>3 DEF WorldType
<1>3. ProgramType
  <2>1. roles \in [ap : Nums \cup {Nobody}, ci : Nums \cup {Nobody}]
    BY DEF Init, NoRoles, Blank
  <2>2. pc \in Places
    BY DEF Init, Places
  <2>3. todo \in SUBSET Wifi /\ taken \in SUBSET Nums /\ swapped \in 0 .. 8 /\ tmpDenied \in Wlan
    BY DEF Init, Wlan
  <2>4. /\ rebooting = FALSE /\ started = FALSE /\ wrote = FALSE /\ changed = FALSE
        /\ again = FALSE /\ ethRecent = FALSE
    BY DEF Init
  <2> QED
    BY <2>1, <2>2, <2>3, <2>4 DEF ProgramType
<1>4. SwapOK /\ NamingOK
  BY DEF Init, SwapOK, NamingOK, Fixing
<1> QED
  BY <1>1, <1>2, <1>3, <1>4 DEF IInv, TypeOK

\* A program that ends leaves nothing behind but what is on the card.
LEMMA StopInv ==
  ASSUME IInv, NEW place \in {"off", "dead"}, StopsAt(place), rebooting' \in BOOLEAN,
         UNCHANGED <<progress, resized, links, netfiles, num, eth>>,
         grown' \in BOOLEAN, radio' \in {"up", "hostapd", "ifup"},
         pm2' \in BOOLEAN, faults' \in 0 .. MaxFaults
  PROVE  IInv'
<1> USE DEF IInv, TypeOK
<1>1. DiskType'
  BY DEF DiskType, netfiles
<1>2. WorldType'
  BY DEF WorldType
<1>3. ProgramType'
  <2>1. roles' \in [ap : Nums \cup {Nobody}, ci : Nums \cup {Nobody}]
    BY DEF StopsAt, NoRoles, Blank
  <2>2. pc' \in Places
    BY DEF StopsAt, Goto, Places
  <2>3. todo' \in SUBSET Wifi /\ taken' \in SUBSET Nums /\ swapped' \in 0 .. 8 /\ tmpDenied' \in Wlan
    BY DEF StopsAt, Wlan
  <2>4. /\ started' = FALSE /\ wrote' = FALSE /\ changed' = FALSE
        /\ again' = FALSE /\ ethRecent' = FALSE
    BY DEF StopsAt
  <2> QED
    BY <2>1, <2>2, <2>3, <2>4 DEF ProgramType
<1>4. SwapOK' /\ NamingOK'
  BY DEF StopsAt, Goto, SwapOK, NamingOK, Fixing
<1> QED
  BY <1>1, <1>2, <1>3, <1>4

CardType ==
  /\ progress \in {"missing", "empty", "fdisk_done", "resize2fs_done",
                   "rewrite_netfiles_done", "running"}
  /\ grown \in BOOLEAN /\ resized \in BOOLEAN
FlagType ==
  /\ rebooting \in BOOLEAN /\ started \in BOOLEAN
  /\ again \in BOOLEAN /\ ethRecent \in BOOLEAN

\* Steps that change neither files nor names, and end at another place.
LEMMA PlainStep ==
  ASSUME IInv, UNCHANGED <<links, netfiles, naming, fixing>>, pc' \in Places,
         pc' = pc \/ pc' \notin {"fix", "swap", "conf_open", "conf_write", "name"},
         CardType', WorldType', FlagType'
  PROVE  IInv'
<1> USE DEF IInv, TypeOK
<1>1. DiskType'
  BY DEF DiskType, CardType, netfiles
<1>2. WorldType'
  OBVIOUS
<1>3. ProgramType'
  BY DEF ProgramType, FlagType, naming, fixing
<1>4. SwapOK' /\ NamingOK'
  BY DEF SwapOK, NamingOK, Fixing, Copied, netfiles, naming, fixing
<1> QED
  BY <1>1, <1>2, <1>3, <1>4

LEMMA Typed == ASSUME IInv PROVE CardType /\ WorldType /\ FlagType
<1>1. CardType /\ WorldType
  BY DEF IInv, TypeOK, DiskType, CardType
<1>2. FlagType
  BY DEF IInv, TypeOK, ProgramType, FlagType
<1> QED
  BY <1>1, <1>2

LEMMA CardKept == ASSUME CardType, UNCHANGED card PROVE CardType'
BY DEF CardType, card

LEMMA WorldKept == ASSUME WorldType, UNCHANGED <<num, radio, others, faults>> PROVE WorldType'
BY DEF WorldType, others

LEMMA FlagsKept ==
  ASSUME FlagType, UNCHANGED <<rebooting, started, again, ethRecent>> PROVE FlagType'
BY DEF FlagType

LEMMA WorldInv == ASSUME IInv, World PROVE IInv'
<1>1. Fault => faults' \in 0 .. MaxFaults
  BY Constants DEF Fault, IInv, TypeOK, WorldType
<1>2. ASSUME NEW present \in SUBSET Wifi, num' \in Names(present)
      PROVE  num' \in [Wifi -> Adapters]
  BY <1>2 DEF Names, Adapters
<1>3. CASE Reboot \/ PowerCut \/ Killed
  <2>1. /\ faults' \in 0 .. MaxFaults
        /\ UNCHANGED <<card, links, netfiles, num, radio, others, rebooting>>
        /\ \E place \in {"off", "dead"} : StopsAt(place)
    BY <1>1, <1>3 DEF Reboot, PowerCut, Killed, IInv, TypeOK, WorldType
  <2>2. /\ rebooting' \in BOOLEAN /\ grown' \in BOOLEAN /\ pm2' \in BOOLEAN
        /\ radio' \in {"up", "hostapd", "ifup"}
        /\ UNCHANGED <<progress, resized, eth>>
    BY <2>1, Typed DEF CardType, WorldType, FlagType, card, others
  <2> QED
    BY <2>1, <2>2, StopInv
<1>4. CASE PowerOn
  <2>1. WorldType'
    <3>1. faults' \in 0 .. MaxFaults /\ num' \in [Wifi -> Adapters]
      BY <1>2, <1>4, Typed DEF PowerOn, WorldType
    <3>2. radio' = "ifup" /\ eth' = "ok" /\ pm2' = FALSE
      BY <1>4 DEF PowerOn
    <3> QED
      BY <3>1, <3>2 DEF WorldType
  <2>2. FlagType'
    BY <1>4, Typed DEF PowerOn, FlagType, local
  <2>3. UNCHANGED <<card, links, netfiles, naming, fixing>> /\ pc' = "start"
    BY <1>4 DEF PowerOn, Goto, local
  <2> QED
    BY <2>1, <2>2, <2>3, Typed, CardKept, PlainStep DEF Places
<1>5. CASE Restart
  <2>1. /\ UNCHANGED <<card, links, netfiles, num, radio, others, faults, rebooting, started,
                       naming, fixing, again, ethRecent>>
        /\ pc' = "start"
    BY <1>5 DEF Restart, Goto, local
  <2> QED
    BY <2>1, Typed, CardKept, WorldKept, FlagsKept, PlainStep DEF Places
<1>6. CASE Replug \/ RadioFails \/ EthFails \/ EthAnswers \/ FiveMinutes \/ Pm2Stops
  <2>1. UNCHANGED <<card, links, netfiles, naming, fixing, pc, rebooting, started, again>>
    BY <1>6 DEF Replug, RadioFails, EthFails, EthAnswers, FiveMinutes, Pm2Stops, local
  <2>2. ethRecent' \in {ethRecent, FALSE} /\ pm2' \in {pm2, FALSE}
    BY <1>6 DEF Replug, RadioFails, EthFails, EthAnswers, FiveMinutes, Pm2Stops, local, others
  <2>3. faults' \in 0 .. MaxFaults
    BY <1>1, <1>6, Typed DEF Replug, RadioFails, EthFails, EthAnswers, FiveMinutes, Pm2Stops,
       WorldType
  <2>4. /\ num' \in [Wifi -> Adapters] /\ radio' \in {"up", "hostapd", "ifup"}
        /\ eth' \in {"ok", "asking", "stuck"}
    BY <1>2, <1>6, Typed DEF Replug, RadioFails, EthFails, EthAnswers, FiveMinutes, Pm2Stops,
       WorldType, others
  <2>5. WorldType'
    BY <2>2, <2>3, <2>4, Typed DEF WorldType
  <2>6. FlagType'
    BY <2>1, <2>2, Typed DEF FlagType
  <2>7. pc \in Places
    BY DEF IInv, TypeOK, ProgramType
  <2> QED
    BY <2>1, <2>5, <2>6, <2>7, Typed, CardKept, PlainStep
<1> QED
  BY <1>3, <1>4, <1>5, <1>6 DEF World

LEMMA ExpansionInv == ASSUME IInv, Expansion \/ FdiskTimesOut PROVE IInv'
<1>1. CASE FdiskTimesOut
  <2>1. /\ UNCHANGED <<progress, resized, links, netfiles, num, radio, others, rebooting>>
        /\ StopsAt("dead") /\ grown' \in {grown, TRUE} /\ Fault
    BY <1>1 DEF FdiskTimesOut
  <2>2. /\ rebooting' \in BOOLEAN /\ grown' \in BOOLEAN /\ pm2' \in BOOLEAN
        /\ radio' \in {"up", "hostapd", "ifup"}
        /\ UNCHANGED eth
    BY <2>1, Typed DEF CardType, WorldType, FlagType, others
  <2>3. faults' \in 0 .. MaxFaults
    BY <2>1, Typed, Constants DEF Fault, WorldType
  <2> QED
    BY <2>1, <2>2, <2>3, StopInv
<1>2. CASE Expansion
  <2>1. UNCHANGED <<links, netfiles, num, radio, others, faults, started, naming, fixing, again,
                    ethRecent>>
    BY <1>2 DEF Expansion, ReadProgress, Fdisk, Resize, OpenProgress, WriteProgress, FdiskDone, ExpansionReboot,
       From, Step, local
  <2>2. rebooting' \in {rebooting, TRUE} /\ grown' \in {grown, TRUE} /\ resized' \in {resized, TRUE}
    BY <1>2 DEF Expansion, ReadProgress, Fdisk, Resize, OpenProgress, WriteProgress, FdiskDone, ExpansionReboot, card
  <2>3. progress' \in {"missing", "empty", "fdisk_done", "resize2fs_done",
                       "rewrite_netfiles_done", "running"}
    BY <1>2, Typed DEF Expansion, ReadProgress, Fdisk, Resize, OpenProgress, WriteProgress,
       FdiskDone, ExpansionReboot, card, CardType
  <2>4. pc' \in {"fdisk", "resize", "names", "fdisk_open", "resize_open", "fdisk_write",
                 "resize_write", "netfiles_write", "running_write", "up", "services"}
    BY <1>2 DEF Expansion, ReadProgress, Fdisk, Resize, OpenProgress, WriteProgress,
       FdiskDone, ExpansionReboot, From, Step, Goto
  <2>5. CardType' /\ FlagType'
    BY <2>1, <2>2, <2>3, Typed DEF CardType, FlagType
  <2> QED
    BY <2>1, <2>4, <2>5, Typed, WorldKept, PlainStep DEF Places
<1> QED
  BY <1>1, <1>2

\* Names that are numbers are told apart, and an adapter still to be named has none.
LEMMA NamesInv == ASSUME IInv, SetNetworkNames PROVE IInv'
<1> USE DEF IInv, TypeOK
<1>1. CASE LookAtNames
  <2>1. /\ pc' = "name" /\ UNCHANGED <<card, links, netfiles, num, radio, others, faults, rebooting,
                                       started, local>>
        /\ todo' = {w \in Wifi : num[w] = Odd} /\ taken' = {num[w] : w \in Standard}
        /\ wrote' = FALSE
    BY <1>1 DEF LookAtNames, From, Step, Goto
  <2>2. DiskType' /\ WorldType'
    BY <2>1 DEF DiskType, WorldType, card, netfiles, others
  <2>3. todo' \subseteq Wifi /\ taken' \subseteq Nums
    BY <2>1 DEF Standard
  <2>4. ProgramType'
    BY <2>1, <2>3 DEF ProgramType, local, fixing, Places
  <2>5. SwapOK'
    BY <2>1 DEF SwapOK, Fixing
  <2>6. NamingOK'
    <3>1. IsFiniteSet(Standard) /\ IsFiniteSet(todo')
      BY <2>3, Constants, FS_Subset DEF Standard
    <3>2. IsFiniteSet(taken') /\ Cardinality(taken') <= Cardinality(Standard)
      <4> DEFINE f == [w \in Standard |-> num[w]]
      <4>1. f \in Surjection(Standard, taken')
        BY <2>1 DEF Surjection
      <4> QED
        BY <3>1, <4>1, FS_Surjection
    <3>3. Standard \cap todo' = {}
      BY <2>1, Constants DEF Standard
    <3>4. /\ IsFiniteSet(Standard \cup todo')
          /\ Cardinality(Standard \cup todo') = Cardinality(Standard) + Cardinality(todo')
      <4>1. /\ IsFiniteSet(Standard \cup todo')
            /\ Cardinality(Standard \cup todo')
                 = Cardinality(Standard) + Cardinality(todo') - Cardinality(Standard \cap todo')
        BY <3>1, FS_Union
      <4>2. Cardinality(Standard \cap todo') = 0
        BY <3>3, FS_EmptySet
      <4>3. Cardinality(Standard) \in Nat /\ Cardinality(todo') \in Nat
        BY <3>1, FS_CardinalityType
      <4> QED
        BY <4>1, <4>2, <4>3
    <3>5. Cardinality(Standard \cup todo') <= Cardinality(Wifi)
      BY <2>3, Constants, FS_Subset DEF Standard
    <3>6. Cardinality(Standard) \in Nat /\ Cardinality(todo') \in Nat /\ Cardinality(taken') \in Nat
      BY <3>1, <3>2, FS_CardinalityType
    <3> QED
      BY <3>2, <3>4, <3>5, <3>6, Constants DEF NamingOK
  <2> QED
    BY <2>2, <2>4, <2>5, <2>6
<1>2. ASSUME NEW w \in Wifi, NameAdapter(w) PROVE IInv'
  <2>1. /\ pc = "name" /\ pc' = "name" /\ w \in todo /\ todo' = todo \ {w}
        /\ UNCHANGED <<card, netfiles, num, radio, others, faults, rebooting, started, local>>
    BY <1>2 DEF NameAdapter, From, Step, Goto
  <2>2. /\ IsFiniteSet(todo) /\ IsFiniteSet(taken)
        /\ Cardinality(todo) \in Nat /\ Cardinality(taken) \in Nat
        /\ Cardinality(taken) + Cardinality(todo) <= Cardinality(Wifi)
    <3>1. IsFiniteSet(todo)
      BY Constants, FS_Subset DEF ProgramType
    <3> QED
      BY <2>1, <3>1, FS_CardinalityType DEF NamingOK
  <2>3. IsFiniteSet(todo') /\ Cardinality(todo') = Cardinality(todo) - 1
    BY <2>1, <2>2, FS_RemoveElement
  <2>4. FreeNumber \in Nums \ taken
    <3>1. Cardinality(todo) # 0
      BY <2>1, <2>2, FS_EmptySet
    <3> QED
      BY <2>2, <3>1, Constants, FreeNumberFree DEF ProgramType
  <2>5. IsFiniteSet(taken \cup {FreeNumber})
        /\ Cardinality(taken \cup {FreeNumber}) = Cardinality(taken) + 1
    BY <2>2, <2>4, FS_AddElement
  <2>6. /\ taken' \in {taken, taken \cup {FreeNumber}}
        /\ wrote' \in BOOLEAN
        /\ links' \in {links, [links EXCEPT ![w] = @ \cup {FreeNumber}]}
    BY <1>2 DEF NameAdapter, ProgramType
  <2>7. DiskType'
    <3>1. links' \in [Wifi -> SUBSET Nums]
      BY <2>4, <2>6 DEF DiskType
    <3> QED
      BY <2>1, <3>1 DEF DiskType, card, netfiles
  <2>8. WorldType'
    BY <2>1 DEF WorldType, others
  <2>9. ProgramType'
    BY <2>1, <2>4, <2>6 DEF ProgramType, local, fixing
  <2>10. SwapOK'
    BY <2>1 DEF SwapOK, Fixing
  <2>11. NamingOK'
    BY <2>2, <2>3, <2>5, <2>6, Constants DEF NamingOK
  <2> QED
    BY <2>7, <2>8, <2>9, <2>10, <2>11
<1>3. CASE EndNames
  <2>1. /\ pc' = "class" /\ taken' = {} /\ wrote' = FALSE /\ rebooting' \in BOOLEAN
        /\ UNCHANGED <<card, links, netfiles, num, radio, others, faults, todo, started, local>>
    BY <1>3 DEF EndNames, From, Step, Goto, ProgramType
  <2>2. DiskType' /\ WorldType'
    BY <2>1 DEF DiskType, WorldType, card, netfiles, others
  <2>3. ProgramType'
    BY <2>1 DEF ProgramType, local, fixing, Places
  <2>4. SwapOK' /\ NamingOK'
    BY <2>1 DEF SwapOK, NamingOK, Fixing
  <2> QED
    BY <2>2, <2>3, <2>4
<1> QED
  BY <1>1, <1>2, <1>3 DEF SetNetworkNames

LEMMA ClassInv == ASSUME IInv, GetNetworkClass PROVE IInv'
<1> USE DEF IInv, TypeOK
<1>1. UNCHANGED <<card, links, netfiles, num, faults, started, rebooting, naming, swapped,
                  tmpDenied, again, ethRecent>>
  BY DEF GetNetworkClass, NoClass, FindClass, BringUp, From, Step
<1>2. /\ roles' \in [ap : Nums \cup {Nobody}, ci : Nums \cup {Nobody}]
      /\ pc' \in Places \ {"swap", "conf_open", "conf_write", "name"}
      /\ pc' = "fix" => roles'.ap \in Nums
      /\ changed' \in BOOLEAN /\ radio' \in {"up", "hostapd", "ifup"}
      /\ eth' \in {"ok", "asking", "stuck"} /\ pm2' = pm2
  <2>1. CASE NoClass
    BY <2>1 DEF NoClass, From, Step, Goto, NoRoles, Blank, Places, ProgramType, WorldType, others
  <2>2. CASE FindClass
    <3>1. roles' \in [ap : Nums, ci : Nums \cup {Nobody}]
      BY <2>2, RolesType DEF FindClass
    <3> QED
      BY <2>2, <3>1 DEF FindClass, From, Step, Goto, Places, ProgramType, WorldType, others
  <2>3. CASE BringUp
    BY <2>3 DEF BringUp, Step, Goto, Places, ProgramType, WorldType
  <2> QED
    BY <2>1, <2>2, <2>3 DEF GetNetworkClass
<1>3. DiskType'
  BY <1>1 DEF DiskType, card, netfiles
<1>4. WorldType'
  BY <1>1, <1>2 DEF WorldType
<1>5. ProgramType'
  BY <1>1, <1>2 DEF ProgramType, naming
<1>6. SwapOK' /\ NamingOK'
  BY <1>2 DEF SwapOK, NamingOK, Fixing
<1> QED
  BY <1>3, <1>4, <1>5, <1>6

\* One move, or one copy.
LEMMA SwapStep ==
  ASSUME IInv, SwapFile
  PROVE  /\ served' \in [Served -> Nums \cup {0, Missing}] /\ denied' \in Wlan
         /\ swapped' \in 0 .. 8
         /\ SwapOK'
<1> USE DEF IInv, TypeOK
<1>1. /\ swapped \in 0 .. 7 /\ swapped' = swapped + 1 /\ roles.ap \in Nums /\ roles' = roles
      /\ pc = "swap" /\ pc' = IF swapped = 7 THEN "conf_open" ELSE "swap"
      /\ \A f \in Copied : served[f] = roles.ap
  BY DEF SwapFile, From, Step, Goto, SwapOK, Fixing
<1>2. /\ served' = [f \in Served |-> IF f # SwapOrder[swapped + 1] THEN served[f]
                                     ELSE IF swapped >= 4 THEN roles.ap ELSE Missing]
      /\ denied' \in {denied, tmpDenied, Missing}
  BY DEF SwapFile
<1>3. served' \in [Served -> Nums \cup {0, Missing}]
  BY <1>1, <1>2 DEF DiskType
<1>4. denied' \in Wlan
  BY <1>2 DEF DiskType, ProgramType, Wlan
<1>5. \A f \in Copied' : served'[f] = roles.ap
  <2> SUFFICES ASSUME NEW f \in Copied' PROVE served'[f] = roles.ap
    OBVIOUS
  <2>1. f \in Served
    BY DEF Copied, Served
  <2>2. CASE f \in Copied
    BY <1>1, <1>2, <2>1, <2>2 DEF Copied
  <2>3. CASE f \notin Copied
    <3>1. swapped >= 4 /\ f = SwapOrder[swapped + 1]
      BY <1>1, <2>3 DEF Copied, SwapOrder
    <3> QED
      BY <1>1, <1>2, <2>1, <3>1
  <2> QED
    BY <2>2, <2>3
<1>6. swapped = 7 => Copied' = Served
  BY <1>1 DEF Copied, Served
<1> QED
  BY <1>1, <1>3, <1>4, <1>5, <1>6 DEF SwapOK, Fixing

LEMMA FixInv == ASSUME IInv, FixFiles PROVE IInv'
<1> USE DEF IInv, TypeOK
<1>1. CASE FixCrashes
  BY <1>1, StopInv DEF FixCrashes, Crashes, card, others, DiskType, WorldType, ProgramType
<1>2. CASE CopyCrashes
  BY <1>2, StopInv DEF CopyCrashes, card, others, DiskType, WorldType, ProgramType
<1>3. CASE AlreadyFixed \/ WriteTmpFiles \/ SwapFile \/ WriteConf
  <2>1. UNCHANGED <<card, links, num, others, faults, started, rebooting, naming, roles, again,
                    ethRecent>>
    BY <1>3 DEF AlreadyFixed, WriteTmpFiles, SwapFile, WriteConf, From, Step
  <2>2. roles.ap \in Nums /\ pc' \in Places \ {"name"} /\ changed' \in BOOLEAN
        /\ radio' \in {"up", "hostapd", "ifup"}
    BY <1>3 DEF AlreadyFixed, WriteTmpFiles, SwapFile, WriteConf, From, Step, Goto, SwapOK,
       Fixing, Places, ProgramType, WorldType
  <2>3. /\ served' \in [Served -> Nums \cup {0, Missing}] /\ denied' \in Wlan
        /\ swapped' \in 0 .. 8
        /\ SwapOK'
    <3>1. CASE SwapFile
      BY <3>1, SwapStep
    <3>2. CASE AlreadyFixed
      BY <3>2 DEF AlreadyFixed, From, Step, Goto, netfiles, SwapOK, Fixing, DiskType, ProgramType
    <3>3. CASE WriteTmpFiles
      BY <3>3 DEF WriteTmpFiles, From, Step, Goto, netfiles, SwapOK, Fixing, Copied, DiskType,
         ProgramType
    <3>4. CASE WriteConf
      BY <3>4 DEF WriteConf, From, Step, Goto, SwapOK, Fixing, DiskType, ProgramType
    <3> QED
      BY <1>3, <3>1, <3>2, <3>3, <3>4
  <2>4. conf' \in [ap : Number, ci : Number]
    BY <1>3 DEF AlreadyFixed, WriteTmpFiles, SwapFile, WriteConf, netfiles, Empty, Number,
       DiskType, ProgramType
  <2>5. tmpDenied' \in Wlan
    BY <1>3 DEF AlreadyFixed, WriteTmpFiles, SwapFile, WriteConf, NewDenied, Wlan, ProgramType
  <2>6. DiskType'
    BY <2>1, <2>3, <2>4 DEF DiskType, card
  <2>7. WorldType'
    BY <2>1, <2>2 DEF WorldType, others
  <2>8. ProgramType'
    BY <2>1, <2>2, <2>3, <2>5 DEF ProgramType, naming
  <2>9. NamingOK'
    BY <2>2 DEF NamingOK
  <2> QED
    BY <2>3, <2>6, <2>7, <2>8, <2>9
<1> QED
  BY <1>1, <1>2, <1>3 DEF FixFiles

LEMMA RestInv ==
  ASSUME IInv, RunMode \/ CheckPm2 \/ CheckServices \/ WatchAp \/ NoApCrashes \/ WatchEth
  PROVE  IInv'
<1>1. CASE NoApCrashes
  <2>1. /\ UNCHANGED <<card, links, netfiles, num, radio, others, faults, rebooting>>
        /\ StopsAt("dead")
    BY <1>1 DEF NoApCrashes, Crashes
  <2>2. /\ rebooting' \in BOOLEAN /\ grown' \in BOOLEAN /\ pm2' \in BOOLEAN
        /\ radio' \in {"up", "hostapd", "ifup"} /\ faults' \in 0 .. MaxFaults
        /\ UNCHANGED <<progress, resized, eth>>
    BY <2>1, Typed DEF CardType, WorldType, FlagType, card, others
  <2> QED
    BY <2>1, <2>2, StopInv
<1>2. CASE RunMode \/ CheckPm2 \/ CheckServices \/ WatchAp \/ WatchEth
  <2>1. UNCHANGED <<card, links, netfiles, num, faults, rebooting, naming, fixing>>
    BY <1>2 DEF RunMode, CheckPm2, CheckServices, CheckNetworking, CheckApServices,
       CheckEthService, CheckClientService, ServicesEnd, WatchAp, WatchEth, From, Step, local
  <2>2. /\ started' \in {started, TRUE} /\ again' \in {again, TRUE, FALSE}
        /\ ethRecent' \in {ethRecent, TRUE} /\ pm2' \in {pm2, TRUE}
        /\ eth' \in {eth, "asking"}
    BY <1>2 DEF RunMode, CheckPm2, CheckServices, CheckNetworking, CheckApServices,
       CheckEthService, CheckClientService, ServicesEnd, WatchAp, WatchEth, From, Step, local,
       others
  <2>3. radio' \in {radio, "up"}
    BY <1>2 DEF RunMode, CheckPm2, CheckServices, CheckNetworking, CheckApServices, Restores,
       CheckEthService, CheckClientService, ServicesEnd, WatchAp, RestartHostapd, WatchEth
  <2>4. pc' \in {"pm2", "loop", "running_open", "services", "services_ap", "services_eth0",
                 "services_client", "eth0", "hostapd", "hostapd_done", "ifup", "ifup_done", "class"}
    BY <1>2 DEF RunMode, CheckPm2, CheckServices, CheckNetworking, CheckApServices,
       CheckEthService, CheckClientService, ServicesEnd, WatchAp, WatchEth, From, Step, Goto
  <2>5. WorldType'
    BY <2>1, <2>2, <2>3, Typed DEF WorldType
  <2>6. FlagType'
    BY <2>1, <2>2, Typed DEF FlagType
  <2> QED
    BY <2>1, <2>4, <2>5, <2>6, Typed, CardKept, PlainStep DEF Places
<1> QED
  BY <1>1, <1>2

THEOREM IInvStep == IInv /\ [Next]_vars => IInv'
<1> SUFFICES ASSUME IInv, [Next]_vars PROVE IInv'
  OBVIOUS
<1>1. CASE UNCHANGED vars
  <2>1. pc \in Places
    BY DEF IInv, TypeOK, ProgramType
  <2> QED
    BY <1>1, <2>1, Typed, CardKept, WorldKept, FlagsKept, PlainStep DEF vars, local
<1> QED
  BY <1>1, WorldInv, ExpansionInv, NamesInv, ClassInv, FixInv, RestInv DEF Next, Program

\* Every variable keeps its type: setNetworkNames finds a number for every
\* adapter, and fixfiles never writes the roles of a getNetworkClass that found
\* none.
THEOREM TypeCorrect == Spec => []TypeOK
<1>1. IInv => TypeOK
  BY DEF IInv
<1> QED
  BY InitInv, IInvStep, <1>1, PTL DEF Spec

-----------------------------------------------------------------------------
\* What the program is about to record has been done.
RecordOK ==
  /\ ProgressTrue
  /\ pc \in {"fdisk_open", "fdisk_write"} => grown
  /\ pc \in {"resize_open", "resize_write"} => resized
  /\ pc = "resize" => progress = "fdisk_done"

LEMMA RecordStep == RecordOK /\ [Next]_vars => RecordOK'
<1> SUFFICES ASSUME RecordOK, [Next]_vars PROVE RecordOK'
  OBVIOUS
<1> USE DEF RecordOK, ProgressTrue, card
<1>1. ASSUME UNCHANGED card,
             pc' = pc \/ pc' \notin {"fdisk_open", "fdisk_write", "resize_open", "resize_write",
                                     "resize"}
      PROVE  RecordOK'
  BY <1>1
<1>2. CASE World
  BY <1>1, <1>2 DEF World, PowerOn, Reboot, PowerCut, Killed, Restart, Replug, RadioFails,
     EthFails, EthAnswers, FiveMinutes, Pm2Stops, StopsAt, Goto
<1>3. CASE ReadProgress
  BY <1>3 DEF ReadProgress, From, Step, Goto
<1>4. CASE Fdisk \/ Resize
  BY <1>4 DEF Fdisk, Resize, From, Step, Goto
<1>5. CASE OpenProgress \/ WriteProgress
  BY <1>5 DEF OpenProgress, WriteProgress, FdiskDone, ExpansionReboot, From, Step, Goto
<1>6. CASE FdiskTimesOut
  <2>1. /\ pc' = "dead" /\ UNCHANGED <<progress, resized>>
        /\ grown' = grown \/ grown' = TRUE
    BY <1>6 DEF FdiskTimesOut, StopsAt, Goto
  <2>2. CASE grown' = TRUE
    BY <2>1, <2>2
  <2>3. CASE grown' = grown
    BY <2>1, <2>3
  <2> QED
    BY <2>1, <2>2, <2>3
<1>7. CASE SetNetworkNames \/ GetNetworkClass
  BY <1>1, <1>7 DEF SetNetworkNames, GetNetworkClass, LookAtNames, NameAdapter, EndNames, NoClass,
     FindClass, BringUp, From, Step, Goto
<1>8. CASE FixFiles
  BY <1>1, <1>8 DEF FixFiles, AlreadyFixed, FixCrashes, CopyCrashes, Crashes, WriteTmpFiles,
     SwapFile, WriteConf, StopsAt, From, Step, Goto
<1>9. CASE RunMode \/ CheckPm2 \/ CheckServices
  BY <1>1, <1>9 DEF RunMode, CheckPm2, CheckServices, CheckNetworking, CheckApServices,
     CheckEthService, CheckClientService, ServicesEnd, From, Step, Goto
<1>10. CASE WatchAp \/ NoApCrashes \/ WatchEth
  BY <1>1, <1>10 DEF WatchAp, NoApCrashes, WatchEth, Crashes, StopsAt, From, Step, Goto
<1>11. CASE UNCHANGED vars
  BY <1>1, <1>11 DEF vars
<1> QED
  BY <1>2, <1>3, <1>4, <1>5, <1>6, <1>7, <1>8, <1>9, <1>10, <1>11 DEF Next, Program, Expansion

\* expand_progress.txt never says of the card what is not so: after a power cut, a
\* kill or an fdisk prompt that does not come, at any step of do_fdisk and
\* do_resize2fs, the next boot resizes only a partition that has grown and is
\* done only when the file system has.
THEOREM ProgressStaysTrue == Spec => []ProgressTrue
<1>1. Init => RecordOK
  BY DEF Init, RecordOK, ProgressTrue
<1>2. RecordOK => ProgressTrue
  BY DEF RecordOK
<1> QED
  BY RecordStep, <1>1, <1>2, PTL DEF Spec

-----------------------------------------------------------------------------
\* Outside fixfiles the files name the roles that getNetworkClass found last.
FilesFollow ==
  roles # NoRoles /\ ~Fixing => conf = roles /\ \A f \in Served : served[f] = roles.ap

LEMMA FollowStep == IInv /\ FilesFollow /\ [Next]_vars => FilesFollow'
<1> SUFFICES ASSUME IInv, FilesFollow, [Next]_vars PROVE FilesFollow'
  OBVIOUS
<1>1. ASSUME UNCHANGED <<netfiles, roles>>, Fixing => Fixing'
      PROVE  FilesFollow'
  BY <1>1 DEF FilesFollow, netfiles
<1>2. ASSUME NEW place, StopsAt(place)
      PROVE  FilesFollow'
  BY <1>2 DEF FilesFollow, StopsAt
<1>3. CASE World
  <2>1. CASE Reboot \/ PowerCut \/ Killed
    BY <1>2, <2>1 DEF Reboot, PowerCut, Killed
  <2>2. CASE PowerOn \/ Restart \/ Replug \/ RadioFails \/ EthFails \/ EthAnswers \/ FiveMinutes
             \/ Pm2Stops
    BY <1>1, <2>2 DEF PowerOn, Restart, Replug, RadioFails, EthFails, EthAnswers, FiveMinutes,
       Pm2Stops, Goto, Fixing, local, fixing
  <2> QED
    BY <1>3, <2>1, <2>2 DEF World
<1>4. CASE Expansion \/ FdiskTimesOut
  BY <1>1, <1>2, <1>4 DEF Expansion, ReadProgress, Fdisk, Resize, OpenProgress, WriteProgress,
     FdiskDone, ExpansionReboot, FdiskTimesOut, From, Step, Goto, Fixing, local, fixing
<1>5. CASE SetNetworkNames
  BY <1>1, <1>5 DEF SetNetworkNames, LookAtNames, NameAdapter, EndNames, From, Step, Goto, Fixing,
     local, fixing
<1>6. CASE GetNetworkClass
  <2>1. CASE NoClass
    BY <2>1 DEF NoClass, FilesFollow
  <2>2. CASE FindClass
    BY <2>2 DEF FindClass, From, Step, Goto, FilesFollow, Fixing
  <2>3. CASE BringUp
    BY <1>1, <2>3 DEF BringUp, Step, Goto, Fixing
  <2> QED
    BY <1>6, <2>1, <2>2, <2>3 DEF GetNetworkClass
<1>7. CASE FixFiles
  <2>1. CASE FixCrashes \/ CopyCrashes
    BY <1>2, <2>1 DEF FixCrashes, CopyCrashes, Crashes
  <2>2. CASE AlreadyFixed
    BY <2>2 DEF AlreadyFixed, FilesMatch, FilesFollow, netfiles
  <2>3. CASE WriteTmpFiles \/ SwapFile
    BY <2>3 DEF WriteTmpFiles, SwapFile, From, Step, Goto, FilesFollow, Fixing
  <2>4. CASE WriteConf
    BY <2>4 DEF WriteConf, From, Step, Goto, FilesFollow, Fixing, IInv, SwapOK
  <2> QED
    BY <1>7, <2>1, <2>2, <2>3, <2>4 DEF FixFiles
<1>8. CASE RunMode \/ CheckPm2 \/ WatchAp \/ WatchEth \/ NoApCrashes
  BY <1>1, <1>2, <1>8 DEF RunMode, CheckPm2, WatchAp, WatchEth, NoApCrashes, Crashes, From, Step,
     Goto, Fixing, local, fixing
<1>9. CASE CheckServices
  BY <1>1, <1>9 DEF CheckServices, CheckNetworking, CheckApServices, CheckEthService,
     CheckClientService, ServicesEnd, From, Step, Goto, Fixing, local, fixing
<1>10. CASE UNCHANGED vars
  BY <1>1, <1>10 DEF vars, local, fixing, Fixing
<1> QED
  BY <1>3, <1>4, <1>5, <1>6, <1>7, <1>8, <1>9, <1>10 DEF Next, Program

\* When the main loop is reached with roles found, wificonf.txt, interfaces,
\* hostapd.conf and dnsmasq.conf all name the access point, wherever an earlier
\* fixfiles was cut short: it writes wificonf.txt last, and compares all four.
THEOREM FilesStayInStep == Spec => []FilesInStep
<1>1. Init => FilesFollow
  BY DEF Init, FilesFollow
<1>2. FilesFollow => FilesInStep
  BY DEF FilesFollow, FilesInStep, Fixing
<1> QED
  BY InitInv, IInvStep, FollowStep, <1>1, <1>2, PTL DEF Spec
=============================================================================
