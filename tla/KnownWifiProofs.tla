--------------------------- MODULE KnownWifiProofs ---------------------------
(***************************************************************************)
(* What TLAPS proves about KnownWifi, for any networks, any length of the  *)
(* list and any number of acts: the type invariant (neither the list nor   *)
(* the file outgrows KNOWN_WIFI_MAX), that only a network that really      *)
(* connected is remembered, that a check keeps the admin's own network,    *)
(* and that a wiped list stays wiped.                                      *)
(***************************************************************************)
EXTENDS KnownWifi, WellFoundedInduction, TLAPS

-----------------------------------------------------------------------------
\* Induction over the numbers, for a set instead of an operator.

LEMMA Least ==
  ASSUME NEW T \in SUBSET Nat, T # {}
  PROVE  \E x \in T : \A y \in T : x <= y
<1> DEFINE Less == {p \in Nat \X Nat : p[1] < p[2]}
<1>1. IsWellFoundedOn(Less, Nat)
  BY NatLessThanWellFounded DEF OpToRel
<1>2. \A x, y \in Nat : x < y => <<x, y>> \in Less
  OBVIOUS
<1> HIDE DEF Less
<1>3. PICK x \in T : \A y \in T : ~(<<y, x>> \in Less)
  BY <1>1, WFMin
<1>4. \A y \in T : x <= y
  <2> TAKE y \in T
  <2>1. x \in Nat /\ y \in Nat
    OBVIOUS
  <2>2. ~(y < x)
    BY <1>2, <1>3, <2>1
  <2> QED
    BY <2>1, <2>2
<1> QED
  BY <1>4

LEMMA Induction ==
  ASSUME NEW T \in SUBSET Nat, 0 \in T, \A n \in Nat : n \in T => n + 1 \in T
  PROVE  T = Nat
<1> SUFFICES ASSUME Nat \ T # {} PROVE FALSE
  OBVIOUS
<1>1. PICK x \in Nat \ T : \A y \in Nat \ T : x <= y
  BY Least
<1>2. x # 0 /\ x - 1 \in Nat
  BY <1>1
<1>3. x - 1 \in T
  BY <1>1, <1>2
<1> QED
  BY <1>1, <1>2, <1>3

-----------------------------------------------------------------------------
\* Lists

\* f is the recursive function in Without, up to index k.
Keeps(f, k, list, n) ==
  f = [i \in 0 .. k |->
         IF i = 0 THEN <<>>
         ELSE IF list[i].ssid # n THEN Append(f[i - 1], list[i]) ELSE f[i - 1]]

LEMMA KeepsValues ==
  ASSUME NEW f, NEW k \in Nat, NEW list, NEW n, Keeps(f, k, list, n)
  PROVE  /\ f[0] = <<>>
         /\ \A i \in 1 .. k : f[i] = IF list[i].ssid # n THEN Append(f[i - 1], list[i]) ELSE f[i - 1]
<1>1. f[0] = <<>>
  BY DEF Keeps
<1>2. \A i \in 1 .. k : f[i] = IF list[i].ssid # n THEN Append(f[i - 1], list[i]) ELSE f[i - 1]
  <2> TAKE i \in 1 .. k
  <2>1. i \in 0 .. k /\ i # 0
    OBVIOUS
  <2> QED
    BY <2>1 DEF Keeps
<1> QED
  BY <1>1, <1>2

LEMMA KeepsExists ==
  ASSUME NEW list, NEW n, NEW m \in Nat
  PROVE  \E f : Keeps(f, m, list, n)
<1> DEFINE T == {k \in Nat : \E f : Keeps(f, k, list, n)}
<1>1. 0 \in T
  <2> DEFINE f == [i \in 0 .. 0 |-> <<>>]
  <2>1. Keeps(f, 0, list, n)
    BY DEF Keeps
  <2> QED
    BY <2>1
<1>2. ASSUME NEW k \in Nat, k \in T
      PROVE  k + 1 \in T
  <2>1. PICK f : Keeps(f, k, list, n)
    BY <1>2
  <2> DEFINE last == IF list[k + 1].ssid # n THEN Append(f[k], list[k + 1]) ELSE f[k]
             g == [i \in 0 .. k + 1 |-> IF i = k + 1 THEN last ELSE f[i]]
  <2>2. \A i \in 0 .. k + 1 :
          g[i] = IF i = 0 THEN <<>>
                 ELSE IF list[i].ssid # n THEN Append(g[i - 1], list[i]) ELSE g[i - 1]
    <3> TAKE i \in 0 .. k + 1
    <3>1. CASE i = k + 1
      <4>1. g[i - 1] = f[k] /\ i # 0
        BY <3>1
      <4>2. g[i] = last
        BY <3>1
      <4> QED
        BY <3>1, <4>1, <4>2
    <3>2. CASE i = 0
      BY <2>1, <3>2, KeepsValues
    <3>3. CASE i \in 1 .. k
      <4>1. g[i] = f[i] /\ g[i - 1] = f[i - 1] /\ i # 0
        BY <3>3
      <4>2. f[i] = IF list[i].ssid # n THEN Append(f[i - 1], list[i]) ELSE f[i - 1]
        BY <2>1, <3>3, KeepsValues
      <4> QED
        BY <4>1, <4>2
    <3> QED
      BY <3>1, <3>2, <3>3
  <2>3. Keeps(g, k + 1, list, n)
    <3> DEFINE h == [i \in 0 .. k + 1 |->
                       IF i = 0 THEN <<>>
                       ELSE IF list[i].ssid # n THEN Append(g[i - 1], list[i]) ELSE g[i - 1]]
    <3>1. DOMAIN g = DOMAIN h /\ \A i \in DOMAIN g : g[i] = h[i]
      BY <2>2
    <3>2. g = h
      BY <3>1
    <3> QED
      BY <3>2 DEF Keeps
  <2> QED
    BY <2>3
<1> HIDE DEF T
<1>3. T = Nat
  BY <1>1, <1>2, Induction DEF T
<1> QED
  BY <1>3 DEF T

LEMMA WithoutSeq ==
  ASSUME NEW list \in Seq(Blocks), NEW n
  PROVE  /\ Without(list, n) \in Seq(Blocks)
         /\ Len(Without(list, n)) <= Len(list)
         /\ \A i \in 1 .. Len(Without(list, n)) : \E j \in 1 .. Len(list) : Without(list, n)[i] = list[j]
<1> DEFINE m == Len(list)
           F == CHOOSE f : Keeps(f, m, list, n)
<1>1. Keeps(F, m, list, n)
  BY KeepsExists
<1>2. Without(list, n) = F[m]
  BY DEF Without, Keeps
<1> HIDE DEF F
<1> DEFINE Good(s, k) == /\ s \in Seq(Blocks) /\ Len(s) <= k
                         /\ \A i \in 1 .. Len(s) : \E j \in 1 .. m : s[i] = list[j]
           T == {k \in Nat : k <= m => Good(F[k], k)}
<1>3. 0 \in T
  <2>1. F[0] = <<>>
    BY <1>1, KeepsValues
  <2>2. <<>> \in Seq(Blocks) /\ Len(<<>>) = 0
    OBVIOUS
  <2>3. Good(<<>>, 0)
    BY <2>2
  <2> HIDE DEF Good
  <2> QED
    BY <2>1, <2>3
<1>4. ASSUME NEW k \in Nat, k \in T
      PROVE  k + 1 \in T
  <2> SUFFICES ASSUME k + 1 <= m PROVE Good(F[k + 1], k + 1)
    OBVIOUS
  <2>1. Good(F[k], k)
    BY <1>4
  <2>2. F[k + 1] = IF list[k + 1].ssid # n THEN Append(F[k], list[k + 1]) ELSE F[k]
    <3>1. k + 1 \in 1 .. m /\ (k + 1) - 1 = k
      OBVIOUS
    <3> QED
      BY <1>1, <3>1, KeepsValues
  <2>3. list[k + 1] \in Blocks /\ k + 1 \in 1 .. m
    OBVIOUS
  <2>4. ASSUME NEW s, Good(s, k)
        PROVE  Good(s, k + 1) /\ Good(Append(s, list[k + 1]), k + 1)
    BY <2>3, <2>4
  <2> HIDE DEF Good
  <2> QED
    BY <2>1, <2>2, <2>4
<1>5. m \in T
  <2> HIDE DEF T
  <2>1. T = Nat
    BY <1>3, <1>4, Induction DEF T
  <2> QED
    BY <2>1
<1> QED
  BY <1>2, <1>5

\* What the list, the text and the file hold.
LEMMA BlockSeqIs ==
  /\ BlockSeqs = {s \in Seq(Blocks) : Len(s) <= MaxKnown}
  /\ <<>> \in BlockSeqs
  /\ MaxKnown \in Nat \ {0}
<1>1. MaxKnown \in Nat \ {0}
  BY WifiAssumption
<1>2. ASSUME NEW s \in BlockSeqs PROVE s \in Seq(Blocks) /\ Len(s) <= MaxKnown
  <2>1. PICK n \in 0 .. MaxKnown : s \in [1 .. n -> Blocks]
    BY DEF BlockSeqs
  <2> QED
    BY <1>1, <2>1
<1>3. ASSUME NEW s \in Seq(Blocks), Len(s) <= MaxKnown PROVE s \in BlockSeqs
  <2>1. s \in [1 .. Len(s) -> Blocks] /\ Len(s) \in 0 .. MaxKnown
    BY <1>1, <1>3
  <2> QED
    BY <2>1 DEF BlockSeqs
<1>4. <<>> \in Seq(Blocks) /\ Len(<<>>) = 0
  OBVIOUS
<1>5. <<>> \in BlockSeqs
  <2>1. Len(<<>>) <= MaxKnown
    BY <1>1, <1>4
  <2> QED
    BY <1>3, <1>4, <2>1, Zenon
<1> QED
  BY <1>1, <1>2, <1>3, <1>5

Loadable == UNION {[1 .. n -> Blocks] : n \in 1 .. MaxKnown + 1}

LEMMA FileLoadable ==
  ASSUME NEW o \in Blocks, NEW e \in BlockSeqs
  PROVE  FileBlocks(o, e) \in Loadable
<1>1. e \in Seq(Blocks) /\ Len(e) <= MaxKnown /\ MaxKnown \in Nat
  BY BlockSeqIs
<1>2. FileBlocks(o, e) \in Seq(Blocks) /\ Len(FileBlocks(o, e)) = Len(e) + 1
  BY <1>1 DEF FileBlocks
<1>3. /\ FileBlocks(o, e) \in [1 .. Len(e) + 1 -> Blocks]
      /\ Len(e) + 1 \in 1 .. MaxKnown + 1
  BY <1>1, <1>2
<1> QED
  BY <1>3 DEF Loadable

LEMMA WithoutType ==
  ASSUME NEW list \in BlockSeqs, NEW n
  PROVE  /\ Without(list, n) \in BlockSeqs
         /\ \A i \in DOMAIN Without(list, n) : \E j \in DOMAIN list : Without(list, n)[i] = list[j]
<1>1. list \in Seq(Blocks) /\ Len(list) <= MaxKnown /\ MaxKnown \in Nat
  BY BlockSeqIs
<1>2. /\ Without(list, n) \in Seq(Blocks)
      /\ Len(Without(list, n)) <= Len(list)
      /\ \A i \in 1 .. Len(Without(list, n)) : \E j \in 1 .. Len(list) : Without(list, n)[i] = list[j]
  BY <1>1, WithoutSeq
<1>3. Without(list, n) \in BlockSeqs
  BY <1>1, <1>2, BlockSeqIs
<1> QED
  BY <1>1, <1>2, <1>3

\* The network that was learnt comes first.
LEMMA RememberType ==
  ASSUME NEW b \in Blocks, NEW list \in BlockSeqs
  PROVE  /\ Remember(b, list) \in BlockSeqs
         /\ Remember(b, list)[1] = b
<1> DEFINE rest == Without(list, b.ssid)
           all == <<b>> \o rest
<1>1. rest \in Seq(Blocks)
  BY WithoutType, BlockSeqIs
<1> HIDE DEF rest
<1>2. all \in Seq(Blocks) /\ all[1] = b /\ Len(all) >= 1 /\ Len(all) \in Nat
  BY <1>1
<1> HIDE DEF all
<1>3. MaxKnown \in Nat \ {0}
  BY BlockSeqIs
<1>4. ASSUME NEW k \in Nat, 1 <= k, k <= Len(all), k <= MaxKnown
      PROVE  SubSeq(all, 1, k) \in BlockSeqs /\ SubSeq(all, 1, k)[1] = b
  <2>1. SubSeq(all, 1, k) \in Seq(Blocks) /\ Len(SubSeq(all, 1, k)) = k
    BY <1>2, <1>4
  <2>2. SubSeq(all, 1, k)[1] = b
    BY <1>2, <1>4
  <2> QED
    BY <1>4, <2>1, <2>2, BlockSeqIs
<1>5. Take(all, MaxKnown) \in BlockSeqs /\ Take(all, MaxKnown)[1] = b
  BY <1>2, <1>3, <1>4 DEF Take
<1> QED
  BY <1>5 DEF Remember, all, rest

-----------------------------------------------------------------------------
\* The type invariant, in the parts that the actions change together.
FileType ==
  /\ own \in Blocks /\ extra \in BlockSeqs /\ known \in BlockSeqs
  /\ upTo \in {"wpa", "write", "none"} /\ soon \in {"wpa", "write", "none"}
LinkType ==
  /\ loaded \in Loadable
  /\ now \in 0 .. Len(loaded)
  /\ lease \in Names /\ asking \in BOOLEAN
  /\ iface \in {"up", "down", "deaf", "hung"} /\ ifup \in BOOLEAN
  /\ recent \subseteq {"dhcp_refresh", "ci_restart"}
  /\ acts \in 0 .. MaxActs
CheckType ==
  /\ lastNet \in Names /\ seen \in BOOLEAN /\ tested \subseteq Nets
  /\ pc \in {"idle", "status", "test", "write", "reconfigure"}
  /\ text \in [own : Blocks, extra : BlockSeqs] /\ entries \in BlockSeqs
  /\ block \in Blocks /\ learnt \in BOOLEAN
GhostType ==
  disturbed \in {"wipe", "files", "link", "nothing"} /\ early \in BOOLEAN /\ misread \in BOOLEAN

LEMMA TypeParts == TypeOK <=> FileType /\ LinkType /\ CheckType /\ GhostType
BY DEF TypeOK, FileType, LinkType, CheckType, GhostType, Loadable

\* A network under test has a name.
TestOK == pc = "test" => block.ssid \in Nets

IInv == FileType /\ LinkType /\ CheckType /\ GhostType /\ TestOK

LEMMA Constants ==
  /\ None \notin Nets /\ Online \subseteq Nets /\ First \in Names
  /\ MaxKnown \in Nat \ {0} /\ MaxActs \in Nat
  /\ Wiped \in Blocks /\ Nothing \in [own : Blocks, extra : BlockSeqs]
  /\ Nets \subseteq Names /\ None \in Names
<1>1. Wiped \in Blocks
  BY DEF Wiped, Blocks, Names
<1>2. Nothing \in [own : Blocks, extra : BlockSeqs]
  BY <1>1, BlockSeqIs DEF Nothing
<1> QED
  BY <1>1, <1>2, WifiAssumption DEF Names

LEMMA LoadedSeq ==
  ASSUME NEW s \in Loadable
  PROVE  /\ s \in Seq(Blocks) /\ Len(s) \in Nat
         /\ \A i \in 1 .. Len(s) : s[i] \in Blocks /\ s[i].ssid \in Names
<1>1. PICK n \in 1 .. MaxKnown + 1 : s \in [1 .. n -> Blocks]
  BY DEF Loadable
<1>2. n \in Nat
  BY <1>1, Constants
<1>3. s \in Seq(Blocks)
  BY <1>1, <1>2
<1>4. \A i \in 1 .. Len(s) : s[i] \in Blocks
  BY <1>3
<1> QED
  BY <1>3, <1>4 DEF Blocks

LEMMA NetNowType ==
  ASSUME LinkType
  PROVE  NetNow \in Names
<1>1. loaded \in Seq(Blocks) /\ \A i \in 1 .. Len(loaded) : loaded[i].ssid \in Names
  BY LoadedSeq DEF LinkType
<1>2. now \in 0 .. Len(loaded) /\ Len(loaded) \in Nat
  BY <1>1 DEF LinkType
<1>3. CASE now = 0
  BY <1>3, Constants DEF NetNow
<1>4. CASE now # 0
  BY <1>1, <1>2, <1>4 DEF NetNow
<1> QED
  BY <1>3, <1>4

LEMMA InitInv == Init => IInv
<1> SUFFICES ASSUME Init PROVE IInv
  OBVIOUS
<1>1. own \in Blocks
  BY Constants DEF Init, Blocks
<1>2. extra \in BlockSeqs /\ known \in BlockSeqs /\ entries \in BlockSeqs
  BY BlockSeqIs DEF Init
<1>3. FileType
  BY <1>1, <1>2 DEF Init, FileType
<1>4. loaded \in Loadable
  <2>1. loaded = <<own>>
    BY DEF Init
  <2>2. loaded \in [1 .. 1 -> Blocks]
    BY <1>1, <2>1
  <2>3. 1 \in 1 .. MaxKnown + 1
    BY Constants
  <2> QED
    BY <2>2, <2>3 DEF Loadable
<1>5. LinkType
  <2>1. Len(loaded) \in Nat
    BY <1>4, LoadedSeq
  <2>2. now \in 0 .. Len(loaded) /\ acts \in 0 .. MaxActs
    BY <2>1, Constants DEF Init
  <2> QED
    BY <1>4, <2>2, Constants DEF Init, LinkType
<1>6. CheckType
  BY <1>2, Constants DEF Init, CheckType
<1>7. GhostType /\ TestOK
  BY DEF Init, GhostType, TestOK
<1> QED
  BY <1>3, <1>5, <1>6, <1>7 DEF IInv

-----------------------------------------------------------------------------
LEMMA LinkKept ==
  ASSUME LinkType, UNCHANGED wpa, UNCHANGED <<recent, acts>>
  PROVE  LinkType'
BY DEF LinkType, wpa

LEMMA FileKept ==
  ASSUME FileType, UNCHANGED <<conf, known>>
  PROVE  FileType'
BY DEF FileType, conf

LEMMA CheckKept ==
  ASSUME CheckType, TestOK, UNCHANGED <<state, check>>
  PROVE  CheckType' /\ TestOK'
BY DEF CheckType, TestOK, state, check

LEMMA DisturbedType ==
  ASSUME NEW by \in {"wipe", "files", "link"}, GhostType, Disturbed(by)
  PROVE  disturbed' \in {"wipe", "files", "link", "nothing"}
BY DEF GhostType, Disturbed

LEMMA EditedInv ==
  ASSUME IInv, Act, NEW o \in Blocks, NEW e \in BlockSeqs,
         NEW by \in {"wipe", "files"}, Edited(o, e, by), known' \in BlockSeqs
  PROVE  IInv'
<1> USE DEF IInv
<1>1. FileType'
  BY DEF Edited, FileType
<1>2. acts' \in 0 .. MaxActs /\ UNCHANGED <<wpa, recent>>
  BY Constants DEF Act, Edited, LinkType
<1>3. LinkType'
  BY <1>2 DEF LinkType, wpa
<1>4. CheckType' /\ TestOK'
  BY CheckKept DEF Edited
<1>5. GhostType'
  BY DisturbedType DEF Edited, GhostType
<1> QED
  BY <1>1, <1>3, <1>4, <1>5

LEMMA EndCheckType ==
  ASSUME NEW p \in {"idle", "reconfigure"}, DropRead(p), lastNet' \in Names, seen' \in BOOLEAN, tested' \subseteq Nets
  PROVE  CheckType' /\ TestOK' /\ disturbed' = "nothing"
<1>1. /\ pc' = p /\ text' = Nothing /\ entries' = <<>> /\ block' = Wiped
      /\ learnt' = FALSE /\ disturbed' = "nothing"
  BY DEF DropRead
<1> QED
  BY <1>1, Constants, BlockSeqIs DEF CheckType, TestOK

LEMMA RestartedInv ==
  ASSUME IInv, Restarted, ifup' \in BOOLEAN
  PROVE  IInv'
<1> USE DEF IInv
<1>1. FileType'
  BY DEF Restarted, FileType
<1>2. loaded' \in Loadable
  BY FileLoadable DEF Restarted, FileType
<1>3. now' = 0 /\ Len(loaded') \in Nat
  BY <1>2, LoadedSeq DEF Restarted
<1>4. LinkType'
  BY <1>2, <1>3, Constants DEF Restarted, LinkType
<1>5. CheckType' /\ TestOK'
  BY DEF Restarted, CheckType, TestOK, check
<1>6. GhostType'
  BY DisturbedType DEF Restarted, GhostType
<1> QED
  BY <1>1, <1>4, <1>5, <1>6

LEMMA PeopleInv == ASSUME IInv, People \/ IfUp PROVE IInv'
<1>1. own \in Blocks /\ extra \in BlockSeqs /\ known \in BlockSeqs
  BY DEF IInv, FileType
<1>2. extra \in Seq(Blocks) /\ Len(extra) <= MaxKnown /\ Len(extra) \in Nat
  BY <1>1, BlockSeqIs
<1>3. \A i \in DOMAIN extra : extra[i] \in Blocks
  BY <1>2
<1>4. CASE SaveNetwork
  <2>1. PICK n \in Nets, p \in Nets : Edited([ssid |-> n, psk |-> p], extra, "files")
    BY <1>4 DEF SaveNetwork
  <2>2. [ssid |-> n, psk |-> p] \in Blocks
    BY DEF Blocks, Names
  <2> QED
    BY <1>1, <1>4, <2>1, <2>2, EditedInv DEF SaveNetwork
\* sed on every line keeps the number of blocks.
<1>5. ASSUME NEW e, e = [i \in DOMAIN extra |-> e[i]], \A i \in DOMAIN extra : e[i] \in Blocks
      PROVE  e \in BlockSeqs
  <2>1. DOMAIN extra = 1 .. Len(extra)
    BY <1>2
  <2>2. e \in [1 .. Len(extra) -> Blocks]
    BY <1>5, <2>1
  <2>3. Len(extra) \in 0 .. MaxKnown
    BY <1>2, Constants
  <2> QED
    BY <2>2, <2>3 DEF BlockSeqs
<1>6. CASE SetClientSsid
  <2>1. PICK n \in Nets : Edited([own EXCEPT !.ssid = n],
                                 [i \in DOMAIN extra |-> [extra[i] EXCEPT !.ssid = n]], "files")
    BY <1>6 DEF SetClientSsid
  <2> DEFINE e == [i \in DOMAIN extra |-> [extra[i] EXCEPT !.ssid = n]]
  <2>2. [own EXCEPT !.ssid = n] \in Blocks /\ \A i \in DOMAIN extra : e[i] \in Blocks
    BY <1>1, <1>3 DEF Blocks, Names
  <2>3. e = [i \in DOMAIN extra |-> e[i]]
    OBVIOUS
  <2>4. Edited([own EXCEPT !.ssid = n], e, "files")
    BY <2>1
  <2> HIDE DEF e
  <2> QED
    BY <1>1, <1>5, <1>6, <2>2, <2>3, <2>4, EditedInv DEF SetClientSsid
<1>7. CASE SetClientPassword
  <2>1. PICK p \in Nets : Edited([own EXCEPT !.psk = p],
                                 [i \in DOMAIN extra |-> [extra[i] EXCEPT !.psk = p]], "files")
    BY <1>7 DEF SetClientPassword
  <2> DEFINE e == [i \in DOMAIN extra |-> [extra[i] EXCEPT !.psk = p]]
  <2>2. [own EXCEPT !.psk = p] \in Blocks /\ \A i \in DOMAIN extra : e[i] \in Blocks
    BY <1>1, <1>3 DEF Blocks, Names
  <2>3. e = [i \in DOMAIN extra |-> e[i]]
    OBVIOUS
  <2>4. Edited([own EXCEPT !.psk = p], e, "files")
    BY <2>1
  <2> HIDE DEF e
  <2> QED
    BY <1>1, <1>5, <1>7, <2>2, <2>3, <2>4, EditedInv DEF SetClientPassword
<1>8. CASE Wipe
  BY <1>8, EditedInv, Constants, BlockSeqIs DEF Wipe
<1>9. CASE Apply \/ IfUp
  <2>1. ifup' \in BOOLEAN
    BY <1>9 DEF Apply, IfUp, IInv, LinkType
  <2> QED
    BY <1>9, <2>1, RestartedInv DEF Apply, IfUp
<1> QED
  BY <1>4, <1>6, <1>7, <1>8, <1>9 DEF People

LEMMA LinkInv ==
  ASSUME IInv, Connect \/ Drop \/ GetLease \/ InterfaceDies \/ SecondPasses \/ FiveMinutes \/ CheckStatCI
  PROVE  IInv'
<1> USE DEF IInv
<1>1. UNCHANGED <<own, extra, upTo, known, state, check>> /\ soon' \in {soon, "none"}
  BY DEF Connect, Drop, GetLease, InterfaceDies, SecondPasses, FiveMinutes, CheckStatCI, conf
<1>2. FileType' /\ CheckType' /\ TestOK'
  BY <1>1, CheckKept DEF FileType
<1>3. loaded \in Seq(Blocks) /\ Len(loaded) \in Nat /\ NetNow \in Names
  BY LoadedSeq, NetNowType DEF LinkType
<1>4. loaded' = loaded
  BY DEF Connect, Drop, GetLease, InterfaceDies, SecondPasses, FiveMinutes, CheckStatCI, wpa
<1>5. now' \in 0 .. Len(loaded)
  <2>1. CASE Connect
    BY <1>3, <2>1 DEF Connect
  <2>2. CASE ~Connect
    BY <1>3, <2>2 DEF Drop, GetLease, InterfaceDies, SecondPasses, FiveMinutes, CheckStatCI, wpa, LinkType
  <2> QED
    BY <2>1, <2>2
<1>6. lease' \in Names /\ recent' \subseteq {"dhcp_refresh", "ci_restart"}
  BY <1>3 DEF Connect, Drop, GetLease, InterfaceDies, SecondPasses, FiveMinutes, CheckStatCI, wpa, LinkType
<1>7. iface' \in {"up", "down", "deaf", "hung"} /\ acts' \in 0 .. MaxActs
  BY Constants DEF Connect, Drop, GetLease, InterfaceDies, SecondPasses, FiveMinutes, CheckStatCI, Act, wpa,
     LinkType
<1>8. asking' \in {asking, FALSE} /\ ifup' \in {ifup, TRUE}
  BY DEF Connect, Drop, GetLease, InterfaceDies, SecondPasses, FiveMinutes, CheckStatCI, wpa
<1>9. LinkType'
  BY <1>4, <1>5, <1>6, <1>7, <1>8 DEF LinkType
<1>10. GhostType'
  <2>1. CASE Connect
    <3>1. early' \in BOOLEAN
      BY <2>1 DEF Connect
    <3> QED
      BY <2>1, <3>1 DEF Connect, GhostType
  <2>2. CASE Drop
    BY <2>2, DisturbedType DEF Drop, GhostType
  <2>3. CASE GetLease \/ InterfaceDies \/ SecondPasses \/ FiveMinutes \/ CheckStatCI
    BY <2>3 DEF GetLease, InterfaceDies, SecondPasses, FiveMinutes, CheckStatCI, ghost, GhostType
  <2> QED
    BY <2>1, <2>2, <2>3
<1> QED
  BY <1>2, <1>9, <1>10

LEMMA DaemonInv == ASSUME IInv, DaemonRestart PROVE IInv'
<1> USE DEF IInv
<1>1. FileType'
  BY DEF DaemonRestart, Started, FileType
<1>2. LinkType'
  BY Constants DEF DaemonRestart, Act, LinkType, wpa
<1>3. lastNet' \in Names /\ seen' \in BOOLEAN /\ tested' \subseteq Nets
  BY Constants DEF DaemonRestart
<1>4. CheckType' /\ TestOK' /\ disturbed' = "nothing"
  BY <1>3, EndCheckType DEF EndCheck, DaemonRestart
<1>5. early' \in BOOLEAN
  BY DEF DaemonRestart
<1>6. GhostType'
  BY <1>4, <1>5 DEF DaemonRestart, GhostType
<1> QED
  BY <1>1, <1>2, <1>4, <1>6

\* What a check tests is the block of the network it found.
LEMMA InUseType ==
  ASSUME IInv, ToTest
  PROVE  /\ BlockInUse \in Blocks /\ BlockInUse.ssid \in Nets
         /\ now # 0 /\ NetNow = loaded[now].ssid /\ Fresh
<1>1. text.own \in Blocks /\ text.extra \in BlockSeqs
  BY DEF IInv, CheckType
<1>2. FileBlocks(text.own, text.extra) \in Loadable
  BY <1>1, FileLoadable
<1> DEFINE blocks == FileBlocks(text.own, text.extra)
<1>3. now \in DOMAIN blocks /\ BlockInUse = blocks[now] /\ BlockInUse.ssid = NetNow /\ NetNow # None
      /\ Fresh
  BY DEF ToTest, BlockFound, BlockInUse
<1> HIDE DEF blocks
<1>4. blocks[now] \in Blocks
  BY <1>2, <1>3, LoadedSeq DEF blocks
<1>5. NetNow \in Nets
  BY <1>3, NetNowType DEF IInv, Names
<1>6. now # 0 /\ NetNow = loaded[now].ssid
  BY <1>3 DEF NetNow
<1> QED
  BY <1>3, <1>4, <1>5, <1>6

LEMMA OthersType ==
  ASSUME IInv
  PROVE  /\ EntriesToWrite \in BlockSeqs
         /\ OwnText(text.own, EntriesToWrite) \in Blocks
         /\ Others(text.own, EntriesToWrite) \in BlockSeqs
<1>1. EntriesToWrite \in BlockSeqs
  BY DEF EntriesToWrite, IInv, FileType, CheckType
<1>2. OwnText(text.own, EntriesToWrite) \in Blocks
  BY DEF OwnText, IInv, CheckType
<1> QED
  BY <1>1, <1>2, WithoutType DEF Others

LEMMA WriteStep ==
  ASSUME WriteConf
  PROVE  /\ pc = "write"
         /\ UNCHANGED <<known, wpa, recent, state, acts, early, misread>>
         /\ \/ EndCheck /\ UNCHANGED conf
            \/ /\ own' = OwnText(text.own, EntriesToWrite)
               /\ extra' = Others(text.own, EntriesToWrite)
               /\ upTo' = (IF soon = "wpa" THEN "wpa" ELSE "write") /\ soon' = "write"
               /\ DropRead("reconfigure")
<1> DEFINE list == EntriesToWrite
           new  == [own |-> OwnText(text.own, list), extra |-> Others(text.own, list)]
<1>1. CASE new = text
  BY <1>1 DEF WriteConf
<1>2. CASE new # text
  BY <1>2 DEF WriteConf
<1> QED
  BY <1>1, <1>2

LEMMA CheckInv == ASSUME IInv, CheckKnownWifi PROVE IInv'
<1> USE DEF IInv
<1>1. CASE ReadFiles
  <2>1. FileType' /\ LinkType'
    BY <1>1, FileKept, LinkKept DEF ReadFiles
  <2>2. CheckType' /\ TestOK'
    BY <1>1 DEF ReadFiles, FileType, CheckType, TestOK, state
  <2>3. GhostType'
    BY <1>1 DEF ReadFiles, GhostType, ghost
  <2> QED
    BY <2>1, <2>2, <2>3
<1>2. CASE RenewLease
  <2>1. FileType'
    BY <1>2, FileKept DEF RenewLease
  <2>2. LinkType'
    <3>1. recent' \subseteq {"dhcp_refresh", "ci_restart"}
      BY <1>2 DEF RenewLease, LinkType
    <3> QED
      BY <1>2, <3>1 DEF RenewLease, LinkType
  <2>3. CheckType' /\ TestOK' /\ disturbed' = "nothing"
    <3>1. DropRead("idle") /\ lastNet' \in Names /\ seen' \in BOOLEAN /\ tested' \subseteq Nets
      BY <1>2, NetNowType DEF RenewLease, EndCheck, CheckType
    <3> QED
      BY <3>1, EndCheckType
  <2>4. GhostType'
    BY <1>2, <2>3 DEF RenewLease, GhostType
  <2> QED
    BY <2>1, <2>2, <2>3, <2>4
<1>3. CASE ReadStatus
  <2>1. FileType' /\ LinkType'
    BY <1>3, FileKept, LinkKept DEF ReadStatus
  <2>2. lastNet' \in Names /\ seen' = TRUE /\ UNCHANGED <<tested, text, entries, learnt>>
    BY <1>3, NetNowType DEF ReadStatus, CheckType
  <2>3. /\ pc' \in {"test", "write"} /\ block' \in Blocks
        /\ pc' = "test" => block'.ssid \in Nets
    BY <1>3, InUseType DEF ReadStatus, CheckType
  <2>4. CheckType' /\ TestOK'
    BY <2>2, <2>3 DEF CheckType, TestOK
  <2>5. GhostType'
    BY <1>3 DEF ReadStatus, GhostType, ghost
  <2> QED
    BY <2>1, <2>4, <2>5
<1>4. CASE Learn
  <2>1. known' \in BlockSeqs /\ entries' \in BlockSeqs
    BY <1>4, RememberType DEF Learn, CheckType
  <2>2. FileType'
    BY <1>4, <2>1 DEF Learn, FileType, conf
  <2>3. LinkType'
    BY <1>4, LinkKept DEF Learn
  <2>4. CheckType' /\ TestOK'
    BY <1>4, <2>1, Constants DEF Learn, CheckType, TestOK
  <2>5. GhostType'
    BY <1>4 DEF Learn, GhostType, ghost
  <2> QED
    BY <2>2, <2>3, <2>4, <2>5
<1>5. CASE NoInternet
  <2>1. FileType' /\ LinkType'
    BY <1>5, FileKept, LinkKept DEF NoInternet
  <2>2. CheckType' /\ TestOK'
    BY <1>5, Constants DEF NoInternet, CheckType, TestOK
  <2>3. GhostType'
    BY <1>5 DEF NoInternet, GhostType, ghost
  <2> QED
    BY <2>1, <2>2, <2>3
<1>6. CASE WriteConf
  <2>1. LinkType'
    BY <1>6, WriteStep, LinkKept
  <2>2. CASE EndCheck /\ UNCHANGED conf
    <3>1. lastNet' \in Names /\ seen' \in BOOLEAN /\ tested' \subseteq Nets
      BY <1>6, WriteStep DEF CheckType, state
    <3>2. CheckType' /\ TestOK' /\ disturbed' = "nothing"
      BY <2>2, <3>1, EndCheckType DEF EndCheck
    <3>3. FileType' /\ GhostType'
      BY <1>6, <2>2, <3>2, WriteStep, FileKept DEF GhostType
    <3> QED
      BY <2>1, <3>2, <3>3
  <2>3. CASE /\ own' = OwnText(text.own, EntriesToWrite)
             /\ extra' = Others(text.own, EntriesToWrite)
             /\ upTo' = (IF soon = "wpa" THEN "wpa" ELSE "write") /\ soon' = "write"
             /\ DropRead("reconfigure")
    <3>1. UNCHANGED <<known, state, early, misread>>
      BY <1>6, WriteStep
    <3>2. FileType'
      BY <2>3, <3>1, OthersType DEF FileType
    <3>3. lastNet' \in Names /\ seen' \in BOOLEAN /\ tested' \subseteq Nets
      BY <3>1 DEF CheckType, state
    <3>4. CheckType' /\ TestOK' /\ disturbed' = "nothing"
      BY <2>3, <3>3, EndCheckType
    <3>5. GhostType'
      BY <3>1, <3>4 DEF GhostType
    <3> QED
      BY <2>1, <3>2, <3>4, <3>5
  <2> QED
    BY <1>6, <2>2, <2>3, WriteStep
<1>7. CASE Reconfigure \/ ReconfigureFails
  <2>1. FileType'
    BY <1>7, FileKept DEF Reconfigure, ReconfigureFails
  <2>2. LinkType'
    <3>1. CASE ReconfigureFails
      BY <3>1, LinkKept DEF ReconfigureFails
    <3>2. CASE Reconfigure
      <4>1. loaded' \in Loadable
        BY <3>2, FileLoadable DEF Reconfigure, FileType
      <4>2. now' \in 0 .. Len(loaded')
        BY <3>2, <4>1, LoadedSeq DEF Reconfigure
      <4> QED
        BY <3>2, <4>1, <4>2 DEF Reconfigure, LinkType
    <3> QED
      BY <1>7, <3>1, <3>2
  <2>3. CheckType' /\ TestOK' /\ disturbed' = "nothing"
    BY <1>7, EndCheckType DEF EndCheck, Reconfigure, ReconfigureFails, CheckType, state
  <2>4. GhostType'
    BY <1>7, <2>3 DEF Reconfigure, ReconfigureFails, GhostType
  <2> QED
    BY <2>1, <2>2, <2>3, <2>4
<1> QED
  BY <1>1, <1>2, <1>3, <1>4, <1>5, <1>6, <1>7 DEF CheckKnownWifi

THEOREM IInvStep == IInv /\ [Next]_vars => IInv'
<1> SUFFICES ASSUME IInv, [Next]_vars PROVE IInv'
  OBVIOUS
<1>1. CASE UNCHANGED vars
  <2>1. FileType' /\ LinkType' /\ CheckType' /\ TestOK'
    BY <1>1, FileKept, LinkKept, CheckKept DEF vars, IInv
  <2>2. GhostType'
    BY <1>1 DEF vars, ghost, IInv, GhostType
  <2> QED
    BY <2>1, <2>2 DEF IInv
<1> QED
  BY <1>1, PeopleInv, LinkInv, DaemonInv, CheckInv DEF Next

\* Every variable keeps its type: neither the list nor what is written after the
\* marker of wpa_supplicant.conf ever grows beyond KNOWN_WIFI_MAX.
THEOREM TypeCorrect == Spec => []TypeOK
<1>1. IInv => TypeOK
  BY TypeParts DEF IInv
<1> QED
  BY InitInv, IInvStep, <1>1, PTL DEF Spec

-----------------------------------------------------------------------------
\* What a running check holds of the files, and what wpa_supplicant holds.

\* Undisturbed, the check has read the text as it still is ...
TextRead == pc \in {"status", "test", "write"} /\ disturbed \notin {"files", "wipe"}
              => text = [own |-> own, extra |-> extra]
\* ... and after it learnt a network, its list is the list on disk.
ListSaved == /\ pc = "idle" => ~learnt
             /\ learnt /\ disturbed # "wipe" => known = entries
\* What the times of wpa_supplicant.conf say is true, unless a reconfigure failed
\* or the file was changed in the second that the code grants.
TimesTrue ==
  upTo # "none" /\ ~misread /\ pc # "reconfigure" => loaded = FileBlocks(own, extra)
ConnectedWorks == now # 0 => Works(loaded[now])
\* The block under test is the one in use, or was when its interface died.
TestedInUse ==
  pc = "test" /\ disturbed = "nothing" /\ ~misread
    => /\ Works(block)
       /\ now # 0 => loaded[now] = block
       /\ now = 0 => iface # "up"

CInv == TextRead /\ ListSaved /\ TimesTrue /\ ConnectedWorks /\ TestedInUse

LEMMA InitCInv == Init => CInv
<1> SUFFICES ASSUME Init PROVE CInv
  OBVIOUS
<1>1. pc = "idle" /\ learnt = FALSE /\ now = 0
  BY DEF Init
<1>2. loaded = FileBlocks(own, extra)
  <2>1. FileBlocks(own, extra) = <<own>> \o <<>> /\ loaded = <<own>>
    BY DEF Init, FileBlocks
  <2>2. <<own>> \o <<>> = <<own>>
    OBVIOUS
  <2> QED
    BY <2>1, <2>2
<1> QED
  BY <1>1, <1>2 DEF CInv, TextRead, ListSaved, TimesTrue, ConnectedWorks, TestedInUse

\* Writers mark a check that is under way, and the file as changed.
LEMMA EditedCInv ==
  ASSUME CInv, NEW o, NEW e, NEW by \in {"wipe", "files"}, Edited(o, e, by),
         by = "files" => known' = known
  PROVE  CInv'
<1>1. /\ UNCHANGED <<loaded, now, pc, learnt>>
      /\ upTo' = soon /\ misread' = (soon # "none")
      /\ pc # "idle" => disturbed' \in {"files", "wipe"}
      /\ pc # "idle" /\ disturbed' # "wipe" => disturbed # "wipe" /\ known' = known
      /\ UNCHANGED entries
  BY DEF Edited, Disturbed, wpa, check
<1> QED
  BY <1>1 DEF CInv, TextRead, ListSaved, TimesTrue, ConnectedWorks, TestedInUse, Works

LEMMA RestartedCInv ==
  ASSUME CInv, Restarted
  PROVE  CInv'
<1>1. /\ loaded' = FileBlocks(own', extra') /\ now' = 0
      /\ UNCHANGED <<own, extra, known, pc, text, entries, learnt>>
      /\ pc # "idle" => disturbed' \in {"wipe", "files", "link"}
      /\ disturbed' \notin {"files", "wipe"} => disturbed \notin {"files", "wipe"} \/ pc = "idle"
      /\ disturbed' # "wipe" => disturbed # "wipe" \/ pc = "idle"
  BY DEF Restarted, Disturbed, check
<1> QED
  BY <1>1 DEF CInv, TextRead, ListSaved, TimesTrue, ConnectedWorks, TestedInUse

LEMMA LinkCInv ==
  ASSUME CInv, Connect \/ Drop \/ GetLease \/ InterfaceDies \/ SecondPasses \/ FiveMinutes \/ CheckStatCI
  PROVE  CInv'
<1>1. UNCHANGED <<own, extra, upTo, known, state, check, loaded, misread>>
  BY DEF Connect, Drop, GetLease, InterfaceDies, SecondPasses, FiveMinutes, CheckStatCI, wpa, ghost, conf
<1>2. /\ disturbed' \notin {"files", "wipe"} => disturbed \notin {"files", "wipe"} \/ pc = "idle"
      /\ disturbed' # "wipe" => disturbed # "wipe" \/ pc = "idle"
  BY DEF Connect, Drop, GetLease, InterfaceDies, SecondPasses, FiveMinutes, CheckStatCI, ghost, Disturbed
<1>3. TextRead' /\ ListSaved' /\ TimesTrue'
  BY <1>1, <1>2 DEF CInv, TextRead, ListSaved, TimesTrue, conf, check
<1>4. CASE Connect
  <2>1. now = 0 /\ iface = "up" /\ Works(loaded[now']) /\ UNCHANGED <<disturbed, misread>>
    BY <1>4 DEF Connect
  <2>2. ConnectedWorks'
    BY <1>1, <2>1 DEF ConnectedWorks
  <2>3. TestedInUse'
    BY <1>1, <2>1 DEF CInv, TestedInUse, check
  <2> QED
    BY <1>3, <2>2, <2>3 DEF CInv
<1>5. CASE Drop
  <2>1. now' = 0 /\ (pc # "idle" => disturbed' # "nothing")
    BY <1>5 DEF Drop, Disturbed
  <2> QED
    BY <1>1, <1>3, <2>1 DEF CInv, ConnectedWorks, TestedInUse, check
<1>6. CASE GetLease \/ SecondPasses \/ FiveMinutes \/ CheckStatCI
  <2>1. UNCHANGED <<now, iface, disturbed>>
    BY <1>6 DEF GetLease, SecondPasses, FiveMinutes, CheckStatCI, wpa, ghost
  <2> QED
    BY <1>1, <1>3, <2>1 DEF CInv, ConnectedWorks, TestedInUse, check
<1>7. CASE InterfaceDies
  <2>1. now' = 0 /\ iface' # "up" /\ UNCHANGED disturbed
    BY <1>7 DEF InterfaceDies, ghost
  <2> QED
    BY <1>1, <1>3, <2>1 DEF CInv, ConnectedWorks, TestedInUse, check
<1> QED
  BY <1>4, <1>5, <1>6, <1>7

\* A check that ends leaves nothing to be said about it.
LEMMA EndCInv ==
  ASSUME EndCheck, TimesTrue', ConnectedWorks'
  PROVE  CInv'
BY DEF EndCheck, DropRead, CInv, TextRead, ListSaved, TestedInUse

LEMMA ReadCInv ==
  ASSUME IInv, CInv, ReadStatus
  PROVE  CInv'
<1>1. /\ UNCHANGED <<conf, known, wpa, text, entries, learnt, ghost>>
      /\ pc = "status" /\ pc' \in {"test", "write"}
      /\ pc' = "test" => ToTest /\ block' = BlockInUse
  BY DEF ReadStatus
<1>2. TextRead' /\ ListSaved' /\ TimesTrue' /\ ConnectedWorks'
  BY <1>1 DEF CInv, TextRead, ListSaved, TimesTrue, ConnectedWorks, conf, wpa, ghost
<1>3. ASSUME pc' = "test", disturbed = "nothing", ~misread
      PROVE  now # 0 /\ loaded[now] = block' /\ Works(block')
  <2>1. now # 0 /\ Fresh /\ block' = FileBlocks(text.own, text.extra)[now]
    BY <1>1, <1>3, InUseType DEF BlockInUse
  <2>2. text.own = own /\ text.extra = extra
    BY <1>1, <1>3 DEF CInv, TextRead
  <2>3. loaded = FileBlocks(own, extra)
    BY <1>1, <1>3, <2>1 DEF CInv, TimesTrue, Fresh
  <2> QED
    BY <2>1, <2>2, <2>3 DEF CInv, ConnectedWorks
<1>4. TestedInUse'
  BY <1>1, <1>3 DEF TestedInUse, wpa, ghost
<1> QED
  BY <1>2, <1>4 DEF CInv

LEMMA CheckCInv == ASSUME IInv, CInv, CheckKnownWifi \/ DaemonRestart PROVE CInv'
<1>1. CASE ReadFiles
  BY <1>1 DEF ReadFiles, CInv, TextRead, ListSaved, TimesTrue, ConnectedWorks, TestedInUse,
     conf, wpa, ghost
<1>2. CASE RenewLease
  <2>1. TimesTrue' /\ ConnectedWorks'
    BY <1>2 DEF RenewLease, CInv, TimesTrue, ConnectedWorks, conf
  <2> QED
    BY <1>2, <2>1, EndCInv DEF RenewLease
<1>3. CASE Learn
  <2>1. /\ UNCHANGED <<conf, wpa, text, disturbed, misread>>
        /\ known' = entries' /\ pc = "test" /\ pc' = "write"
    BY <1>3 DEF Learn, ghost
  <2> QED
    BY <2>1 DEF CInv, TextRead, ListSaved, TimesTrue, ConnectedWorks, TestedInUse, conf, wpa
<1>4. CASE NoInternet
  BY <1>4 DEF NoInternet, CInv, TextRead, ListSaved, TimesTrue, ConnectedWorks, TestedInUse,
     conf, wpa, ghost
<1>5. CASE WriteConf
  <2>1. CASE EndCheck /\ UNCHANGED conf
    <3>1. TimesTrue' /\ ConnectedWorks'
      BY <1>5, <2>1, WriteStep DEF CInv, TimesTrue, ConnectedWorks, conf, wpa
    <3> QED
      BY <2>1, <3>1, EndCInv
  <2>2. CASE DropRead("reconfigure")
    BY <1>5, <2>2, WriteStep DEF DropRead, CInv, TextRead, ListSaved, TimesTrue,
       ConnectedWorks, TestedInUse, wpa
  <2> QED
    BY <1>5, <2>1, <2>2, WriteStep
<1>6. CASE Reconfigure
  <2>1. TimesTrue' /\ ConnectedWorks'
    BY <1>6 DEF Reconfigure, TimesTrue, ConnectedWorks, conf
  <2> QED
    BY <1>6, <2>1, EndCInv DEF Reconfigure
<1>7. CASE ReconfigureFails
  <2>1. TimesTrue' /\ ConnectedWorks'
    BY <1>7 DEF ReconfigureFails, CInv, TimesTrue, ConnectedWorks, conf, wpa
  <2> QED
    BY <1>7, <2>1, EndCInv DEF ReconfigureFails
<1>8. CASE DaemonRestart
  <2>1. TimesTrue' /\ ConnectedWorks'
    <3>1. /\ UNCHANGED <<own, extra, loaded, now>> /\ upTo' \in {upTo, "none"}
          /\ upTo = "write" => upTo' = "none"
      BY <1>8 DEF DaemonRestart, Started, wpa
    <3>2. ~misread' => ~misread /\ ~(pc = "reconfigure" /\ upTo = "wpa")
      BY <1>8 DEF DaemonRestart
    <3>3. upTo \in {"wpa", "write", "none"}
      BY DEF IInv, FileType
    <3>4. TimesTrue'
      BY <3>1, <3>2, <3>3 DEF CInv, TimesTrue
    <3> QED
      BY <3>1, <3>4 DEF CInv, ConnectedWorks
  <2> QED
    BY <1>8, <2>1, EndCInv DEF DaemonRestart
<1> QED
  BY <1>1, <1>2, <1>3, <1>4, <1>5, <1>6, <1>7, <1>8, ReadCInv DEF CheckKnownWifi

THEOREM CInvStep == IInv /\ CInv /\ [Next]_vars => CInv'
<1> SUFFICES ASSUME IInv, CInv, [Next]_vars PROVE CInv'
  OBVIOUS
<1>1. CASE UNCHANGED vars
  BY <1>1 DEF vars, conf, wpa, check, ghost, CInv, TextRead, ListSaved, TimesTrue,
     ConnectedWorks, TestedInUse
<1>2. CASE People \/ IfUp
  BY <1>2, EditedCInv, RestartedCInv
     DEF People, SaveNetwork, SetClientSsid, SetClientPassword, Wipe, Apply, IfUp
<1> QED
  BY <1>1, <1>2, LinkCInv, CheckCInv DEF Next

\* What a running check holds of the files is true, and so are the times it
\* goes by: the base of the three theorems below.
THEOREM ChecksKnowTheFiles == Spec => [](IInv /\ CInv)
BY InitInv, InitCInv, IInvStep, CInvStep, PTL DEF Spec

-----------------------------------------------------------------------------
\* The step that writes the file, and the step that changes the list.
LEMMA WrittenStep ==
  ASSUME [Next]_vars, pc = "write", pc' = "reconfigure"
  PROVE  /\ own' = OwnText(text.own, EntriesToWrite)
         /\ extra' = Others(text.own, EntriesToWrite)
<1>1. WriteConf
  <2>1. pc' # pc
    OBVIOUS
  <2>2. ~(UNCHANGED pc)
    BY <2>1
  <2> QED
    BY <2>1 DEF Next, People, SaveNetwork, SetClientSsid, SetClientPassword, Wipe, Apply, Edited,
       IfUp, Restarted, Connect, Drop, GetLease, InterfaceDies, SecondPasses, FiveMinutes, DaemonRestart,
       CheckStatCI, CheckKnownWifi, ReadFiles, RenewLease, ReadStatus, Learn, NoInternet,
       Reconfigure, ReconfigureFails, EndCheck, DropRead, check, vars
<1> QED
  BY <1>1, WriteStep DEF EndCheck, DropRead

LEMMA KnownStep ==
  ASSUME [Next]_vars, known' # known, known' # <<>>
  PROVE  Learn
BY DEF Next, People, SaveNetwork, SetClientSsid, SetClientPassword, Wipe, Apply, Edited,
       IfUp, Restarted, Connect, Drop, GetLease, InterfaceDies, SecondPasses, FiveMinutes, DaemonRestart,
       CheckStatCI, CheckKnownWifi, ReadFiles, RenewLease, ReadStatus, NoInternet,
       WriteConf, Reconfigure, ReconfigureFails, vars

\* A check leaves the admin's own network in wpa_supplicant.conf as it is; only
\* what was typed while the check was under way may be undone.
THEOREM CheckKeepsOwn == Spec => OwnKept
<1>1. IInv /\ CInv /\ [Next]_vars => (Written /\ own' # own => disturbed \in {"files", "wipe"})
  <2> SUFFICES ASSUME CInv, [Next]_vars, pc = "write", pc' = "reconfigure", disturbed \notin {"files", "wipe"}
               PROVE  own' = own
    BY DEF Written
  <2>1. own' = text.own
    BY WrittenStep DEF OwnText
  <2>2. text.own = own
    BY DEF CInv, TextRead
  <2> QED
    BY <2>1, <2>2
<1> QED
  BY <1>1, ChecksKnowTheFiles, PTL DEF Spec, OwnKept

\* What a check writes after the marker are networks that are in the list then:
\* a wipe is not undone, but for one during a check that learns a network (which
\* does undo it, from before its internet test to its writing of the file).
THEOREM WipedStaysWiped == Spec => WipeHolds
<1>1. IInv /\ CInv /\ [Next]_vars
        => (Written /\ extra' # extra /\ (learnt => disturbed # "wipe")
             => \A i \in DOMAIN extra' : \E j \in DOMAIN known : extra'[i] = known[j])
  <2> SUFFICES ASSUME IInv, CInv, [Next]_vars, pc = "write", pc' = "reconfigure",
                      learnt => disturbed # "wipe"
               PROVE  \A i \in DOMAIN extra' : \E j \in DOMAIN known : extra'[i] = known[j]
    BY DEF Written
  <2>1. EntriesToWrite = known
    BY DEF EntriesToWrite, CInv, ListSaved
  <2>2. extra' = Without(known, text.own.ssid)
    BY <2>1, WrittenStep DEF Others
  <2>3. known \in BlockSeqs
    BY DEF IInv, FileType
  <2> QED
    BY <2>2, <2>3, WithoutType
<1> QED
  BY <1>1, ChecksKnowTheFiles, PTL DEF Spec, WipeHolds

\* Only a network that is connected, with the password that connected it, and by
\* whose own lease the internet answers is remembered, unless the files or the
\* connection changed under the very check, or wpa_supplicant has not read the file
\* when the times of the code say it has.
THEOREM OnlyWorkingLearnt == Spec => LearntWorks
<1>1. IInv /\ CInv /\ [Next]_vars
        => (known' # known /\ known' # <<>> /\ disturbed = "nothing" /\ ~misread
              => Works(known'[1]) /\ known'[1].ssid = lease /\ lease \in Online)
  <2> SUFFICES ASSUME IInv, CInv, [Next]_vars, known' # known, known' # <<>>,
                      disturbed = "nothing", ~misread
               PROVE  Works(known'[1]) /\ known'[1].ssid = lease /\ lease \in Online
    OBVIOUS
  <2>1. /\ pc = "test" /\ known' = Remember(block, entries)
        /\ now # 0 /\ lease = NetNow /\ lease \in Online
    BY KnownStep DEF Learn, InternetThrough
  <2>2. known'[1] = block
    BY <2>1, RememberType DEF IInv, CheckType
  <2>3. Works(block) /\ loaded[now] = block
    BY <2>1 DEF CInv, TestedInUse
  <2> QED
    BY <2>1, <2>2, <2>3 DEF NetNow
<1> QED
  BY <1>1, ChecksKnowTheFiles, PTL DEF Spec, LearntWorks
=============================================================================
