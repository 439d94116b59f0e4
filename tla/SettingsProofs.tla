--------------------------- MODULE SettingsProofs ---------------------------
(***************************************************************************)
(* What TLAPS proves about Settings, for any number of requests, names,    *)
(* options and power cuts: brand.j2, rewritten whole by four programs that *)
(* share no lock, is the store of BrandStore for as long as no two of them *)
(* overlap and none is killed between truncating the file and writing it.  *)
(*                                                                         *)
(* The inductive invariant says, of a file that is not spoilt, that at     *)
(* most one program is at work on it, that what this program holds is the  *)
(* file's contents with one setting changed, and that the file is empty    *)
(* just while the program has it open.                                     *)
(*                                                                         *)
(* Of ConnectBoxManage.sh itself: the lock file exists exactly while a     *)
(* command runs, nginx's link is only missing while it is replaced, and a  *)
(* reset that ends well leaves the box as it was made.  The invariant for  *)
(* this says that a file differs from the box as made only when it has a   *)
(* copy, that every command past its copying has its copies, and how far a *)
(* reset under way has come.                                               *)
(***************************************************************************)
EXTENDS Settings, TLAPS

\* new is old with one setting changed, the way some program changes it.
Differs(old, new) ==
    \/ \E v \in Options : new = [old EXCEPT !.option = v]
    \/ \E n \in Names : new = [old EXCEPT !.name = n]
    \/ old.token = NoToken /\ \E t \in Tokens : new = [old EXCEPT !.token = t]
    \/ old.board = "other" /\ new = [old EXCEPT !.board = "this"]

Runs == [phase : {"idle", "tested", "body"}, cmd : DOMAIN Script,
         value : Names \cup Options \cup {"static-site", "chosen", None},
         at : Nat \ {0}, seen : Names \cup {None}]

RunType == /\ run \in [Requests -> Runs]
           /\ \A r \in Requests : run[r].value \in Values(run[r].cmd)

NameType == /\ conf \in [Files -> Names \cup {"factory", "chosen"}]
            /\ original \in [Files -> Names \cup {"factory", "chosen", None}]
            /\ conf["hostname"] \in Names
            /\ original["hostname"] \in Names \cup {None}

BrandType == /\ brand \in Brands \cup {Empty}
             /\ use \in [Users -> {"no", "held", "open"}]
             /\ held \in [Users -> Brands \cup {Empty}]
             /\ spoilt \in BOOLEAN

\* A program is at work on brand.j2 only where its own steps say so.
UseType == /\ \A r \in Requests :
                 /\ use[r] = "held" => Running(r) /\ run[r].cmd = "brand" /\ run[r].at = 2
                 /\ use[r] = "open" => Running(r) /\ run[r].cmd = "brand" /\ run[r].at = 3
           /\ phone # "token" => use["phone"] = "no"
           /\ use["px"] # "open"

OneAtWork ==
    spoilt \/ /\ \A a, b \in Users : use[a] # "no" /\ use[b] # "no" => a = b
              /\ (brand = Empty) <=> \E a \in Users : use[a] = "open"
              /\ \A a \in Users : /\ use[a] = "held" => Differs(brand, held[a])
                                  /\ use[a] # "no" => held[a] \in Brands

SInv == RunType /\ NameType /\ BrandType /\ UseType /\ OneAtWork

-----------------------------------------------------------------------------
(* Which command a step belongs to. *)

LEMMA Commanded ==
    ASSUME RunType, NEW r \in Requests, NEW op, At(r, op)
    PROVE  /\ Running(r)
           /\ run[r].cmd = "brand" => \/ run[r].at = 1 /\ op = "jq"
                                      \/ run[r].at = 2 /\ op = "open"
                                      \/ run[r].at = 3 /\ op = "save"
           /\ op \in {"jq", "open", "save"} => run[r].cmd = "brand"
           /\ op = "country" => File(r) = "hostapd"
           /\ op \in {"backup", "change", "country", "restore"} => File(r) \in Files
           /\ op \in {"change", "country", "live", "sed"} => run[r].value \in Names \cup {"chosen"}
           /\ op \in {"sed", "live"} \/ (op = "change" /\ File(r) = "hostname")
                => run[r].value \in Names
  <1> DEFINE c == run[r].cmd
             i == run[r].at
  <1>1. /\ Running(r)
        /\ i \in Nat \ {0}
        /\ ~(i > Len(Script[c]))
        /\ Script[c][i][1] = op
        /\ File(r) = Script[c][i][2]
        /\ run[r].value \in Values(c)
    BY DEF RunType, Runs, At, Followed, Over, File
  <1>2. c \in {"get", "password", "ui", "wifi", "country", "hostname", "brand", "static",
                     "reset"}
    BY DEF RunType, Runs, Script
  <1>3. CASE c = "get"
    <2>1. Script["get"] = <<>>
      BY DEF Script
    <2>2. QED  BY <1>1, <1>3, <2>1
  <1>4. CASE c = "password" \/ c = "ui" \/ c = "wifi"
    <2>1. \E f \in {"password", "ui", "hostapd"} : Script[c] = <<Backup(f), Change(f)>>
      BY <1>4 DEF Script
    <2>2. PICK f \in {"password", "ui", "hostapd"} : Script[c] = <<Backup(f), Change(f)>>
      BY <2>1
    <2>3. (op = "backup" \/ op = "change") /\ File(r) = f
      BY <1>1, <2>2 DEF Backup, Change
    <2>4. run[r].value \in {"chosen"}
      BY <1>1, <1>4 DEF Values
    <2>5. QED  BY <1>1, <1>4, <2>3, <2>4 DEF Files
  <1>5. CASE c = "hostname"
    <2>1. Script["hostname"] = <<Backup("hostname"), Backup("hosts"), <<"look", "hostname">>,
                                 Change("hostname"), <<"live", "hostname">>, <<"sed", "hosts">> >>
      BY DEF Script
    <2>2. op \in {"backup", "look", "change", "live", "sed"} /\ File(r) \in {"hostname", "hosts"}
      BY <1>1, <1>5, <2>1 DEF Backup, Change
    <2>3. run[r].value \in Names
      BY <1>1, <1>5 DEF Values
    <2>4. QED  BY <1>1, <1>5, <2>2, <2>3 DEF Files
  <1>6. CASE c = "brand"
    <2>1. Script["brand"] = <<<<"jq", "brand">>, <<"open", "brand">>, <<"save", "brand">> >>
      BY DEF Script
    <2>2. (i = 1 /\ op = "jq") \/ (i = 2 /\ op = "open") \/ (i = 3 /\ op = "save")
      BY <1>1, <1>6, <2>1
    <2>3. QED  BY <1>1, <1>6, <2>2
  <1>7. CASE c = "static"
    <2>1. Script["static"] = <<<<"unlink", "site">>, <<"link", "site">> >>
      BY DEF Script
    <2>2. op = "unlink" \/ op = "link"
      BY <1>1, <1>7, <2>1
    <2>3. QED  BY <1>1, <1>7, <2>2
  <1>8. CASE c = "reset"
    <2>1. Script["reset"] = <<Restore("password"), Restore("hostapd"), Restore("hostname"),
                              Restore("hosts"), Restore("ui"), <<"restart", "hostapd">> >>
      BY DEF Script
    <2>2. op = "restart" \/ (op = "restore" /\ File(r) \in Files)
      BY <1>1, <1>8, <2>1 DEF Restore, Files
    <2>3. QED  BY <1>1, <1>8, <2>2
  <1>9. CASE c = "country"
    <2>1. Script["country"] = <<<<"country", "hostapd">> >>
      BY DEF Script
    <2>2. op = "country" /\ File(r) = "hostapd"
      BY <1>1, <1>9, <2>1
    <2>3. run[r].value \in {"chosen"}
      BY <1>1, <1>9 DEF Values
    <2>4. QED  BY <1>1, <1>9, <2>2, <2>3 DEF Files
  <1>10. QED  BY <1>2, <1>3, <1>4, <1>5, <1>6, <1>7, <1>8, <1>9

LEMMA OverBrand ==
    ASSUME RunType, NEW r \in Requests, Over(r), run[r].cmd = "brand"
    PROVE  run[r].at # 2 /\ run[r].at # 3
  <1>1. Script["brand"] = <<<<"jq", "brand">>, <<"open", "brand">>, <<"save", "brand">> >>
    BY DEF Script
  <1>2. Len(Script["brand"]) = 3
    BY <1>1
  <1>3. QED  BY <1>2 DEF Over, RunType, Runs

-----------------------------------------------------------------------------
(* A run of ConnectBoxManage.sh takes a step. *)

\* r is not at work on brand.j2.
LEMMA Quiet ==
    ASSUME RunType, BrandType, UseType, NEW r \in Requests,
           \/ ~Running(r)
           \/ Over(r)
           \/ \E op : At(r, op) /\ op \notin {"open", "save"}
    PROVE  use[r] = "no"
  <1>1. use[r] \in {"no", "held", "open"}
    BY DEF BrandType, Users
  <1>2. ASSUME use[r] # "no"  PROVE FALSE
    <2>1. Running(r) /\ run[r].cmd = "brand" /\ run[r].at \in {2, 3}
      BY <1>1, <1>2 DEF UseType
    <2>2. ~Over(r)
      BY <2>1, OverBrand
    <2>3. PICK op : At(r, op) /\ op \notin {"open", "save"}
      BY <2>1, <2>2
    <2>4. QED  BY <2>1, <2>3, Commanded
  <1>3. QED  BY <1>2

\* A step of r that leaves brand.j2 alone.
LEMMA QuietStep ==
    ASSUME RunType, BrandType, UseType, NEW r \in Requests, use[r] = "no",
           UNCHANGED <<brandVars, phone>>,
           \A q \in Requests \ {r} : run'[q] = run[q]
    PROVE  UseType' /\ BrandType'
  BY DEF UseType, BrandType, brandVars, Running

LEMMA GoesOn ==
    ASSUME RunType, NEW r \in Requests, GoOn(r)
    PROVE  RunType' /\ \A q \in Requests \ {r} : run'[q] = run[q]
  <1>1. run' \in [Requests -> Runs]
    BY DEF RunType, GoOn, Runs
  <1>2. \A q \in Requests : run'[q].value = run[q].value /\ run'[q].cmd = run[q].cmd
    BY DEF RunType, GoOn, Runs
  <1>3. \A q \in Requests : run'[q].value \in Values(run'[q].cmd)
    BY <1>2 DEF RunType
  <1>4. QED  BY <1>1, <1>3 DEF RunType, GoOn

LEMMA IdleRuns == Idle \in Runs /\ Idle.value \in Values(Idle.cmd)
  BY DEF Idle, Runs, Script, Values

LEMMA Exits ==
    ASSUME RunType, NEW r \in Requests, Exit(r)
    PROVE  RunType' /\ \A q \in Requests \ {r} : run'[q] = run[q]
  BY IdleRuns DEF RunType, Exit

-----------------------------------------------------------------------------
(* Reading, opening and writing brand.j2. *)

LEMMA ReadStep ==
    ASSUME BrandType, OneAtWork, NEW a \in Users, use[a] = "no",
           NEW new \in Brands \cup {Empty}, Read(a, new),
           brand # Empty => new \in Brands /\ Differs(brand, new)
    PROVE  /\ BrandType' /\ OneAtWork'
           /\ use' = [use EXCEPT ![a] = "held"]
           /\ spoilt' \/ (~spoilt /\ \A b \in Users : use[b] = "no")
  <1>1. BrandType' /\ use' = [use EXCEPT ![a] = "held"]
    BY DEF BrandType, Read
  <1>2. spoilt' \/ (~spoilt /\ \A b \in Users : use[b] = "no")
    BY DEF Read, Others
  <1>3. OneAtWork'
    <2>1. SUFFICES ASSUME ~spoilt'  PROVE OneAtWork'
      BY DEF OneAtWork
    <2>2. ~spoilt /\ \A b \in Users : use[b] = "no"
      BY <1>2, <2>1
    <2>3. brand # Empty
      BY <2>2 DEF OneAtWork
    <2>4. /\ \A b \in Users : use'[b] = (IF b = a THEN "held" ELSE "no")
          /\ held'[a] = new
          /\ brand' = brand
      BY <2>2 DEF Read, BrandType
    <2>5. Differs(brand, new)' /\ new \in Brands
      BY <2>3, <2>4 DEF Differs
    <2>6. QED  BY <2>3, <2>4, <2>5 DEF OneAtWork, Differs
  <1>4. QED  BY <1>1, <1>2, <1>3

LEMMA OpenStep ==
    ASSUME BrandType, OneAtWork, NEW a \in Users, Open(a)
    PROVE  /\ BrandType' /\ OneAtWork'
           /\ use[a] = "held" /\ use' = [use EXCEPT ![a] = "open"]
           /\ spoilt' = spoilt
  BY DEF BrandType, OneAtWork, Open

LEMMA SaveStep ==
    ASSUME BrandType, OneAtWork, NEW a \in Users, use[a] # "no",
           use' = [use EXCEPT ![a] = "no"],
           brand' = held[a],
           held' = [held EXCEPT ![a] = Empty],
           UNCHANGED spoilt
    PROVE  BrandType' /\ OneAtWork'
  <1>1. BrandType'
    BY DEF BrandType
  <1>2. OneAtWork'
    <2>1. SUFFICES ASSUME ~spoilt  PROVE OneAtWork'
      BY DEF OneAtWork
    <2>2. held[a] \in Brands /\ held[a] # Empty
      BY <2>1, EmptyAssumption DEF OneAtWork
    <2>3. \A b \in Users : use'[b] = "no"
      BY <2>1 DEF OneAtWork, BrandType
    <2>4. QED  BY <2>2, <2>3 DEF OneAtWork
  <1>3. QED  BY <1>1, <1>2

-----------------------------------------------------------------------------
(* The invariant is inductive. *)

LEMMA SInit == Init => SInv
  <1> SUFFICES ASSUME Init  PROVE SInv
    OBVIOUS
  <1> USE SettingsAssumption, EmptyAssumption DEF Init
  <1>1. RunType
    BY IdleRuns DEF RunType
  <1>2. NameType
    BY DEF NameType, Factory, Files
  <1>3. brand \in Brands /\ brand # Empty
    BY DEF Brands
  <1>4. BrandType
    BY <1>3 DEF BrandType
  <1>5. UseType
    BY DEF UseType, Users
  <1>6. OneAtWork
    BY <1>3 DEF OneAtWork
  <1>7. QED  BY <1>1, <1>2, <1>4, <1>5, <1>6 DEF SInv

\* The steps of ConnectBoxManage.sh that leave brand.j2 alone.
LEMMA ManageQuiet ==
    ASSUME SInv, NEW r \in Requests,
           \/ Ask(r) \/ TouchLock(r) \/ BackUp(r) \/ ChangeFile(r) \/ SetCountry(r) \/ LookUp(r) \/ SetLive(r)
           \/ SedHosts(r) \/ Unlink(r) \/ Link(r) \/ RestoreFile(r) \/ RestartHostapd(r)
           \/ Finish(r)
    PROVE  SInv' /\ UNCHANGED brandVars
  <1> USE DEF SInv
  <1>0. r \in Users
    BY DEF Users
  <1>1. UNCHANGED <<brandVars, phone>>
    BY DEF Ask, TouchLock, BackUp, ChangeFile, SetCountry, LookUp, SetLive, SedHosts, Unlink, Link,
           RestoreFile, RestartHostapd, Finish, history
  <1>2. OneAtWork'
    BY <1>1 DEF OneAtWork, Differs, brandVars
  <1>3. use[r] = "no"
    <2>1. CASE Ask(r) \/ TouchLock(r)
      <3>1. run[r].phase \in {"idle", "tested"}
        <4>1. CASE Ask(r)
          <5>1. run[r] = Idle
            BY <4>1 DEF Ask
          <5>2. QED  BY <5>1 DEF Idle
        <4>2. CASE TouchLock(r)
          BY <4>2 DEF TouchLock
        <4>3. QED  BY <2>1, <4>1, <4>2
      <3>2. ~Running(r)
        BY <3>1 DEF Running
      <3>3. QED  BY <3>2, Quiet
    <2>2. CASE Finish(r)
      BY <2>2, Quiet DEF Finish
    <2>3. CASE ~(Ask(r) \/ TouchLock(r) \/ Finish(r))
      <3>1. \E op : At(r, op) /\ op \notin {"open", "save"}
        BY <2>3 DEF BackUp, ChangeFile, SetCountry, LookUp, SetLive, SedHosts, Unlink, Link,
                    RestoreFile, RestartHostapd
      <3>2. QED  BY <3>1, Quiet
    <2>4. QED  BY <2>1, <2>2, <2>3
  <1>4. RunType' /\ \A q \in Requests \ {r} : run'[q] = run[q]
    <2>1. CASE Ask(r)
      <3>1. CASE run' = run
        BY <3>1 DEF RunType
      <3>2. CASE run' # run
        <4>a. PICK c \in Commands : \E v \in Values(c) :
                 run' = [run EXCEPT ![r] = [Idle EXCEPT !.phase = "tested", !.cmd = c, !.value = v]]
          BY <2>1, <3>2 DEF Ask
        <4>1. PICK v \in Values(c) :
                 run' = [run EXCEPT ![r] = [Idle EXCEPT !.phase = "tested", !.cmd = c, !.value = v]]
          BY <4>a
        <4> DEFINE new == [Idle EXCEPT !.phase = "tested", !.cmd = c, !.value = v]
        <4>2. c \in DOMAIN Script
          BY SettingsAssumption DEF Script
        <4>3. v \in Names \cup Options \cup {"static-site", "chosen", None}
          BY DEF Values
        <4>4. new \in Runs /\ new.value = v /\ new.cmd = c
          <5>1. new = [[[Idle EXCEPT !.phase = "tested"] EXCEPT !.cmd = c] EXCEPT !.value = v]
            OBVIOUS
          <5>2. QED  BY <4>2, <4>3, <5>1, IdleRuns DEF Runs
        <4> HIDE DEF new
        <4>5. QED  BY <4>1, <4>4 DEF RunType, new
      <3>3. QED  BY <3>1, <3>2
    <2>2. CASE TouchLock(r)
      <3>1. \A q \in Requests : run'[q].value = run[q].value /\ run'[q].cmd = run[q].cmd
        BY <2>2 DEF TouchLock, RunType, Runs
      <3>2. run' \in [Requests -> Runs]
        BY <2>2 DEF TouchLock, RunType, Runs
      <3>3. \A q \in Requests : run'[q].value \in Values(run'[q].cmd)
        BY <3>1 DEF RunType
      <3>4. QED  BY <2>2, <3>2, <3>3 DEF RunType, TouchLock
    <2>3. CASE LookUp(r)
      <3>1. \A q \in Requests : run'[q].value = run[q].value /\ run'[q].cmd = run[q].cmd
        BY <2>3 DEF LookUp, RunType, Runs
      <3>2. run' \in [Requests -> Runs]
        BY <2>3 DEF LookUp, RunType, Runs, NameType
      <3>3. \A q \in Requests : run'[q].value \in Values(run'[q].cmd)
        BY <3>1 DEF RunType
      <3>4. QED  BY <2>3, <3>2, <3>3 DEF RunType, LookUp
    <2>4. CASE GoOn(r)
      BY <2>4, GoesOn
    <2>5. CASE Exit(r)
      BY <2>5, Exits
    <2>6. QED  BY <2>1, <2>2, <2>3, <2>4, <2>5
               DEF BackUp, ChangeFile, SetCountry, SetLive, SedHosts, Unlink, Link,
                   RestoreFile, RestartHostapd, Finish
  <1>5. UseType' /\ BrandType'
    BY <1>1, <1>3, <1>4, QuietStep
  <1>6. NameType'
    <2>1. CASE UNCHANGED <<conf, original>>
      BY <2>1 DEF NameType
    <2>2. CASE BackUp(r)
      <3>1. File(r) \in Files
        BY <2>2, Commanded DEF BackUp
      <3>2. QED  BY <2>2, <3>1 DEF BackUp, NameType, Files
    <2>3. CASE ChangeFile(r)
      <3>1. /\ File(r) \in Files
            /\ run[r].value \in Names \cup {"chosen"}
            /\ File(r) = "hostname" => run[r].value \in Names
        BY <2>3, Commanded DEF ChangeFile
      <3>2. QED  BY <2>3, <3>1 DEF ChangeFile, NameType, Files
    <2>7. CASE SetCountry(r)
      <3>1. File(r) \in Files /\ run[r].value \in Names \cup {"chosen"}
        BY <2>7, Commanded DEF SetCountry
      <3>2. File(r) # "hostname"
        BY <2>7, Commanded DEF SetCountry
      <3>3. QED  BY <2>7, <3>1, <3>2 DEF SetCountry, NameType, Files
    <2>4. CASE SedHosts(r)
      <3>1. run[r].value \in Names
        BY <2>4, Commanded DEF SedHosts
      <3>2. QED  BY <2>4, <3>1 DEF SedHosts, NameType, Files
    <2>5. CASE RestoreFile(r)
      <3>1. File(r) \in Files
        BY <2>5, Commanded DEF RestoreFile
      <3>2. QED  BY <2>5, <3>1 DEF RestoreFile, NameType, Files
    <2>6. QED  BY <2>1, <2>2, <2>3, <2>4, <2>5, <2>7
               DEF Ask, TouchLock, LookUp, SetLive, Unlink, Link, RestartHostapd, Finish, files
  <1>7. QED  BY <1>1, <1>2, <1>4, <1>5, <1>6

\* The steps of ConnectBoxManage.sh that change brand.j2.
LEMMA ManageBrand ==
    ASSUME SInv, NEW r \in Requests, RunJq(r) \/ OpenBrand(r) \/ SaveBrand(r)
    PROVE  SInv'
  <1> USE DEF SInv
  <1>0. /\ r \in Users
        /\ r # "px" /\ r # "phone"
        /\ "phone" \in Users /\ "px" \in Users
    BY SettingsAssumption DEF Users
  <1>1. NameType'
    BY DEF RunJq, OpenBrand, SaveBrand, NameType, files
  <1>2. GoOn(r) /\ UNCHANGED phone
    BY DEF RunJq, OpenBrand, SaveBrand
  <1>3. RunType' /\ \A q \in Requests \ {r} : run'[q] = run[q]
    BY <1>2, GoesOn
  <1>4. /\ run'[r].cmd = run[r].cmd
        /\ run'[r].phase = run[r].phase
        /\ run'[r].at = run[r].at + 1
    BY <1>2 DEF GoOn, RunType, Runs
  <1>5. CASE RunJq(r)
    <2>1. At(r, "jq")
      BY <1>5 DEF RunJq
    <2>2. Running(r) /\ run[r].cmd = "brand" /\ run[r].at = 1
      BY <2>1, Commanded
    <2>3. use[r] = "no"
      BY <2>1, Quiet
    <2>4. run[r].value \in Options
      BY <2>2 DEF RunType, Values
    <2> DEFINE new == With(brand, "option", run[r].value)
    <2>5. /\ new \in Brands \cup {Empty}
          /\ brand # Empty => new \in Brands /\ Differs(brand, new)
      BY <2>4 DEF With, BrandType, Brands, Differs
    <2>6. Read(r, new)
      BY <1>5 DEF RunJq
    <2> HIDE DEF new
    <2>7. BrandType' /\ OneAtWork' /\ use' = [use EXCEPT ![r] = "held"]
      BY <1>0, <2>3, <2>5, <2>6, ReadStep
    <2>8. UseType'
      BY <1>0, <1>2, <1>3, <1>4, <2>2, <2>7 DEF UseType, Running, BrandType, Users
    <2>9. QED  BY <1>1, <1>3, <2>7, <2>8
  <1>6. CASE OpenBrand(r)
    <2>1. At(r, "open")
      BY <1>6 DEF OpenBrand
    <2>2. Running(r) /\ run[r].cmd = "brand" /\ run[r].at = 2
      BY <2>1, Commanded
    <2>3. BrandType' /\ OneAtWork' /\ use' = [use EXCEPT ![r] = "open"]
      BY <1>0, <1>6, OpenStep DEF OpenBrand
    <2>4. UseType'
      BY <1>0, <1>2, <1>3, <1>4, <2>2, <2>3 DEF UseType, Running, BrandType, Users
    <2>5. QED  BY <1>1, <1>3, <2>3, <2>4
  <1>7. CASE SaveBrand(r)
    <2>1. At(r, "save")
      BY <1>7 DEF SaveBrand
    <2>3. BrandType' /\ OneAtWork' /\ use' = [use EXCEPT ![r] = "no"]
      BY <1>0, <1>7, SaveStep DEF SaveBrand, Save
    <2>4. UseType'
      BY <1>0, <1>2, <1>3, <2>3 DEF UseType, Running, BrandType, Users
    <2>5. QED  BY <1>1, <1>3, <2>3, <2>4
  <1>8. QED  BY <1>5, <1>6, <1>7

LEMMA PanelSteps == SInv /\ Loop => SInv'
  <1> SUFFICES ASSUME SInv, Loop  PROVE SInv'
    OBVIOUS
  <1> USE DEF SInv
  <1> DEFINE a == "loop"
  <1>0. a \in Users /\ a \notin Requests /\ "phone" \in Users /\ "px" \in Users
    BY SettingsAssumption DEF Users
  <1>1. /\ UNCHANGED <<conf, original, run, phone>>
    BY DEF Loop, LoopReads, LoopOpens, LoopSaves, PanelStarts, files
  <1>2. NameType' /\ RunType'
    BY <1>1 DEF NameType, RunType
  <1>3. ASSUME NEW to, use' = [use EXCEPT ![a] = to]  PROVE UseType'
    BY <1>0, <1>1, <1>3 DEF UseType, BrandType, Running, Users
  <1>4. CASE PanelStarts \/ (LoopReads /\ brand = Empty)
    <2>1. BrandType' /\ UseType'
      BY <1>1, <1>4 DEF PanelStarts, LoopReads, brandVars, BrandType, UseType, Running
    <2>2. OneAtWork'
      BY <1>4 DEF PanelStarts, LoopReads, brandVars, OneAtWork, Differs
    <2>3. QED  BY <1>2, <2>1, <2>2
  <1>5. CASE LoopReads /\ brand # Empty
    <2> DEFINE new == [brand EXCEPT !.name = conf["hostname"]]
    <2>1. new \in Brands /\ Differs(brand, new)
      BY <1>5 DEF BrandType, NameType, Brands, Differs
    <2>2. Read(a, new) /\ use[a] = "no"
      BY <1>5 DEF LoopReads
    <2> HIDE DEF new
    <2>3. BrandType' /\ OneAtWork' /\ use' = [use EXCEPT ![a] = "held"]
      BY <1>0, <2>1, <2>2, ReadStep
    <2>4. QED  BY <1>2, <1>3, <2>3
  <1>6. CASE LoopOpens
    BY <1>0, <1>2, <1>3, <1>6, OpenStep DEF LoopOpens
  <1>7. CASE LoopSaves
    BY <1>0, <1>2, <1>3, <1>7, SaveStep DEF LoopSaves, Save
  <1>8. QED  BY <1>4, <1>5, <1>6, <1>7 DEF Loop

LEMMA PxSteps == SInv /\ Px => SInv'
  <1> SUFFICES ASSUME SInv, Px  PROVE SInv'
    OBVIOUS
  <1> USE DEF SInv
  <1> DEFINE a == "px"
  <1>0. a \in Users /\ a \notin Requests /\ "phone" \in Users
    BY SettingsAssumption DEF Users
  <1>1. UNCHANGED <<conf, original, run, phone>>
    BY DEF Px, PxReads, PxReplaces, files
  <1>2. NameType' /\ RunType'
    BY <1>1 DEF NameType, RunType
  <1>3. ASSUME NEW to, to # "open", use' = [use EXCEPT ![a] = to]  PROVE UseType'
    BY <1>0, <1>1, <1>3 DEF UseType, BrandType, Running, Users
  <1>4. CASE PxReads /\ brand # Empty /\ brand.board = "this"
    <2>1. UNCHANGED brandVars
      BY <1>4 DEF PxReads
    <2>2. BrandType' /\ UseType'
      BY <1>1, <2>1 DEF brandVars, BrandType, UseType, Running
    <2>3. OneAtWork'
      BY <2>1 DEF brandVars, OneAtWork, Differs
    <2>4. QED  BY <1>2, <2>2, <2>3
  <1>5. CASE PxReads /\ ~(brand # Empty /\ brand.board = "this")
    <2> DEFINE new == IF brand = Empty THEN NewBrand ELSE [brand EXCEPT !.board = "this"]
    <2>1. /\ new \in Brands \cup {Empty}
          /\ brand # Empty => new \in Brands /\ Differs(brand, new)
      BY <1>5, SettingsAssumption DEF BrandType, Brands, NewBrand, Differs
    <2>2. Read(a, new) /\ use[a] = "no"
      BY <1>5 DEF PxReads
    <2> HIDE DEF new
    <2>3. BrandType' /\ OneAtWork' /\ use' = [use EXCEPT ![a] = "held"]
      BY <1>0, <2>1, <2>2, ReadStep
    <2>4. QED  BY <1>2, <1>3, <2>3
  <1>6. CASE PxReplaces
    BY <1>0, <1>2, <1>3, <1>6, SaveStep DEF PxReplaces
  <1>7. QED  BY <1>4, <1>5, <1>6 DEF Px

LEMMA PhoneSteps == SInv /\ (PhoneReads \/ PhoneHome \/ PhoneApplies) => SInv'
  <1> SUFFICES ASSUME SInv, PhoneReads \/ PhoneHome \/ PhoneApplies  PROVE SInv'
    OBVIOUS
  <1> USE DEF SInv
  <1> DEFINE a == "phone"
  <1>0. a \in Users /\ a \notin Requests /\ a # "px"
    BY SettingsAssumption DEF Users
  <1>1. UNCHANGED <<conf, original, run>>
    BY DEF PhoneReads, PhoneHome, PhoneOpens, PhoneSaves, PhoneEnds, PhoneApplies, files
  <1>2. NameType' /\ RunType'
    BY <1>1 DEF NameType, RunType
  <1>3. ASSUME NEW to, use' = [use EXCEPT ![a] = to], phone' = "token" \/ to = "no"
        PROVE  UseType'
    BY <1>0, <1>1, <1>3 DEF UseType, BrandType, Running, Users
  <1>4. CASE PhoneReads /\ brand.token = NoToken
    <2>1. PICK t \in Tokens : Read(a, [brand EXCEPT !.token = t])
      BY <1>4 DEF PhoneReads
    <2> DEFINE new == [brand EXCEPT !.token = t]
    <2>2. new \in Brands /\ Differs(brand, new)
      BY <1>4 DEF PhoneReads, BrandType, Brands, Differs
    <2>3. Read(a, new) /\ use[a] = "no" /\ phone' = "token"
      BY <1>4, <2>1 DEF PhoneReads, UseType
    <2> HIDE DEF new
    <2>4. BrandType' /\ OneAtWork' /\ use' = [use EXCEPT ![a] = "held"]
      BY <1>0, <2>2, <2>3, ReadStep
    <2>5. QED  BY <1>2, <1>3, <2>3, <2>4
  <1>5. CASE (PhoneReads /\ brand.token # NoToken) \/ PhoneEnds
    <2>1. UNCHANGED brandVars /\ use["phone"] = "no"
      BY <1>5 DEF PhoneReads, PhoneEnds, UseType
    <2>2. BrandType' /\ UseType'
      BY <1>1, <2>1 DEF brandVars, BrandType, UseType, Running
    <2>3. OneAtWork'
      BY <2>1 DEF brandVars, OneAtWork, Differs
    <2>4. QED  BY <1>2, <2>2, <2>3
  <1>6. CASE PhoneOpens
    <2>1. phone = "token" /\ phone' = "token"
      BY <1>6 DEF PhoneOpens, Open, UseType
    <2>2. BrandType' /\ OneAtWork' /\ use' = [use EXCEPT ![a] = "open"]
      BY <1>0, <1>6, OpenStep DEF PhoneOpens
    <2>3. QED  BY <1>2, <1>3, <2>1, <2>2
  <1>7. CASE PhoneSaves
    <2>1. BrandType' /\ OneAtWork' /\ use' = [use EXCEPT ![a] = "no"]
      BY <1>0, <1>7, SaveStep DEF PhoneSaves, Save
    <2>2. QED  BY <1>2, <1>3, <2>1
  <1>8. CASE PhoneApplies
    <2>1. use[a] = "no" /\ UNCHANGED <<use, held, phone>>
      BY <1>8 DEF PhoneApplies, UseType
    <2>2. PICK v \in Options : brand' = With(brand, "option", v)
      BY <1>8 DEF PhoneApplies
    <2>3. /\ brand' \in Brands \cup {Empty}
          /\ brand # Empty => brand' \in Brands
      BY <2>2 DEF With, BrandType, Brands
    <2>4. BrandType' /\ UseType'
      BY <1>1, <1>8, <2>1, <2>3 DEF PhoneApplies, BrandType, UseType, Running
    <2>5. OneAtWork'
      <3>1. SUFFICES ASSUME ~spoilt'  PROVE OneAtWork'
        BY DEF OneAtWork
      <3>2. ~spoilt /\ \A b \in Users : use[b] = "no"
        BY <1>8, <2>1, <3>1 DEF PhoneApplies, Others
      <3>3. brand # Empty
        BY <3>2 DEF OneAtWork
      <3>4. brand' # Empty
        BY <2>3, <3>3, EmptyAssumption
      <3>5. QED  BY <2>1, <3>2, <3>4 DEF OneAtWork
    <2>6. QED  BY <1>2, <2>4, <2>5
  <1>9. QED  BY <1>4, <1>5, <1>6, <1>7, <1>8 DEF PhoneHome

LEMMA CutStep == SInv /\ PowerCut => SInv'
  <1> SUFFICES ASSUME SInv, PowerCut  PROVE SInv'
    OBVIOUS
  <1> USE DEF SInv, PowerCut
  <1>1. RunType' /\ NameType'
    BY IdleRuns DEF RunType, NameType
  <1>2. BrandType'
    BY DEF BrandType
  <1>3. UseType'
    BY SettingsAssumption DEF UseType, Users
  <1>4. OneAtWork'
    BY DEF OneAtWork
  <1>5. QED  BY <1>1, <1>2, <1>3, <1>4

LEMMA SStep == SInv /\ [Next]_vars => SInv'
  <1> SUFFICES ASSUME SInv, [Next]_vars  PROVE SInv'
    OBVIOUS
  <1>1. CASE \E r \in Requests : Ask(r) \/ Manage(r)
    BY <1>1, ManageQuiet, ManageBrand DEF Manage
  <1>2. CASE Loop \/ Px \/ PhoneReads \/ PhoneHome \/ PhoneApplies \/ PowerCut
    BY <1>2, PanelSteps, PxSteps, PhoneSteps, CutStep
  <1>3. CASE UNCHANGED vars
    BY <1>3 DEF vars, files, brandVars, SInv, RunType, NameType, BrandType, UseType, Running,
                OneAtWork, Differs
  <1>4. QED  BY <1>1, <1>2, <1>3 DEF Next

-----------------------------------------------------------------------------
(* Settings implements BrandStore. *)

LEMMA Unopened == (\A a \in Users : use[a] # "open") => Stored = brand
  BY DEF Stored

LEMMA Opened ==
    ASSUME NEW a \in Users, use[a] = "open",
           \A b, c \in Users : use[b] # "no" /\ use[c] # "no" => b = c
    PROVE  Stored = held[a]
  <1> DEFINE o == CHOOSE b \in Users : use[b] = "open"
  <1>1. o \in Users /\ use[o] = "open"
    OBVIOUS
  <1>2. o = a
    BY <1>1
  <1>3. Stored = held[o]
    BY DEF Stored
  <1>4. QED  BY <1>2, <1>3

LEMMA UnopenedNext == (\A a \in Users : use'[a] # "open") => Stored' = brand'
  BY DEF Stored

LEMMA OpenedNext ==
    ASSUME NEW a \in Users, use'[a] = "open",
           \A b, c \in Users : use'[b] # "no" /\ use'[c] # "no" => b = c
    PROVE  Stored' = held'[a]
  <1> DEFINE o == CHOOSE b \in Users : use'[b] = "open"
  <1>1. o \in Users /\ use'[o] = "open"
    OBVIOUS
  <1>2. o = a
    BY <1>1
  <1>3. Stored' = held'[o]
    BY DEF Stored
  <1>4. QED  BY <1>2, <1>3

\* One setting changed is a step of the store.
LEMMA StoreSteps ==
    ASSUME Differs(Stored, Stored'), spoilt' = FALSE
    PROVE  Store!Next
  BY DEF Differs, Store!Next, Store!SetOption, Store!Rename, Store!Register, Store!RecordBoard

\* What each step does to brand.j2, as long as it is not spoilt.
LEMMA BrandSteps ==
    ASSUME SInv, SInv', Next, ~spoilt'
    PROVE  \/ UNCHANGED brandVars
           \/ \E a \in Users : use[a] = "no" /\ \E new : Read(a, new)
           \/ \E a \in Users : Open(a)
           \/ \E a \in Users : Save(a)
           \/ PxReplaces \/ PhoneApplies \/ PowerCut
  <1>0. Requests \subseteq Users /\ {"loop", "phone", "px"} \subseteq Users
    BY DEF Users
  <1>1. ASSUME NEW r \in Requests, Ask(r) \/ Manage(r)
        PROVE  \/ UNCHANGED brandVars
               \/ \E a \in Users : use[a] = "no" /\ \E new : Read(a, new)
               \/ \E a \in Users : Open(a)
               \/ \E a \in Users : Save(a)
    <2>1. CASE RunJq(r) \/ OpenBrand(r) \/ SaveBrand(r)
      <3>1. RunJq(r) => use[r] = "no"
        BY Quiet DEF RunJq, SInv
      <3>2. QED  BY <1>0, <2>1, <3>1 DEF RunJq, OpenBrand, SaveBrand
    <2>2. CASE ~(RunJq(r) \/ OpenBrand(r) \/ SaveBrand(r))
      BY <1>1, <2>2, ManageQuiet DEF Manage
    <2>3. QED  BY <2>1, <2>2
  <1>2. CASE Loop
    <2>1. CASE LoopReads
      <3>1. brand # Empty
        BY <2>1 DEF LoopReads
      <3>2. use["loop"] = "no" /\ Read("loop", [brand EXCEPT !.name = conf["hostname"]])
        BY <2>1, <3>1 DEF LoopReads
      <3>3. QED  BY <1>0, <3>2
    <2>2. CASE ~LoopReads
      BY <1>0, <1>2, <2>2 DEF Loop, LoopOpens, LoopSaves, PanelStarts
    <2>3. QED  BY <2>1, <2>2
  <1>3. CASE Px
    BY <1>0, <1>3 DEF Px, PxReads
  <1>4. CASE PhoneReads
    BY <1>0, <1>4 DEF PhoneReads, SInv, UseType
  <1>5. CASE PhoneHome
    BY <1>0, <1>5 DEF PhoneHome, PhoneOpens, PhoneSaves, PhoneEnds
  <1>6. QED  BY <1>1, <1>2, <1>3, <1>4, <1>5 DEF Next

LEMMA Simulates ==
    ASSUME SInv, SInv', [Next]_vars
    PROVE  [Store!Next]_<<Stored, spoilt>>
  <1> USE DEF SInv
  <1>1. CASE UNCHANGED vars
    BY <1>1 DEF vars, brandVars, Stored
  <1>2. CASE spoilt'
    BY <1>2 DEF Store!Next
  <1>3. CASE Next /\ ~spoilt'
    <2>1. spoilt' = FALSE
      BY <1>3 DEF BrandType
    <2>2. /\ \A b, c \in Users : use'[b] # "no" /\ use'[c] # "no" => b = c
          /\ "px" \in Users /\ "phone" \in Users
      BY <1>3 DEF OneAtWork, Users
    <2>3. CASE UNCHANGED brandVars
      <3>1. spoilt = spoilt'
        BY <2>3 DEF brandVars
      <3>2. Stored' = Stored
        BY <2>3 DEF brandVars, Stored
      <3>3. QED  BY <3>1, <3>2
    <2>4. CASE \E a \in Users : use[a] = "no" /\ \E new : Read(a, new)
      <3>1. PICK a \in Users : use[a] = "no" /\ \E new : Read(a, new)
        BY <2>4
      <3>2. PICK new : Read(a, new)
        BY <3>1
      <3>3. ~spoilt /\ \A b \in Users : use[b] = "no"
        BY <1>3, <3>1, <3>2 DEF Read, Others
      <3>4. \A b \in Users : use'[b] # "open"
        BY <3>2, <3>3 DEF Read
      <3>5. Stored = brand /\ Stored' = brand' /\ brand' = brand
        BY <3>2, <3>3, <3>4, Unopened, UnopenedNext DEF Read
      <3>6. QED  BY <1>3, <3>3, <3>5 DEF BrandType
    <2>5. CASE \E a \in Users : Open(a)
      <3>1. PICK a \in Users : Open(a)
        BY <2>5
      <3>2. ~spoilt /\ use[a] = "held" /\ use'[a] = "open" /\ held' = held
        BY <1>3, <3>1 DEF Open, BrandType
      <3>3. \A b \in Users : use[b] # "open"
        BY <3>2 DEF OneAtWork
      <3>4. Stored = brand /\ Stored' = held[a]
        BY <2>2, <3>2, <3>3, Unopened, OpenedNext
      <3>5. Differs(brand, held[a])
        BY <3>2 DEF OneAtWork
      <3>6. QED  BY <2>1, <3>4, <3>5, StoreSteps
    <2>6. CASE \E a \in Users : Save(a)
      <3>1. PICK a \in Users : Save(a)
        BY <2>6
      <3>2. ~spoilt /\ ~spoilt' /\ use[a] = "open"
        BY <1>3, <3>1 DEF Save
      <3>3. \A b \in Users : use'[b] # "open"
        BY <3>1, <3>2 DEF Save, OneAtWork, BrandType
      <3>4. Stored = held[a] /\ Stored' = brand' /\ brand' = held[a]
        BY <3>1, <3>2, <3>3, Opened, UnopenedNext DEF Save, OneAtWork
      <3>5. QED  BY <3>2, <3>4 DEF BrandType
    <2>7. CASE PxReplaces
      <3>1. /\ ~spoilt /\ use["px"] = "held"
            /\ brand' = held["px"]
            /\ \A b \in Users : use[b] # "open" /\ use'[b] # "open"
        BY <1>3, <2>2, <2>7 DEF PxReplaces, OneAtWork, BrandType
      <3>2. Stored = brand /\ Stored' = held["px"]
        BY <3>1, Unopened, UnopenedNext
      <3>3. Differs(brand, held["px"])
        BY <2>2, <3>1 DEF OneAtWork
      <3>4. QED  BY <2>1, <3>2, <3>3, StoreSteps
    <2>8. CASE PhoneApplies
      <3>1. ~spoilt /\ use' = use /\ \A b \in Users : use[b] = "no"
        BY <1>3, <2>8 DEF PhoneApplies, Others, UseType
      <3>2. Stored = brand /\ Stored' = brand'
        BY <3>1, Unopened, UnopenedNext
      <3>3. Differs(brand, brand')
        BY <2>8, <3>1 DEF PhoneApplies, With, OneAtWork, Differs
      <3>4. QED  BY <2>1, <3>2, <3>3, StoreSteps
    <2>9. CASE PowerCut
      <3>1. /\ ~spoilt /\ brand' = brand
            /\ \A b \in Users : use[b] # "open" /\ use'[b] # "open"
        BY <1>3, <2>9 DEF PowerCut
      <3>2. Stored = brand /\ Stored' = brand'
        BY <3>1, Unopened, UnopenedNext
      <3>3. QED  BY <1>3, <3>1, <3>2 DEF BrandType
    <2>10. QED  BY <1>3, <2>3, <2>4, <2>5, <2>6, <2>7, <2>8, <2>9, BrandSteps
  <1>4. QED  BY <1>1, <1>2, <1>3

(* While no two programs use brand.j2 at once and none is cut short, what    *)
(* they do to it is what BrandStore allows: each change is one setting, and  *)
(* none is lost (setBrand, globals.init, phonehome.py, write_brand_file).    *)
THEOREM BrandStaysStore == Spec => SettingsKept
  <1>1. Init => Store!Init
    <2> SUFFICES ASSUME Init  PROVE Store!Init
      OBVIOUS
    <2>1. \A a \in Users : use[a] # "open"
      BY DEF Init
    <2>2. Stored = brand
      BY <2>1, Unopened
    <2>3. brand \in Store!Brands
      BY SettingsAssumption DEF Init, Store!Brands, Store!Boards
    <2>4. QED  BY <2>2, <2>3 DEF Init, Store!Init
  <1>2. SInv /\ SInv' /\ [Next]_vars => [Store!Next]_<<Stored, spoilt>>
    BY Simulates
  <1>3. QED  BY <1>1, <1>2, SInit, SStep, PTL DEF Spec, SettingsKept, Store!Spec

-----------------------------------------------------------------------------
(* The lock file, the link of nginx and the copies that a reset puts back.  *)

\* One run at a time, and the lock file says so.
OneRuns == raced \/ /\ lock <=> \E r \in Requests : Running(r)
                    /\ \A q, r \in Requests : Running(q) /\ Running(r) => q = r

NotBegun == \A r \in Requests : ~Running(r) => run[r].at = 1

LinkReplaced ==
    raced \/ (link = None => \E r \in Requests : /\ Running(r)
                                                 /\ run[r].cmd = "static" /\ run[r].at = 2)

\* f as the box was made; set_client_wificountry may have spoilt hostapd.conf.
AsMade(f, contents) == contents = Factory[f] \/ (f = "hostapd" /\ uncopied)

\* A copy is the file as the box was made, and so is a file without a copy.
CopiesTrue ==
    /\ \A f \in Files : /\ original[f] # None => AsMade(f, original[f])
                        /\ original[f] = None => AsMade(f, conf[f])
    /\ original["hostname"] = None => live = First

\* The file that a command with one file changes.
Target == [password |-> "password", ui |-> "ui", wifi |-> "hostapd"]

\* A command that has passed its copying has its copies.
CopiesMade ==
    \A r \in Requests :
       /\ run[r].cmd \in {"password", "ui", "wifi"} /\ run[r].at > 1
            => original[Target[run[r].cmd]] # None
       /\ run[r].cmd = "hostname" /\ run[r].at > 1
            => original["hostname"] # None
       /\ run[r].cmd = "hostname" /\ run[r].at > 2
            => original["hosts"] # None

\* The files in the order in which a reset restores them.
Order == <<"password", "hostapd", "hostname", "hosts", "ui">>

\* A reset under way has restored the files it has passed.
RestoredSoFar ==
    raced \/ \A r \in Requests :
               run[r].cmd = "reset" /\ Running(r)
               => /\ \A k \in 1 .. 5 : run[r].at > k => AsMade(Order[k], conf[Order[k]])
                  /\ run[r].at > 3 => live = First

RInv == OneRuns /\ NotBegun /\ LinkReplaced /\ CopiesTrue /\ CopiesMade /\ RestoredSoFar

LEMMA FactoryIs ==
    /\ Files = {"password", "hostapd", "hostname", "hosts", "ui"}
    /\ Factory["hostname"] = First /\ Factory["hosts"] = First
    /\ \A f \in Files : Factory[f] # None
    /\ \A k \in 1 .. 5 : Order[k] \in Files
    /\ Target["password"] = "password" /\ Target["ui"] = "ui" /\ Target["wifi"] = "hostapd"
  BY SettingsAssumption DEF Files, Factory, Order, Target

LEMMA RInit == Init => RInv
  <1> SUFFICES ASSUME Init  PROVE RInv
    OBVIOUS
  <1>1. \A r \in Requests : run[r] = Idle /\ ~Running(r)
    BY DEF Init, Running, Idle
  <1>2. \A r \in Requests : run[r].cmd = "get" /\ run[r].at = 1
    BY <1>1 DEF Idle
  <1>3. OneRuns /\ NotBegun /\ RestoredSoFar /\ CopiesMade
    BY <1>1, <1>2 DEF Init, OneRuns, NotBegun, RestoredSoFar, CopiesMade
  <1>4. LinkReplaced /\ CopiesTrue
    BY SettingsAssumption, FactoryIs DEF Init, LinkReplaced, CopiesTrue, AsMade
  <1>5. QED  BY <1>3, <1>4 DEF RInv

\* Where each operation stands in the commands.
LEMMA Places ==
    ASSUME RunType, NEW r \in Requests, NEW op, At(r, op)
    PROVE  LET c == run[r].cmd
               i == run[r].at
           IN  /\ Running(r)
               /\ \/ /\ c \in {"password", "ui", "wifi"} /\ File(r) = Target[c]
                     /\ \/ i = 1 /\ op = "backup"
                        \/ i = 2 /\ op = "change"
                  \/ /\ c = "hostname"
                     /\ \/ i = 1 /\ op = "backup" /\ File(r) = "hostname"
                        \/ i = 2 /\ op = "backup" /\ File(r) = "hosts"
                        \/ i = 3 /\ op = "look"
                        \/ i = 4 /\ op = "change" /\ File(r) = "hostname"
                        \/ i = 5 /\ op = "live"
                        \/ i = 6 /\ op = "sed"
                  \/ c = "country" /\ op = "country" /\ File(r) = "hostapd"
                  \/ c = "brand" /\ op \in {"jq", "open", "save"}
                  \/ /\ c = "static"
                     /\ \/ i = 1 /\ op = "unlink"
                        \/ i = 2 /\ op = "link"
                  \/ /\ c = "reset"
                     /\ \/ i \in 1 .. 5 /\ op = "restore" /\ File(r) = Order[i]
                        \/ i = 6 /\ op = "restart"
  <1> DEFINE c == run[r].cmd
             i == run[r].at
  <1>1. /\ Running(r)
        /\ i \in Nat \ {0}
        /\ ~(i > Len(Script[c]))
        /\ Script[c][i][1] = op
        /\ File(r) = Script[c][i][2]
    BY DEF RunType, Runs, At, Followed, Over, File
  <1>2. c \in {"get", "password", "ui", "wifi", "country", "hostname", "brand", "static",
                     "reset"}
    BY DEF RunType, Runs, Script
  <1>3. CASE c = "get"
    <2>1. Script["get"] = <<>>
      BY DEF Script
    <2>2. QED  BY <1>1, <1>3, <2>1
  <1>4. CASE c \in {"password", "ui", "wifi"}
    <2>1. Script[c] = <<Backup(Target[c]), Change(Target[c])>>
      BY <1>4 DEF Script, Target
    <2> DEFINE f == Target[c]
    <2> HIDE DEF f
    <2>2. i = 1 \/ i = 2
      BY <1>1, <2>1 DEF f
    <2>3. /\ i = 1 => op = "backup" /\ File(r) = f
          /\ i = 2 => op = "change" /\ File(r) = f
      BY <1>1, <2>1 DEF Backup, Change, f
    <2>4. QED  BY <1>1, <1>4, <2>2, <2>3 DEF f
  <1>5. CASE c = "hostname"
    <2>1. Script["hostname"] = <<Backup("hostname"), Backup("hosts"), <<"look", "hostname">>,
                                 Change("hostname"), <<"live", "hostname">>, <<"sed", "hosts">> >>
      BY DEF Script
    <2>2. \/ i = 1 /\ op = "backup" /\ File(r) = "hostname"
          \/ i = 2 /\ op = "backup" /\ File(r) = "hosts"
          \/ i = 3 /\ op = "look"
          \/ i = 4 /\ op = "change" /\ File(r) = "hostname"
          \/ i = 5 /\ op = "live"
          \/ i = 6 /\ op = "sed"
      BY <1>1, <1>5, <2>1 DEF Backup, Change
    <2>3. QED  BY <1>1, <1>5, <2>2
  <1>6. CASE c = "brand"
    <2>1. Script["brand"] = <<<<"jq", "brand">>, <<"open", "brand">>, <<"save", "brand">> >>
      BY DEF Script
    <2>2. op \in {"jq", "open", "save"}
      BY <1>1, <1>6, <2>1
    <2>3. QED  BY <1>1, <1>6, <2>2
  <1>7. CASE c = "static"
    <2>1. Script["static"] = <<<<"unlink", "site">>, <<"link", "site">> >>
      BY DEF Script
    <2>2. i = 1 \/ i = 2
      BY <1>1, <1>7, <2>1
    <2>3. /\ i = 1 => op = "unlink"
          /\ i = 2 => op = "link"
      BY <1>1, <1>7, <2>1
    <2>4. QED  BY <1>1, <1>7, <2>2, <2>3
  <1>8. CASE c = "reset"
    <2>1. Script["reset"] = <<Restore("password"), Restore("hostapd"), Restore("hostname"),
                              Restore("hosts"), Restore("ui"), <<"restart", "hostapd">> >>
      BY DEF Script
    <2>2. \/ i \in 1 .. 5 /\ op = "restore" /\ File(r) = Order[i]
          \/ i = 6 /\ op = "restart"
      BY <1>1, <1>8, <2>1 DEF Restore, Order
    <2>3. QED  BY <1>1, <1>8, <2>2
  <1>9. CASE c = "country"
    <2>1. Script["country"] = <<<<"country", "hostapd">> >>
      BY DEF Script
    <2>2. op = "country" /\ File(r) = "hostapd"
      BY <1>1, <1>9, <2>1
    <2>3. QED  BY <1>1, <1>9, <2>2
  <1>10. QED  BY <1>2, <1>3, <1>4, <1>5, <1>6, <1>7, <1>8, <1>9

LEMMA AtLink ==
    ASSUME RunType, ~raced, NEW r \in Requests, Running(r), run[r].cmd = "static", run[r].at = 2
    PROVE  At(r, "link")
  <1>1. Script["static"] = <<<<"unlink", "site">>, <<"link", "site">> >>
    BY DEF Script
  <1>2. Len(Script["static"]) = 2 /\ Script["static"][2][1] = "link"
    BY <1>1
  <1>3. QED  BY <1>2 DEF At, Followed, Over

\* What a step of a command does to its run.
Starts(r) == ~Running(r) /\ ~Running(r)' /\ run'[r].at = 1 /\ UNCHANGED <<lock, raced>>
Goes(r) == /\ Running(r) /\ Running(r)' /\ UNCHANGED <<lock, raced>>
           /\ run'[r].cmd = run[r].cmd /\ run'[r].at = run[r].at + 1
Ends(r) == Running(r) /\ run'[r] = Idle /\ lock' = FALSE /\ UNCHANGED raced

LEMMA GoOnGoes ==
    ASSUME RunType, NEW r \in Requests, Running(r), GoOn(r), UNCHANGED <<lock, raced>>
    PROVE  Goes(r)
  BY DEF RunType, Runs, GoOn, Goes, Running

LEMMA ExitEnds ==
    ASSUME RunType, NEW r \in Requests, Running(r), Exit(r), UNCHANGED raced
    PROVE  Ends(r)
  BY DEF RunType, Exit, Ends

LEMMA RunSteps ==
    ASSUME SInv, NotBegun, NEW r \in Requests, Ask(r) \/ Manage(r)
    PROVE  /\ \A q \in Requests \ {r} : run'[q] = run[q]
           /\ Starts(r) \/ TouchLock(r) \/ Goes(r) \/ Ends(r)
  <1> USE DEF SInv
  <1>1. CASE Ask(r)
    <2>1. run[r] = Idle /\ UNCHANGED <<lock, raced>>
      BY <1>1 DEF Ask
    <2>2. CASE run' = run
      BY <2>1, <2>2 DEF Starts, Running, Idle
    <2>3. CASE run' # run
      <3>1. PICK c \in Commands : \E v \in Values(c) :
               run' = [run EXCEPT ![r] = [Idle EXCEPT !.phase = "tested", !.cmd = c, !.value = v]]
        BY <1>1, <2>3 DEF Ask
      <3>2. PICK v \in Values(c) :
               run' = [run EXCEPT ![r] = [Idle EXCEPT !.phase = "tested", !.cmd = c, !.value = v]]
        BY <3>1
      <3>3. /\ run'[r].phase = "tested" /\ run'[r].at = 1
            /\ \A q \in Requests \ {r} : run'[q] = run[q]
        BY <3>2 DEF RunType, Idle
      <3>4. QED  BY <2>1, <3>3 DEF Starts, Running, Idle
    <2>4. QED  BY <2>2, <2>3
  <1>2. CASE TouchLock(r)
    BY <1>2 DEF TouchLock, RunType
  <1>3. CASE BackUp(r) \/ ChangeFile(r) \/ SetCountry(r) \/ SetLive(r) \/ SedHosts(r) \/ Unlink(r) \/ Link(r)
             \/ RestoreFile(r) \/ RestartHostapd(r) \/ RunJq(r) \/ OpenBrand(r) \/ SaveBrand(r)
    <2>1. Running(r) /\ UNCHANGED raced
      BY <1>3 DEF BackUp, ChangeFile, SetCountry, SetLive, SedHosts, Unlink, Link, RestoreFile,
                  RestartHostapd, RunJq, OpenBrand, SaveBrand, At, Followed, history
    <2>2. (GoOn(r) /\ UNCHANGED lock) \/ Exit(r)
      BY <1>3 DEF BackUp, ChangeFile, SetCountry, SetLive, SedHosts, Unlink, Link, RestoreFile,
                  RestartHostapd, RunJq, OpenBrand, SaveBrand
    <2>3. QED  BY <2>1, <2>2, GoesOn, Exits, GoOnGoes, ExitEnds
  <1>4. CASE LookUp(r)
    <2>1. /\ run'[r].phase = run[r].phase /\ run'[r].cmd = run[r].cmd
          /\ run'[r].at = run[r].at + 1
          /\ \A q \in Requests \ {r} : run'[q] = run[q]
      BY <1>4 DEF LookUp, RunType, Runs
    <2>2. QED  BY <1>4, <2>1 DEF LookUp, At, Followed, Running, Goes, history
  <1>5. CASE Finish(r)
    BY <1>5, Exits, ExitEnds DEF Finish, Followed, history
  <1>6. QED  BY <1>1, <1>2, <1>3, <1>4, <1>5 DEF Manage

\* The lock file and who runs.
LEMMA LockStep ==
    ASSUME SInv, RInv, NEW r \in Requests, Ask(r) \/ Manage(r)
    PROVE  OneRuns' /\ NotBegun'
  <1> USE DEF RInv
  <1>1. \A q \in Requests \ {r} : run'[q] = run[q] /\ (Running(q)' <=> Running(q))
    BY RunSteps DEF Running
  <1>2. CASE Starts(r)
    BY <1>1, <1>2 DEF Starts, OneRuns, NotBegun
  <1>3. CASE TouchLock(r)
    <2>1. ~Running(r) /\ Running(r)' /\ lock' = TRUE
      BY <1>3 DEF TouchLock, Running, SInv, RunType, Runs
    <2>2. raced' <=> raced \/ \E q \in Requests \ {r} : Running(q)
      BY <1>3 DEF TouchLock
    <2>3. QED  BY <1>1, <2>1, <2>2 DEF OneRuns, NotBegun
  <1>4. CASE Goes(r)
    BY <1>1, <1>4 DEF Goes, OneRuns, NotBegun
  <1>5. CASE Ends(r)
    <2>1. ~Running(r)' /\ run'[r].at = 1
      BY <1>5 DEF Ends, Running, Idle
    <2>2. QED  BY <1>1, <1>5, <2>1 DEF Ends, OneRuns, NotBegun
  <1>6. QED  BY <1>2, <1>3, <1>4, <1>5, RunSteps

\* The link of nginx.
LEMMA LinkStep ==
    ASSUME SInv, RInv, NEW r \in Requests, Ask(r) \/ Manage(r)
    PROVE  LinkReplaced'
  <1> USE DEF RInv
  <1> SUFFICES ASSUME ~raced', link' = None
               PROVE  \E q \in Requests : Running(q)' /\ run'[q].cmd = "static" /\ run'[q].at = 2
    BY DEF LinkReplaced
  <1>1. ~raced
    BY RunSteps DEF Starts, TouchLock, Goes, Ends
  <1>2. \A q \in Requests \ {r} : run'[q] = run[q] /\ (Running(q)' <=> Running(q))
    BY RunSteps DEF Running
  <1>3. CASE link = None
    <2>1. PICK q \in Requests : Running(q) /\ run[q].cmd = "static" /\ run[q].at = 2
      BY <1>1, <1>3 DEF LinkReplaced
    <2>2. CASE q # r
      BY <1>2, <2>1, <2>2
    <2>3. CASE q = r
      <3>1. At(r, "link")
        BY <1>1, <2>1, <2>3, AtLink DEF SInv
      <3>2. ~(Ask(r) \/ TouchLock(r) \/ Finish(r))
        <4>1. run[r].phase = "body" /\ ~Over(r)
          BY <2>1, <2>3, <3>1 DEF At, Running
        <4>2. run[r] # Idle
          BY <4>1 DEF Idle
        <4>3. QED  BY <4>1, <4>2 DEF Ask, TouchLock, Finish
      <3>3. \A op : At(r, op) => op = "link"
        BY <3>1 DEF At
      <3>4. Link(r)
        BY <3>2, <3>3 DEF Manage, BackUp, ChangeFile, SetCountry, LookUp, SetLive, SedHosts, RunJq, OpenBrand,
                          SaveBrand, Unlink, RestoreFile, RestartHostapd
      <3>5. link' = run[r].value
        BY <1>3, <3>4 DEF Link
      <3>6. run[r].value = "static-site"
        BY <2>1, <2>3 DEF SInv, RunType, Values
      <3>7. QED  BY <3>5, <3>6, SettingsAssumption
    <2>4. QED  BY <2>2, <2>3
  <1>4. CASE link # None
    <2>1. Unlink(r) \/ Link(r)
      BY <1>4 DEF Manage, Ask, TouchLock, BackUp, ChangeFile, SetCountry, LookUp, SetLive, SedHosts, RunJq,
                  OpenBrand, SaveBrand, RestoreFile, RestartHostapd, Finish, files
    <2>2. Unlink(r) /\ GoOn(r)
      BY <1>4, <2>1 DEF Unlink, Link
    <2>3. Running(r) /\ run[r].cmd = "static" /\ run[r].at = 1
      BY <2>2, Places DEF Unlink, SInv
    <2>4. /\ Running(r)' /\ run'[r].cmd = run[r].cmd /\ run'[r].at = run[r].at + 1
      BY <2>2, <2>3 DEF GoOn, Running, SInv, RunType, Runs
    <2>5. QED  BY <2>3, <2>4
  <1>5. QED  BY <1>3, <1>4

\* What a step does to the files: a copy is never lost, and conf and live change
\* only where the script stands at an operation on them.
LEMMA FileSteps ==
    ASSUME SInv, RInv, NEW r \in Requests, Ask(r) \/ Manage(r)
    PROVE  \/ UNCHANGED <<conf, original, live>>
           \/ BackUp(r) /\ GoOn(r) /\ UNCHANGED <<conf, live>>
           \/ ChangeFile(r) /\ UNCHANGED <<original, live>>
           \/ SetCountry(r) /\ UNCHANGED <<original, live>>
           \/ SetLive(r) /\ UNCHANGED <<conf, original>>
           \/ SedHosts(r) /\ UNCHANGED <<original, live>>
           \/ RestoreFile(r) /\ GoOn(r) /\ UNCHANGED original
  BY DEF Ask, Manage, TouchLock, BackUp, ChangeFile, SetCountry, LookUp, SetLive, SedHosts, RunJq, OpenBrand,
         SaveBrand, Unlink, Link, RestoreFile, RestartHostapd, Finish, files

LEMMA UncopiedStays ==
    ASSUME NEW r \in Requests, Ask(r) \/ Manage(r), uncopied
    PROVE  uncopied'
  BY DEF Ask, Manage, TouchLock, BackUp, ChangeFile, SetCountry, LookUp, SetLive, SedHosts, RunJq,
         OpenBrand, SaveBrand, Unlink, Link, RestoreFile, RestartHostapd, Finish, history

LEMMA CopyStep ==
    ASSUME SInv, RInv, NEW r \in Requests, Ask(r) \/ Manage(r)
    PROVE  /\ CopiesTrue'
           /\ \A f \in Files : original[f] # None => original'[f] # None
  <1> USE DEF RInv
  <1>0. /\ conf \in [Files -> Names \cup {"factory", "chosen"}]
        /\ original \in [Files -> Names \cup {"factory", "chosen", None}]
        /\ RunType
    BY DEF SInv, NameType
  <1>8. uncopied => uncopied'
    BY UncopiedStays
  <1>1. CASE UNCHANGED <<conf, original, live>>
    BY <1>1, <1>8 DEF CopiesTrue, AsMade
  <1>2. CASE BackUp(r) /\ GoOn(r) /\ UNCHANGED <<conf, live>>
    <2>1. File(r) \in Files
      BY <1>0, <1>2, Commanded DEF BackUp
    <2>2. \/ UNCHANGED original
          \/ /\ original[File(r)] = None
             /\ original' = [original EXCEPT ![File(r)] = conf[File(r)]]
      BY <1>2 DEF BackUp
    <2>3. QED  BY <1>0, <1>2, <2>1, <2>2, FactoryIs, <1>8 DEF CopiesTrue, AsMade
  <1>3. CASE ChangeFile(r) /\ UNCHANGED <<original, live>>
    <2>1. At(r, "change")
      BY <1>3 DEF ChangeFile
    <2>2. original[File(r)] # None
      BY <1>0, <2>1, Places DEF CopiesMade
    <2>3. conf' = [conf EXCEPT ![File(r)] = run[r].value] \/ conf' = conf
      BY <1>3 DEF ChangeFile
    <2>4. \A f \in Files : f # File(r) => conf'[f] = conf[f]
      BY <1>0, <2>3
    <2>5. QED  BY <1>3, <2>2, <2>4, <1>8 DEF CopiesTrue, AsMade
  <1>4. CASE SetLive(r) /\ UNCHANGED <<conf, original>>
    <2>1. original["hostname"] # None
      BY <1>0, <1>4, Places DEF SetLive, CopiesMade
    <2>2. QED  BY <1>4, <2>1, <1>8 DEF CopiesTrue, AsMade
  <1>5. CASE SedHosts(r) /\ UNCHANGED <<original, live>>
    <2>1. original["hosts"] # None
      BY <1>0, <1>5, Places DEF SedHosts, CopiesMade
    <2>2. \A f \in Files : f # "hosts" => conf'[f] = conf[f]
      BY <1>0, <1>5 DEF SedHosts
    <2>3. QED  BY <1>5, <2>1, <2>2, <1>8 DEF CopiesTrue, AsMade
  <1>6. CASE RestoreFile(r) /\ GoOn(r) /\ UNCHANGED original
    <2>1. File(r) \in Files
      BY <1>0, <1>6, Commanded DEF RestoreFile
    <2>2. \/ /\ conf' = IF original[File(r)] # None
                        THEN [conf EXCEPT ![File(r)] = original[File(r)]] ELSE conf
             /\ live' = IF original[File(r)] # None /\ File(r) = "hostname"
                        THEN original[File(r)] ELSE live
          \/ UNCHANGED <<conf, live>>
      BY <1>6 DEF RestoreFile
    <2>3. QED  BY <1>0, <1>6, <2>1, <2>2, <1>8 DEF CopiesTrue, AsMade
  <1>7. CASE SetCountry(r) /\ UNCHANGED <<original, live>>
    <2>1. File(r) = "hostapd"
      BY <1>0, <1>7, Commanded DEF SetCountry
    <2>2. \A f \in Files : f # "hostapd" => conf'[f] = conf[f]
      BY <1>0, <1>7, <2>1 DEF SetCountry
    <2>3. UNCHANGED conf \/ uncopied' \/ original["hostapd"] # None
      BY <1>7, <2>1 DEF SetCountry
    <2>4. QED  BY <1>7, <1>8, <2>2, <2>3 DEF CopiesTrue, AsMade
  <1>9. QED  BY <1>1, <1>2, <1>3, <1>4, <1>5, <1>6, <1>7, FileSteps

LEMMA CopiesStep ==
    ASSUME SInv, RInv, NEW r \in Requests, Ask(r) \/ Manage(r)
    PROVE  CopiesMade'
  <1> USE DEF RInv
  <1>0. RunType /\ \A f \in Files : original[f] # None => original'[f] # None
    BY CopyStep DEF SInv
  <1>1. \A q \in Requests : /\ run[q].cmd \in {"password", "ui", "wifi"} /\ run[q].at > 1
                                 => original'[Target[run[q].cmd]] # None
                            /\ run[q].cmd = "hostname" /\ run[q].at > 1
                                 => original'["hostname"] # None
                            /\ run[q].cmd = "hostname" /\ run[q].at > 2
                                 => original'["hosts"] # None
    BY <1>0, FactoryIs DEF CopiesMade
  <1>2. CASE Starts(r)
    <2>1. run'[r].at = 1
      BY <1>2 DEF Starts
    <2>2. QED  BY <1>1, <2>1, RunSteps DEF CopiesMade
  <1>3. CASE TouchLock(r)
    <2>1. run'[r].at = run[r].at /\ run'[r].cmd = run[r].cmd
      BY <1>0, <1>3 DEF TouchLock, RunType, Runs
    <2>2. QED  BY <1>1, <2>1, RunSteps DEF CopiesMade
  <1>4. CASE Ends(r)
    <2>1. run'[r].at = 1
      BY <1>4 DEF Ends, Idle
    <2>2. QED  BY <1>1, <2>1, RunSteps DEF CopiesMade
  <1>5. CASE Goes(r) /\ BackUp(r)
    <2>1. run'[r].at = run[r].at + 1 /\ run'[r].cmd = run[r].cmd /\ run[r] # Idle /\ run'[r] # Idle
      BY <1>5 DEF Goes, Running, Idle
    <2>2. File(r) \in Files
      BY <1>0, <1>5, Commanded DEF BackUp
    <2>3. original'[File(r)] # None
      <3>1. ~Exit(r)
        BY <1>0, <2>1 DEF Exit, RunType
      <3>2. original' = IF original[File(r)] # None THEN original
                        ELSE [original EXCEPT ![File(r)] = conf[File(r)]]
        BY <1>5, <3>1 DEF BackUp
      <3>3. CASE original[File(r)] # None
        BY <3>2, <3>3
      <3>4. CASE original[File(r)] = None
        <4>1. original'[File(r)] = conf[File(r)]
          BY <2>2, <3>2, <3>4 DEF SInv, NameType
        <4>2. conf[File(r)] # None
          BY <2>2, SettingsAssumption DEF SInv, NameType
        <4>3. QED  BY <4>1, <4>2
      <3>5. QED  BY <3>3, <3>4
    <2>4. /\ run'[r].cmd \in {"password", "ui", "wifi"} /\ run'[r].at > 1
               => original'[Target[run'[r].cmd]] # None
          /\ run'[r].cmd = "hostname" /\ run'[r].at > 1
               => original'["hostname"] # None
          /\ run'[r].cmd = "hostname" /\ run'[r].at > 2
               => original'["hosts"] # None
      <3>1. At(r, "backup")
        BY <1>5 DEF BackUp
      <3>2. \/ /\ run[r].cmd \in {"password", "ui", "wifi"} /\ File(r) = Target[run[r].cmd]
               /\ run[r].at = 1
            \/ /\ run[r].cmd = "hostname"
               /\ \/ run[r].at = 1 /\ File(r) = "hostname"
                  \/ run[r].at = 2 /\ File(r) = "hosts"
        BY <1>0, <3>1, Places
      <3>3. QED  BY <1>1, <2>1, <2>3, <3>2
    <2>5. QED  BY <1>1, <2>4, RunSteps DEF CopiesMade
  <1>6. CASE Goes(r) /\ ~BackUp(r)
    <2>1. run'[r].at = run[r].at + 1 /\ run'[r].cmd = run[r].cmd /\ Running(r) /\ Running(r)'
      BY <1>6 DEF Goes
    <2>2. run[r].at \in Nat \ {0}
      BY <1>0 DEF RunType, Runs
    <2>3. /\ run[r].cmd \in {"password", "ui", "wifi"} => run[r].at > 1
          /\ run[r].cmd = "hostname" => run[r].at > 2
      <3>1. CASE \E op : At(r, op) /\ op # "backup"
        <4>1. PICK op : At(r, op) /\ op # "backup"
          BY <3>1
        <4>2. QED  BY <1>0, <4>1, Places
      <3>2. CASE ~\E op : At(r, op) /\ op # "backup"
        <4>1. Ask(r) \/ TouchLock(r) \/ Finish(r)
          BY <1>6, <3>2 DEF Manage, ChangeFile, SetCountry, LookUp, SetLive, SedHosts, RunJq, OpenBrand,
                            SaveBrand, Unlink, Link, RestoreFile, RestartHostapd
        <4>2. run[r].phase = "body" /\ run'[r].phase = "body"
          BY <2>1 DEF Running
        <4>3. run[r] # Idle /\ run'[r] # Idle
          BY <4>2 DEF Idle
        <4>4. ~Exit(r)
          BY <1>0, <4>3 DEF Exit, RunType
        <4>5. QED  BY <4>1, <4>2, <4>3, <4>4 DEF Ask, TouchLock, Finish
      <3>3. QED  BY <3>1, <3>2
    <2>4. QED  BY <1>1, <2>1, <2>2, <2>3, RunSteps DEF CopiesMade
  <1>7. QED  BY <1>2, <1>3, <1>4, <1>5, <1>6, RunSteps

LEMMA RestoreStep ==
    ASSUME SInv, RInv, NEW r \in Requests, Ask(r) \/ Manage(r)
    PROVE  RestoredSoFar'
  <1> USE DEF RInv
  <1>0. RunType /\ conf \in [Files -> Names \cup {"factory", "chosen"}]
    BY DEF SInv, NameType
  <1> SUFFICES ASSUME ~raced', NEW q \in Requests, run'[q].cmd = "reset", Running(q)'
               PROVE  /\ \A k \in 1 .. 5 : run'[q].at > k => AsMade(Order[k], conf[Order[k]])'
                      /\ run'[q].at > 3 => live' = First
    BY DEF RestoredSoFar, AsMade
  <1>8. uncopied => uncopied'
    BY UncopiedStays
  <1>1. ~raced
    BY RunSteps DEF Starts, TouchLock, Goes, Ends
  <1>2. \A p \in Requests \ {r} : run'[p] = run[p]
    BY RunSteps
  \* Nobody else takes a step while a reset runs.
  <1>3. CASE q # r
    <2>1. Running(q) /\ run[q].cmd = "reset" /\ run'[q] = run[q]
      BY <1>2, <1>3 DEF Running
    <2>2. ~Running(r)
      BY <1>1, <1>3, <2>1 DEF OneRuns
    <2>3. \A op : ~At(r, op)
      BY <2>2 DEF At, Followed
    <2>4. UNCHANGED <<conf, original, live>>
      BY <2>3, FileSteps DEF BackUp, ChangeFile, SetCountry, SetLive, SedHosts, RestoreFile
    <2>5. QED  BY <1>1, <1>8, <2>1, <2>4 DEF RestoredSoFar, AsMade
  <1>4. CASE q = r /\ TouchLock(r)
    <2>1. run'[r].at = 1
      BY <1>0, <1>4 DEF TouchLock, RunType, Runs, NotBegun, Running
    <2>2. QED  BY <1>4, <2>1
  <1>5. CASE q = r /\ Goes(r)
    <2>1. /\ run'[r].at = run[r].at + 1 /\ run[r].cmd = "reset" /\ Running(r)
          /\ run[r].at \in Nat \ {0}
      BY <1>0, <1>5 DEF Goes, RunType, Runs
    <2>2. run'[r].phase = "body" /\ run'[r] # Idle
      BY <1>5 DEF Running, Idle
    <2>3. ~Exit(r)
      BY <1>0, <2>2 DEF Exit, RunType
    <2>4. RestoreFile(r) \/ RestartHostapd(r)
      <3>1. \A op : At(r, op) => op \in {"restore", "restart"}
        BY <1>0, <2>1, Places
      <3>2. run[r].phase = "body" /\ run[r] # Idle
        BY <2>1 DEF Running, Idle
      <3>3. ~(Ask(r) \/ TouchLock(r) \/ Finish(r))
        BY <2>3, <3>2 DEF Ask, TouchLock, Finish
      <3>4. ~(BackUp(r) \/ ChangeFile(r) \/ SetCountry(r) \/ LookUp(r) \/ SetLive(r) \/ SedHosts(r) \/ RunJq(r)
              \/ OpenBrand(r) \/ SaveBrand(r) \/ Unlink(r) \/ Link(r))
        BY <3>1 DEF BackUp, ChangeFile, SetCountry, LookUp, SetLive, SedHosts, RunJq, OpenBrand, SaveBrand,
                    Unlink, Link
      <3>5. QED  BY <3>3, <3>4 DEF Manage
    <2>5. /\ \A k \in 1 .. 5 : run[r].at > k => AsMade(Order[k], conf[Order[k]])
          /\ run[r].at > 3 => live = First
      BY <1>1, <2>1 DEF RestoredSoFar
    <2>6. CASE RestoreFile(r)
      <3>1. run[r].at \in 1 .. 5 /\ File(r) = Order[run[r].at] /\ File(r) \in Files
        BY <1>0, <2>1, <2>6, Places, FactoryIs DEF RestoreFile
      <3> DEFINE f == File(r)
      <3>2. /\ conf' = IF original[f] # None THEN [conf EXCEPT ![f] = original[f]] ELSE conf
            /\ live' = IF original[f] # None /\ f = "hostname" THEN original[f] ELSE live
        BY <2>3, <2>6 DEF RestoreFile
      <3>3. (f = "hostname") <=> (run[r].at = 3)
        BY <3>1 DEF Order
      <3> HIDE DEF f
      <3>4. /\ conf'[f] = Factory[f] \/ (f = "hostapd" /\ uncopied)
            /\ \A g \in Files : g # f => conf'[g] = conf[g]
        BY <1>0, <3>1, <3>2 DEF CopiesTrue, AsMade, f
      <3>5. ASSUME NEW k \in 1 .. 5, run'[r].at > k
            PROVE  AsMade(Order[k], conf[Order[k]])'
        <4>1. CASE k = run[r].at
          BY <1>8, <3>1, <3>4, <4>1 DEF f, AsMade
        <4>2. CASE run[r].at > k
          <5>1. Order[k] \in Files /\ AsMade(Order[k], conf[Order[k]])
            BY <2>5, <4>2, FactoryIs
          <5>2. QED  BY <1>8, <3>4, <5>1 DEF AsMade
        <4>3. k = run[r].at \/ run[r].at > k
          BY <2>1, <3>5
        <4>4. QED  BY <4>1, <4>2, <4>3
      <3>6. ASSUME run'[r].at > 3
            PROVE  live' = First
        <4>1. CASE run[r].at > 3
          BY <2>5, <3>2, <3>3, <4>1
        <4>2. CASE run[r].at = 3
          BY <3>1, <3>2, <3>3, <4>2, FactoryIs DEF CopiesTrue, AsMade
        <4>3. run[r].at > 3 \/ run[r].at = 3
          BY <2>1, <3>6
        <4>4. QED  BY <4>1, <4>2, <4>3
      <3>7. QED  BY <1>5, <3>5, <3>6
    <2>7. CASE RestartHostapd(r)
      <3>1. run[r].at = 6
        BY <1>0, <2>1, <2>7, Places DEF RestartHostapd
      <3>2. UNCHANGED <<conf, live>>
        BY <2>7 DEF RestartHostapd, files
      <3>3. QED  BY <1>5, <1>8, <2>5, <3>1, <3>2 DEF AsMade
    <2>8. QED  BY <2>4, <2>6, <2>7
  <1>6. CASE q = r /\ (Starts(r) \/ Ends(r))
    <2>1. ~Running(r)'
      BY <1>6 DEF Starts, Ends, Running, Idle
    <2>2. QED  BY <1>6, <2>1
  <1>7. QED  BY <1>3, <1>4, <1>5, <1>6, RunSteps

LEMMA CutRestores == SInv /\ RInv /\ PowerCut => RInv'
  <1> SUFFICES ASSUME SInv, RInv, PowerCut  PROVE RInv'
    OBVIOUS
  <1> USE DEF RInv
  <1>1. /\ run' = [r \in Requests |-> Idle]
        /\ raced' <=> (raced \/ \E r \in Requests : Running(r))
        /\ lock' <=> (lock /\ TmpSurvives)
        /\ live' = conf["hostname"]
        /\ UNCHANGED <<conf, original, link, uncopied>>
    BY DEF PowerCut
  <1>2. \A r \in Requests : ~Running(r)' /\ run'[r].cmd = "get" /\ run'[r].at = 1
    BY <1>1 DEF Running, Idle
  <1>3. OneRuns' /\ LinkReplaced'
    BY <1>1, <1>2 DEF OneRuns, LinkReplaced
  <1>4. NotBegun' /\ CopiesMade' /\ RestoredSoFar'
    BY <1>2 DEF NotBegun, CopiesMade, RestoredSoFar
  <1>5. CopiesTrue'
    BY <1>1, FactoryIs DEF CopiesTrue, AsMade
  <1>6. QED  BY <1>3, <1>4, <1>5

LEMMA RStep == SInv /\ RInv /\ [Next]_vars => RInv'
  <1> SUFFICES ASSUME SInv, RInv, [Next]_vars  PROVE RInv'
    OBVIOUS
  <1>1. CASE \E r \in Requests : Ask(r) \/ Manage(r)
    BY <1>1, LockStep, LinkStep, CopyStep, CopiesStep, RestoreStep DEF RInv
  <1>2. CASE Loop \/ Px \/ PhoneReads \/ PhoneHome \/ PhoneApplies \/ UNCHANGED vars
    <2>1. UNCHANGED <<files, lock, run, raced, uncopied>>
      BY <1>2 DEF Loop, LoopReads, LoopOpens, LoopSaves, PanelStarts, Px, PxReads, PxReplaces,
                  PhoneReads, PhoneHome, PhoneOpens, PhoneSaves, PhoneEnds, PhoneApplies,
                  history, vars
    <2>2. OneRuns' /\ NotBegun' /\ LinkReplaced'
      BY <2>1 DEF RInv, OneRuns, NotBegun, LinkReplaced, Running, files
    <2>3. CopiesTrue' /\ CopiesMade' /\ RestoredSoFar'
      BY <2>1 DEF RInv, CopiesTrue, CopiesMade, RestoredSoFar, Running, AsMade, files
    <2>4. QED  BY <2>2, <2>3 DEF RInv
  <1>3. QED  BY <1>1, <1>2, CutRestores DEF Next

(* The lock file is there exactly while a command runs, and the link that    *)
(* nginx serves by is only missing while set_staticsite replaces it, until   *)
(* two commands are mixed or one is cut short (ConnectBoxManage.sh's lock    *)
(* file and its trap, set_staticsite).                                       *)
THEOREM LockAndLinkKept == Spec => []NothingLeftBehind
  <1>1. SInv /\ RInv => NothingLeftBehind
    <2> SUFFICES ASSUME SInv, RInv, ~raced
                 PROVE  /\ lock <=> \E r \in Requests : Running(r)
                        /\ link = None => \E r \in Requests : At(r, "link")
      BY DEF NothingLeftBehind
    <2>1. lock <=> \E r \in Requests : Running(r)
      BY DEF RInv, OneRuns
    <2>2. ASSUME link = None  PROVE \E r \in Requests : At(r, "link")
      BY <2>2, AtLink DEF RInv, LinkReplaced, SInv
    <2>3. QED  BY <2>1, <2>2
  <1>2. QED  BY <1>1, SInit, RInit, SStep, RStep, PTL DEF Spec

(* A reset that answers SUCCESS has put every configuration file and the     *)
(* hostname in use back as the box was made, whatever commands ran or failed *)
(* half way before, as long as no two were mixed (reset, and the copies that *)
(* commands make before their first change) - every file but hostapd.conf,   *)
(* if set_client_wificountry changed it before there was a copy of it.       *)
THEOREM ResetGivesFactory == Spec => ResetRestores
  <1>1. SInv /\ RInv /\ [Next]_vars
        => \A r \in Requests :
              Running(r) /\ run[r].cmd = "reset" /\ Over(r) /\ ~Running(r)' /\ ~raced'
              => /\ \A f \in Files : conf[f] = Factory[f] \/ (f = "hostapd" /\ uncopied)
                 /\ live = First
    <2> SUFFICES ASSUME SInv, RInv, [Next]_vars, NEW r \in Requests, Running(r),
                        run[r].cmd = "reset", Over(r), ~raced'
                 PROVE  /\ \A f \in Files : conf[f] = Factory[f] \/ (f = "hostapd" /\ uncopied)
                        /\ live = First
      OBVIOUS
    <2>1. ~raced
      <3>1. raced => raced'
        <4>1. CASE \E q \in Requests : Ask(q) \/ Manage(q)
          BY <4>1, RunSteps DEF RInv, Starts, TouchLock, Goes, Ends
        <4>2. CASE Loop \/ Px \/ PhoneReads \/ PhoneHome \/ PhoneApplies \/ UNCHANGED vars
          BY <4>2 DEF Loop, LoopReads, LoopOpens, LoopSaves, PanelStarts, Px, PxReads, PxReplaces,
                      PhoneReads, PhoneHome, PhoneOpens, PhoneSaves, PhoneEnds, PhoneApplies,
                      history, vars
        <4>3. CASE PowerCut
          BY <4>3 DEF PowerCut
        <4>4. QED  BY <4>1, <4>2, <4>3 DEF Next
      <3>2. QED  BY <3>1
    <2>2. run[r].at > 6
      <3>1. Script["reset"] = <<Restore("password"), Restore("hostapd"), Restore("hostname"),
                                Restore("hosts"), Restore("ui"), <<"restart", "hostapd">> >>
        BY DEF Script
      <3>2. Len(Script["reset"]) = 6
        BY <3>1
      <3>3. QED  BY <3>2 DEF Over
    <2>3. \A k \in 1 .. 5 : run[r].at > k => AsMade(Order[k], conf[Order[k]])
      BY <2>1 DEF RInv, RestoredSoFar
    <2>4. live = First
      <3>1. run[r].at > 3
        BY <2>2 DEF SInv, RunType, Runs
      <3>2. QED  BY <2>1, <3>1 DEF RInv, RestoredSoFar
    <2>5. \A k \in 1 .. 5 : AsMade(Order[k], conf[Order[k]])
      <3>1. run[r].at \in Nat
        BY DEF SInv, RunType, Runs
      <3>2. \A k \in 1 .. 5 : run[r].at > k
        BY <2>2, <3>1
      <3>3. QED  BY <2>3, <3>2
    <2>6. \A f \in Files : \E k \in 1 .. 5 : f = Order[k]
      BY DEF Files, Order
    <2>7. \A f \in Files : AsMade(f, conf[f])
      BY <2>5, <2>6
    <2>8. QED  BY <2>4, <2>7 DEF AsMade
  <1>2. QED  BY <1>1, SInit, RInit, SStep, RStep, PTL DEF Spec, ResetRestores
=============================================================================
