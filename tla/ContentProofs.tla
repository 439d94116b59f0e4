---------------------------- MODULE ContentProofs ----------------------------
(***************************************************************************)
(* What the menus and their interface always hold, for any languages,      *)
(* folders and files: the interface is in the English of today, a          *)
(* correction by hand outlives every later run, a card opens its own file, *)
(* and the walk lists exactly the files and tiles it should.  The last two *)
(* rest on inductive invariants, MInv of the names and WalkInv of the walk. *)
(***************************************************************************)
EXTENDS Content, FiniteSetTheorems, NaturalsInduction, WellFoundedInduction,
        SequenceTheorems, TLAPS

-----------------------------------------------------------------------------
(* The interface                                                           *)

\* Whatever is saved and found, a text shown is of the strings as they are.
LEMMA TextIsOfToday ==
  ASSUME NEW c, NEW found PROVE TextOf(c, found).en = english
<1>1. CASE c \notin Translated \/ (~Valid(c) /\ TransCode[c] \notin found)
  BY <1>1 DEF TextOf
<1>2. CASE ~(c \notin Translated \/ (~Valid(c) /\ TransCode[c] \notin found)) /\ Valid(c)
  BY <1>2 DEF TextOf, Valid
<1>3. CASE ~(c \notin Translated \/ (~Valid(c) /\ TransCode[c] \notin found)) /\ ~Valid(c)
  BY <1>3 DEF TextOf, LookedUp
<1> QED
  BY <1>1, <1>2, <1>3

LEMMA WrittenOfToday ==
  ASSUME NEW langs, WriteInterfaces(langs)
  PROVE  \A l \in DOMAIN shown' : shown'[l].en = english
<1>1. PICK found : shown' = [l \in langs |-> TextOf(l, found)]
  BY DEF WriteInterfaces
<1> QED
  BY <1>1, TextIsOfToday

\* The interface is written as a run ends and whenever its stick comes back
\* (FinalizeOutput, Restore), and whatever ages it (Upgrade, Correct,
\* PowerCut) is before the next return: the text shown is never of an older
\* English.
THEOREM InterfaceStaysCurrent == Spec => []TextIsCurrent
<1>1. Init => TextIsCurrent
  BY DEF Init, TextIsCurrent
<1>2. TextIsCurrent /\ [Next]_vars => TextIsCurrent'
  <2> SUFFICES ASSUME TextIsCurrent, [Next]_vars PROVE TextIsCurrent'
    OBVIOUS
  <2>1. CASE FinalizeOutput
    <3>1. CASE WithCards = {}
      BY <2>1, <3>1 DEF FinalizeOutput, TextIsCurrent
    <3>2. CASE WithCards # {}
      <4>1. WriteInterfaces(WithCards) /\ english' = english
        BY <2>1, <3>2 DEF FinalizeOutput
      <4> QED
        BY <4>1, WrittenOfToday DEF TextIsCurrent
    <3> QED
      BY <3>1, <3>2
  <2>2. CASE Restore
    <3>1. WriteInterfaces(DOMAIN shown) /\ english' = english
      BY <2>2 DEF Restore, Restores
    <3> QED
      BY <3>1, WrittenOfToday DEF TextIsCurrent
  <2>3. CASE DetectLanguageDirs \/ FindComplexDirs \/ ProcessComplexDirs \/ CrossListZimCards
    BY <2>3 DEF DetectLanguageDirs, FindComplexDirs, ProcessComplexDirs, CrossListZimCards,
                TextIsCurrent
  <2>4. CASE SkipRoot \/ PulledOut
    BY <2>4 DEF SkipRoot, PulledOut, TextIsCurrent
  <2>5. CASE Visit
    <3>1. pc' \in {"walk", "out"}
      BY <2>5 DEF Visit
    <3> QED
      BY <3>1 DEF TextIsCurrent
  <2>6. CASE RestoreUnread \/ Upgrade \/ Correct \/ PowerCut
    BY <2>6 DEF RestoreUnread, Upgrade, Correct, PowerCut, TextIsCurrent
  <2>7. CASE UNCHANGED vars
    BY <2>7 DEF vars, texts, TextIsCurrent
  <2> QED
    BY <2>1, <2>2, <2>3, <2>4, <2>5, <2>6, <2>7 DEF Next
<1> QED
  BY <1>1, <1>2, PTL DEF Spec

\* What one run shows in a language, all translations of its code being
\* valid, is what was saved, and the file is not written again.
LEMMA ValidIsKept ==
  ASSUME ContentAssumption, NEW langs, WriteInterfaces(langs),
         NEW l \in langs \cap Translated, Valid(l)
  PROVE  /\ saved'[TransCode[l]] = saved[TransCode[l]]
         /\ shown'[l] = saved[TransCode[l]]
<1> DEFINE wanted == {TransCode[c] : c \in {k \in langs \cap Translated : ~Valid(k)}}
<1>1. PICK found \in SUBSET wanted :
        /\ saved' = [x \in Codes |-> IF x \in found THEN LookedUp ELSE saved[x]]
        /\ shown' = [k \in langs |-> TextOf(k, found)]
  BY DEF WriteInterfaces
<1>2. TransCode[l] \in Codes
  BY DEF ContentAssumption, Translated
<1>3. TransCode[l] \notin found
  BY DEF Valid
<1>4. TextOf(l, found) = saved[TransCode[l]]
  BY DEF TextOf
<1> QED
  BY <1>1, <1>2, <1>3, <1>4

\* get_interface_for_language: a translation that is valid is neither looked
\* up nor written, so a correction stays until the English changes.
THEOREM CorrectionsAreKept == Spec => CorrectionsKept
<1>1. Next => \/ ~(pc' = "restored")
              \/ Restore
              \/ UNCHANGED vars
  <2> SUFFICES ASSUME Next, pc' = "restored" PROVE Restore
    OBVIOUS
  <2>1. ~(DetectLanguageDirs \/ FindComplexDirs \/ ProcessComplexDirs \/ CrossListZimCards)
    BY DEF DetectLanguageDirs, FindComplexDirs, ProcessComplexDirs, CrossListZimCards
  <2>2. ~(SkipRoot \/ PulledOut \/ FinalizeOutput)
    BY DEF SkipRoot, PulledOut, FinalizeOutput
  <2>3. ~(RestoreUnread \/ Upgrade \/ Correct \/ PowerCut)
    BY DEF RestoreUnread, Upgrade, Correct, PowerCut
  <2>4. ~Visit
    BY DEF Visit
  <2> QED
    BY <2>1, <2>2, <2>3, <2>4 DEF Next
<1>2. [Next]_vars =>
        [pc' = "restored" =>
           \A l \in DOMAIN shown \cap Translated :
             Valid(l) /\ saved[TransCode[l]].by = "hand"
               => /\ saved'[TransCode[l]] = saved[TransCode[l]]
                  /\ shown'[l] = saved[TransCode[l]]]_vars
  <2> SUFFICES ASSUME Restore,
                      NEW l \in DOMAIN shown \cap Translated, Valid(l)
               PROVE  /\ saved'[TransCode[l]] = saved[TransCode[l]]
                      /\ shown'[l] = saved[TransCode[l]]
    BY <1>1
  <2>1. WriteInterfaces(DOMAIN shown)
    BY DEF Restore
  <2> QED
    BY <2>1, ValidIsKept, ContentAssumption
<1> QED
  BY <1>2, PTL DEF Spec, CorrectionsKept
-----------------------------------------------------------------------------
(* The names in media/                                                     *)

LEMMA Smallest ==
  ASSUME NEW T \in SUBSET Nat, T # {}
  PROVE  \E x \in T : \A y \in T : x <= y
<1> DEFINE Less == {p \in Nat \X Nat : p[1] < p[2]}
<1>1. IsWellFoundedOn(Less, Nat)
  BY NatLessThanWellFounded DEF OpToRel
<1>2. \A x, y \in Nat : x < y => <<x, y>> \in Less
  OBVIOUS
<1> HIDE DEF Less
<1>3. PICK x \in T : \A y \in T : ~(<<y, x>> \in Less)
  BY <1>1, WFMin
<1>4. \A y \in T : x <= y
  <2> TAKE y \in T
  <2>1. x \in Nat /\ y \in Nat
    OBVIOUS
  <2>2. ~(y < x)
    BY <1>2, <1>3, <2>1
  <2> QED
    BY <2>1, <2>2
<1> QED
  BY <1>4

\* The forms of the names that unique_media_name gives to a file f.
Shaped(m, f) == m = <<f>> \/ \E b : \E n : m = <<f, b, n>>

\* There is always a name left: more numbers are tried than names are taken.
LEMMA SomeNameIsFree ==
  ASSUME NEW lang, NEW p, NEW f, IsFiniteSet(DOMAIN names)
  PROVE  \E n \in 1 .. Cardinality(DOMAIN names) + 1 : MayUse(lang, <<f, Base(p), n>>, <<p, f>>)
<1> DEFINE N == Cardinality(DOMAIN names)
           Try(n) == <<lang, <<f, Base(p), n>>>>
<1>1. N \in Nat
  BY FS_CardinalityType
<1> SUFFICES ASSUME \A n \in 1 .. N + 1 : ~MayUse(lang, <<f, Base(p), n>>, <<p, f>>)
             PROVE  FALSE
  OBVIOUS
<1>2. \A n \in 1 .. N + 1 : Try(n) \in DOMAIN names
  BY DEF MayUse
<1> DEFINE tries == [n \in 1 .. N + 1 |-> Try(n)]
<1>3. tries \in [1 .. N + 1 -> DOMAIN names]
  BY <1>2
<1>4. IsFiniteSet(1 .. N + 1) /\ Cardinality(1 .. N + 1) = N + 1
  BY <1>1, FS_Interval
<1>5. PICK x, y \in 1 .. N + 1 : x # y /\ tries[x] = tries[y]
  <2> HIDE DEF tries
  <2>1. Cardinality(DOMAIN names) < Cardinality(1 .. N + 1)
    BY <1>1, <1>4
  <2> QED
    BY <1>3, <1>4, <2>1, FS_PigeonHole
<1>6. Try(x) = Try(y)
  BY <1>5
<1> QED
  BY <1>5, <1>6

\* unique_media_name: the name is of one of the two forms, and free or a copy's.
LEMMA NameIsUsable ==
  ASSUME NEW lang, NEW p, NEW f, IsFiniteSet(DOMAIN names)
  PROVE  /\ Shaped(UniqueMediaName(lang, p, f), f)
         /\ MayUse(lang, UniqueMediaName(lang, p, f), <<p, f>>)
<1>1. CASE MayUse(lang, <<f>>, <<p, f>>)
  BY <1>1 DEF UniqueMediaName, Shaped
<1>2. CASE ~MayUse(lang, <<f>>, <<p, f>>)
  <2> DEFINE Free(n) == MayUse(lang, <<f, Base(p), n>>, <<p, f>>)
             M == Cardinality(DOMAIN names) + 1
             T == {n \in 1 .. M : Free(n)}
             First(n) == Free(n) /\ \A k \in 1 .. n - 1 : ~Free(k)
  <2>1. M \in Nat
    BY FS_CardinalityType
  <2>2. T # {} /\ T \subseteq Nat
    <3>1. \E n \in 1 .. M : Free(n)
      BY SomeNameIsFree
    <3>2. T \subseteq Nat
      BY <2>1
    <3> QED
      BY <3>1, <3>2
  <2>3. PICK x \in T : \A y \in T : x <= y
    <3> HIDE DEF T
    <3> QED
      BY <2>2, Smallest
  <2>4. x \in 1 .. M /\ First(x)
    <3>1. x \in 1 .. M /\ Free(x)
      OBVIOUS
    <3>2. ASSUME NEW k \in 1 .. x - 1, Free(k) PROVE FALSE
      <4>1. k \in 1 .. M /\ k < x
        BY <2>1, <3>1
      <4>2. k \in T
        BY <3>2, <4>1
      <4> QED
        BY <2>3, <4>1, <4>2, <3>1
    <3> QED
      BY <3>1, <3>2
  <2> DEFINE c == CHOOSE n \in 1 .. M : First(n)
  <2>5. First(c)
    <3> HIDE DEF First, M
    <3> QED
      BY <2>4
  <2>6. UniqueMediaName(lang, p, f) = <<f, Base(p), c>>
    BY <1>2 DEF UniqueMediaName
  <2> QED
    BY <2>5, <2>6 DEF Shaped
<1> QED
  BY <1>1, <1>2
-----------------------------------------------------------------------------
(* The cards of a folder and their slugs                                   *)

Web(f)   == f \in Index \cup {App}
Whole(c) == c = [lang |-> c.lang, dir |-> c.dir, file |-> c.file, media |-> c.media, in |-> c.in]

\* The name in media/ of a media file's card has the form that goes with the file.
Formed(c) == ~Web(c.file) => Shaped(c.media, c.file)

LEMMA ShapedParts ==
  ASSUME NEW m, NEW f, Shaped(m, f)
  PROVE  /\ m[1] = f
         /\ \A a : \A b : m # <<a, b>>
         /\ \A a : m = <<a>> => a = f
<1>1. CASE m = <<f>>
  BY <1>1
<1>2. CASE \E b : \E n : m = <<f, b, n>>
  BY <1>2
<1> QED
  BY <1>1, <1>2 DEF Shaped

\* A card with a slug that none shares has it from its own name.
LEMMA SlugTellsFile ==
  ASSUME NEW c, ~SharesSlug(c), NEW k \in cards, k.file # "", k.lang = c.lang,
         Slug(k) = Slug(c)
  PROVE  k.in = "" /\ k.file = c.file /\ k.media = c.media
BY DEF SharesSlug, Blanks

\* More cards do not part two that share a slug.
LEMMA SharedStays ==
  ASSUME cards \subseteq cards', NEW c, SharesSlug(c) PROVE SharesSlug(c)'
<1>1. PICK k \in cards \ Blanks :
        /\ k.lang = c.lang /\ Slug(k) = Slug(c)
        /\ ~(k.in = "" /\ k.file = c.file /\ k.media = c.media)
  BY DEF SharesSlug
<1>2. k \in cards' \ Blanks'
  BY <1>1 DEF Blanks
<1>3. Slug(k)' = Slug(k) /\ Slug(c)' = Slug(c)
  BY DEF Slug
<1> QED
  BY <1>1, <1>2, <1>3 DEF SharesSlug

-----------------------------------------------------------------------------
(* Every card opens its own file: the invariant                            *)

\* Its name in media/ leads to what its file holds, and so does its data file.
Linked(c) ==
  /\ <<c.lang, c.media>> \in DOMAIN names
  /\ LookOf(names[<<c.lang, c.media>>]) = LookOf(<<c.dir, c.file>>)
  /\ c.in = "" => /\ <<c.lang, Slug(c)>> \in DOMAIN pages
                  /\ \/ SharesSlug(c)
                     \/ LookOf(pages[<<c.lang, Slug(c)>>]) = LookOf(<<c.dir, c.file>>)

FoldersKnown ==
  /\ todo \in Seq(Dirs) /\ order \in Seq(Dirs) /\ IsFiniteSet(Dirs) /\ <<>> \in Dirs
  /\ \A p \in Dirs : "" \notin DOMAIN stick[p] /\ IsFiniteSet(DOMAIN stick[p])
CardsFormed == \A c \in cards : c.file # "" => Whole(c) /\ Formed(c)
CardsLinked == \A c \in cards : ~Web(c.file) /\ c.file \notin {Zim, ""} => Linked(c)

MInv == FoldersKnown /\ IsFiniteSet(DOMAIN names) /\ CardsFormed /\ CardsLinked

LEMMA LinkedOpen == MInv => OpensOwn
<1> SUFFICES ASSUME CardsLinked PROVE OpensOwn
  BY DEF MInv
<1>1. ASSUME NEW c \in cards, c.file \notin Index \cup {App, Zim, ""}
      PROVE  Linked(c)
  BY <1>1 DEF CardsLinked, Web
<1> QED
  BY <1>1 DEF OpensOwn, Linked

LEMMA NothingYet == \A S : <<>> \in Seq(S) /\ IsFiniteSet(DOMAIN <<>>)
<1>1. DOMAIN <<>> = {}
  OBVIOUS
<1> QED
  BY <1>1, EmptySeq, FS_EmptySet

LEMMA InitLinked == ASSUME ContentAssumption, Init PROVE MInv
<1>1. PICK ps \in Shapes, r \in RootListings :
        \E l \in [ps -> Listings] :
          stick = [p \in ps \cup {<<>>} |-> IF p = <<>> THEN r ELSE l[p]]
  BY DEF Init
<1>2. PICK l \in [ps -> Listings] :
        stick = [p \in ps \cup {<<>>} |-> IF p = <<>> THEN r ELSE l[p]]
  BY <1>1
<1>3. /\ Dirs = ps \cup {<<>>}
      /\ \A p \in Dirs : stick[p] \in Listings \cup RootListings
  BY <1>2 DEF Dirs
<1>5. \A p \in Dirs : "" \notin DOMAIN stick[p] /\ IsFiniteSet(DOMAIN stick[p])
  BY <1>3 DEF ContentAssumption
<1>6. todo = <<>> /\ order = <<>> /\ names = <<>> /\ cards = {}
  BY DEF Init, NoCards
<1>7. IsFiniteSet(DOMAIN names)
  BY <1>6, NothingYet, Zenon
<1>8. IsFiniteSet(Dirs)
  BY <1>3, FS_AddElement DEF ContentAssumption
<1>9. <<>> \in Dirs
  BY <1>3
<1>10. FoldersKnown
  <2>1. todo \in Seq(Dirs) /\ order \in Seq(Dirs)
    BY <1>6, NothingYet, Zenon
  <2> QED
    BY <1>5, <1>8, <1>9, <2>1 DEF FoldersKnown
<1> QED
  BY <1>6, <1>7, <1>10 DEF MInv, FoldersKnown, CardsFormed, CardsLinked

-----------------------------------------------------------------------------
(* One folder's cards                                                      *)

\* Every file has a name; a card without one stands for a folder.
LEMMA FilesAreNamed ==
  ASSUME FoldersKnown, NEW p \in Dirs, NEW d,
         d.files \subseteq OwnFiles(p) \cup {"index.html"}, NEW f \in Listed(p, d)
  PROVE  f # ""
<1>1. f \in d.files
  BY DEF Listed
<1> QED
  BY <1>1 DEF OwnFiles, FoldersKnown

\* process_file_entry: the card of a file of folder p.
LEMMA CardIsFormed ==
  ASSUME FoldersKnown, IsFiniteSet(DOMAIN names), NEW p \in Dirs, NEW d, NEW lang,
         d.files \subseteq OwnFiles(p) \cup {"index.html"}, NEW f \in Listed(p, d),
         NEW c, c = CardOf(p, f, d, lang)
  PROVE  /\ c.lang = lang /\ c.dir = p /\ c.file = f /\ Whole(c) /\ Formed(c)
         /\ ~Web(f) /\ f # Zim => MayUse(lang, c.media, <<p, f>>)
<1>1. /\ c.lang = lang /\ c.dir = p /\ c.file = f /\ Whole(c)
      /\ c.media = IF Web(f) THEN <<Base(p)>>
                   ELSE IF f = Zim THEN <<f>> ELSE UniqueMediaName(lang, p, f)
      /\ f = Zim => c.in = ""
  BY DEF CardOf, Web, Whole
<1>3. f # ""
  BY FilesAreNamed
<1>5. ~Web(Zim)
  BY DEF Web, Index, App, Zim
<1>6. CASE Web(f)
  BY <1>1, <1>5, <1>6 DEF Formed, Web, Zim, App, Index
<1>7. CASE f = Zim
  <2>1. c.media = <<f>> /\ c.file = f
    BY <1>1, <1>5, <1>7
  <2>2. Shaped(c.media, c.file)
    BY <2>1 DEF Shaped
  <2> QED
    BY <1>1, <1>3, <1>7, <2>2 DEF Formed
<1>8. CASE ~Web(f) /\ f # Zim
  <2>1. Shaped(c.media, f) /\ MayUse(lang, c.media, <<p, f>>)
    BY <1>1, <1>8, NameIsUsable
  <2> QED
    BY <1>1, <1>3, <1>8, <2>1 DEF Formed
<1> QED
  BY <1>1, <1>3, <1>6, <1>7, <1>8

\* What Update and PagesOf hold.
LEMMA UpdateParts ==
  ASSUME NEW f, NEW new
  PROVE  /\ DOMAIN Update(f, new) = DOMAIN f \cup DOMAIN new
         /\ \A x \in DOMAIN new : Update(f, new)[x] = new[x]
         /\ \A x \in DOMAIN f : x \notin DOMAIN new => Update(f, new)[x] = f[x]
BY DEF Update

LEMMA PageIsOfOne ==
  ASSUME NEW new
  PROVE  /\ DOMAIN PagesOf(new) = {<<c.lang, Slug(c)>> : c \in new}
         /\ \A x \in DOMAIN PagesOf(new) :
              \E k \in new : <<k.lang, Slug(k)>> = x /\ PagesOf(new)[x] = About(k)
<1>1. DOMAIN PagesOf(new) = {<<c.lang, Slug(c)>> : c \in new}
  BY DEF PagesOf
<1>2. ASSUME NEW x \in DOMAIN PagesOf(new)
      PROVE  \E k \in new : <<k.lang, Slug(k)>> = x /\ PagesOf(new)[x] = About(k)
  <2> DEFINE k == CHOOSE c \in new : <<c.lang, Slug(c)>> = x
  <2>1. k \in new /\ <<k.lang, Slug(k)>> = x
    BY <1>1, <1>2
  <2>2. PagesOf(new)[x] = About(k)
    BY <1>1, <1>2 DEF PagesOf
  <2> QED
    BY <2>1, <2>2
<1> QED
  BY <1>1, <1>2

\* After a folder all its cards, and all earlier ones, open their own files:
\* names are kept, and a data file is only written again by a copy.
LEMMA AddFilesKeepsLinks ==
  ASSUME MInv, UNCHANGED stick,
         NEW p \in Dirs, NEW d, NEW lang, d.files \subseteq OwnFiles(p) \cup {"index.html"},
         AddFiles(p, d, lang)
  PROVE  IsFiniteSet(DOMAIN names)' /\ CardsFormed' /\ CardsLinked'
<1> DEFINE new   == {CardOf(p, f, d, lang) : f \in Listed(p, d)}
           media == {c \in new : c.file \notin Index \cup {App, Zim}}
           owner == [x \in {<<lang, c.media>> : c \in media} |->
                      <<p, (CHOOSE c \in media : c.media = x[2]).file>>]
<1>1. /\ cards' = cards \cup new \cup Blank(p, d, lang)
      /\ names' = Update(owner, names)
      /\ pages' = Update(pages, PagesOf(new))
  BY DEF AddFiles
<1>2. \A c \in new : /\ c.lang = lang /\ c.dir = p /\ Whole(c) /\ Formed(c) /\ c.file # ""
                     /\ c.file \in Listed(p, d)
                     /\ ~Web(c.file) /\ c.file # Zim => MayUse(lang, c.media, <<p, c.file>>)
  <2> SUFFICES ASSUME NEW f \in Listed(p, d), NEW c, c = CardOf(p, f, d, lang)
               PROVE  /\ c.lang = lang /\ c.dir = p /\ Whole(c) /\ Formed(c) /\ c.file # ""
                      /\ c.file \in Listed(p, d)
                      /\ ~Web(c.file) /\ c.file # Zim => MayUse(lang, c.media, <<p, c.file>>)
    OBVIOUS
  <2>1. FoldersKnown /\ IsFiniteSet(DOMAIN names)
    BY DEF MInv
  <2>2. /\ c.lang = lang /\ c.dir = p /\ c.file = f /\ Whole(c) /\ Formed(c)
        /\ ~Web(f) /\ f # Zim => MayUse(lang, c.media, <<p, f>>)
    BY <2>1, CardIsFormed
  <2>3. f # ""
    BY <2>1, FilesAreNamed
  <2> QED
    BY <2>2, <2>3
<1>3. \A c \in media : c \in new /\ ~Web(c.file) /\ c.file # Zim
  BY DEF Web
<1>4. \A c \in new : ~Web(c.file) /\ c.file # Zim => c \in media
  BY DEF Web
<1>5. \A c \in Blank(p, d, lang) : c.file = ""
  <2>1. CASE Blank(p, d, lang) = {}
    BY <2>1
  <2>2. CASE Blank(p, d, lang) = {[lang |-> lang, dir |-> p, file |-> "", media |-> <<"">>, in |-> ""]}
    <3>1. ASSUME NEW c, c = [lang |-> lang, dir |-> p, file |-> "", media |-> <<"">>, in |-> ""]
          PROVE  c.file = ""
      BY <3>1
    <3> QED
      BY <2>2, <3>1
  <2> QED
    BY <2>1, <2>2 DEF Blank
<1>6. DOMAIN owner = {<<lang, c.media>> : c \in media}
  OBVIOUS
<1>7. \A c \in media : owner[<<lang, c.media>>] = <<p, c.file>>
  <2> SUFFICES ASSUME NEW c \in media PROVE owner[<<lang, c.media>>] = <<p, c.file>>
    OBVIOUS
  <2> DEFINE k == CHOOSE e \in media : e.media = c.media
  <2>1. k \in media /\ k.media = c.media
    OBVIOUS
  <2>2. owner[<<lang, c.media>>] = <<p, k.file>>
    OBVIOUS
  <2> HIDE DEF k, media, owner
  <2>3. Shaped(c.media, c.file) /\ Shaped(k.media, k.file)
    BY <1>2, <1>3, <2>1 DEF Formed
  <2>4. k.file = c.file
    BY <2>1, <2>3, ShapedParts
  <2> QED
    BY <2>2, <2>4
<1> HIDE DEF owner
<1>8. /\ DOMAIN names' = DOMAIN names \cup DOMAIN owner
      /\ \A x \in DOMAIN names : names'[x] = names[x]
      /\ \A x \in DOMAIN owner : x \notin DOMAIN names => names'[x] = owner[x]
  <2> DEFINE u == Update(owner, names)
  <2>1. DOMAIN u = DOMAIN owner \cup DOMAIN names
    BY UpdateParts
  <2>2. \A x \in DOMAIN names : u[x] = names[x]
    BY UpdateParts
  <2>3. \A x \in DOMAIN owner : x \notin DOMAIN names => u[x] = owner[x]
    BY UpdateParts
  <2> HIDE DEF u
  <2> QED
    BY <1>1, <2>1, <2>2, <2>3 DEF u
<1>9. \A c \in media : /\ <<lang, c.media>> \in DOMAIN names'
                       /\ LookOf(names'[<<lang, c.media>>]) = LookOf(<<p, c.file>>)
  <2> SUFFICES ASSUME NEW c \in media
               PROVE  /\ <<lang, c.media>> \in DOMAIN names'
                      /\ LookOf(names'[<<lang, c.media>>]) = LookOf(<<p, c.file>>)
    OBVIOUS
  <2>1. <<lang, c.media>> \in DOMAIN names'
    BY <1>6, <1>8
  <2>2. CASE <<lang, c.media>> \in DOMAIN names
    <3>1. MayUse(lang, c.media, <<p, c.file>>)
      BY <1>2, <1>3
    <3> QED
      BY <1>8, <2>1, <2>2, <3>1 DEF MayUse, SameContent
  <2>3. CASE <<lang, c.media>> \notin DOMAIN names
    BY <1>6, <1>7, <1>8, <2>1, <2>3
  <2> QED
    BY <2>1, <2>2, <2>3
<1>10. IsFiniteSet(DOMAIN names')
  <2>1. IsFiniteSet(DOMAIN names) /\ IsFiniteSet(DOMAIN stick[p])
    BY DEF MInv, FoldersKnown
  <2>2. IsFiniteSet(DOMAIN stick[p] \cup {"index.html"})
    BY <2>1, FS_AddElement
  <2>3. Listed(p, d) \subseteq DOMAIN stick[p] \cup {"index.html"}
    BY DEF Listed, OwnFiles
  <2>4. IsFiniteSet(Listed(p, d))
    BY <2>2, <2>3, FS_Subset
  <2> DEFINE name == [f \in Listed(p, d) |-> <<lang, CardOf(p, f, d, lang).media>>]
             named == {name[f] : f \in Listed(p, d)}
  <2>5. name \in Surjection(Listed(p, d), named)
    BY DEF Surjection
  <2>6. IsFiniteSet(named)
    <3> HIDE DEF name, named
    <3> QED
      BY <2>4, <2>5, FS_Surjection
  <2>7. DOMAIN owner \subseteq named
    BY <1>6
  <2>8. IsFiniteSet(DOMAIN owner)
    BY <2>6, <2>7, FS_Subset
  <2>9. IsFiniteSet(DOMAIN names \cup DOMAIN owner)
    BY <2>1, <2>8, FS_Union
  <2> QED
    BY <1>8, <2>9
<1> HIDE DEF new, media
<1>11. CardsFormed'
  BY <1>1, <1>2, <1>5 DEF MInv, CardsFormed, Whole, Formed
<1>12. ASSUME NEW c, ~Web(c.file), c.file # Zim, Formed(c), c.in = "",
              <<c.lang, Slug(c)>> \in DOMAIN PagesOf(new),
              <<c.lang, c.media>> \in DOMAIN names',
              LookOf(names'[<<c.lang, c.media>>]) = LookOf(<<c.dir, c.file>>)
       PROVE  \/ SharesSlug(c)'
              \/ LookOf(pages'[<<c.lang, Slug(c)>>]) = LookOf(<<c.dir, c.file>>)
  <2> SUFFICES ASSUME ~SharesSlug(c)'
               PROVE  LookOf(pages'[<<c.lang, Slug(c)>>]) = LookOf(<<c.dir, c.file>>)
    OBVIOUS
  <2> DEFINE x == <<c.lang, Slug(c)>>
  <2>1. pages'[x] = PagesOf(new)[x]
    <3> DEFINE data == PagesOf(new)
    <3>1. x \in DOMAIN data /\ pages' = Update(pages, data)
      BY <1>1, <1>12
    <3> HIDE DEF data, x
    <3>2. \A y \in DOMAIN data : Update(pages, data)[y] = data[y]
      BY UpdateParts
    <3> QED
      BY <3>1, <3>2 DEF data
  <2>2. PICK k \in new : <<k.lang, Slug(k)>> = x /\ PagesOf(new)[x] = About(k)
    BY <1>12, PageIsOfOne
  <2>3. k.lang = c.lang /\ k.lang = lang /\ k.dir = p /\ k.file # "" /\ Slug(k) = Slug(c)
    BY <1>2, <2>2
  <2>4. k.in = "" /\ k.file = c.file /\ k.media = c.media
    <3>1. k \in cards' \ Blanks'
      BY <1>1, <2>2, <2>3 DEF Blanks
    <3>2. Slug(k)' = Slug(k) /\ Slug(c)' = Slug(c)
      BY DEF Slug
    <3> QED
      BY <2>3, <3>1, <3>2 DEF SharesSlug
  <2>5. About(k) = <<p, k.file>>
    BY <1>12, <2>3, <2>4 DEF About, Web
  <2>6. LookOf(names'[<<lang, k.media>>]) = LookOf(<<p, k.file>>)
    BY <1>4, <1>9, <1>12, <2>4
  <2> QED
    BY <1>12, <2>1, <2>2, <2>3, <2>4, <2>5, <2>6
<1>13. \A x : LookOf(x)' = LookOf(x')
  BY DEF LookOf
<1>14. ASSUME NEW c \in cards', ~Web(c.file), c.file \notin {Zim, ""}
       PROVE  Linked(c)'
  <2>1. c \in cards \/ c \in new
    BY <1>1, <1>5, <1>14
  <2>2. /\ <<c.lang, c.media>> \in DOMAIN names'
        /\ LookOf(names'[<<c.lang, c.media>>]) = LookOf(<<c.dir, c.file>>)
    <3>1. CASE c \in cards
      <4>1. Linked(c)
        BY <1>14, <3>1 DEF MInv, CardsLinked
      <4> QED
        BY <1>8, <4>1 DEF Linked
    <3>2. CASE c \in new
      BY <1>2, <1>4, <1>9, <1>14, <3>2
    <3> QED
      BY <2>1, <3>1, <3>2
  <2>3. Formed(c)
    BY <1>2, <1>14, <2>1 DEF MInv, CardsFormed
  <2>4. ASSUME c.in = ""
        PROVE  /\ <<c.lang, Slug(c)>> \in DOMAIN pages'
               /\ \/ SharesSlug(c)'
                  \/ LookOf(pages'[<<c.lang, Slug(c)>>]) = LookOf(<<c.dir, c.file>>)
    <3>1. CASE <<c.lang, Slug(c)>> \in DOMAIN PagesOf(new)
      <4>1. <<c.lang, Slug(c)>> \in DOMAIN pages'
        BY <1>1, <3>1, UpdateParts
      <4> QED
        BY <1>12, <1>14, <2>2, <2>3, <2>4, <3>1, <4>1
    <3>2. CASE <<c.lang, Slug(c)>> \notin DOMAIN PagesOf(new)
      <4>1. c \notin new
        <5>1. DOMAIN PagesOf(new) = {<<k.lang, Slug(k)>> : k \in new}
          BY PageIsOfOne
        <5> QED
          BY <3>2, <5>1
      <4>2. Linked(c)
        BY <1>14, <2>1, <4>1 DEF MInv, CardsLinked
      <4>3. /\ <<c.lang, Slug(c)>> \in DOMAIN pages
            /\ SharesSlug(c) \/ LookOf(pages[<<c.lang, Slug(c)>>]) = LookOf(<<c.dir, c.file>>)
        BY <2>4, <4>2 DEF Linked
      <4>4. SharesSlug(c) => SharesSlug(c)'
        <5>1. cards \subseteq cards'
          BY <1>1
        <5> QED
          BY <5>1, SharedStays
      <4>5. /\ <<c.lang, Slug(c)>> \in DOMAIN pages'
            /\ pages'[<<c.lang, Slug(c)>>] = pages[<<c.lang, Slug(c)>>]
        BY <1>1, <3>2, <4>3, UpdateParts
      <4> QED
        BY <4>3, <4>4, <4>5
    <3> QED
      BY <3>1, <3>2
  <2> QED
    BY <2>2, <2>4 DEF Linked, LookOf, Slug
<1> QED
  BY <1>10, <1>11, <1>14 DEF CardsLinked

-----------------------------------------------------------------------------
(* The steps                                                               *)

\* os.walk's order of the subfolders of p.
LEMMA OrdersAreSeqs ==
  ASSUME IsFiniteSet(Dirs), NEW p, NEW ord \in SetToSeqs(SubDirs(p))
  PROVE  ord \in Seq(Dirs)
<1> DEFINE n == Cardinality(SubDirs(p))
<1>1. SubDirs(p) \subseteq Dirs
  BY DEF SubDirs
<1>2. n \in Nat
  BY <1>1, FS_Subset, FS_CardinalityType
<1>3. ord \in [1 .. n -> SubDirs(p)]
  BY DEF SetToSeqs
<1>4. ord \in [1 .. n -> Dirs]
  BY <1>1, <1>3
<1> QED
  BY <1>2, <1>4

\* Steps that make no card only have to keep to the stick's folders.
LEMMA CardsKept ==
  ASSUME MInv, UNCHANGED <<stick, cards, names, pages>>,
         todo' \in Seq(Dirs), order' \in Seq(Dirs)
  PROVE  MInv'
<1>1. FoldersKnown'
  BY DEF MInv, FoldersKnown, Dirs, Base
<1>2. IsFiniteSet(DOMAIN names)'
  BY DEF MInv
<1>3. CardsFormed'
  BY DEF MInv, CardsFormed
<1>4. CardsLinked'
  BY DEF MInv, CardsLinked, Linked, LookOf, SharesSlug, Blanks, Slug
<1> QED
  BY <1>1, <1>2, <1>3, <1>4 DEF MInv

LEMMA JudgedFiles ==
  ASSUME NEW p, NEW lang
  PROVE  Judged(p, lang).files \subseteq OwnFiles(p) \cup {"index.html"}
<1>1. \A ind : FilesIn(p, ind) \subseteq OwnFiles(p) \cup {"index.html"}
  BY DEF FilesIn
<1>2. \E ind : Judged(p, lang).files = FilesIn(p, ind)
  BY DEF Judged
<1> QED
  BY <1>1, <1>2

LEMMA VisitKeepsLinks ==
  ASSUME MInv, Visit PROVE MInv'
<1> DEFINE p == todo[1]
           lang == IF IsLanguageDir(p) THEN p[1] ELSE language
           d == Judged(p, lang)
<1>1. /\ todo # <<>>
      /\ \E ord \in IF p = <<>> THEN {order} ELSE SetToSeqs(SubDirs(p)) :
           todo' = (IF d.leave THEN <<>> ELSE ord) \o Tail(todo)
      /\ UNCHANGED <<stick, order>>
      /\ AddFiles(p, d, lang) \/ UNCHANGED <<cards, names, pages>>
  BY DEF Visit
<1>2. d.files \subseteq OwnFiles(p) \cup {"index.html"}
  BY JudgedFiles
<1> HIDE DEF d, lang
<1>3. todo \in Seq(Dirs) /\ order \in Seq(Dirs) /\ IsFiniteSet(Dirs)
  BY DEF MInv, FoldersKnown
<1>4. p \in Dirs /\ Tail(todo) \in Seq(Dirs)
  BY <1>1, <1>3
<1>5. todo' \in Seq(Dirs) /\ order' \in Seq(Dirs)
  <2>1. PICK ord \in IF p = <<>> THEN {order} ELSE SetToSeqs(SubDirs(p)) :
          todo' = (IF d.leave THEN <<>> ELSE ord) \o Tail(todo)
    BY <1>1
  <2> HIDE DEF p
  <2>2. ord \in Seq(Dirs)
    BY <1>3, OrdersAreSeqs
  <2>3. todo' \in Seq(Dirs)
    <3>1. CASE d.leave
      <4>1. todo' = <<>> \o Tail(todo)
        BY <2>1, <3>1
      <4> QED
        BY <1>4, <4>1
    <3>2. CASE ~d.leave
      <4>1. todo' = ord \o Tail(todo)
        BY <2>1, <3>2
      <4> QED
        BY <1>4, <2>2, <4>1
    <3> QED
      BY <3>1, <3>2
  <2> QED
    BY <1>1, <1>3, <2>3
<1>6. CASE UNCHANGED <<cards, names, pages>>
  BY <1>1, <1>5, <1>6, CardsKept
<1>7. CASE AddFiles(p, d, lang)
  <2>1. IsFiniteSet(DOMAIN names)' /\ CardsFormed' /\ CardsLinked'
    <3> HIDE DEF p
    <3> QED
      BY <1>1, <1>2, <1>4, <1>7, AddFilesKeepsLinks
  <2>2. FoldersKnown'
    BY <1>1, <1>5 DEF MInv, FoldersKnown, Dirs, Base
  <2> QED
    BY <2>1, <2>2 DEF MInv
<1> QED
  BY <1>1, <1>6, <1>7

\* cross_list_zim_cards: only the data files of ZIM cards are written.
LEMMA CrossListKeepsLinks ==
  ASSUME MInv, CrossListZimCards PROVE MInv'
<1> DEFINE new == cards' \ cards
<1>1. /\ UNCHANGED <<stick, todo, order, names>>
      /\ cards \subseteq cards' /\ new \subseteq CrossListed
      /\ pages' = Update(pages, PagesOf(new))
  BY DEF CrossListZimCards, walk
<1> HIDE DEF new
<1>2. ASSUME NEW k \in CrossListed
      PROVE  k.file = Zim /\ Whole(k) /\ Formed(k)
  <2>1. PICK l \in ZimTargets :
          k = [(CHOOSE c \in ZimCards : ~Same(l, c.lang)) EXCEPT !.lang = l]
    BY DEF CrossListed
  <2> DEFINE c == CHOOSE e \in ZimCards : ~Same(l, e.lang)
  <2>2. c \in ZimCards
    BY DEF ZimTargets
  <2>3. k = [c EXCEPT !.lang = l]
    BY <2>1
  <2> HIDE DEF c
  <2>4. c \in cards /\ c.file = Zim /\ Zim # ""
    BY <2>2 DEF ZimCards, Zim
  <2>5. Whole(c) /\ Formed(c)
    BY <2>4 DEF MInv, CardsFormed
  <2>6. /\ k.file = c.file /\ k.media = c.media /\ k.in = c.in
        /\ k.lang = l /\ k.dir = c.dir /\ Whole(k)
    BY <2>3, <2>5 DEF Whole
  <2> QED
    BY <2>4, <2>5, <2>6 DEF Formed
<1>3. CardsFormed'
  <2>1. \A c \in cards' : c.file # "" => Whole(c) /\ Formed(c)
    BY <1>1, <1>2 DEF MInv, CardsFormed, new
  <2> QED
    BY <2>1 DEF CardsFormed, Whole, Formed
<1>4. ASSUME NEW c \in cards', ~Web(c.file), c.file \notin {Zim, ""}
      PROVE  Linked(c)'
  <2>1. c \in cards
    BY <1>1, <1>2, <1>4 DEF new
  <2>2. Linked(c) /\ Formed(c)
    BY <1>4, <2>1 DEF MInv, CardsFormed, CardsLinked
  <2>3. ASSUME <<c.lang, Slug(c)>> \in DOMAIN PagesOf(new) PROVE SharesSlug(c)'
    <3>1. PICK k \in new : <<k.lang, Slug(k)>> = <<c.lang, Slug(c)>>
      BY <2>3, PageIsOfOne
    <3>2. k \in cards' /\ k.file = Zim /\ Zim # "" /\ k.file # c.file
      BY <1>1, <1>2, <1>4 DEF new, Zim
    <3>3. k \in cards' \ Blanks' /\ Slug(k)' = Slug(k) /\ Slug(c)' = Slug(c)
      BY <3>2 DEF Blanks, Slug
    <3> QED
      BY <3>1, <3>2, <3>3 DEF SharesSlug
  <2>4. SharesSlug(c) => SharesSlug(c)'
    BY <1>1, SharedStays
  <2>5. ASSUME c.in = ""
        PROVE  /\ <<c.lang, Slug(c)>> \in DOMAIN pages'
               /\ \/ SharesSlug(c)'
                  \/ pages'[<<c.lang, Slug(c)>>] = pages[<<c.lang, Slug(c)>>]
    <3>1. <<c.lang, Slug(c)>> \in DOMAIN pages
      BY <2>2, <2>5 DEF Linked
    <3> DEFINE u == Update(pages, PagesOf(new))
    <3>2. DOMAIN u = DOMAIN pages \cup DOMAIN PagesOf(new)
      BY UpdateParts
    <3>3. \A x \in DOMAIN pages : x \notin DOMAIN PagesOf(new) => u[x] = pages[x]
      BY UpdateParts
    <3> HIDE DEF u
    <3> QED
      BY <1>1, <2>3, <3>1, <3>2, <3>3 DEF u
  <2> QED
    BY <1>1, <2>2, <2>4, <2>5 DEF Linked, LookOf, Slug
<1>5. CardsLinked'
  BY <1>4 DEF CardsLinked
<1>6. FoldersKnown' /\ IsFiniteSet(DOMAIN names)'
  BY <1>1 DEF MInv, FoldersKnown, Dirs, Base
<1> QED
  BY <1>3, <1>5, <1>6 DEF MInv

LEMMA RestoreStartsOver == ASSUME Restores PROVE MInv'
<1>1. /\ stick' = [q \in {<<>>} |-> <<>>] /\ cards' = {} /\ names' = <<>>
      /\ todo' = <<>> /\ order' = <<>>
  BY DEF Restores, Empty
<1>2. Dirs' = {<<>>} /\ stick'[<<>>] = <<>>
  BY <1>1 DEF Dirs
<1>3. DOMAIN <<>> = {} /\ IsFiniteSet({}) /\ IsFiniteSet({<<>>})
  <2>1. DOMAIN <<>> = {}
    OBVIOUS
  <2>2. IsFiniteSet({})
    BY FS_EmptySet
  <2>3. IsFiniteSet({<<>>})
    BY FS_Singleton
  <2> QED
    BY <2>1, <2>2, <2>3
<1>5. FoldersKnown'
  BY <1>1, <1>2, <1>3 DEF FoldersKnown
<1>6. IsFiniteSet(DOMAIN names)' /\ CardsFormed' /\ CardsLinked'
  BY <1>1, <1>3 DEF CardsFormed, CardsLinked
<1> QED
  BY <1>5, <1>6 DEF MInv

LEMMA LinksStep == ASSUME MInv, [Next]_vars PROVE MInv'
<1>0. todo \in Seq(Dirs) /\ order \in Seq(Dirs) /\ IsFiniteSet(Dirs)
  BY DEF MInv, FoldersKnown
<1>1. CASE DetectLanguageDirs
  <2>1. order' \in SetToSeqs(SubDirs(<<>>)) /\ UNCHANGED <<stick, todo, cards, names, pages>>
    BY <1>1 DEF DetectLanguageDirs, made
  <2>2. order' \in Seq(Dirs)
    <3>1. PICK ord \in SetToSeqs(SubDirs(<<>>)) : order' = ord
      BY <2>1
    <3>2. ord \in Seq(Dirs)
      BY <1>0, OrdersAreSeqs
    <3> QED
      BY <3>1, <3>2
  <2> QED
    BY <1>0, <2>1, <2>2, CardsKept
<1>2. CASE FindComplexDirs \/ PulledOut \/ FinalizeOutput \/ Upgrade \/ Correct \/ PowerCut
           \/ UNCHANGED vars
  <2>1. UNCHANGED <<stick, todo, order, cards, names, pages>>
    BY <1>2 DEF FindComplexDirs, PulledOut, FinalizeOutput, Upgrade, Correct, PowerCut,
                vars, walk, made
  <2> QED
    BY <1>0, <2>1, CardsKept
<1>3. CASE ProcessComplexDirs
  <2>1. UNCHANGED <<stick, order, cards, names, pages>> /\ todo' = <<<<>>>>
    BY <1>3 DEF ProcessComplexDirs, made
  <2>2. <<>> \in Dirs
    BY DEF MInv, FoldersKnown
  <2> QED
    BY <1>0, <2>1, <2>2, CardsKept
<1>4. CASE SkipRoot
  <2>1. UNCHANGED <<stick, order, cards, names, pages>> /\ todo' = order
    BY <1>4 DEF SkipRoot, made
  <2> QED
    BY <1>0, <2>1, CardsKept
<1>5. CASE Visit
  BY <1>5, VisitKeepsLinks
<1>6. CASE CrossListZimCards
  BY <1>6, CrossListKeepsLinks
<1>7. CASE Restore \/ RestoreUnread
  BY <1>7, RestoreStartsOver DEF Restore, RestoreUnread
<1> QED
  BY <1>1, <1>2, <1>3, <1>4, <1>5, <1>6, <1>7 DEF Next

\* Whatever other files and folders have its name, slug and contents, and in whatever
\* order the walk comes by, every media file's card opens in the player that file or
\* one with its size and its ends; and so does its page, unless another card has the
\* same slug (unique_media_name, same_file_content, process_file_entry,
\* cross_list_zim_cards).
THEOREM CardsOpenOwn == Spec => []OpensOwn
<1>1. Init => MInv
  BY InitLinked, ContentAssumption
<1>2. MInv /\ [Next]_vars => MInv'
  BY LinksStep
<1>3. MInv => OpensOwn
  BY LinkedOpen
<1> QED
  BY <1>1, <1>2, <1>3, PTL DEF Spec

-----------------------------------------------------------------------------
(* Paths                                                                   *)

\* Induction over the numbers, for a set instead of an operator.
LEMMA Induction ==
  ASSUME NEW T \in SUBSET Nat, 0 \in T, \A n \in Nat : n \in T => n + 1 \in T
  PROVE  T = Nat
<1> SUFFICES ASSUME Nat \ T # {} PROVE FALSE
  OBVIOUS
<1>1. PICK x \in Nat \ T : \A y \in Nat \ T : x <= y
  BY Smallest
<1>2. x # 0 /\ x - 1 \in Nat
  BY <1>1
<1>3. x - 1 \in T
  BY <1>1, <1>2
<1> QED
  BY <1>1, <1>2, <1>3

\* IsPrefix, name by name.
LEMMA PrefixParts ==
  ASSUME NEW S, NEW p \in Seq(S), NEW q \in Seq(S)
  PROVE  IsPrefix(p, q) <=> Len(p) <= Len(q) /\ \A i \in 1 .. Len(p) : p[i] = q[i]
<1>0. Len(p) \in Nat /\ Len(q) \in Nat /\ \A i \in 1 .. Len(p) : p[i] \in S
  OBVIOUS
<1> SUFFICES ASSUME Len(p) <= Len(q)
             PROVE  SubSeq(p, 1, Len(p)) = SubSeq(q, 1, Len(p))
                      <=> \A i \in 1 .. Len(p) : p[i] = q[i]
  BY DEF IsPrefix
<1> DEFINE a == SubSeq(p, 1, Len(p))
           b == SubSeq(q, 1, Len(p))
<1>1. a \in Seq(S) /\ Len(a) = Len(p) /\ \A i \in 1 .. Len(p) : a[i] = p[i]
  BY <1>0
<1>2. b \in Seq(S) /\ Len(b) = Len(p) /\ \A i \in 1 .. Len(p) : b[i] = q[i]
  BY <1>0
<1> HIDE DEF a, b
<1>3. a = b <=> \A i \in 1 .. Len(p) : a[i] = b[i]
  BY <1>0, <1>1, <1>2, SeqEqual
<1> QED
  BY <1>1, <1>2, <1>3 DEF a, b

LEMMA PrefixOrder ==
  ASSUME NEW S, NEW p \in Seq(S), NEW q \in Seq(S), NEW r \in Seq(S)
  PROVE  /\ IsPrefix(p, p)
         /\ IsPrefix(<<>>, p)
         /\ IsPrefix(p, q) => Len(p) <= Len(q)
         /\ IsPrefix(p, q) /\ Len(q) <= Len(p) => p = q
         /\ IsPrefix(p, q) /\ IsPrefix(q, r) => IsPrefix(p, r)
         /\ IsPrefix(p, r) /\ IsPrefix(q, r) /\ Len(p) <= Len(q) => IsPrefix(p, q)
<1>0. Len(p) \in Nat /\ Len(q) \in Nat /\ Len(r) \in Nat /\ <<>> \in Seq(S) /\ Len(<<>>) = 0
  OBVIOUS
<1>1. IsPrefix(p, p)
  BY <1>0, PrefixParts
<1>2. IsPrefix(<<>>, p)
  <2>1. \A i \in 1 .. Len(<<>>) : <<>>[i] = p[i]
    BY <1>0
  <2>2. Len(<<>>) <= Len(p)
    BY <1>0
  <2>3. <<>> \in Seq(S)
    BY <1>0
  <2> QED
    BY <2>1, <2>2, <2>3, PrefixParts
<1>3. IsPrefix(p, q) => Len(p) <= Len(q)
  BY PrefixParts
<1>4. IsPrefix(p, q) /\ Len(q) <= Len(p) => p = q
  <2> SUFFICES ASSUME IsPrefix(p, q), Len(q) <= Len(p) PROVE p = q
    OBVIOUS
  <2>1. Len(p) = Len(q) /\ \A i \in 1 .. Len(p) : p[i] = q[i]
    BY <1>0, PrefixParts
  <2> QED
    BY <2>1, SeqEqual
<1>5. IsPrefix(p, q) /\ IsPrefix(q, r) => IsPrefix(p, r)
  <2> SUFFICES ASSUME IsPrefix(p, q), IsPrefix(q, r) PROVE IsPrefix(p, r)
    OBVIOUS
  <2>1. Len(p) <= Len(q) /\ \A i \in 1 .. Len(p) : p[i] = q[i]
    BY PrefixParts
  <2>2. Len(q) <= Len(r) /\ \A i \in 1 .. Len(q) : q[i] = r[i]
    BY PrefixParts
  <2>3. Len(p) <= Len(r) /\ \A i \in 1 .. Len(p) : p[i] = r[i]
    BY <1>0, <2>1, <2>2
  <2> QED
    BY <2>3, PrefixParts
<1>6. IsPrefix(p, r) /\ IsPrefix(q, r) /\ Len(p) <= Len(q) => IsPrefix(p, q)
  <2> SUFFICES ASSUME IsPrefix(p, r), IsPrefix(q, r), Len(p) <= Len(q) PROVE IsPrefix(p, q)
    OBVIOUS
  <2>1. Len(p) <= Len(r) /\ \A i \in 1 .. Len(p) : p[i] = r[i]
    BY PrefixParts
  <2>2. Len(q) <= Len(r) /\ \A i \in 1 .. Len(q) : q[i] = r[i]
    BY PrefixParts
  <2>3. \A i \in 1 .. Len(p) : p[i] = q[i]
    BY <1>0, <2>1, <2>2
  <2> QED
    BY <2>3, PrefixParts
<1> QED
  BY <1>1, <1>2, <1>3, <1>4, <1>5, <1>6

\* The folder n names down on the way to q.
LEMMA CutIsPrefix ==
  ASSUME NEW S, NEW q \in Seq(S), NEW n \in 0 .. Len(q)
  PROVE  /\ SubSeq(q, 1, n) \in Seq(S) /\ Len(SubSeq(q, 1, n)) = n
         /\ IsPrefix(SubSeq(q, 1, n), q)
<1>1. \A i \in 1 .. n : q[i] \in S
  OBVIOUS
<1>2. /\ SubSeq(q, 1, n) \in Seq(S) /\ Len(SubSeq(q, 1, n)) = n
      /\ \A i \in 1 .. n : SubSeq(q, 1, n)[i] = q[i]
  BY <1>1
<1>3. Len(SubSeq(q, 1, n)) <= Len(q)
  BY <1>2
<1>4. \A i \in 1 .. Len(SubSeq(q, 1, n)) : SubSeq(q, 1, n)[i] = q[i]
  BY <1>2
<1> DEFINE c == SubSeq(q, 1, n)
<1> HIDE DEF c
<1>5. IsPrefix(c, q)
  BY <1>2, <1>3, <1>4, PrefixParts DEF c
<1> QED
  BY <1>2, <1>5 DEF c

LEMMA PathLength ==
  ASSUME NEW S, NEW p \in Seq(S)
  PROVE  /\ Len(p) \in Nat
         /\ \A i \in 1 .. Len(p) : p[i] \in S
         /\ p # <<>> => Len(p) >= 1
         /\ p = <<>> => Len(p) = 0
<1>1. Len(p) \in Nat /\ \A i \in 1 .. Len(p) : p[i] \in S
  OBVIOUS
<1>2. p # <<>> => Len(p) >= 1
  BY EmptySeq
<1>3. p = <<>> => Len(p) = 0
  BY EmptySeq
<1> QED
  BY <1>1, <1>2, <1>3

\* A path is found in those below it; finding is an order on paths.
LEMMA FindsOrder ==
  ASSUME NEW N, N = DOMAIN NameBegins,
         NEW p \in Seq(N), NEW q \in Seq(N), NEW r \in Seq(N)
  PROVE  /\ IsPrefix(p, q) => Finds(p, q)
         /\ Finds(p, q) => Len(p) <= Len(q)
         /\ Finds(p, q) /\ Finds(q, r) => Finds(p, r)
         /\ Finds(p, q) /\ Finds(q, p) => p = q
<1>0. /\ Len(p) \in Nat /\ Len(q) \in Nat /\ Len(r) \in Nat
      /\ \A i \in 1 .. Len(p) : p[i] \in N
      /\ \A i \in 1 .. Len(q) : q[i] \in N
      /\ \A i \in 1 .. Len(r) : r[i] \in N
      /\ p # <<>> => Len(p) >= 1
      /\ q # <<>> => Len(q) >= 1
      /\ p = <<>> => Len(p) = 0
      /\ q = <<>> => Len(q) = 0
  BY PathLength
<1>a. \A n \in N :
        /\ n \in NameBegins[n]
        /\ \A m \in NameBegins[n] : /\ m \in N /\ NameBegins[m] \subseteq NameBegins[n]
                                    /\ n \in NameBegins[m] => m = n
  BY NameAssumption DEF NameAssumption
<1>1. IsPrefix(p, q) => Finds(p, q)
  <2> SUFFICES ASSUME IsPrefix(p, q), p # <<>> PROVE Finds(p, q)
    BY DEF Finds
  <2>1. Len(p) <= Len(q) /\ \A i \in 1 .. Len(p) : p[i] = q[i]
    BY PrefixParts
  <2>2. p[Len(p)] = q[Len(p)] /\ q[Len(p)] \in N
    BY <1>0, <2>1
  <2>3. p[Len(p)] \in NameBegins[q[Len(p)]]
    BY <1>a, <2>2
  <2> QED
    BY <1>0, <2>1, <2>3 DEF Finds
<1>2. Finds(p, q) => Len(p) <= Len(q)
  BY <1>0 DEF Finds
<1>3. Finds(p, q) /\ Finds(q, r) => Finds(p, r)
  <2> SUFFICES ASSUME Finds(p, q), Finds(q, r), p # <<>> PROVE Finds(p, r)
    BY DEF Finds
  <2>1. /\ Len(p) <= Len(q) /\ \A i \in 1 .. Len(p) - 1 : p[i] = q[i]
        /\ p[Len(p)] \in NameBegins[q[Len(p)]]
    BY DEF Finds
  <2>2. q # <<>>
    BY <1>0, <2>1
  <2>3. /\ Len(q) <= Len(r) /\ \A i \in 1 .. Len(q) - 1 : q[i] = r[i]
        /\ q[Len(q)] \in NameBegins[r[Len(q)]]
    BY <2>2 DEF Finds
  <2>4. Len(p) <= Len(r) /\ \A i \in 1 .. Len(p) - 1 : p[i] = r[i]
    BY <1>0, <2>1, <2>3
  <2>5. p[Len(p)] \in NameBegins[r[Len(p)]]
    <3>1. CASE Len(p) < Len(q)
      <4>1. q[Len(p)] = r[Len(p)]
        BY <1>0, <2>3, <3>1
      <4> QED
        BY <2>1, <4>1
    <3>2. CASE Len(p) = Len(q)
      <4>1. r[Len(q)] \in N
        BY <1>0, <2>2, <2>3
      <4>2. NameBegins[q[Len(q)]] \subseteq NameBegins[r[Len(q)]]
        BY <1>a, <2>3, <4>1
      <4> QED
        BY <2>1, <3>2, <4>2
    <3> QED
      BY <1>0, <2>1, <3>1, <3>2
  <2> QED
    BY <2>4, <2>5 DEF Finds
<1>4. Finds(p, q) /\ Finds(q, p) => p = q
  <2> SUFFICES ASSUME Finds(p, q), Finds(q, p) PROVE p = q
    OBVIOUS
  <2>1. CASE p = <<>> \/ q = <<>>
    BY <1>0, <2>1 DEF Finds
  <2>2. CASE p # <<>> /\ q # <<>>
    <3>1. /\ Len(p) <= Len(q) /\ \A i \in 1 .. Len(p) - 1 : p[i] = q[i]
          /\ p[Len(p)] \in NameBegins[q[Len(p)]]
          /\ Len(q) <= Len(p) /\ q[Len(q)] \in NameBegins[p[Len(q)]]
      BY <2>2 DEF Finds
    <3>2. Len(p) = Len(q) /\ q[Len(p)] \in N
      BY <1>0, <2>2, <3>1
    <3>3. p[Len(p)] = q[Len(p)]
      BY <1>a, <3>1, <3>2
    <3>4. \A i \in 1 .. Len(p) : p[i] = q[i]
      BY <1>0, <3>1, <3>3
    <3> QED
      BY <3>2, <3>4, SeqEqual
  <2> QED
    BY <2>1, <2>2
<1> QED
  BY <1>1, <1>2, <1>3, <1>4

-----------------------------------------------------------------------------
(* Folders of the stick                                                    *)

StickKept ==
  /\ IsFiniteSet(Dirs) /\ <<>> \in Dirs /\ Dirs \subseteq Seq(DOMAIN NameBegins)
  /\ \A p \in Dirs : p # <<>> => Front(p) \in Dirs
  /\ \A p \in Dirs : "" \notin DOMAIN stick[p]
  /\ ".language" \in DOMAIN stick[<<>>] => stick[<<>>][".language"] \in Codes

LEMMA DirOrder ==
  ASSUME StickKept, NEW p \in Dirs, NEW q \in Dirs, NEW r \in Dirs
  PROVE  /\ Len(p) \in Nat /\ (p = <<>> <=> Len(p) = 0)
         /\ IsPrefix(p, p) /\ IsPrefix(<<>>, p)
         /\ IsPrefix(p, q) => Len(p) <= Len(q) /\ Finds(p, q)
         /\ IsPrefix(p, q) /\ Len(q) <= Len(p) => p = q
         /\ IsPrefix(p, q) /\ IsPrefix(q, r) => IsPrefix(p, r)
         /\ IsPrefix(p, r) /\ IsPrefix(q, r) /\ Len(p) <= Len(q) => IsPrefix(p, q)
         /\ Finds(p, q) => Len(p) <= Len(q)
         /\ Finds(p, q) /\ Finds(q, r) => Finds(p, r)
         /\ Finds(p, q) /\ Finds(q, p) => p = q
<1> DEFINE N == DOMAIN NameBegins
<1>1. p \in Seq(N) /\ q \in Seq(N) /\ r \in Seq(N)
  BY DEF StickKept
<1> HIDE DEF N
<1>2. Len(p) \in Nat /\ (p = <<>> <=> Len(p) = 0)
  <2>1. /\ Len(p) \in Nat
        /\ p # <<>> => Len(p) >= 1
        /\ p = <<>> => Len(p) = 0
    BY <1>1, PathLength
  <2> QED
    BY <2>1
<1>3. /\ IsPrefix(p, p) /\ IsPrefix(<<>>, p)
      /\ IsPrefix(p, q) => Len(p) <= Len(q)
      /\ IsPrefix(p, q) /\ Len(q) <= Len(p) => p = q
      /\ IsPrefix(p, q) /\ IsPrefix(q, r) => IsPrefix(p, r)
      /\ IsPrefix(p, r) /\ IsPrefix(q, r) /\ Len(p) <= Len(q) => IsPrefix(p, q)
  BY <1>1, PrefixOrder
<1>4. /\ IsPrefix(p, q) => Finds(p, q)
      /\ Finds(p, q) => Len(p) <= Len(q)
      /\ Finds(p, q) /\ Finds(q, r) => Finds(p, r)
      /\ Finds(p, q) /\ Finds(q, p) => p = q
  BY <1>1, FindsOrder DEF N
<1> QED
  BY <1>2, <1>3, <1>4

\* The folders on the way to a folder are there.
LEMMA WayIsThere ==
  ASSUME StickKept, NEW q \in Dirs, NEW n \in 0 .. Len(q)
  PROVE  SubSeq(q, 1, n) \in Dirs
<1> DEFINE N == DOMAIN NameBegins
           Cut(k) == SubSeq(q, 1, Len(q) - k)
           T == {k \in Nat : k <= Len(q) => Cut(k) \in Dirs}
<1>1. q \in Seq(N)
  BY DEF StickKept
<1> HIDE DEF N
<1>2. Len(q) \in Nat
  BY <1>1
<1>3. 0 \in T
  <2>1. SubSeq(q, 1, Len(q)) = q
    BY <1>1, <1>2, SubSeqFull
  <2>2. Len(q) - 0 = Len(q)
    BY <1>2
  <2>3. Cut(0) \in Dirs
    BY <2>1, <2>2
  <2> QED
    BY <2>3
<1>4. ASSUME NEW k \in Nat, k \in T PROVE k + 1 \in T
  <2> SUFFICES ASSUME k + 1 <= Len(q) PROVE Cut(k + 1) \in Dirs
    OBVIOUS
  <2> DEFINE c == Cut(k)
  <2>1. Len(q) - k \in 0 .. Len(q)
    BY <1>2
  <2>2. c \in Seq(N) /\ Len(c) = Len(q) - k /\ \A i \in 1 .. Len(c) : c[i] = q[i]
    <3>1. /\ c \in Seq(N) /\ Len(c) = Len(q) - k /\ IsPrefix(c, q)
      BY <1>1, <2>1, CutIsPrefix
    <3> HIDE DEF c
    <3> QED
      BY <1>1, <3>1, PrefixParts
  <2>3. c \in Dirs /\ c # <<>>
    <3>1. c \in Dirs
      BY <1>2, <1>4
    <3>2. Len(c) # 0
      BY <1>2, <2>2
    <3> HIDE DEF c
    <3>3. c # <<>>
      BY <2>2, <3>2, PathLength
    <3> QED
      BY <3>1, <3>3
  <2>4. Front(c) \in Dirs
    BY <2>3 DEF StickKept
  <2>5. Front(c) = Cut(k + 1)
    <3> DEFINE a == SubSeq(c, 1, Len(c) - 1)
               b == SubSeq(q, 1, Len(q) - (k + 1))
    <3>1. \A i \in 1 .. Len(c) - 1 : c[i] = q[i] /\ c[i] \in N /\ q[i] \in N
      BY <1>1, <1>2, <2>2
    <3>2. Len(c) - 1 \in Nat /\ Len(q) - (k + 1) = Len(c) - 1
      BY <1>2, <2>2
    <3> DEFINE m == Len(c) - 1
    <3> HIDE DEF c, m
    <3>3. a = SubSeq(c, 1, m) /\ b = SubSeq(q, 1, m) /\ m \in Nat
      BY <3>2 DEF m
    <3>4. \A i \in 1 .. m : c[i] = q[i] /\ c[i] \in N /\ q[i] \in N
      BY <3>1 DEF m
    <3> HIDE DEF a, b
    <3>5. a \in Seq(N) /\ Len(a) = m /\ \A i \in 1 .. m : a[i] = c[i]
      BY <3>3, <3>4, SubSeqProperties
    <3>6. b \in Seq(N) /\ Len(b) = m /\ \A i \in 1 .. m : b[i] = q[i]
      BY <3>3, <3>4, SubSeqProperties
    <3>7. a = b
      BY <3>3, <3>4, <3>5, <3>6, SeqEqual
    <3> QED
      BY <3>7 DEF a, b, Front
  <2> QED
    BY <2>4, <2>5
<1> HIDE DEF T
<1>5. T = Nat
  BY <1>3, <1>4, Induction DEF T
<1>6. Len(q) - n \in T
  BY <1>2, <1>5
<1>7. Len(q) - (Len(q) - n) = n
  BY <1>2
<1> QED
  BY <1>2, <1>6, <1>7 DEF T

LEMMA SubDirIsBelow ==
  ASSUME StickKept, NEW p \in Dirs, NEW q \in SubDirs(p)
  PROVE  q \in Dirs /\ Len(q) = Len(p) + 1 /\ IsPrefix(p, q) /\ q # p
<1> DEFINE N == DOMAIN NameBegins
<1>1. p \in Seq(N) /\ q \in Seq(N) /\ q \in Dirs
  BY DEF StickKept, SubDirs
<1> HIDE DEF N
<1>2. Len(q) = Len(p) + 1 /\ SubSeq(q, 1, Len(p)) = p
  BY DEF SubDirs
<1>3. Len(p) \in 0 .. Len(q) /\ Len(p) \in Nat
  BY <1>1, <1>2
<1>4. IsPrefix(SubSeq(q, 1, Len(p)), q)
  BY <1>1, <1>3, CutIsPrefix
<1>5. IsPrefix(p, q)
  BY <1>2, <1>4
<1>6. q # p
  BY <1>2, <1>3
<1> QED
  BY <1>1, <1>2, <1>5, <1>6

\* The next folder on the way from p down to q.
LEMMA NextOnTheWay ==
  ASSUME StickKept, NEW p \in Dirs, NEW q \in Dirs, IsPrefix(p, q), p # q
  PROVE  \E c \in SubDirs(p) : IsPrefix(c, q)
<1> DEFINE N == DOMAIN NameBegins
           n == Len(p) + 1
           c == SubSeq(q, 1, n)
<1>1. p \in Seq(N) /\ q \in Seq(N)
  BY DEF StickKept
<1> HIDE DEF N
<1>2. Len(p) < Len(q) /\ Len(p) \in Nat /\ Len(q) \in Nat
  BY DirOrder
<1>3. n \in 0 .. Len(q)
  BY <1>2
<1>4. c \in Seq(N) /\ Len(c) = n /\ IsPrefix(c, q)
  BY <1>1, <1>3, CutIsPrefix
<1>5. c \in Dirs
  BY <1>3, WayIsThere
<1> HIDE DEF c
<1>6. IsPrefix(p, c)
  <2>1. Len(p) <= Len(c)
    BY <1>2, <1>4
  <2> QED
    BY <1>1, <1>4, <2>1, PrefixOrder
<1>7. SubSeq(c, 1, Len(p)) = p
  <2>1. SubSeq(p, 1, Len(p)) = SubSeq(c, 1, Len(p))
    BY <1>6 DEF IsPrefix
  <2>2. SubSeq(p, 1, Len(p)) = p
    BY <1>1, SubSeqFull
  <2> QED
    BY <2>1, <2>2
<1>8. c \in SubDirs(p)
  BY <1>4, <1>5, <1>7 DEF SubDirs
<1> QED
  BY <1>4, <1>8

\* The first name of a path.
LEMMA FirstName ==
  ASSUME StickKept, NEW p \in Dirs, p # <<>>
  PROVE  /\ <<p[1]>> \in Dirs /\ IsPrefix(<<p[1]>>, p)
         /\ Len(<<p[1]>>) = 1 /\ <<p[1]>>[1] = p[1]
         /\ Len(p) = 1 => p = <<p[1]>>
         /\ \A q \in Dirs : IsPrefix(p, q) => q[1] = p[1] /\ q # <<>>
<1> DEFINE N == DOMAIN NameBegins
<1>1. p \in Seq(N) /\ \A q \in Dirs : q \in Seq(N)
  BY DEF StickKept
<1> HIDE DEF N
<1>2. Len(p) \in Nat /\ Len(p) >= 1 /\ 1 \in 0 .. Len(p) /\ 1 \in 1 .. Len(p)
  BY <1>1, PathLength
<1>3. SubSeq(p, 1, 1) = <<p[1]>>
  <2> DEFINE a == SubSeq(p, 1, 1)
             b == <<p[1]>>
  <2>0. p[1] \in N
    BY <1>1, <1>2, PathLength
  <2>1. a \in Seq(N) /\ Len(a) = 1 /\ IsPrefix(a, p)
    BY <1>1, <1>2, CutIsPrefix
  <2>2. b \in Seq(N) /\ Len(b) = 1 /\ b[1] = p[1]
    BY <2>0
  <2> HIDE DEF a, b
  <2>3. \A i \in 1 .. Len(a) : a[i] = b[i]
    BY <1>1, <2>1, <2>2, PrefixParts
  <2>4. a = b
    BY <2>1, <2>2, <2>3, SeqEqual
  <2> QED
    BY <2>4 DEF a, b
<1>4. <<p[1]>> \in Dirs /\ IsPrefix(<<p[1]>>, p)
  BY <1>1, <1>2, <1>3, WayIsThere, CutIsPrefix
<1>5. Len(<<p[1]>>) = 1 /\ <<p[1]>>[1] = p[1]
  OBVIOUS
<1>6. Len(p) = 1 => p = <<p[1]>>
  <2>1. SubSeq(p, 1, Len(p)) = p
    BY <1>1, SubSeqFull
  <2> QED
    BY <1>3, <2>1
<1>7. \A q \in Dirs : IsPrefix(p, q) => q[1] = p[1] /\ q # <<>>
  <2> SUFFICES ASSUME NEW q \in Dirs, IsPrefix(p, q) PROVE q[1] = p[1] /\ q # <<>>
    OBVIOUS
  <2>1. Len(p) <= Len(q) /\ \A i \in 1 .. Len(p) : p[i] = q[i]
    BY <1>1, PrefixParts
  <2>2. q \in Seq(N)
    BY <1>1
  <2>3. Len(q) # 0
    BY <1>2, <2>1, <2>2
  <2>4. q # <<>>
    BY <2>2, <2>3, PathLength
  <2>5. q[1] = p[1]
    BY <1>2, <2>1
  <2> QED
    BY <2>4, <2>5
<1> QED
  BY <1>4, <1>5, <1>6, <1>7

LEMMA LanguagePath ==
  ASSUME StickKept
  PROVE  /\ \A p \in Dirs : IsLanguageDir(p) => p[1] \in LanguageDirs /\ p = <<p[1]>> /\ p # <<>>
         /\ \A c \in LanguageDirs : <<c>> \in Dirs /\ IsLanguageDir(<<c>>) /\ c \in Codes
<1>1. ASSUME NEW p \in Dirs, IsLanguageDir(p)
      PROVE  p[1] \in LanguageDirs /\ p = <<p[1]>> /\ p # <<>>
  <2>1. Len(p) = 1 /\ p[1] \in LanguageDirs
    BY <1>1 DEF IsLanguageDir
  <2>2. p # <<>>
    BY <2>1, DirOrder
  <2> QED
    BY <2>1, <2>2, FirstName
<1>2. ASSUME NEW c \in LanguageDirs
      PROVE  <<c>> \in Dirs /\ IsLanguageDir(<<c>>) /\ c \in Codes
  <2>1. Len(<<c>>) = 1 /\ <<c>>[1] = c
    OBVIOUS
  <2> QED
    BY <2>1 DEF LanguageDirs, IsLanguageDir
<1> QED
  BY <1>1, <1>2

-----------------------------------------------------------------------------
(* Folders that can be reached                                             *)

\* No closed folder is on the way to p.
Reachable(p) == Judgeable(p) /\ \A q \in Dirs : Closed(q) /\ IsPrefix(q, p) => q = p
Blocks(q) == Closed(q) \/ (IsLanguageDir(q) /\ "index.htm" \in OwnFiles(q))
Paged(p)  == HasIndex(OwnFiles(p)) \/ ComplexFolder(p)

LEMMA BlockerIsAbove ==
  ASSUME StickKept, NEW x \in Dirs, Judgeable(x), NEW q \in Dirs, Blocks(q), Finds(q, x)
  PROVE  Closed(q) /\ IsPrefix(q, x)
<1>1. ~(IsLanguageDir(q) /\ "index.htm" \in OwnFiles(q))
  <2> SUFFICES ASSUME IsLanguageDir(q), "index.htm" \in OwnFiles(q) PROVE FALSE
    OBVIOUS
  <2>1. q[1] \in LanguageDirs /\ q = <<q[1]>>
    BY LanguagePath
  <2> QED
    BY <2>1 DEF Judgeable
<1>2. Closed(q)
  BY <1>1 DEF Blocks
<1> QED
  BY <1>2 DEF Judgeable

LEMMA JudgeableAbove ==
  ASSUME StickKept, NEW p \in Dirs, Judgeable(p), NEW x \in Dirs, IsPrefix(x, p),
         x # <<>> \/ LanguageDirs = {}
  PROVE  Judgeable(x)
<1>1. LanguageDirs = {} \/ (x # <<>> /\ x[1] \in LanguageDirs)
  <2>1. CASE LanguageDirs = {}
    BY <2>1
  <2>2. CASE LanguageDirs # {}
    <3>1. x # <<>> /\ p[1] \in LanguageDirs
      BY <2>2 DEF Judgeable
    <3>2. p[1] = x[1]
      BY <3>1, FirstName
    <3> QED
      BY <3>1, <3>2
  <2> QED
    BY <2>1, <2>2
<1>2. Finds(x, p)
  BY DirOrder
<1>3. \A q \in Dirs : Closed(q) /\ Finds(q, x) => IsPrefix(q, x)
  <2> SUFFICES ASSUME NEW q \in Dirs, Closed(q), Finds(q, x) PROVE IsPrefix(q, x)
    OBVIOUS
  <2>1. Finds(q, p)
    BY <1>2, DirOrder
  <2>2. IsPrefix(q, p)
    BY <2>1 DEF Judgeable
  <2>3. Len(q) <= Len(x)
    BY DirOrder
  <2> QED
    BY <2>2, <2>3, DirOrder
<1>4. \A c \in LanguageDirs : "index.htm" \in OwnFiles(<<c>>) => ~Finds(<<c>>, x)
  <2> SUFFICES ASSUME NEW c \in LanguageDirs, "index.htm" \in OwnFiles(<<c>>), Finds(<<c>>, x)
               PROVE  FALSE
    OBVIOUS
  <2>1. <<c>> \in Dirs
    BY LanguagePath
  <2> DEFINE e == <<c>>
  <2> HIDE DEF e
  <2>2. e \in Dirs /\ Finds(e, x)
    BY <2>1 DEF e
  <2>3. Finds(e, p)
    BY <1>2, <2>2, DirOrder
  <2> QED
    BY <2>3 DEF Judgeable, e
<1> QED
  BY <1>1, <1>3, <1>4 DEF Judgeable

LEMMA ReachableAbove ==
  ASSUME StickKept, NEW p \in Dirs, Reachable(p), NEW x \in Dirs, IsPrefix(x, p), x # p,
         x # <<>> \/ LanguageDirs = {}
  PROVE  Reachable(x) /\ ~Closed(x)
<1>1. Judgeable(x)
  BY JudgeableAbove DEF Reachable
<1>2. \A q \in Dirs : ~(Closed(q) /\ IsPrefix(q, x))
  <2> SUFFICES ASSUME NEW q \in Dirs, Closed(q), IsPrefix(q, x) PROVE FALSE
    OBVIOUS
  <2>1. IsPrefix(q, p)
    BY DirOrder
  <2>2. q = p
    BY <2>1 DEF Reachable
  <2>3. Len(q) <= Len(x) /\ Len(x) <= Len(p)
    BY DirOrder
  <2> QED
    BY <2>2, <2>3, DirOrder
<1>3. IsPrefix(x, x)
  BY DirOrder
<1> QED
  BY <1>1, <1>2, <1>3 DEF Reachable

\* Above a reachable folder only itself may be closed.
LEMMA OnlyItself ==
  ASSUME StickKept, NEW x \in Dirs, Reachable(x), NEW q \in Dirs, Blocks(q), Finds(q, x)
  PROVE  q = x /\ Closed(x)
<1>1. Closed(q) /\ IsPrefix(q, x)
  BY BlockerIsAbove DEF Reachable
<1>2. q = x
  BY <1>1 DEF Reachable
<1> QED
  BY <1>1, <1>2

-----------------------------------------------------------------------------
(* What the checks make of a folder, part by part                          *)

NewAt(x, lang)   == ~IsLanguageDir(x) /\ NewComplex(x, lang)
IndAt(x, lang)   == IF NewAt(x, lang) THEN indexed \cup NewPages(x) ELSE indexed
LstAt(x, lang)   == IF NewAt(x, lang) THEN Append(complexLst, x) ELSE complexLst
FilesAt(x, lang) == FilesIn(x, IndAt(x, lang))
HeadAt(x, lang)  == ComplexHead(x, LstAt(x, lang))
BelowAt(x, lang) == ComplexBelow(x, LstAt(x, lang))
HeadWebs(x, lang) == IF HeadAt(x, lang) THEN webpaths \cup {x} ELSE webpaths
InsideAt(x, lang) == InWebpath(x, HeadWebs(x, lang))
HtmAt(x, lang)   == /\ HeadWebs(x, lang) # {} /\ ~InsideAt(x, lang) /\ ~HeadAt(x, lang)
                    /\ "index.htm" \in FilesAt(x, lang)
HtmWebs(x, lang) == IF HtmAt(x, lang) THEN HeadWebs(x, lang) \cup {x} ELSE HeadWebs(x, lang)
WebAt(x, lang)   == IsWeb(x, FilesAt(x, lang), lang)
AppAt(x, lang)   == App \in FilesAt(x, lang)
TypeAt(x, lang)  ==
  IF HtmAt(x, lang) THEN "html"
  ELSE IF BelowAt(x, lang) THEN ""
  ELSE IF NewAt(x, lang) \/ (HeadAt(x, lang) /\ "index.html" \in FilesAt(x, lang)) THEN "folders"
  ELSE IF IsLanguageDir(x) THEN "language" ELSE ""
Keeps(x, lang) == TypeAt(x, lang) \in {"language", "folders"}

LEMMA JudgedParts ==
  ASSUME NEW x, NEW lang, NEW d, d = Judged(x, lang)
  PROVE  /\ d.ind = IndAt(x, lang) /\ d.lst = LstAt(x, lang) /\ d.files = FilesAt(x, lang)
         /\ d.webs = HtmWebs(x, lang)
                       \cup (IF WebAt(x, lang) \/ AppAt(x, lang) THEN {x} ELSE {})
         /\ d.leave <=> AppAt(x, lang) \/ (WebAt(x, lang) /\ ~Keeps(x, lang))
         /\ d.skip <=>
              /\ d.webs # {}
              /\ \/ InsideAt(x, lang) \/ BelowAt(x, lang)
                 \/ /\ \E w \in d.webs : Finds(w, x)
                    /\ \/ AppAt(x, lang) \/ (WebAt(x, lang) /\ ~Keeps(x, lang))
                       \/ TypeAt(x, lang) # "folders"
                    /\ ~HasIndex(d.files)
<1> DEFINE files == FilesAt(x, lang)
           h == HandleWebContent(x, files, lang, TypeAt(x, lang), HtmWebs(x, lang))
           a == HandleAndroidContent(x, files, h)
<1>1. /\ d.ind = IndAt(x, lang) /\ d.lst = LstAt(x, lang) /\ d.files = files
      /\ d.webs = a.webs /\ d.leave = a.leave
  BY DEF Judged, NewAt, IndAt, LstAt, FilesAt, HeadAt, BelowAt, HeadWebs, InsideAt, HtmAt,
         HtmWebs, TypeAt
<1>2. d.skip = (/\ a.webs # {}
                /\ \/ InsideAt(x, lang) \/ BelowAt(x, lang)
                   \/ /\ \E w \in a.webs : Finds(w, x)
                      /\ a.type # "folders" /\ ~HasIndex(files))
  BY DEF Judged, NewAt, IndAt, LstAt, FilesAt, HeadAt, BelowAt, HeadWebs, InsideAt, HtmAt,
         HtmWebs, TypeAt
<1>3. /\ h.type = IF WebAt(x, lang) /\ ~Keeps(x, lang) THEN "html" ELSE TypeAt(x, lang)
      /\ h.webs = IF WebAt(x, lang) THEN HtmWebs(x, lang) \cup {x} ELSE HtmWebs(x, lang)
      /\ h.leave <=> WebAt(x, lang) /\ ~Keeps(x, lang)
  BY DEF HandleWebContent, WebAt, Keeps
<1>4. CASE AppAt(x, lang)
  <2>1. a = [type |-> "html", webs |-> h.webs \cup {x}, leave |-> TRUE]
    BY <1>4 DEF HandleAndroidContent, AppAt
  <2>2. a.type = "html" /\ a.webs = h.webs \cup {x} /\ a.leave
    BY <2>1
  <2> HIDE DEF a, h
  <2> QED
    BY <1>1, <1>2, <1>3, <1>4, <2>2
<1>5. CASE ~AppAt(x, lang)
  <2>1. a = h
    BY <1>5 DEF HandleAndroidContent, AppAt
  <2> HIDE DEF a, h
  <2>2. a.type # "folders" <=> \/ WebAt(x, lang) /\ ~Keeps(x, lang)
                               \/ TypeAt(x, lang) # "folders"
    BY <1>3, <2>1 DEF Keeps
  <2> QED
    BY <1>1, <1>2, <1>3, <1>5, <2>1, <2>2
<1> QED
  BY <1>4, <1>5

-----------------------------------------------------------------------------
(* What the walk carries                                                   *)

LanguageKept == language \in Codes /\ (LanguageDirs # {} => language \in LanguageDirs)
ComplexTrue  == complexLst \in Seq({q \in Dirs : ComplexFolder(q)})
ComplexAll   == LanguageDirs = {} =>
                  \A q \in Dirs : Len(q) = 1 /\ ComplexFolder(q) =>
                    \E i \in DOMAIN complexLst : Finds(complexLst[i], q)
ComplexPaged == \A i \in DOMAIN complexLst : complexLst[i] \in indexed
WebpathsBlocked == /\ webpaths \subseteq Dirs
                   /\ \A w \in webpaths : \E q \in Dirs : Blocks(q) /\ Finds(q, w)
IndexedInside == \A q \in indexed : \E c \in Dirs : ComplexFolder(c) /\ IsPrefix(c, q)

Carried == ComplexTrue /\ ComplexAll /\ ComplexPaged /\ WebpathsBlocked /\ IndexedInside

\* The folder that is visited and the language it is visited in.
VisitedIn(x, lang) ==
  /\ x \in Dirs /\ (x = <<>> => LanguageDirs = {})
  /\ lang \in Codes /\ (LanguageDirs # {} => lang \in LanguageDirs)
  /\ x # <<>> /\ x[1] \in LanguageDirs => lang = x[1]

LEMMA WebOnlyItself ==
  ASSUME StickKept, WebpathsBlocked, NEW x \in Dirs, Reachable(x), NEW w \in webpaths, Finds(w, x)
  PROVE  w = x /\ Closed(x)
<1>1. PICK q \in Dirs : Blocks(q) /\ Finds(q, w)
  BY DEF WebpathsBlocked
<1>2. w \in Dirs
  BY DEF WebpathsBlocked
<1>3. Finds(q, x)
  BY <1>1, <1>2, DirOrder
<1>4. q = x /\ Closed(x)
  BY <1>1, <1>3, OnlyItself
<1>5. w = x
  BY <1>1, <1>2, <1>4, DirOrder
<1> QED
  BY <1>4, <1>5

LEMMA ComplexBlocks == ASSUME NEW q, ComplexFolder(q) PROVE Closed(q) /\ Blocks(q)
  BY DEF Closed, Blocks

\* classify_in_complex_lst, for a folder that can be reached.
LEMMA ReachableInList ==
  ASSUME StickKept, NEW x \in Dirs, Reachable(x),
         NEW lst \in Seq({q \in Dirs : ComplexFolder(q)})
  PROVE  /\ ~ComplexBelow(x, lst)
         /\ ComplexHead(x, lst) => ComplexFolder(x)
         /\ (\E i \in DOMAIN lst : Finds(lst[i], x)) => ComplexHead(x, lst)
<1> DEFINE C == {q \in Dirs : ComplexFolder(q)}
<1>1. \A i \in DOMAIN lst : lst[i] \in C
  OBVIOUS
<1>2. \A i \in DOMAIN lst : Finds(lst[i], x) => lst[i] = x /\ ComplexFolder(lst[i])
  <2> SUFFICES ASSUME NEW i \in DOMAIN lst, Finds(lst[i], x)
               PROVE  lst[i] = x /\ ComplexFolder(lst[i])
    OBVIOUS
  <2>1. lst[i] \in Dirs /\ ComplexFolder(lst[i])
    BY <1>1
  <2>2. Blocks(lst[i])
    BY <2>1, ComplexBlocks
  <2>3. lst[i] = x
    BY <2>1, <2>2, OnlyItself
  <2> QED
    BY <2>1, <2>3
<1>3. ~ComplexBelow(x, lst)
  <2> SUFFICES ASSUME NEW i \in DOMAIN lst, Finds(lst[i], x), Len(lst[i]) < Len(x) PROVE FALSE
    BY DEF ComplexBelow, FirstFound
  <2>1. Len(x) < Len(x) /\ Len(x) \in Nat
    BY <1>2, DirOrder
  <2> QED
    BY <2>1
<1>4. ComplexHead(x, lst) => ComplexFolder(x)
  <2> SUFFICES ASSUME NEW i \in DOMAIN lst, Finds(lst[i], x) PROVE ComplexFolder(x)
    BY DEF ComplexHead, FirstFound
  <2> QED
    BY <1>2
<1>5. ASSUME NEW i \in DOMAIN lst, Finds(lst[i], x) PROVE ComplexHead(x, lst)
  <2> DEFINE T == {k \in DOMAIN lst : Finds(lst[k], x)}
  <2>1. DOMAIN lst = 1 .. Len(lst) /\ Len(lst) \in Nat
    OBVIOUS
  <2>2. T \in SUBSET Nat /\ T # {}
    BY <1>5, <2>1
  <2>3. PICK m \in T : \A y \in T : m <= y
    <3> HIDE DEF T
    <3> QED
      BY <2>2, Smallest
  <2>4. m \in DOMAIN lst /\ Finds(lst[m], x)
    OBVIOUS
  <2>5. \A j \in 1 .. m - 1 : ~Finds(lst[j], x)
    <3> SUFFICES ASSUME NEW j \in 1 .. m - 1, Finds(lst[j], x) PROVE FALSE
      OBVIOUS
    <3>1. j \in DOMAIN lst /\ j < m
      BY <2>1, <2>4
    <3>2. m <= j
      BY <2>3, <3>1
    <3> QED
      BY <2>1, <2>4, <3>1, <3>2
  <2>6. lst[m] = x
    BY <1>2, <2>4
  <2>7. FirstFound(m, x, lst) /\ Len(lst[m]) = Len(x)
    BY <2>4, <2>5, <2>6 DEF FirstFound
  <2> QED
    BY <2>4, <2>7 DEF ComplexHead
<1> QED
  BY <1>3, <1>4, <1>5

\* detect_language_complex_dir makes complex folders of complex folders only.
LEMMA NewIsComplex ==
  ASSUME StickKept, NEW x, NEW lang, VisitedIn(x, lang), NewAt(x, lang)
  PROVE  /\ ComplexFolder(x) /\ LanguageDirs # {}
         /\ x \in NewPages(x)
         /\ \A q \in NewPages(x) : q \in Dirs /\ IsPrefix(x, q)
<1>1. /\ LanguageDirs # {} /\ Len(x) = 2 /\ x[1] = lang
      /\ Files(x) \subseteq {"index.html"} /\ SubDirs(x) # {}
  BY DEF NewAt, NewComplex
<1>2. OwnFiles(x) \subseteq {"index.html"}
  BY <1>1 DEF Files, FilesIn
<1>3. ComplexFolder(x)
  BY <1>1, <1>2 DEF ComplexFolder, VisitedIn
<1>4. x \in NewPages(x)
  BY DEF NewPages
<1>5. x \in Dirs
  BY DEF VisitedIn
<1>6. ASSUME NEW q \in NewPages(x) PROVE q \in Dirs /\ IsPrefix(x, q)
  <2>1. CASE q = x
    BY <1>5, <2>1, DirOrder
  <2>2. CASE q # x
    <3>1. PICK r \in SubDirs(x) : q \in Indexed(r)
      BY <1>6, <2>2 DEF NewPages
    <3>2. q \in Dirs /\ IsPrefix(r, q)
      BY <3>1 DEF Indexed, Reaches
    <3>3. r \in Dirs /\ IsPrefix(x, r)
      BY <1>5, SubDirIsBelow
    <3> QED
      BY <1>5, <3>2, <3>3, DirOrder
  <2> QED
    BY <2>1, <2>2
<1> QED
  BY <1>1, <1>3, <1>4, <1>6

\* The list of complex folders and the indexer's pages after a visit.
LEMMA ListsAfter ==
  ASSUME StickKept, ComplexTrue, ComplexPaged, IndexedInside,
         NEW x, NEW lang, VisitedIn(x, lang)
  PROVE  /\ LstAt(x, lang) \in Seq({q \in Dirs : ComplexFolder(q)})
         /\ \A i \in DOMAIN complexLst : /\ i \in DOMAIN LstAt(x, lang)
                                         /\ LstAt(x, lang)[i] = complexLst[i]
         /\ \A i \in DOMAIN LstAt(x, lang) : LstAt(x, lang)[i] \in IndAt(x, lang)
         /\ \A q \in IndAt(x, lang) : \E c \in Dirs : ComplexFolder(c) /\ IsPrefix(c, q)
         /\ NewAt(x, lang) => \E i \in DOMAIN LstAt(x, lang) : LstAt(x, lang)[i] = x
<1> DEFINE C == {q \in Dirs : ComplexFolder(q)}
<1>1. complexLst \in Seq(C)
  BY DEF ComplexTrue
<1>2. CASE ~NewAt(x, lang)
  BY <1>1, <1>2 DEF LstAt, IndAt, ComplexPaged, IndexedInside
<1>3. CASE NewAt(x, lang)
  <2>1. /\ ComplexFolder(x) /\ x \in NewPages(x) /\ x \in Dirs
        /\ \A q \in NewPages(x) : IsPrefix(x, q)
    BY <1>3, NewIsComplex DEF VisitedIn
  <2>2. x \in C
    BY <2>1
  <2> HIDE DEF C
  <2> DEFINE l == Append(complexLst, x)
             n == Len(complexLst)
  <2>3. /\ l \in Seq(C) /\ Len(l) = n + 1 /\ n \in Nat
        /\ DOMAIN complexLst = 1 .. n /\ DOMAIN l = 1 .. n + 1
        /\ \A i \in 1 .. n : l[i] = complexLst[i]
        /\ l[n + 1] = x
    BY <1>1, <2>2
  <2>4. LstAt(x, lang) = l /\ IndAt(x, lang) = indexed \cup NewPages(x)
    BY <1>3 DEF LstAt, IndAt
  <2> HIDE DEF l, n
  <2>5. \A i \in DOMAIN l : l[i] \in IndAt(x, lang)
    <3> SUFFICES ASSUME NEW i \in DOMAIN l PROVE l[i] \in IndAt(x, lang)
      OBVIOUS
    <3>1. CASE i \in 1 .. n
      BY <2>3, <2>4, <3>1 DEF ComplexPaged
    <3>2. CASE i = n + 1
      BY <2>1, <2>3, <2>4, <3>2
    <3> QED
      BY <2>3, <3>1, <3>2
  <2>6. \A q \in IndAt(x, lang) : \E c \in Dirs : ComplexFolder(c) /\ IsPrefix(c, q)
    BY <2>1, <2>4 DEF IndexedInside
  <2>7. \A i \in DOMAIN complexLst : i \in DOMAIN l /\ l[i] = complexLst[i]
    BY <2>3
  <2>8. \E i \in DOMAIN l : l[i] = x
    BY <2>3
  <2> QED
    BY <2>3, <2>4, <2>5, <2>6, <2>7, <2>8 DEF C
<1> QED
  BY <1>2, <1>3

\* A folder that can be reached is seen neither below a complex folder nor
\* inside a web page.
LEMMA ReachableSeen ==
  ASSUME StickKept, Carried, NEW x, NEW lang, VisitedIn(x, lang), Reachable(x)
  PROVE  /\ ~BelowAt(x, lang) /\ ~InsideAt(x, lang)
         /\ HeadAt(x, lang) \/ NewAt(x, lang) \/ x \in IndAt(x, lang) => ComplexFolder(x)
         /\ x \in webpaths => Closed(x)
         /\ (\E w \in webpaths : Finds(w, x)) => Closed(x)
<1>1. x \in Dirs
  BY DEF VisitedIn
<1>2. /\ LstAt(x, lang) \in Seq({q \in Dirs : ComplexFolder(q)})
      /\ \A q \in IndAt(x, lang) : \E c \in Dirs : ComplexFolder(c) /\ IsPrefix(c, q)
  BY ListsAfter DEF Carried
<1>3. ~BelowAt(x, lang) /\ (HeadAt(x, lang) => ComplexFolder(x))
  BY <1>1, <1>2, ReachableInList DEF BelowAt, HeadAt
<1>4. \A w \in webpaths : Finds(w, x) => w = x /\ Closed(x)
  BY <1>1, WebOnlyItself DEF Carried
<1>5. ~InsideAt(x, lang)
  <2>1. \A w \in HeadWebs(x, lang) : w \in webpaths \/ w = x
    BY DEF HeadWebs
  <2> QED
    BY <1>4, <2>1 DEF InsideAt, InWebpath
<1>6. x \in IndAt(x, lang) => ComplexFolder(x)
  <2> SUFFICES ASSUME x \in IndAt(x, lang) PROVE ComplexFolder(x)
    OBVIOUS
  <2>1. PICK c \in Dirs : ComplexFolder(c) /\ IsPrefix(c, x)
    BY <1>2
  <2>2. c = x
    BY <2>1, ComplexBlocks DEF Reachable
  <2> QED
    BY <2>1, <2>2
<1>7. NewAt(x, lang) => ComplexFolder(x)
  BY NewIsComplex
<1>8. Finds(x, x)
  BY <1>1, DirOrder
<1> QED
  BY <1>3, <1>4, <1>5, <1>6, <1>7, <1>8

\* ... and its language is no page's.
LEMMA LanguagePage ==
  ASSUME StickKept, NEW x, NEW lang, VisitedIn(x, lang), Judgeable(x)
  PROVE  x = <<lang>> <=> IsLanguageDir(x)
<1>1. x \in Dirs
  BY DEF VisitedIn
<1>2. ASSUME x = <<lang>> PROVE IsLanguageDir(x)
  <2>1. lang \in LanguageDirs
    BY <1>1, <1>2 DEF VisitedIn, LanguageDirs
  <2> QED
    BY <1>2, <2>1, LanguagePath
<1>3. ASSUME IsLanguageDir(x) PROVE x = <<lang>>
  <2>1. x[1] \in LanguageDirs /\ x = <<x[1]>> /\ x # <<>>
    BY <1>1, <1>3, LanguagePath
  <2>2. lang = x[1]
    BY <2>1 DEF VisitedIn
  <2> QED
    BY <2>1, <2>2
<1> QED
  BY <1>2, <1>3

\* An ordinary folder that can be reached is listed, its own files and no
\* page, and the walk goes on into it.
LEMMA OpenFolder ==
  ASSUME StickKept, Carried, NEW x, NEW lang, VisitedIn(x, lang), Reachable(x), ~Closed(x),
         NEW d, d = Judged(x, lang)
  PROVE  /\ ~d.skip /\ ~d.leave /\ x \notin d.webs /\ d.files = OwnFiles(x)
<1>1. x \in Dirs /\ Judgeable(x)
  BY DEF VisitedIn, Reachable
<1>2. ~ComplexFolder(x) /\ ~WebFolder(x)
  BY DEF Closed
<1>3. /\ ~BelowAt(x, lang) /\ ~InsideAt(x, lang) /\ ~HeadAt(x, lang) /\ ~NewAt(x, lang)
      /\ x \notin IndAt(x, lang) /\ x \notin webpaths /\ ~\E w \in webpaths : Finds(w, x)
  BY <1>2, ReachableSeen
<1>4. FilesAt(x, lang) = OwnFiles(x)
  BY <1>3 DEF FilesAt, FilesIn
<1>5. x = <<lang>> <=> IsLanguageDir(x)
  BY <1>1, LanguagePage
<1>6. x = <<>> => LanguageDirs = {}
  BY DEF VisitedIn
<1>7. ~AppAt(x, lang)
  BY <1>2, <1>4, <1>6 DEF AppAt, WebFolder
<1>8. ~WebAt(x, lang)
  BY <1>2, <1>4, <1>5, <1>6 DEF WebAt, IsWeb, WebFolder
<1>9. ~HtmAt(x, lang)
  <2> SUFFICES ASSUME "index.htm" \in OwnFiles(x) PROVE FALSE
    BY <1>4 DEF HtmAt
  <2>1. HasIndex(OwnFiles(x))
    BY DEF HasIndex, Index
  <2>2. IsLanguageDir(x)
    BY <1>2, <1>6, <2>1 DEF WebFolder
  <2>3. Blocks(x) /\ Finds(x, x)
    BY <1>1, <2>2, DirOrder DEF Blocks
  <2> QED
    BY <1>1, <2>3, BlockerIsAbove
<1>10. HtmWebs(x, lang) = webpaths
  BY <1>3, <1>9 DEF HtmWebs, HeadWebs
<1>11. /\ d.files = FilesAt(x, lang)
       /\ d.webs = HtmWebs(x, lang)
                     \cup (IF WebAt(x, lang) \/ AppAt(x, lang) THEN {x} ELSE {})
       /\ d.leave <=> AppAt(x, lang) \/ (WebAt(x, lang) /\ ~Keeps(x, lang))
       /\ d.skip <=>
              /\ d.webs # {}
              /\ \/ InsideAt(x, lang) \/ BelowAt(x, lang)
                 \/ /\ \E w \in d.webs : Finds(w, x)
                    /\ \/ AppAt(x, lang) \/ (WebAt(x, lang) /\ ~Keeps(x, lang))
                       \/ TypeAt(x, lang) # "folders"
                    /\ ~HasIndex(d.files)
  BY JudgedParts
<1>12. d.webs = webpaths
  BY <1>7, <1>8, <1>10, <1>11
<1> QED
  BY <1>3, <1>4, <1>7, <1>8, <1>11, <1>12

\* A complex folder that can be reached is in the list by the time its visit
\* is judged, and has its page.
LEMMA ComplexSeen ==
  ASSUME StickKept, Carried, NEW x, NEW lang, VisitedIn(x, lang), Reachable(x), ComplexFolder(x)
  PROVE  HeadAt(x, lang) /\ x \in IndAt(x, lang)
<1>1. x \in Dirs /\ Judgeable(x) /\ Finds(x, x)
  BY DirOrder DEF VisitedIn, Reachable
<1>2. /\ LstAt(x, lang) \in Seq({q \in Dirs : ComplexFolder(q)})
      /\ \A i \in DOMAIN complexLst : /\ i \in DOMAIN LstAt(x, lang)
                                      /\ LstAt(x, lang)[i] = complexLst[i]
      /\ \A i \in DOMAIN LstAt(x, lang) : LstAt(x, lang)[i] \in IndAt(x, lang)
      /\ NewAt(x, lang) => \E i \in DOMAIN LstAt(x, lang) : LstAt(x, lang)[i] = x
  BY ListsAfter DEF Carried
<1>3. \E i \in DOMAIN LstAt(x, lang) : LstAt(x, lang)[i] = x
  <2>1. CASE NewAt(x, lang)
    BY <1>2, <2>1
  <2>2. CASE ~NewAt(x, lang) /\ LanguageDirs = {}
    <3>1. Len(x) = 1
      BY <2>2 DEF ComplexFolder
    <3>2. PICK i \in DOMAIN complexLst : Finds(complexLst[i], x)
      BY <1>1, <2>2, <3>1 DEF Carried, ComplexAll
    <3>3. complexLst[i] \in Dirs /\ ComplexFolder(complexLst[i])
      <4> DEFINE C == {q \in Dirs : ComplexFolder(q)}
      <4>1. complexLst[i] \in C
        BY DEF Carried, ComplexTrue
      <4> QED
        BY <4>1
    <3>4. complexLst[i] = x
      BY <1>1, <3>2, <3>3, ComplexBlocks, OnlyItself
    <3> QED
      BY <1>2, <3>4
  <2>3. CASE ~NewAt(x, lang) /\ LanguageDirs # {}
    <3>1. x # <<>> /\ x[1] \in LanguageDirs /\ lang = x[1]
      BY <1>1, <2>3 DEF Judgeable, VisitedIn
    <3>2. Len(x) # 1
      BY <3>1 DEF ComplexFolder, IsLanguageDir
    <3>3. Len(x) = 2 /\ SubDirs(x) # {} /\ OwnFiles(x) \subseteq {"index.html"}
      BY <3>2 DEF ComplexFolder
    <3>4. Files(x) \subseteq {"index.html"} /\ ~IsLanguageDir(x)
      BY <3>3 DEF Files, FilesIn, IsLanguageDir
    <3>5. \E i \in DOMAIN complexLst : complexLst[i] = x
      BY <2>3, <3>1, <3>3, <3>4 DEF NewAt, NewComplex
    <3> QED
      BY <1>2, <3>5
  <2> QED
    BY <2>1, <2>2, <2>3
<1>4. PICK i \in DOMAIN LstAt(x, lang) : LstAt(x, lang)[i] = x
  BY <1>3
<1>5. x \in IndAt(x, lang)
  BY <1>2, <1>4
<1>6. \E k \in DOMAIN LstAt(x, lang) : Finds(LstAt(x, lang)[k], x)
  BY <1>1, <1>4
<1>7. HeadAt(x, lang)
  BY <1>1, <1>2, <1>6, ReachableInList DEF HeadAt
<1> QED
  BY <1>5, <1>7

\* A closed folder that can be reached becomes a web path.  It gets a tile if
\* it has an index page or gets one, and is skipped otherwise.
LEMMA ClosedFolder ==
  ASSUME StickKept, Carried, NEW x, NEW lang, VisitedIn(x, lang), Reachable(x), Closed(x),
         NEW d, d = Judged(x, lang)
  PROVE  /\ x \in d.webs
         /\ Paged(x) => ~d.skip /\ HasIndex(d.files)
         /\ ~Paged(x) => d.skip
<1>1. x \in Dirs /\ Judgeable(x) /\ Finds(x, x)
  BY DirOrder DEF VisitedIn, Reachable
<1>2. /\ ~BelowAt(x, lang) /\ ~InsideAt(x, lang)
      /\ HeadAt(x, lang) \/ NewAt(x, lang) \/ x \in IndAt(x, lang) => ComplexFolder(x)
  BY ReachableSeen
<1>3. /\ d.files = FilesAt(x, lang)
      /\ d.webs = HtmWebs(x, lang)
                    \cup (IF WebAt(x, lang) \/ AppAt(x, lang) THEN {x} ELSE {})
      /\ d.skip <=>
             /\ d.webs # {}
             /\ \/ InsideAt(x, lang) \/ BelowAt(x, lang)
                \/ /\ \E w \in d.webs : Finds(w, x)
                   /\ \/ AppAt(x, lang) \/ (WebAt(x, lang) /\ ~Keeps(x, lang))
                      \/ TypeAt(x, lang) # "folders"
                   /\ ~HasIndex(d.files)
  BY JudgedParts
<1>4. HasIndex(d.files) => ~d.skip
  BY <1>2, <1>3
<1>5. CASE ComplexFolder(x)
  <2>1. HeadAt(x, lang) /\ x \in IndAt(x, lang)
    BY <1>5, ComplexSeen
  <2>2. "index.html" \in FilesAt(x, lang)
    BY <2>1 DEF FilesAt, FilesIn
  <2>3. HasIndex(d.files)
    BY <1>3, <2>2 DEF HasIndex, Index
  <2>4. x \in d.webs
    BY <1>3, <2>1 DEF HtmWebs, HeadWebs
  <2> QED
    BY <1>4, <1>5, <2>3, <2>4 DEF Paged
<1>6. CASE ~ComplexFolder(x)
  <2>1. WebFolder(x)
    BY <1>6 DEF Closed
  <2>2. ~HeadAt(x, lang) /\ ~NewAt(x, lang) /\ x \notin IndAt(x, lang)
    BY <1>2, <1>6
  <2>3. FilesAt(x, lang) = OwnFiles(x)
    BY <2>2 DEF FilesAt, FilesIn
  <2>4. WebAt(x, lang) \/ AppAt(x, lang)
    <3>1. CASE App \in OwnFiles(x)
      BY <2>3, <3>1 DEF AppAt
    <3>2. CASE ~IsLanguageDir(x) /\ (HasIndex(OwnFiles(x)) \/ OnePage(OwnFiles(x)))
      <4>1. x # <<lang>>
        BY <1>1, <3>2, LanguagePage
      <4> QED
        BY <2>3, <3>2, <4>1 DEF WebAt, IsWeb
    <3> QED
      BY <2>1, <3>1, <3>2 DEF WebFolder
  <2>5. x \in d.webs
    BY <1>3, <2>4
  <2>6. Paged(x) => HasIndex(d.files)
    BY <1>3, <1>6, <2>3 DEF Paged
  <2>7. ~Paged(x) => d.skip
    <3> SUFFICES ASSUME ~Paged(x) PROVE d.skip
      OBVIOUS
    <3>1. ~HasIndex(d.files)
      BY <1>3, <2>3 DEF Paged
    <3>2. TypeAt(x, lang) # "folders"
      BY <2>2 DEF TypeAt
    <3>3. d.webs # {} /\ \E w \in d.webs : Finds(w, x)
      BY <1>1, <2>5
    <3> QED
      BY <1>3, <3>1, <3>2, <3>3
  <2> QED
    BY <1>4, <2>5, <2>6, <2>7
<1> QED
  BY <1>5, <1>6

\* A folder inside one that became a web path is skipped.
LEMMA InnerFolder ==
  ASSUME StickKept, NEW x \in Dirs, NEW lang, WebpathsBlocked,
         NEW w \in webpaths, w # x, IsPrefix(w, x), NEW d, d = Judged(x, lang)
  PROVE  d.skip
<1>1. Finds(w, x)
  BY DirOrder DEF WebpathsBlocked
<1>2. w \in HeadWebs(x, lang)
  BY DEF HeadWebs
<1>3. InsideAt(x, lang)
  BY <1>1, <1>2 DEF InsideAt, InWebpath
<1>4. w \in HtmWebs(x, lang)
  BY <1>2 DEF HtmWebs
<1>5. /\ d.webs = HtmWebs(x, lang)
                    \cup (IF WebAt(x, lang) \/ AppAt(x, lang) THEN {x} ELSE {})
      /\ d.skip <=>
             /\ d.webs # {}
             /\ \/ InsideAt(x, lang) \/ BelowAt(x, lang)
                \/ /\ \E v \in d.webs : Finds(v, x)
                   /\ \/ AppAt(x, lang) \/ (WebAt(x, lang) /\ ~Keeps(x, lang))
                      \/ TypeAt(x, lang) # "folders"
                   /\ ~HasIndex(d.files)
  BY JudgedParts
<1> QED
  BY <1>3, <1>4, <1>5

\* Whatever becomes a web path is found below a closed folder or a language
\* with an index.htm.
LEMMA WebsAfter ==
  ASSUME StickKept, Carried, NEW x, NEW lang, VisitedIn(x, lang), NEW d, d = Judged(x, lang)
  PROVE  /\ webpaths \subseteq d.webs /\ d.webs \subseteq Dirs
         /\ \A w \in d.webs : \E q \in Dirs : Blocks(q) /\ Finds(q, w)
<1>1. x \in Dirs /\ Finds(x, x) /\ (x = <<>> => LanguageDirs = {})
  BY DirOrder DEF VisitedIn
<1>2. d.webs = HtmWebs(x, lang)
                 \cup (IF WebAt(x, lang) \/ AppAt(x, lang) THEN {x} ELSE {})
  BY JudgedParts
<1>3. webpaths \subseteq d.webs /\ d.webs \subseteq webpaths \cup {x}
  BY <1>2 DEF HtmWebs, HeadWebs
<1>4. d.webs \subseteq Dirs
  BY <1>1, <1>3 DEF Carried, WebpathsBlocked
<1> DEFINE Covered(w) == \E q \in Dirs : Blocks(q) /\ Finds(q, w)
<1>5. /\ LstAt(x, lang) \in Seq({q \in Dirs : ComplexFolder(q)})
      /\ \A q \in IndAt(x, lang) : \E c \in Dirs : ComplexFolder(c) /\ IsPrefix(c, q)
  BY ListsAfter DEF Carried
<1>6. HeadAt(x, lang) => Covered(x)
  <2> SUFFICES ASSUME HeadAt(x, lang) PROVE Covered(x)
    OBVIOUS
  <2> DEFINE C == {q \in Dirs : ComplexFolder(q)}
             lst == LstAt(x, lang)
  <2>1. PICK i \in DOMAIN lst : Finds(lst[i], x)
    BY DEF HeadAt, ComplexHead, FirstFound
  <2>2. lst[i] \in C
    BY <1>5
  <2> HIDE DEF lst
  <2>3. lst[i] \in Dirs /\ ComplexFolder(lst[i])
    BY <2>2
  <2> QED
    BY <2>1, <2>3, ComplexBlocks
<1>7. x \in IndAt(x, lang) => Covered(x)
  <2> SUFFICES ASSUME x \in IndAt(x, lang) PROVE Covered(x)
    OBVIOUS
  <2>1. PICK c \in Dirs : ComplexFolder(c) /\ IsPrefix(c, x)
    BY <1>5
  <2> QED
    BY <1>1, <2>1, ComplexBlocks, DirOrder
<1>8. ASSUME x \notin IndAt(x, lang),
             HtmAt(x, lang) \/ WebAt(x, lang) \/ AppAt(x, lang)
      PROVE  Covered(x)
  <2>1. FilesAt(x, lang) = OwnFiles(x)
    BY <1>8 DEF FilesAt, FilesIn
  <2>2. Blocks(x)
    <3>1. CASE AppAt(x, lang)
      BY <1>1, <2>1, <3>1 DEF AppAt, WebFolder, Closed, Blocks
    <3>2. CASE IsLanguageDir(x) /\ HtmAt(x, lang)
      BY <2>1, <3>2 DEF HtmAt, Blocks
    <3>3. CASE ~IsLanguageDir(x) /\ HtmAt(x, lang)
      <4>1. HasIndex(OwnFiles(x))
        BY <2>1, <3>3 DEF HtmAt, HasIndex, Index
      <4> QED
        BY <1>1, <3>3, <4>1 DEF WebFolder, Closed, Blocks
    <3>4. CASE WebAt(x, lang)
      <4>1. x # <<lang>> /\ (HasIndex(OwnFiles(x)) \/ OnePage(OwnFiles(x)))
        BY <2>1, <3>4 DEF WebAt, IsWeb
      <4>2. ~IsLanguageDir(x)
        <5> SUFFICES ASSUME IsLanguageDir(x) PROVE FALSE
          OBVIOUS
        <5>1. x[1] \in LanguageDirs /\ x = <<x[1]>> /\ x # <<>>
          BY <1>1, LanguagePath
        <5>2. lang = x[1]
          BY <5>1 DEF VisitedIn
        <5> QED
          BY <4>1, <5>1, <5>2
      <4> QED
        BY <1>1, <4>1, <4>2 DEF WebFolder, Closed, Blocks
    <3> QED
      BY <1>8, <3>1, <3>2, <3>3, <3>4
  <2> QED
    BY <1>1, <2>2
<1>9. ASSUME NEW w \in d.webs PROVE Covered(w)
  <2>1. CASE w \in webpaths
    BY <2>1 DEF Carried, WebpathsBlocked
  <2>2. CASE w \notin webpaths
    <3>1. w = x
      BY <1>3, <1>9, <2>2
    <3>2. HeadAt(x, lang) \/ HtmAt(x, lang) \/ WebAt(x, lang) \/ AppAt(x, lang)
      BY <1>2, <1>9, <2>2 DEF HtmWebs, HeadWebs
    <3> HIDE DEF Covered
    <3> QED
      BY <1>6, <1>7, <1>8, <3>1, <3>2
  <2> QED
    BY <2>1, <2>2
<1> QED
  BY <1>3, <1>4, <1>9

-----------------------------------------------------------------------------
(* The folders that wait                                                   *)

Pending(p) == \E i \in DOMAIN todo : IsPrefix(todo[i], p)

\* Depth first: deeper folders wait in front, in the language of the walk.
TodoOrdered ==
  /\ todo \in Seq(Dirs)
  /\ \A i \in DOMAIN todo :
       /\ todo[i] = <<>> => Len(todo) = 1
       /\ Len(todo[i]) >= 2 => /\ \A j \in 1 .. i - 1 : Len(todo[j]) >= 2
                               /\ todo[i][1] \in LanguageDirs => todo[i][1] = language

\* Of the folders inside a closed one, those that wait are marked.
InnerMarked ==
  \A i \in DOMAIN todo : Judgeable(todo[i]) /\ ~Reachable(todo[i]) =>
    \E w \in webpaths : w # todo[i] /\ IsPrefix(w, todo[i])

OrderKept == order \in SetToSeqs(SubDirs(<<>>))

LEMMA OrderHasAll ==
  ASSUME IsFiniteSet(Dirs), NEW p, NEW ord \in SetToSeqs(SubDirs(p))
  PROVE  /\ ord \in Seq(Dirs)
         /\ \A i \in DOMAIN ord : ord[i] \in SubDirs(p)
         /\ \A q \in SubDirs(p) : \E i \in DOMAIN ord : ord[i] = q
<1> DEFINE S == SubDirs(p)
           n == Cardinality(S)
<1>1. IsFiniteSet(S)
  BY FS_Subset DEF SubDirs
<1>2. n \in Nat
  BY <1>1, FS_CardinalityType
<1>3. ord \in [1 .. n -> S] /\ \A i, j \in 1 .. n : i # j => ord[i] # ord[j]
  BY DEF SetToSeqs
<1>4. IsFiniteSet(1 .. n) /\ Cardinality(1 .. n) = n
  BY <1>2, FS_Interval
<1> HIDE DEF S
<1>5. ord \in Injection(1 .. n, S)
  BY <1>3 DEF Injection, IsInjective
<1>6. ord \in Surjection(1 .. n, S)
  BY <1>1, <1>4, <1>5, FS_Injection DEF n
<1>7. \A q \in S : \E i \in 1 .. n : ord[i] = q
  BY <1>6 DEF Surjection
<1>8. DOMAIN ord = 1 .. n /\ \A i \in 1 .. n : ord[i] \in S
  BY <1>3
<1>9. ord \in Seq(Dirs)
  BY OrdersAreSeqs
<1> QED
  BY <1>7, <1>8, <1>9 DEF S

\* What waits after a visit: the subfolders, then the rest.
InLine(t, ord, old) ==
  /\ \A i \in DOMAIN ord : i \in DOMAIN t /\ t[i] = ord[i]
  /\ \A i \in DOMAIN old : i # 1 => \E k \in DOMAIN t : t[k] = old[i]
  /\ \A i \in DOMAIN t :
       \/ \A j \in 1 .. i : j \in DOMAIN ord /\ t[j] = ord[j]
       \/ \E m \in DOMAIN old :
            /\ m > 1 /\ t[i] = old[m]
            /\ \A j \in 1 .. i - 1 : \/ j \in DOMAIN ord /\ t[j] = ord[j]
                                     \/ \E k \in 1 .. m - 1 : t[j] = old[k]

LEMMA NextInLine ==
  ASSUME NEW S, NEW old \in Seq(S), old # <<>>, NEW ord \in Seq(S), NEW t, t = ord \o Tail(old)
  PROVE  t \in Seq(S) /\ InLine(t, ord, old)
<1> DEFINE a == Len(ord)
           b == Len(old)
           u == Tail(old)
<1>1. /\ a \in Nat /\ b \in Nat /\ b >= 1
      /\ DOMAIN ord = 1 .. a /\ DOMAIN old = 1 .. b
  BY EmptySeq, LenProperties
<1>2. u \in Seq(S) /\ Len(u) = b - 1 /\ \A i \in 1 .. b - 1 : u[i] = old[i + 1]
  BY HeadTailProperties
<1> HIDE DEF u
<1>3. t = ord \o u
  BY DEF u
<1>4. /\ t \in Seq(S) /\ Len(t) = a + (b - 1)
      /\ \A i \in 1 .. a + (b - 1) : t[i] = IF i <= a THEN ord[i] ELSE u[i - a]
  BY <1>2, <1>3, ConcatProperties
<1>5. DOMAIN t = 1 .. a + (b - 1)
  BY <1>4, LenProperties
<1> HIDE DEF a, b
<1>6. \A i \in DOMAIN ord : i \in DOMAIN t /\ t[i] = ord[i]
  BY <1>1, <1>4, <1>5
<1>7. \A i \in 2 .. b : (i - 1) + a \in DOMAIN t /\ t[(i - 1) + a] = old[i]
  <2> TAKE i \in 2 .. b
  <2>1. (i - 1) + a \in 1 .. a + (b - 1) /\ ~((i - 1) + a <= a) /\ i - 1 \in 1 .. b - 1
    BY <1>1
  <2>2. ((i - 1) + a) - a = i - 1 /\ (i - 1) + 1 = i
    BY <1>1
  <2>3. t[(i - 1) + a] = u[i - 1]
    BY <1>4, <2>1, <2>2
  <2>4. u[i - 1] = old[i]
    BY <1>2, <2>1, <2>2
  <2> QED
    BY <1>5, <2>1, <2>3, <2>4
<1>8. \A i \in DOMAIN old : i # 1 => \E k \in DOMAIN t : t[k] = old[i]
  <2> SUFFICES ASSUME NEW i \in DOMAIN old, i # 1 PROVE \E k \in DOMAIN t : t[k] = old[i]
    OBVIOUS
  <2>1. i \in 2 .. b
    BY <1>1
  <2> QED
    BY <1>7, <2>1
<1>9. ASSUME NEW i \in DOMAIN t
      PROVE  \/ \A j \in 1 .. i : j \in DOMAIN ord /\ t[j] = ord[j]
             \/ \E m \in DOMAIN old :
                  /\ m > 1 /\ t[i] = old[m]
                  /\ \A j \in 1 .. i - 1 : \/ j \in DOMAIN ord /\ t[j] = ord[j]
                                           \/ \E k \in 1 .. m - 1 : t[j] = old[k]
  <2>1. CASE i <= a
    <3>1. \A j \in 1 .. i : j \in DOMAIN ord
      BY <1>1, <1>5, <2>1
    <3> QED
      BY <1>6, <3>1
  <2>2. CASE i > a
    <3> DEFINE m == (i - a) + 1
    <3>1. m \in 2 .. b /\ (m - 1) + a = i
      BY <1>1, <1>5, <2>2
    <3>2. t[i] = old[m]
      BY <1>7, <3>1
    <3>3. ASSUME NEW j \in 1 .. i - 1
          PROVE  \/ j \in DOMAIN ord /\ t[j] = ord[j]
                 \/ \E k \in 1 .. m - 1 : t[j] = old[k]
      <4>1. CASE j <= a
        <5>1. j \in DOMAIN ord
          BY <1>1, <4>1
        <5> QED
          BY <1>6, <5>1
      <4>2. CASE j > a
        <5> DEFINE k == (j - a) + 1
        <5>1. k \in 2 .. b /\ k \in 1 .. m - 1 /\ (k - 1) + a = j
          BY <1>1, <1>5, <4>2, <3>1
        <5>2. t[j] = old[k]
          BY <1>7, <5>1
        <5> QED
          BY <5>1, <5>2
      <4> QED
        BY <1>1, <1>5, <4>1, <4>2
    <3>4. m \in DOMAIN old /\ m > 1
      BY <1>1, <3>1
    <3> HIDE DEF m
    <3> QED
      BY <3>2, <3>3, <3>4
  <2>3. i <= a \/ i > a
    BY <1>1, <1>5

  <2> QED
    BY <2>1, <2>2, <2>3, Zenon
<1> QED
  BY <1>4, <1>6, <1>8, <1>9 DEF InLine

\* What the stick alone says stays as the stick does.
LEMMA StickAlone ==
  ASSUME UNCHANGED stick
  PROVE  /\ StickKept' <=> StickKept
         /\ Dirs' = Dirs /\ LanguageDirs' = LanguageDirs
         /\ \A p : /\ SubDirs(p)' = SubDirs(p) /\ OwnFiles(p)' = OwnFiles(p)
                   /\ Media(p)' = Media(p)
                   /\ Closed(p)' <=> Closed(p)
                   /\ ComplexFolder(p)' <=> ComplexFolder(p)
                   /\ Judgeable(p)' <=> Judgeable(p)
                   /\ Reachable(p)' <=> Reachable(p)
                   /\ Blocks(p)' <=> Blocks(p)
                   /\ Paged(p)' <=> Paged(p)
<1>1. Dirs' = Dirs
  BY DEF Dirs
<1>2. LanguageDirs' = LanguageDirs
  BY <1>1 DEF LanguageDirs
<1>3. \A p : SubDirs(p)' = SubDirs(p) /\ OwnFiles(p)' = OwnFiles(p)
  BY <1>1 DEF SubDirs, OwnFiles
<1>4. \A p : Media(p)' = Media(p)
  BY <1>3 DEF Media
<1>5. StickKept' <=> StickKept
  BY <1>1 DEF StickKept
<1>6. \A p : IsLanguageDir(p)' <=> IsLanguageDir(p)
  BY <1>2 DEF IsLanguageDir
<1>7. \A p : WebFolder(p)' <=> WebFolder(p)
  BY <1>2, <1>3, <1>6 DEF WebFolder
<1>8. \A p : ComplexFolder(p)' <=> ComplexFolder(p)
  BY <1>2, <1>3, <1>6 DEF ComplexFolder
<1>9. \A p : Closed(p)' <=> Closed(p)
  BY <1>7, <1>8 DEF Closed
<1>10. \A p : Judgeable(p)' <=> Judgeable(p)
  BY <1>1, <1>2, <1>3, <1>9 DEF Judgeable
<1>11. \A p : Reachable(p)' <=> Reachable(p)
  BY <1>1, <1>9, <1>10 DEF Reachable
<1>12. \A p : Blocks(p)' <=> Blocks(p)
  BY <1>3, <1>6, <1>9 DEF Blocks
<1>13. \A p : Paged(p)' <=> Paged(p)
  BY <1>3, <1>8 DEF Paged
<1> QED
  BY <1>1, <1>2, <1>3, <1>4, <1>5, <1>8, <1>9, <1>10, <1>11, <1>12, <1>13

LEMMA TwoOrMore == \A n \in Nat : n >= 2 <=> n # 0 /\ n # 1
  OBVIOUS

\* A visit keeps the order, and its language is the folder's.
LEMMA VisitInOrder ==
  ASSUME StickKept, LanguageKept, TodoOrdered, UNCHANGED stick, todo # <<>>,
         NEW x, x = todo[1], x = <<>> => LanguageDirs = {},
         NEW lang, lang = (IF IsLanguageDir(x) THEN x[1] ELSE language), language' = lang,
         NEW ord \in Seq(Dirs), \A i \in DOMAIN ord : ord[i] \in SubDirs(x),
         todo' = ord \o Tail(todo)
  PROVE  VisitedIn(x, lang) /\ LanguageKept' /\ TodoOrdered'
<1>0. DOMAIN todo = 1 .. Len(todo) /\ Len(todo) \in Nat \ {0} /\ 1 \in DOMAIN todo
  BY EmptySeq, LenProperties DEF TodoOrdered
<1>1. x \in Dirs /\ \A i \in DOMAIN todo : todo[i] \in Dirs
  BY <1>0 DEF TodoOrdered
<1>2. Len(x) \in Nat /\ (x = <<>> <=> Len(x) = 0)
  BY <1>1, DirOrder
<1>3. Len(x) >= 2 => ~IsLanguageDir(x) /\ (x[1] \in LanguageDirs => x[1] = language)
  <2>1. Len(x) >= 2 => (x[1] \in LanguageDirs => x[1] = language)
    BY <1>0 DEF TodoOrdered
  <2>2. Len(x) >= 2 => ~IsLanguageDir(x)
    BY <1>2, TwoOrMore, Zenon DEF IsLanguageDir
  <2> QED
    BY <2>1, <2>2
<1>4. VisitedIn(x, lang)
  <2>1. CASE IsLanguageDir(x)
    <3>1. x[1] \in LanguageDirs /\ x[1] \in Codes
      BY <1>1, <2>1, LanguagePath
    <3> QED
      BY <1>1, <2>1, <3>1 DEF VisitedIn
  <2>2. CASE ~IsLanguageDir(x)
    <3>1. lang \in Codes /\ (LanguageDirs # {} => lang \in LanguageDirs)
      BY <2>2 DEF LanguageKept
    <3>2. x # <<>> /\ x[1] \in LanguageDirs => Len(x) >= 2
      <4> SUFFICES ASSUME x # <<>>, x[1] \in LanguageDirs PROVE Len(x) >= 2
        OBVIOUS
      <4>1. Len(x) # 1
        BY <2>2 DEF IsLanguageDir
      <4>2. Len(x) # 0
        BY <1>2
      <4> QED
        BY <1>2, <4>1, <4>2, TwoOrMore, Zenon
    <3> QED
      BY <1>1, <1>3, <2>2, <3>1, <3>2 DEF VisitedIn
  <2> QED
    BY <2>1, <2>2
<1>5. LanguageKept'
  BY <1>4, StickAlone DEF VisitedIn, LanguageKept
<1> DEFINE t == ord \o Tail(todo)
           D == Dirs
<1>6. /\ t \in Seq(D)
      /\ \A i \in DOMAIN t :
           \/ \A j \in 1 .. i : j \in DOMAIN ord /\ t[j] = ord[j]
           \/ \E m \in DOMAIN todo :
                /\ m > 1 /\ t[i] = todo[m]
                /\ \A j \in 1 .. i - 1 : \/ j \in DOMAIN ord /\ t[j] = ord[j]
                                         \/ \E k \in 1 .. m - 1 : t[j] = todo[k]
  <2> HIDE DEF D
  <2>1. todo \in Seq(D) /\ ord \in Seq(D)
    BY DEF TodoOrdered, D
  <2>2. t = ord \o Tail(todo)
    OBVIOUS
  <2> HIDE DEF t
  <2>3. t \in Seq(D) /\ InLine(t, ord, todo)
    BY <2>1, <2>2, NextInLine
  <2> QED
    BY <2>3 DEF InLine
<1>7. DOMAIN t = 1 .. Len(t) /\ Len(t) \in Nat
  BY <1>6, LenProperties
<1>8. \A i \in DOMAIN ord : /\ ord[i] \in Dirs /\ Len(ord[i]) = Len(x) + 1
                            /\ IsPrefix(x, ord[i]) /\ ord[i] # <<>>
  <2> TAKE i \in DOMAIN ord
  <2>1. ord[i] \in Dirs /\ Len(ord[i]) = Len(x) + 1 /\ IsPrefix(x, ord[i])
    BY <1>1, SubDirIsBelow
  <2>2. ord[i] # <<>>
    BY <1>2, <2>1, DirOrder
  <2> QED
    BY <2>1, <2>2
<1> HIDE DEF t
<1>9. ASSUME NEW i \in DOMAIN t
      PROVE  /\ t[i] = <<>> => Len(t) = 1
             /\ Len(t[i]) >= 2 => /\ \A j \in 1 .. i - 1 : Len(t[j]) >= 2
                                  /\ t[i][1] \in LanguageDirs => t[i][1] = lang
  <2>0. i \in 1 .. i
    BY <1>7
  <2>1. CASE \A j \in 1 .. i : j \in DOMAIN ord /\ t[j] = ord[j]
    <3>1. i \in DOMAIN ord /\ t[i] = ord[i]
      BY <2>0, <2>1
    <3>2. t[i] # <<>>
      BY <1>8, <3>1
    <3>3. ASSUME Len(t[i]) >= 2
          PROVE  /\ \A j \in 1 .. i - 1 : Len(t[j]) >= 2
                 /\ t[i][1] \in LanguageDirs => t[i][1] = lang
      <4>1. Len(x) + 1 >= 2 /\ x # <<>>
        BY <1>2, <1>8, <3>1, <3>3
      <4>2. \A j \in 1 .. i - 1 : Len(t[j]) >= 2
        <5> TAKE j \in 1 .. i - 1
        <5>1. j \in 1 .. i
          BY <1>7
        <5>2. j \in DOMAIN ord /\ t[j] = ord[j]
          BY <2>1, <5>1
        <5> QED
          BY <1>8, <4>1, <5>2
      <4>3. t[i][1] = x[1]
        BY <1>1, <1>8, <3>1, <4>1, FirstName
      <4>4. x[1] \in LanguageDirs => lang = x[1]
        BY <1>4, <4>1 DEF VisitedIn
      <4> QED
        BY <4>2, <4>3, <4>4
    <3> QED
      BY <3>2, <3>3
  <2>2. ASSUME NEW m \in DOMAIN todo, m > 1, t[i] = todo[m],
               \A j \in 1 .. i - 1 : \/ j \in DOMAIN ord /\ t[j] = ord[j]
                                     \/ \E k \in 1 .. m - 1 : t[j] = todo[k]
        PROVE  /\ t[i] = <<>> => Len(t) = 1
               /\ Len(t[i]) >= 2 => /\ \A j \in 1 .. i - 1 : Len(t[j]) >= 2
                                    /\ t[i][1] \in LanguageDirs => t[i][1] = lang
    <3>1. t[i] # <<>>
      BY <1>0, <2>2 DEF TodoOrdered
    <3>2. ASSUME Len(t[i]) >= 2
          PROVE  /\ \A j \in 1 .. i - 1 : Len(t[j]) >= 2
                 /\ t[i][1] \in LanguageDirs => t[i][1] = lang
      <4>1. /\ \A k \in 1 .. m - 1 : Len(todo[k]) >= 2
            /\ todo[m][1] \in LanguageDirs => todo[m][1] = language
        BY <2>2, <3>2 DEF TodoOrdered
      <4>2. Len(x) >= 2
        BY <1>0, <2>2, <4>1
      <4>3. lang = language
        BY <1>3, <4>2
      <4>4. \A j \in 1 .. i - 1 : Len(t[j]) >= 2
        <5> TAKE j \in 1 .. i - 1
        <5>1. CASE j \in DOMAIN ord /\ t[j] = ord[j]
          BY <1>2, <1>8, <4>2, <5>1
        <5>2. CASE \E k \in 1 .. m - 1 : t[j] = todo[k]
          BY <4>1, <5>2
        <5> QED
          BY <2>2, <5>1, <5>2
      <4> QED
        BY <2>2, <4>1, <4>3, <4>4
    <3> QED
      BY <3>1, <3>2
  <2> QED
    BY <1>6, <2>1, <2>2
<1>10. todo' = t
  BY DEF t
<1>11. TodoOrdered'
  BY <1>6, <1>9, <1>10, StickAlone DEF TodoOrdered
<1> QED
  BY <1>4, <1>5, <1>11

\* Folders that wait inside a closed one stay marked, and new ones are.
LEMMA VisitMarks ==
  ASSUME StickKept, Carried, TodoOrdered, InnerMarked, UNCHANGED stick, todo # <<>>,
         NEW x, x = todo[1], NEW lang, VisitedIn(x, lang), NEW d, d = Judged(x, lang),
         webpaths' = d.webs, NEW ord \in Seq(Dirs), \A i \in DOMAIN ord : ord[i] \in SubDirs(x),
         todo' = ord \o Tail(todo)
  PROVE  InnerMarked'
<1> DEFINE Marked(y, webs) == \E w \in webs : w # y /\ IsPrefix(w, y)
<1>1. 1 \in DOMAIN todo
  BY EmptySeq, LenProperties DEF TodoOrdered
<1>2. x \in Dirs /\ webpaths \subseteq Dirs /\ webpaths \subseteq d.webs
  BY WebsAfter DEF VisitedIn, Carried, WebpathsBlocked
<1>3. ASSUME NEW y, Judgeable(y), ~Reachable(y), NEW i \in DOMAIN todo, y = todo[i]
      PROVE  Marked(y, d.webs)
  BY <1>2, <1>3 DEF InnerMarked
<1>4. ASSUME NEW y, Judgeable(y), ~Reachable(y), y \in SubDirs(x)
      PROVE  Marked(y, d.webs)
  <2>1. y \in Dirs /\ IsPrefix(x, y) /\ y # x /\ Len(y) = Len(x) + 1
    BY <1>2, <1>4, SubDirIsBelow
  <2>2. Judgeable(x)
    BY <1>2, <1>4, <2>1, JudgeableAbove DEF VisitedIn
  <2>3. CASE Reachable(x)
    <3>1. PICK q \in Dirs : Closed(q) /\ IsPrefix(q, y) /\ q # y
      BY <1>4 DEF Reachable
    <3>2. Len(q) <= Len(x)
      <4>1. Len(q) <= Len(y) /\ Len(q) \in Nat /\ Len(y) \in Nat /\ Len(x) \in Nat
        BY <1>2, <2>1, <3>1, DirOrder
      <4>2. ~(Len(y) <= Len(q))
        BY <2>1, <3>1, DirOrder
      <4> QED
        BY <2>1, <4>1, <4>2
    <3>3. IsPrefix(q, x)
      BY <1>2, <2>1, <3>1, <3>2, DirOrder
    <3>4. Closed(x)
      BY <2>3, <3>1, <3>3 DEF Reachable
    <3>5. x \in d.webs
      BY <2>3, <3>4, ClosedFolder
    <3> QED
      BY <2>1, <3>5
  <2>4. CASE ~Reachable(x)
    <3>1. PICK w \in webpaths : w # x /\ IsPrefix(w, x)
      BY <1>1, <2>2, <2>4 DEF InnerMarked
    <3>2. w \in Dirs /\ w \in d.webs
      BY <1>2
    <3>3. IsPrefix(w, y)
      BY <1>2, <2>1, <3>1, <3>2, DirOrder
    <3>4. w # y
      BY <1>2, <2>1, <3>1, <3>2, DirOrder
    <3> QED
      BY <3>2, <3>3, <3>4
  <2> QED
    BY <2>3, <2>4
<1> DEFINE t == ord \o Tail(todo)
<1>5. InLine(t, ord, todo)
  <2> DEFINE D == Dirs
  <2>1. todo \in Seq(D) /\ ord \in Seq(D) /\ t = ord \o Tail(todo)
    BY DEF TodoOrdered
  <2> HIDE DEF D, t
  <2> QED
    BY <2>1, NextInLine
<1> HIDE DEF t, Marked
<1>6. t \in Seq(Dirs) /\ DOMAIN t = 1 .. Len(t) /\ Len(t) \in Nat
  <2> DEFINE D == Dirs
  <2>1. todo \in Seq(D) /\ ord \in Seq(D) /\ t = ord \o Tail(todo)
    BY DEF TodoOrdered, t
  <2>2. t \in Seq(D)
    <3> HIDE DEF D
    <3> QED
      BY <2>1, NextInLine
  <2> QED
    BY <2>2, LenProperties
<1>7. \A i \in DOMAIN t : t[i] \in SubDirs(x) \/ \E m \in DOMAIN todo : t[i] = todo[m]
  <2> TAKE i \in DOMAIN t
  <2>1. i \in 1 .. i
    BY <1>6
  <2>2. CASE \A j \in 1 .. i : j \in DOMAIN ord /\ t[j] = ord[j]
    BY <2>1, <2>2
  <2>3. CASE \E m \in DOMAIN todo : t[i] = todo[m]
    BY <2>3
  <2> QED
    BY <1>5, <2>2, <2>3 DEF InLine
<1>8. \A i \in DOMAIN t : Judgeable(t[i]) /\ ~Reachable(t[i]) => Marked(t[i], d.webs)
  BY <1>3, <1>4, <1>7
<1>9. todo' = t /\ webpaths' = d.webs
  BY DEF t
<1> QED
  BY <1>8, <1>9, StickAlone DEF InnerMarked, Marked

LEMMA VisitCarries ==
  ASSUME StickKept, Carried, UNCHANGED stick, NEW x, NEW lang, VisitedIn(x, lang),
         NEW d, d = Judged(x, lang),
         webpaths' = d.webs, indexed' = d.ind, complexLst' = d.lst
  PROVE  Carried'
<1>1. d.ind = IndAt(x, lang) /\ d.lst = LstAt(x, lang)
  BY JudgedParts
<1> DEFINE C == {q \in Dirs : ComplexFolder(q)}
<1>2. C' = C
  BY StickAlone
<1>3. /\ LstAt(x, lang) \in Seq(C)
      /\ \A i \in DOMAIN complexLst : /\ i \in DOMAIN LstAt(x, lang)
                                      /\ LstAt(x, lang)[i] = complexLst[i]
      /\ \A i \in DOMAIN LstAt(x, lang) : LstAt(x, lang)[i] \in IndAt(x, lang)
      /\ \A q \in IndAt(x, lang) : \E c \in Dirs : ComplexFolder(c) /\ IsPrefix(c, q)
  BY ListsAfter DEF Carried
<1>4. /\ d.webs \subseteq Dirs
      /\ \A w \in d.webs : \E q \in Dirs : Blocks(q) /\ Finds(q, w)
  BY WebsAfter
<1>5. ComplexTrue'
  BY <1>1, <1>2, <1>3 DEF ComplexTrue
<1>6. ComplexAll'
  <2>1. LanguageDirs = {} =>
          \A q \in Dirs : Len(q) = 1 /\ ComplexFolder(q) =>
            \E i \in DOMAIN LstAt(x, lang) : Finds(LstAt(x, lang)[i], q)
    BY <1>3 DEF Carried, ComplexAll
  <2>2. SUFFICES ASSUME LanguageDirs' = {}, NEW q \in Dirs', Len(q) = 1, ComplexFolder(q)'
                 PROVE  \E i \in DOMAIN complexLst' : Finds(complexLst'[i], q)
    BY DEF ComplexAll
  <2>3. LanguageDirs = {} /\ q \in Dirs /\ ComplexFolder(q)
    BY <2>2, StickAlone
  <2>4. complexLst' = LstAt(x, lang)
    BY <1>1
  <2> QED
    BY <2>1, <2>2, <2>3, <2>4
<1>7. ComplexPaged'
  BY <1>1, <1>3 DEF ComplexPaged
<1>8. WebpathsBlocked'
  BY <1>4, StickAlone DEF WebpathsBlocked, Finds
<1>9. IndexedInside'
  BY <1>1, <1>3, StickAlone DEF IndexedInside, IsPrefix
<1> QED
  BY <1>5, <1>6, <1>7, <1>8, <1>9 DEF Carried

-----------------------------------------------------------------------------
(* The cards                                                               *)

\* What a card says of its folder.
CardTrue(c, lang) ==
  /\ Whole(c)
  /\ Judgeable(c.dir) =>
       /\ c.file \in Media(c.dir) =>
            /\ Reachable(c.dir) /\ ~Closed(c.dir)
            /\ c.lang = IF LanguageDirs = {} THEN lang ELSE c.dir[1]
       /\ Web(c.file) => Reachable(c.dir) /\ Closed(c.dir) /\ Paged(c.dir)

\* A folder that is done has its cards.
Shown(p) ==
  /\ ~Closed(p) => \A f \in Media(p) : \E c \in cards : c.dir = p /\ c.file = f
  /\ Closed(p) /\ Paged(p) => \E c \in cards : c.dir = p /\ Web(c.file)
AllDone == \A p \in Dirs : Reachable(p) /\ ~Pending(p) => Shown(p)
CardsTrue == \A c \in cards : CardTrue(c, language)

\* A folder's new cards are true.
LEMMA NewCardIsTrue ==
  ASSUME StickKept, Carried, NEW x, NEW lang, VisitedIn(x, lang), NEW d, d = Judged(x, lang),
         ~d.skip, Judgeable(x) => Reachable(x),
         NEW f \in Listed(x, d), NEW c, c = CardOf(x, f, d, lang)
  PROVE  CardTrue(c, lang)
<1>1. c.lang = lang /\ c.dir = x /\ c.file = f /\ Whole(c)
  BY DEF CardOf, Whole
<1>2. ASSUME Judgeable(x), f \in Media(x)
      PROVE  /\ Reachable(x) /\ ~Closed(x)
             /\ lang = IF LanguageDirs = {} THEN lang ELSE x[1]
  <2>1. Reachable(x)
    BY <1>2
  <2>2. ~Closed(x)
    <3> SUFFICES ASSUME Closed(x) PROVE FALSE
      OBVIOUS
    <3>1. x \in d.webs
      BY <2>1, ClosedFolder
    <3>2. f \in Index \cup {App}
      BY <3>1 DEF Listed
    <3> QED
      BY <1>2, <3>2 DEF Media, Pages
  <2>3. lang = IF LanguageDirs = {} THEN lang ELSE x[1]
    BY <1>2 DEF Judgeable, VisitedIn
  <2> QED
    BY <2>1, <2>2, <2>3
<1>3. ASSUME Judgeable(x), Web(f)
      PROVE  Reachable(x) /\ Closed(x) /\ Paged(x)
  <2>1. Reachable(x)
    BY <1>3
  <2>2. Closed(x)
    <3> SUFFICES ASSUME ~Closed(x) PROVE FALSE
      OBVIOUS
    <3>1. x \notin d.webs /\ d.files = OwnFiles(x)
      BY <2>1, OpenFolder
    <3>2. f \notin Pages /\ f \in OwnFiles(x)
      BY <3>1 DEF Listed
    <3>3. f = App
      BY <1>3, <3>2 DEF Web, Pages
    <3>4. WebFolder(x)
      BY <3>2, <3>3 DEF WebFolder, VisitedIn
    <3> QED
      BY <3>4 DEF Closed
  <2>3. Paged(x)
    BY <2>1, <2>2, ClosedFolder
  <2> QED
    BY <2>1, <2>2, <2>3
<1> QED
  BY <1>1, <1>2, <1>3 DEF CardTrue

LEMMA BlankIsTrue ==
  ASSUME StickKept, NEW x \in Dirs, NEW d, NEW lang, NEW c \in Blank(x, d, lang)
  PROVE  CardTrue(c, lang)
<1>1. c = [lang |-> lang, dir |-> x, file |-> "", media |-> <<"">>, in |-> ""]
  <2>1. CASE Blank(x, d, lang) = {}
    BY <2>1
  <2>2. CASE Blank(x, d, lang) = {[lang |-> lang, dir |-> x, file |-> "", media |-> <<"">>, in |-> ""]}
    BY <2>2
  <2> QED
    BY <2>1, <2>2 DEF Blank
<1>2. Whole(c) /\ c.dir = x /\ c.file = ""
  BY <1>1 DEF Whole
<1>3. "" \notin Media(x)
  BY DEF Media, OwnFiles, StickKept
<1>4. ~Web("")
  BY DEF Web, Index, App
<1> QED
  BY <1>2, <1>3, <1>4 DEF CardTrue

\* A visit lists what the folder is to show.
LEMMA VisitShows ==
  ASSUME StickKept, Carried, UNCHANGED stick, NEW x, NEW lang, VisitedIn(x, lang),
         Reachable(x), NEW d, d = Judged(x, lang),
         \/ d.skip
         \/ AddFiles(x, d, lang)
         \/ Listed(x, d) = {}
  PROVE  Shown(x)'
<1>1. /\ Closed(x)' <=> Closed(x)
      /\ Paged(x)' <=> Paged(x)
      /\ Media(x)' = Media(x)
  BY StickAlone
<1>2. AddFiles(x, d, lang) =>
        \A f \in Listed(x, d) : \E c \in cards' : c.dir = x /\ c.file = f
  <2> SUFFICES ASSUME AddFiles(x, d, lang), NEW f \in Listed(x, d)
               PROVE  \E c \in cards' : c.dir = x /\ c.file = f
    OBVIOUS
  <2> DEFINE c == CardOf(x, f, d, lang)
  <2>1. c \in cards'
    BY DEF AddFiles
  <2>2. c.dir = x /\ c.file = f
    BY DEF CardOf
  <2> HIDE DEF c
  <2> QED
    BY <2>1, <2>2
<1>3. ASSUME ~Closed(x), NEW f \in Media(x)
      PROVE  \E c \in cards' : c.dir = x /\ c.file = f
  <2>1. ~d.skip /\ x \notin d.webs /\ d.files = OwnFiles(x)
    BY <1>3, OpenFolder
  <2>2. f \in Listed(x, d)
    BY <1>3, <2>1 DEF Listed, Media
  <2> QED
    BY <1>2, <2>1, <2>2
<1>4. ASSUME Closed(x), Paged(x)
      PROVE  \E c \in cards' : c.dir = x /\ Web(c.file)
  <2>1. x \in d.webs /\ ~d.skip /\ HasIndex(d.files)
    BY <1>4, ClosedFolder
  <2>2. PICK f \in d.files : f \in Index
    BY <2>1 DEF HasIndex
  <2>3. f \in Listed(x, d) /\ Web(f)
    BY <2>1, <2>2 DEF Listed, Web
  <2> QED
    BY <1>2, <2>1, <2>3
<1> QED
  BY <1>1, <1>3, <1>4 DEF Shown, Web

\* A visit, whatever comes of it, keeps everything the walk relies on.
LEMMA VisitWalks ==
  ASSUME StickKept, OrderKept, LanguageKept, Carried, TodoOrdered, InnerMarked, CardsTrue, AllDone,
         pc = "walk", Visit, pc' # "out"
  PROVE  /\ pc' = "walk" /\ UNCHANGED <<stick, order>>
         /\ LanguageKept' /\ Carried' /\ TodoOrdered' /\ InnerMarked' /\ CardsTrue' /\ AllDone'
<1> DEFINE x == todo[1]
           lang == IF IsLanguageDir(x) THEN x[1] ELSE language
           d == Judged(x, lang)
<1>1. /\ todo # <<>> /\ (x = <<>> => LanguageDirs = {})
      /\ language' = lang
      /\ indexed' = d.ind /\ complexLst' = d.lst /\ webpaths' = d.webs
      /\ \/ d.skip /\ UNCHANGED <<cards, names, pages, pc>>
         \/ ~d.skip /\ Contains(mains', lang) /\ AddFiles(x, d, lang) /\ UNCHANGED pc
         \/ /\ ~d.skip /\ ~Contains(mains', lang)
            /\ pc' = IF Listed(x, d) \cup Blank(x, d, lang) = {} THEN pc ELSE "out"
            /\ UNCHANGED <<cards, names, pages>>
      /\ \E ord \in IF x = <<>> THEN {order} ELSE SetToSeqs(SubDirs(x)) :
           todo' = (IF d.leave THEN <<>> ELSE ord) \o Tail(todo)
      /\ UNCHANGED <<stick, order, texts>>
  BY DEF Visit
<1>2. PICK all \in IF x = <<>> THEN {order} ELSE SetToSeqs(SubDirs(x)) :
        todo' = (IF d.leave THEN <<>> ELSE all) \o Tail(todo)
  BY <1>1
<1> DEFINE ord == IF d.leave THEN <<>> ELSE all
<1> HIDE DEF d
<1>3. all \in SetToSeqs(SubDirs(x))
  <2>1. CASE x = <<>>
    BY <2>1 DEF OrderKept
  <2>2. CASE x # <<>>
    BY <2>2
  <2> QED
    BY <2>1, <2>2
<1> HIDE DEF x
<1>4. /\ all \in Seq(Dirs)
      /\ \A i \in DOMAIN all : all[i] \in SubDirs(x)
      /\ \A q \in SubDirs(x) : \E i \in DOMAIN all : all[i] = q
  BY <1>3, OrderHasAll DEF StickKept
<1>5. ord \in Seq(Dirs) /\ \A i \in DOMAIN ord : ord[i] \in SubDirs(x)
  <2>1. CASE d.leave
    <3>1. ord = <<>>
      BY <2>1
    <3>2. <<>> \in Seq(Dirs) /\ DOMAIN <<>> = {}
      OBVIOUS
    <3> HIDE DEF ord
    <3> QED
      BY <3>1, <3>2
  <2>2. CASE ~d.leave
    <3>1. ord = all
      BY <2>2
    <3> HIDE DEF ord
    <3> QED
      BY <1>4, <3>1
  <2> QED
    BY <2>1, <2>2
<1>6. todo' = ord \o Tail(todo)
  BY <1>2
<1>7. ~d.leave => ord = all
  OBVIOUS
<1> HIDE DEF ord, lang
<1>8. x = todo[1] /\ lang = (IF IsLanguageDir(x) THEN x[1] ELSE language) /\ d = Judged(x, lang)
  BY DEF x, lang, d
<1>9. UNCHANGED stick /\ todo # <<>> /\ (x = <<>> => LanguageDirs = {}) /\ language' = lang
  BY <1>1
<1>10. VisitedIn(x, lang) /\ LanguageKept' /\ TodoOrdered'
  BY <1>5, <1>6, <1>8, <1>9, VisitInOrder
<1>11. Carried'
  BY <1>1, <1>8, <1>9, <1>10, VisitCarries
<1>12. InnerMarked'
  BY <1>1, <1>5, <1>6, <1>8, <1>9, <1>10, VisitMarks
<1>13. pc' = "walk" /\ (d.skip \/ AddFiles(x, d, lang) \/ Listed(x, d) = {})
       /\ (AddFiles(x, d, lang) \/ cards' = cards)
  BY <1>1
<1>14. AddFiles(x, d, lang) =>
         cards' = cards \cup {CardOf(x, f, d, lang) : f \in Listed(x, d)} \cup Blank(x, d, lang)
  BY DEF AddFiles
<1>15. cards \subseteq cards'
  BY <1>13, <1>14
<1>16. x \in Dirs /\ 1 \in DOMAIN todo
  BY <1>1, <1>10, EmptySeq, LenProperties DEF VisitedIn, TodoOrdered
<1>17. Judgeable(x) /\ ~Reachable(x) => d.skip
  <2> SUFFICES ASSUME Judgeable(x), ~Reachable(x) PROVE d.skip
    OBVIOUS
  <2>1. PICK w \in webpaths : w # x /\ IsPrefix(w, x)
    BY <1>8, <1>16 DEF InnerMarked
  <2> QED
    BY <1>8, <1>16, <2>1, InnerFolder DEF Carried
<1>18. ASSUME NEW c \in cards' PROVE CardTrue(c, lang)
  <2>1. CASE c \in cards
    <3>1. CardTrue(c, language)
      BY <2>1 DEF CardsTrue
    <3>2. LanguageDirs = {} => lang = language
      BY <1>8 DEF IsLanguageDir
    <3> QED
      BY <3>1, <3>2 DEF CardTrue
  <2>2. CASE c \notin cards
    <3>1. AddFiles(x, d, lang) /\ ~d.skip
      BY <1>1, <1>13, <1>18, <2>2
    <3>2. CASE c \in Blank(x, d, lang)
      BY <1>16, <3>2, BlankIsTrue
    <3>3. CASE \E f \in Listed(x, d) : c = CardOf(x, f, d, lang)
      BY <1>8, <1>10, <1>17, <3>1, <3>3, NewCardIsTrue
    <3> QED
      BY <1>14, <1>18, <2>2, <3>1, <3>2, <3>3
  <2> QED
    BY <2>1, <2>2
<1>19. CardsTrue'
  <2>1. \A c \in cards' : CardTrue(c, language)'
    BY <1>9, <1>18, StickAlone DEF CardTrue, Whole, Web
  <2> QED
    BY <2>1 DEF CardsTrue
<1>20. InLine(todo', ord, todo)
  <2> DEFINE D == Dirs
  <2>1. todo \in Seq(D) /\ ord \in Seq(D)
    BY <1>5 DEF TodoOrdered
  <2> HIDE DEF D
  <2> QED
    BY <1>1, <1>6, <2>1, NextInLine
<1>21. ASSUME NEW p \in Dirs, Reachable(p), ~Pending(p)' PROVE Shown(p)'
  <2>0. \A i \in DOMAIN todo' : ~IsPrefix(todo'[i], p)
    BY <1>21 DEF Pending
  <2>1. CASE p = x
    BY <1>8, <1>9, <1>10, <1>13, <1>21, <2>1, VisitShows
  <2>2. CASE ~Pending(p)
    <3>1. Shown(p)
      BY <1>21, <2>2 DEF AllDone
    <3>2. (Closed(p)' <=> Closed(p)) /\ (Paged(p)' <=> Paged(p)) /\ Media(p)' = Media(p)
      BY <1>9, StickAlone
    <3> QED
      BY <1>15, <3>1, <3>2 DEF Shown, Web
  <2>3. CASE p # x /\ Pending(p)
    <3>1. PICK i \in DOMAIN todo : IsPrefix(todo[i], p)
      BY <2>3 DEF Pending
    <3>2. CASE i # 1
      <4>1. PICK k \in DOMAIN todo' : todo'[k] = todo[i]
        BY <1>20, <3>2 DEF InLine
      <4> QED
        BY <2>0, <3>1, <4>1
    <3>3. CASE i = 1
      <4>1. IsPrefix(x, p)
        BY <1>8, <3>1, <3>3
      <4>2. x # <<>> \/ LanguageDirs = {}
        BY <1>9
      <4>3. Reachable(x) /\ ~Closed(x)
        BY <1>16, <1>21, <2>3, <4>1, <4>2, ReachableAbove
      <4>4. ~d.leave
        BY <1>8, <1>10, <4>3, OpenFolder
      <4>5. PICK c \in SubDirs(x) : IsPrefix(c, p)
        BY <1>16, <2>3, <4>1, NextOnTheWay
      <4>6. PICK k \in DOMAIN ord : ord[k] = c
        BY <1>4, <1>7, <4>4
      <4>7. k \in DOMAIN todo' /\ todo'[k] = c
        BY <1>20, <4>6 DEF InLine
      <4> QED
        BY <2>0, <4>5, <4>7
    <3> QED
      BY <3>2, <3>3
  <2> QED
    BY <2>1, <2>2, <2>3
<1>22. AllDone'
  BY <1>9, <1>21, StickAlone DEF AllDone
<1> QED
  BY <1>1, <1>10, <1>11, <1>12, <1>13, <1>19, <1>22

-----------------------------------------------------------------------------
(* Before the walk                                                         *)

\* detect_language_dirs: the language is one of the stick's, if it has any.
LEMMA SomeLastLanguage ==
  ASSUME NEW ord, Len(ord) \in Nat, DOMAIN ord = 1 .. Len(ord),
         NEW m \in DOMAIN ord, ord[m][1] \in LanguageDirs
  PROVE  LastOf(ord) \in LanguageDirs
<1> DEFINE n == Len(ord)
           AtLast(i) == /\ ord[i][1] \in LanguageDirs
                        /\ \A j \in DOMAIN ord : j > i => ord[j][1] \notin LanguageDirs
           T == {k \in Nat : k < n /\ ord[n - k][1] \in LanguageDirs}
<1>1. n - m \in T
  <2>1. m \in 1 .. n /\ n - m \in Nat /\ n - (n - m) = m /\ n - m < n
    OBVIOUS
  <2> QED
    BY <2>1
<1>2. T \subseteq Nat /\ T # {}
  BY <1>1
<1> HIDE DEF T
<1>3. PICK k \in T : \A y \in T : k <= y
  BY <1>2, Smallest
<1>4. k \in Nat /\ k < n /\ ord[n - k][1] \in LanguageDirs
  BY <1>3 DEF T
<1>5. n - k \in DOMAIN ord
  BY <1>4
<1>6. ASSUME NEW j \in DOMAIN ord, j > n - k, ord[j][1] \in LanguageDirs
      PROVE  FALSE
  <2>1. n - j \in Nat /\ n - j < n /\ n - (n - j) = j /\ n - j < k
    BY <1>4, <1>6
  <2>2. n - j \in T
    BY <1>6, <2>1 DEF T
  <2> QED
    BY <1>3, <1>4, <2>1, <2>2
<1>7. AtLast(n - k)
  BY <1>4, <1>6
<1> DEFINE last == CHOOSE i \in DOMAIN ord : AtLast(i)
<1>8. last \in DOMAIN ord /\ AtLast(last)
  BY <1>5, <1>7
<1>9. LastOf(ord) = ord[last][1]
  BY DEF LastOf
<1> QED
  BY <1>8, <1>9

LEMMA EnglishIsCode == English \in Codes
  BY ContentAssumption

LEMMA DetectsLanguage ==
  ASSUME StickKept, NEW ord \in SetToSeqs(SubDirs(<<>>))
  PROVE  Detected(ord) \in Codes /\ (LanguageDirs # {} => Detected(ord) \in LanguageDirs)
<1>1. CASE LanguageDirs # {}
  <2>1. PICK c \in LanguageDirs : TRUE
    BY <1>1
  <2>2. /\ ord \in Seq(Dirs)
        /\ \A q \in SubDirs(<<>>) : \E i \in DOMAIN ord : ord[i] = q
    BY OrderHasAll DEF StickKept
  <2>3. <<c>> \in Dirs /\ Len(<<c>>) = 1 /\ <<c>>[1] = c
    BY LanguagePath
  <2>4. <<c>> \in SubDirs(<<>>)
    <3>1. SubSeq(<<c>>, 1, 0) = <<>> /\ Len(<<>>) = 0
      OBVIOUS
    <3> QED
      BY <2>3, <3>1 DEF SubDirs
  <2>5. PICK m \in DOMAIN ord : ord[m] = <<c>>
    BY <2>2, <2>4
  <2>6. ord[m][1] \in LanguageDirs
    BY <2>3, <2>5
  <2>7. Len(ord) \in Nat /\ DOMAIN ord = 1 .. Len(ord)
    BY <2>2, LenProperties
  <2>8. LastOf(ord) \in LanguageDirs
    BY <2>6, <2>7, SomeLastLanguage
  <2>9. LanguageDirs \subseteq Codes
    BY DEF LanguageDirs
  <2> QED
    BY <1>1, <2>8, <2>9 DEF Detected
<1>2. CASE LanguageDirs = {}
  BY <1>2, EnglishIsCode DEF Detected, StickKept
<1> QED
  BY <1>1, <1>2

\* find_complex_dirs, one folder after the other: the list after the first n.
Finding(f, k, ord) ==
  f = [n \in 0 .. k |-> IF n = 0 THEN <<>> ELSE AddComplex(f[n - 1], ord[n])]

LEMMA FindingValues ==
  ASSUME NEW f, NEW k \in Nat, NEW ord, Finding(f, k, ord)
  PROVE  /\ f[0] = <<>>
         /\ \A n \in 1 .. k : f[n] = AddComplex(f[n - 1], ord[n])
<1>1. f[0] = <<>>
  BY DEF Finding
<1>2. \A n \in 1 .. k : f[n] = AddComplex(f[n - 1], ord[n])
  <2> TAKE n \in 1 .. k
  <2>1. n \in 0 .. k /\ n # 0
    OBVIOUS
  <2> QED
    BY <2>1 DEF Finding
<1> QED
  BY <1>1, <1>2

LEMMA FindingExists ==
  ASSUME NEW ord, NEW m \in Nat
  PROVE  \E f : Finding(f, m, ord)
<1> DEFINE T == {k \in Nat : \E f : Finding(f, k, ord)}
<1>1. 0 \in T
  <2> DEFINE f == [n \in 0 .. 0 |-> <<>>]
  <2>1. Finding(f, 0, ord)
    BY DEF Finding
  <2> QED
    BY <2>1
<1>2. ASSUME NEW k \in Nat, k \in T
      PROVE  k + 1 \in T
  <2>1. PICK f : Finding(f, k, ord)
    BY <1>2
  <2> DEFINE last == AddComplex(f[k], ord[k + 1])
             g == [n \in 0 .. k + 1 |-> IF n = k + 1 THEN last ELSE f[n]]
             h == [n \in 0 .. k + 1 |-> IF n = 0 THEN <<>> ELSE AddComplex(g[n - 1], ord[n])]
  <2>2. ASSUME NEW n \in 0 .. k + 1 PROVE g[n] = h[n]
    <3>1. CASE n = k + 1
      <4>1. g[n - 1] = f[k] /\ n # 0
        BY <3>1
      <4>2. g[n] = last
        BY <3>1
      <4> QED
        BY <3>1, <4>1, <4>2
    <3>2. CASE n = 0
      BY <2>1, <3>2, FindingValues
    <3>3. CASE n \in 1 .. k
      <4>1. g[n] = f[n] /\ g[n - 1] = f[n - 1] /\ n # 0
        BY <3>3
      <4>2. f[n] = AddComplex(f[n - 1], ord[n])
        BY <2>1, <3>3, FindingValues
      <4> QED
        BY <4>1, <4>2
    <3> QED
      BY <3>1, <3>2, <3>3
  <2>3. g = h
    BY <2>2
  <2>4. Finding(g, k + 1, ord)
    BY <2>3 DEF Finding
  <2> QED
    BY <2>4
<1> HIDE DEF T
<1>3. T = Nat
  BY <1>1, <1>2, Induction DEF T
<1> QED
  BY <1>3 DEF T

\* What is added is complex, and no complex folder is passed over.
LEMMA AddsComplex ==
  ASSUME StickKept, indexed = {}, NEW p \in SubDirs(<<>>),
         NEW lst \in Seq({q \in Dirs : ComplexFolder(q)})
  PROVE  /\ AddComplex(lst, p) \in Seq({q \in Dirs : ComplexFolder(q)})
         /\ \A i \in DOMAIN lst : /\ i \in DOMAIN AddComplex(lst, p)
                                  /\ AddComplex(lst, p)[i] = lst[i]
         /\ LanguageDirs = {} /\ ComplexFolder(p) =>
              \E i \in DOMAIN AddComplex(lst, p) : Finds(AddComplex(lst, p)[i], p)
<1> DEFINE S == {q \in Dirs : ComplexFolder(q)}
           add == p[1] \in LanguageDirs \/ (\E i \in DOMAIN lst : Finds(lst[i], p)) \/ ~IsComplex(p)
<1>1. p \in Dirs /\ Len(p) = 1
  <2>1. <<>> \in Dirs /\ Len(<<>>) = 0
    BY DEF StickKept
  <2> QED
    BY <2>1 DEF SubDirs
<1>2. Files(p) = OwnFiles(p)
  BY DEF Files, FilesIn
<1>3. p[1] \notin LanguageDirs => (IsComplex(p) <=> ComplexFolder(p))
  BY <1>1, <1>2 DEF IsComplex, ComplexFolder, IsLanguageDir
<1>4. CASE add
  <2>1. AddComplex(lst, p) = lst
    BY <1>4 DEF AddComplex
  <2>2. LanguageDirs = {} /\ ComplexFolder(p) => \E i \in DOMAIN lst : Finds(lst[i], p)
    BY <1>3, <1>4
  <2> QED
    BY <2>1, <2>2
<1>5. CASE ~add
  <2>1. AddComplex(lst, p) = Append(lst, p)
    BY <1>5 DEF AddComplex
  <2>2. p \in S
    BY <1>1, <1>3, <1>5
  <2> HIDE DEF S, add
  <2>3. lst \in Seq(S)
    BY DEF S
  <2>4. /\ Append(lst, p) \in Seq(S) /\ Len(Append(lst, p)) = Len(lst) + 1
        /\ \A i \in 1 .. Len(lst) : Append(lst, p)[i] = lst[i]
        /\ Append(lst, p)[Len(lst) + 1] = p
        /\ Len(lst) \in Nat /\ DOMAIN lst = 1 .. Len(lst)
        /\ DOMAIN Append(lst, p) = 1 .. Len(Append(lst, p))
    BY <2>2, <2>3, AppendProperties, LenProperties
  <2>5. \A i \in DOMAIN lst : i \in DOMAIN Append(lst, p) /\ Append(lst, p)[i] = lst[i]
    BY <2>4
  <2>6. Len(lst) + 1 \in DOMAIN Append(lst, p) /\ Finds(p, p)
    BY <1>1, <2>4, DirOrder
  <2> QED
    BY <2>1, <2>4, <2>5, <2>6 DEF S
<1> QED
  BY <1>4, <1>5

LEMMA FindsComplex ==
  ASSUME StickKept, OrderKept, indexed = {}
  PROVE  /\ ComplexOf(order) \in Seq({q \in Dirs : ComplexFolder(q)})
         /\ LanguageDirs = {} =>
              \A q \in Dirs : Len(q) = 1 /\ ComplexFolder(q) =>
                \E i \in DOMAIN ComplexOf(order) : Finds(ComplexOf(order)[i], q)
<1> DEFINE m == Len(order)
           S == {q \in Dirs : ComplexFolder(q)}
           F == CHOOSE f : Finding(f, m, order)
<1>1. /\ order \in Seq(Dirs)
      /\ \A i \in DOMAIN order : order[i] \in SubDirs(<<>>)
      /\ \A q \in SubDirs(<<>>) : \E i \in DOMAIN order : order[i] = q
  BY OrderHasAll DEF OrderKept, StickKept
<1>2. m \in Nat /\ DOMAIN order = 1 .. m
  BY <1>1, LenProperties
<1>3. Finding(F, m, order)
  BY <1>2, FindingExists
<1>4. ComplexOf(order) = F[m]
  BY DEF ComplexOf, Finding
<1> HIDE DEF F, S, m
<1> DEFINE Good(lst, k) ==
             /\ lst \in Seq(S)
             /\ \A j \in 1 .. k : LanguageDirs = {} /\ ComplexFolder(order[j]) =>
                  \E i \in DOMAIN lst : Finds(lst[i], order[j])
           T == {k \in Nat : k <= m => Good(F[k], k)}
<1>5. 0 \in T
  <2>1. F[0] = <<>> /\ <<>> \in Seq(S)
    BY <1>2, <1>3, FindingValues
  <2>2. \A j \in 1 .. 0 : FALSE
    OBVIOUS
  <2>3. Good(<<>>, 0)
    BY <2>1, <2>2
  <2> HIDE DEF Good
  <2> QED
    BY <2>1, <2>3
<1>6. ASSUME NEW k \in Nat, k \in T
      PROVE  k + 1 \in T
  <2> SUFFICES ASSUME k + 1 <= m PROVE Good(F[k + 1], k + 1)
    OBVIOUS
  <2> DEFINE p == order[k + 1]
             lst == F[k]
             new == AddComplex(lst, p)
  <2>1. Good(lst, k)
    BY <1>2, <1>6
  <2>2. k + 1 \in 1 .. m /\ (k + 1) - 1 = k
    BY <1>2
  <2>3. F[k + 1] = new
    BY <1>2, <1>3, <2>2, FindingValues
  <2>4. p \in SubDirs(<<>>)
    BY <1>1, <1>2, <2>2
  <2>5. /\ new \in Seq(S)
        /\ \A i \in DOMAIN lst : i \in DOMAIN new /\ new[i] = lst[i]
        /\ LanguageDirs = {} /\ ComplexFolder(p) => \E i \in DOMAIN new : Finds(new[i], p)
    BY <2>1, <2>4, AddsComplex DEF S
  <2> HIDE DEF new, lst
  <2>6. ASSUME NEW j \in 1 .. k + 1, LanguageDirs = {}, ComplexFolder(order[j])
        PROVE  \E i \in DOMAIN new : Finds(new[i], order[j])
    <3>1. CASE j = k + 1
      BY <2>5, <2>6, <3>1
    <3>2. CASE j # k + 1
      <4>1. j \in 1 .. k
        BY <3>2
      <4>2. PICK i \in DOMAIN lst : Finds(lst[i], order[j])
        BY <2>1, <2>6, <4>1
      <4> QED
        BY <2>5, <4>2
    <3> QED
      BY <3>1, <3>2
  <2> QED
    BY <2>3, <2>5, <2>6
<1>7. T = Nat
  <2> HIDE DEF T
  <2> QED
    BY <1>5, <1>6, Induction DEF T
<1>8. Good(F[m], m)
  BY <1>2, <1>7
<1>9. ASSUME NEW q \in Dirs, Len(q) = 1
      PROVE  \E j \in 1 .. m : order[j] = q
  <2>0. <<>> \in Dirs
    BY DEF StickKept
  <2>1. <<>> \in Dirs /\ IsPrefix(<<>>, q) /\ <<>> # q
    BY <1>9, <2>0, DirOrder
  <2>2. PICK c \in SubDirs(<<>>) : IsPrefix(c, q)
    BY <2>1, NextOnTheWay
  <2>3. c \in Dirs /\ Len(c) = 1
    <3>1. Len(<<>>) = 0
      OBVIOUS
    <3> QED
      BY <2>1, <3>1 DEF SubDirs
  <2>4. c = q
    BY <1>9, <2>2, <2>3, DirOrder
  <2> QED
    BY <1>1, <1>2, <2>4
<1> QED
  BY <1>4, <1>8, <1>9 DEF S

-----------------------------------------------------------------------------
(* The walk of a run                                                       *)

Inside == {"detect", "complex", "index", "walk", "finish", "done"}
Seen   == Carried /\ TodoOrdered /\ InnerMarked /\ CardsTrue /\ AllDone
WalkInv ==
  pc \in Inside =>
    /\ StickKept
    /\ pc # "detect" => OrderKept /\ LanguageKept
    /\ pc \in {"detect", "complex", "index"} => cards = {} /\ indexed = {} /\ webpaths = {}
    /\ pc = "index" => ComplexTrue /\ ComplexAll
    /\ pc \in {"walk", "finish", "done"} => Seen
    /\ pc \in {"finish", "done"} => todo = <<>>

LEMMA NoneOrOne == \A n \in Nat : n > 0 /\ ~(n > 1) => n = 1
  OBVIOUS

LEMMA FrontOfOne ==
  ASSUME NEW N, NEW p \in Seq(N), Len(p) > 0
  PROVE  Len(p) > 1 \/ Front(p) = <<>>
<1>1. Len(p) \in Nat
  OBVIOUS
<1>2. CASE Len(p) > 1
  BY <1>2
<1>3. CASE ~(Len(p) > 1)
  <2>1. Len(p) = 1
    BY <1>1, <1>3, NoneOrOne, Zenon
  <2>2. Len(p) - 1 = 0
    BY <2>1
  <2>3. Front(p) = SubSeq(p, 1, 0)
    BY <2>2 DEF Front
  <2> QED
    BY <2>3
<1> QED
  BY <1>2, <1>3

LEMMA InitWalk == ASSUME ContentAssumption, Init PROVE WalkInv
<1>1. PICK ps \in Shapes, r \in RootListings :
        \E l \in [ps -> Listings] :
          stick = [p \in ps \cup {<<>>} |-> IF p = <<>> THEN r ELSE l[p]]
  BY DEF Init
<1>2. PICK l \in [ps -> Listings] :
        stick = [p \in ps \cup {<<>>} |-> IF p = <<>> THEN r ELSE l[p]]
  BY <1>1
<1>3. /\ Dirs = ps \cup {<<>>} /\ stick[<<>>] = r
      /\ \A p \in Dirs : stick[p] \in Listings \cup RootListings
  BY <1>2 DEF Dirs
<1>4. /\ IsFiniteSet(ps) /\ ps \subseteq Seq(DOMAIN NameBegins)
      /\ \A p \in ps : Len(p) > 0 /\ (Len(p) > 1 => Front(p) \in ps)
      /\ \A m \in Listings \cup RootListings : "" \notin DOMAIN m
      /\ ".language" \in DOMAIN r => r[".language"] \in Codes
  BY DEF ContentAssumption
<1>5. IsFiniteSet(Dirs) /\ <<>> \in Dirs /\ Dirs \subseteq Seq(DOMAIN NameBegins)
  <2> DEFINE N == DOMAIN NameBegins
  <2>1. ps \subseteq Seq(N)
    BY <1>4
  <2> HIDE DEF N
  <2>2. <<>> \in Seq(N)
    BY EmptySeq
  <2>3. IsFiniteSet(Dirs)
    BY <1>3, <1>4, FS_AddElement
  <2> QED
    BY <1>3, <2>1, <2>2, <2>3 DEF N
<1>6. ASSUME NEW p \in Dirs, p # <<>> PROVE Front(p) \in Dirs
  <2>1. p \in ps
    BY <1>3, <1>6
  <2>2. CASE Len(p) > 1
    BY <1>3, <1>4, <2>1, <2>2
  <2>3. CASE ~(Len(p) > 1)
    <3>1. Front(p) = <<>>
      BY <1>4, <2>1, <2>3, FrontOfOne
    <3> QED
      BY <1>5, <3>1
  <2> QED
    BY <2>2, <2>3
<1>7. StickKept
  BY <1>3, <1>4, <1>5, <1>6 DEF StickKept
<1>8. pc = "detect" /\ cards = {} /\ indexed = {} /\ webpaths = {}
  BY DEF Init, NoCards
<1> QED
  BY <1>7, <1>8 DEF WalkInv

LEMMA DetectWalk == ASSUME WalkInv, DetectLanguageDirs PROVE WalkInv'
<1>1. pc = "detect" /\ pc' = "complex" /\ UNCHANGED <<stick, indexed, webpaths, cards>>
  BY DEF DetectLanguageDirs, made
<1>2. StickKept /\ cards = {} /\ indexed = {} /\ webpaths = {}
  BY <1>1 DEF WalkInv, Inside
<1>3. PICK ord \in SetToSeqs(SubDirs(<<>>)) : order' = ord /\ language' = Detected(ord)
  BY DEF DetectLanguageDirs
<1>4. StickKept' /\ LanguageDirs' = LanguageDirs /\ SubDirs(<<>>)' = SubDirs(<<>>)
  BY <1>1, <1>2, StickAlone
<1>5. OrderKept'
  BY <1>3, <1>4 DEF OrderKept
<1>6. LanguageKept'
  BY <1>2, <1>3, <1>4, DetectsLanguage DEF LanguageKept
<1> QED
  BY <1>1, <1>2, <1>4, <1>5, <1>6 DEF WalkInv

LEMMA FindWalk == ASSUME WalkInv, FindComplexDirs PROVE WalkInv'
<1>1. /\ pc = "complex" /\ pc' = "index" /\ complexLst' = ComplexOf(order)
      /\ UNCHANGED <<stick, indexed, order, language, webpaths, cards>>
  BY DEF FindComplexDirs, made
<1>2. StickKept /\ OrderKept /\ LanguageKept /\ cards = {} /\ indexed = {} /\ webpaths = {}
  BY <1>1 DEF WalkInv, Inside
<1>3. /\ StickKept' /\ Dirs' = Dirs /\ LanguageDirs' = LanguageDirs
      /\ SubDirs(<<>>)' = SubDirs(<<>>) /\ \A p : ComplexFolder(p)' <=> ComplexFolder(p)
  BY <1>1, <1>2, StickAlone
<1>4. OrderKept' /\ LanguageKept'
  BY <1>1, <1>2, <1>3 DEF OrderKept, LanguageKept
<1>5. ComplexTrue'
  BY <1>1, <1>2, <1>3, FindsComplex DEF ComplexTrue
<1>6. ComplexAll'
  BY <1>1, <1>2, <1>3, FindsComplex DEF ComplexAll, Finds
<1> QED
  BY <1>1, <1>2, <1>3, <1>4, <1>5, <1>6 DEF WalkInv

\* The indexer is done and the walk begins at content/: all is to be visited.
LEMMA IndexWalk == ASSUME WalkInv, ProcessComplexDirs PROVE WalkInv'
<1>1. /\ pc = "index" /\ pc' = "walk" /\ todo' = <<<<>>>>
      /\ indexed' = UNION {Indexed(complexLst[i]) : i \in DOMAIN complexLst}
      /\ UNCHANGED <<stick, order, language, webpaths, complexLst, cards>>
  BY DEF ProcessComplexDirs, made
<1>2. /\ StickKept /\ OrderKept /\ LanguageKept /\ cards = {} /\ webpaths = {}
      /\ ComplexTrue /\ ComplexAll
  BY <1>1 DEF WalkInv, Inside
<1>3. /\ StickKept' /\ Dirs' = Dirs /\ LanguageDirs' = LanguageDirs
      /\ SubDirs(<<>>)' = SubDirs(<<>>)
      /\ \A p : /\ ComplexFolder(p)' <=> ComplexFolder(p)
                /\ Judgeable(p)' <=> Judgeable(p)
                /\ Reachable(p)' <=> Reachable(p)
                /\ Blocks(p)' <=> Blocks(p)
  BY <1>1, <1>2, StickAlone
<1>4. OrderKept' /\ LanguageKept'
  BY <1>1, <1>2, <1>3 DEF OrderKept, LanguageKept
<1>5. ComplexTrue' /\ ComplexAll'
  BY <1>1, <1>2, <1>3 DEF ComplexTrue, ComplexAll, Finds
<1>6. \A i \in DOMAIN complexLst : complexLst[i] \in Dirs /\ ComplexFolder(complexLst[i])
  <2> DEFINE S == {q \in Dirs : ComplexFolder(q)}
  <2>1. complexLst \in Seq(S)
    BY <1>2 DEF ComplexTrue
  <2> HIDE DEF S
  <2>2. \A i \in DOMAIN complexLst : complexLst[i] \in S
    BY <2>1
  <2> QED
    BY <2>2 DEF S
<1>7. ComplexPaged'
  <2>1. ASSUME NEW i \in DOMAIN complexLst PROVE complexLst[i] \in indexed'
    <3> DEFINE p == complexLst[i]
    <3>1. p \in Dirs /\ IsPrefix(p, p) /\ Len(p) \in Nat
      BY <1>2, <1>6, DirOrder
    <3> HIDE DEF p
    <3>2. Reaches(p, p)
      BY <3>1 DEF Reaches
    <3>3. p \in Indexed(p)
      BY <3>1, <3>2 DEF Indexed
    <3> QED
      BY <1>1, <3>3 DEF p
  <2> QED
    BY <1>1, <2>1 DEF ComplexPaged
<1>8. WebpathsBlocked'
  BY <1>1, <1>2 DEF WebpathsBlocked
<1>9. IndexedInside'
  <2>1. ASSUME NEW q \in indexed' PROVE \E c \in Dirs : ComplexFolder(c) /\ IsPrefix(c, q)
    <3>1. PICK i \in DOMAIN complexLst : q \in Indexed(complexLst[i])
      BY <1>1
    <3> QED
      BY <1>6, <3>1 DEF Indexed, Reaches
  <2> QED
    BY <1>3, <2>1 DEF IndexedInside
<1>10. Carried'
  BY <1>5, <1>7, <1>8, <1>9 DEF Carried
<1>11. /\ Len(todo') = 1 /\ DOMAIN todo' = {1} /\ todo'[1] = <<>> /\ <<>> \in Dirs
       /\ todo' \in Seq(Dirs) /\ Len(<<>>) = 0
  <2>1. <<>> \in Dirs
    BY <1>2 DEF StickKept
  <2>2. <<<<>>>> \in Seq(Dirs)
    BY <2>1
  <2> QED
    BY <1>1, <2>1, <2>2
<1>12. TodoOrdered'
  BY <1>3, <1>11 DEF TodoOrdered
<1>13. ASSUME Judgeable(<<>>) PROVE Reachable(<<>>)
  BY <1>2, <1>11, <1>13, DirOrder DEF Reachable
<1>14. InnerMarked'
  BY <1>3, <1>11, <1>13 DEF InnerMarked
<1>15. ASSUME NEW p \in Dirs PROVE Pending(p)'
  <2>1. IsPrefix(<<>>, p)
    BY <1>2, DirOrder
  <2> QED
    BY <1>11, <2>1 DEF Pending
<1>16. AllDone' /\ CardsTrue'
  BY <1>1, <1>2, <1>3, <1>15 DEF AllDone, CardsTrue
<1> QED
  BY <1>1, <1>3, <1>4, <1>10, <1>12, <1>14, <1>16 DEF WalkInv, Seen

\* Where there are languages content/ itself is not looked at: its folders are next.
LEMMA SkipWalk == ASSUME WalkInv, SkipRoot PROVE WalkInv'
<1>1. /\ pc = "walk" /\ pc' = "walk" /\ todo # <<>> /\ todo[1] = <<>> /\ LanguageDirs # {}
      /\ todo' = order
      /\ UNCHANGED <<stick, indexed, order, language, webpaths, complexLst, cards>>
  BY DEF SkipRoot, made
<1>2. StickKept /\ OrderKept /\ LanguageKept /\ Seen
  BY <1>1 DEF WalkInv, Inside
<1>3. /\ StickKept' /\ Dirs' = Dirs /\ LanguageDirs' = LanguageDirs
      /\ SubDirs(<<>>)' = SubDirs(<<>>)
      /\ \A p : /\ ComplexFolder(p)' <=> ComplexFolder(p)
                /\ Closed(p)' <=> Closed(p)
                /\ OwnFiles(p)' = OwnFiles(p) /\ Media(p)' = Media(p)
                /\ Paged(p)' <=> Paged(p)
                /\ Judgeable(p)' <=> Judgeable(p)
                /\ Reachable(p)' <=> Reachable(p)
                /\ Blocks(p)' <=> Blocks(p)
  BY <1>1, <1>2, StickAlone
<1>4. OrderKept' /\ LanguageKept'
  BY <1>1, <1>2, <1>3 DEF OrderKept, LanguageKept
<1>5. Carried'
  BY <1>1, <1>2, <1>3 DEF Seen, Carried, ComplexTrue, ComplexAll, ComplexPaged, WebpathsBlocked,
                          IndexedInside, Finds
<1>6. /\ order \in Seq(Dirs)
      /\ \A i \in DOMAIN order : order[i] \in SubDirs(<<>>)
      /\ \A q \in SubDirs(<<>>) : \E i \in DOMAIN order : order[i] = q
  BY <1>2, OrderHasAll DEF OrderKept, StickKept
<1>7. \A i \in DOMAIN order : order[i] \in Dirs /\ Len(order[i]) = 1 /\ order[i] # <<>>
  <2>1. <<>> \in Dirs /\ Len(<<>>) = 0
    BY <1>2 DEF StickKept
  <2> QED
    BY <1>6, <2>1 DEF SubDirs
<1>8. TodoOrdered'
  <2>1. \A i \in DOMAIN order : ~(Len(order[i]) >= 2)
    <3>1. 1 \in Nat /\ ~(1 >= 2)
      OBVIOUS
    <3> QED
      BY <1>7, <3>1, Zenon
  <2> QED
    BY <1>1, <1>3, <1>6, <1>7, <2>1 DEF TodoOrdered
<1>9. ASSUME NEW x \in Dirs, Len(x) = 1, Judgeable(x) PROVE Reachable(x)
  <2>1. ASSUME NEW q \in Dirs, Closed(q), IsPrefix(q, x) PROVE q = x
    <3>1. CASE q = <<>>
      <4>1. ~Closed(<<>>)
        <5>1. Len(<<>>) = 0
          OBVIOUS
        <5> QED
          BY <1>1, <5>1 DEF Closed, WebFolder, ComplexFolder
      <4> QED
        BY <2>1, <3>1, <4>1
    <3>2. CASE q # <<>>
      <4>1. Len(q) \in Nat /\ Len(q) # 0
        BY <1>2, <3>2, DirOrder
      <4>2. Len(x) <= Len(q)
        BY <1>9, <4>1
      <4> QED
        BY <1>2, <2>1, <4>2, DirOrder
    <3> QED
      BY <3>1, <3>2
  <2> QED
    BY <1>9, <2>1 DEF Reachable
<1>10. InnerMarked'
  BY <1>1, <1>3, <1>7, <1>9 DEF InnerMarked
<1>11. ASSUME NEW p \in Dirs, Reachable(p) PROVE Pending(p)'
  <2>1. p # <<>>
    BY <1>1, <1>11 DEF Reachable, Judgeable
  <2>2. <<>> \in Dirs /\ IsPrefix(<<>>, p)
    BY <1>2, DirOrder DEF StickKept
  <2>3. PICK c \in SubDirs(<<>>) : IsPrefix(c, p)
    BY <1>2, <2>1, <2>2, NextOnTheWay
  <2> QED
    BY <1>1, <1>6, <2>3 DEF Pending
<1>12. AllDone'
  BY <1>3, <1>11 DEF AllDone
<1>13. CardsTrue'
  BY <1>1, <1>2, <1>3 DEF Seen, CardsTrue, CardTrue, Whole
<1> QED
  BY <1>1, <1>3, <1>4, <1>5, <1>8, <1>10, <1>12, <1>13 DEF WalkInv, Seen

LEMMA VisitWalk == ASSUME WalkInv, Visit PROVE WalkInv'
<1>1. pc = "walk"
  BY DEF Visit
<1>2. StickKept /\ OrderKept /\ LanguageKept /\ Seen
  BY <1>1 DEF WalkInv, Inside
<1>3. CASE pc' = "out"
  BY <1>3 DEF WalkInv, Inside
<1>4. CASE pc' # "out"
  <2>1. /\ pc' = "walk" /\ UNCHANGED <<stick, order>>
        /\ LanguageKept' /\ Carried' /\ TodoOrdered' /\ InnerMarked' /\ CardsTrue' /\ AllDone'
    BY <1>1, <1>2, <1>4, VisitWalks DEF Seen
  <2>2. StickKept' /\ SubDirs(<<>>)' = SubDirs(<<>>)
    BY <1>2, <2>1, StickAlone
  <2>3. OrderKept'
    BY <1>2, <2>1, <2>2 DEF OrderKept
  <2> QED
    BY <2>1, <2>2, <2>3 DEF WalkInv, Seen
<1> QED
  BY <1>3, <1>4

\* Steps after which the walk's state is as it was, but for cards of ZIM files.
LEMMA StaysWalked ==
  ASSUME WalkInv, pc \in {"walk", "finish", "done"}, pc' \in {"finish", "done"}, todo = <<>>,
         UNCHANGED walk, cards \subseteq cards',
         \A c \in cards' \ cards : Whole(c) /\ c.file = Zim
  PROVE  WalkInv'
<1>1. StickKept /\ OrderKept /\ LanguageKept /\ Seen
  BY DEF WalkInv, Inside
<1>2. UNCHANGED <<stick, indexed, order, todo, language, webpaths, complexLst>>
  BY DEF walk
<1>3. /\ StickKept' /\ Dirs' = Dirs /\ LanguageDirs' = LanguageDirs
      /\ SubDirs(<<>>)' = SubDirs(<<>>)
      /\ \A p : /\ ComplexFolder(p)' <=> ComplexFolder(p)
                /\ Closed(p)' <=> Closed(p)
                /\ OwnFiles(p)' = OwnFiles(p) /\ Media(p)' = Media(p)
                /\ Paged(p)' <=> Paged(p)
                /\ Judgeable(p)' <=> Judgeable(p)
                /\ Reachable(p)' <=> Reachable(p)
                /\ Blocks(p)' <=> Blocks(p)
  BY <1>1, <1>2, StickAlone
<1>4. OrderKept' /\ LanguageKept'
  BY <1>1, <1>2, <1>3 DEF OrderKept, LanguageKept
<1>5. Carried'
  BY <1>1, <1>2, <1>3 DEF Seen, Carried, ComplexTrue, ComplexAll, ComplexPaged, WebpathsBlocked,
                          IndexedInside, Finds
<1>6. TodoOrdered' /\ InnerMarked'
  BY <1>1, <1>2, <1>3 DEF Seen, TodoOrdered, InnerMarked
<1>7. ASSUME NEW p \in Dirs, Reachable(p), ~Pending(p)' PROVE Shown(p)'
  <2>1. Shown(p)
    BY <1>1, <1>2, <1>7 DEF Seen, AllDone, Pending
  <2> QED
    BY <1>3, <2>1 DEF Shown, Web
<1>8. AllDone'
  BY <1>3, <1>7 DEF AllDone
<1>9. ASSUME NEW c \in cards' PROVE CardTrue(c, language)'
  <2>1. CASE c \in cards
    BY <1>1, <1>2, <1>3, <2>1 DEF Seen, CardsTrue, CardTrue, Whole, Web
  <2>2. CASE c \notin cards
    <3>1. Whole(c) /\ c.file = Zim
      BY <2>2
    <3>2. Zim \notin Media(c.dir)' /\ ~Web(Zim)
      BY DEF Media, Web, Zim, App, Index
    <3> QED
      BY <3>1, <3>2 DEF CardTrue, Whole, Web
  <2> QED
    BY <2>1, <2>2
<1>10. CardsTrue'
  BY <1>9 DEF CardsTrue
<1> QED
  BY <1>2, <1>3, <1>4, <1>5, <1>6, <1>8, <1>10 DEF WalkInv, Seen

LEMMA CrossListWalk == ASSUME WalkInv, CrossListZimCards PROVE WalkInv'
<1>1. /\ pc = "walk" /\ todo = <<>> /\ pc' = "finish" /\ UNCHANGED walk
      /\ cards' = cards \/ cards' = cards \cup CrossListed
  BY DEF CrossListZimCards
<1>2. CardsTrue
  BY <1>1 DEF WalkInv, Inside, Seen
<1>3. ASSUME NEW c \in CrossListed PROVE Whole(c) /\ c.file = Zim
  <2>1. PICK l \in ZimTargets : c = [(CHOOSE x \in ZimCards : ~Same(l, x.lang)) EXCEPT !.lang = l]
    BY <1>3 DEF CrossListed
  <2> DEFINE x == CHOOSE x \in ZimCards : ~Same(l, x.lang)
  <2>2. \E y \in ZimCards : ~Same(l, y.lang)
    BY <2>1 DEF ZimTargets
  <2>3. x \in ZimCards
    BY <2>2
  <2>4. c = [x EXCEPT !.lang = l]
    BY <2>1
  <2> HIDE DEF x
  <2>5. x \in cards /\ x.file = Zim
    BY <2>3 DEF ZimCards
  <2>6. x = [lang |-> x.lang, dir |-> x.dir, file |-> x.file, media |-> x.media, in |-> x.in]
    BY <1>2, <2>5 DEF CardsTrue, CardTrue, Whole
  <2>7. c = [lang |-> l, dir |-> x.dir, file |-> x.file, media |-> x.media, in |-> x.in]
    BY <2>4, <2>6
  <2> QED
    BY <2>5, <2>7 DEF Whole
<1> QED
  BY <1>1, <1>3, StaysWalked

LEMMA WalkStep == ASSUME WalkInv, [Next]_vars PROVE WalkInv'
<1>1. CASE DetectLanguageDirs
  BY <1>1, DetectWalk
<1>2. CASE FindComplexDirs
  BY <1>2, FindWalk
<1>3. CASE ProcessComplexDirs
  BY <1>3, IndexWalk
<1>4. CASE SkipRoot
  BY <1>4, SkipWalk
<1>5. CASE Visit
  BY <1>5, VisitWalk
<1>6. CASE CrossListZimCards
  BY <1>6, CrossListWalk
<1>7. CASE FinalizeOutput
  <2>1. /\ pc = "finish" /\ pc' = (IF WithCards = {} THEN "out" ELSE "done")
        /\ UNCHANGED walk /\ cards' = cards
    BY <1>7 DEF FinalizeOutput, made
  <2>2. CASE pc' = "out"
    BY <2>2 DEF WalkInv, Inside
  <2>3. CASE pc' # "out"
    <3>1. pc' = "done" /\ todo = <<>>
      BY <2>1, <2>3 DEF WalkInv, Inside
    <3> QED
      BY <2>1, <3>1, StaysWalked
  <2> QED
    BY <2>2, <2>3
<1>8. CASE PulledOut \/ Restore \/ RestoreUnread \/ Upgrade \/ Correct \/ PowerCut
  <2>1. pc' \in {"out", "restored", "unread", "stale"}
    BY <1>8 DEF PulledOut, Restore, RestoreUnread, Upgrade, Correct, PowerCut
  <2> QED
    BY <2>1 DEF WalkInv, Inside
<1>9. CASE UNCHANGED vars
  <2>1. UNCHANGED <<pc, stick, indexed, order, todo, language, webpaths, complexLst, cards>>
    BY <1>9 DEF vars, walk, made
  <2>2. /\ StickKept' <=> StickKept
        /\ Dirs' = Dirs /\ LanguageDirs' = LanguageDirs
        /\ \A p : /\ SubDirs(p)' = SubDirs(p) /\ Media(p)' = Media(p)
                  /\ Closed(p)' <=> Closed(p)
                  /\ ComplexFolder(p)' <=> ComplexFolder(p)
                  /\ Judgeable(p)' <=> Judgeable(p)
                  /\ Reachable(p)' <=> Reachable(p)
                  /\ Blocks(p)' <=> Blocks(p)
                  /\ Paged(p)' <=> Paged(p)
    BY <2>1, StickAlone
  <2>3. OrderKept' <=> OrderKept
    BY <2>1, <2>2 DEF OrderKept
  <2>4. LanguageKept' <=> LanguageKept
    BY <2>1, <2>2 DEF LanguageKept
  <2>5. (ComplexTrue' <=> ComplexTrue) /\ (ComplexAll' <=> ComplexAll)
    BY <2>1, <2>2 DEF ComplexTrue, ComplexAll, Finds
  <2>6. Carried' <=> Carried
    BY <2>1, <2>2, <2>5 DEF Carried, ComplexPaged, WebpathsBlocked, IndexedInside, Finds
  <2>7. (TodoOrdered' <=> TodoOrdered) /\ (InnerMarked' <=> InnerMarked)
    BY <2>1, <2>2 DEF TodoOrdered, InnerMarked
  <2>8. CardsTrue' <=> CardsTrue
    BY <2>1, <2>2 DEF CardsTrue, CardTrue, Whole, Web
  <2>9. AllDone' <=> AllDone
    BY <2>1, <2>2 DEF AllDone, Shown, Pending, Web
  <2> QED
    BY <2>1, <2>2, <2>3, <2>4, <2>5, <2>6, <2>7, <2>8, <2>9 DEF WalkInv, Seen
<1> QED
  BY <1>1, <1>2, <1>3, <1>4, <1>5, <1>6, <1>7, <1>8, <1>9 DEF Next

-----------------------------------------------------------------------------
(* What is listed                                                          *)

\* When the walk is over every folder that can be reached is done.
LEMMA AllWalked ==
  ASSUME WalkInv, Listing
  PROVE  /\ StickKept /\ CardsTrue
         /\ \A p \in Dirs : Reachable(p) => Shown(p)
<1>1. StickKept /\ Seen /\ todo = <<>>
  BY DEF WalkInv, Inside, Listing
<1>2. \A p : ~Pending(p)
  <2>1. DOMAIN todo = {}
    BY <1>1
  <2> QED
    BY <2>1 DEF Pending
<1> QED
  BY <1>1, <1>2 DEF Seen, AllDone

LEMMA WalkedFiles == WalkInv => FilesShown
<1> SUFFICES ASSUME WalkInv, Listing, NEW p \in Dirs, Judgeable(p)
             PROVE  {<<c.lang, c.file>> : c \in {x \in cards : x.dir = p /\ x.file \in Media(p)}}
                      = IF \E q \in Dirs : Closed(q) /\ IsPrefix(q, p) THEN {}
                        ELSE {<<LanguageOf(p), f>> : f \in Media(p)}
  BY DEF FilesShown
<1> DEFINE own == {x \in cards : x.dir = p /\ x.file \in Media(p)}
           inner == \E q \in Dirs : Closed(q) /\ IsPrefix(q, p)
<1>1. StickKept /\ CardsTrue /\ (Reachable(p) => Shown(p))
  BY AllWalked
<1>2. ASSUME NEW c \in own
      PROVE  Reachable(p) /\ ~Closed(p) /\ c.lang = LanguageOf(p)
  BY <1>1 DEF CardsTrue, CardTrue, LanguageOf
<1>3. CASE inner
  <2>1. ~(Reachable(p) /\ ~Closed(p))
    BY <1>3 DEF Reachable
  <2>2. own = {}
    BY <1>2, <2>1
  <2>3. {<<c.lang, c.file>> : c \in own} = {}
    BY <2>2
  <2> QED
    BY <1>3, <2>3
<1>4. CASE ~inner
  <2>1. Reachable(p) /\ ~Closed(p)
    <3>1. IsPrefix(p, p)
      BY <1>1, DirOrder
    <3> QED
      BY <1>4, <3>1 DEF Reachable
  <2>2. \A f \in Media(p) : \E c \in cards : c.dir = p /\ c.file = f
    BY <1>1, <2>1 DEF Shown
  <2>3. \A f \in Media(p) : \E c \in own : c.file = f
    BY <2>2
  <2>4. \A c \in own : c.lang = LanguageOf(p) /\ c.file \in Media(p)
    BY <1>2
  <2> HIDE DEF own
  <2>5. {<<c.lang, c.file>> : c \in own} = {<<LanguageOf(p), f>> : f \in Media(p)}
    BY <2>3, <2>4
  <2> QED
    BY <1>4, <2>5 DEF own
<1> QED
  BY <1>3, <1>4

LEMMA WalkedTiles == WalkInv => TilesShown
<1> SUFFICES ASSUME WalkInv, Listing, NEW p \in Dirs, Judgeable(p)
             PROVE  {c \in cards : c.dir = p /\ c.file \in Index \cup {App}} # {}
                      <=> /\ Closed(p)
                          /\ \A q \in Dirs : Closed(q) /\ IsPrefix(q, p) => q = p
                          /\ HasIndex(OwnFiles(p)) \/ ComplexFolder(p)
  BY DEF TilesShown
<1>1. CardsTrue /\ (Reachable(p) => Shown(p))
  BY AllWalked
<1>2. ASSUME NEW c \in cards, c.dir = p, c.file \in Index \cup {App}
      PROVE  Reachable(p) /\ Closed(p) /\ Paged(p)
  BY <1>1, <1>2 DEF CardsTrue, CardTrue, Web
<1>3. ASSUME Reachable(p), Closed(p), Paged(p)
      PROVE  \E c \in cards : c.dir = p /\ c.file \in Index \cup {App}
  BY <1>1, <1>3 DEF Shown, Web
<1> QED
  BY <1>2, <1>3 DEF Reachable, Paged

\* Whatever folders a stick has and in whatever order os.walk lists them: when
\* the walk is over, every media file of an ordinary folder has been listed,
\* in the language of its folder and in no other, and no file from inside a
\* web page, an app or a complex folder has (process_file_entry, with the
\* webpaths and complex folders that check_webpath_skip, handle_web_content
\* and classify_in_complex_lst carry from folder to folder).
THEOREM FilesAreShown == Spec => []FilesShown
<1>1. Init => WalkInv
  BY InitWalk, ContentAssumption
<1>2. WalkInv /\ [Next]_vars => WalkInv'
  BY WalkStep
<1>3. WalkInv => FilesShown
  BY WalkedFiles
<1> QED
  BY <1>1, <1>2, <1>3, PTL DEF Spec

\* In the same way: exactly the outermost folders that are web pages, apps or
\* complex have a tile, where they have a page of their own or get the
\* indexer's (process_dir, detect_language_complex_dir, handle_web_content).
THEOREM TilesAreShown == Spec => []TilesShown
<1>1. Init => WalkInv
  BY InitWalk, ContentAssumption
<1>2. WalkInv /\ [Next]_vars => WalkInv'
  BY WalkStep
<1>3. WalkInv => TilesShown
  BY WalkedTiles
<1> QED
  BY <1>1, <1>2, <1>3, PTL DEF Spec
=============================================================================
