------------------------------- MODULE Content -------------------------------
(***************************************************************************)
(* How mmiLoader turns the folders of a stick into the menus: the languages *)
(* are found, complex folders get pages of the indexer, the walk visits     *)
(* folder after folder with what it carries from one to the next, and the   *)
(* menus, the list of languages and the translated interface are written.   *)
(* Module Loader has the runs themselves: here one run is followed inside.  *)
(***************************************************************************)
EXTENDS Integers, Sequences, FiniteSets, SequencesExt

CONSTANTS
  Codes,       \* names of folders that are language codes
  English,     \* the one of them that is English
  TransCode,   \* translation_code: whose translations a language uses
  BaseCode,    \* a code without its region
  ZimCodes,    \* languages the ZIM file is tagged with (base codes)
  NameBegins,  \* NameBegins[n]: the folder names that n begins with
  FileSlug,    \* slug of a name in media/: dots as dashes, a double dash as one
  CollectionSlug,  \* slug of a folder that is a collection
  Looks,       \* Looks[x]: size and first and last 64 KB of content x
  Shapes,      \* sets of folders that a stick may have below content/
  Listings,    \* what a folder may hold: file -> content
  RootListings,  \* ... and content/ itself
  MaxEnglish   \* bound on the versions of the English strings

\* Files by what the code makes of their names.
Index   == {"index.html", "index.htm"}
Entries == {"contents.html", "home.html", "start.html", "main.html"}
Pages   == Index \cup Entries \cup {"page.html"}
Hidden  == {".language"}
App     == "AndroidManifest.xml"
Zim     == "z.zim"

\* To begin with is an order on the names.
ASSUME NameAssumption ==
  \A n \in DOMAIN NameBegins :
    /\ n \in NameBegins[n] /\ NameBegins[n] \subseteq DOMAIN NameBegins
    /\ \A m \in NameBegins[n] : /\ NameBegins[m] \subseteq NameBegins[n]
                                /\ n \in NameBegins[m] => m = n

ASSUME ContentAssumption ==
  /\ English \in Codes /\ TransCode \in [Codes -> Codes] /\ BaseCode \in [Codes -> Codes]
  /\ MaxEnglish \in Nat \ {0}
  /\ \A l \in Listings \cup RootListings : IsFiniteSet(DOMAIN l) /\ "" \notin DOMAIN l
  /\ \A l \in RootListings : ".language" \in DOMAIN l => l[".language"] \in Codes
  /\ \A ps \in Shapes : IsFiniteSet(ps) /\ ps \subseteq Seq(DOMAIN NameBegins)
  /\ \A ps \in Shapes : \A p \in ps : Len(p) > 0 /\ (Len(p) > 1 => Front(p) \in ps)

VARIABLES
  stick,      \* folder -> (file -> its content)
  indexed,    \* folders that the indexer has written an index.html into
  pc,         \* "detect", "complex", "index", "walk", "finish", "done", "out"
  order,      \* os.walk's order of the folders in content/
  todo,       \* folders the walk has yet to visit
  language,   \* ... and what it carries from one to the next:
  webpaths,
  complexLst,
  mains,      \* languages that have a list of cards, in the order they came
  folders,    \* language -> the one whose files its folder holds (links: another's)
  cards,      \* cards and episodes: [lang, dir, file, media, in]
  names,      \* _media_names: <<language, name in media/>> -> <<folder, file>>
  pages,      \* <<language, slug>> -> the folder and file its data file is about
  english,    \* version of the English strings
  saved,      \* translation files: code -> [en, by]; NoText: none, or not to be read
  shown       \* language in the menu -> its interface text

walk  == <<stick, indexed, order, todo, language, webpaths, complexLst>>
made  == <<mains, folders, cards, names, pages>>
texts == <<english, saved, shown>>
vars  == <<walk, made, texts, pc>>

Dirs    == DOMAIN stick
OwnFiles(p) == DOMAIN stick[p] \ Hidden
FilesIn(p, ind) == OwnFiles(p) \cup IF p \in ind THEN {"index.html"} ELSE {}
Files(p)   == FilesIn(p, indexed)
SubDirs(p) == {q \in Dirs : Len(q) = Len(p) + 1 /\ SubSeq(q, 1, Len(p)) = p}
Base(p)   == IF p = <<>> THEN "content" ELSE p[Len(p)]

\* str.find: the path q, as a string, begins with p.
Finds(p, q) ==
  p = <<>> \/ /\ Len(p) <= Len(q)
              /\ \A i \in 1 .. Len(p) - 1 : p[i] = q[i]
              /\ p[Len(p)] \in NameBegins[q[Len(p)]]

\* No file of translations, or one that json cannot read.
NoText == [en |-> 0, by |-> "none"]

NoCards ==
  /\ mains = <<English>> /\ folders = [c \in {English} |-> c]
  /\ cards = {} /\ names = <<>> /\ pages = <<>>

Init ==
  /\ \E ps \in Shapes, r \in RootListings :
       \E l \in [ps -> Listings] :
         stick = [p \in ps \cup {<<>>} |-> IF p = <<>> THEN r ELSE l[p]]
  /\ indexed = {} /\ pc = "detect"
  /\ order = <<>> /\ todo = <<>> /\ language = English
  /\ webpaths = {} /\ complexLst = <<>>
  /\ NoCards
  /\ english = 1 /\ saved = [c \in Codes |-> NoText] /\ shown = <<>>

-----------------------------------------------------------------------------
(* Languages and complex folders                                           *)

LanguageDirs == {c \in Codes : <<c>> \in Dirs}

\* The last language folder listed; without one, what .language says.
LastOf(ord) ==
  LET last == CHOOSE i \in DOMAIN ord :
                /\ ord[i][1] \in LanguageDirs
                /\ \A j \in DOMAIN ord : j > i => ord[j][1] \notin LanguageDirs
  IN ord[last][1]
Detected(ord) ==
  IF LanguageDirs # {} THEN LastOf(ord)
  ELSE IF ".language" \in DOMAIN stick[<<>>] THEN stick[<<>>][".language"]
  ELSE English

DetectLanguageDirs ==
  /\ pc = "detect" /\ pc' = "complex"
  /\ \E ord \in SetToSeqs(SubDirs(<<>>)) :
       order' = ord /\ language' = Detected(ord)
  /\ UNCHANGED <<stick, indexed, todo, webpaths, complexLst, made, texts>>

IsDeep(p) == SubDirs(p) # {} /\ Files(p) = {}
IsComplex(p) ==
  \/ SubDirs(p) # {} /\ Files(p) = {}
  \/ "index.html" \in Files(p)
  \/ Entries \cap Files(p) # {}
  \/ \E q \in SubDirs(p) : SubDirs(q) # {}

AddComplex(lst, p) ==
  IF p[1] \in LanguageDirs \/ (\E i \in DOMAIN lst : Finds(lst[i], p)) \/ ~IsComplex(p)
  THEN lst ELSE Append(lst, p)

ComplexOf(ord) ==
  LET found[n \in 0 .. Len(ord)] == IF n = 0 THEN <<>> ELSE AddComplex(found[n - 1], ord[n])
  IN found[Len(ord)]

FindComplexDirs ==
  /\ pc = "complex" /\ pc' = "index"
  /\ complexLst' = ComplexOf(order)
  /\ UNCHANGED <<stick, indexed, order, todo, language, webpaths, made, texts>>

\* indexer.process_dir: a page for p, and for what is below it, except below a
\* folder with an entry page, which only gets a page that leads there.
HasEntry(p) == Entries \cap Files(p) # {}
Reaches(p, q) ==
  IsPrefix(p, q) /\ \A n \in Len(p) .. Len(q) - 1 : ~HasEntry(SubSeq(q, 1, n))
Indexed(p)  == {q \in Dirs : Reaches(p, q)}
ProcessComplexDirs ==
  /\ pc = "index" /\ pc' = "walk"
  /\ indexed' = UNION {Indexed(complexLst[i]) : i \in DOMAIN complexLst}
  /\ todo' = <<<<>>>>
  /\ UNCHANGED <<stick, order, language, webpaths, complexLst, made, texts>>

-----------------------------------------------------------------------------
(* One folder of the walk                                                  *)

IsLanguageDir(p) == Len(p) = 1 /\ p[1] \in LanguageDirs

\* detect_language_complex_dir: a folder of folders in a language folder.
NewComplex(p, lang) ==
  /\ LanguageDirs # {} /\ Len(p) = 2 /\ p[1] = lang
  /\ Files(p) \subseteq {"index.html"} /\ SubDirs(p) # {}
  /\ \A i \in DOMAIN complexLst : complexLst[i] # p

NewPages(p) == {p} \cup UNION {Indexed(q) : q \in {r \in SubDirs(p) : "index.html" \notin Files(r)}}

\* classify_in_complex_lst: the first entry that is found in the path.
FirstFound(i, p, lst) == Finds(lst[i], p) /\ \A j \in 1 .. i - 1 : ~Finds(lst[j], p)
ComplexHead(p, lst)  == \E i \in DOMAIN lst : FirstFound(i, p, lst) /\ Len(lst[i]) = Len(p)
ComplexBelow(p, lst) == \E i \in DOMAIN lst : FirstFound(i, p, lst) /\ Len(lst[i]) < Len(p)

\* check_webpath_skip.
InWebpath(p, webs) == \E w \in webs : w # p /\ Finds(w, p)

\* handle_web_content, handle_android_content.
HasIndex(fs)   == fs \cap Index # {}
OnePage(fs)    == ~HasIndex(fs) /\ Cardinality(fs \cap Pages) = 1
IsWebAnywhere(p, fs, lang) == HasIndex(fs) \/ OnePage(fs)
IsWeb(p, fs, lang) == p # <<lang>> /\ (HasIndex(fs) \/ OnePage(fs))

\* The folder's type, the webpaths, and whether its subfolders are left out.
HandleWebContent(p, fs, lang, type, webs) ==
  LET web   == IsWeb(p, fs, lang)
      keeps == type \in {"language", "folders"}
  IN [type |-> IF web /\ ~keeps THEN "html" ELSE type,
      webs |-> IF web THEN webs \cup {p} ELSE webs,
      leave |-> web /\ ~keeps]

HandleAndroidContent(p, fs, d) ==
  IF App \in fs THEN [type |-> "html", webs |-> d.webs \cup {p}, leave |-> TRUE] ELSE d

\* classify_directory_type: what is neither a language, a page, an app nor complex.
TypeOf(p, type, fs) ==
  IF p = <<>> /\ type # "folders" THEN "root"
  ELSE IF type # "" THEN type
  ELSE IF Cardinality(fs) > 2 THEN "collection" ELSE "singular"

\* What the checks make of folder p: its type, the webpaths and complex
\* folders after it, its files, and whether it is skipped and left.
Judged(p, lang) ==
  LET new    == ~IsLanguageDir(p) /\ NewComplex(p, lang)
      ind    == IF new THEN indexed \cup NewPages(p) ELSE indexed
      lst    == IF new THEN Append(complexLst, p) ELSE complexLst
      files  == FilesIn(p, ind)
      head   == ComplexHead(p, lst)
      below  == ComplexBelow(p, lst)
      type1  == IF below THEN ""
                ELSE IF new \/ (head /\ "index.html" \in files) THEN "folders"
                ELSE IF IsLanguageDir(p) THEN "language" ELSE ""
      webs1  == IF head THEN webpaths \cup {p} ELSE webpaths
      inside == InWebpath(p, webs1)
      htm    == webs1 # {} /\ ~inside /\ ~head /\ "index.htm" \in files
      webs2  == IF htm THEN webs1 \cup {p} ELSE webs1
      type2  == IF htm THEN "html" ELSE type1
      d      == HandleAndroidContent(p, files, HandleWebContent(p, files, lang, type2, webs2))
  IN [ind |-> ind, lst |-> lst, webs |-> d.webs, files |-> files, leave |-> d.leave,
      skip |-> d.webs # {} /\ \/ inside \/ below
                              \/ /\ \E w \in d.webs : Finds(w, p)
                                 /\ d.type # "folders" /\ ~HasIndex(files),
      type |-> TypeOf(p, d.type, files)]

\* unique_media_name: the name itself; or the copy's that has it; or one with
\* the folder added, and a number if that is taken too.  A copy is what has the size
\* and the ends; no file of a stick has itself a name like one of these made up.
LookOf(x) == Looks[stick[x[1]][x[2]]]
NameOnly(x, y) == x[2] = y[2]
SameContent(x, y) == LookOf(x) = LookOf(y)
MayUse(lang, m, full) == <<lang, m>> \in DOMAIN names => SameContent(names[<<lang, m>>], full)
UniqueMediaName(lang, p, f) ==
  IF MayUse(lang, <<f>>, <<p, f>>) THEN <<f>>
  ELSE LET n == CHOOSE n \in 1 .. Cardinality(DOMAIN names) + 1 :
                  /\ MayUse(lang, <<f, Base(p), n>>, <<p, f>>)
                  /\ \A k \in 1 .. n - 1 : ~MayUse(lang, <<f, Base(p), k>>, <<p, f>>)
       IN <<f, Base(p), n>>

\* process_file_entry, make_zim_card: the card of a file, if it gets one.
Listed(p, d) ==
  {f \in d.files : IF p \in d.webs THEN f \in Index \cup {App} ELSE f \notin Pages}
CardOf(p, f, d, lang) ==
  LET web == f \in Index \cup {App}
  IN [lang |-> lang, dir |-> p, file |-> f,
      media |-> IF web THEN <<Base(p)>> ELSE IF f = Zim THEN <<f>> ELSE UniqueMediaName(lang, p, f),
      in |-> IF d.type = "collection" /\ f # Zim THEN Base(p) ELSE ""]
Slug(c) == IF c.in # "" THEN CollectionSlug[c.in]
           ELSE IF c.file \in Index \cup {App} THEN c.media[1]
           ELSE FileSlug[c.media]
About(c) == IF c.in = "" /\ c.file \notin Index \cup {App} THEN <<c.dir, c.file>> ELSE <<c.dir, "">>

\* A collection of nothing but pages is begun and gets no episode.
Blank(p, d, lang) ==
  IF d.type = "collection" /\ d.files \subseteq Pages
  THEN {[lang |-> lang, dir |-> p, file |-> "", media |-> <<"">>, in |-> ""]} ELSE {}

Blanks == {c \in cards : c.file = ""}

Update(f, new) == [x \in DOMAIN f \cup DOMAIN new |-> IF x \in DOMAIN new THEN new[x] ELSE f[x]]
PagesOf(new) ==
  [x \in {<<c.lang, Slug(c)>> : c \in new} |->
     About(CHOOSE c \in new : <<c.lang, Slug(c)>> = x)]

AddFiles(p, d, lang) ==
  LET new   == {CardOf(p, f, d, lang) : f \in Listed(p, d)}
      media == {c \in new : c.file \notin Index \cup {App, Zim}}
      owner == [x \in {<<lang, c.media>> : c \in media} |->
                  <<p, (CHOOSE c \in media : c.media = x[2]).file>>]
  IN /\ cards' = cards \cup new \cup Blank(p, d, lang)
     /\ names' = Update(owner, names)
     /\ pages' = Update(pages, PagesOf(new))

\* ensure_language_dir; a region's folder also gets a link named without it.
NewFolders(lang) ==
  IF lang \in DOMAIN folders THEN folders
  ELSE Update([x \in {lang, BaseCode[lang]} |-> lang], folders)
NewMains(lang) == IF lang \in DOMAIN folders THEN mains ELSE Append(mains, lang)

SkipRoot ==
  /\ pc = "walk" /\ todo # <<>> /\ todo[1] = <<>> /\ LanguageDirs # {}
  /\ todo' = order
  /\ UNCHANGED <<stick, indexed, order, language, webpaths, complexLst, made, texts, pc>>

\* A language whose folder was only a link has no list: KeyError.
Visit ==
  /\ pc = "walk" /\ todo # <<>> /\ (todo[1] = <<>> => LanguageDirs = {})
  /\ LET p == todo[1]
         lang == IF IsLanguageDir(p) THEN p[1] ELSE language
         d == Judged(p, lang)
     IN /\ language' = lang
        /\ folders' = NewFolders(lang) /\ mains' = NewMains(lang)
        /\ indexed' = d.ind /\ complexLst' = d.lst /\ webpaths' = d.webs
        /\ \/ d.skip /\ UNCHANGED <<cards, names, pages, pc>>
           \/ ~d.skip /\ Contains(mains', lang) /\ AddFiles(p, d, lang) /\ UNCHANGED pc
           \/ /\ ~d.skip /\ ~Contains(mains', lang)
              /\ pc' = IF Listed(p, d) \cup Blank(p, d, lang) = {} THEN pc ELSE "out"
              /\ UNCHANGED <<cards, names, pages>>
        /\ \E ord \in IF p = <<>> THEN {order} ELSE SetToSeqs(SubDirs(p)) :
             todo' = (IF d.leave THEN <<>> ELSE ord) \o Tail(todo)
  /\ UNCHANGED <<stick, order, texts>>

\* usb_is_present: the stick was pulled out, the run returns.
PulledOut ==
  /\ pc = "walk" /\ pc' = "out"
  /\ UNCHANGED <<walk, made, texts>>

-----------------------------------------------------------------------------
(* The end of a run                                                        *)

\* cross_list_zim_cards: a ZIM file of several languages goes into the lists
\* of the others, where there is none of that name.
Same(a, b) == BaseCode[TransCode[a]] = BaseCode[TransCode[b]]
ZimCards   == {c \in cards : c.file = Zim}
ZimTargets ==
  {l \in ToSet(mains) : /\ \E t \in ZimCodes : Same(l, t)
                        /\ \E c \in ZimCards : ~Same(l, c.lang)
                        /\ \A c \in ZimCards : c.lang # l}
CrossListed ==
  {[(CHOOSE c \in ZimCards : ~Same(l, c.lang)) EXCEPT !.lang = l] : l \in ZimTargets}

CrossListZimCards ==
  /\ pc = "walk" /\ todo = <<>> /\ pc' = "finish"
  /\ cards' = IF Cardinality(ZimCodes) < 2 THEN cards ELSE cards \cup CrossListed
  /\ pages' = Update(pages, PagesOf(cards' \ cards))
  /\ UNCHANGED <<walk, mains, folders, names, texts>>

\* get_interface_for_language: what is saved if it is a translation of the
\* strings as they are; what the internet answers, or else English.
Translated == {c \in Codes : TransCode[c] # English}
Valid(c)   == saved[TransCode[c]].en = english
LookedUp   == [en |-> english, by |-> "lookup"]
TextOfAnyEnglish(c, found) ==
  IF c \in Translated /\ TransCode[c] \in found THEN LookedUp
  ELSE IF c \in Translated /\ saved[TransCode[c]].en > 0 THEN saved[TransCode[c]]
  ELSE [en |-> english, by |-> "English"]
TextOf(c, found) ==
  IF c \notin Translated \/ (~Valid(c) /\ TransCode[c] \notin found)
  THEN [en |-> english, by |-> "English"]
  ELSE IF Valid(c) THEN saved[TransCode[c]] ELSE LookedUp

\* The interface of the languages in langs; one string stands for all.  The
\* first lookup that fails is the last: any part of them may be found.
LookUpAll(langs) ==
  \E found \in SUBSET {TransCode[c] : c \in langs \cap Translated} :
    /\ saved' = [x \in Codes |-> IF x \in found THEN LookedUp ELSE saved[x]]
    /\ shown' = [l \in langs |-> TextOf(l, found)]
WriteInterfaces(langs) ==
  LET wanted == {TransCode[c] : c \in {l \in langs \cap Translated : ~Valid(l)}}
  IN \E found \in SUBSET wanted :
       /\ saved' = [x \in Codes |-> IF x \in found THEN LookedUp ELSE saved[x]]
       /\ shown' = [l \in langs |-> TextOf(l, found)]

\* finalize_output: languages without cards are left out; without any the
\* run exits.
WithCards == {c.lang : c \in cards}
FinalizeOutput ==
  /\ pc = "finish" /\ pc' = IF WithCards = {} THEN "out" ELSE "done"
  /\ IF WithCards = {} THEN UNCHANGED <<saved, shown>> ELSE WriteInterfaces(WithCards)
  /\ UNCHANGED <<walk, made, english>>

-----------------------------------------------------------------------------
(* Later                                                                   *)

\* The next time the stick is put in, its saved.zip is restored, and
\* refresh_interface_translations brings its interface up to date.
Empty == [p \in {<<>>} |-> <<>>]
Restores ==
  /\ pc \in {"done", "restored", "unread", "stale"}
  /\ stick' = Empty /\ indexed' = {} /\ order' = <<>> /\ todo' = <<>>
  /\ language' = English /\ webpaths' = {} /\ complexLst' = <<>>
  /\ mains' = <<English>> /\ folders' = [c \in {English} |-> c]
  /\ cards' = {} /\ names' = <<>> /\ pages' = <<>>
  /\ UNCHANGED english

Restore ==
  /\ Restores /\ pc' = "restored"
  /\ WriteInterfaces(DOMAIN shown)

\* The configuration of the templates cannot be read: the zip's texts stay.
RestoreUnread ==
  /\ Restores /\ pc' = "unread"
  /\ UNCHANGED <<saved, shown>>

\* New software has other English strings; a native speaker corrects a text.
Upgrade ==
  /\ pc = "restored" /\ english < MaxEnglish
  /\ english' = english + 1 /\ pc' = "stale"
  /\ UNCHANGED <<walk, made, saved, shown>>

Correct ==
  /\ pc = "restored" /\ pc' = "stale"
  /\ \E c \in Codes : /\ saved[c].en > 0
                      /\ saved' = [saved EXCEPT ![c].by = "hand"]
  /\ UNCHANGED <<walk, made, english, shown>>

\* A power cut while a file of translations is written.
PowerCut ==
  /\ pc = "restored" /\ pc' = "stale"
  /\ \E l \in DOMAIN shown \cap Translated :
       saved' = [saved EXCEPT ![TransCode[l]] = NoText]
  /\ UNCHANGED <<walk, made, english, shown>>

-----------------------------------------------------------------------------
Next ==
  \/ DetectLanguageDirs \/ FindComplexDirs \/ ProcessComplexDirs
  \/ SkipRoot \/ Visit \/ PulledOut \/ CrossListZimCards \/ FinalizeOutput
  \/ Restore \/ RestoreUnread \/ Upgrade \/ Correct \/ PowerCut

Spec == Init /\ [][Next]_vars

-----------------------------------------------------------------------------
(* What the menus should hold, from the stick alone                        *)

Listing == pc \in {"finish", "done"}
Media(p) == OwnFiles(p) \ (Pages \cup {App, Zim})

\* Folders that are shown as a whole: web pages, apps and complex folders.
WebFolder(p) ==
  /\ p = <<>> => LanguageDirs = {}
  /\ \/ ~IsLanguageDir(p) /\ (HasIndex(OwnFiles(p)) \/ OnePage(OwnFiles(p)))
     \/ App \in OwnFiles(p)
ComplexFolder(p) ==
  \/ Len(p) = 1 /\ ~IsLanguageDir(p)
     /\ \/ SubDirs(p) # {} /\ OwnFiles(p) = {}
        \/ "index.html" \in OwnFiles(p)
        \/ Entries \cap OwnFiles(p) # {}
        \/ \E q \in SubDirs(p) : SubDirs(q) # {}
  \/ Len(p) = 2 /\ p[1] \in LanguageDirs /\ SubDirs(p) # {} /\ OwnFiles(p) \subseteq {"index.html"}
Closed(p) == WebFolder(p) \/ ComplexFolder(p)

\* Left out: folders beside the languages' (which are listed all the same, in
\* the language that came before), folders whose name begins with that of a
\* closed folder next to them (which are lost), and languages with an
\* index.htm of their own (a page or not, by what came before).
Judgeable(p) ==
  /\ LanguageDirs = {} \/ (p # <<>> /\ p[1] \in LanguageDirs)
  /\ \A q \in Dirs : Closed(q) /\ Finds(q, p) => IsPrefix(q, p)
  /\ \A c \in LanguageDirs : "index.htm" \in OwnFiles(<<c>>) => ~Finds(<<c>>, p)
LanguageOf(p) == IF LanguageDirs = {} THEN language ELSE p[1]

\* Every media file of an ordinary folder is listed, in the language of its
\* folder and in no other, and no file from inside a web page, an app or a complex
\* folder is, in whatever order the walk finds the folders.  Which folders are complex
\* is what the code says: docs/usb-structure.md 204-238 has one tile and a file browser
\* for every folder with a subfolder, the code lists the files of one that has files
\* too, one by one, and its subfolders likewise (2968-2998, 2860-2885).
FilesShown ==
  Listing => \A p \in {q \in Dirs : Judgeable(q)} :
    {<<c.lang, c.file>> : c \in {x \in cards : x.dir = p /\ x.file \in Media(p)}}
      = IF \E q \in Dirs : Closed(q) /\ IsPrefix(q, p) THEN {}
        ELSE {<<LanguageOf(p), f>> : f \in Media(p)}

\* A folder shown as a whole has one tile, unless it is inside another such
\* folder - if it has an index page of its own or gets one from the indexer.
\* So there is none, against docs/usb-structure.md, for a folder with files and
\* subfolders (204-238), with one page of another name (137-142, 165-172) or with an
\* app whose manifest is all the page it has (187-192).
TilesShown ==
  Listing => \A p \in {q \in Dirs : Judgeable(q)} :
    {c \in cards : c.dir = p /\ c.file \in Index \cup {App}} # {}
      <=> /\ Closed(p)
          /\ \A q \in Dirs : Closed(q) /\ IsPrefix(q, p) => q = p
          /\ HasIndex(OwnFiles(p)) \/ ComplexFolder(p)

\* Another card of the language has the same slug but is not of the same name in
\* media/: a.b.mp3 and a-b.mp3, the a--Bible.mp3 made up for a second a.mp3 and a file
\* a-Bible.mp3, a.mp3 and a folder of web pages named a-mp3 have one data file.
SharesSlug(c) ==
  \E k \in cards \ Blanks :
    /\ k.lang = c.lang /\ Slug(k) = Slug(c)
    /\ ~(k.in = "" /\ k.file = c.file /\ k.media = c.media)

\* Tapping a card opens its own file or what same_file_content takes for a copy of
\* it, whatever other files have its name; so does its page, unless it is shown within
\* a collection or shares its slug.  A file that differs only between the first and the
\* last 64 KB is such a copy: of two, one is never played, though the comment at
\* 3550-3552 says that only "the same content (a copy)" shares a name.
OpensOwn ==
  \A c \in {x \in cards : x.file \notin Index \cup {App, Zim, ""}} :
    LET own  == LookOf(<<c.dir, c.file>>)
        link == names[<<c.lang, c.media>>]
        page == pages[<<c.lang, Slug(c)>>]
    IN /\ LookOf(link) = own
       /\ c.in # "" \/ LookOf(page) = own \/ SharesSlug(c)

\* The interface is in English or translated from the English of today; only a
\* restore that cannot read its configuration leaves what the zip had ("unread").
TextIsCurrent ==
  pc \in {"done", "restored"} => \A l \in DOMAIN shown : shown[l].en = english

\* What a native speaker corrected is kept and shown by every later run, as
\* long as the English stays and no power cut hits the file.
CorrectionsKept ==
  [][pc' = "restored" =>
       \A l \in DOMAIN shown \cap Translated :
         Valid(l) /\ saved[TransCode[l]].by = "hand"
           => /\ saved'[TransCode[l]] = saved[TransCode[l]]
              /\ shown'[l] = saved[TransCode[l]]]_vars
=============================================================================
