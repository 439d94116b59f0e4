------------------------------ MODULE Documents ------------------------------
(***************************************************************************)
(* The web pages mmiLoader makes of office documents.  Their authors edit  *)
(* and save them before the stick is indexed: a .ppt is mostly saved by    *)
(* appending what changed, so that the file keeps every older version and  *)
(* the converter has to find the newest one; a .pptx is written whole, a   *)
(* workbook may be longer than the page, and a .doc comes as a tree of     *)
(* DocBook elements from antiword.  Texts are abstract: a slide has its    *)
(* version, a sheet rows that are full or blank, a paragraph words; the    *)
(* paragraphs of a slide's text are by themselves, with length and style.  *)
(***************************************************************************)
EXTENDS Integers, Sequences, SequencesExt, FiniteSetsExt

CONSTANTS Kinds,      \* the formats in use
          Slides,     \* persist ids of slides
          MaxEdits,   \* steps of the author, and damages
          RowLimit,   \* SHEET_MAX_ROWS
          Trees,      \* what antiword may answer
          Bodies      \* the texts of a slide, see below

ASSUME DocumentsAssumption ==
  /\ Kinds \subseteq {"ppt", "pptx", "ppt text", "pptx text", "xlsx", "xls", "doc"}
  /\ Slides \subseteq Nat \ {0} /\ MaxEdits \in Nat /\ RowLimit \in Nat

VARIABLES kind, pdf,        \* the format; a PDF of the same name lies beside it
          deck, dirty,      \* the slides in the author's program, what is not saved
          saved,            \* the slides at the last save
          saves, named,     \* the file: its saves; Current User tells the newest
          book, tree, body,
          page,             \* what the card opens, see Index
          edits

file == <<saves, named>>
other == <<kind, pdf, tree, body>>
vars == <<other, deck, dirty, saved, file, book, page, edits>>

Document == 0               \* its persist id
Download == <<"download">>
NotIndexed == <<"not indexed">>

Edit == edits < MaxEdits /\ edits' = edits + 1 /\ page' = NotIndexed

-----------------------------------------------------------------------------
\* The texts of a slide lie in its shapes ("own", "title") or in the outline of the
\* Document record, to which a shape points ("ref") or none (no shape at all).
\* Slide numbers, dates and footers are not shown.
Layouts == {<<"own", "title">>, <<"ref">>, <<"number", "own", "ref">>, <<>>}
Skipped == {"number"}

InOutline(layout) == layout = <<>> \/ "ref" \in ToSet(layout)

\* What the stream keeps of the Document and of a slide.
Stored(d, p) ==
  IF p = Document
  THEN [order |-> d.order,
        outline |-> [i \in Slides |-> IF InOutline(d.layout[i]) THEN <<d.text[i]>> ELSE <<>>]]
  ELSE [layout |-> d.layout[p], own |-> d.text[p]]

Whole(d) == [p \in {Document} \cup ToSet(d.order) |-> Stored(d, p)]
Changed(d) == [p \in dirty \cap ({Document} \cup ToSet(d.order)) |-> Stored(d, p)]

\* bad: objects of the save whose record cannot be read
SaveOf(objs) == [objs |-> objs, edit |-> TRUE, directory |-> TRUE, bad |-> {}]

-----------------------------------------------------------------------------
\* ppt_persist_directory: start at the save the Current User stream names, or at
\* the last readable UserEditAtom, and go back as far as the saves can be read.
Readable(k) == saves[k].edit /\ saves[k].directory

Newest ==
  IF named /\ saves[Len(saves)].edit THEN Len(saves)
  ELSE Max({k \in DOMAIN saves : saves[k].edit} \cup {0})

History == {j \in 1 .. Newest : \A i \in j .. Newest : Readable(i)}

Holding(p) == {j \in History : p \in DOMAIN saves[j].objs}

OldestWins(p) == Min(Holding(p))

\* Newer saves win over older ones.
SaveWith(p) == Max(Holding(p))

Usable(p) == p \notin saves[SaveWith(p)].bad
Object(p) == saves[SaveWith(p)].objs[p]

\* ppt_page_texts: the shapes in their order, then the outline texts none of them
\* points to; nothing if the slide is in no save that can be read.
PptTexts(i, outline) ==
  IF Holding(i) = {} THEN <<>>
  ELSE LET layout == Object(i).layout
           refers == \E k \in DOMAIN layout : layout[k] = "ref"
           OfShape(s) == CASE s \in Skipped -> <<>>
                           [] s \in {"own", "title"} -> <<<<s, Object(i).own>>>>
                           [] s = "ref" -> [n \in DOMAIN outline |-> <<s, outline[n]>>]
       IN FlattenSeq([k \in DOMAIN layout |-> OfShape(layout[k])])
            \o (IF refers THEN <<>> ELSE [n \in DOMAIN outline |-> <<"ref", outline[n]>>])

\* The text of the title shape is the heading of the section.
TitleFirst(texts) ==
  LET isTitle(t) == t[1] = "title"
  IN SelectSeq(texts, isTitle) \o SelectSeq(texts, LAMBDA t : ~isTitle(t))

\* convert_ppt_to_html: a page has one section for each slide of the Document
\* whose record can be read.
PptPage ==
  IF Holding(Document) = {} \/ ~Usable(Document) THEN Download
  ELSE LET doc == Object(Document)
           kept == SelectSeq(doc.order, LAMBDA i : Holding(i) = {} \/ Usable(i))
       IN IF kept = <<>> THEN Download
          ELSE <<"page">> \o [n \in DOMAIN kept |->
                                <<kept[n], TitleFirst(PptTexts(kept[n], doc.outline[kept[n]]))>>]

\* convert_pptx_to_html: hidden slides and slides missing in the zip ("bad") are left
\* out; no page if the presentation part is missing, or one is there and broken
\* ("directory").
PptxTexts(d, i) ==
  LET shapes == SelectSeq(d.layout[i], LAMBDA s : s \notin Skipped)
  IN TitleFirst([k \in DOMAIN shapes |-> <<shapes[k], d.text[i]>>])

PptxPage ==
  IF saves = <<>> \/ ~saves[1].directory \/ Document \in saves[1].bad THEN Download
  ELSE LET kept == SelectSeq(saved.order,
                             LAMBDA i : i \notin saved.hidden \cup saves[1].bad)
       IN <<"page">> \o [n \in DOMAIN kept |-> <<kept[n], PptxTexts(saved, kept[n])>>]

-----------------------------------------------------------------------------
\* The text of a shape: paragraphs with a length (0: nothing to show), a level and
\* a bullet ("on", "off", or "default": the shape's, bulleted).  A .pptx keeps the
\* style with each paragraph; a .ppt keeps one text, and the paragraphs' styles as
\* runs of so many characters, followed by runs of other things.
Size(paras) == FoldLeft(LAMBDA n, p : n + p.length + 1, 0, paras)

Run(p) == [count |-> p.length + 1, level |-> p.level, bullet |-> p.bullet]
Joined(runs, r) ==
  IF runs # <<>> /\ Last(runs).level = r.level /\ Last(runs).bullet = r.bullet
  THEN [runs EXCEPT ![Len(runs)].count = @ + r.count] ELSE Append(runs, r)

\* What the author's program writes: a run for each paragraph, or for paragraphs
\* alike; none if it cannot be read.
StyleAtom(b) ==
  LET runs == [n \in DOMAIN b.paras |-> Run(b.paras[n])]
  IN CASE b.styles = "none" -> <<>>
       [] b.styles = "each" -> Append(runs, [count |-> 1, level |-> 9, bullet |-> "on"])
       [] b.styles = "joined" ->
            Append(FoldLeft(Joined, <<>>, runs), [count |-> 1, level |-> 9, bullet |-> "on"])

CharactersOf(runs) == FoldLeft(LAMBDA n, r : n + r.count, 0, runs)

\* ppt_paragraph_styles: runs until they cover the text and its last line end.
ParagraphStyles(atom, textLength) ==
  LET enough == {n \in DOMAIN atom : CharactersOf(SubSeq(atom, 1, n)) >= textLength + 1}
  IN SubSeq(atom, 1, Min(enough \cup {Len(atom)}))

Shows(paras, n) == paras[n].length > 0

\* ppt_paragraphs: each paragraph with the run its first character is in.
PptParagraphs(b) ==
  LET runs == ParagraphStyles(StyleAtom(b), Size(b.paras) - 1)
      Start(n) == Size(SubSeq(b.paras, 1, n - 1))
      Holds(k, pos) == CharactersOf(SubSeq(runs, 1, k - 1)) <= pos
                         /\ pos < CharactersOf(SubSeq(runs, 1, k))
      RunOf(n) == SelectSeq([k \in DOMAIN runs |-> k], LAMBDA k : Holds(k, Start(n)))
      Styled(n) == IF RunOf(n) = <<>> THEN [para |-> n, level |-> 0, bullet |-> "default"]
                   ELSE [para |-> n, level |-> runs[RunOf(n)[1]].level,
                         bullet |-> runs[RunOf(n)[1]].bullet]
  IN SelectSeq([n \in DOMAIN b.paras |-> Styled(n)], LAMBDA q : Shows(b.paras, q.para))

PptxParagraphs(b) ==
  SelectSeq([n \in DOMAIN b.paras |->
               [para |-> n, level |-> b.paras[n].level, bullet |-> b.paras[n].bullet]],
            LAMBDA q : Shows(b.paras, q.para))

\* pptx_text_html: items that follow each other share a list.
IsItem(q, bulleted) == q.bullet = "on" \/ (q.bullet = "default" /\ bulleted)

AddParagraph(out, q, bulleted) ==
  IF ~IsItem(q, bulleted) THEN Append(out, [tag |-> "p", texts |-> <<<<q.para>>>>])
  ELSE LET item == <<q.para, q.level>>
       IN IF out # <<>> /\ Last(out).tag = "ul"
          THEN [out EXCEPT ![Len(out)].texts = Append(@, item)]
          ELSE Append(out, [tag |-> "ul", texts |-> <<item>>])

TextHtml(paragraphs, bulleted) ==
  FoldLeft(LAMBDA out, q : AddParagraph(out, q, bulleted), <<>>, paragraphs)

TextPage ==
  <<"page">> \o TextHtml(IF kind = "ppt text" THEN PptParagraphs(body) ELSE PptxParagraphs(body),
                         body.bulleted)

-----------------------------------------------------------------------------
RECURSIVE Trim(_)
Trim(rows) ==
  IF rows # <<>> /\ Last(rows) = "blank" THEN Trim(Front(rows)) ELSE rows

\* convert_xlsx_to_html counts the rows on the page and the full ones after them,
\* convert_xls_to_html every row the sheet has.
Total(rows) ==
  IF kind = "xls" THEN Len(rows)
  ELSE Min({Len(rows), RowLimit})
         + Len(SelectSeq(SubSeq(rows, RowLimit + 1, Len(rows)), LAMBDA r : r = "full"))

\* sheet_table_html: the first rows, and how many there are if that is more.
SheetTable(rows) ==
  LET first == SubSeq(rows, 1, Min({Len(rows), RowLimit}))
      more == Total(rows) > Len(first) /\ Trim(first) # <<>>
  IN [rows |-> Trim(first), more |-> IF more THEN Total(rows) ELSE 0]

Visible == SelectSeq(book, LAMBDA s : ~s.hidden)

SheetsPage == <<"page">> \o [n \in DOMAIN Visible |-> SheetTable(Visible[n].rows)]

-----------------------------------------------------------------------------
\* DocBook.  An element has a tag, the words before its first child, children,
\* and the words after its end tag; a block of the page is a sequence of words.
Rule == <<"hr">>
Headings == {"chapter", "sect1"}
Lists == {"itemizedlist", "orderedlist"}
Tables == {"informaltable"}
IsBlock(e) == e.tag \in Lists \cup Tables \cup {"para", "beginpage"}

AddBlock(out, words) == IF words = <<>> THEN out ELSE Append(out, words)

RECURSIVE Inline(_)
Inline(e) ==
  e.text \o FlattenSeq([k \in DOMAIN e.kids |-> Inline(e.kids[k]) \o e.kids[k].tail])

RECURSIVE Rows(_)
Rows(e) ==
  FlattenSeq([k \in DOMAIN e.kids |->
    (IF e.kids[k].tag = "row" THEN <<e.kids[k]>> ELSE <<>>) \o Rows(e.kids[k])])

RECURSIVE Blocks(_, _)

\* docbook_para, one child: a block inside the paragraph ends the line so far.
ParaStepNoTail(acc, child) ==
  IF IsBlock(child)
  THEN [out |-> Blocks(<<child>>, AddBlock(acc.out, acc.line)), line |-> <<>>]
  ELSE [acc EXCEPT !.line = @ \o Inline(child) \o child.tail]

ParaStep(acc, child) ==
  IF IsBlock(child)
  THEN [out |-> Blocks(<<child>>, AddBlock(acc.out, acc.line)), line |-> child.tail]
  ELSE [acc EXCEPT !.line = @ \o Inline(child) \o child.tail]

Para(e, out) ==
  LET end == FoldLeft(ParaStep, [out |-> out, line |-> e.text], e.kids)
  IN AddBlock(end.out, end.line)

TableWords(e) ==
  FlattenSeq([r \in DOMAIN Rows(e) |->
    FlattenSeq([c \in DOMAIN Rows(e)[r].kids |-> FlattenSeq(Para(Rows(e)[r].kids[c], <<>>))])])

ListWords(e) ==
  FlattenSeq([k \in DOMAIN e.kids |-> FlattenSeq(Blocks(e.kids[k].kids, <<>>))])

Titles(e) == SelectSeq(e.kids, LAMBDA c : c.tag = "title")

\* docbook_blocks, one element; the lines of a page break never lead or repeat.
AddElement(out, e) ==
  CASE e.tag \in {"bookinfo", "title", "colspec"} -> out
    [] e.tag \in Headings ->
         Blocks(e.kids, IF Titles(e) = <<>> THEN out ELSE AddBlock(out, Inline(Titles(e)[1])))
    [] e.tag = "para" -> Para(e, out)
    [] e.tag \in Lists -> AddBlock(out, ListWords(e))
    [] e.tag \in Tables -> AddBlock(out, TableWords(e))
    [] e.tag = "beginpage" ->
         IF out = <<>> \/ Last(out) = Rule THEN out ELSE Append(out, Rule)
    [] OTHER -> Blocks(e.kids, out)

Blocks(elements, out) == FoldLeft(AddElement, out, elements)

RECURSIVE DropRules(_)
DropRules(out) == IF out # <<>> /\ Last(out) = Rule THEN DropRules(Front(out)) ELSE out

DocPage ==
  LET out == DropRules(Blocks(tree.kids, <<>>))
  IN IF out = <<>> THEN Download ELSE <<"page">> \o out

-----------------------------------------------------------------------------
\* The author's steps.
Unsaved(d, ps) == deck' = d /\ dirty' = dirty \cup ps /\ UNCHANGED <<other, saved, file, book>>
IsDeck == kind \in {"ppt", "pptx"}

EditText(i) ==
  /\ IsDeck /\ i \in ToSet(deck.order) /\ Edit
  /\ Unsaved([deck EXCEPT !.text[i] = @ + 1], {i, Document})

AddSlide(i, layout) ==
  /\ IsDeck /\ i \notin ToSet(deck.order) /\ Edit
  /\ Unsaved([deck EXCEPT !.order = Append(@, i), !.layout[i] = layout, !.text[i] = @ + 1],
             {i, Document})

RemoveSlide(i) ==
  /\ IsDeck /\ i \in ToSet(deck.order) /\ Len(deck.order) > 1 /\ Edit
  /\ Unsaved([deck EXCEPT !.order = SelectSeq(@, LAMBDA j : j # i)], {Document})

MoveSlides ==
  /\ IsDeck /\ Len(deck.order) > 1 /\ Edit
  /\ Unsaved([deck EXCEPT !.order = Reverse(@)], {Document})

HideSlide(i) ==
  /\ kind = "pptx" /\ i \in ToSet(deck.order) /\ Edit
  /\ Unsaved([deck EXCEPT !.hidden = (@ \cup {i}) \ (@ \cap {i})], {i})

WritesFile(newSaves) ==
  /\ saves' = newSaves /\ saved' = deck /\ dirty' = {} /\ named' = TRUE
  /\ UNCHANGED <<other, deck, book>>

SaveChanges ==
  /\ kind = "ppt" /\ saves # <<>> /\ dirty # {} /\ Edit
  /\ WritesFile(Append(saves, SaveOf(Changed(deck))))

SaveWhole ==
  /\ IsDeck /\ Edit
  /\ WritesFile(<<SaveOf(Whole(deck))>>)

\* A bad stick, a broken copy, a program that writes no Current User stream.
Damage ==
  /\ IsDeck /\ Edit
  /\ \/ \E k \in DOMAIN saves :
          \/ saves' = [saves EXCEPT ![k].edit = FALSE]
          \/ saves' = [saves EXCEPT ![k].directory = FALSE]
          \/ \E p \in DOMAIN saves[k].objs : saves' = [saves EXCEPT ![k].bad = @ \cup {p}]
     \/ UNCHANGED saves
  /\ named' \in {named, FALSE} /\ file' # file
  /\ UNCHANGED <<other, deck, dirty, saved, book>>

EditBook(b) == book' = b /\ UNCHANGED <<other, deck, dirty, saved, file>>
IsBook == kind \in {"xlsx", "xls"}

AddRow(s, r) ==
  /\ IsBook /\ Edit
  /\ EditBook([book EXCEPT ![s].rows = Append(@, r)])

HideSheet(s) ==
  /\ IsBook /\ Edit
  /\ EditBook([book EXCEPT ![s].hidden = ~@])

\* make_document_web_page; no page where a PDF of the same name is preferred.
Index ==
  /\ page = NotIndexed
  /\ page' = CASE kind \in {"ppt", "doc"} /\ pdf -> Download
               [] kind = "ppt" /\ ~pdf -> IF saves = <<>> THEN Download ELSE PptPage
               [] kind = "doc" /\ ~pdf -> DocPage
               [] kind = "pptx" -> PptxPage
               [] kind \in {"ppt text", "pptx text"} -> TextPage
               [] kind \in {"xlsx", "xls"} -> SheetsPage
  /\ UNCHANGED <<other, deck, dirty, saved, file, book, edits>>

NoDeck == [order |-> <<>>, text |-> [i \in Slides |-> 0],
           layout |-> [i \in Slides |-> <<"own">>], hidden |-> {}]

Init ==
  /\ kind \in Kinds /\ pdf \in (IF kind \in {"ppt", "doc"} THEN BOOLEAN ELSE {FALSE})
  /\ deck = NoDeck /\ dirty = {} /\ saved = NoDeck /\ saves = <<>> /\ named = FALSE
  /\ book = <<[hidden |-> FALSE, rows |-> <<>>], [hidden |-> FALSE, rows |-> <<>>]>>
  /\ tree \in (IF kind = "doc" THEN Trees ELSE {<<>>})
  /\ body \in (IF kind \in {"ppt text", "pptx text"} THEN Bodies ELSE {<<>>})
  /\ page = NotIndexed /\ edits = 0

Next ==
  \/ \E i \in Slides : EditText(i) \/ RemoveSlide(i) \/ HideSlide(i)
  \/ \E i \in Slides, layout \in Layouts : AddSlide(i, layout)
  \/ MoveSlides \/ SaveChanges \/ SaveWhole \/ Damage
  \/ \E s \in 1 .. 2 : HideSheet(s)
  \/ \E s \in 1 .. 2, r \in {"full", "blank"} : AddRow(s, r)
  \/ Index

Spec == Init /\ [][Next]_vars

-----------------------------------------------------------------------------
Sections == Tail(page)
HasPage == page # NotIndexed /\ page # Download

\* The texts the author gave slide i: the title, then the others in their order.
TextsOf(i) ==
  LET layout == saved.layout[i]
      shapes == IF layout = <<>> /\ kind = "ppt" THEN <<"ref">>
                ELSE (IF "title" \in ToSet(layout) THEN <<"title">> ELSE <<>>)
                       \o SelectSeq(layout, LAMBDA s : s \notin {"number", "title"})
  IN [k \in DOMAIN shapes |-> <<shapes[k], saved.text[i]>>]

Shown == SelectSeq(saved.order, LAMBDA i : kind = "ppt" \/ i \notin saved.hidden)

Damaged == \E k \in DOMAIN saves :
             ~Readable(k) \/ saves[k].bad # {}

\* An intact presentation is shown as it was last saved: every slide of that save,
\* in its order, each text once and its title first ("so no text is lost"), whatever
\* older versions the file still holds and whoever wrote the Current User stream.
\* In a damaged one whose newest save can be read, slides or their texts may be
\* missing, but nothing of an older save is shown ("Newer saves win over older
\* ones").
DeckShown ==
  HasPage /\ IsDeck =>
    /\ ~Damaged => Sections = [n \in DOMAIN Shown |-> <<Shown[n], TextsOf(Shown[n])>>]
    /\ Readable(Len(saves)) =>
         /\ \A n \in DOMAIN Sections : Sections[n][2] \in {<<>>, TextsOf(Sections[n][1])}
         /\ [n \in DOMAIN Sections |-> Sections[n][1]] =
              SelectSeq(Shown, LAMBDA i : \E n \in DOMAIN Sections : Sections[n][1] = i)

FullRows(rows) == {n \in DOMAIN rows : rows[n] = "full"}

\* The page of a visible sheet has its full rows where they are, up to the limit,
\* and says so when there are more ("how many rows the sheet has"), for a .xlsx
\* only then.  A sheet with nothing up to the limit shows nothing.
RowsShown ==
  \A n \in DOMAIN Visible :
    LET rows == Visible[n].rows
        table == Sections[n]
    IN /\ FullRows(table.rows) = {m \in FullRows(rows) : m <= RowLimit}
       /\ table.rows # <<>> =>
            LET left == \E m \in FullRows(rows) : m > RowLimit
            IN /\ left => table.more > RowLimit
               /\ kind = "xlsx" /\ table.more > 0 => left

\* The page of a .doc has every word antiword found, once, in its order; page
\* breaks lie between blocks.
WordsShown ==
  LET blocks == Sections
  IN /\ FlattenSeq(SelectSeq(blocks, LAMBDA b : b # Rule)) = Inline(tree)
     /\ blocks[1] # Rule /\ Last(blocks) # Rule
     /\ \A n \in 1 .. Len(blocks) - 1 : blocks[n] # Rule \/ blocks[n + 1] # Rule

\* The paragraphs of a slide's text are shown once, in their order, those with
\* bullets as list items of their level, without a break between them.
Styled == kind = "pptx text" \/ body.styles # "none"
HasBullet(n) == IF Styled /\ body.paras[n].bullet # "default"
                THEN body.paras[n].bullet = "on" ELSE body.bulleted
ShownAs(n) ==
  IF HasBullet(n) THEN <<n, IF Styled THEN body.paras[n].level ELSE 0>> ELSE <<n>>

ParagraphsShown ==
  LET full == SelectSeq([n \in DOMAIN body.paras |-> n], LAMBDA n : Shows(body.paras, n))
  IN /\ FlattenSeq([n \in DOMAIN Sections |-> Sections[n].texts])
          = [n \in DOMAIN full |-> ShownAs(full[n])]
     /\ \A n \in DOMAIN Sections :
          /\ \A m \in DOMAIN Sections[n].texts :
               HasBullet(Sections[n].texts[m][1]) = (Sections[n].tag = "ul")
          /\ Sections[n].tag = "ul" /\ n > 1 => Sections[n - 1].tag # "ul"

\* Nothing of a slide's text, a workbook or a Word document is lost, out of its
\* place or in another's style.
TextShown ==
  HasPage => /\ kind \in {"ppt text", "pptx text"} => ParagraphsShown
             /\ IsBook => RowsShown
             /\ kind = "doc" => WordsShown
=============================================================================
