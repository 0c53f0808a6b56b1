------------------------------ MODULE AbxBook ------------------------------
(***************************************************************************)
(* How a tagged source file becomes a book (scripts/convert/               *)
(* shamela_to_json_v2.py parse_body), what the validator says of it        *)
(* (scripts/validate/validate_book_v2.py), and the rows it is indexed by   *)
(* (app/services/paging.py) and read with (reader_service.py).  The file   *)
(* is parsed tag by tag.                                                   *)
(***************************************************************************)
EXTENDS Naturals, Sequences, FiniteSets, SequencesExt, FiniteSetsExt

CONSTANTS
    Labels,     \* page labels: [number, numeric], number 0 when there is none
    MaxTags     \* bound: the tags and lines of a file

VARIABLES
    tags,       \* what was read
    pages,      \* [label, number, blank, blocks]; a block [type, text, toc]
    toc,        \* of each heading, its page
    open,       \* a footnote that was opened and not closed: <<>>, or its lines
    indexed     \* <<>>, or the one book made of it

abxVars == <<tags, pages, toc, open, indexed>>

AbxInit == tags = <<>> /\ pages = <<>> /\ toc = <<>> /\ open = <<>> /\ indexed = <<>>

-----------------------------------------------------------------------------
NoLabel == [number |-> 0, numeric |-> FALSE]
NewPage(label) == [label |-> label, number |-> label.number, blank |-> FALSE, blocks |-> <<>>]

\* Mutant: every marker starts a page.
SameNever(all, label) == FALSE

\* Markers with the number of the page being read go on with it.
SamePage(all, label) == all # <<>> /\ label.number # 0 /\ Last(all).number = label.number

WithPage(all, label) == IF SamePage(all, label) THEN all ELSE Append(all, NewPage(label))

\* ensure_page: text before any marker has a page too.
Ensured == IF pages = <<>> THEN <<NewPage(NoLabel)>> ELSE pages

AddBlock(all, type, text, entry) ==
    [all EXCEPT ![Len(all)].blocks = Append(@, [type |-> type, text |-> text, toc |-> entry])]

Parsing == indexed = <<>> /\ Len(tags) < MaxTags
Read(tag) == tags' = Append(tags, tag)
Line == Len(tags) + 1       \* the text of each line is told apart by its place

PageTag(label) ==
    /\ Parsing /\ open = <<>> /\ Read([tag |-> "page", label |-> label])
    /\ pages' = WithPage(pages, label)
    /\ UNCHANGED <<toc, open, indexed>>

Text ==
    /\ Parsing /\ open = <<>> /\ Read([tag |-> "text"])
    /\ pages' = AddBlock(Ensured, "text", <<Line>>, 0)
    /\ UNCHANGED <<toc, open, indexed>>

Heading ==
    /\ Parsing /\ open = <<>> /\ Read([tag |-> "heading"])
    /\ toc' = Append(toc, Len(Ensured))
    /\ pages' = AddBlock(Ensured, "heading", <<Line>>, Len(toc'))
    /\ UNCHANGED <<open, indexed>>

Blank ==
    /\ Parsing /\ open = <<>> /\ Read([tag |-> "blank"])
    /\ pages' = [Ensured EXCEPT ![Len(Ensured)].blank = TRUE]
    /\ UNCHANGED <<toc, open, indexed>>

\* A footnote over several lines: a page marker inside it is text like any other.
OpenNote ==
    /\ Parsing /\ open = <<>> /\ Read([tag |-> "open"])
    /\ open' = <<<<Line>>>>
    /\ UNCHANGED <<pages, toc, indexed>>

InNote(label) ==
    /\ Parsing /\ open # <<>>
    /\ Read(IF label = NoLabel THEN [tag |-> "text"] ELSE [tag |-> "page", label |-> label])
    /\ open' = <<Append(open[1], Line)>>
    /\ UNCHANGED <<pages, toc, indexed>>

\* Mutant: what follows the closing tag on its line is dropped.
NoteOnly(all, leftover) == AddBlock(all, "footnotes", open[1], 0)

\* The footnote, then what is left of the line.
NoteAndRest(all, leftover) ==
    LET noted == AddBlock(all, "footnotes", open[1], 0)
    IN IF leftover THEN AddBlock(noted, "text", <<Line>>, 0) ELSE noted

CloseNote(leftover) ==
    /\ Parsing /\ open # <<>> /\ Read([tag |-> IF leftover THEN "close, text" ELSE "close"])
    /\ pages' = NoteAndRest(Ensured, leftover) /\ open' = <<>>
    /\ UNCHANGED <<toc, indexed>>

-----------------------------------------------------------------------------
\* _classify_split: how many pages are front matter.
ClassifySplit(all) ==
    LET falls == {i \in DOMAIN all : /\ all[i].number # 0
                                     /\ \E j \in 1 .. i - 1 : all[j].number > all[i].number}
    IN IF falls # {} THEN Min(falls) - 1
       ELSE IF \E i \in DOMAIN all : ~all[i].label.numeric THEN Len(all) ELSE 0

PageNumbers(all) ==
    LET split == ClassifySplit(all)
    IN [i \in DOMAIN all |-> IF i <= split THEN <<0, i>>
                             ELSE IF all[i].number # 0 THEN <<1, all[i].number>> ELSE <<1, i>>]

\* validate: a book with pages, with blocks, its contents on pages it has.
Valid(book) ==
    /\ \E i \in DOMAIN book.pages : book.pages[i].blocks # <<>>
    /\ \A k \in DOMAIN book.toc : book.toc[k] \in DOMAIN book.pages

\* Its warning: how often the numbers of the main pages fall.
Descents(book) ==
    LET main == SelectSeq(book.numbers, LAMBDA n : n[1] = 1)
    IN Cardinality({i \in 1 .. Len(main) - 1 : main[i + 1][2] < main[i][2]})

-----------------------------------------------------------------------------
\* paging.py: the rows of the search index.

\* Mutant: the entries before the page only.
EntriesBefore(entries, page) == Cardinality({k \in DOMAIN entries : entries[k] < page})

\* bisect_right over the pages of the entries.
EntriesUpTo(entries, page) == Cardinality({k \in DOMAIN entries : entries[k] <= page})

PageRows(book) ==
    [i \in DOMAIN book.pages |->
        [sequence |-> i, section |-> EntriesUpTo(book.toc, i),
         text |-> FlattenSeq([j \in DOMAIN book.pages[i].blocks |-> book.pages[i].blocks[j].text])]]

SectionRows(book) ==
    [k \in DOMAIN book.toc |->
        [start |-> book.toc[k],
         end |-> IF k < Len(book.toc) THEN book.toc[k + 1] - 1 ELSE Len(book.pages)]]

\* The entry the reader shows over a page, 0 when none.
ReaderSection(book, page) ==
    Max({0} \union {k \in DOMAIN book.toc : book.toc[k] <= page})

\* The end of the file: an open footnote is a ConversionError.
Import ==
    /\ indexed = <<>> /\ tags # <<>> /\ open = <<>>
    /\ LET book == [pages |-> pages, toc |-> toc, numbers |-> PageNumbers(pages)]
       IN /\ Valid(book)
          /\ indexed' = <<book @@ [rows |-> PageRows(book), sections |-> SectionRows(book), descents |-> Descents(book)]>>
    /\ UNCHANGED <<tags, pages, toc, open>>

AbxNext ==
    \/ \E label \in Labels : PageTag(label)
    \/ Text \/ Heading \/ Blank \/ OpenNote
    \/ \E label \in Labels \union {NoLabel} : InNote(label)
    \/ \E leftover \in BOOLEAN : CloseNote(leftover)
    \/ Import

-----------------------------------------------------------------------------
HasText(tag) == tag.tag \notin {"page", "blank", "close"}

\* Every line of text in the source is in the index once, in the order it had
\* there, wherever tags open and close (parse_body, _read_block, paginate); a
\* page marker inside an open footnote becomes text of it.
NothingOfTheTextIsLost ==
    indexed # <<>> =>
        LET text == FlattenSeq([i \in DOMAIN indexed[1].rows |-> indexed[1].rows[i].text])
        IN /\ \A a, b \in DOMAIN text : a < b => text[a] < text[b]
           /\ {i \in DOMAIN tags : HasText(tags[i])} \subseteq ToSet(text)

\* The section a page is indexed under reaches over it, is the one the reader
\* shows there, and no later heading is on that page or before it (paginate,
\* paginate_sections, section_title).
SectionsCoverTheirPages ==
    indexed # <<>> =>
        LET b == indexed[1] IN
        \A i \in DOMAIN b.rows :
            LET s == b.rows[i].section IN
            /\ s = ReaderSection(b, i)
            /\ s = 0 => \A k \in DOMAIN b.sections : b.sections[k].start > i
            /\ s # 0 => b.sections[s].start <= i /\ i <= b.sections[s].end

\* Where page numbers start again is where the main text begins: its pages are
\* numbered as printed, and if they fall again the validator warns; neighbouring
\* pages never bear one number (_classify_split, new_page, validate).
NumbersTellPagesApart ==
    indexed # <<>> =>
        LET b == indexed[1] IN
        \A i \in 1 .. Len(b.numbers) - 1 :
            /\ b.pages[i].number # 0 => b.pages[i].number # b.pages[i + 1].number
            /\ b.numbers[i][1] = 1 /\ b.numbers[i + 1][1] = 1 /\ b.numbers[i + 1][2] < b.numbers[i][2] => b.descents > 0
            /\ b.numbers[i][1] >= b.numbers[i + 1][1] => b.numbers[i][1] = b.numbers[i + 1][1]
=============================================================================
