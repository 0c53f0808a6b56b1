----------------------------- MODULE WordPages -----------------------------
(***************************************************************************)
(* How the pages of a Word file are told apart and its footnotes put on    *)
(* them (scripts/convert/doc_to_json_v2.py read_docx, read_doc,            *)
(* _attach_doc_notes, _attach_docx_notes, _split_pages): the file is read  *)
(* item by item.                                                           *)
(***************************************************************************)
EXTENDS Naturals, Sequences, FiniteSets, SequencesExt, FiniteSetsExt

CONSTANTS
    MaxItems        \* bound: what a file holds

VARIABLES
    byMarks,    \* whether Word's own page marks are followed, or its breaks
    restart,    \* whether notes are numbered from 1 on each page
    items,      \* what was read: paragraphs and breaks, in order
    result,     \* the paragraphs and page ends made of it
    pending,    \* notes of the page being read, with their numbers
    count, physicalPage,
    parity,     \* "none", or "oddPage"/"evenPage": what the next page must be
    afterSection,   \* a section break has just begun the page
    cites,      \* notes cited so far
    ended

wordVars == <<byMarks, restart, items, result, pending, count, physicalPage, parity, afterSection, cites, ended>>

WordInit ==
    /\ byMarks \in BOOLEAN /\ restart \in BOOLEAN
    /\ items = <<>> /\ result = <<>> /\ pending = <<>> /\ count = 0
    /\ physicalPage = 1 /\ parity = "none" /\ afterSection = FALSE /\ cites = 0 /\ ended = FALSE

-----------------------------------------------------------------------------
\* A paragraph: its kind, the notes cited in it with the numbers shown.
Para(kind, marks) == [kind |-> kind, marks |-> marks]
PageEnd == Para("end", <<>>)
Note(id, number) == Para("footnote", <<<<id, number>>>>)
IsNote(p) == p.kind \in {"footnote", "handnote"}     \* is_footnote_style

NotesOf(marks) == [i \in DOMAIN marks |-> Note(marks[i][1], marks[i][2])]

Reading == ~ended /\ Len(items) < MaxItems

\* Mutant: the notes stay until the file ends.
NotesLater(now) == <<>>

\* The notes that go on a page when it ends.
NotesNow(now) == NotesOf(now)

\* end_page: the page's notes, its end, and the blank page a section needs to
\* start on its side.
EndPage(res, notes) ==
    LET next == physicalPage + 1
        blank == parity # "none" /\ (next % 2 = 1) # (parity = "oddPage")
    IN /\ result' = res \o NotesNow(notes) \o <<PageEnd>> \o (IF blank THEN <<PageEnd>> ELSE <<>>)
       /\ pending' = <<>> /\ parity' = "none"
       /\ count' = IF restart THEN 0 ELSE count
       /\ physicalPage' = next + (IF blank THEN 1 ELSE 0)

\* A paragraph of text, citing some notes; a mark of a note that is missing is
\* dropped and takes no number.
ReadText(cited) ==
    LET marks == [i \in 1 .. cited |-> <<cites + i, count + i>>] IN
    /\ Reading
    /\ items' = Append(items, Para("text", [i \in 1 .. cited |-> cites + i]))
    /\ result' = Append(result, Para("text", marks))
    /\ pending' = pending \o marks
    /\ count' = count + cited /\ cites' = cites + cited
    /\ afterSection' = FALSE
    /\ UNCHANGED <<byMarks, restart, physicalPage, parity, ended>>

\* A bar over hand-made footnotes, one of these, or a picture.
ReadPlain(kind) ==
    /\ Reading
    /\ items' = Append(items, Para(kind, <<>>)) /\ result' = Append(result, Para(kind, <<>>))
    /\ afterSection' = FALSE
    /\ UNCHANGED <<byMarks, restart, pending, count, physicalPage, parity, cites, ended>>

\* A manual break, or Word's mark; a manual break right after a section break
\* starts no page.
ReadBreak ==
    /\ Reading
    /\ items' = Append(items, PageEnd)
    /\ IF afterSection /\ ~byMarks THEN afterSection' = FALSE /\ UNCHANGED <<result, pending, count, physicalPage, parity>>
       ELSE EndPage(result, pending) /\ UNCHANGED afterSection
    /\ UNCHANGED <<byMarks, restart, cites, ended>>

\* The end of a section, by how the next one begins.
ReadSection(kind) ==
    /\ Reading
    /\ items' = Append(items, Para(kind, <<>>))
    /\ IF byMarks
       THEN /\ parity' = IF kind \in {"oddPage", "evenPage"} THEN kind ELSE parity
            /\ UNCHANGED <<result, pending, count, physicalPage, afterSection>>
       ELSE IF kind = "continuous" THEN UNCHANGED <<result, pending, count, physicalPage, parity, afterSection>>
       ELSE EndPage(result, pending) /\ afterSection' = TRUE
    /\ UNCHANGED <<byMarks, restart, cites, ended>>

ReadEnd ==
    /\ ~ended /\ items # <<>> /\ ended' = TRUE
    /\ result' = result \o NotesOf(pending) /\ pending' = <<>>
    /\ UNCHANGED <<byMarks, restart, items, count, physicalPage, parity, afterSection, cites>>

WordNext ==
    \/ \E cited \in 0 .. 2 : ReadText(cited)
    \/ \E kind \in {"bar", "handnote"} : ReadPlain(kind)
    \/ ReadBreak
    \/ \E kind \in {"continuous", "evenPage", "oddPage"} : ReadSection(kind)
    \/ ReadEnd

-----------------------------------------------------------------------------
\* The notes attached once the pages are known (_attach_doc_notes,
\* _attach_docx_notes), as with a page plan.

CloseNotes(s) == [s EXCEPT !.out = @ \o NotesOf(s.pending), !.pending = <<>>, !.count = IF restart THEN 0 ELSE @]

Attach(s, item) ==
    IF item.kind = "end" THEN LET c == CloseNotes(s) IN [c EXCEPT !.out = Append(@, PageEnd)]
    ELSE LET marks == [i \in DOMAIN item.marks |-> <<item.marks[i], s.count + i>>]
         IN [out |-> Append(s.out, Para(item.kind, marks)), pending |-> s.pending \o marks,
             count |-> s.count + Len(marks)]

\* Mutant: the last page is not closed.
LeftOpen(all) == FoldLeft(Attach, [out |-> <<>>, pending |-> <<>>, count |-> 0], all).out

Attached(all) == CloseNotes(FoldLeft(Attach, [out |-> <<>>, pending |-> <<>>, count |-> 0], all)).out

-----------------------------------------------------------------------------
\* _split_pages, _split_merged_pages.

PagesOf(res) ==
    FoldLeft(LAMBDA ps, p : IF p.kind = "end" THEN Append(ps, <<>>) ELSE [ps EXCEPT ![Len(ps)] = Append(@, p)],
             <<<<>>>>, res)

\* Mutant: only the first two bars are looked at.
FirstBarOnly(bars) == {i \in 1 .. Len(bars) - 1 : i = 1}

BarsSplitAt(bars) == 1 .. Len(bars) - 1

\* A page with two footnote bars is two printed pages: the second begins with
\* the first text after the first one's notes.
Split(page) ==
    LET bars == SetToSortSeq({i \in DOMAIN page : page[i].kind = "bar"}, <)
        body(n) == {j \in bars[n] + 1 .. bars[n + 1] - 1 : ~IsNote(page[j])}
        cuts == SetToSortSeq({1} \union {Min(body(n)) : n \in {m \in BarsSplitAt(bars) : body(m) # {}}}, <)
    IN [k \in DOMAIN cuts |-> SubSeq(page, cuts[k], IF k = Len(cuts) THEN Len(page) ELSE cuts[k + 1] - 1)]

SplitPages(pages) == FlattenSeq([k \in DOMAIN pages |-> Split(pages[k])])

-----------------------------------------------------------------------------
\* What is cited on a page, and the notes at its bottom.
Cited(page) == FlattenSeq([i \in DOMAIN page |-> IF page[i].kind = "text" THEN page[i].marks ELSE <<>>])
NotesOn(page) == FlattenSeq([i \in DOMAIN page |-> IF page[i].kind = "footnote" THEN page[i].marks ELSE <<>>])

\* Every page of a file ends with the notes cited on it, in their order and
\* under the numbers shown in the text, and no number stands for two of them:
\* on a page when each page counts from 1, in the book when not (read_docx).
NotesStandWhereCited ==
    ended =>
        LET pages == PagesOf(result)
            numbers(k) == {NotesOn(pages[k])[i][2] : i \in DOMAIN NotesOn(pages[k])}
        IN /\ \A k \in DOMAIN pages :
                /\ NotesOn(pages[k]) = Cited(pages[k])
                /\ restart => numbers(k) = 1 .. Len(NotesOn(pages[k]))
           /\ ~restart => UNION {numbers(k) : k \in DOMAIN pages} = 1 .. cites

\* A file read page by page and one whose notes are attached afterwards, its
\* pages being known, come out the same (read_docx, _attach_docx_notes).
SameEitherWay ==
    ended /\ (\A i \in DOMAIN items : items[i].kind \notin {"continuous", "evenPage", "oddPage"}) =>
        Attached(items) = result

\* A printed page has its text before its notes: no page is left in which text
\* stands between two bars, and splitting loses and moves nothing
\* (_split_merged_pages).
PrintedPagesAreApart ==
    ended =>
        LET pages == PagesOf(result)
            apart == SplitPages(pages)
        IN /\ FlattenSeq(apart) = FlattenSeq(pages)
           /\ \A k \in DOMAIN apart : \A a, b, c \in DOMAIN apart[k] :
                a < b /\ b < c /\ apart[k][a].kind = "bar" /\ apart[k][c].kind = "bar" => IsNote(apart[k][b]) \/ apart[k][b].kind = "bar"

=============================================================================
