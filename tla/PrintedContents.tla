--------------------------- MODULE PrintedContents ---------------------------
(***************************************************************************)
(* The printed contents list at work on a Word file                        *)
(* (scripts/convert/doc_to_json_v2.py): a list that Word laid on one page  *)
(* gets the pages it was printed on (_split_toc_pages), chapter titles get *)
(* the rest of their lines (_complete_chapter_titles), and the titles a    *)
(* list read from a PDF names become headings (mark_contents_headings).    *)
(***************************************************************************)
EXTENDS Integers, Sequences, FiniteSets, SequencesExt, FiniteSetsExt, TLC

CONSTANTS
    TocPages,       \* a page with contents lines: how many, and its heading's number in the list (0: none)
    MaxPages,       \* bound: pages of such a file
    Leaves,         \* a page of paragraphs: what each of its pieces begins with, heading, note, wraps
    Lists,          \* contents lists: the title and the page of each entry
    LinesMin, LinesPerPage, LookAhead   \* 20, 5, 5

VARIABLES
    layout,         \* <<>>, or the pages that were read
    laid            \* <<>>, or what was made of them

contentsVars == <<layout, laid>>

PaperInit == layout = <<>> /\ laid = <<>>

-----------------------------------------------------------------------------
\* _split_toc_pages.

Numbered(pages, k) == {j \in k + 1 .. Len(pages) : j <= k + LookAhead /\ pages[j].number # 0}

\* How many more pages the list takes than it has; 0 when it is not to be split.
Extra(pages, k) ==
    IF pages[k].lines < LinesMin \/ pages[k].number = 0 \/ Numbered(pages, k) = {} THEN 0
    ELSE LET j == Min(Numbered(pages, k))
             extra == (pages[j].number - pages[k].number) - (j - k)
         IN IF 0 < extra /\ extra <= pages[k].lines \div LinesPerPage THEN extra ELSE 0

\* Mutant: the lines are shared out rounding down.
RoundedDown(lines, n) == Max({1, lines \div n})
\* Its lines are all one height, so they are shared out evenly.
LinesEach(lines, n) == (lines + n - 1) \div n

\* A page as the pages it becomes: [of, lines], the lines it shows; the last can be empty.
AsPrinted(pages, k) ==
    LET lines == pages[k].lines
        n == Extra(pages, k) + 1
        size == LinesEach(lines, n)
        chunks == (lines + size - 1) \div size
    IN IF n = 1 THEN <<[of |-> k, lines |-> [i \in 1 .. lines |-> i]]>>
       ELSE [c \in 1 .. chunks |->
                [of |-> k, lines |-> SubSeq([i \in 1 .. lines |-> i], (c - 1) * size + 1, Min({c * size, lines}))]]
            \o [c \in 1 .. n - chunks |-> [of |-> k, lines |-> <<>>]]

SplitTocPages(pages) == FlattenSeq([k \in DOMAIN pages |-> AsPrinted(pages, k)])

-----------------------------------------------------------------------------
\* _complete_chapter_titles: a title takes the following lines that are in the list.

Wrapped(leaf, i) ==
    {j \in i + 1 .. Len(leaf) : \A n \in i + 1 .. j : leaf[n].wraps /\ ~leaf[n].heading}

Completed(leaf) ==
    [i \in DOMAIN leaf |->
        IF leaf[i].heading
        THEN [leaf[i] EXCEPT !.pieces = FlattenSeq([j \in 1 .. Cardinality(Wrapped(leaf, i)) + 1 |-> leaf[i + j - 1].pieces])]
        ELSE IF \E h \in DOMAIN leaf : leaf[h].heading /\ i \in Wrapped(leaf, h)
        THEN [leaf[i] EXCEPT !.pieces = <<>>] ELSE leaf[i]]

-----------------------------------------------------------------------------
\* mark_contents_headings.

\* The paragraphs of a page that begin with a title, and are not headings yet.
Beginning(leaf, title) ==
    {i \in DOMAIN leaf : ~leaf[i].heading /\ ~leaf[i].note /\ leaf[i].pieces # <<>> /\ title \in leaf[i].pieces[1]}

\* The page the entry gives, or the one before, or the one after; 0 when not found.
PageOfEntry(leaves, entry) ==
    LET tries == <<entry.page, entry.page - 1, entry.page + 1>>
        good == {t \in DOMAIN tries : tries[t] \in DOMAIN leaves /\ Beginning(leaves[tries[t]], entry.title) # {}}
    IN IF good = {} THEN 0 ELSE tries[Min(good)]

\* A title run into the text is cut off it; a line of its own becomes the heading.
Marked(leaf, title) ==
    LET i == Min(Beginning(leaf, title))
        p == leaf[i]
    IN SubSeq(leaf, 1, i - 1)
       \o <<[p EXCEPT !.pieces = <<p.pieces[1]>>, !.heading = TRUE]>>
       \o (IF Len(p.pieces) > 1 THEN <<[p EXCEPT !.pieces = Tail(@)]>> ELSE <<>>)
       \o SubSeq(leaf, i + 1, Len(leaf))

MarkEntry(entry, made) ==
    LET k == PageOfEntry(made.leaves, entry) IN
    IF k = 0 THEN [made EXCEPT !.unmatched = Append(@, entry)]
    ELSE [made EXCEPT !.leaves = [@ EXCEPT ![k] = Marked(@, entry.title)],
                      !.marked = Append(@, [title |-> entry.title, page |-> k, given |-> entry.page])]

MarkHeadings(leaves, list) ==
    FoldLeft(LAMBDA made, entry : MarkEntry(entry, made), [leaves |-> leaves, unmatched |-> <<>>, marked |-> <<>>], list)

-----------------------------------------------------------------------------
ReadTocPage ==
    /\ laid = <<>>
    /\ IF layout = <<>> THEN \E p \in TocPages : layout' = <<[toc |-> <<p>>]>>
       ELSE /\ "toc" \in DOMAIN layout[1] /\ Len(layout[1].toc) < MaxPages
            /\ \E p \in TocPages : layout' = <<[toc |-> Append(layout[1].toc, p)]>>
    /\ UNCHANGED laid

SplitToc ==
    /\ layout # <<>> /\ laid = <<>> /\ "toc" \in DOMAIN layout[1]
    /\ laid' = <<[pages |-> SplitTocPages(layout[1].toc)]>>
    /\ UNCHANGED layout

ReadLeaves ==
    /\ layout = <<>>
    /\ \E first, second \in Leaves : layout' = <<[leaves |-> <<first, second>>]>>
    /\ UNCHANGED laid

\* A book that is read by its own contents, and one that is read by a PDF's.
CompleteTitles ==
    /\ layout # <<>> /\ laid = <<>> /\ "leaves" \in DOMAIN layout[1]
    /\ laid' = <<[leaves |-> [k \in DOMAIN layout[1].leaves |-> Completed(layout[1].leaves[k])],
                  list |-> <<>>, marked |-> <<>>, unmatched |-> <<>>]>>
    /\ UNCHANGED layout

Mark ==
    /\ layout # <<>> /\ laid = <<>> /\ "leaves" \in DOMAIN layout[1]
    /\ \E list \in Lists : laid' = <<MarkHeadings(layout[1].leaves, list) @@ [list |-> list]>>
    /\ UNCHANGED layout

PaperNext == ReadTocPage \/ SplitToc \/ ReadLeaves \/ CompleteTitles \/ Mark

-----------------------------------------------------------------------------
\* A contents list laid on one page is given the pages it was printed on: from
\* its heading to the next one there are as many pages as their numbers say,
\* every line once and in order; other pages stay as they are (_split_toc_pages).
TocTakesItsPages ==
    laid # <<>> /\ "pages" \in DOMAIN laid[1] =>
        LET pages == layout[1].toc
            out == laid[1].pages
            First(k) == Min({i \in DOMAIN out : out[i].of = k})
        IN /\ \A k \in DOMAIN pages :
                /\ FlattenSeq([i \in DOMAIN out |-> IF out[i].of = k THEN out[i].lines ELSE <<>>])
                        = [i \in 1 .. pages[k].lines |-> i]
                /\ Extra(pages, k) > 0 =>
                        LET j == Min(Numbered(pages, k))
                        IN First(j) - First(k) = pages[j].number - pages[k].number
           /\ \A i, j \in DOMAIN out : i < j => out[i].of <= out[j].of

\* Marking headings moves, doubles or loses nothing of the text; each entry of
\* the list marks a paragraph of its own, on the page it gives or next to it, or
\* is reported as not found (_complete_chapter_titles, mark_contents_headings).
EntriesAreMarked ==
    laid # <<>> /\ "leaves" \in DOMAIN laid[1] =>
        LET Text(leaves) == FlattenSeq([k \in DOMAIN leaves |-> FlattenSeq([i \in DOMAIN leaves[k] |-> leaves[k][i].pieces])])
            Headings(leaves) == SumSet({100 * k + Cardinality({i \in DOMAIN leaves[k] : leaves[k][i].heading}) : k \in DOMAIN leaves})
            made == laid[1]
        IN /\ Text(made.leaves) = Text(layout[1].leaves)
           /\ Headings(made.leaves) = Headings(layout[1].leaves) + Len(made.marked)
           /\ Len(made.marked) + Len(made.unmatched) = Len(made.list)
           /\ \A n \in DOMAIN made.marked : made.marked[n].page - made.marked[n].given \in -1 .. 1

PrintedContentsHold == TocTakesItsPages /\ EntriesAreMarked
=============================================================================
