---------------------------- MODULE WordContents ----------------------------
(***************************************************************************)
(* How a Word file's pages get the numbers the book was printed with       *)
(* (scripts/convert/doc_to_json_v2.py convert_doc without a page plan):    *)
(* the lines of the book's own index are matched with paragraphs, wrong    *)
(* matches are given up, and every page is numbered from what is left.     *)
(* Two steps: the file is read, then it is converted.                      *)
(***************************************************************************)
EXTENDS Integers, Sequences, FiniteSets, SequencesExt, FiniteSetsExt

CONSTANTS
    Files,      \* the files read: sequences of pages, a page a sequence of paragraphs
    Indexes,    \* their indexes: sequences of [title, number]
    Blanks,     \* sets of page numbers the caller says are blank in print
    Fronts,         \* --front-pages: how many pages come before the text
    FirstNumbers,   \* --first-printed: the number of the first after them, without an index
    OutlineRuns,    \* what is styled as an index: an index of another kind, the contents
    Restart, MinBlock,  \* TOC_RESTART, TOC_MIN_BLOCK
    MaxSkip, WrongDistance  \* MAX_NUMBER_SKIP, WRONG_MATCH_DISTANCE

VARIABLES
    file,       \* <<>>, or the one file read
    book        \* <<>>, or what was made of it

contentsVars == <<file, book>>

ContentsInit == file = <<>> /\ book = <<>>

-----------------------------------------------------------------------------
\* Paragraphs: of which title, and how: "exact" and "plain" start with it,
\* "typo" nearly does, "glued" holds it after a line break; "plain" and
\* "glued" are not styled as a heading.  "index" is a line of the index.

Styled(p) == p.how \in {"exact", "typo"}
Starts(p, title) == p.of = title /\ p.how \in {"exact", "plain"}
IsIndexPage(page) == \E i \in DOMAIN page : page[i].how = "index"
Picture == <<[of |-> "none", how |-> "picture"]>>

\* The blank pages the caller states are put in first.
WithBlanks(pages, blanks) ==
    FoldLeft(LAMBDA ps, b : LET at == Min({b, Len(ps) + 1}) IN
                SubSeq(ps, 1, at - 1) \o <<Picture>> \o SubSeq(ps, at, Len(ps)),
             pages, SetToSortSeq(blanks, <))

-----------------------------------------------------------------------------
\* _contents_run: the contents among everything styled as an index.

\* The lines cut where the number falls back sharply.
BlocksOf(lines) ==
    FoldLeft(LAMBDA bs, n : IF n < Last(Last(bs)) - Restart THEN Append(bs, <<n>>)
                            ELSE [bs EXCEPT ![Len(bs)] = Append(@, n)],
             <<<<lines[1]>>>>, Tail(lines))

Ordered(blocks, k) == k <= Len(blocks) /\ Len(blocks[k]) >= MinBlock

\* The last block joined with block i: blocks go on while they begin no lower
\* than what was joined, one disordered block between them passed over.
StretchEnd(blocks, i) ==
    LET low(j) == Min({blocks[i][1]} \union UNION {ToSet(blocks[k]) : k \in i + 1 .. j})
        joins(k, j) == Ordered(blocks, k) /\ blocks[k][1] >= low(j)
        goesOn(j) == /\ j < Len(blocks)
                     /\ joins(j + 1, j) \/ (~Ordered(blocks, j + 1) /\ joins(j + 2, j))
        end == Min({j \in i .. Len(blocks) : ~goesOn(j)})
    IN Max({k \in 1 .. end : Ordered(blocks, k)})

\* The stretches in turn.
Stretches(blocks) ==
    LET from[i \in 1 .. Len(blocks) + 1] ==
            IF i > Len(blocks) THEN <<>>
            ELSE IF ~Ordered(blocks, i) THEN from[i + 1]
            ELSE LET j == StretchEnd(blocks, i)
                 IN <<FlattenSeq(SubSeq(blocks, i, j))>> \o from[j + 1]
    IN from[1]

\* Mutant: the longest.
Length(lines) == <<Len(lines), 0>>

\* What the stretch kept is the largest in: the pages it spans, then its lines.
Size(lines) == <<Max(ToSet(lines)) - Min(ToSet(lines)), Len(lines)>>

Larger(a, b) == Size(a)[1] > Size(b)[1] \/ (Size(a)[1] = Size(b)[1] /\ Size(a)[2] > Size(b)[2])

\* A line the one after it is lower than is no first line.
WithoutStray(lines) ==
    SubSeq(lines, Min({k \in DOMAIN lines : k = Len(lines) \/ lines[k] <= lines[k + 1]}), Len(lines))

ContentsRun(lines) ==
    IF Len(lines) < MinBlock THEN lines
    ELSE LET found == Stretches(BlocksOf(lines)) IN
         IF found = <<>> THEN lines
         ELSE WithoutStray(FoldLeft(LAMBDA best, s : IF Larger(s, best) THEN s ELSE best, found[1], found))

-----------------------------------------------------------------------------
\* anchor_toc: an anchor is [page, number]; heads are the places made headings.

Places(pages) == {<<k, i>> : k \in DOMAIN pages, i \in 1 .. Max({Len(pages[k]) : k \in DOMAIN pages} \union {0})}
PlacesOf(pages) == {q \in Places(pages) : q[2] <= Len(pages[q[1]])}
After(a, b) == a[1] > b[1] \/ (a[1] = b[1] /\ a[2] > b[2])
FirstPlace(places) == CHOOSE a \in places : \A b \in places : a = b \/ After(b, a)

\* Each line in turn, from the paragraph after the last match.
MatchLine(pages, s, line) ==
    LET here == {q \in PlacesOf(pages) : /\ After(q, s.last) /\ ~IsIndexPage(pages[q[1]])
                                         /\ Starts(pages[q[1]][q[2]], line.title)}
    IN IF here = {} THEN [s EXCEPT !.unmatched = Append(@, line)]
       ELSE LET q == FirstPlace(here) IN
            [s EXCEPT !.last = q, !.found = Append(@, [page |-> q[1], number |-> line.number, at |-> q])]

Matched(pages, index) ==
    FoldLeft(LAMBDA s, line : MatchLine(pages, s, line),
             [last |-> <<1, 0>>, found |-> <<>>, unmatched |-> <<>>], index)

AnchorsOf(found) == [i \in DOMAIN found |-> [page |-> found[i].page, number |-> found[i].number]]

Offset(a) == a.page - a.number

\* _drop_outlier_anchors: gone is an anchor off the line of the one kept before it, which the
\* next one is on.
DropOutliers(anchors) ==
    LET Astray(kept, i) ==
            /\ Offset(anchors[i]) # Offset(Last(kept))
            /\ Offset(Last(kept)) = Offset(anchors[i + 1])
    IN IF Len(anchors) < 3 THEN anchors
       ELSE Append(FoldLeft(LAMBDA kept, i : IF Astray(kept, i) THEN kept ELSE Append(kept, anchors[i]),
                            <<anchors[1]>>, [k \in 1 .. Len(anchors) - 2 |-> k + 1]),
                   Last(anchors))

\* Mutant: the numbers only have to rise.
Rises(pages, a, b) == b.page >= a.page /\ b.number >= a.number

\* From anchor a to anchor b: both move on, the file runs ahead of the numbers
\* only by empty pages between, the numbers ahead of the file by MaxSkip.
Fits(pages, a, b) ==
    LET drift == Offset(b) - Offset(a)
        between == Cardinality({k \in a.page + 1 .. b.page - 1 : pages[k] = <<>>})
    IN /\ b.page >= a.page /\ b.number >= a.number
       /\ b.page = a.page => b.number = a.number
       /\ drift \in -MaxSkip .. between

\* _consistent_anchors: the longest chain ending at each anchor, from the ones before.
Consistent(pages, anchors) ==
    IF Len(anchors) < 2 THEN anchors
    ELSE LET best[j \in DOMAIN anchors] ==
                 LET from == {i \in 1 .. j - 1 : Fits(pages, anchors[i], anchors[j])}
                     most == Max({0} \union {Len(best[i]) : i \in from})
                 IN IF most = 0 THEN <<anchors[j]>>
                    ELSE Append(best[Min({i \in from : Len(best[i]) = most})], anchors[j])
             most == Max({Len(best[j]) : j \in DOMAIN anchors})
         IN best[Min({j \in DOMAIN anchors : Len(best[j]) = most})]

Kept(pages, anchors) == Consistent(pages, DropOutliers(anchors))

\* Where a number points, by the anchors at or before it: the page ahead of it.
Ahead(anchors, number) ==
    LET Below(a, b) == a.number < b.number \/ (a.number = b.number /\ Offset(a) < Offset(b))
        sorted == SetToSortSeq(ToSet(anchors), Below)
        before == {i \in DOMAIN sorted : sorted[i].number <= number}
    IN IF sorted = <<>> THEN 0 ELSE Offset(sorted[Max(before \union {1})])

\* _fuzzy_headings: a line no paragraph starts with, among the headings around
\* the page its number points to.
FuzzyLine(pages, anchors, s, line) ==
    LET expected == line.number + Ahead(anchors, line.number)
        near == {q \in PlacesOf(pages) : /\ q[1] \in expected - 1 .. expected + 2 /\ q \notin s.heads
                                         /\ Styled(pages[q[1]][q[2]]) /\ pages[q[1]][q[2]].of = line.title}
    IN IF near = {} THEN [s EXCEPT !.leftovers = Append(@, line @@ [expected |-> expected])]
       ELSE LET q == FirstPlace(near) IN
            [s EXCEPT !.heads = @ \union {q},
                      !.soft = Append(@, [page |-> q[1], number |-> line.number, at |-> q])]

Fuzzy(pages, anchors, heads, unmatched) ==
    FoldLeft(LAMBDA s, line : FuzzyLine(pages, anchors, s, line),
             [heads |-> heads, soft |-> <<>>, leftovers |-> <<>>], unmatched)

InBook(anchors) ==
    SetToSortSeq(anchors, LAMBDA a, b : a.page < b.page \/ (a.page = b.page /\ a.number < b.number))

\* A match that was given up, in plain text far from where its number points, is no heading.
WrongMatches(pages, anchors, found) ==
    LET firsts == {i \in DOMAIN found : \A j \in 1 .. i - 1 :
                    <<found[j].page, found[j].number>> # <<found[i].page, found[i].number>>}
        Anchored(i) == [page |-> found[i].page, number |-> found[i].number] \in ToSet(anchors)
        distance(i) == found[i].page - (found[i].number + Ahead(anchors, found[i].number))
    IN {found[i].at : i \in {j \in firsts : ~Anchored(j) /\ ~Styled(pages[found[j].page][found[j].at[2]])
                                            /\ distance(j) \notin -WrongDistance .. WrongDistance}}

\* Mutant: a title that is nowhere is not put anywhere.
RecoverLineInPlace(pages, s, line) ==
    IF \E q \in PlacesOf(pages) : pages[q[1]][q[2]] = [of |-> line.title, how |-> "glued"]
    THEN [s EXCEPT !.titles = @ \union {<<line.expected, line.title>>}] ELSE s

\* _recover_missing: for each line left over, a heading that holds it, the
\* paragraph it is glued into, or the page its number points to.
RecoverLine(pages, s, line) ==
    LET window == line.expected - 1 .. line.expected + 2
        usable(k) == k \in DOMAIN pages /\ ~IsIndexPage(pages[k])
        heading == {h \in s.titles : h[2] = line.title /\ h[1] \in window /\ usable(h[1])}
        glued == {q \in PlacesOf(pages) : q[1] \in window /\ usable(q[1])
                                          /\ pages[q[1]][q[2]] = [of |-> line.title, how |-> "glued"]}
    IN IF heading # {} THEN s
       ELSE IF glued # {} THEN [s EXCEPT !.titles = @ \union {<<FirstPlace(glued)[1], line.title>>}]
       ELSE IF usable(line.expected)
       THEN [titles |-> s.titles \union {<<line.expected, line.title>>},
             inserted |-> s.inserted \union {line.expected}, lost |-> s.lost]
       ELSE [s EXCEPT !.lost = @ \union {line.title}]

\* The anchors in the end, and what becomes of the titles.
Settled(pages, run, first, fuzzy, anchors) ==
    LET wrong == WrongMatches(pages, anchors, run.found \o fuzzy.soft)
        titles == {<<q[1], pages[q[1]][q[2]].of>> : q \in fuzzy.heads \ wrong}
    IN [matched |-> AnchorsOf(run.found), first |-> first, anchors |-> anchors,
        wrong |-> {pages[q[1]][q[2]].of : q \in wrong}]
       @@ FoldLeft(LAMBDA s, line : RecoverLine(pages, s, line),
                   [titles |-> titles, inserted |-> {}, lost |-> {}], fuzzy.leftovers)

Anchored(pages, run) ==
    LET first == Kept(pages, AnchorsOf(run.found))
        fuzzy == Fuzzy(pages, first, {run.found[i].at : i \in DOMAIN run.found}, run.unmatched)
    IN Settled(pages, run, first, fuzzy,
               Kept(pages, InBook(ToSet(first) \union ToSet(AnchorsOf(fuzzy.soft)))))

\* What starts with its title, then what nearly does, then what is left over.
AnchorToc(pages, index) == Anchored(pages, Matched(pages, index))

-----------------------------------------------------------------------------
\* The numbers of the pages.

\* artifact_pages: empty pages the numbers passed over.
Artifacts(pages, anchors) ==
    UNION {LET a == anchors[i]
               b == anchors[i + 1]
               empty == SetToSortSeq({k \in a.page + 1 .. b.page - 1 : pages[k] = <<>>}, <)
           IN ToSet(SubSeq(empty, 1, Min({Len(empty), Max({0, Offset(b) - Offset(a)})})))
           : i \in 1 .. Len(anchors) - 1}

\* page_labels: by the latest anchor at or before the page, or by the first.
LabelOf(anchors, page) ==
    LET before == {i \in DOMAIN anchors : anchors[i].page <= page}
    IN page - Offset(anchors[Max(before \union {1})])

\* The anchors counting the blank pages before them.
Restated(anchors, blanks) ==
    [i \in DOMAIN anchors |-> [anchors[i] EXCEPT !.number = @ + Cardinality({b \in blanks : b < anchors[i].page})]]

\* Mutant: the anchors stay where they were.
Unshifted(anchors, dropped) == anchors

\* The anchors where they are once pages were dropped.
Shifted(anchors, dropped) ==
    [i \in DOMAIN anchors |-> [anchors[i] EXCEPT !.page = @ - Cardinality({d \in dropped : d < anchors[i].page})]]

\* Pages with a title put on them are no longer empty.
Filled(pages, inserted) == [k \in DOMAIN pages |-> IF k \in inserted THEN Append(pages[k], "title") ELSE pages[k]]

NoToc == [matched |-> <<>>, first |-> <<>>, anchors |-> <<>>, wrong |-> {}, titles |-> {}, inserted |-> {}, lost |-> {}]

TocOf(pages, index) ==
    IF \E k \in DOMAIN pages : IsIndexPage(pages[k]) THEN AnchorToc(pages, index) ELSE NoToc

\* build_abx and _printed_number: a front page is known by its place, another by the
\* digits of its label, whose sign is lost.
Printed(labels, front) ==
    [k \in DOMAIN labels |-> IF k <= front THEN k ELSE IF labels[k] < 0 THEN -labels[k] ELSE labels[k]]

\* parse_body: neighbours with one number are one page, "of" pages of the file.
Joined(printed) ==
    FoldLeft(LAMBDA ps, k : IF ps # <<>> /\ Last(ps).number = printed[k]
                            THEN [ps EXCEPT ![Len(ps)].of = @ \union {k}]
                            ELSE Append(ps, [number |-> printed[k], of |-> {k}]),
             <<>>, [k \in DOMAIN printed |-> k])

\* The book's pages: its first ones are front matter, numbered on their own (0.1, 0.2 ...).
BookPages(labels, front) ==
    LET ps == Joined(Printed(labels, front))
    IN [i \in DOMAIN ps |-> [front |-> i <= front, number |-> IF i <= front THEN i ELSE ps[i].number, of |-> ps[i].of]]

Numbered(pages, toc, blanks, front, firstPrinted) ==
    LET restated == Restated(toc.anchors, blanks)
        dropped == Artifacts(Filled(pages, toc.inserted), restated)
        anchors == Shifted(restated, dropped)
        labels == [k \in 1 .. Len(pages) - Cardinality(dropped) |->
                      IF anchors = <<>> THEN firstPrinted + (k - front - 1) ELSE LabelOf(anchors, k)]
    IN [pages |-> pages, toc |-> toc, anchors |-> anchors, dropped |-> dropped, front |-> front,
        labels |-> labels, made |-> BookPages(labels, front)]

Paged(pages, read, front, firstPrinted) ==
    Numbered(pages, TocOf(pages, read.index), read.blanks, front, firstPrinted)

Converted(read, front, firstPrinted) == Paged(WithBlanks(read.pages, read.blanks), read, front, firstPrinted)

-----------------------------------------------------------------------------

ReadFile ==
    /\ file = <<>> /\ book = <<>>
    /\ \E pages \in Files, blanks \in Blanks : file' = <<[pages |-> pages, blanks |-> blanks]>>
    /\ UNCHANGED book

ReadIndex ==
    /\ file = <<>> /\ book = <<>>
    /\ \E run \in OutlineRuns : file' = <<[run |-> run]>>
    /\ UNCHANGED book

Convert ==
    /\ file # <<>> /\ book = <<>> /\ "pages" \in DOMAIN file[1]
    /\ \E index \in Indexes, front \in Fronts, first \in FirstNumbers :
        LET read == file[1] @@ [index |-> index] IN book' = <<Converted(read, front, first) @@ read>>
    /\ UNCHANGED file

\* The contents stand before or after the other index.
FindContents ==
    /\ file # <<>> /\ book = <<>> /\ "run" \in DOMAIN file[1]
    /\ \E contents \in OutlineRuns, before \in BOOLEAN :
        LET lines == IF before THEN contents \o file[1].run ELSE file[1].run \o contents
        IN book' = <<[contents |-> contents, other |-> file[1].run, lines |-> lines, run |-> ContentsRun(lines)]>>
    /\ UNCHANGED file

ContentsNext == ReadFile \/ ReadIndex \/ Convert \/ FindContents

-----------------------------------------------------------------------------
HasPages == book # <<>> /\ "labels" \in DOMAIN book[1]

\* Both can be true of the print: from a to b as many numbers as pages, but for
\* the empty ones, or up to MaxSkip more.
BothTrue(pages, a, b) ==
    LET full == {k \in a.page + 1 .. b.page : k = b.page \/ pages[k] # <<>>}
    IN IF a.page = b.page THEN a.number = b.number
       ELSE /\ a.page < b.page /\ a.number <= b.number
            /\ b.number - a.number \in Cardinality(full) .. b.page - a.page + MaxSkip

IsChain(pages, anchors) == \A i \in 1 .. Len(anchors) - 1 : BothTrue(pages, anchors[i], anchors[i + 1])

\* Of what matched, no larger set of anchors could all be true: what is given
\* up is given up only for a longer chain (_consistent_anchors).
ChainIsLargest ==
    HasPages =>
        LET all == DropOutliers(book[1].toc.matched)
        IN /\ IsChain(book[1].pages, book[1].toc.first)
           /\ \A some \in SUBSET DOMAIN all :
                LET chain == [i \in 1 .. Cardinality(some) |-> all[SetToSortSeq(some, <)[i]]]
                IN IsChain(book[1].pages, chain) => Len(chain) <= Len(book[1].toc.first)

\* In the book that is made every page an index line was kept for bears its number, blank
\* pages counted, unless it is front matter or was joined to it; the numbers rise from page
\* to page, but for pages that come so long before page 1 that their labels are negative;
\* and pages of the file become one page only when their labels stand still, after an empty
\* page that a title was put on, or when the last front page is numbered like the text's
\* first (page_labels, artifact_pages, build_abx, _printed_number, parse_body).
NumbersAreThePrints ==
    HasPages =>
        LET b == book[1] IN
        /\ \A i \in DOMAIN b.anchors :
            \E p \in ToSet(b.made) : b.anchors[i].page \in p.of /\ (p.front \/ p.number = b.anchors[i].number)
        /\ \A i \in 1 .. Len(b.made) - 1 :
            ~b.made[i].front => \/ b.made[i].number < b.made[i + 1].number
                                \/ \E k \in b.made[i].of : b.labels[k] < 0
        /\ \A p \in ToSet(b.made), k \in DOMAIN b.labels :
            {k, k + 1} \subseteq p.of =>
                \/ k = b.front
                \/ b.labels[k] = b.labels[k + 1] /\ \E n \in b.toc.inserted : b.pages[n] = <<>>

\* No line of the index is lost unseen: its title is a heading somewhere, or is
\* reported as not placed, or its match was given up as a wrong one (anchor_toc,
\* _recover_missing).
EveryLineIsPlaced ==
    HasPages /\ book[1].toc.matched # <<>> =>
        \A i \in DOMAIN book[1].index :
            LET title == book[1].index[i].title IN
            \/ \E h \in book[1].toc.titles : h[2] = title
            \/ title \in book[1].toc.lost \union book[1].toc.wrong

Span(lines) == Max(ToSet(lines)) - Min(ToSet(lines))
Rising(lines) == \A i \in 1 .. Len(lines) - 1 : lines[i] <= lines[i + 1]

\* The contents, which rise and span more pages than the other index, are kept
\* whole wherever they stand (_contents_run).
ContentsAreFound ==
    book # <<>> /\ "run" \in DOMAIN book[1] =>
        LET b == book[1] IN
        Rising(b.contents) /\ Len(b.contents) >= MinBlock /\ Span(b.contents) > Span(b.other)
        => \E i \in 1 .. Len(b.run) - Len(b.contents) + 1 : SubSeq(b.run, i, i + Len(b.contents) - 1) = b.contents
=============================================================================
