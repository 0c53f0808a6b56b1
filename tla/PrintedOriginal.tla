-------------------------- MODULE PrintedOriginal --------------------------
(***************************************************************************)
(* A Word file beside the PDF it was printed as.  The page plan            *)
(* (scripts/convert/pdf_pages.py make_plan): the book's words are found on *)
(* the PDF's pages and cut where the pages begin (doc_to_json_v2.py        *)
(* apply_page_plan).  The page map (workbench/conversion.py page_map): the *)
(* pages of the original that stand beside each page of the book, from the *)
(* ranges the two locators propose (PageRanges).  How two texts are        *)
(* compared is open; the numbers of the pages are left out.                *)
(***************************************************************************)
EXTENDS Integers, Sequences, FiniteSets, SequencesExt, FiniteSetsExt

CONSTANTS
    Texts,          \* texts of the book: sequences of words
    Prints,         \* what is read on the PDF's pages: a sequence of words for each
    Originals,      \* PDFs a book is shown beside: how many pages the PDF and the book have, how far
                    \* it is ahead, what its pages hold of a page's text, which may look alike or
                    \* be proposed for another page, how many pages after its own a page is given,
                    \* and whether the two locators agree
    Window, Slack   \* IN_STEP_WINDOW, IN_STEP_SLACK

VARIABLES
    printed,        \* <<>>, or the one book and its PDF
    paged           \* <<>>, or what was made of them

printVars == <<printed, paged>>

PrintInit == printed = <<>> /\ paged = <<>>

-----------------------------------------------------------------------------
\* make_plan.

\* Where each page's words begin among all that was read; 0 for a page without words.
FirstWords(pages) ==
    [k \in DOMAIN pages |-> IF pages[k] = <<>> THEN 0 ELSE Len(FlattenSeq(SubSeq(pages, 1, k - 1))) + 1]

Once(words, w) == Cardinality({i \in DOMAIN words : words[i] = w}) = 1

\* _chain: the fixed points, [place read, word of the book]: words that are
\* once in each; a longest run of them that agrees on order.
FixedPoints(read, words) ==
    {<<i, j>> \in (DOMAIN read) \X (DOMAIN words) :
        read[i] = words[j] /\ Once(read, read[i]) /\ Once(words, words[j])}

Agree(points) == \A a, b \in points : a[1] < b[1] => a[2] < b[2]

Chains(read, words) ==
    LET runs == {points \in SUBSET FixedPoints(read, words) : Agree(points)}
        most == Max({Cardinality(points) : points \in runs})
    IN {points \in runs : Cardinality(points) = most}

\* _locate: between the fixed points around it, the same word or one in its place.
Locations(o, chain, read, words) ==
    LET low == Max({0} \union {p[2] - 1 : p \in {q \in chain : q[1] <= o}})
        high == Min({Len(words)} \union {p[2] : p \in {q \in chain : q[1] > o}})
    IN {l \in (low .. high) \X BOOLEAN : l[2] => l[1] < Len(words) /\ words[l[1] + 1] = read[o]}

\* A page without words begins where the next one does, or at the end.
Filled(located) ==
    [k \in DOMAIN located |->
        LET after == {j \in k .. Len(located) : located[j] # <<>>} IN
        IF located[k] # <<>> THEN located[k]
        ELSE <<IF after = {} THEN -1 ELSE located[Min(after)][1], FALSE>>]

\* Mutant: every page begins where it was found.
WhereFound(located, size) ==
    [k \in DOMAIN located |-> [at |-> IF located[k][1] = -1 THEN size ELSE located[k][1], sure |-> located[k][2]]]

\* A mismatch does not send the text backwards.
Forwards(located, size) ==
    LET at(k) == IF located[k][1] = -1 THEN size ELSE located[k][1]
        furthest(k) == Max({at(j) : j \in 1 .. k})
    IN [k \in DOMAIN located |->
           [at |-> furthest(k), sure |-> located[k][2] /\ \A j \in 1 .. k - 1 : furthest(j) <= at(k)]]

\* The word each page begins with: at the end there is none, and the last is taken.
Starts(plan, size) == [k \in DOMAIN plan |-> Min({plan[k].at, size - 1}) + 1]

\* apply_page_plan: the words from one start to the next; the first page takes
\* what stands before the second's.
Cut(words, starts) ==
    [k \in DOMAIN starts |->
        LET from == IF k = 1 THEN 1 ELSE starts[k]
            upto == IF k = Len(starts) THEN Len(words) ELSE starts[k + 1] - 1
        IN SubSeq(words, from, upto)]

-----------------------------------------------------------------------------
\* page_map.

Clamp(n, total) == Max({1, Min({n, total})})

OwnPage(b, i) == i + b.ahead

\* How much of page i's text original page n holds: 3 all of it, 2 enough to
\* be sure (SURE_MATCH), 1 less, 0 none; a short page is not judged.
ScoreOf(b, i, n) ==
    LET p == b.pages[i]
        k == n - OwnPage(b, i) + 1
    IN IF p.short THEN 0 ELSE IF k \in DOMAIN p.holds THEN p.holds[k] ELSE IF n = p.alike THEN 2 ELSE 0

\* Of these pages the one that holds most, the nearest to n first.
Best(b, i, candidates, n) ==
    LET distance(c) == IF c > n THEN c - n ELSE n - c
        Better(c, d) == \/ ScoreOf(b, i, c) > ScoreOf(b, i, d)
                        \/ ScoreOf(b, i, c) = ScoreOf(b, i, d) /\ distance(c) < distance(d)
    IN CHOOSE c \in candidates : \A d \in candidates : ~Better(d, c)

Near(n, total, slack) == {m \in n - slack .. n + slack : m \in 1 .. total}

Around(pages, total) == UNION {Near(n, total, 1) : n \in pages}

\* What the locators propose to show: the fullest page by letters, the first
\* and the last by words.
Proposals(p) == (IF p.letters = <<>> THEN <<>> ELSE <<p.letters[3]>>) \o p.words

\* page_map: first, last and shown page; the page shown is proposed, or next to
\* one that is and holds more of the text.
Matched(b, i) ==
    LET p == b.pages[i]
        proposed == Proposals(p)
        best == Best(b, i, Around(Range(proposed), b.total), proposed[1])
        shown == IF ~p.short /\ ScoreOf(b, i, best) > ScoreOf(b, i, proposed[1]) THEN best ELSE proposed[1]
        given == {r \in {p.letters, p.words} : r # <<>>}
    IN IF proposed = <<>> THEN <<>>
       ELSE <<Min({shown} \union {r[1] : r \in given}), Max({shown} \union {r[2] : r \in given}), shown>>

\* The k-th smallest of the offsets of these pages.
Ranked(offsets, pages, k) ==
    CHOOSE v \in {offsets[i] : i \in pages} :
        /\ Cardinality({i \in pages : offsets[i] < v}) < k
        /\ Cardinality({i \in pages : offsets[i] <= v}) >= k

\* statistics.median of the offsets, as a whole number.
Median(offsets, pages) ==
    LET n == Cardinality(pages)
        sum == Ranked(offsets, pages, (n + 1) \div 2) + Ranked(offsets, pages, n \div 2 + 1)
    IN IF sum >= 0 THEN sum \div 2 ELSE -((-sum) \div 2)

Trusted(b, matched) == {i \in DOMAIN matched : matched[i] # <<>> /\ ScoreOf(b, i, matched[i][3]) >= 2}

NearTo(trusted, i) == {j \in trusted : j \in i - Window .. i + Window}

\* Mutant: only the neighbours say where a page should be.
ByNeighbours(b, near, whole) == Near(near, b.total, Slack)

\* The pages compared again: where the neighbours put it, and where the book does.
Compared(b, near, whole) == Near(near, b.total, Slack) \union Near(whole, b.total, Slack)

\* Mutant: a page's text is on one page of the original.
OnOnePage(range, shown) == range # <<>> /\ shown \in range[1] .. range[2] /\ range[2] - range[1] < 1

\* The text spills onto the next page or from the last.
Spills(range, shown) == range # <<>> /\ shown \in range[1] .. range[2] /\ range[2] - range[1] <= 1

\* _keep_in_step: first, last and shown page beside page i; a range that does
\* not have the page shown, or is wider than two pages, is given up.
InStep(b, i, matched, trusted) ==
    LET offsets == [j \in trusted |-> matched[j][3] - j]
        whole == Clamp(i + Median(offsets, trusted), b.total)
        near == NearTo(trusted, i)
        expected == IF near = {} THEN whole ELSE Clamp(i + Median(offsets, near), b.total)
        best == Best(b, i, Compared(b, expected, whole) \union Around(Range(matched[i]), b.total), expected)
        shown == IF b.pages[i].short \/ ScoreOf(b, i, best) = 0 THEN expected ELSE best
    IN IF Spills(matched[i], shown) THEN <<matched[i][1], matched[i][2], shown>> ELSE <<shown, shown, shown>>

\* The map that is served.
PageMap(b) ==
    LET matched == [i \in DOMAIN b.pages |-> Matched(b, i)]
        trusted == Trusted(b, matched)
    IN IF trusted = {} THEN matched
       ELSE [i \in DOMAIN b.pages |-> InStep(b, i, matched, trusted)]

-----------------------------------------------------------------------------

ReadPrint ==
    /\ printed = <<>>
    /\ \E text \in Texts, pages \in Prints : printed' = <<[text |-> text, pdf |-> pages]>>
    /\ UNCHANGED paged

MakePlan ==
    /\ printed # <<>> /\ paged = <<>> /\ "pdf" \in DOMAIN printed[1]
    /\ LET words == printed[1].text
           read == FlattenSeq(printed[1].pdf)
           first == FirstWords(printed[1].pdf)
           Found(k, chain) == IF first[k] = 0 THEN {<<>>} ELSE Locations(first[k], chain, read, words)
       IN \E chain \in Chains(read, words) :
          \E located \in [DOMAIN first -> UNION {Found(k, chain) : k \in DOMAIN first}] :
            /\ \A k \in DOMAIN first : located[k] \in Found(k, chain)
            /\ LET plan == Forwards(Filled(located), Len(words))
                   starts == Starts(plan, Len(words))
               IN paged' = <<[plan |-> plan, pages |-> Cut(words, starts)]>>
    /\ UNCHANGED printed

\* What a locator may answer for a page: nothing, its own page and some after
\* it, or another one.
Ranges(o, own) ==
    {<<>>} \union {<<n, n>> : n \in o.seen \ {0}}
    \union {<<own, own + w>> : w \in {v \in o.after : {own, own + v} \subseteq 1 .. o.total}}

\* A page of a book shown beside its original: short, or its text on its own
\* pages of it or not, and perhaps alike on another; what the locators proposed.
ReadBookPage ==
    \E o \in IF printed = <<>> THEN Originals ELSE {printed[1]} :
        LET read == IF printed = <<>> THEN <<>> ELSE o.pages
            own == Len(read) + 1 + o.ahead
        IN /\ printed # <<>> => "pages" \in DOMAIN o
           /\ Len(read) < o.long
           /\ \E short \in BOOLEAN, holds \in o.holds, alike \in o.seen,
                 letters \in Ranges(o, own), words \in Ranges(o, own) :
                /\ short => holds = <<>> /\ alike = 0
                /\ own + Len(holds) - 1 <= o.total
                /\ alike # 0 => alike \notin own .. own + Len(holds) - 1
                /\ o.agree => words = letters
                /\ \E main \in IF letters = <<>> THEN {<<>>} ELSE {<<n>> : n \in letters[1] .. letters[2]} :
                     printed' = <<[pages |-> Append(read, [short |-> short, holds |-> holds, alike |-> alike,
                                                           letters |-> letters \o main, words |-> words])] @@ o>>
    /\ UNCHANGED paged

MakeMap ==
    /\ printed # <<>> /\ paged = <<>> /\ "pages" \in DOMAIN printed[1]
    /\ Len(printed[1].pages) = printed[1].long
    /\ paged' = <<[map |-> PageMap(printed[1])]>>
    /\ UNCHANGED printed

PrintNext == ReadPrint \/ MakePlan \/ ReadBookPage \/ MakeMap

-----------------------------------------------------------------------------
HasPlan == paged # <<>> /\ "plan" \in DOMAIN paged[1]
HasMap == paged # <<>> /\ "map" \in DOMAIN paged[1]

\* Cut at the plan's pages, the book has all its words once and in order, and a
\* page the plan is sure of begins with the word its printed page begins with,
\* whatever was misread; an empty page is given no word, but for the book's last
\* when the PDF ends with empty pages (make_plan, apply_page_plan).
PlanKeepsTheText ==
    HasPlan =>
        LET words == printed[1].text
            pdf == printed[1].pdf
            pages == paged[1].pages
        IN /\ FlattenSeq(pages) = words
           /\ \A k \in 2 .. Len(pages) :
                paged[1].plan[k].sure /\ pages[k] # <<>> => pages[k][1] = pdf[k][1]
           /\ \A k \in DOMAIN pages :
                (\A j \in k .. Len(pdf) : pdf[j] = <<>>) /\ pages[k] # <<>> => pages[k] = <<Last(words)>> \/ k = 1

Matches(b) == [i \in DOMAIN b.pages |-> Matched(b, i)]

\* Most of the matches that are trusted put the book where it is, and so do
\* most of those around page i, if there are any.
InPlace(b, i) ==
    LET matched == Matches(b)
        trusted == Trusted(b, matched)
        Mostly(pages) == 2 * Cardinality({j \in pages : matched[j][3] = OwnPage(b, j)}) > Cardinality(pages)
    IN Mostly(trusted) /\ (NearTo(trusted, i) = {} \/ Mostly(NearTo(trusted, i)))

\* Where most of the matches that are trusted put the book where it is, every
\* page whose text is on its own page of the original is shown beside it,
\* however much it is like another; a page too short to judge as well, when
\* most of those around it are right (_keep_in_step).
PagesKeepInStep ==
    HasMap =>
        LET b == printed[1]
            matched == Matches(b)
            trusted == Trusted(b, matched)
            Right == {i \in trusted : matched[i][3] = OwnPage(b, i)}
        IN 2 * Cardinality(Right) > Cardinality(trusted) => \A i \in DOMAIN b.pages :
            /\ b.pages[i].holds = <<3>> => paged[1].map[i][3] = OwnPage(b, i)
            /\ b.pages[i].short /\ InPlace(b, i) => paged[1].map[i][3] = Clamp(OwnPage(b, i), b.total)

\* "Every page of the original can be seen next to something" (conversion.py,
\* _locate_by_words), on the map that is served: all pages a locator gave a
\* page of the book stand beside it when no match is trusted, or when they are
\* two at most, its text is on them, and the book is in step around it.  Of a
\* wider range, or one elsewhere, the page shown is left alone (_keep_in_step).
EveryPageIsBeside ==
    HasMap =>
        LET b == printed[1]
            matched == Matches(b)
            map == paged[1].map
            OnThem(i) == LET n == Len(b.pages[i].holds) IN
                n > 0 /\ OwnPage(b, i) .. OwnPage(b, i) + n - 1 \subseteq matched[i][1] .. matched[i][2]
        IN \A i \in {j \in DOMAIN b.pages : matched[j] # <<>>} :
            /\ map[i][3] \in map[i][1] .. map[i][2] /\ map[i][1] >= 1 /\ map[i][2] <= b.total
            /\ \/ Trusted(b, matched) = {}
               \/ matched[i][2] - matched[i][1] <= 1 /\ OnThem(i) /\ InPlace(b, i)
               => \A r \in {b.pages[i].letters, b.pages[i].words} :
                    r # <<>> => r[1] .. r[2] \subseteq map[i][1] .. map[i][2]
=============================================================================
