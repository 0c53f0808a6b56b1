----------------------------- MODULE PageRanges -----------------------------
(***************************************************************************)
(* Which pages of the original stand beside each page of a converted book  *)
(* (workbench/conversion.py, _locate_by_words and _locate_by_letters): each *)
(* page's first and last word are looked for from where the page before it *)
(* ended, and the pages nobody claims are shared out.  The two locators     *)
(* differ in their numbers alone; what a search finds, within its reach, is *)
(* open.  A unit is a word, or a letter.  page_map goes on from their       *)
(* answers (PrintedOriginal).                                               *)
(***************************************************************************)
EXTENDS Integers, Sequences, FiniteSets, FiniteSetsExt

CONSTANTS
    BookPages,      \* books: how many units each of their pages has
    PdfPages,       \* originals: how many units are read on each of their pages
    Locators        \* [run, slips, reach, slack, tail, ranked]: units in a run looked for, how many
                    \* further runs are tried, how far ahead, how far off an ending, the units of
                    \* a run after the place it gives, and whether the fullest page is told

VARIABLES
    beside,         \* <<>>, or the book, its original and the locator
    spans,          \* the place of the first and last unit of each page so far; <<>> for none
    cursor, skipped,
    ranges          \* the locator's answer: first, last and shown page of each page; <<>> for none

rangesVars == <<beside, spans, cursor, skipped, ranges>>

RangesInit == beside = <<>> /\ spans = <<>> /\ cursor = 0 /\ skipped = 0 /\ ranges = <<>>

Units(lengths) == FoldFunction(+, 0, lengths)

Open == beside[1]
Size == Units(Open.pdf)

\* page_of: the page a place of the stream is on.
PageOf(place) == Min({n \in DOMAIN Open.pdf : Units(SubSeq(Open.pdf, 1, n)) > place})

\* A scanned original has barely any text: its pages are paired by number.
Scanned(o) == Units(o.pdf) = 0 \/ Units(o.pdf) < Units(o.book) \div 5

Least(a, b) == IF a < b THEN a ELSE b

\* find: the runs near one end of a page that is n units long.
Tries(n) == Least(Open.by.slips, n - Open.by.run)

\* Where the page can be found to begin: an early run may be the one that is damaged.
Beginnings(n) ==
    IF n < Open.by.run THEN {}
    ELSE {Max({0, place - k}) :
            place \in cursor .. Least(cursor + Open.by.reach + (3 * skipped) \div 2, Size - Open.by.run),
            k \in 0 .. Tries(n)}

Expected(start, n) == start + n - 1

\* Mutant: an ending is good wherever it is found.
AnyEnding(start, n) ==
    {Least(place + Open.by.tail + k, Size - 1) : place \in 0 .. Size - Open.by.run, k \in 0 .. Tries(n)}

\* And to end: one found far from where its length puts it is another page's.
Endings(start, n) ==
    {Least(place + Open.by.tail + k, Size - 1) :
        place \in Max({start, Expected(start, n) - Open.by.slack})
                  .. Least(Expected(start, n) + Open.by.slack, Size - Open.by.run),
        k \in 0 .. Tries(n)}

\* A page ends before the next located page begins.
Trimmed ==
    [i \in DOMAIN spans |->
        LET next == {j \in DOMAIN spans : j > i /\ spans[j] # <<>>} IN
        IF spans[i] = <<>> \/ next = {} THEN spans[i]
        ELSE <<spans[i][1], Max({spans[i][1], Least(spans[i][2], spans[Min(next)][1] - 1)})>>]

\* main_page: the page holding most of the span, the first of those.
MainPage(span) ==
    LET held(k) == Cardinality({place \in span[1] .. span[2] : PageOf(place) = k})
    IN CHOOSE n \in DOMAIN Open.pdf :
          \A m \in DOMAIN Open.pdf : held(m) < held(n) \/ (held(m) = held(n) /\ n <= m)

Located ==
    [i \in DOMAIN spans |->
        LET span == Trimmed[i] IN
        IF span = <<>> THEN <<>>
        ELSE <<PageOf(span[1]), PageOf(span[2]), IF Open.by.ranked THEN MainPage(span) ELSE PageOf(span[1])>>]

\* A run of pages not located takes, in order, the pages between its neighbours.
SharedOut(given) ==
    [i \in DOMAIN given |->
        IF given[i] # <<>> THEN given[i]
        ELSE LET before == {j \in DOMAIN given : j < i /\ given[j] # <<>>}
                 after == {j \in DOMAIN given : j > i /\ given[j] # <<>>}
                 from == IF before = {} THEN 1 ELSE Max(before) + 1
                 run == (IF after = {} THEN Len(given) + 1 ELSE Min(after)) - from
                 first == IF before = {} THEN 1 ELSE given[Max(before)][2] + 1
                 last == IF after = {} THEN Len(Open.pdf) ELSE given[Min(after)][1] - 1
                 free == last - first + 1
                 a == first + ((i - from) * free) \div run
                 b == first + ((i - from + 1) * free) \div run - 1
             IN IF free < 1 THEN <<>> ELSE <<a, Max({a, b}), a>>]

\* Mutant: a page between two ranges is nobody's.
AsFound(given) == given

\* A page between two consecutive ranges is shown with the page before it.
Closed(given) ==
    [i \in DOMAIN given |->
        IF /\ i < Len(given) /\ given[i] # <<>> /\ given[i + 1] # <<>>
           /\ given[i + 1][1] - given[i][2] > 1
        THEN <<given[i][1], given[i + 1][1] - 1, given[i][3]>>
        ELSE given[i]]

-----------------------------------------------------------------------------

OpenBoth ==
    /\ beside = <<>>
    /\ \E book \in BookPages, pdf \in PdfPages, by \in Locators : beside' = <<[book |-> book, pdf |-> pdf, by |-> by]>>
    /\ UNCHANGED <<spans, cursor, skipped, ranges>>

ToLocate == beside # <<>> /\ ~Scanned(Open) /\ Len(spans) < Len(Open.book)

NotFound ==
    /\ ToLocate
    /\ spans' = Append(spans, <<>>)
    /\ skipped' = skipped + Open.book[Len(spans) + 1]
    /\ UNCHANGED <<beside, cursor, ranges>>

Found ==
    /\ ToLocate
    /\ LET n == Open.book[Len(spans) + 1] IN
       \E start \in Beginnings(n) :
          \/ \E end \in Endings(start, n) : spans' = Append(spans, <<start, end>>) /\ cursor' = end + 1
          \/ \* its ending is damaged: an estimate, that leaves the next page findable
             /\ spans' = Append(spans, <<start, Least(Expected(start, n), Size - 1)>>)
             /\ cursor' = start + (4 * n) \div 5
    /\ skipped' = 0
    /\ UNCHANGED <<beside, ranges>>

GiveRanges ==
    /\ beside # <<>> /\ ~Scanned(Open) /\ Len(spans) = Len(Open.book) /\ ranges = <<>>
    /\ ranges' = Closed(SharedOut(Located))
    /\ UNCHANGED <<beside, spans, cursor, skipped>>

RangesNext == OpenBoth \/ NotFound \/ Found \/ GiveRanges

-----------------------------------------------------------------------------
\* "A rendered page between two consecutive pages' ranges is shown with the page
\* before it" (_locate_by_words), in a locator's answer: from the page beside
\* the book's first located page to the last one claimed, none is left out; the
\* page told is in its range, and where no page was found to begin before the
\* one before it the ranges are in order.
NoneBetweenIsLeftOut ==
    LET claimed == {i \in DOMAIN ranges : ranges[i] # <<>>}
        found == {i \in DOMAIN spans : spans[i] # <<>>}
        Forward == \A i, j \in found : i < j => spans[i][1] < spans[j][1]
    IN ranges # <<>> =>
        /\ \A i \in claimed : ranges[i][3] \in ranges[i][1] .. ranges[i][2] /\ ranges[i][2] <= Len(Open.pdf)
        /\ Forward =>
            /\ \A i, j \in claimed : i < j => ranges[i][1] <= ranges[j][1] /\ ranges[i][2] <= ranges[j][2]
            /\ claimed # {} =>
                \A n \in ranges[Min(claimed)][1] .. ranges[Max(claimed)][2] :
                    \E i \in claimed : n \in ranges[i][1] .. ranges[i][2]
=============================================================================
