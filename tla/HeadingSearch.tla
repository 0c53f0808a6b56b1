---------------------------- MODULE HeadingSearch ----------------------------
(***************************************************************************)
(* Search in the tables of contents (toc_search_service.py): the matching  *)
(* headings of published books, as many as the cap, ranked and read page   *)
(* by page while the panel hides and shows books.  The statement takes the *)
(* candidates in no order: over the cap, which ones is the database's      *)
(* choice at every page.                                                   *)
(***************************************************************************)
EXTENDS Naturals, Sequences, SequencesExt, FiniteSets, FiniteSetsExt

CONSTANTS
    Headings,   \* of each one [book, ord, like, length]; like: "exact", "prefix" or "words"
    Filtered,   \* those that pass the filters of the request
    Cap,        \* _CANDIDATE_CAP
    Limit, MaxChanges

VARIABLES
    hidden,     \* books that are not published
    walk,       \* [filters, pages]: the answers so far, [hits, total, capped]
    changes     \* since the walk began; bound

headingVars == <<hidden, walk, changes>>

Ids == DOMAIN Headings
BooksOf == {Headings[h].book : h \in Ids}

HeadingAssumption == Filtered \subseteq Ids /\ Cap > 0 /\ Limit > 0

HeadingsInit ==
    /\ hidden \in SUBSET BooksOf
    /\ walk \in [filters : BOOLEAN, pages : {<<>>}]
    /\ changes = 0

Shown == {h \in Ids : Headings[h].book \notin hidden}
Matching == IF walk.filters THEN Shown \cap Filtered ELSE Shown

\* What LIMIT may leave of S.
Capped(S) == IF Cardinality(S) <= Cap THEN {S} ELSE kSubset(Cap, S)

\* Mutant: the filters are applied to the candidates.
FilteredLate == IF walk.filters THEN {S \cap Filtered : S \in Capped(Shown)} ELSE Capped(Shown)

\* The filters stand inside the capped statement.
Candidates == Capped(Matching)

Likeness(h) == CASE Headings[h].like = "exact" -> 0 [] Headings[h].like = "prefix" -> 1 [] OTHER -> 2

\* ORDER BY: equal, then beginning with the phrase, then the shorter, then by place.
Before(g, h) ==
    LET key(x) == <<Likeness(x), Headings[x].length, Headings[x].book, Headings[x].ord>>
    IN \E i \in 1 .. 4 : key(g)[i] < key(h)[i] /\ \A j \in 1 .. i - 1 : key(g)[j] = key(h)[j]

Ranked(S) == SetToSortSeq(S, Before)

Past == [hits |-> <<>>, total |-> 0, capped |-> FALSE]

\* The rows of the page, and the count that every row carries: without a row it is lost.
Page(number, S) ==
    LET from == (number - 1) * Limit
        hits == SubSeq(Ranked(S), from + 1, Min({from + Limit, Cardinality(S)}))
    IN IF hits = <<>> THEN Past
       ELSE [hits |-> hits, total |-> Cardinality(S), capped |-> Cardinality(S) >= Cap]

Ended == walk.pages # <<>> /\ Last(walk.pages) = Past

\* The next page; a client stops at an empty one (external).
SearchToc ==
    /\ ~Ended
    /\ \E S \in Candidates : walk' = [walk EXCEPT !.pages = Append(@, Page(Len(@) + 1, S))]
    /\ UNCHANGED <<hidden, changes>>

\* The panel hides or shows a book.
Toggle(b) ==
    /\ changes < MaxChanges
    /\ hidden' = IF b \in hidden THEN hidden \ {b} ELSE hidden \cup {b}
    /\ changes' = IF walk.pages = <<>> THEN 0 ELSE changes + 1
    /\ UNCHANGED walk

HeadingsNext == SearchToc \/ \E b \in BooksOf : Toggle(b)

-----------------------------------------------------------------------------
Heard == FlattenSeq([i \in DOMAIN walk.pages |-> walk.pages[i].hits])
Counts == {walk.pages[i].total : i \in {j \in DOMAIN walk.pages : walk.pages[j] # Past}}

\* "applied inside the capped set, so a filtered search stays exact"
\* (toc_search_service.py): while no more headings match than the cap, the pages tell
\* every one of them once, the best first, and how many there are, however many more
\* the same words match outside the filters.
ExactUnderTheCap ==
    changes = 0 /\ Cardinality(Matching) <= Cap =>
        /\ IsPrefix(Heard, Ranked(Matching))
        /\ Ended => Len(Heard) = Cardinality(Matching)
        /\ Counts \subseteq {Cardinality(Matching)}

\* A page that has hits says so when it was made of fewer headings than match.
CapIsTold ==
    changes = 0 => \A i \in DOMAIN walk.pages :
        LET page == walk.pages[i] IN
        page # Past /\ page.total < Cardinality(Matching) => page.capped
=============================================================================
