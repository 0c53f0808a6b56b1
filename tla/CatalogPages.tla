----------------------------- MODULE CatalogPages -----------------------------
(***************************************************************************)
(* The catalog page by page (app/services/catalog_service.py list_works,   *)
(* list_books): a client walks a list while the panel shows and hides      *)
(* volumes.  A request counts, then reads its page; the order of rows that *)
(* the ORDER BY does not tell apart is the database's, each time anew.     *)
(***************************************************************************)
EXTENDS Integers, Sequences, FiniteSets, SequencesExt, FiniteSetsExt

CONSTANTS
    Works,          \* each work: its title and its author's name as words, its volumes and,
                    \* on the featured shelf, its place (0: not featured)
    Shown,          \* the volumes published at first: <<work, volume>>
    Lists,          \* what clients ask for: [kind, query], kind "works", "featured" or "books"
    Limit,
    MaxChanges      \* bound: volumes that are not as they were at first

VARIABLES
    published,      \* the volumes that are published
    walk,           \* the list a client walks, the page it is at, and what it got
    stood, ever,    \* what was listed all through the walk, and at any time in it
    entered, left   \* what was listed, or was no longer, since the walk began

pagesVars == <<published, walk, stood, ever, entered, left>>

PagesInit == published = Shown /\ walk = <<>> /\ stood = {} /\ ever = {} /\ entered = FALSE /\ left = FALSE

-----------------------------------------------------------------------------
Holds(title, phrase) == \E i \in 0 .. Len(title) - Len(phrase) : SubSeq(title, i + 1, i + Len(phrase)) = phrase

\* _matches_title_or_author: every word is in the title or the author's name.
\* (A volume's title is its work's.)
Matching(w, query) == ToSet(query) \subseteq ToSet(Works[w].title) \union ToSet(Works[w].author)

\* list_works: what a query finds is ranked.
Rank(w, query) ==
    LET title == Works[w].title IN
    IF title = query THEN 0
    ELSE IF SubSeq(title, 1, Len(query)) = query THEN 1
    ELSE IF Holds(title, query) THEN 2
    ELSE IF ToSet(query) \subseteq ToSet(title) THEN 3 ELSE 4

\* A work with a published volume, as volume 0.
WorkEntries(list) ==
    {<<w, 0>> : w \in {v \in DOMAIN Works :
        /\ \E n \in Works[v].volumes : <<v, n>> \in published
        /\ list.kind = "featured" => Works[v].place # 0
        /\ Matching(v, list.query)}}

\* A published volume, under any title.
BookEntries == published

Entries(list) == IF list.kind = "books" THEN BookEntries ELSE WorkEntries(list)

\* Mutant: the best match first, and no more is said.
RankAlone(list, e) == IF list.query # <<>> THEN <<Rank(e[1], list.query)>> ELSE Works[e[1]].title

\* The ORDER BY of each list, as the numbers it compares in turn.
Key(list, e) ==
    LET title == Works[e[1]].title IN
    IF list.kind = "books" THEN title \o <<0, e[2]>>
    ELSE IF list.query # <<>> THEN <<Rank(e[1], list.query), Len(title)>> \o title
    ELSE IF list.kind = "featured" THEN <<Works[e[1]].place>> \o title
    ELSE title

Before(k, l) ==
    \/ Len(k) < Len(l) /\ k = SubSeq(l, 1, Len(k))
    \/ \E i \in DOMAIN k : i \in DOMAIN l /\ k[i] < l[i] /\ SubSeq(k, 1, i - 1) = SubSeq(l, 1, i - 1)

\* Every order the database may give the rows in.
Orders(list) ==
    {order \in SetToSeqs(Entries(list)) :
        \A i, j \in DOMAIN order : i < j => ~Before(Key(list, order[j]), Key(list, order[i]))}

Walking == walk # <<>> /\ ~walk[1].done

-----------------------------------------------------------------------------

StartWalk ==
    /\ walk = <<>>
    /\ \E list \in Lists :
        /\ walk' = <<[list |-> list, page |-> 1, total |-> 0, counted |-> FALSE, got |-> <<>>, done |-> FALSE]>>
        /\ stood' = Entries(list) /\ ever' = Entries(list)
    /\ UNCHANGED <<published, entered, left>>

CountRows ==
    /\ Walking /\ ~walk[1].counted
    /\ walk' = <<[walk[1] EXCEPT !.counted = TRUE, !.total = Cardinality(Entries(walk[1].list))]>>
    /\ UNCHANGED <<published, stood, ever, entered, left>>

\* The page's rows; a client asks until a page is not full.
ReadPage ==
    /\ Walking /\ walk[1].counted
    /\ \E order \in Orders(walk[1].list) :
        LET offset == (walk[1].page - 1) * Limit
            rows == SubSeq(order, offset + 1, Min({offset + Limit, Len(order)}))
        IN walk' = <<[walk[1] EXCEPT !.counted = FALSE, !.page = @ + 1, !.got = @ \o rows,
                                     !.done = Len(rows) < Limit]>>
    /\ UNCHANGED <<published, stood, ever, entered, left>>

\* The panel shows or hides a volume.
ShowOrHide ==
    /\ Walking /\ UNCHANGED walk
    /\ \E w \in DOMAIN Works : \E n \in Works[w].volumes :
        LET e == <<w, n>> IN
        published' = IF e \in published THEN published \ {e} ELSE published \union {e}
    /\ Cardinality((published' \ Shown) \union (Shown \ published')) <= MaxChanges
    /\ LET before == Entries(walk[1].list)
           after == Entries(walk[1].list)'
       IN /\ stood' = stood \intersect after
          /\ ever' = ever \union after
          /\ entered' = (entered \/ ~(after \subseteq before))
          /\ left' = (left \/ ~(before \subseteq after))
    /\ UNCHANGED walk

PagesNext == StartWalk \/ CountRows \/ ReadPage \/ ShowOrHide

-----------------------------------------------------------------------------
\* No two entries of the list are alike to its ORDER BY.
ToldApart ==
    \A e, f \in ever : e # f => <<Works[e[1]].title, e[2]>> # <<Works[f[1]].title, f[2]>>

\* A client that walks a list to its end has all that was listed all through,
\* unless something was hidden meanwhile; and nothing twice, unless something
\* was shown; with neither, as many as it was told: where no two titles are alike
\* (list_works, list_books, works.py "paginated").
WalksTellAll ==
    walk # <<>> /\ walk[1].done /\ ToldApart =>
        /\ ~left => stood \subseteq ToSet(walk[1].got)
        /\ ~entered => IsInjective(walk[1].got)
        /\ ~left /\ ~entered => Len(walk[1].got) = walk[1].total
=============================================================================
