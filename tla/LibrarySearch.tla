--------------------------- MODULE LibrarySearch ---------------------------
(***************************************************************************)
(* The full-text search (app/services/search_service.py): the books' order *)
(* kept for a minute, the pages found in that order a batch of books at a  *)
(* time, and the answers kept for five minutes; while the panel hides and  *)
(* shows books.  Every statement reads the library as it is then.          *)
(***************************************************************************)
EXTENDS Naturals, Sequences, FiniteSets, SequencesExt, FiniteSetsExt

CONSTANTS
    Books, ShownFirst,  \* book ids, those published at the start
    CenturyOf, DeathOf, TitleOf,    \* what orders a book; 0 when not known
    PagesWith,          \* of a book: the sequences of its pages with the phrase
    Filtered, Named,    \* the books the filters select, those of the works named
    HasCommonWord,      \* whether a word of the phrase is on a tenth of all pages
    Queries,            \* the searches made: the page, and the sides
    Limit, MatchLimit,
    FirstBatch, SmallBatch, MaxBatch,
    OrderTtl, ResultTtl,    \* in ticks; a search takes at most one
    MaxChanges, MaxTicks, MaxAsks   \* bounds

\* What the constants are (assumed where they get their values).
SearchAssumption ==
    /\ Books \subseteq Nat \ {0} /\ IsFiniteSet(Books)
    /\ ShownFirst \subseteq Books /\ Filtered \subseteq Books /\ Named \subseteq Books
    /\ Limit \in Nat \ {0} /\ FirstBatch \in 1 .. MaxBatch
    /\ OrderTtl \in Nat \ {0} /\ ResultTtl \in Nat \ {0}

VARIABLES
    shown,      \* the published books
    hiddenFor,  \* ticks since a book was hidden
    order,      \* _order_cache: <<>>, or one [ids, signature, age]
    results,    \* _result_cache: records [key, hits, total, age]
    ask,        \* the search under way
    served,     \* the last answer: <<>>, or one [hits, total, page, sides, exact]
    changes, ticks, asks

searchVars == <<shown, hiddenFor, order, results, ask, served, changes, ticks, asks>>

Idle == [step |-> "idle"]

SearchInit ==
    /\ shown = ShownFirst /\ hiddenFor = [b \in Books |-> 0]
    /\ order = <<>> /\ results = {} /\ ask = Idle /\ served = <<>>
    /\ changes = 0 /\ ticks = 0 /\ asks = 0

-----------------------------------------------------------------------------
\* The order of the books (_BOOK_ORDER_SQL).

DeathYear(b) ==
    IF CenturyOf[b] > 0 THEN CenturyOf[b] * 100 - 50
    ELSE IF DeathOf[b] \in 1 .. 1500 THEN DeathOf[b] ELSE 99999

Earlier(a, b) ==
    \/ DeathYear(a) < DeathYear(b)
    \/ /\ DeathYear(a) = DeathYear(b)
       /\ TitleOf[a] < TitleOf[b] \/ (TitleOf[a] = TitleOf[b] /\ a < b)

InOrder(books) == SetToSortSeq(books, Earlier)

Signature == <<Cardinality(shown), Max(shown \union {0})>>

OfSide(side) == CASE side = "all" -> Books [] side = "filters" -> Filtered [] side = "works" -> Named

PagesIn(books) == UNION {{b} \X PagesWith[b] : b \in books}

-----------------------------------------------------------------------------
\* One search, statement by statement.

Begin(page, sides) ==
    /\ ask.step = "idle" /\ asks < MaxAsks
    /\ ask' = [step |-> "order", page |-> page, sides |-> sides, signature |-> Signature,
               steady |-> TRUE, age |-> 0]
    /\ asks' = asks + 1 /\ served' = <<>>
    /\ UNCHANGED <<shown, hiddenFor, order, results, changes, ticks>>

Key == <<ask.page, ask.sides, order'[1].signature>>

\* Mutant: what is kept never runs out.
ForEver(kept, ttl) == TRUE

Current(kept, ttl) == kept.age < ttl

\* The order kept, or made again; then the answer kept for it, if any.
TakeOrder ==
    /\ ask.step = "order"
    /\ order' = IF order # <<>> /\ Current(order[1], OrderTtl) /\ order[1].signature = ask.signature
                THEN order
                ELSE <<[ids |-> InOrder(shown), signature |-> ask.signature, age |-> 0]>>
    /\ LET kept == {r \in results : r.key = Key /\ Current(r, ResultTtl)} IN
        IF kept # {}
        THEN LET r == CHOOSE r \in kept : TRUE IN
             /\ served' = <<[hits |-> r.hits, total |-> r.total, page |-> ask.page,
                             sides |-> ask.sides, exact |-> FALSE]>>
             /\ ask' = Idle
        ELSE /\ ask' = [step |-> "narrow", page |-> ask.page, sides |-> ask.sides, key |-> Key,
                        order |-> order'[1].ids, todo |-> ask.sides, found |-> {}, complete |-> TRUE,
                        exact |-> ask.steady /\ order'[1].ids = InOrder(shown), age |-> ask.age]
             /\ UNCHANGED served
    /\ UNCHANGED <<shown, hiddenFor, results, changes, ticks, asks>>

\* Mutant: whether the last side found every match.
AsTheLast(complete) == complete

\* Whether every side found every match.
SidesComplete(complete) == ask.complete /\ complete

\* What ask is once a side found these pages.
SideDone(pages, complete) ==
    [step |-> IF Len(ask.todo) = 1 THEN "answer" ELSE "narrow",
     page |-> ask.page, sides |-> ask.sides, key |-> ask.key, order |-> ask.order,
     todo |-> Tail(ask.todo), found |-> ask.found \union pages,
     complete |-> SidesComplete(complete), exact |-> ask.exact, age |-> ask.age]

Searches == UNCHANGED <<shown, hiddenFor, order, results, served, changes, ticks, asks>>

\* _find_pages: the filter's books first.
Narrow ==
    /\ ask.step = "narrow" /\ ask.todo # <<>>
    /\ LET books == IF Head(ask.todo) = "all" THEN Books ELSE shown \intersect OfSide(Head(ask.todo)) IN
        ask' = IF books = {} THEN SideDone({}, TRUE)
               ELSE [ask EXCEPT !.step = "match"] @@ [books |-> books]
    /\ Searches

\* Every match, when they are few; a search that takes too long is thinned and
\* finds only some of them (here: all but one).
Match ==
    /\ ask.step = "match"
    /\ LET matches == PagesIn(ask.books \intersect shown) IN
       \E thinned \in BOOLEAN : \E pages \in IF thinned THEN {matches \ {p} : p \in matches} ELSE {matches} :
        ask' = IF Cardinality(pages) <= MatchLimit
               THEN [SideDone(pages, TRUE) EXCEPT !.exact = @ /\ ~thinned]
               ELSE [ask EXCEPT !.step = "batches"]
                    @@ [rows |-> <<>>, size |-> FirstBatch,
                        left |-> SelectSeq(ask.order, LAMBDA b : b \in ask.books)]
    /\ Searches

\* Mutant: a page's worth is taken, whichever page is asked for.
OnePage(page) == Limit

\* Matches enough for the pages up to the one asked for.
Wanted(page) == page * Limit

\* The pages of these books in turn.
InTurn(books) ==
    FlattenSeq([i \in DOMAIN books |-> [j \in 1 .. Cardinality(PagesWith[books[i]]) |->
        <<books[i], SetToSortSeq(PagesWith[books[i]], <)[j]>>]])

\* One batch; the small ones trust the order for what is published.
Batch ==
    /\ ask.step = "batches"
    /\ LET count == Min({ask.size, Len(ask.left)})
           books == SubSeq(ask.left, 1, count)
           small == HasCommonWord /\ ask.size <= SmallBatch
           pages == InTurn(SelectSeq(books, LAMBDA b : small \/ b \in shown))
           take == Min({Wanted(ask.page) - Len(ask.rows), Len(pages)})
           rows == ask.rows \o SubSeq(pages, 1, take)
           left == SubSeq(ask.left, count + 1, Len(ask.left))
       IN ask' = IF left = <<>> \/ Len(rows) >= Wanted(ask.page)
                 THEN SideDone(ToSet(rows), FALSE)
                 ELSE [ask EXCEPT !.rows = rows, !.left = left, !.size = Min({@ * 3, MaxBatch})]
    /\ Searches

Slice(pages, page) == SubSeq(pages, (page - 1) * Limit + 1, Min({page * Limit, Len(pages)}))

\* By the place of the book, then the page; books not in the order come last.
Ranked(pages, ids) ==
    LET rank(b) == IF \E i \in DOMAIN ids : ids[i] = b THEN CHOOSE i \in DOMAIN ids : ids[i] = b
                   ELSE Len(ids) + 1
        Above(p, q) == \/ rank(p[1]) < rank(q[1])
                       \/ rank(p[1]) = rank(q[1]) /\ (p[2] < q[2] \/ (p[2] = q[2] /\ p[1] < q[1]))
    IN SetToSortSeq(pages, Above)

Answer ==
    /\ ask.step = "answer"
    /\ LET hits == Slice(Ranked(ask.found, ask.order), ask.page)
           total == IF hits = <<>> THEN 0
                    ELSE IF ask.complete THEN Cardinality(ask.found)
                    ELSE Max({MatchLimit, Cardinality(ask.found)})
       IN /\ served' = <<[hits |-> hits, total |-> total, page |-> ask.page, sides |-> ask.sides,
                          exact |-> ask.exact]>>
          /\ results' = {r \in results : r.key # ask.key}
                        \union {[key |-> ask.key, hits |-> hits, total |-> total, age |-> 0]}
    /\ ask' = Idle
    /\ UNCHANGED <<shown, hiddenFor, order, changes, ticks, asks>>

-----------------------------------------------------------------------------
\* Meanwhile.

Disturbed == IF ask.step = "idle" THEN ask
             ELSE IF ask.step = "order" THEN [ask EXCEPT !.steady = FALSE]
             ELSE [ask EXCEPT !.exact = FALSE]

Change(b) ==
    /\ changes < MaxChanges /\ changes' = changes + 1
    /\ shown' = IF b \in shown THEN shown \ {b} ELSE shown \union {b}
    /\ hiddenFor' = [hiddenFor EXCEPT ![b] = 0]
    /\ ask' = Disturbed /\ served' = <<>>
    /\ UNCHANGED <<order, results, ticks, asks>>

Older(kept) == [kept EXCEPT !.age = @ + 1]

Tick ==
    /\ ticks < MaxTicks /\ ticks' = ticks + 1
    /\ ask.step # "idle" => ask.age = 0
    /\ ask' = IF ask.step = "idle" THEN ask ELSE Older(ask)
    /\ hiddenFor' = [b \in Books |-> IF b \in shown THEN 0 ELSE hiddenFor[b] + 1]
    /\ order' = [i \in DOMAIN order |-> Older(order[i])]
    /\ results' = {Older(r) : r \in {q \in results : q.age < ResultTtl}}
    /\ served' = <<>>
    /\ UNCHANGED <<shown, changes, asks>>

SearchNext ==
    \/ \E q \in Queries : Begin(q[1], q[2])
    \/ TakeOrder \/ Narrow \/ Match \/ Batch \/ Answer
    \/ \E b \in Books : Change(b)
    \/ Tick

-----------------------------------------------------------------------------
\* Every page that should be found.
AllMatches(sides) == PagesIn(shown \intersect UNION {OfSide(sides[i]) : i \in DOMAIN sides})

\* A search no change of the library came between, and that was not thinned,
\* shows exactly its page of all the matches in the books' order: no batch, no
\* second side and no earlier page makes it miss one or show one twice
\* (search_service.py search, _find_pages).
SliceIsExact ==
    served # <<>> /\ served[1].exact =>
        served[1].hits = Slice(Ranked(AllMatches(served[1].sides), InOrder(shown)), served[1].page)

\* The number of matches it tells is never more than there are, and is theirs
\* when it is below the limit on what is counted (_MATCH_LIMIT).
TotalIsHonest ==
    served # <<>> /\ served[1].exact /\ served[1].hits # <<>> =>
        LET all == Cardinality(AllMatches(served[1].sides)) IN
        served[1].total <= all /\ (served[1].total < MatchLimit => served[1].total = all)

\* A book taken out of the library is out of every answer once the order and
\* the answers kept have run out, however they were kept: a minute, five
\* minutes, and the search itself (_ORDER_TTL_SECONDS, _RESULT_TTL_SECONDS).
HiddenBooksLeave ==
    served # <<>> =>
        \A i \in DOMAIN served[1].hits :
            LET b == served[1].hits[i][1] IN b \in shown \/ hiddenFor[b] < OrderTtl + ResultTtl
=============================================================================
