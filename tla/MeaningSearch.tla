---------------------------- MODULE MeaningSearch ----------------------------
(***************************************************************************)
(* Search by meaning (app/services/meaning_search.py, app/api/search.py):  *)
(* an address is counted, the question is embedded in one of a few slots,  *)
(* the closest passages are found, one of each page, and the answer kept.  *)
(***************************************************************************)
EXTENDS Integers, Sequences, FiniteSets, SequencesExt, FiniteSetsExt

CONSTANTS
    Searchers,      \* addresses
    Searches,       \* requests under way at once
    Questions,      \* [limit, books]: how many passages, and of which books; {} for any
    Passages,       \* the collection, closest to the question first: [book, page] of each passage
    RatePerMinute, Minute, CacheSeconds, CacheEntries, EmbedAtOnce,
    Addresses,      \* past so many addresses the idle ones are forgotten (5000)
    LastHour, MaxAsked  \* bounds: the clock, and searches in all

VARIABLES
    clock,
    recent,         \* _recent: the times of each address that is remembered
    admitted,       \* every time an address was let in
    cache,          \* _cache, the least recently used first: question, when it was kept, answer
    search          \* each request: how far it is, and its answer

meaningVars == <<clock, recent, admitted, cache, search>>

NoSearch == [at |-> "idle", answer |-> <<>>]

MeaningInit ==
    /\ clock = 0 /\ cache = <<>>
    /\ recent = [who \in {} |-> <<>>]
    /\ admitted = [who \in Searchers |-> <<>>]
    /\ search = [r \in Searches |-> NoSearch]

Admissions == FoldFunction(LAMBDA times, n : Len(times) + n, 0, admitted)

\* The times that still count.
InMinute(times) == SelectSeq(times, LAMBDA t : clock - t <= Minute)

\* Mutant: an address is idle when its first search is a minute old.
FirstIsOld(times) == clock - times[1] > Minute
Idle(times) == clock - Last(times) > Minute

\* allow: counts the search, or refuses it; past so many addresses forgets the idle.
Allow(r, who, question) ==
    /\ search[r].at \in {"idle", "answered", "failed"} /\ Admissions < MaxAsked
    /\ LET times == IF who \in DOMAIN recent THEN InMinute(recent[who]) ELSE <<>>
           counted == [w \in DOMAIN recent \union {who} |-> IF w = who THEN Append(times, clock) ELSE recent[w]]
           kept == IF Cardinality(DOMAIN counted) > Addresses
                   THEN {w \in DOMAIN counted : ~Idle(counted[w])} ELSE DOMAIN counted
       IN /\ Len(times) < RatePerMinute
          /\ recent' = [w \in kept |-> counted[w]]
    /\ admitted' = [admitted EXCEPT ![who] = Append(@, clock)]
    /\ search' = [search EXCEPT ![r] = [at |-> "asked", question |-> question, answer |-> <<>>]]
    /\ UNCHANGED <<clock, cache>>

Hits(question) == {k \in DOMAIN cache : cache[k].question = question /\ clock - cache[k].kept < CacheSeconds}

AnswerFromCache(r) ==
    /\ search[r].at = "asked"
    /\ \E k \in Hits(search[r].question) :
        /\ cache' = Append(RemoveAt(cache, k), cache[k])
        /\ search' = [search EXCEPT ![r] = [@ EXCEPT !.at = "answered", !.answer = cache[k].answer]]
    /\ UNCHANGED <<clock, recent, admitted>>

\* async with _slots: a question is embedded when a slot is free.
Embed(r) ==
    /\ search[r].at = "asked" /\ Hits(search[r].question) = {}
    /\ Cardinality({o \in Searches : search[o].at = "embedding"}) < EmbedAtOnce
    /\ search' = [search EXCEPT ![r].at = "embedding"]
    /\ UNCHANGED <<clock, recent, admitted, cache>>

\* Mutant: no more passages are asked for than are answered.
AsManyAsAsked(limit) == limit
AskedFor(limit) == 2 * limit

Selected(question) ==
    SelectSeq(Passages, LAMBDA p : question.books = {} \/ p.book \in question.books)

FirstOf(list, n) == SubSeq(list, 1, IF n < Len(list) THEN n ELSE Len(list))

\* One passage of each page, the closest.
OfEachPage(list) ==
    LET firsts == {i \in DOMAIN list : \A j \in 1 .. i - 1 : list[j] # list[i]}
        order == SetToSortSeq(firsts, <)
    IN [k \in DOMAIN order |-> list[order[k]]]

Find(r) ==
    /\ search[r].at = "embedding"
    /\ LET question == search[r].question
           found == FirstOf(Selected(question), AskedFor(question.limit))
       IN search' = [search EXCEPT ![r] = [@ EXCEPT !.at = "found",
            !.answer = FirstOf(OfEachPage(found), question.limit)]]
    /\ UNCHANGED <<clock, recent, admitted, cache>>

\* The embedder or the collection fails: the request ends with 502, its slot is free.
SearchBreaks(r) ==
    /\ search[r].at = "embedding"
    /\ search' = [search EXCEPT ![r] = [@ EXCEPT !.at = "failed"]]
    /\ UNCHANGED <<clock, recent, admitted, cache>>

\* The authors read, the answer is kept, and the least recently used is forgotten.
Keep(r) ==
    /\ search[r].at = "found"
    /\ LET others == SelectSeq(cache, LAMBDA e : e.question # search[r].question)
           put == Append(others, [question |-> search[r].question, kept |-> clock, answer |-> search[r].answer])
       IN cache' = IF Len(put) > CacheEntries THEN Tail(put) ELSE put
    /\ search' = [search EXCEPT ![r].at = "answered"]
    /\ UNCHANGED <<clock, recent, admitted>>

TimePasses == clock < LastHour /\ clock' = clock + 1 /\ UNCHANGED <<recent, admitted, cache, search>>

MeaningNext ==
    \/ TimePasses
    \/ \E r \in Searches :
        \/ \E who \in Searchers, question \in Questions : Allow(r, who, question)
        \/ AnswerFromCache(r) \/ Embed(r) \/ Find(r) \/ SearchBreaks(r) \/ Keep(r)

-----------------------------------------------------------------------------
\* "Each address gets RATE_PER_MINUTE searches a minute" (meaning_search.py): in
\* no minute is it let in more often, whoever is forgotten meanwhile.
RateHolds ==
    \A who \in Searchers : \A i \in DOMAIN admitted[who] :
        i + RatePerMinute \in DOMAIN admitted[who] => admitted[who][i + RatePerMinute] - admitted[who][i] > Minute

\* What is answered, from the cache or not, is of the books asked for, has no
\* page twice, the closest pages first, and as many as were asked for when the
\* collection has them and no page has more than two passages.
AnswersAreOfTheQuestion ==
    \A r \in Searches : search[r].at = "answered" =>
        LET told == search[r].answer
            q == search[r].question
            there == {i \in DOMAIN Passages : q.books = {} \/ Passages[i].book \in q.books}
            pages == {Passages[i] : i \in there}
            closest(p) == Min({i \in there : Passages[i] = p})
        IN /\ ToSet(told) \subseteq pages
           /\ \A j, k \in DOMAIN told : j < k => closest(told[j]) < closest(told[k])
           /\ \A p \in pages, k \in DOMAIN told : closest(p) < closest(told[k]) => p \in ToSet(told)
           /\ (\A p \in pages : Cardinality({i \in there : Passages[i] = p}) <= 2) =>
                Len(told) = Min({q.limit, Cardinality(pages)})

MeaningHolds == RateHolds /\ AnswersAreOfTheQuestion
=============================================================================
