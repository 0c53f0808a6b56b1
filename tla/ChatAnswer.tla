----------------------------- MODULE ChatAnswer -----------------------------
(***************************************************************************)
(* How one question is answered (app/services/chat_service.py _ask):       *)
(* rewritten, searched by meaning and by words at once, the two results    *)
(* merged, reranked, and answered by the first model that does.  What the  *)
(* models, the embedder, Qdrant and the database answer, or fail to, is    *)
(* open at every step.                                                     *)
(***************************************************************************)
EXTENDS Naturals, Sequences, FiniteSets, SequencesExt, FiniteSetsExt

CONSTANTS
    Chunks, WordHits,   \* the passages the two searches may find
    PageOf, SignatureOf,    \* of a passage: its page, and how it reads
    FrontMatter,        \* passages of title and publication pages
    InScope,            \* passages of the books of the named author
    Keywords,
    Models,             \* gemini_chat_model and its fallbacks, in order
    Top,                \* CHAT_PASSAGES
    MinScoped, MinAfterFrontMatter, \* MIN_SCOPED_HITS, MIN_AFTER_FRONT_MATTER
    MaxFound            \* bound: chunks found by meaning

Passage == Chunks \union WordHits

\* What the constants are (assumed where they get their values).
AnswerAssumption ==
    /\ PageOf \in [Passage -> Nat] /\ SignatureOf \in [Passage -> Nat]
    /\ FrontMatter \subseteq Passage /\ InScope \subseteq Passage
    /\ Models # <<>> /\ Top \in Nat \ {0} /\ MaxFound \in Nat

VARIABLES
    step,
    named,      \* the author's books the search is limited to: "none", "books", "fallback"
    keywords,
    found, worded,  \* the results of the two searches
    asks,       \* whether the question asks about a book itself
    sources,
    attempts,   \* models tried, each with its answer
    told,       \* models whose text was streamed to the asker, piece by piece
    status, failed  \* failed: whether a step failed that no answer survives

answerVars == <<step, named, keywords, found, worded, asks, sources, attempts, told, status, failed>>

AnswerInit ==
    /\ step = "rewrite" /\ named = "none" /\ keywords = {}
    /\ found = <<>> /\ worded = <<>> /\ asks \in BOOLEAN
    /\ sources = <<>> /\ attempts = <<>> /\ told = <<>>
    /\ status = "none" /\ failed = FALSE

-----------------------------------------------------------------------------
\* Merging.

\* Mutant: the place itself is the weight.
Distance(rank) == rank

\* 61 * 62 * 63 * 64, so that the weights 1 / (60 + rank) are whole numbers.
Weight(rank) == 15249024 \div (60 + rank)

Places(lists, key, keyOf) ==
    {<<l, r>> \in UNION {{l} \X DOMAIN lists[l] : l \in DOMAIN lists} : keyOf[lists[l][r]] = key}

Score(lists, key, keyOf) ==
    MapThenSumSet(LAMBDA p : Weight(p[2]), Places(lists, key, keyOf))

\* rrf: the first copy of each item, by falling score; ties keep their order.
Rrf(lists, keyOf) ==
    LET items == FlattenSeq(lists)
        first == {i \in DOMAIN items : \A j \in 1 .. i - 1 : keyOf[items[j]] # keyOf[items[i]]}
        score == [i \in first |-> Score(lists, keyOf[items[i]], keyOf)]
        Before(i, j) == score[i] > score[j] \/ (score[i] = score[j] /\ i < j)
        order == SetToSortSeq(first, Before)
    IN [i \in DOMAIN order |-> items[order[i]]]

\* Mutant: a passage that reads like a better one stays.
AllEditions(list) == list

OncePerReading(list) ==
    LET keep == {i \in DOMAIN list : \A j \in 1 .. i - 1 : SignatureOf[list[j]] # SignatureOf[list[i]]}
        order == SetToSortSeq(keep, <)
    IN [i \in DOMAIN order |-> list[order[i]]]

MergeCandidates(meaning, words) ==
    OncePerReading(Rrf(<<meaning, words>>, PageOf))

DropFrontMatter(list) ==
    LET kept == SelectSeq(list, LAMBDA p : p \notin FrontMatter)
    IN IF asks \/ Len(kept) < MinAfterFrontMatter THEN list ELSE kept

Candidates == DropFrontMatter(MergeCandidates(found, worded))

\* Mutant: when the reranker names none, none is taken.
OnlyChosen(best) == [i \in 1 .. Min({Len(best), Top}) |-> Candidates[best[i]]]

\* _rerank: the chosen ones, or the merged order when it failed or named none.
Chosen(best) ==
    IF best = <<>> THEN SubSeq(Candidates, 1, Min({Top, Len(Candidates)}))
    ELSE [i \in 1 .. Min({Len(best), Top}) |-> Candidates[best[i]]]

-----------------------------------------------------------------------------
\* The steps of _ask.

\* Distinct members of S in some order, up to n.
Lists(S, n) == UNION {{s \in [1 .. k -> S] : IsInjective(s)} : k \in 0 .. n}

\* The rewriter's texts, or none when it failed; a database error while the
\* named author is looked up ends the chat.
Rewrite ==
    /\ step = "rewrite"
    /\ keywords' \in SUBSET Keywords
    /\ named' \in {"none", "books"}
    /\ step' = "search"
    /\ UNCHANGED <<found, worded, asks, sources, attempts, told, status, failed>>

EndWith(s) == step' = "end" /\ status' = s

Fails ==
    /\ EndWith("error") /\ failed' = TRUE
    /\ UNCHANGED <<named, keywords, found, worded, asks, sources, attempts, told>>

ScopeFails == step = "rewrite" /\ Fails

\* _search: the closest passages, in the named books while they hold enough.
Meaning(list, fallback) ==
    /\ fallback => named = "books"
    /\ named = "books" /\ ~fallback => ToSet(list) \subseteq InScope /\ Len(list) >= MinScoped

\* _word_search: each keyword is dropped as common, fails, is late, or finds
\* pages; the lists that are there are merged.
Search ==
    /\ step = "search"
    /\ \E fallback \in BOOLEAN, list \in Lists(Chunks, MaxFound), lists \in [keywords -> Lists(WordHits, 1)] :
        /\ Meaning(list, fallback)
        /\ found' = list
        /\ worded' = Rrf([k \in 1 .. Cardinality(keywords) |-> lists[SetToSeq(keywords)[k]]], [p \in DOMAIN PageOf |-> p])
        /\ named' = IF fallback THEN "fallback" ELSE named
    /\ step' = "merge"
    /\ UNCHANGED <<keywords, asks, sources, attempts, told, status, failed>>

\* The embedder, Qdrant, or the statistics of common words.
SearchFails == step = "search" /\ Fails

NoResults ==
    /\ step = "merge" /\ Candidates = <<>>
    /\ EndWith("no_results")
    /\ UNCHANGED <<named, keywords, found, worded, asks, sources, attempts, told, failed>>

\* One candidate needs no reranker; what a reranker names twice or wrongly is
\* passed over before Chosen.
Rerank ==
    /\ step = "merge" /\ Candidates # <<>>
    /\ \E best \in IF Len(Candidates) = 1 THEN {<<>>} ELSE Lists(DOMAIN Candidates, Top) :
        sources' = Chosen(best)
    /\ step' = "answer"
    /\ UNCHANGED <<named, keywords, found, worded, asks, attempts, told, status, failed>>

-----------------------------------------------------------------------------
\* _generate.

RetryStatuses == {0, 429, 500, 503}
Asked == Models[Len(attempts) + 1]

\* Mutant: another model is tried although text was sent.
TakesOver(code) == code \in RetryStatuses

\* Once text was sent, no other model can take over.
TriesNext(code) == code \in RetryStatuses /\ told = <<>>

\* A piece of the answer is streamed.
Tell ==
    /\ step = "answer" /\ Len(attempts) < Len(Models)
    /\ ~(told # <<>> /\ Last(told) = Asked)
    /\ told' = Append(told, Asked)
    /\ UNCHANGED <<step, named, keywords, found, worded, asks, sources, attempts, status, failed>>

Busy(tries) == \E i \in DOMAIN tries : tries[i].code \in {429, 503}

\* A model refuses, breaks off, or does not answer in time.
ModelFails(code) ==
    /\ step = "answer" /\ Len(attempts) < Len(Models) /\ code # 200
    /\ attempts' = Append(attempts, [model |-> Asked, code |-> code])
    /\ IF TriesNext(code) /\ Len(attempts') < Len(Models)
       THEN UNCHANGED <<step, status, failed>>
       ELSE /\ EndWith(IF code \in RetryStatuses /\ Busy(attempts') THEN "rate_limited" ELSE "error")
            /\ failed' = TRUE
    /\ UNCHANGED <<named, keywords, found, worded, asks, sources, told>>

\* It answers, with text or (blocked) without.
ModelAnswers(text) ==
    /\ step = "answer" /\ Len(attempts) < Len(Models)
    /\ ~text => told = <<>>
    /\ attempts' = Append(attempts, [model |-> Asked, code |-> 200])
    /\ EndWith(IF text THEN "ok" ELSE "error")
    /\ failed' = ~text
    /\ UNCHANGED <<named, keywords, found, worded, asks, sources, told>>

AnswerNext ==
    \/ Rewrite \/ ScopeFails \/ Search \/ SearchFails \/ NoResults \/ Rerank \/ Tell
    \/ \E code \in {0, 400, 429, 500, 503} : ModelFails(code)
    \/ \E text \in BOOLEAN : ModelAnswers(text)

-----------------------------------------------------------------------------
\* An asker who watches the answer grow reads one model's text only, and when
\* the answer is there it is that model's: whatever breaks off, no second model
\* writes on (chat_service.py _generate).
OneVoice ==
    /\ Cardinality(ToSet(told)) <= 1
    /\ status = "ok" /\ told # <<>> => told[1] = Last(attempts).model

\* The numbered passages an answer cites are of different pages and read
\* differently, and are no more than the model is given, whatever the two
\* searches found twice and the reranker named (merge_candidates, _rerank).
SourcesAreDistinct ==
    /\ Len(sources) <= Top
    /\ \A i, j \in DOMAIN sources : i # j =>
        /\ PageOf[sources[i]] # PageOf[sources[j]]
        /\ SignatureOf[sources[i]] # SignatureOf[sources[j]]

\* Whatever the cheap steps did, once a search found something the answer is
\* written from passages, and one search's hits are enough.
AnswersHaveSources ==
    /\ step = "answer" => sources # <<>>
    /\ status = "no_results" => found = <<>> /\ worded = <<>>

\* A page that stands above another in every list, each of its passages
\* counted, comes before it among the candidates, whatever else the lists hold
\* (rrf); a page found in several passages counts once for each.
MergingIsFair ==
    step = "merge" =>
        LET lists == <<found, worded>>
            merged == Rrf(lists, PageOf)
            Ranks(page, l) == {r \in DOMAIN lists[l] : PageOf[lists[l][r]] = page}
            Above(p, q) == \A l \in DOMAIN lists : \A r \in Ranks(PageOf[q], l) :
                Cardinality({t \in Ranks(PageOf[p], l) : t < r}) > Cardinality({t \in Ranks(PageOf[q], l) : t < r})
        IN \A i, j \in DOMAIN merged : i # j /\ Above(merged[i], merged[j]) => i < j
=============================================================================
