----------------------------- MODULE HitSnippets -----------------------------
(***************************************************************************)
(* The snippet of a search hit (search_service.py _build_hits,             *)
(* _extract_snippet; arabic.py build_match_pattern): the page is read from *)
(* the book's file while books are imported, the phrase the index found is *)
(* looked for in its vowelled text, and what is around it is cut at spaces *)
(* with the phrase marked in it.                                           *)
(*                                                                         *)
(* A text is a sequence of letters (each stands for every spelling folded  *)
(* into it), vowel marks, tatweels, spaces and other characters.           *)
(***************************************************************************)
EXTENDS Naturals, Sequences, SequencesExt, FiniteSets, FiniteSetsExt

CONSTANTS
    Letters,
    PageTexts,  \* texts of the page that was indexed
    Reprints,   \* texts of the page in a later file
    Phrases,    \* [letters, breaks]: a word ends after the letter of that number
    Radius,     \* _SNIPPET_RADIUS
    Hits        \* hits of the one book in one answer

Mark == "mark"
Tatweel == "tatweel"
Space == "space"
Other == "other"

SnippetAssumption == {Mark, Tatweel, Space, Other} \cap Letters = {} /\ Radius > 0

VARIABLES
    phrase,
    file,       \* books_root/{id}.json: the page's text, or Missing
    cache,      \* page_text_cache: NotRead before the first hit
    hits        \* [text, from, to] with the phrase marked, or unmarked

snippetVars == <<phrase, file, cache, hits>>

Missing == <<"missing">>
NotRead == <<"none">>

-----------------------------------------------------------------------------
(* The pattern.  Python's \w has letters and tatweels, not vowel marks.      *)
Marks == {Mark, Tatweel}
InWord(c) == c \in Letters \cup {Tatweel}
At(text, i) == IF i \in 1 .. Len(text) THEN text[i] ELSE Space

\* _WORD_START: no letter stands before, nor a letter with one or two marks.
WordStart(text, i) ==
    /\ ~InWord(At(text, i - 1))
    /\ i > 1 /\ At(text, i - 1) \in Marks =>
        /\ ~InWord(At(text, i - 2))
        /\ i > 2 /\ At(text, i - 2) \in Marks => ~InWord(At(text, i - 3))

\* _WORD_END
WordEnd(text, i) == ~InWord(At(text, i + 1))

LettersIn(text, from, to) == SetToSortSeq({i \in from .. to : text[i] \in Letters}, <)

\* Marks between two letters of a word, spaces or marks between two words.
Spelt(text, from, to, q) ==
    LET ls == LettersIn(text, from, to)
        Between(k) == {text[i] : i \in ls[k] + 1 .. ls[k + 1] - 1}
    IN /\ Len(ls) = Len(q.letters)
       /\ ls[1] = from /\ ls[Len(ls)] = to
       /\ \A k \in 1 .. Len(ls) : text[ls[k]] = q.letters[k]
       /\ \A k \in 1 .. Len(ls) - 1 :
            IF k \in q.breaks THEN Between(k) # {} /\ Between(k) \subseteq Marks \cup {Space}
            ELSE Between(k) \subseteq Marks

\* The marks after the last letter belong to it, as many as leave the word's end there.
Ends(text, to) ==
    {e \in to .. Len(text) : WordEnd(text, e) /\ \A i \in to + 1 .. e : text[i] \in Marks}

Matches(text, q) ==
    {r \in (1 .. Len(text)) \X (1 .. Len(text)) :
        /\ r[1] <= r[2] /\ text[r[1]] \in Letters
        /\ WordStart(text, r[1]) /\ Spelt(text, r[1], r[2], q) /\ Ends(text, r[2]) # {}}

NoMatch == <<0, 0>>

\* find_original_match: the first.
FindMatch(text, q) ==
    LET found == Matches(text, q) IN
    IF found = {} THEN NoMatch
    ELSE LET first == CHOOSE r \in found : \A s \in found : r[1] <= s[1]
         IN <<first[1], Max(Ends(text, first[2]))>>

-----------------------------------------------------------------------------
Stripped(text) ==
    LET solid == {i \in 1 .. Len(text) : text[i] # Space}
    IN IF solid = {} THEN <<>> ELSE SubSeq(text, Min(solid), Max(solid))

\* Mutant: the mark is counted from where the snippet was cut, not from where it begins.
Uncounted(text) == 0

Leading(text) == Min({i \in 1 .. Len(text) + 1 : At(text, i) # Space \/ i > Len(text)}) - 1

\* The radius, then on to the next space.
From(text, i) == Max({1} \cup {j \in 1 .. i : text[j] = Space})
To(text, i) == Min({Len(text)} \cup {j \in i .. Len(text) - 1 : text[j + 1] = Space})

ExtractSnippet(text, q) ==
    LET match == FindMatch(text, q)
        from == From(text, IF match[1] > Radius THEN match[1] - Radius ELSE 1)
        to == To(text, Min({Len(text), match[2] + Radius}))
        cut == SubSeq(text, from, to)
    IN IF match = NoMatch
       THEN [text |-> Stripped(SubSeq(text, 1, Min({2 * Radius, Len(text)}))), from |-> 0, to |-> 0]
       ELSE [text |-> Stripped(cut),
             from |-> match[1] - from + 1 - Leading(cut), to |-> match[2] - from + 1 - Leading(cut)]

-----------------------------------------------------------------------------
SnippetsInit ==
    /\ phrase \in Phrases /\ file \in PageTexts \cup {Missing}
    /\ cache = NotRead /\ hits = <<>>

\* _load_page_text: the file is read once an answer; a file or page that is not there
\* gives a hit without a snippet.
BuildHit ==
    /\ Len(hits) < Hits
    /\ cache' = IF cache = NotRead THEN file ELSE cache
    /\ hits' = Append(hits, IF cache' = Missing THEN [text |-> <<>>, from |-> 0, to |-> 0]
                            ELSE ExtractSnippet(cache', phrase))
    /\ UNCHANGED <<phrase, file>>

\* Between two hits an import writes the file anew, or the page is not in it.
Reprint ==
    /\ hits # <<>> /\ Len(hits) < Hits
    /\ file' \in Reprints \cup {Missing}
    /\ UNCHANGED <<phrase, cache, hits>>

SnippetsNext == BuildHit \/ Reprint

-----------------------------------------------------------------------------
(* What the index finds: the text without marks, its spaces one by one.      *)
Fold(text) ==
    LET bare == SelectSeq(text, LAMBDA c : c \notin Marks)
        kept == {i \in 1 .. Len(bare) : ~(bare[i] = Space /\ At(bare, i - 1) = Space)}
    IN [k \in 1 .. Cardinality(kept) |-> bare[SetToSortSeq(kept, <)[k]]]

Written(q) ==
    FlattenSeq([k \in 1 .. Len(q.letters) |->
        IF k \in q.breaks THEN <<q.letters[k], Space>> ELSE <<q.letters[k]>>])

\* No letter belongs to the word before or after, marks between them or not.
WholeWords(text, from, to) ==
    /\ \A i \in 1 .. from - 1 : text[i] \in Letters => \E j \in i + 1 .. from - 1 : text[j] \notin Marks
    /\ \A i \in to + 1 .. Len(text) : text[i] \in Letters => \E j \in to + 1 .. i - 1 : text[j] \notin Marks

Holds(text, q) ==
    \E from, to \in 1 .. Len(text) :
        /\ from <= to /\ text[from] \in Letters /\ text[to] \in Letters
        /\ Fold(SubSeq(text, from, to)) = Written(q) /\ WholeWords(text, from, to)

\* A word that begins with a tatweel is not found by the pattern.
TatweelFirst(text) ==
    \E i \in 1 .. Len(text) : text[i] = Tatweel /\ \A j \in 1 .. i - 1 :
        text[j] \in Letters => \E k \in j + 1 .. i - 1 : text[k] \notin Marks

OnlyLetters(text) == SelectSeq(text, LAMBDA c : c \in Letters)

\* A page that holds the phrase as the index finds it is marked, whatever vowels it
\* has, and what is marked is the phrase, letter by letter, where the text around it
\* was cut and stripped (_extract_snippet: "the match's position given in the
\* snippet's own coordinates").
MarkedIsThePhrase ==
    cache \notin {NotRead, Missing} =>
        \A i \in 1 .. Len(hits) :
            LET hit == hits[i] IN
            /\ Holds(cache, phrase) /\ ~TatweelFirst(cache) => hit.from # 0
            /\ hit.from # 0 =>
                /\ 1 <= hit.from /\ hit.from <= hit.to /\ hit.to <= Len(hit.text)
                /\ OnlyLetters(SubSeq(hit.text, hit.from, hit.to)) = phrase.letters

\* A marked snippet is a part of the page that cuts no word, and the hits of one
\* book in one answer are of one text, imports in between or not.
SnippetsAreOfOnePage ==
    \A i, j \in 1 .. Len(hits) :
        /\ hits[i] = hits[j]
        /\ hits[i].from # 0 =>
            \E from, to \in 1 .. Len(cache) :
                /\ SubSeq(cache, from, to) = hits[i].text
                /\ At(cache, from - 1) = Space /\ At(cache, to + 1) = Space

\* "Whole words only, like the index: the query must not start or end inside a longer
\* word" (arabic.py, _WORD_START and _WORD_END): what is marked is no part of a word.
MatchesAreWords ==
    cache \notin {NotRead, Missing} =>
        LET match == FindMatch(cache, phrase)
        IN match # NoMatch => WholeWords(cache, match[1], match[2])
=============================================================================
