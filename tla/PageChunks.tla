----------------------------- MODULE PageChunks -----------------------------
(***************************************************************************)
(* A page as the passages that are embedded (scripts/embeddings/           *)
(* embed_pages.py page_chunks): its words in order, cut where a sentence   *)
(* ends, each passage with the end of the one before.  A word is told by   *)
(* its place; all that is known of it is whether it ends a sentence.       *)
(***************************************************************************)
EXTENDS Integers, Sequences, FiniteSets, FiniteSetsExt

CONSTANTS
    Blocks,         \* what a page can be made of: [heading, words], a word TRUE when it ends a sentence
    MaxBlocks,      \* bound: blocks on a page
    ChunkWords, OverlapWords, HeadingBreak, MinWords,
    CutFrom,        \* size * 0.55: the final part of a chunk begins after so many words
    WholeSentence   \* 5: a last sentence shorter than this is not repeated alone

VARIABLES
    words,          \* the words of the blocks read
    blocks,         \* how many have been read, and where headings began a chunk
    from, fresh,    \* where the current chunk begins, and its words that are not repeated
    chunks,         \* the chunks so far: first and last word
    cutting         \* "reading", "cutting" or "ended"

chunkVars == <<words, blocks, from, fresh, chunks, cutting>>

ChunksInit ==
    /\ words = <<>> /\ blocks = [read |-> 0, breaks |-> {}]
    /\ from = 1 /\ fresh = 0 /\ chunks = <<>> /\ cutting = "reading"

\* The chunk that ends here, when enough of it is new.
Closing(last) == IF fresh >= MinWords THEN Append(chunks, <<from, last>>) ELSE chunks

\* Mutant: nothing is repeated.
NothingAgain(last) == last + 1

\* flush: where the repeated tail begins, at its last sentence unless that is short.
TailFrom(last) ==
    LET first == Max({from, last - OverlapWords + 1})
        starts == {i \in first + 1 .. last : words[i - 1]}
    IN IF starts # {} /\ last - Max(starts) + 1 >= WholeSentence THEN Max(starts) ELSE first

ReadBlock ==
    /\ cutting = "reading" /\ blocks.read < MaxBlocks
    /\ \E b \in Blocks :
        LET new == b.heading /\ fresh >= HeadingBreak IN
        /\ words' = words \o b.words
        /\ blocks' = [read |-> blocks.read + 1,
                      breaks |-> IF new THEN blocks.breaks \union {Len(words) + 1} ELSE blocks.breaks]
        /\ chunks' = IF new THEN Closing(Len(words)) ELSE chunks
        /\ from' = IF new THEN Len(words) + 1 ELSE from
        /\ fresh' = (IF new THEN 0 ELSE fresh) + Len(b.words)
        /\ cutting' = IF Len(words') - from' + 1 > ChunkWords THEN "cutting" ELSE "reading"

\* The last sentence end in the final part of the chunk, or its full size.
CutAt ==
    LET ends == {i \in CutFrom + 1 .. ChunkWords : words[from + i - 1]} IN
    IF ends = {} THEN ChunkWords ELSE Max(ends)

Flush ==
    /\ cutting = "cutting"
    /\ LET last == from + CutAt - 1 IN
        /\ chunks' = Closing(last)
        /\ from' = TailFrom(last)
        /\ fresh' = Len(words) - last
    /\ cutting' = IF Len(words) - from' + 1 > ChunkWords THEN "cutting" ELSE "reading"
    /\ UNCHANGED <<words, blocks>>

EndPage ==
    /\ cutting = "reading" /\ words # <<>>
    /\ chunks' = Closing(Len(words))
    /\ cutting' = "ended"
    /\ UNCHANGED <<words, blocks, from, fresh>>

ChunksNext == ReadBlock \/ Flush \/ EndPage

-----------------------------------------------------------------------------
Covered(first, last) == \E k \in DOMAIN chunks : chunks[k][1] <= first /\ last <= chunks[k][2]

Sentences ==
    {<<p, q>> \in (DOMAIN words) \X (DOMAIN words) :
        /\ p <= q /\ (p = 1 \/ words[p - 1] \/ p \in blocks.breaks) /\ words[q]
        /\ \A i \in p .. q - 1 : ~words[i] /\ i + 1 \notin blocks.breaks}

\* Short enough to be in the part of a chunk that is never cut.
Fits(n) == n <= CutFrom /\ n <= ChunkWords - CutFrom

\* Every word of a page can be found, but for a few at its end too short to be
\* a chunk; no chunk is longer than its size; and "a passage cut at a boundary
\* is whole in one of them" (page_chunks): a sentence is never embedded in two
\* halves only, nor apart from the short one before it, where the two are short.
ChunksHoldThePage ==
    cutting = "ended" =>
        /\ \A i \in DOMAIN words : Covered(i, i) \/ (fresh < MinWords /\ i > Len(words) - fresh)
        /\ \A k \in DOMAIN chunks : chunks[k][2] - chunks[k][1] < ChunkWords
        /\ \A s, t \in Sentences :
            /\ t[1] = s[2] + 1 /\ t[1] \notin blocks.breaks /\ Covered(t[2], t[2])
            /\ s[2] - s[1] < OverlapWords /\ Fits(t[2] - s[1] + 1)
            => Covered(s[1], t[2])
        /\ \A s \in Sentences : Fits(s[2] - s[1] + 1) /\ Covered(s[2], s[2]) => Covered(s[1], s[2])
=============================================================================
