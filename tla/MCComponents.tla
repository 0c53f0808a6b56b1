---------------------------- MODULE MCComponents ----------------------------
(***************************************************************************)
(* Small instances of the components that share no state with another one. *)
(* A behaviour walks one of them, its scene; the variables v1 .. v12 are   *)
(* that component's, so that the state space is the sum of the scenes and  *)
(* not their product.                                                      *)
(***************************************************************************)
EXTENDS Naturals, Sequences, FiniteSets, TLC

CONSTANT NoVersion  \* a model value: no version of a record

VARIABLES scene, v1, v2, v3, v4, v5, v6, v7, v8, v9, v10, v11, v12

Unused == 0

Used(n) ==
    /\ n < 3 => v3 = Unused
    /\ n < 4 => v4 = Unused
    /\ n < 5 => v5 = Unused
    /\ n < 6 => v6 = Unused
    /\ n < 7 => v7 = Unused
    /\ n < 8 => v8 = Unused
    /\ n < 9 => v9 = Unused
    /\ n < 10 => v10 = Unused
    /\ n < 11 => v11 = Unused
    /\ n < 12 => v12 = Unused

Keep4 == UNCHANGED <<v5, v6, v7, v8, v9, v10, v11, v12>>
Keep2 == UNCHANGED <<v3, v4>> /\ Keep4
Keep5 == UNCHANGED <<v6, v7, v8, v9, v10, v11, v12>>
Keep6 == UNCHANGED <<v7, v8, v9, v10, v11, v12>>
Keep7 == UNCHANGED <<v8, v9, v10, v11, v12>>
Keep8 == UNCHANGED <<v9, v10, v11, v12>>
Keep9 == UNCHANGED <<v10, v11, v12>>
Keep11 == UNCHANGED v12

Scene(name) == scene = name /\ UNCHANGED scene

-----------------------------------------------------------------------------
(* One record, three devices, three versions in flight (SyncArrivals).      *)
Times == 1..3
MergeDevices == 1..3
MarkVersions ==
    {v \in [text : {"a", "b", "none"}, pos : {"nowhere"}, deleted : BOOLEAN,
            updated : 1..2, ordered : {0}, device : MergeDevices] : v.deleted <=> v.text = "none"}
FolderVersions ==   \* one text per time
    {v \in [text : {"a", "b"}, pos : {"p", "q"}, deleted : {FALSE},
            updated : Times, ordered : Times, device : MergeDevices] : v.text = "a" <=> v.updated = 1}
UpTo3(S) == {{x, y, z} : x, y, z \in S}
AllBatches ==
    ({"mark"} \X {B \in UpTo3(MarkVersions) :
        \A v, w \in B : v # w => <<v.updated, v.device>> # <<w.updated, w.device>>})
    \cup ({"folder"} \X {B \in UpTo3(FolderVersions) :
        \A v, w \in B : v # w => v.updated # w.updated /\ v.ordered # w.ordered})

Arrivals == INSTANCE SyncArrivals WITH
    Batches <- AllBatches, Texts <- {"a", "b", "blank", "none"}, Blank <- "blank",
    NoData <- "none", Positions <- {"p", "q"}, NoPos <- "nowhere", Devices <- MergeDevices,
    kind <- v1, sent <- v2, arrived <- v3, stored <- v4
ASSUME Arrivals!BatchesAreVersions

ArrivalsInit == scene = "arrivals" /\ Arrivals!Init /\ Used(4)
ArrivalsNext == Scene("arrivals") /\ Arrivals!Next /\ Keep4

-----------------------------------------------------------------------------
(* Five passages: three found by meaning (c1 is front matter, c3 of another *)
(* book), two by their words, two readings printed twice (ChatAnswer).      *)
FoundChunks == {"c1", "c2", "c3"}
FoundWords == {"w1", "w2"}
PagesFound == [c1 |-> 1, c2 |-> 1, c3 |-> 2, w1 |-> 2, w2 |-> 3]
Readings == [c1 |-> 1, c2 |-> 2, c3 |-> 3, w1 |-> 3, w2 |-> 1]

Answers == INSTANCE ChatAnswer WITH
    Chunks <- FoundChunks, WordHits <- FoundWords, PageOf <- PagesFound,
    SignatureOf <- Readings, FrontMatter <- {"c1"}, InScope <- {"c1", "c2"},
    Keywords <- 1..2, Models <- <<"pro", "flash">>, Top <- 2, MinScoped <- 2,
    MinAfterFrontMatter <- 2, MaxFound <- 3,
    step <- v1, named <- v2, keywords <- v3, found <- v4, worded <- v5, asks <- v6,
    sources <- v7, attempts <- v8, told <- v9, status <- v10, failed <- v11
ASSUME Answers!AnswerAssumption

AnswersInit == scene = "answer" /\ Answers!AnswerInit /\ Used(11)
AnswersNext == Scene("answer") /\ Answers!AnswerNext /\ Keep11

-----------------------------------------------------------------------------
(* Three books in two tiers, pages of one hit (LibrarySearch).               *)
SearchBooks == 1..3
Centuries == <<0, 3, 0>>
Deaths == <<400, 3, 99999>>
BookTitles == <<2, 1, 1>>
PhraseOn == <<{1, 3, 4}, {2}, {1}>>
AskedPages ==
    {<<2, <<"all">>>>, <<1, <<"filters", "works">>>>}

Searching == INSTANCE LibrarySearch WITH
    Books <- SearchBooks, ShownFirst <- {1, 3}, CenturyOf <- Centuries, DeathOf <- Deaths,
    TitleOf <- BookTitles, PagesWith <- PhraseOn, Filtered <- {1, 2}, Named <- {3},
    HasCommonWord <- TRUE, Queries <- AskedPages, Limit <- 1, MatchLimit <- 3,
    FirstBatch <- 1, SmallBatch <- 1, MaxBatch <- 2, OrderTtl <- 1, ResultTtl <- 2,
    MaxChanges <- 2, MaxTicks <- 3, MaxAsks <- 2,
    shown <- v1, hiddenFor <- v2, order <- v3, results <- v4, ask <- v5, served <- v6,
    changes <- v7, ticks <- v8, asks <- v9
ASSUME Searching!SearchAssumption

SearchingInit == scene = "search" /\ Searching!SearchInit /\ Used(9)
SearchingNext == Scene("search") /\ Searching!SearchNext /\ Keep9

-----------------------------------------------------------------------------
(* Two books, two later imports, books read two ahead (SearchRebuild).       *)
Rebuild == INSTANCE SearchRebuild WITH
    Shelf <- 1..2, PagesOf <- <<2, 1, 2>>, Depth <- 2, MaxImports <- 2, MaxRuns <- 3,
    file <- v1, rows <- v2, target <- v3, run <- v4, todo <- v5, ahead <- v6, imports <- v7,
    runs <- v8, late <- v9, crossed <- v10, before <- v11
ASSUME Rebuild!RebuildAssumption

RebuildInit == scene = "rebuild" /\ Rebuild!RebuildInit /\ Used(11)
RebuildNext == Scene("rebuild") /\ Rebuild!RebuildNext /\ Keep11

-----------------------------------------------------------------------------
(* Two addresses, two searches at once, two a minute, a cache of one answer  *)
(* (MeaningSearch).                                                          *)
Meanings == INSTANCE MeaningSearch WITH
    Searchers <- {"s1", "s2"}, Searches <- {"r1", "r2"},
    Questions <- {[limit |-> 2, books |-> {}], [limit |-> 2, books |-> {1}]},
    Passages <- <<[book |-> 1, page |-> 1], [book |-> 1, page |-> 1],
                  [book |-> 2, page |-> 1], [book |-> 2, page |-> 1]>>,
    RatePerMinute <- 2, Minute <- 1, CacheSeconds <- 2, CacheEntries <- 1, EmbedAtOnce <- 1,
    Addresses <- 1, LastHour <- 2, MaxAsked <- 4,
    clock <- v1, recent <- v2, admitted <- v3, cache <- v4, search <- v5

MeaningsInit == scene = "meaning" /\ Meanings!MeaningInit /\ Used(5)
MeaningsNext == Scene("meaning") /\ Meanings!MeaningNext /\ Keep5

-----------------------------------------------------------------------------
(* Five works, one in two volumes, pages of two rows (CatalogPages).         *)
ListedWorks ==
    <<[title |-> <<1>>, author |-> <<3>>, volumes |-> {1}, place |-> 2],
      [title |-> <<1, 2>>, author |-> <<4>>, volumes |-> {1, 2}, place |-> 1],
      [title |-> <<2, 1>>, author |-> <<3>>, volumes |-> {1}, place |-> 0],
      [title |-> <<2, 3>>, author |-> <<1>>, volumes |-> {1}, place |-> 3],
      [title |-> <<2, 3>>, author |-> <<4>>, volumes |-> {1}, place |-> 0]>>
AskedLists ==
    {[kind |-> "works", query |-> <<>>], [kind |-> "works", query |-> <<1>>],
     [kind |-> "featured", query |-> <<>>], [kind |-> "books", query |-> <<>>]}

Pages == INSTANCE CatalogPages WITH
    Works <- ListedWorks, Shown <- (1..4) \X {1}, Lists <- AskedLists, Limit <- 2, MaxChanges <- 1,
    published <- v1, walk <- v2, stood <- v3, ever <- v4, entered <- v5, left <- v6

PagesInit == scene = "catalog" /\ Pages!PagesInit /\ Used(6)
PagesNext == Scene("catalog") /\ Pages!PagesNext /\ Keep6

-----------------------------------------------------------------------------
(* One book in up to four editions, a cache of one (BookReader).             *)
Reading == INSTANCE BookReader WITH
    Shelf <- {"b1"}, Readers <- {"r1", "r2"}, CacheSize <- 1, MaxEdition <- 4,
    file <- v1, row <- v2, parsed <- v3, reader <- v4

ReadingInit == scene = "reader" /\ Reading!ReaderInit /\ Used(4)
ReadingNext == Scene("reader") /\ Reading!ReaderNext /\ Keep4

-----------------------------------------------------------------------------
(* Two administrators over three categories and three works (PanelLists).    *)
Panel == INSTANCE PanelLists WITH
    Admins <- {"a1", "a2"}, Subjects <- 1..3, Works <- 1..3, Tags <- {"t"},
    FirstShelf <- <<1, 2>>, MaxRequests <- 3,
    listing <- v1, shelf <- v2, filed <- v3, desk <- v4, asked <- v5, overlapped <- v6, lastForm <- v7, mixed <- v8

PanelInit == scene = "panel" /\ Panel!PanelInit /\ Used(8)
PanelNext == Scene("panel") /\ Panel!PanelNext /\ Keep8

-----------------------------------------------------------------------------
(* Pages of up to three blocks: a heading, two words or five (PageChunks).   *)
PageBlocks ==
    {[heading |-> TRUE, words |-> <<FALSE>>]} \cup
    [heading : {FALSE}, words : {<<TRUE, FALSE>>, <<FALSE, TRUE>>} \cup {w \in [1..5 -> BOOLEAN] : ~w[1] /\ ~w[4]}]

Chunking == INSTANCE PageChunks WITH
    Blocks <- PageBlocks, MaxBlocks <- 3, ChunkWords <- 8, OverlapWords <- 3, HeadingBreak <- 3,
    MinWords <- 2, CutFrom <- 4, WholeSentence <- 2,
    words <- v1, blocks <- v2, from <- v3, fresh <- v4, chunks <- v5, cutting <- v6

ChunkingInit == scene = "chunks" /\ Chunking!ChunksInit /\ Used(6)
ChunkingNext == Scene("chunks") /\ Chunking!ChunksNext /\ Keep6

-----------------------------------------------------------------------------
(* A Word file of five pages, the last an index of three titles, which stand *)
(* exactly, misspelt, glued or as plain text where they stand (WordContents).*)
Par(of, how) == [of |-> of, how |-> how]
PlainPage == <<Par("none", "text")>>
PageContents ==
    {<<>>, PlainPage, <<Par("A", "exact")>>, <<Par("B", "exact")>>, <<Par("B", "typo")>>, <<Par("C", "exact")>>, <<Par("C", "glued")>>}
WordFiles ==
    {Append(p, <<Par("none", "index")>>) : p \in
        {q \in [1..4 -> PageContents] : \A i, j \in 1..4 : i # j /\ q[i] = q[j] => q[i] \in {<<>>, PlainPage}}}
WordIndexes ==
    {<<[title |-> "A", number |-> 1], [title |-> "B", number |-> i], [title |-> "C", number |-> j]>> :
        i \in {2, 3}, j \in {2, 3, 5}}
Outlines == UNION {[1..n -> {1, 2, 4, 6}] : n \in 1..4}

Contents == INSTANCE WordContents WITH
    Files <- WordFiles, Indexes <- WordIndexes, Blanks <- {{}, {2}}, Fronts <- {0, 1}, FirstNumbers <- {1},
    OutlineRuns <- Outlines, Restart <- 1, MinBlock <- 2, MaxSkip <- 1, WrongDistance <- 1,
    file <- v1, book <- v2

ContentsInit == scene = "contents" /\ Contents!ContentsInit /\ Used(2)
ContentsNext == Scene("contents") /\ Contents!ContentsNext /\ Keep2

-----------------------------------------------------------------------------
(* Word files of up to four paragraphs and breaks (WordPages).               *)
Word == INSTANCE WordPages WITH
    MaxItems <- 4,
    byMarks <- v1, restart <- v2, items <- v3, result <- v4, pending <- v5, count <- v6,
    physicalPage <- v7, parity <- v8, afterSection <- v9, cites <- v10, ended <- v11

WordInit == scene = "word" /\ Word!WordInit /\ Used(11)
WordNext == Scene("word") /\ Word!WordNext /\ Keep11

-----------------------------------------------------------------------------
(* ABX files of up to five tags and lines (AbxBook).                         *)
PageLabels ==
    {[number |-> 1, numeric |-> TRUE], [number |-> 2, numeric |-> TRUE], [number |-> 2, numeric |-> FALSE]}

Abx == INSTANCE AbxBook WITH
    Labels <- PageLabels, MaxTags <- 5,
    tags <- v1, pages <- v2, toc <- v3, open <- v4, indexed <- v5

AbxInit == scene = "abx" /\ Abx!AbxInit /\ Used(5)
AbxNext == Scene("abx") /\ Abx!AbxNext /\ Keep5

-----------------------------------------------------------------------------
(* Texts of three words and PDFs of three pages, with words that come twice  *)
(* (PrintedOriginal).                                                        *)
WordsUpTo(n) == UNION {[1..k -> 1..3] : k \in 0..n}
PrintedPages == {<<x, y, z>> : x \in WordsUpTo(1), y \in WordsUpTo(2), z \in WordsUpTo(1)}

BesideBooks ==
    {[total |-> 5, long |-> 4, ahead |-> 1, holds |-> {<<>>, <<3>>}, seen |-> {0, 5}, after |-> {0}, agree |-> TRUE],
     [total |-> 6, long |-> 3, ahead |-> 0, holds |-> {<<>>, <<2, 1>>}, seen |-> {0, 6}, after |-> {0, 1}, agree |-> TRUE],
     [total |-> 4, long |-> 2, ahead |-> 0, holds |-> {<<>>, <<3>>, <<2, 1>>, <<1, 2>>, <<1, 1, 1>>},
      seen |-> {0}, after |-> {0, 1, 2}, agree |-> FALSE]}

Printed == INSTANCE PrintedOriginal WITH
    Texts <- {<<1, 2, 3>>, <<1, 2, 1>>}, Prints <- PrintedPages,
    Originals <- BesideBooks, Window <- 1, Slack <- 0,
    printed <- v1, paged <- v2

PrintedInit == scene = "printed" /\ Printed!PrintInit /\ Used(2)
PrintedNext == Scene("printed") /\ Printed!PrintNext /\ Keep2

-----------------------------------------------------------------------------
(* Books of three pages beside PDFs of three or four (PageRanges).           *)
PageLocators ==
    {[run |-> 2, slips |-> 1, reach |-> 3, slack |-> 1, tail |-> 0, ranked |-> FALSE],
     [run |-> 1, slips |-> 2, reach |-> 4, slack |-> 1, tail |-> 0, ranked |-> TRUE]}

Ranges == INSTANCE PageRanges WITH
    BookPages <- [1..3 -> {0, 1, 3}], PdfPages <- [1..4 -> {0, 1}] \cup [1..3 -> {0, 2}],
    Locators <- PageLocators,
    beside <- v1, spans <- v2, cursor <- v3, skipped <- v4, ranges <- v5

RangesInit == scene = "ranges" /\ Ranges!RangesInit /\ Used(5)
RangesNext == Scene("ranges") /\ Ranges!RangesNext /\ Keep5

-----------------------------------------------------------------------------
(* Contents pages of up to five lines and leaves of two paragraphs           *)
(* (PrintedContents).                                                        *)
ContentsPages == [lines : {0, 2, 5}, number : 0..6]
Paragraphs ==
    [pieces : {<<{}>>, <<{1}, {2}>>, <<{1, 2}>>}, heading : BOOLEAN, note : {FALSE}, wraps : BOOLEAN]
    \cup {[pieces |-> <<{2}>>, heading |-> FALSE, note |-> TRUE, wraps |-> FALSE]}
Titles(ps) == [i \in 1..Len(ps) |-> [title |-> ps[i][1], page |-> ps[i][2]]]

Paper == INSTANCE PrintedContents WITH
    TocPages <- ContentsPages, MaxPages <- 3, Leaves <- Paragraphs \X Paragraphs,
    Lists <- {Titles(<<<<1, 1>>, <<2, 1>>>>), Titles(<<<<2, 2>>, <<1, 3>>, <<1, 3>>>>)},
    LinesMin <- 2, LinesPerPage <- 1, LookAhead <- 2,
    layout <- v1, laid <- v2

PaperInit == scene = "paper" /\ Paper!PaperInit /\ Used(2)
PaperNext == Scene("paper") /\ Paper!PaperNext /\ Keep2

-----------------------------------------------------------------------------
(* Three books, one held and one that does not convert, two workers, three  *)
(* runs (ImportPool).                                                        *)
Pool == INSTANCE ImportPool WITH
    Books <- 1..3, Held <- {1}, Spoilt <- {3}, Workers <- {"w1", "w2"}, MaxRuns <- 3,
    rows <- v1, disk <- v2, run <- v3, queue <- v4, at <- v5, result <- v6, stop <- v7, runs <- v8, cut <- v9

PoolInit == scene = "pool" /\ Pool!PoolInit /\ Used(9)
PoolNext == Scene("pool") /\ Pool!PoolNext /\ Keep9

-----------------------------------------------------------------------------
(* Pages of up to five characters, one a tatweel or a stop (HitSnippets).    *)
Characters == {"a", "b", "mark", "tatweel", "space", "other"}
TextsUpTo(n) ==
    {t \in UNION {[1..k -> Characters] : k \in 1..n} :
        Cardinality({i \in DOMAIN t : t[i] \in {"tatweel", "other"}}) <= 1 /\ \E i \in DOMAIN t : t[i] = "a"}
Snippets == INSTANCE HitSnippets WITH
    Letters <- {"a", "b"}, PageTexts <- TextsUpTo(5), Reprints <- {<<"b", "mark">>},
    Phrases <- {[letters |-> <<"a">>, breaks |-> {}], [letters |-> <<"a", "b">>, breaks |-> {}],
                [letters |-> <<"a", "b">>, breaks |-> {1}]},
    Radius <- 1, Hits <- 2,
    phrase <- v1, file <- v2, cache <- v3, hits <- v4
ASSUME Snippets!SnippetAssumption

SnippetsInit == scene = "snippets" /\ Snippets!SnippetsInit /\ Used(4)
SnippetsNext == Scene("snippets") /\ Snippets!SnippetsNext /\ Keep4
SnippetsSpec == SnippetsInit /\ [][SnippetsNext]_<<scene, v1, v2, v3, v4>>
MatchesAreWords == Snippets!MatchesAreWords

-----------------------------------------------------------------------------
(* Five headings of two books, a cap of three, pages of two (HeadingSearch). *)
HeadingsFound ==
    <<[book |-> 1, ord |-> 1, like |-> "words", length |-> 3], [book |-> 1, ord |-> 2, like |-> "exact", length |-> 1],
      [book |-> 2, ord |-> 1, like |-> "prefix", length |-> 3], [book |-> 2, ord |-> 2, like |-> "prefix", length |-> 2],
      [book |-> 2, ord |-> 3, like |-> "words", length |-> 3]>>
Toc == INSTANCE HeadingSearch WITH
    Headings <- HeadingsFound, Filtered <- {1, 3, 5}, Cap <- 3, Limit <- 2, MaxChanges <- 2,
    hidden <- v1, walk <- v2, changes <- v3
ASSUME Toc!HeadingAssumption

HeadingsInit == scene = "headings" /\ Toc!HeadingsInit /\ Used(3)
HeadingsNext == Scene("headings") /\ Toc!HeadingsNext /\ UNCHANGED v4 /\ Keep4

-----------------------------------------------------------------------------
(* A list of three levels and one of two, six paragraphs (WordNumbers).      *)
Numbering == INSTANCE WordNumbers WITH
    Lists <- <<<<1, 1, 3>>, <<2, 1>>>>, MaxItems <- 6,
    counters <- v1, items <- v2, labels <- v3
ASSUME Numbering!NumbersAssumption

NumberingInit == scene = "numbers" /\ Numbering!NumbersInit /\ Used(3)
NumberingNext == Scene("numbers") /\ Numbering!NumbersNext /\ UNCHANGED v4 /\ Keep4

-----------------------------------------------------------------------------
vars == <<scene, v1, v2, v3, v4, v5, v6, v7, v8, v9, v10, v11, v12>>

Init ==
    \/ ArrivalsInit
    \/ AnswersInit
    \/ SearchingInit
    \/ RebuildInit
    \/ MeaningsInit
    \/ PagesInit
    \/ ReadingInit
    \/ PanelInit
    \/ ChunkingInit
    \/ ContentsInit
    \/ WordInit
    \/ AbxInit
    \/ PrintedInit
    \/ RangesInit
    \/ PaperInit
    \/ PoolInit
    \/ SnippetsInit
    \/ HeadingsInit
    \/ NumberingInit

Next ==
    \/ ArrivalsNext
    \/ AnswersNext
    \/ SearchingNext
    \/ RebuildNext
    \/ MeaningsNext
    \/ PagesNext
    \/ ReadingNext
    \/ PanelNext
    \/ ChunkingNext
    \/ ContentsNext
    \/ WordNext
    \/ AbxNext
    \/ PrintedNext
    \/ RangesNext
    \/ PaperNext
    \/ PoolNext
    \/ SnippetsNext
    \/ HeadingsNext
    \/ NumberingNext

Spec == Init /\ [][Next]_vars

-----------------------------------------------------------------------------
(* What is checked of each scene; the parts are stated in their modules.     *)

\* The merge: the newest version of a record wins, content and place each for itself
\* (sync_service.py merge).
MergesAgree == scene = "arrivals" => Arrivals!NewestWins /\ Arrivals!PartsMergeSeparately

\* A chat answer is of one model, from distinct passages, and has some when a search
\* found any; merging two searches respects both (chat_service.py).
AnswersHold ==
    scene = "answer" =>
        /\ Answers!OneVoice /\ Answers!SourcesAreDistinct
        /\ Answers!AnswersHaveSources /\ Answers!MergingIsFair

\* A page of search results is that page of all matches, its total is honest, and books
\* taken out of the library leave the results (search_service.py); the limit on searches
\* by meaning, and what their cache answers (meaning_search.py).
SearchHolds ==
    /\ scene = "search" => Searching!SliceIsExact /\ Searching!TotalIsHonest /\ Searching!HiddenBooksLeave
    /\ scene = "meaning" => Meanings!MeaningHolds
    /\ scene = "snippets" => Snippets!MarkedIsThePhrase /\ Snippets!SnippetsAreOfOnePage
    /\ scene = "headings" => Toc!ExactUnderTheCap /\ Toc!CapIsTold

\* Walking a list of the catalog page by page, and the text of a book while books are
\* published, hidden and imported anew (catalog_service.py, reader_service.py).
ReadsHold ==
    /\ scene = "catalog" => Pages!WalksTellAll
    /\ scene = "reader" => Reading!BookReaderHolds

\* What the import scripts count and exit with (import_books.py, reimport_from_json.py).
ImportsHold == scene = "pool" => Pool!PoolHolds

\* The lists two administrators order at once (api/admin.py).
PanelHolds == scene = "panel" => Panel!PanelListsHold

\* What is searched: the exact index is rebuilt with every page, of the text its rows are
\* of, and the chunks that are embedded hold their page (rebuild_exact.py,
\* search_reindex.py, embed_pages.py).
IndexesHold ==
    /\ scene = "rebuild" => Rebuild!SwapKeepsEveryPage /\ Rebuild!IndexIsOfThePages
    /\ scene = "chunks" => Chunking!ChunksHoldThePage

\* The printed contents of a book: every line is placed or reported, and page numbers are
\* those of the print (doc_to_json_v2.py).
ContentsHold ==
    /\ scene = "contents" =>
        /\ Contents!ChainIsLargest /\ Contents!NumbersAreThePrints
        /\ Contents!EveryLineIsPlaced /\ Contents!ContentsAreFound
    /\ scene = "paper" => Paper!PrintedContentsHold

\* What the converters make of the source: notes on the page that cites them, no text
\* lost, pages told apart (doc_to_json_v2.py, shamela_to_json_v2.py).
ConversionsHold ==
    /\ scene = "word" => Word!NotesStandWhereCited /\ Word!SameEitherWay /\ Word!PrintedPagesAreApart
    /\ scene = "numbers" => Numbering!LabelsArePlaces
    /\ scene = "abx" =>
        /\ Abx!NothingOfTheTextIsLost /\ Abx!SectionsCoverTheirPages /\ Abx!NumbersTellPagesApart

\* A book beside its printed original: its pages keep their text and stand beside the
\* pages they are of (pdf_pages.py, workbench/conversion.py).
OriginalsHold ==
    /\ scene = "printed" => Printed!PlanKeepsTheText /\ Printed!PagesKeepInStep /\ Printed!EveryPageIsBeside
    /\ scene = "ranges" => Ranges!NoneBetweenIsLeftOut

=============================================================================
