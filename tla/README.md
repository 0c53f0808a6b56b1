# Formal model of the Thaqalayn backend

TLA+ specifications of the backend: the parts whose correctness depends on the order in which
things happen, and the algorithms that are hard to test by example. TLC checks small instances;
TLAPS proves the safety of sync, sign-in, chat admission, push, embedding, the catalog's change
tracking and the publication of drafts for every instance. Paths are
relative to the repository root; `PROJECT.json` lists every run, mutant, finding and hazard,
and maps each definition to the lines it stands for.

    tlc -workers 2 -config MCSyncStore_feed.cfg MCSyncStore      # a run
    tlapm SyncStoreProofs.tla                                     # proofs

## 1. The system

One FastAPI process (`app/main.py`, started by the `Dockerfile` with a single uvicorn
worker) serves the apps and the website from one PostgreSQL database. Beside it run the
importer and other scripts (their own processes on the same database), the workbench (its own
FastAPI process, files only), and the embedding workers on other machines. All database work is
READ COMMITTED, one session per request (`app/db.py`), so between two statements of a request
any other request may commit.

| Component | State | Operations | What is hard | What makes it correct |
|---|---|---|---|---|
| **Sync store** `app/services/sync_service.py`, `app/api/sync.py` | `sync_records` (one row per user, kind, key), `sync_seq` | push a batch, pull by cursor | concurrent pushes, retries after lost answers, wrong clocks, out-of-order arrival, copies of losing notes | no cursor skips a write; newest content and newest order win separately; no text is lost unseen; everyone converges |
| **Catalog change tracking** migration `e2d84b6a19f7`, `app/services/catalog_sync_service.py`, `app/api/catalog_sync.py` | `book_changes`, `catalog_stamps`, `catalog_seq`, `tombstone_floor` | triggers on every write; `get_changes`, `get_versions`, purge of old deletions | numbers drawn, transaction ids given and commits made in different orders; requests of several statements; forgotten deletions | every committed change reaches every client; a version moves when its contents do |
| **Accounts and sign-in** `app/services/auth_service.py`, `app/services/email_sender.py` | `email_codes`, `verify_calls`, `users`, `auth_sessions`, `used_refresh_tokens` | start, verify, refresh, logout, sign out a device, delete the account, daily cleanup | check-then-act rate limits, concurrent verifications and refreshes, lost answers, deletion in between | a code is good once and for few tries; a reused token ends the sign-in; an ended sign-in stays ended |
| **Chat admission and conversations** `app/api/chat.py`, `app/services/chat_limits.py`, `chat_history.py`, `app/api/conversations.py` | in-memory set of askers, `chat_requests`, `chat_conversations`, `chat_messages` | admit, answer, finish; add a turn, delete, purge | checks, an await, then the entry; the end before the log; a turn that arrives after a delete | nobody stays locked out; limits overshot by the questions under way only; a deleted chat stays deleted |
| **Chat answering** `app/services/chat_service.py`, `chat_scope.py` | none | plan, search twice, fuse and merge, rerank, generate | any of five services fails or times out, models fall back in the middle of a stream | one model's voice; distinct passages; some passages when any search found some |
| **Push notifications** `app/services/push_service.py`, `app/api/push.py` | `push_devices`, `push_outbox`, `push_preferences`, `push_book_versions` | register, enqueue, `run_once`, scan, digests, cleanup | sends before the commit, retries, dead tokens, quiet hours, phones that change hands | not sent again once heard, at most so many a day, each new book told once, every row ends |
| **Workbench and panel's publishing** `workbench/main.py`, `app/services/drafts.py`, `app/api/admin.py` | `draft.json` and `book.json` of each draft, the library | create, save, reconvert, plan, submit, withdraw, delete; publish, replace, undo, return | load-change-save without a lock, threads and background jobs, restarts, a form sent twice | only valid books reach the library, each volume once; no draft is locked for ever |
| **Panel's lists** `app/api/admin.py` | category order, featured works, filing of works | reorder, feature, file | two administrators at once, read then write | nothing is listed twice or dropped |
| **Importer** `scripts/import/import_books.py`, `reimport_from_json.py` | book files, the rows of a book | convert, validate, write the file, upsert; a pool of workers | file before commit; six at a time; a full disk, a kill | file and rows are of one version in the end; the exit code tells of every book left |
| **Embedding fleet and loader** `scripts/embeddings/worker` | claims on the server, queues in the worker, Qdrant | claim, fetch, embed, put, fail, release, load | crashes, lost answers, stale claims, two uploads of one file | every book ends while somebody works; what is loaded is of the book's text |
| **Search** `app/services/search_service.py`, `toc_search_service.py`, `meaning_search.py`, `arabic.py`, `search_reindex.py`, `scripts/search_index` | caches of orders, answers and rates; the replacement index | search, page, mark snippets; rebuild and swap the index | books hidden between statements and pages; caps and batches; imports during a rebuild | a page is that slice of all matches and its total is honest; the new index has every page |
| **Catalog reads, reader** `app/services/catalog_service.py`, `reader_service.py`, `paging.py` | a small cache of parsed books | lists page by page, pages of a book | rows that the order does not tell apart; threads and imports around the cache | a walk shows all that stood; a text is of the version told or a newer one |
| **Converters, validators** `scripts/convert`, `scripts/validate`, `workbench/conversion.py`, `scripts/embeddings/embed_pages.py` | none | text to pages, notes, contents, printed page numbers, chunks | long passes over irregular input, boundaries | no text lost, notes where they are cited, numbers those of the print |

Interactions: sign-out and account deletion touch push devices, sync records, chats and the
chat log; a finished streamed answer enqueues a notification; every writer of the catalog
(importer, admin panel, migrations, SQL by hand) feeds the change tracking through triggers,
and push scans the catalog for new and updated books; the panel publishes what the workbench
submits, and imports it with the importer; the reader and search read the files and rows the
importer writes.

The hazards of every component, covered or not, are in `PROJECT.json` (`hazards`) at the
line where they bite.

## 2. Modules

| Module | What it is |
|---|---|
| `ChangeFeed` | abstract: rows with change numbers, readers with cursors; publish and advance |
| `SyncMerge` | the merge of one pushed item with the stored row, as operators |
| `SyncArrivals` | one record under the merge alone: versions in any order, repeated; with its proofs |
| `SyncStore` | the store of one user: pushes as transactions, pulls by cursor, devices |
| `SyncStoreProofs` | the proofs about `SyncStore` |
| `CatalogWrites` | transactions of the catalog's writers and the numbering triggers |
| `CatalogFeed` | `GET /api/books/changes`, statement by statement, with its purge |
| `CatalogVersions` | `GET /api/catalog/version` and the clients that rely on it |
| `CatalogProofs` | the proofs about `CatalogFeed` and `CatalogVersions` |
| `AuthSessions` | sign-in of one address: codes, sign-ins, refresh tokens, deletion of the account |
| `AuthProofs` | the proofs about `AuthSessions` |
| `ChatQuestions` | a question from its checks to its log row and turn; chats, quotas, cleanup, deletion |
| `ChatQuestionsProofs` | the proofs about `ChatQuestions` |
| `ChatAnswer` | how one question is answered: plan, searches, merging, reranking, models |
| `PushOutbox` | devices, the outbox and the worker that sends a batch in one transaction |
| `PushBooks` | the book scan and the digests, in the worker's loop |
| `PushProofs` | the proofs about `PushOutbox` and `PushBooks` |
| `BookImport` | one import: the file, then the rows in a transaction that may fail |
| `DraftDesk` | drafts under the workbench's threads and the panel's requests, with the importer inside |
| `DraftProofs` | the proofs about `DraftDesk`, with the import inside it |
| `ImportPool` | the scripts that import many books: queue, workers, disk monitor, kills, exit codes |
| `EmbeddingFleet` | workers with threads and queues, the gate's claims |
| `VectorLoader` | uploads of one book at the gate, piece by piece, the loader and Qdrant |
| `EmbeddingProofs` | the proofs about `EmbeddingFleet` and `VectorLoader` |
| `LibrarySearch` | search in the text: order of books, batches, cached answers, slices |
| `HitSnippets` | the snippet of a hit: the page's file, the phrase in the vowelled text, the cut |
| `HeadingSearch` | search in the tables of contents, with its cap |
| `MeaningSearch` | search by meaning: rate limit, slots, cache, one hit a page |
| `SearchRebuild` | the exact index rebuilt beside the importer, and swapped in |
| `CatalogPages` | a list of the catalog walked page by page while volumes are published and hidden |
| `BookReader` | the reader's cache of parsed files under imports and threads |
| `PanelLists` | the panel's ordered lists under two administrators |
| `PageChunks` | a page cut into the passages that are embedded |
| `WordContents` | a Word file's own index matched with its paragraphs, and the page numbers from it |
| `WordPages` | pages and footnotes of a Word file, read by either front end |
| `WordNumbers` | the labels of numbered paragraphs |
| `PrintedContents` | contents lists laid out, completed and made headings |
| `AbxBook` | a Shamela file parsed tag by tag, validated, indexed and read |
| `PrintedOriginal` | the page plan from a PDF, and the pages of the original served beside each page |
| `PageRanges` | the locators, which propose the pages of the original for each page of the book |
| `MC...` | small instances for TLC |

Composition. `SyncArrivals` and `SyncStore` extend `SyncMerge`; `SyncStore` implements
`ChangeFeed`. `CatalogFeed` and `CatalogVersions` extend `CatalogWrites` and add the readers to
its writers. `PushBooks` extends `PushOutbox`: scan and digests queue the rows the worker sends.
`DraftDesk` extends `BookImport`: a publication is the panel's steps around an import, and the
re-import script runs beside them.

*Scenes.* `MCCatalog`, `MCPushBooks`, `MCEmbeddingFleet` and `MCComponents` check several
components that share no state, or two aspects of one, in one run: a behaviour chooses a scene
at the start and walks that component alone while the others rest, so that the state spaces add
up and do not multiply. Nothing is lost by it: there is nothing the components could do to each other.

### Sync store

*State.* `records` is the user's part of `sync_records`, `seq` the PostgreSQL sequence,
`lock` the user's advisory lock, `writes` the rows an uncommitted push has written, `left`
its items not merged yet. The devices are outside the repository: each has an `outbox`, the
`cursor` and the rows (`known`) of its last pull, as `docs/accounts_sync_spec.md` asks of the
apps. `answered` is history: what every committed push was told about notes.

*Steps.* `PushBegin` is the first statement, which waits for the lock; `PushRejected` and
`PushItem` are one turn of the loop over the items, with the sequence numbers it draws;
`PushCommit` ends the transaction, `PushFail` rolls it back (the numbers stay gaps). `Pull`
is one request: a single SELECT of the rows after the cursor. `AnswerLost` makes the device
push the same batch again.

*Data.* A version's content is one value (title and body); `NoData` stands for the empty
dict, `Blank` for empty strings, because the code treats the two alike in one place and not
in another. The manual order is one position. Device ids are numbers in string order. The
nine kinds fall into three classes with different code paths: notes, the other ordered
kinds, the rest. Rejections of an item for its kind, key or size behave like the one for its
time and are represented by it. Text folding of the copy's title is left out.

### Catalog change tracking

*State.* `db` holds the committed rows: each book (text, unpublished, or gone), whether its
work is in the category, its change number, the category's title and its stamp. One category
stands for categories, libraries and the featured works. A number carries the id of the
transaction that wrote it, as `xid8` in the table does.

*Steps.* A writer begins, changes rows one statement at a time, and each statement's trigger
leaves numbers to write (`todo`): `Draw` takes the number, `Upsert` waits for the row lock and
writes it. Drawing and writing are two steps because `nextval` is evaluated before the upsert
waits. `Commit` and `Rollback` end it. `Horizon` is `pg_snapshot_xmin`. In `CatalogFeed` a
request is `Ask` (or `AskAndPurge`, at most hourly in the code), `ReadCurrent`, `ReadFloor`,
`ReadChanges`, `ReadBooks`, each with its own snapshot; `HalfYear` makes the existing numbers
older than `TOMBSTONE_DAYS`. In `CatalogVersions` a check is `ReadStamps`, `ReadVersion` and,
when the version is new, `Fetch`.

### Accounts and sign-in

*State.* `codes`, `logins`, `tokens` and `spent` are the rows of `email_codes`,
`auth_sessions` and `used_refresh_tokens` of one address, `account` its user; a row keeps its
number when it is deleted, so that histories can speak of it. `req` is what each request under way
has read and locked. A code's `wrong`, a sign-in's `by`, a token's `from` and `replayed` are history.

*Steps.* One action per statement that reads, waits or writes. `start` is `StartCheck`,
`StartMail`, `StartCommit`; `verify` is `VerifyAsk` (picks the newest code and waits for its
row), one of `VerifyRefused`, `VerifyWrong`, `VerifyRight`, then `InsertUser`, `SelectUser`,
`RevokeEarlier`, `VerifyCommit`; `refresh` is `RefreshAsk` and `RefreshCommit` or
`RefreshReuse`. `Call` is the check of the access token; `Logout`, `SignOutDevice` and
`DeleteCodes`, `DeleteUser`, `DeleteCommit` go on with what it read, whatever has become of
it. `RollBack` ends a request anywhere. Rows another request has locked are what `CodeIsFree`,
`LoginIsFree` and `UserIsFree` wait for, as PostgreSQL does. Times are reduced to the ages the code
tells apart.

### Chat

*State.* `inflight` is `chat_limits._in_flight`; `log` the rows of `chat_requests`, with their
age reduced to the windows the limits and the cleanup know; `chats` the conversations with the
log ids of their turns; `req` the requests of one server process.

*Steps.* `Ask` checks the caller and the room in the chat, `Count` awaits the counts, then
`AdmitNew`, or `AdmitFollowUp` and `BeginFollowUp` with `earlier_turns` awaited between the look
at the in-flight set and the entry. `Answer` (or `Break`, `Stop`, for an error and a client that
went away), `Log`, `AddTurn`, `EndStream`: `POST /chat` lets the asker go before the log row,
the stream only at its end. `Restart` forgets the memory. `Delete`, `Purge`, `DeleteAccount` and
its commit run between any two of them. `ChatAnswer` is the answer itself, with every call to a
model, the embedder, Qdrant or the database free to fail.

### Push notifications

*State.* `devices` are the rows of `push_devices` by login, `outbox` the queue, `worker` the
batch and what its transaction has changed but not committed; `heard` is what Apple delivered as committed
batches know it.

*Steps.* `Take` locks a batch, `Deliver` decides and sends a row, `Answers` takes what the devices'
sends returned (delivered, dead token, retry, refused), `CommitBatch` writes all of it,
`FlushFails` is the flush that finds a device row gone, `Interrupted` a stop before the commit.
Registration, removal, sign-out and a deleted app happen meanwhile. `Scan`, `Digest`,
`DayBreaks` (a digest is due) and `Tidy` (the daily cleanup, also of the rows of deleted books) are the
loop's other work. `Import`, `SetPublished` (the panel's form, which hides a book or shows it again) and
`Delete` change the books; `passed` is history: the books a digest passed over because they were hidden.

### Drafts and imports

*State.* `meta` is `draft.json`, `book` is `book.json`; `op` is what a handler's thread still has
to do, each load and each save a step of its own, since no lock covers them. `request` is the
panel's request, `aside` the files kept of replaced books; `rows`, `files` and `job` the library,
its files and the imports under way.

*Steps.* A workbench handler checks, then works off its list (`SavesBook`, `LoadsMeta`,
`SavesMeta`, `Converts`, `FindsPages`, `Removes`); `BenchRestart` loses all of them, `HalfHour`
makes a plan stale. A publication resolves the form (`ResolveNew`, `ResolveVolume`,
`ResolveReplace`), checks and writes the file (`CheckAndWrite`), commits or fails (`Imported`,
`ImportFails`) and then marks the draft in two steps. The script reads a file (`ScriptStarts`),
skips or rewrites it and commits. `ImportPool` has the scripts' own order: the queue, the
monitor's stop, the exit code.

### Embedding

`EmbeddingFleet` has a worker's fetchers, embedding thread and uploader as steps on two bounded
queues, with `None` as their end; the gate's `claims`, `done` and `failed` are files. `loop` are the
workers whose `run.sh` runs: `Start` is a hand that starts it, `Restart` the loop after a crash, and
`Exit` (everything uploaded, or DONE, or STOP) and `Quit` (exit code 130) end it, as its lines 19 and 20
do. `Interrupt` is a Ctrl-C in a worker: main ends, and the process waits for its uploader.

`VectorLoader` has one book at the gate. An upload opens the one temporary file (`Open`, which empties
it), writes it piece by piece at its own offset (`Write`), looks at its size, moves it and writes the
two markers, each a step; a file that was renamed or removed is still written by whoever has it
open. The connection may break (`Cut`) and a worker stop for ever (`Dies`). The loader reads the line,
the file and the book in three steps. `Replace` gives the book another number of chunks, larger or smaller.

### The other components

Each is modelled from one file or two, sets of small inputs are taken in one step at the start
(`file`, `printed`, `layout`, `phrase`, `beside`) and the algorithm runs in one step or pass by pass; where
requests overlap they go statement by statement. What is abstracted: words, titles and letters
are members of small sets, told apart only by what the code compares; how alike two texts are
(fuzzy matching, what a PDF's text layer reads) is open wherever the code measures it.

## 3. What the runs check

Nine runs pass; three end in a violation of something a comment of the repository says
(section 6).

| Run | Checks | Bounds |
|---|---|---|
| `store_feed` | `NothingMissed`, `ImplementsFeed`, and under fairness `EveryDeviceCatchesUp`, `EditsAreDelivered` | 2 devices, 2 records, batches of 2, pages of 1, 2 to 3 numbers drawn; 15,000 states |
| `store_notes` | `NothingLostUnseen`: a stored text, as the merge reads it, is replaced only by a device that had seen it, or kept as a copy. `NeverGoesBack`: committed content and order never get older | one note edited, deleted and rearranged by 2 devices with slow, right, future and missing times, a moving server clock, room for 2 copies; 960,000 states |
| `catalog_catalog` | `FeedMissesNothing` and, under fairness, `FeedCatchesUp`; `ContentsMoveVersion`: no commit changes a category's contents without moving its version; `ShelvesCatchUp`, through checks torn by commits | 1 writer with 2 transactions, 4 numbers (5 in the scene of the versions), 2 books of which one moves, 2 titles, 1 client, pages of 1, half a year once; 385,000 states |
| `auth_signin` | `SignInHolds` (a code works once and for few tries, tokens form a chain, reuse ends the sign-in), `NothingOutlivesTheAccount`, `EndedLoginsStayEnded` | 2 requests at once, 1 code with 2 tries, 2 sign-ins (3 when both begin in time), 3 refresh tokens; 1,460,000 states |
| `chat_questions` | `NobodyLockedOut`, `QuotaHolds`, `ChatsHold` (turns point at their log rows; a purged chat leaves no text), `DeletedStaysDeleted`, `AskersAreFreed` | 1 user, 2 requests at once, 2 chats, 3 log rows, one question a minute and a day, two for everyone; 223,000 states |
| `push_outbox` | `OneLoginPerToken`, `SendingHolds` (what was heard is sent; the daily cap), `DigestsHold` (each new book told once; none missed but those hidden when a digest was sent), `EveryRowEnds` | 1 user, 2 logins and phones, 2 rows, batches of 2, 2 attempts, cap 1, 1 interrupted batch; 2 books, 2 versions, 4 times, hidden, shown and deleted at will; 346,000 states |
| `desk_desk` | `LibraryHolds` (only valid books, drafts name books that are there; each volume once, when one form is sent twice), `PlanLockEnds`, `TornBooksHeal` | 1 draft, 2 threads, 2 handlers, 1 page plan, 2 panel requests, the script, 2 versions of a book; 320,000 states |
| `fleet_books` | `FleetHolds` (one place and one worker a book, nothing left behind in a worker that ends), `LoadedIsWhole` (vectors of the text they are stored with, unless two uploads met), and under fairness `BooksEnd` (while some worker gets on), `DoneIsTaken` | 2 books of which one may be unreadable, 2 workers of 2 fetchers, queues of 1, 1 break of any kind; 2 uploads of a book of up to 2 chunks, 1 cut, workers that stop; 287,000 states |
| `components_apart` | 19 scenes: see below | in `MCComponents`, beside each instance; 2,405,000 states |
| `catalog_overtaken`, `desk_original`, `components_words` | the violations of section 6 | 2 writers; a form sent twice in one second; texts of up to 5 characters |

What `components_apart` says of its scenes, one conjunct each, stated in the component's module:

- `MergesAgree`: of marks the newest version is stored in every order of arrival, repetitions
  and ties included; of folders the newest content and the newest order independently (every set
  of up to 3 versions by 3 devices).
- `AnswersHold`: an answer is one model's, from distinct passages, and there are passages when
  either search found any; a page that stands above another in every list stands above it merged.
- `SearchHolds`: a page of text search is that slice of all matches, its total is honest, hidden
  books leave; the rate limit, and one hit a page, by meaning; a marked phrase is the phrase
  searched, and snippets are of one file; search in the contents is exact under its cap and says
  when it is over it.
- `ReadsHold`: a walk to a list's end has all that was listed all through, unless something was
  hidden meanwhile, and nothing twice, unless something was shown; the reader's text is of the
  version told or a newer one, and its cache keeps its size.
- `PanelHolds`: the categories are numbered without gaps, section by section; no two featured
  works share a place unless different changes overlapped; a work is filed as the last form says,
  unless a book of it was uploaded or published beside the form (section 6).
- `IndexesHold`: the rebuilt index has every page, however often the rebuild was killed, of the
  text its rows are of, unless the file was replaced between being read and being joined with them; the chunks of a page
  hold all its words but a short rest, within their sizes, and short sentences whole. An import may come
  between the rebuild's look at a book's pages and its INSERT.
- `ContentsHold`: the chain of index lines kept is a largest consistent one (checked against its
  definition over every chain), the numbers the made book has are those of the print and rise, but for
  the front matter, labels below 0 and pages that were made one (section 6), every line is placed or reported.
- `ConversionsHold`: notes stand on the page that cites them, whichever front end reads the file;
  list labels are the places of their paragraphs; nothing of an abx file's text is lost, sections cover
  their pages, numbers tell pages apart. Notes are compared before merged pages are split.
- `OriginalsHold`: a page plan keeps the text in order; pages keep in step with the original; a
  locator leaves no page out between the first and the last it claims, and the map that is
  served keeps the pages it was given, when no match is trusted or when they are two at most, hold the page's
  text and the book is in step there. Wider ranges are given up (section 6).
- `ImportsHold`: what a run counts as imported is imported, and its exit code is 0 only when
  every book that could be is.

*Why the bounds are enough.* The hazards of the sync store need two pushes at once (two
devices), a page that ends between two rows (pages of one, two rows), a batch that commits
several rows at once and one that fails after drawing a number; all happen within three
numbers. A note is lost or copied by an edit, a newer edit that has not seen it, and a retry:
two pushes and one repetition. `MaxSeq` stops new pushes only, never one that began. For the
catalog, a cursor can skip a number only if two are pending or a page ends between them, and
a reset matters only once a deletion is older than half a year: two books, one age. Codes,
tokens and sign-ins are shared by two requests at a time: the row locks that keep them apart are
between two, and a copied token needs the token, the one it was exchanged for and one more. The
races of chat, drafts and the panel are between two requests; a third only repeats them in chat, and in the panel it finds what section 6 says of `OneBookPerVolume`. A
push row is sent, retried and given up within two attempts, and the cap of one is met by two
rows. Queues of one are full and empty, and two fetchers are the least of which one can be the last.
Every mutant in `PROJECT.json` (one per property: the lock not taken, the page sorted the other
way, the asker kept after a stop, the queue closed by the first fetcher ...) is found within
these bounds; the modules hold further mutants of their parts.

*One writer at a time* in the passing catalog run is an assumption, not a simplification:
with two concurrent writers the feed does lose changes (`catalog_overtaken`), and
TLC finds `ContentsMoveVersion` violated too. `CatalogProofs` takes it as a hypothesis (`TakeTurns`), for any number of writers. It holds when only
the panel writes, and not during an import (`scripts/import/import_books.py` runs six
workers). *One administrator* in `desk_desk`: requests of the panel overlap only as one form sent
twice, and nobody publishes while the re-import script runs, as the deployment does it.

Deadlock is checked in the sync, catalog and sign-in runs. The others have `CHECK_DEADLOCK
FALSE`: their bounds (questions, rows, handlers, runs, one input) let a behaviour end.

## 4. Fairness

`SyncStore` (`FairSpec`): a device goes on pulling and pushing (the apps retry). Weak
fairness is enough for the pull. A push waits for the advisory lock, which PostgreSQL grants
in the order of asking; between attempts another device may hold it, so the lock is granted
to a device that keeps asking although it is not continuously free: strong fairness. The same
for the steps of a push, since a failure may interrupt them, and for its answer: a push that is tried again
and again is not rolled back every time. Edits and failures have no fairness.
`EditsAreDelivered` needs no other assumption about the lock: that a failed push releases it is in the code
(the transaction ends), and the mutant that keeps it breaks the property.

`CatalogFeed`, `CatalogVersions`: a client goes on asking and its requests are answered (weak
fairness of the next statement); old deletions are purged eventually (`CatalogVersions`).
Writers have no fairness: they may stop in mid-transaction, as a hung import does. A client
catches up with what is served.

`ChatQuestions`: a request that was admitted goes on (`Progress`: the event loop runs it, and
every wait in it has a timeout). Nothing is assumed of breaks, restarts or deletions.

`PushBooks`: the worker's loop goes on (weak fairness of `WorkerStep`); the clock is strong where
time passes whatever else happens: the night ends, a back-off ends, a day passes. Interrupted batches have a bound, because a
worker that never commits never ends a row.

`DraftDesk`: half an hour passes for a plan under way, some request of the panel goes on, and the
script is run after every deployment over every book and does not fail every time (strong
fairness of its start and its commit). Handlers have none.

`EmbeddingFleet`: threads go on, claims nobody works on grow old, and `run.sh` starts its worker again after
a crash (weak fairness of `Restart`). Nobody has to start a worker that ended, so `BooksEnd` says that
every book ends or there is a time from which nobody works. `VectorLoader`: commands on the
server go on while they have something to read, and the loader looks at the inbox again and again;
a worker may stop for ever and a connection hang. The other scenes have no liveness property.

## 5. What is proved

Twenty-five theorems in eight modules, each for every value of the constants that satisfies the
assumptions of the module it is about. The bounds that stop TLC (`MaxSeq`, `MaxRows`,
`MaxTokens`, ...) are any numbers. Everywhere the property that a run checks is not inductive,
and what had to be added is named below; TLC checked most of the added invariants on the runs'
instances before they were proved.

| Module | Theorem | States |
|---|---|---|
| `SyncStoreProofs` | `TypeCorrect` | `[]TypeOK` |
| | `CursorsMissNothing` | `[]NothingMissed` |
| | `StoreIsAFeed` | `ImplementsFeed`, the refinement of `ChangeFeed` |
| | `NoTextIsLostUnseen` | `[]NothingLostUnseen` |
| | `RecordsNeverGoBack` | `NeverGoesBack`, an action property |
| `SyncArrivals` | `NewestIsStored` | `[]NewestWins` |
| | `PartsAreStoredSeparately` | `[]TextIsNewest` of the ordered kinds, and `[]PartsMergeSeparately` without deletions |
| `AuthProofs` | `OneCodeOneSignIn` | `[]SignInHolds` |
| | `NoSignInOutlivesItsAccount` | `[]NothingOutlivesTheAccount` |
| | `EndedSignInsStayEnded` | `EndedLoginsStayEnded`, an action property |
| `ChatQuestionsProofs` | `EntriesHaveQuestions` | `[]NobodyLockedOut` |
| | `LimitsAreOvershotByAtMostThoseUnderWay` | `[]QuotaHolds` |
| | `ChatsShowWhatIsLogged` | `[]ChatsHold` |
| | `DeletedChatsStayDeleted` | `DeletedStaysDeleted`, an action property |
| `PushProofs` | `ATokenIsOneLogins` | `[]OneLoginPerToken` |
| | `NothingIsSentTwice` | `[]SendingHolds` |
| | `NewBooksAreToldOnce` | `[]DigestsHold` |
| `EmbeddingProofs` | `BooksAreSharedOut` | `[]FleetHolds` |
| | `LoadedVectorsAreOfTheBooksText` | `[]LoadedIsWhole` |
| `CatalogProofs` | `PassedChangesAreShown` | `[]ChangesShown`, when transactions take turns |
| | `NothingIsMissed` | `[]NothingMissed`, when besides nothing is forgotten between two statements of a request |
| | `FeedMissesNothingIsSafe` | `[]FeedMissesNothing`, one client, when transactions take turns |
| | `ContentsMoveTheVersion` | `ContentsMoveVersion`, an action property, when transactions take turns |
| `DraftProofs` | `OnlyValidBooksArePublished` | `[]LibraryIsValid` and `[]PublishedIsInLibrary` |
| | `PublicationHolds` | `[]LibraryHolds`, with each volume once for two requests |

### Sync store

For any number of devices, records, items per push and pages. Assumed: `Keys` finite, naturals
for the bounds, distinguished values outside the sets they are distinguished from (`SyncMerge`,
`SyncStore`).

`IInv` is `TypeOK` and `NothingMissed` with `OneWriter` (who has written without committing, or
has items left, holds the lock and is pushing), `NothingAheadOfSeq` (no committed number and no
cursor is above `seq`) and `WritesAreFresh` (an uncommitted row's number is above every committed
number and every cursor). `NothingMissed` alone is not inductive: a commit could put a row below a
cursor. The lock is what makes writes fresh: another push cannot commit, and so no cursor can
move up, past a number that was drawn and not committed. `PushItemStep` is the long lemma: two
numbers when a copy is made; `PageIsAnInterval` turns the cardinality in `Page` into an order.
For `StoreIsAFeed`, a commit is a `Publish`, a pull an `Advance`, every other step leaves the feed
as it is.

`KeepInv` is about contents. `NothingLostUnseen` speaks of answered pushes and committed rows, but
the answer of an item is decided in the middle of a transaction and counts only when it commits.
So `NotesAreTraced` says the same of what each transaction sees (`View`) and has answered so far;
`WritesGoOnward` says that a row about to be committed is not older, in content or in order, than
the committed one, which holds because nobody else can commit meanwhile; `RowsAreWhole` and
`CopiesStayApart` say that a copy has a key no edit ever has. `MergeKeepsText` and
`MergeGoesOnward` are the facts about `Merge`, `TraceGoesOn` carries the trace over one item. The
texts are compared as the code reads them (`Content`): a push without a title and body and one with
empty ones say the same. Compared as they were sent, the property is false: an empty text over an
absent one leaves no copy, and needs none.

`SyncArrivals`: any number of versions of any devices, in any order, each any number of times
(`BatchesAreVersions`; notes are `SyncStore`'s). Without a manual order the stored version is one of those that arrived,
none newer; what was not newer than the stored version is not newer than its successor
(`NewerIsAnOrder`). With one, the newest time of each part is kept (`TextIsNewest`, `OrderIsNewest`), although
the device id beside it may be another's: that only matters between equal times. For the place in the
order no version may be a deletion (`AllInOrder`), since a deletion loses it (section 6,
`PlaceOutlivesDeletion`); for the content that is no matter.

### Accounts and sign-in

For any number of requests at once, devices, codes, sign-ins and refresh tokens.

`AuthInv` adds to the properties what the tables hold (`Tables`: a sign-in's token is its own and
was never exchanged; a code that opened a sign-in is used) and, for every request, that what it
has read is still so when it writes (`Stands`): its code has tries left, its token is still the
sign-in's, the user it found is there. Two requests cannot spoil that for each other because they
hold no row in common (`Apart`), which `SELECT ... FOR UPDATE` and the unique keys see to; the rows it
reads without holding (`reuse`, `logout`) it only ends. `AuthStep` has a lemma for each statement.
`EndedSignInsStayEnded` reads the same invariant: the only step that renews a sign-in holds its
row and found it live.

### Chat

For any number of accounts, chats and requests at once, any limits (0 is none), and finite `Slots`;
`NoRow` and `NoChat` are no rows (`NamesAssumption`).

For `NobodyLockedOut` it has to be known what a request holds at each stage (`RequestsOK`);
`OneRequestMoves` is the argument: a step takes out of the in-flight set only its own request's
asker, and that request is then no longer entered. `QuotaHolds` is not inductive, since a question
adds to the log long after it was let through. `QuotaInv` counts such a question (`Pending`: from the
look at the counts to the row) together with the rows: looking at the counts makes the bound anew,
because then the rows alone are below the limit and the questions are no more than the requests
(`BoundMade`); the log row takes the place of its question (`BoundMoves`); refusals, failures,
restarts, deletions and time only take away (`BoundKept`). The daily and minute limits are kept for
each account's own questions.

`ChatInv` is for the chats. A turn is added by a request that looked at the chat long before, so
it must be known what such a request may rely on (`Reliable`): the chat, if it is there, is still its
asker's and not an old one; it is removed only together with its asker's account; the row it
logged is there as long as the account is. Two requests in one chat have one asker (`Agree`), and a
deletion under way removes rows of its own account only (`ErasingOK`). `TurnsAreLogged` and
`RemovedChatsLeaveNoText` follow step by step, and so does `DeletedStaysDeleted`: a
late turn may be added to a deleted chat, and changes nothing of what shows.

### Push notifications

For any number of users, logins, tokens and rows, any batch, attempts and cap. Assumed: every login has a
user and the users are finite; `NoDevice` is no device row.

Between two batches the promises suffice; within one, the worker's transaction has sent what it has
not committed. `QueueInv` says so: the rows a batch holds wait in the table and are each still to do, being sent
or written (`BatchOK`); the device rows it holds are there, or the flush will find them gone (`DevicesOK`); and the
cap holds for the rows as the batch sees them, with room for what is being sent
(`CapOK`), which is where counting before committing matters. A batch that is interrupted is sent again, since Apple's
answers are lost with it; `SendingHolds` is about the answers that were committed. `DigestInv`
relates the times: a book a user was told of was first seen after the start and no later than the
user's last digest, and no mark is ahead of the clock; so a digest, which takes books first
seen after the last one, takes no book twice and passes over those alone that are hidden (`passed`). A book that
was deleted and tidied away begins anew.

### Embedding

For any number of workers, fetchers, books, crashes and lost answers, queues of any size, any manifest
without repetitions, and any number of senders and chunks. Assumed of the loader: no file is no sequence
(`LoaderAssumption`).

`FleetInv` says of every book whose claim was never given away (`old` are the others): in a running
worker it stands in one place at most (`Once`: a fetcher's hands, the first queue, the embedding
thread's hands, the second queue), while it waits the worker has its claim, and two
workers never both have its vectors (`BookOK`). `Ending` says what the closing marks on the queues
mean: a mark is the last item, and when it is there every fetcher has ended; without it the
last fetcher could close a queue others still fill, and a worker could end with books in
it. `Appended` and `Taken` are the facts about queues, one `Hands...` lemma for each thread's move.

`LoaderInv` says that two uploads have met at the temporary file, or `Separate`: at most one is between its
opening and its mv, the file then has that upload's text and nothing else, as long as it has written, and the inbox
has one text throughout, whose number of chunks is its length. So what the loader read is of one text, and
its last look at the book (`Matches`) makes it the book's. The size test alone does not:
`OneTextIsAFile`, `WrittenBehind` are about the pieces, `RenamedPuts` about who still writes a file that was moved.

### Catalog change tracking

For any number of books, texts, titles, clients and transactions, pages of any size. Assumed: a
deleted book (`Gone`) is none of the books and texts.

`TakeTurns`, that no two transactions are open at once, is a hypothesis of the theorems and not a
guard of the model: without it TLC shows both properties false (`catalog_overtaken`; section 3).
`PurgesApart`, that no request forgets old deletions between the statements of another that read the floor and
the changes, is one too for `NothingIsMissed`: that is the hazard at
`catalog_sync_service.py` 134, and `CatalogFeed.NoDeletionMissed` shows it (section 6). With one client it is
proved (`OneClientPurgesApart`), which is how `FeedMissesNothingIsSafe` does without it. What needs no such
hypothesis is `PassedChangesAreShown`: every change that still has its number is shown.

`WritersInv` is about the writers. Whatever a transaction shows otherwise than the catalog does has a
number in it, or a trigger still to give it one (`TxnOK`). A number is `Settled` when every number that a
transaction has drawn or written is above it; committed numbers are settled, with turns what is
settled stays so, and a commit gives the books it changes numbers above it (`NumbersGoAhead`). `FeedInv` adds the clients: what a request has read at each of its
statements (`ClientsOK`), and that a book whose number the cursor has passed is shown, or stands in the page
read and not yet answered (`PassedIsShown`). `NothingMissed` is not inductive because that page's
books are read after its numbers; the newer book is shown then, and its newer number comes again.
A page ends at the largest number it holds, so that it is an interval and what is above it waits. `DeletedInv` is
about the deletions that were forgotten: a client whose cursor is not below the floor shows none
(`ForgottenIsShown`), and a request on the way to its rows was not told to reload and still need not be
(`FloorIsBelow`, which is where `PurgesApart` is used).

For `ContentsMoveTheVersion`, `StampOK` says of an open transaction that it has, written or still due from its
triggers, a new stamp of the category (`Numbered`); or that only books which stay in the catalog differ for it,
each with a new number. Either is above every committed number, and at the commit nothing is due any more.

### Drafts and publication

For any number of drafts' pages, threads, handlers, plans, requests, imports, ids and contents. Assumed
(`ShelfAssumption`): the library at the start holds valid books, each volume once.

A request marks its draft long after it resolved the form, and a handler saves what it loaded long
before. So `DeskInv` says it of every copy that may come back: what a thread, a job or a request has
loaded or is going to write of `draft.json` names only books of the library (`MetaOK`, `ChangesOK`),
which never loses one; what is kept aside or in a file is a book, and what is on its way to the rows, or
in them, a valid one (`BenchOK`, `PanelOK`, `AsideOK`, `ImportOK`). `DeskStep` has a lemma for each step, and for each
kind of request.

"Each volume once" is not inductive, since rows are not all that counts: a failed import leaves its file
behind, a check looks at rows that an import under way has not written yet. `VolumesApart` says it of what a book
*holds*: its row, its file and the import under way. With two requests, either both wrote nothing yet, and the
numbers they were given are new (`NothingWritten`, `NumbersAreNew`); or one is still before its check, and
what the other left is of one volume under one number, the next one if the import failed
(`BooksAreWhole`, `NumbersFit`), so that the check meets either the row or the same number; or both are past
it. A third request can be checked beside the second, which is section 6's `OneBookPerVolume`.

### What stays with TLC

- All liveness: it and `ENABLED` are out of the prover's reach.
- `MCComponents`' ten invariants, but for what `SyncArrivals` proves of `MergesAgree`. Most are about what an algorithm makes of its input, by
  recursion or folds over data of any length, which needs induction over data; the others stand in modules
  that share an instance with those. TLC evaluates them over every small input of the bounds.
- `MCComponents.ImportsHold` and `IndexesHold` could be proved in part; their exceptions (a cut
  file, a file replaced meanwhile) are in the code.

In the proofs, "there is a least one" (a first row, a first place in a queue) comes from `WFMin`
and `NatLessThanWellFounded`, which take no operator as a parameter; the induction theorems
that do cannot be used.

## 6. Where the code departs from what it says

Three are runs that TLC must end with a counterexample; `PROJECT.json` quotes the sentence.

- `catalog_overtaken`: an older transaction that draws a later number is served before a younger
  one that drew an earlier number; the cursor passes the younger one's change.
- `desk_original`: a replacing form sent twice within a second; the second request copies the new
  file over the only copy of the old one.
- `components_words`: the query ليل is marked inside لَيلَة. The pattern gives the vowel mark after
  the last letter back, and the lookahead takes the mark for the end of the word.

Others are stated in their modules as definitions no run lists. TLC finds the first eight in the
instance named, checked in place of the run's properties; the rest the model shows on reading:

- `SyncArrivals.TieGoesToLargerDevice` (`components_apart`, with folders that have equal times):
  when only the order of a pushed version wins, its device id is stored beside content another
  device wrote; a later tie on the content goes to the wrong device.
- `SyncArrivals.PlaceOutlivesDeletion` (`components_apart`, with folders of which one is deleted): a folder moved,
  deleted and written anew has the place of the new version, which may be older, under the time of the
  move; when the deletion comes last or not at all, it has the place of the move. "sortIndex or
  position comes from whichever side has the newer orderChangedAt" (`docs/accounts_sync_spec.md`).
- `SyncStore.OneCopyPerEdit` (`store_notes`, with `MaxSeq` 3): pushing again after a lost answer makes a second
  copy of the same losing edit.
- `CatalogFeed.NoDeletionMissed` (`catalog_catalog`, two clients): a purge between two statements of a
  request takes away a deletion the request was about to deliver, and its new cursor is above the
  floor.
- `CatalogFeed.ReloadsEnd` (`catalog_catalog`): when the newest change is a forgotten deletion, the
  latest number is below the floor and every answer is a reset until the next change.
- `CatalogVersions.ShelvesAlwaysCatchUp` (`catalog_catalog`): when an unpublished book's number is
  forgotten, the version of its category falls back to one that was given for other contents.
- `ChatQuestions.NothingOutlivesTheAccount` (`chat_questions`): the log row and turn of a question under way
  are written after its account was deleted.
- `DraftDesk.OneBookPerVolume` (`desk_desk`, with `MaxRequests` 3, a third id, books of two titles and
  `MaxPlans` 0): `admin.py` 1327 means to "refuse a second copy of the same volume", but looks for
  one in a statement of its own before the import. A book saved behind a submission and a number given
  twice let a third publication check beside the first, and both are imported. With two
  requests it holds, which is what `LibraryHolds` says.
- `start` (`AuthSessions`): two requests at once may both be sent a code within a minute.
- `PushOutbox`: a token reported dead disables a phone that registered it again meanwhile.
- `ImportPool` (`cut`): a forced re-import cut short by a full disk leaves a file that later runs
  take for unchanged; `ImportsHold` excepts it.
- `VectorLoader`: a book the loader has set aside (`.bad`) is never tried again, although the
  next upload may be whole.
- `VectorLoader`: two uploads of one book at once (a stale claim given away, or an upload repeated while
  its first connection hangs) write one `inbox/{id}.tmp`, each at its own offset. A file of the right
  size can hold pieces of both texts, and a writer goes on into the file after the other's mv, so that
  vectors of another text than the book's are loaded. `LoadedIsWhole` excepts it (`met`).
- `VectorLoader`: one upload passes its size test, the other is cut short and takes the file away, the
  first finds nothing to move and marks the book done. If the second's worker then stops for ever, the
  book is done and nothing is in the inbox, although "a book is done only when its vectors have arrived"
  (`worker.py` 9). `DoneIsTaken` excepts it.
- `EmbeddingFleet`: a worker that is told DONE while other workers, or its own lost answers, hold claims
  exits with 0 and nobody starts it again; if those workers stop, the books stay. "Stops by itself when
  the server has no books left" (the worker's `README.md` 14). A Ctrl-C, which it says stops the worker (19),
  leaves the process waiting for its uploader, which waits for a mark that main no longer sends.
- `PushBooks`: a new book that the scan has recorded and the panel hides (`admin.py` 804-812) over a digest
  is not told when it is shown again, as the next digest begins after it; `DigestsHold` excepts it (`passed`).
  A book hidden at the very first scan is a new one when it is shown.
- `PanelLists`: `_import_book_json` (uploads and publishing, `admin.py` 1370-1374) files a work after the
  importer's commit, without the lock on its row that the form takes. Beside a form the work ends up under
  the subjects of both, or one of them fails at the primary key. `FiledAsTheForm` excepts it (`mixed`).
- `WordContents`: `convert_doc` writes the labels as text (`doc_to_json_v2.py` 1744) and the Shamela parser
  reads their digits alone (`shamela_to_json_v2.py` 154-168). Pages before the print's page 1 are labelled
  0, -1, -2 and come out 0, 1, 2: with an index whose page 1 is the fourth page the book is numbered
  2, 1, 0, 1. With one page of front matter and a text that begins at page 1, both are labelled
  alike and become one page, the next is 2. `NumbersAreThePrints` excepts both.
- `PrintedOriginal`: "a rendered page between two consecutive pages' ranges is shown with the page before
  it, so every page of the original can be seen next to something" (`conversion.py` 632-634) is true of a
  locator's answer. In the map that is served `_keep_in_step` (733-736) leaves a page of the book with the
  page shown alone when its range is wider than two pages or does not have that page: of a page whose
  text fills three pages of the original two are beside nothing, and so are two blank pages after one.
- The rendering's status (`workbench/main.py` `rerender`, `upload_pdf`), unlike the plan's, does
  not age: lost in a restart while it is "running", it refuses to be rendered again or to take a
  PDF, until the draft is deleted.
- `HeadingSearch`: a page past the end answers a total of 0; over the cap the statement has no
  order, so the pages of one walk may repeat and miss headings.
- `WordNumbers`: a list that starts at 0 repeats 0; `NumbersAssumption` leaves it out.
- `HitSnippets`: a phrase whose words are separated by a vowel mark alone is taken for two words, and a
  word that begins with a tatweel is not marked.

## 7. What is not modelled

*Application shell* (routing, settings, start and stop of the loops), *schema, seeds and other
migrations* (declarations and one-time data changes), *load test, benchmark and maintenance
scripts* (run by hand): no state of their own whose order matters.

Within the modelled ones. Sync: users other than one (they share only `sync_seq`, and make gaps
in it), the sizes and formats of items, the uuid of a copy (a fresh key). Catalog: the text of
the answers, ETags, the counts beside the category versions. Accounts: the limits per network
address, access tokens (they live and end with their sign-in), the email providers. Chat:
renaming and listing of conversations, the event stream's framing, prompts, the parsing of a
model's JSON, the scope resolver's SQL. Push: Apple's service, the texts. Workbench and panel:
form fields, preview pages, LibreOffice, edits of single fields, the category tree's own
editing. Importer: the path of a text into rows. Search: the folding of letters (a table), the eviction of kept
answers. Catalog lists: their filters and counts. Converters: the reading of the file formats
and styles, inline markup, the recognition of text in PDFs, the wording of reports. The components'
notes in `PROJECT.json` say the same part by part. Deadlocks between writers end in a rollback by PostgreSQL,
which `Rollback` and `RollBack` allow at any time.

## 8. Plan

1. Proofs: one conjunct at a time of the components whose algorithms have no recursion:
   `BookReader`, `PanelLists`, `SearchRebuild`.
2. The queue of the embedding worker and the import pool as refinements of one abstract
   work queue: each item is taken by one worker and ends once.
3. The rest of the panel: the category tree, and edits of single fields beside an import.
