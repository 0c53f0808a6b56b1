------------------------------ MODULE PushBooks ------------------------------
(***************************************************************************)
(* What the push worker queues by itself (app/services/push_service.py):   *)
(* scan_books compares the published books with the versions announced,    *)
(* send_digests tells the users who asked for it of the new ones.  Both    *)
(* run in the worker's loop, each in one transaction, between two batches. *)
(***************************************************************************)
EXTENDS PushOutbox

CONSTANTS
    Books, Library,     \* Library: the books there are before the first scan
    MaxVersion, MaxClock    \* bounds: imports of a book, events with a time

ASSUME BooksAssumption == Library \subseteq Books /\ MaxVersion \in Nat /\ MaxClock \in Nat

VARIABLES
    version,    \* books.content_version; 0: no such book
    published,  \* the books with is_published
    known,      \* push_book_versions.content_version; 0: no row
    firstSeen,  \* push_book_versions.first_seen_at; 0: the epoch
    seeded,     \* the row of book 0
    owns,       \* push_user_books (and the books in sync_records)
    digest,     \* push_preferences of new_books: updated_at, last_sent_at (0: never)
    digested,   \* users told within the last 20 hours
    clock,
    told,       \* user -> book -> digests that counted it, since its row was recorded
    atFirst,    \* the books the first scan recorded
    passed      \* <<user, book>>: hidden or gone when a digest would have counted it

books == <<version, published, known, firstSeen, seeded, owns, digest, digested, clock, told, atFirst, passed>>
vars == <<pushvars, books>>

Init ==
    /\ PushInit
    /\ version = [b \in Books |-> IF b \in Library THEN 1 ELSE 0]
    /\ known = [b \in Books |-> 0]
    /\ firstSeen = [b \in Books |-> 0]
    /\ seeded = FALSE
    /\ owns = [u \in Users |-> {}]
    /\ digest = [u \in Users |-> [updated |-> 0, lastSent |-> 0]]
    /\ digested = {}
    /\ clock = 0
    /\ told = [u \in Users |-> [b \in Books |-> 0]]
    /\ published = Library /\ atFirst = {} /\ passed = {}

\* The importer publishes a new book, or replaces the content of one, which
\* stays hidden or shown.
Import(b) ==
    /\ version[b] < MaxVersion
    /\ version' = [version EXCEPT ![b] = @ + 1]
    /\ published' = IF version[b] = 0 THEN published \union {b} ELSE published
    /\ UNCHANGED <<pushvars, known, firstSeen, seeded, owns, digest, digested, clock, told, atFirst, passed>>

\* The panel's form hides a book or shows it again.
SetPublished(b) ==
    /\ version[b] > 0
    /\ published' = IF b \in published THEN published \ {b} ELSE published \union {b}
    /\ UNCHANGED <<pushvars, version, known, firstSeen, seeded, owns, digest, digested, clock, told, atFirst, passed>>

\* A book's row is taken out by hand; no code does it, cleanup expects it.
Delete(b) ==
    /\ version[b] > 0
    /\ version' = [version EXCEPT ![b] = 0]
    /\ published' = published \ {b}
    /\ UNCHANGED <<pushvars, known, firstSeen, seeded, owns, digest, digested, clock, told, atFirst, passed>>

\* set_books, patch_books.
SetBooks(u, S) ==
    /\ owns[u] # S
    /\ owns' = [owns EXCEPT ![u] = S]
    /\ UNCHANGED <<pushvars, version, published, known, firstSeen, seeded, digest, digested, clock, told, atFirst, passed>>

\* set_preferences: the kind's updated_at moves, whatever it was before.
SetPreference(u, kind, on) ==
    /\ clock < MaxClock
    /\ enabled' = [enabled EXCEPT ![u] = IF on THEN @ \union {kind} ELSE @ \ {kind}]
    /\ IF kind = "new_books"
       THEN /\ clock' = clock + 1
            /\ digest' = [digest EXCEPT ![u].updated = clock']
       ELSE UNCHANGED <<clock, digest>> /\ enabled' # enabled
    /\ UNCHANGED <<alive, devices, outbox, worker, night, configured, dead, heard, breaks,
                   version, published, known, firstSeen, seeded, owns, digested, told, atFirst, passed>>

\* The first scan only records the published books.
Seed ==
    /\ worker = Off /\ ~seeded
    /\ seeded' = TRUE
    /\ known' = [b \in Books |-> IF b \in published THEN version[b] ELSE 0]
    /\ atFirst' = published
    /\ UNCHANGED <<pushvars, version, published, firstSeen, owns, digest, digested, clock, told, passed>>

New == {b \in published : known[b] = 0}
Updated == {b \in published : known[b] # 0 /\ version[b] > known[b]}
ToldOfUpdates == {u \in Users : owns[u] \intersect Updated # {} /\ Queued(u, "book_updates")}

\* A later scan: new books are kept for the digest, updates told to their owners.
Scan ==
    /\ worker = Off /\ seeded /\ New \union Updated # {}
    /\ clock < MaxClock /\ Len(outbox) + Cardinality(ToldOfUpdates) <= MaxRows
    /\ clock' = clock + 1
    /\ known' = [b \in Books |-> IF b \in New \union Updated THEN version[b] ELSE known[b]]
    /\ firstSeen' = [b \in Books |-> IF b \in New THEN clock' ELSE firstSeen[b]]
    /\ \E order \in SetToSeqs(ToldOfUpdates) :
            outbox' = outbox \o [k \in DOMAIN order |-> NewRow(order[k], "book_updates")]
    /\ UNCHANGED <<alive, devices, enabled, worker, night, configured, dead, heard, breaks,
                   version, published, seeded, owns, digest, digested, told, atFirst, passed>>

\* Mutant: only switching the digest on counts.
SinceSwitchedOn(u) == digest[u].updated

Since(u) == Max({digest[u].lastSent, digest[u].updated})
Recent(u) == {b \in Books : known[b] # 0 /\ firstSeen[b] > Since(u)}
Unheard(u) == Recent(u) \intersect published

\* Mutant: the time is noted although nothing could be queued.
DigestRegardless(u) ==
    /\ worker = Off /\ ~night /\ "new_books" \in enabled[u] /\ u \notin digested
    /\ Unheard(u) # {} /\ clock < MaxClock
    /\ clock' = clock + 1
    /\ digest' = [digest EXCEPT ![u].lastSent = clock']
    /\ UNCHANGED <<pushvars, version, published, known, firstSeen, seeded, owns, digested, told, atFirst, passed>>

\* send_digests, for one user: at their hour, at most once in 20 hours.
Digest(u) ==
    /\ worker = Off /\ ~night
    /\ "new_books" \in enabled[u] /\ u \notin digested
    /\ Unheard(u) # {} /\ Queued(u, "new_books")
    /\ clock < MaxClock /\ Len(outbox) < MaxRows
    /\ clock' = clock + 1
    /\ outbox' = Append(outbox, NewRow(u, "new_books"))
    /\ digest' = [digest EXCEPT ![u].lastSent = clock']
    /\ digested' = digested \union {u}
    /\ told' = [told EXCEPT ![u] = [b \in Books |-> IF b \in Unheard(u) THEN @[b] + 1 ELSE @[b]]]
    /\ passed' = passed \union ({u} \X (Recent(u) \ published))
    /\ UNCHANGED <<alive, devices, enabled, worker, night, configured, dead, heard, breaks,
                   version, published, known, firstSeen, seeded, owns, atFirst>>

\* The next day.
DayBreaks ==
    /\ digested # {}
    /\ digested' = {}
    /\ UNCHANGED <<pushvars, version, published, known, firstSeen, seeded, owns, digest, clock, told, atFirst, passed>>

\* cleanup, once a day: the rows that are done, and those of books that are gone.
Gone == {b \in Books : version[b] = 0 /\ known[b] # 0}
Tidy ==
    /\ Cleanup
    /\ known' = [b \in Books |-> IF b \in Gone THEN 0 ELSE known[b]]
    /\ firstSeen' = [b \in Books |-> IF b \in Gone THEN 0 ELSE firstSeen[b]]
    /\ told' = [u \in Users |-> [b \in Books |-> IF b \in Gone THEN 0 ELSE told[u][b]]]
    /\ atFirst' = atFirst \ Gone
    /\ passed' = passed \ (Users \X Gone)
    /\ <<outbox', devices', known'>> # <<outbox, devices, known>>
    /\ UNCHANGED <<version, published, seeded, owns, digest, digested, clock>>

BooksNext ==
    \/ \E b \in Books : Import(b) \/ SetPublished(b) \/ Delete(b)
    \/ \E u \in Users, S \in SUBSET Books : SetBooks(u, S)
    \/ \E u \in Users, kind \in Kinds, on \in BOOLEAN : SetPreference(u, kind, on)
    \/ Seed \/ Scan
    \/ \E u \in Users : Digest(u)
    \/ DayBreaks

Next ==
    \/ DeviceNext /\ UNCHANGED books
    \/ QueueNext /\ UNCHANGED books
    \/ \E u \in Users : Enqueue(u, "chat_answer") /\ UNCHANGED books
    \/ BooksNext \/ Tidy

Spec == Init /\ [][Next]_vars

\* The loop goes on whatever a step raises; back-offs end, days pass.
FairSpec ==
    /\ Spec
    /\ WF_vars(WorkerStep /\ UNCHANGED books)
    /\ SF_vars(Clock /\ night /\ UNCHANGED books)
    /\ SF_vars(BackoffEnds /\ UNCHANGED books)
    /\ SF_vars(Aged /\ UNCHANGED books)

-----------------------------------------------------------------------------
TypeOK ==
    /\ alive \subseteq Logins /\ dead \subseteq Tokens
    /\ devices \in [Logins -> Device \union {NoDevice}]
    /\ enabled \in [Users -> SUBSET Kinds]
    /\ outbox \in Seq(Row \union {NoRow})
    /\ heard \subseteq (1..MaxRows) \X Tokens
    /\ known \in [Books -> 0..MaxVersion] /\ firstSeen \in [Books -> 0..MaxClock]

\* A phone is pushed to for one login only: a token never stands in two rows,
\* whoever signs in and registers on it (uq_push_devices_token).
OneLoginPerToken == \A t \in Tokens : Cardinality(Holders(t)) <= 1

\* A notification one device is known to have received is not sent again to
\* anybody: it counts as sent even when another device asked for a retry.
HeardIsSent == \A h \in heard : outbox[h[1]] # NoRow => outbox[h[1]].status = "sent"

\* At most DAILY_CAP pushes a day besides the chat answers, those of one batch
\* counted together, batches that were rolled back and retries too.
CapHolds ==
    \A u \in Users :
        Cardinality({i \in Rows : outbox[i].user = u /\ outbox[i].kind # "chat_answer"
                                  /\ outbox[i].status = "sent" /\ outbox[i].recent}) <= DailyCap

\* Both: a batch sends nothing twice to who heard it, and keeps the cap
\* (push_service.py, run_once).
SendingHolds == HeardIsSent /\ CapHolds

\* A new book is counted by at most one digest of a user, however often the
\* digest is switched off and on and the book hidden and shown, and one that was
\* published when the library was first recorded by none.
DigestsTellOnce ==
    \A u \in Users, b \in Books : told[u][b] <= IF b \in atFirst THEN 0 ELSE 1

\* A book seen since the digest was switched on, and before the last digest,
\* was counted by one: nobody misses a book for lack of a device, or because
\* the digest was not due.  A book that was hidden when a digest was sent is
\* the exception: it is not told of when it is shown again.
DigestsMissNothing ==
    \A u \in Users, b \in Books :
        /\ digest[u].updated < firstSeen[b] /\ firstSeen[b] <= digest[u].lastSent
        => told[u][b] = 1 \/ <<u, b>> \in passed

\* Both: a digest counts every new book once (push_service.py, the digests).
DigestsHold == DigestsTellOnce /\ DigestsMissNothing

\* Every queued notification is sent, skipped or given up in the end, whatever
\* the phones, the cap, the night and interrupted batches do to it.
EveryRowEnds ==
    \A i \in 1..MaxRows :
        (i \in Rows /\ outbox[i].status = "pending") ~> (i \notin Rows \/ outbox[i].status # "pending")
=============================================================================
