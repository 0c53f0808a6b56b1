----------------------------- MODULE CatalogFeed -----------------------------
(***************************************************************************)
(* GET /api/books/changes (app/services/catalog_sync_service.py): clients  *)
(* keep a copy of the catalog and a cursor, and ask for what changed after *)
(* it.  A request is several statements, each with a snapshot of its own;  *)
(* writers and other requests run between them.                            *)
(***************************************************************************)
EXTENDS CatalogWrites

CONSTANTS Clients,
          PageLimit,   \* the limit of a page
          MaxAge       \* bound: how often 180 days pass

ASSUME FeedConstants == PageLimit \in Nat \ {0} /\ MaxAge \in Nat

VARIABLES floor,       \* tombstone_floor
          age,         \* how often 180 days passed
          stage,       \* client -> where its request is
          current,     \* client -> latest_seq as its request read it
          page,        \* client -> the books of its page with their numbers
          cursor,      \* client -> the cursor of the last answer
          copy         \* client -> book -> how the client shows it

request == <<stage, current, page, cursor, copy>>
vars == <<writes, floor, age, request>>

Stages == {"idle", "asked", "current", "changes", "books", "reload"}

TypeOK ==
    /\ WritesTypeOK
    /\ floor \in Nat /\ age \in 0..MaxAge
    /\ stage \in [Clients -> Stages]
    /\ current \in [Clients -> Nat]
    /\ \A c \in Clients : page[c] \subseteq Books \X Nat
    /\ cursor \in [Clients -> Nat]
    /\ copy \in [Clients -> [Books -> (Texts \X (Titles \cup {Gone})) \cup {Gone}]]

Init ==
    /\ WritesInit
    /\ floor = 0
    /\ age = 0
    /\ stage = [c \in Clients |-> "idle"]
    /\ current = [c \in Clients |-> 0]
    /\ page = [c \in Clients |-> {}]
    /\ cursor = [c \in Clients |-> 0]
    /\ copy = [c \in Clients |-> [b \in Books |-> Gone]]

-----------------------------------------------------------------------------
(* get_changes *)

At(c, from, to) == stage[c] = from /\ stage' = [stage EXCEPT ![c] = to]

\* The request arrives within an hour of the last purge.
Ask(c) ==
    /\ At(c, "idle", "asked")
    /\ UNCHANGED <<writes, floor, age, current, page, cursor, copy>>

\* Mutant of RaisedFloor: the floor stays where it is.
FloorAsItWas(books) == floor

RaisedFloor(books) == Max({floor} \cup {db[ChangeRow(b)].seq : b \in books})

\* The request arrives later: it first forgets the old deletions and commits that.
AskAndPurge(c) ==
    /\ At(c, "idle", "asked")
    /\ Forgettable # {}
    /\ Forget(Forgettable)
    /\ floor' = RaisedFloor(Forgettable)
    /\ UNCHANGED <<age, current, page, cursor, copy>>

ReadCurrent(c) ==
    /\ At(c, "asked", "current")
    /\ current' = [current EXCEPT ![c] = LatestSeq]
    /\ UNCHANGED <<writes, floor, age, page, cursor, copy>>

\* Never synced, older than what is still remembered, or ahead of the server.
MustReload(c) == cursor[c] < 1 \/ cursor[c] < floor \/ cursor[c] > current[c]

\* Reads the floor; answers {reset, cursor: current} or goes on.
ReadFloor(c) ==
    /\ IF MustReload(c)
       THEN /\ At(c, "current", "reload")
            /\ cursor' = [cursor EXCEPT ![c] = current[c]]
       ELSE /\ At(c, "current", "changes")
            /\ UNCHANGED cursor
    /\ UNCHANGED <<writes, floor, age, current, page, copy>>

\* Mutant of NewChanges: the newest first.
NewestChanges(c) ==
    LET after == {b \in ChangesServed : db[ChangeRow(b)].seq > cursor[c]}
    IN {b \in after : Cardinality({a \in after : db[ChangeRow(a)].seq >= db[ChangeRow(b)].seq})
                        <= PageLimit}

NewChanges(c) ==
    LET after == {b \in ChangesServed : db[ChangeRow(b)].seq > cursor[c]}
    IN {b \in after : Cardinality({a \in after : db[ChangeRow(a)].seq <= db[ChangeRow(b)].seq})
                        <= PageLimit}

ReadChanges(c) ==
    /\ At(c, "changes", "books")
    /\ page' = [page EXCEPT ![c] = {<<b, db[ChangeRow(b)].seq>> : b \in NewChanges(c)}]
    /\ UNCHANGED <<writes, floor, age, current, cursor, copy>>

\* The books of the page as they are now; the new cursor is the last row's number.
\* The client applies the answer.
ReadBooks(c) ==
    LET changed == {row[1] : row \in page[c]}
    IN /\ At(c, "books", "idle")
       /\ cursor' = [cursor EXCEPT ![c] = Max({@} \cup {row[2] : row \in page[c]})]
       /\ copy' = [copy EXCEPT ![c] = [b \in Books |-> IF b \in changed THEN View(b) ELSE @[b]]]
       /\ page' = [page EXCEPT ![c] = {}]
       /\ UNCHANGED <<writes, floor, age, current>>

\* The client (external) reloads the whole catalog after an answer that says reset.
Reload(c) ==
    /\ At(c, "reload", "idle")
    /\ copy' = [copy EXCEPT ![c] = [b \in Books |-> View(b)]]
    /\ UNCHANGED <<writes, floor, age, current, page, cursor>>

-----------------------------------------------------------------------------
\* Half a year without a write and without a request.
HalfYear ==
    /\ age < MaxAge
    /\ age' = age + 1
    /\ \A c \in Clients : stage[c] = "idle"
    /\ Age
    /\ UNCHANGED <<floor, request>>

Request(c) ==
    Ask(c) \/ AskAndPurge(c) \/ ReadCurrent(c) \/ ReadFloor(c)
      \/ ReadChanges(c) \/ ReadBooks(c) \/ Reload(c)

Next ==
    \/ \E w \in Writers : Write(w) /\ UNCHANGED <<floor, age, request>>
    \/ \E c \in Clients : Request(c)
    \/ HalfYear

Spec == Init /\ [][Next]_vars

\* A client goes on asking, and its requests are answered.
FairSpec == Spec /\ \A c \in Clients : WF_vars(Request(c))

-----------------------------------------------------------------------------
(* Between requests a client shows every book whose number its cursor has passed as the
   catalog has it, unless it is about to be told to reload: no change is lost, whether
   it lies in a page, between two pages or among the forgotten deletions.  (comment of
   catalog_sync_service.py: without the horizon "a client could advance its cursor past
   a change that had not committed yet and never receive it") *)
NothingMissed ==
    \A c \in Clients, b \in Books :
        stage[c] = "idle" /\ cursor[c] >= 1 /\ cursor[c] >= floor
          /\ db[ChangeRow(b)].seq <= cursor[c] => copy[c][b] = View(b)

(* When the writers stop, every client ends up with the catalog as it is. *)
ClientsCatchUp == \A c \in Clients : <>[](copy[c] = [b \in Books |-> View(b)])

(* A client that was told to reload is not told so for ever: the cursor it is given with
   the reload is a cursor of this server, neither "older than what is still remembered"
   nor "ahead of the server (a cursor from a different database)"
   (catalog_sync_service.py).  Only a catalog without a single change has no cursor. *)
ReloadsEnd == \A c \in Clients : <>[](stage[c] # "reload" \/ LatestSeq = 0)

(* "a client with an older cursor is told to reload instead of missing a deletion"
   (migration e2d84b6a19f7): who is not told to reload does not show a book whose
   deletion was forgotten. *)
NoDeletionMissed ==
    \A c \in Clients, b \in Books :
        stage[c] = "idle" /\ cursor[c] >= 1 /\ cursor[c] >= floor
          /\ db[ChangeRow(b)].seq = 0 => copy[c][b] = Gone

=============================================================================
