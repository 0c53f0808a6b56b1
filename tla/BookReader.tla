------------------------------ MODULE BookReader ------------------------------
(***************************************************************************)
(* Reading a book page by page (app/api/books.py, app/services/            *)
(* reader_service.py): the row tells the version, the file the text, and   *)
(* parsed files are kept in a small cache that several threads use without *)
(* a lock.  A re-import writes the file, then commits the row.             *)
(***************************************************************************)
EXTENDS Integers, Sequences, FiniteSets, SequencesExt

CONSTANTS
    Shelf,          \* books
    Readers,        \* requests under way at once, each in a thread of its own
    CacheSize,      \* _CACHE_SIZE
    MaxEdition      \* bound: editions of a book

VARIABLES
    file,           \* the edition in each book's file, below zero while it is half written
    row,            \* content_version of each book: the edition whose import was committed
    parsed,         \* _cache, the least recently used first: [key, edition]
    reader          \* each request: how far it is, its book, the version told, the text

readerVars == <<file, row, parsed, reader>>

NotReading == [at |-> "idle"]

ReaderInit ==
    /\ file = [b \in Shelf |-> 1] /\ row = [b \in Shelf |-> 1]
    /\ parsed = <<>> /\ reader = [r \in Readers |-> NotReading]

Goes(r, stage) == reader' = [reader EXCEPT ![r].at = stage]

\* Mutant: the path alone says what was parsed.
PathAlone(b, edition) == <<b, 0>>

\* The key: path, mtime and size, which a file half written has of its own.
KeyOf(b, edition) == <<b, edition>>

Places(key) == {k \in DOMAIN parsed : parsed[k].key = key}

\* _load_published_book reads the row first.
ReadRow(r) ==
    /\ reader[r].at \in {"idle", "served", "broke"}
    /\ \E b \in Shelf : reader' = [reader EXCEPT ![r] =
            [at |-> "told", book |-> b, version |-> row[b], key |-> <<>>, text |-> 0]]
    /\ UNCHANGED <<file, row, parsed>>

\* _load_sync: the file's key, and what the cache has under it.
LookUp(r) ==
    /\ reader[r].at = "told"
    /\ LET key == KeyOf(reader[r].book, file[reader[r].book]) IN
        reader' = IF Places(key) # {}
                  THEN [reader EXCEPT ![r].at = "hit", ![r].key = key,
                                      ![r].text = parsed[CHOOSE k \in Places(key) : TRUE].edition]
                  ELSE [reader EXCEPT ![r].at = "missed", ![r].key = key]
    /\ UNCHANGED <<file, row, parsed>>

\* move_to_end; a KeyError when another thread has put the book out meanwhile.
Touch(r) ==
    /\ reader[r].at = "hit"
    /\ IF Places(reader[r].key) = {} THEN Goes(r, "broke") /\ UNCHANGED parsed
       ELSE LET k == CHOOSE n \in Places(reader[r].key) : TRUE IN
            Goes(r, "served") /\ parsed' = Append(RemoveAt(parsed, k), parsed[k])
    /\ UNCHANGED <<file, row>>

\* The file as it is by now; half a file is no JSON.
ParseFile(r) ==
    /\ reader[r].at = "missed"
    /\ IF file[reader[r].book] < 0 THEN Goes(r, "broke")
       ELSE reader' = [reader EXCEPT ![r].at = "parsed", ![r].text = file[reader[r].book]]
    /\ UNCHANGED <<file, row, parsed>>

\* Under its key; a key that is there keeps its place.
PutIn(r) ==
    /\ reader[r].at = "parsed"
    /\ LET e == [key |-> reader[r].key, edition |-> reader[r].text] IN
        parsed' = IF Places(e.key) = {} THEN Append(parsed, e)
                  ELSE [k \in DOMAIN parsed |-> IF k \in Places(e.key) THEN e ELSE parsed[k]]
    /\ Goes(r, "full")
    /\ UNCHANGED <<file, row>>

\* while len(_cache) > _CACHE_SIZE: each look and each popitem is a step of its own.
LookAtSize(r) ==
    /\ reader[r].at = "full"
    /\ Goes(r, IF Len(parsed) > CacheSize THEN "popping" ELSE "served")
    /\ UNCHANGED <<file, row, parsed>>

PopOldest(r) ==
    /\ reader[r].at = "popping"
    /\ IF parsed = <<>> THEN Goes(r, "broke") /\ UNCHANGED parsed
       ELSE Goes(r, "full") /\ parsed' = Tail(parsed)
    /\ UNCHANGED <<file, row>>

\* import_books: the file is written in place, then the row is committed.
WriteEdition == \E b \in Shelf :
    /\ file[b] # row[b] + 1 /\ row[b] < MaxEdition
    /\ file' = [file EXCEPT ![b] = IF @ < 0 THEN row[b] + 1 ELSE -(row[b] + 1)]
    /\ UNCHANGED <<row, parsed, reader>>

CommitEdition == \E b \in Shelf :
    /\ file[b] = row[b] + 1
    /\ row' = [row EXCEPT ![b] = file[b]]
    /\ UNCHANGED <<file, parsed, reader>>

ReaderNext ==
    \/ WriteEdition \/ CommitEdition
    \/ \E r \in Readers : ReadRow(r) \/ LookUp(r) \/ Touch(r) \/ ParseFile(r) \/ PutIn(r) \/ LookAtSize(r) \/ PopOldest(r)

-----------------------------------------------------------------------------
\* A page that is served with a version is of that version or a newer one,
\* whatever the cache holds and whoever re-imports the book: a client that
\* keeps it under the version it was told is never left with old text
\* (_load_published_book, _load_sync).
TextIsOfTheVersion ==
    \A r \in Readers : reader[r].at = "served" => reader[r].text >= reader[r].version

\* However the threads overlap, the cache is back at its size when none is at
\* it, and holds a file once (_load_sync).
CacheIsBounded ==
    /\ Len(parsed) <= CacheSize + Cardinality({r \in Readers : reader[r].at \in {"full", "popping"}})
    /\ IsInjective([k \in DOMAIN parsed |-> parsed[k].key])

BookReaderHolds == TextIsOfTheVersion /\ CacheIsBounded
=============================================================================
