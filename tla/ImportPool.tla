----------------------------- MODULE ImportPool -----------------------------
(***************************************************************************)
(* The scripts that import many books (scripts/import/import_books.py main *)
(* and reimport_from_json.py main): workers that take files of one queue,  *)
(* a monitor that stops them when the disk is nearly full, and what the    *)
(* exit code tells.  A run may be killed, lose its database or fill the    *)
(* disk; "re-run the same command to resume".                              *)
(*                                                                         *)
(* The text of a book is "old" or "new"; "torn" is a file cut short.       *)
(***************************************************************************)
EXTENDS Naturals, FiniteSets

CONSTANTS
    Books,      \* ids, in the order of the queue; their sources do not change
    Held,       \* the books the library has, in their old text
    Spoilt,     \* the books whose source does not convert, or not validly
    Workers, MaxRuns

VARIABLES
    rows,       \* of each book, the text its row and pages are of
    disk,       \* books_root/{id}.json
    run,        \* the script that runs or ran last: [kind, force, state, code]; 3: it broke off
    queue,      \* the books not taken yet
    at,         \* what each worker does
    result,     \* what each book of the run was counted as
    stop,       \* stop_event
    runs,       \* bound
    cut         \* books whose row was of the text already when their file was cut short

poolVars == <<rows, disk, run, queue, at, result, stop, runs, cut>>

Idle == [do |-> "next"]
Ended == [do |-> "ended"]

PoolInit ==
    /\ rows = [b \in Books |-> IF b \in Held THEN "old" ELSE "none"]
    /\ disk = rows
    /\ run = [kind |-> "abx", force |-> FALSE, state |-> "over", code |-> 2]
    /\ queue = {} /\ at = [w \in Workers |-> Ended]
    /\ result = [b \in Books |-> "none"]
    /\ stop = FALSE /\ runs = 0 /\ cut = {}

Running == run.state = "running"

\* main: every source there is; the other script's are the books directory's.
Starts(kind, force) ==
    /\ ~Running /\ runs < MaxRuns
    /\ run' = [kind |-> kind, force |-> force, state |-> "running", code |-> 0]
    /\ queue' = IF kind = "abx" THEN Books ELSE {b \in Books : disk[b] # "none"}
    /\ queue' # {}
    /\ at' = [w \in Workers |-> Idle]
    /\ result' = [b \in Books |-> "none"]
    /\ stop' = FALSE /\ runs' = runs + 1
    /\ UNCHANGED <<rows, disk, cut>>

Becomes(w, what) == at' = [at EXCEPT ![w] = what]

\* What the run reads of a book: its source converted, or its file.
Source(b) == IF run.kind = "json" THEN disk[b] ELSE IF b \in Spoilt THEN "torn" ELSE "new"

\* _worker: the next file, unless it is told to stop.
Take(w) ==
    /\ Running /\ at[w] = Idle
    /\ IF stop \/ queue = {} THEN Becomes(w, Ended) /\ UNCHANGED queue
       ELSE LET b == CHOOSE b \in queue : \A c \in queue : b <= c IN
            /\ queue' = queue \ {b}
            /\ Becomes(w, [do |-> "read", book |-> b])
    /\ UNCHANGED <<rows, disk, run, result, stop, runs, cut>>

Counts(w, b, as) == result' = [result EXCEPT ![b] = as] /\ Becomes(w, Idle)

\* It does not convert, or has errors: logged, counted, and the next one.
CannotRead(w) ==
    /\ Running /\ at[w].do = "read" /\ Source(at[w].book) = "torn"
    /\ Counts(w, at[w].book, "failed")
    /\ UNCHANGED <<rows, disk, run, queue, stop, runs, cut>>

\* Mutant: a book that is there is not imported again.
IsThere(b) == rows[b] # "none"

\* The hash of the row, of the text that would be written; the file is not looked at.
Unchanged(b) == rows[b] = Source(b)

Skip(w) ==
    /\ Running /\ at[w].do = "read" /\ Source(at[w].book) # "torn"
    /\ ~run.force /\ Unchanged(at[w].book)
    /\ Counts(w, at[w].book, "skipped")
    /\ UNCHANGED <<rows, disk, run, queue, stop, runs, cut>>

\* The file, whole, or cut short when the disk is full or the process ends there.
Writes(b, text) ==
    /\ disk' = [disk EXCEPT ![b] = text]
    /\ cut' = IF text = "torn" /\ rows[b] = Source(b) THEN cut \union {b} ELSE cut \ {b}

MayWrite(w) ==
    /\ Running /\ at[w].do = "read" /\ Source(at[w].book) # "torn"
    /\ run.force \/ ~Unchanged(at[w].book)

WriteFile(w) ==
    /\ MayWrite(w)
    /\ Writes(at[w].book, Source(at[w].book))
    /\ Becomes(w, [do |-> "rows", book |-> at[w].book, text |-> Source(at[w].book)])
    /\ UNCHANGED <<rows, run, queue, result, stop, runs>>

DiskFull(w) ==
    /\ MayWrite(w)
    /\ Writes(at[w].book, "torn")
    /\ Counts(w, at[w].book, "failed")
    /\ UNCHANGED <<rows, run, queue, stop, runs>>

Stores(w) == rows' = [rows EXCEPT ![at[w].book] = at[w].text]

\* The author, the work, the book, its sections and pages, in one transaction.
Import(w) ==
    /\ Running /\ at[w].do = "rows"
    /\ Stores(w) /\ Counts(w, at[w].book, "ok")
    /\ UNCHANGED <<disk, run, queue, stop, runs, cut>>

\* It fails, or its commit does after it took effect: rolled back, logged, counted.
ImportFails(w) ==
    /\ Running /\ at[w].do = "rows"
    /\ Stores(w) \/ UNCHANGED rows
    /\ Counts(w, at[w].book, "failed")
    /\ UNCHANGED <<disk, run, queue, stop, runs, cut>>

RunEnds(code) ==
    /\ run' = [run EXCEPT !.state = "over", !.code = code]
    /\ queue' = {} /\ at' = [w \in Workers |-> Ended]

\* The process is killed, or the log of a failure fails too: that worker's error ends the
\* run and the others are cancelled where they wait.  A commit under way may still count.
Breaks ==
    /\ Running
    /\ \E kept \in SUBSET {w \in Workers : at[w].do = "rows"} :
        rows' = [b \in Books |-> IF \E w \in kept : at[w].book = b
                                 THEN (CHOOSE a \in {at[w] : w \in kept} : a.book = b).text ELSE rows[b]]
    /\ RunEnds(3)
    /\ UNCHANGED <<disk, result, stop, runs, cut>>

\* Killed while it writes a file.
BreaksWriting(w) ==
    /\ MayWrite(w)
    /\ Writes(at[w].book, "torn")
    /\ RunEnds(3)
    /\ UNCHANGED <<rows, result, stop, runs>>

Counted == {b \in Books : result[b] # "none"}

\* The monitor looks at the disk once something was counted; only this script has it.
LowDisk ==
    /\ Running /\ run.kind = "abx" /\ ~stop /\ Counted # {}
    /\ stop' = TRUE
    /\ UNCHANGED <<rows, disk, run, queue, at, result, runs, cut>>

\* Mutant: a run that stopped early and failed nowhere succeeded.
FailuresOnly == IF \E b \in Books : result[b] = "failed" THEN 1 ELSE 0

\* 2 when it stopped early, 1 when a book failed.
ExitCode ==
    IF queue # {} THEN 2
    ELSE IF \E b \in Books : result[b] = "failed" THEN 1 ELSE 0

Finish ==
    /\ Running /\ \A w \in Workers : at[w] = Ended
    /\ RunEnds(ExitCode)
    /\ UNCHANGED <<rows, disk, result, stop, runs, cut>>

PoolNext ==
    \/ \E kind \in {"abx", "json"}, force \in BOOLEAN : Starts(kind, force)
    \/ \E w \in Workers :
        \/ Take(w) \/ CannotRead(w) \/ Skip(w)
        \/ WriteFile(w) \/ DiskFull(w) \/ Import(w) \/ ImportFails(w) \/ BreaksWriting(w)
    \/ Breaks \/ LowDisk \/ Finish

-----------------------------------------------------------------------------
PoolTypeOK ==
    /\ rows \in [Books -> {"none", "old", "new"}]
    /\ disk \in [Books -> {"none", "old", "new", "torn"}]
    /\ queue \subseteq Books /\ cut \subseteq Books
    /\ run \in [kind : {"abx", "json"}, force : BOOLEAN, state : {"running", "over"}, code : 0 .. 3]

\* What an import of the book should have stored.
Wanted(b) == IF run.kind = "abx" THEN {"new"} ELSE {disk[b]}

\* A book counted as imported or unchanged is in the library in the text of its
\* source, and its file is too, whatever broke off in this run or one before:
\* but for a file that was cut short under a row that had its text already, which
\* only --force writes and only --force or reimport_from_json's failure shows.
CountedIsImported ==
    \A b \in Books : result[b] \in {"ok", "skipped"} =>
        rows[b] \in Wanted(b) /\ (b \in cut \/ disk[b] = rows[b])

\* A run that ends with 0 has imported every book of its source: it was not
\* stopped, killed, or out of disk, and nothing failed ("a clean, resumable stop
\* instead of an unpredictable one", import_books.py --min-free-gb).
ZeroMeansAll ==
    run.state = "over" /\ run.code = 0 =>
        \A b \in Books : (run.kind = "abx" \/ disk[b] # "none") => result[b] \in {"ok", "skipped"}

\* Both scripts (import_books.py, reimport_from_json.py).
PoolHolds == PoolTypeOK /\ CountedIsImported /\ ZeroMeansAll
=============================================================================
