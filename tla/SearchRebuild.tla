---------------------------- MODULE SearchRebuild ----------------------------
(***************************************************************************)
(* The search index rebuilt beside the live one                            *)
(* (app/services/search_reindex.py, scripts/search_index/rebuild_exact.py  *)
(* and the migration f41d0c7a9b22): books are read ahead from their files, *)
(* written into a replacement table one by one while imports go on, and    *)
(* the migration builds what is left and puts the replacement in the place *)
(* of pages.                                                               *)
(***************************************************************************)
EXTENDS Naturals, Sequences, FiniteSets, SequencesExt

CONSTANTS
    Shelf,          \* the books
    PagesOf,        \* how many pages each text has; text 1 is there at the start
    Depth,          \* books read ahead
    MaxImports, MaxRuns     \* bounds: imports, and runs of the script and the migration

\* What the constants are (assumed where they get their values).
RebuildAssumption ==
    /\ PagesOf \in Seq(Nat \ {0}) /\ Depth \in Nat \ {0}
    /\ MaxImports < Len(PagesOf) /\ MaxRuns \in Nat

VARIABLES
    file,       \* the text in the book's JSON file
    rows,       \* pages: the import that wrote the book's rows (their ids), its text, how many
    target,     \* pages_exact, likewise
    run,        \* "idle", "build", "migrate", "swapped"
    todo, ahead,    \* books still to read; books read, with their texts, and whether checked
    imports, runs,  \* for the bounds
    \* history:
    late,       \* books imported since the migration chose what to build
    crossed,    \* books whose text read was not the text of the rows it was joined with
    before      \* target and rows as they were before the migration, or the swap

rebuildVars == <<file, rows, target, run, todo, ahead, imports, runs, late, crossed, before>>

NoRows == [by |-> 0, text |-> 0, n |-> 0]
RowsOf(by, text) == [by |-> by, text |-> text, n |-> PagesOf[text]]

RebuildInit ==
    /\ file = [b \in Shelf |-> 1]
    /\ rows = [b \in Shelf |-> RowsOf(1, 1)]
    /\ target = [b \in Shelf |-> NoRows]
    /\ run = "idle" /\ todo = <<>> /\ ahead = <<>>
    /\ imports = 1 /\ runs = 0
    /\ late = {} /\ crossed = {}
    /\ before = [rows |-> rows, target |-> target]

-----------------------------------------------------------------------------
\* Imports go on: the file first, the rows when the transaction commits.

WriteFile(b) ==
    /\ run # "swapped" /\ imports <= MaxImports
    /\ imports' = imports + 1
    /\ file' = [file EXCEPT ![b] = imports']
    /\ UNCHANGED <<rows, target, run, todo, ahead, runs, late, crossed, before>>

CommitRows(b) ==
    /\ run # "swapped" /\ file[b] # rows[b].text
    /\ rows' = [rows EXCEPT ![b] = RowsOf(file[b], file[b])]
    /\ late' = late \union {b}
    /\ UNCHANGED <<file, target, run, todo, ahead, imports, runs, crossed, before>>

-----------------------------------------------------------------------------
\* STALE_IN_TARGET_SQL has nothing to do here: no book loses all its pages.

\* Mutant: only the numbers of pages are compared.
DiffersInNumber(b) == target[b].n # rows[b].n

\* BOOKS_TO_BUILD_SQL: absent, or other ids.
Differs(b) == <<target[b].n, target[b].by>> # <<rows[b].n, rows[b].by>>

Begin(what) ==
    /\ run = "idle" /\ runs < MaxRuns
    /\ runs' = runs + 1
    /\ run' = what
    /\ todo' = SetToSortSeq({b \in Shelf : Differs(b)}, <)
    /\ before' = [rows |-> rows, target |-> target]
    /\ late' = {}
    /\ UNCHANGED <<file, rows, target, ahead, imports, crossed>>

\* _read_ahead; the migration reads each book when its turn comes.
ReadBook ==
    /\ run \in {"build", "migrate"} /\ todo # <<>>
    /\ Len(ahead) < IF run = "build" THEN Depth ELSE 1
    /\ ahead' = Append(ahead, [book |-> Head(todo), text |-> file[Head(todo)], checked |-> FALSE])
    /\ todo' = Tail(todo)
    /\ UNCHANGED <<file, rows, target, run, imports, runs, late, crossed, before>>

\* Mutant: pages the file does not have are passed over.
NoneMissing(b, text) == FALSE

\* missing_sequences: the table has pages the file read does not have.
Missing(b, text) == rows[b].n > PagesOf[text]

\* Mutant: a vector that was made before is taken over.
JoinedAgain(b, text) == [by |-> rows[b].by, text |-> IF target[b].text = 0 THEN text ELSE target[b].text,
                         n |-> IF rows[b].n < PagesOf[text] THEN rows[b].n ELSE PagesOf[text]]

\* DELETE_BOOK_SQL and INSERT_BOOK_SQL: the rows' ids, with the text that was read.
Joined(b, text) == [by |-> rows[b].by, text |-> text,
                    n |-> IF rows[b].n < PagesOf[text] THEN rows[b].n ELSE PagesOf[text]]

\* PAGE_SEQUENCES_SQL; an import may commit before the INSERT reads the rows.
CheckBook ==
    /\ ahead # <<>> /\ ~Head(ahead).checked /\ ~Missing(Head(ahead).book, Head(ahead).text)
    /\ ahead' = <<[Head(ahead) EXCEPT !.checked = TRUE]>> \o Tail(ahead)
    /\ UNCHANGED <<file, rows, target, run, todo, imports, runs, late, crossed, before>>

WriteBook ==
    /\ ahead # <<>> /\ Head(ahead).checked
    /\ LET b == Head(ahead).book  text == Head(ahead).text IN
        /\ target' = [target EXCEPT ![b] = Joined(b, text)]
        /\ crossed' = IF text = rows[b].text THEN crossed \ {b} ELSE crossed \union {b}
    /\ ahead' = Tail(ahead)
    /\ UNCHANGED <<file, rows, run, todo, imports, runs, late, before>>

\* The script notes the problem and goes on with the next book.
SkipBook ==
    /\ run = "build" /\ ahead # <<>> /\ ~Head(ahead).checked /\ Missing(Head(ahead).book, Head(ahead).text)
    /\ ahead' = Tail(ahead)
    /\ UNCHANGED <<file, rows, target, run, todo, imports, runs, late, crossed, before>>

\* The migration fails and leaves everything as it was.
MigrationFails ==
    /\ run = "migrate" /\ ahead # <<>> /\ ~Head(ahead).checked /\ Missing(Head(ahead).book, Head(ahead).text)
    /\ target' = before.target
    /\ run' = "idle" /\ todo' = <<>> /\ ahead' = <<>>
    /\ UNCHANGED <<file, rows, imports, runs, late, crossed, before>>

\* The script ends, or is killed: what it committed stays.
BuildEnds ==
    /\ run = "build"
    /\ run' = "idle" /\ todo' = <<>> /\ ahead' = <<>>
    /\ UNCHANGED <<file, rows, target, imports, runs, late, crossed, before>>

\* swap_statements: pages is dropped and the replacement takes its name.
Swap ==
    /\ run = "migrate" /\ todo = <<>> /\ ahead = <<>>
    /\ run' = "swapped"
    /\ rows' = target
    /\ before' = [rows |-> rows, target |-> target]
    /\ UNCHANGED <<file, target, todo, ahead, imports, runs, late, crossed>>

RebuildNext ==
    \/ \E b \in Shelf : WriteFile(b) \/ CommitRows(b)
    \/ Begin("build") \/ Begin("migrate")
    \/ ReadBook \/ CheckBook \/ WriteBook \/ SkipBook
    \/ MigrationFails \/ BuildEnds \/ Swap

-----------------------------------------------------------------------------
\* The swap puts the same pages in place, none lost, however often the script
\* was killed and whatever was imported before the migration looked
\* (search_reindex.py; the migration "fails rather than swap in an index that
\* silently lost pages").
SwapKeepsEveryPage ==
    run = "swapped" => \A b \in Shelf \ late :
        rows[b].by = before.rows[b].by /\ rows[b].n = before.rows[b].n

\* The new index of a book is of the text its pages were imported from, unless
\* the file was replaced between its being read ahead and being joined with the
\* rows.
IndexIsOfThePages ==
    run = "swapped" => \A b \in Shelf \ (late \union crossed) :
        rows[b].text = before.rows[b].text
=============================================================================
