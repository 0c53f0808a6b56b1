----------------------------- MODULE BookImport -----------------------------
(***************************************************************************)
(* The importer (scripts/import/import_books.py): how a converted book     *)
(* reaches the books directory and the database.  The file is written      *)
(* first and at once, the rows in a transaction that may fail after it, so *)
(* the two can disagree until an importer runs again                       *)
(* (scripts/import/reimport_from_json.py).                                 *)
(*                                                                         *)
(* A book is what the properties tell apart: its title (with the author,   *)
(* what makes a work), its volume (0: unnumbered), its text, and whether   *)
(* the validator finds no error in it.                                     *)
(***************************************************************************)
EXTENDS Integers, FiniteSets, FiniteSetsExt, TLC

CONSTANTS
    Titles, Texts, Volumes,
    MaxId, MaxVersion,      \* bounds: book ids, imports of one book
    Importers               \* whoever runs an import: requests, the script

Ids == 1 .. MaxId

ASSUME ImportAssumption == 0 \in Volumes /\ Volumes \subseteq Nat /\ MaxId \in Nat /\ MaxVersion \in Nat

Content == [title : Titles, volume : Volumes, text : Texts, valid : BOOLEAN]
Nothing == [none |-> TRUE]

\* _get_or_create_author, _get_or_create_work: one work per normalized title
\* and author.
SameWork(c, d) == c.title = d.title

VARIABLES
    rows,   \* books and pages: the content imported and content_version
    files,  \* books_root/{id}.json
    job     \* what each importer has under way

import == <<rows, files, job>>

NoJob == [stage |-> "none"]
Importing(i) == job[i].stage # "none"

ImportInit(shelf) ==
    /\ rows = [b \in Ids |-> IF b \in DOMAIN shelf THEN [content |-> shelf[b], version |-> 1] ELSE Nothing]
    /\ files = [b \in Ids |-> IF b \in DOMAIN shelf THEN shelf[b] ELSE Nothing]
    /\ job = [i \in Importers |-> NoJob]

Stored == {b \in Ids : rows[b] # Nothing}

\* Mutant: a book that is there is not looked at again.
PresentIsUnchanged(b, c) == rows[b] # Nothing

\* _existing_hash: content_sha256 of the row, of the very bytes of the file.
Unchanged(b, c) == rows[b] # Nothing /\ rows[b].content = c

\* Mutant: what the employee submitted was valid already.
TrustsSubmit(c) == TRUE

Validated(c) == c.valid

\* _import_content up to write_file.  There is no await before the file is
\* written unless the hash is asked for.
WriteFile(i, b, c) ==
    /\ Validated(c)
    /\ files' = [files EXCEPT ![b] = c]
    /\ job' = [job EXCEPT ![i] = [stage |-> "rows", id |-> b, content |-> c]]
    /\ UNCHANGED rows

\* The upsert takes the lock of the row and the commit shows it: a second
\* import of the book waits in between, so the two are one step here.
Commit(i) ==
    /\ job[i].stage = "rows"
    /\ LET b == job[i].id IN
        /\ rows' = [rows EXCEPT ![b] = [content |-> job[i].content,
                                        version |-> IF @ = Nothing THEN 1 ELSE Min({MaxVersion, @.version + 1})]]
    /\ job' = [job EXCEPT ![i] = NoJob]
    /\ UNCHANGED files

\* Anything raised after the file: the rows roll back, the file stays.
Break(i) ==
    /\ job[i].stage = "rows"
    /\ job' = [job EXCEPT ![i] = NoJob]
    /\ UNCHANGED <<rows, files>>

-----------------------------------------------------------------------------
(* reimport_from_json: every file of the books directory, read again.      *)

ReadFile(i, b) ==
    /\ ~Importing(i)
    /\ files[b] # Nothing
    /\ job' = [job EXCEPT ![i] = [stage |-> "hash", id |-> b, content |-> files[b]]]
    /\ UNCHANGED <<rows, files>>

Skip(i) ==
    /\ job[i].stage = "hash"
    /\ Unchanged(job[i].id, job[i].content) \/ ~Validated(job[i].content)
    /\ job' = [job EXCEPT ![i] = NoJob]
    /\ UNCHANGED <<rows, files>>

Rewrite(i) ==
    /\ job[i].stage = "hash"
    /\ ~Unchanged(job[i].id, job[i].content)
    /\ WriteFile(i, job[i].id, job[i].content)

\* The file of a book and its rows hold different books.
Torn(b) == files[b] # Nothing /\ (rows[b] = Nothing \/ rows[b].content # files[b])

ImportTypeOK ==
    /\ rows \in [Ids -> [content : Content, version : 1 .. MaxVersion] \union {Nothing}]
    /\ files \in [Ids -> Content \union {Nothing}]
    /\ \A i \in Importers : job[i] = NoJob \/
            job[i] \in [stage : {"hash", "rows"}, id : Ids, content : Content]
=============================================================================
