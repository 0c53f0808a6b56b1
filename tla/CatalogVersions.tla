--------------------------- MODULE CatalogVersions ---------------------------
(***************************************************************************)
(* GET /api/catalog/version (get_versions in                               *)
(* app/services/catalog_sync_service.py): the version of a category is     *)
(* derived from its stamp and the change numbers of the books now in it.   *)
(* Clients keep the books of the category with the version they were       *)
(* fetched under, and fetch them again when the version is another one.    *)
(* The category stands for the libraries and the featured works as well.   *)
(***************************************************************************)
EXTENDS CatalogWrites

CONSTANTS Clients,
          MaxAge       \* bound: how often 180 days pass

AgeIsBounded == MaxAge \in Nat

VARIABLES age,         \* how often 180 days passed
          step,        \* client -> where its check of the version is
          read,        \* client -> what the check has read so far
          shelf        \* client -> the books it keeps, and their version

check == <<step, read, shelf>>
vars == <<writes, age, check>>

\* The books a category lists, as they are.
Contents == [b \in {a \in Books : Published(a) /\ InCategory(a)} |-> View(b)]
NoContents == [b \in {} |-> Gone]

TypeOK ==
    /\ WritesTypeOK
    /\ age \in 0..MaxAge
    /\ step \in [Clients -> {"idle", "stamps", "fetch"}]
    /\ read \in [Clients -> Nat]
    /\ \A c \in Clients :
        /\ shelf[c].version \in Nat
        /\ DOMAIN shelf[c].books \subseteq Books

Init ==
    /\ WritesInit
    /\ age = 0
    /\ step = [c \in Clients |-> "idle"]
    /\ read = [c \in Clients |-> 0]
    /\ shelf = [c \in Clients |-> [version |-> 0, books |-> NoContents]]

-----------------------------------------------------------------------------
(* get_versions *)

\* Mutant of BooksInCategory: the books listed to the users only.
BooksListed == {b \in Books : InCategory(b) /\ Published(b) /\ Served(ChangeRow(b))}

\* The join of newest_book_change: published or not.
BooksInCategory ==
    {b \in Books : InCategory(b) /\ db[BookRow(b)] # Gone /\ Served(ChangeRow(b))}

NewestBookChange == Max({0} \cup {db[ChangeRow(b)].seq : b \in BooksInCategory})

\* The version a request gives if nothing happens between its statements.
Version == Max({SeqServed(StampRow), NewestBookChange})

ReadStamps(c) ==
    /\ step[c] = "idle"
    /\ step' = [step EXCEPT ![c] = "stamps"]
    /\ read' = [read EXCEPT ![c] = SeqServed(StampRow)]
    /\ UNCHANGED <<writes, age, shelf>>

\* The answer: the client fetches the category if the version is not the one it has.
ReadVersion(c) ==
    LET version == Max({read[c], NewestBookChange})
    IN /\ step[c] = "stamps"
       /\ step' = [step EXCEPT ![c] = IF version = shelf[c].version THEN "idle" ELSE "fetch"]
       /\ read' = [read EXCEPT ![c] = version]
       /\ UNCHANGED <<writes, age, shelf>>

\* GET /api/books?subject=... by the client (external).
Fetch(c) ==
    /\ step[c] = "fetch"
    /\ step' = [step EXCEPT ![c] = "idle"]
    /\ shelf' = [shelf EXCEPT ![c] = [version |-> read[c], books |-> Contents]]
    /\ UNCHANGED <<writes, age, read>>

-----------------------------------------------------------------------------
HalfYear ==
    /\ age < MaxAge
    /\ age' = age + 1
    /\ \A c \in Clients : step[c] = "idle"
    /\ Age
    /\ UNCHANGED check

\* Some request of the change feed forgets old deletions (see CatalogFeed).
Purge ==
    /\ Forgettable # {}
    /\ Forget(Forgettable)
    /\ UNCHANGED <<age, check>>

Next ==
    \/ \E w \in Writers : Write(w) /\ UNCHANGED <<age, check>>
    \/ \E c \in Clients : ReadStamps(c) \/ ReadVersion(c) \/ Fetch(c)
    \/ HalfYear
    \/ Purge

Spec == Init /\ [][Next]_vars

\* A client goes on checking, and its requests are answered; old deletions are forgotten.
FairSpec ==
    /\ Spec
    /\ \A c \in Clients : WF_vars(ReadStamps(c) \/ ReadVersion(c) \/ Fetch(c))
    /\ WF_vars(Purge)

-----------------------------------------------------------------------------
(* "So it moves exactly when its contents move" (catalog_sync_service.py): no commit
   changes what a category lists, or how, without moving its version forward, whether a
   book is edited, published, hidden, deleted, moved, or the category renamed. *)
ContentsMoveVersion == [][Contents' # Contents => Version' > Version]_vars

(* When the writers stop, every client ends up with the category's books as they are, as
   long as no deletion is old enough to be forgotten: no version is given twice for
   different contents, not even when a commit comes between the statements of a check. *)
ShelvesCatchUp == \A c \in Clients : [](age = 0) => <>[](shelf[c].books = Contents)

(* The same, deletions forgotten or not: "it moves exactly when its contents move"
   (catalog_sync_service.py). *)
ShelvesAlwaysCatchUp == \A c \in Clients : <>[](shelf[c].books = Contents)
=============================================================================
