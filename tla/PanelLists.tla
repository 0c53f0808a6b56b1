----------------------------- MODULE PanelLists -----------------------------
(***************************************************************************)
(* The lists the library's panel keeps (app/api/admin.py): the categories  *)
(* in their two sections, the featured shelf, and the subjects a work is   *)
(* filed under.  A request reads, then writes; two of them can overlap.    *)
(* PostgreSQL: READ COMMITTED, and a row written is locked to the commit.  *)
(***************************************************************************)
EXTENDS Integers, Sequences, FiniteSets, SequencesExt, FiniteSetsExt, TLC

CONSTANTS
    Admins,         \* requests under way at once
    Subjects,       \* the categories, numbered
    Works, Tags,    \* works, numbered, and the subjects a form can tick
    FirstShelf,     \* the works featured at first, in their order
    MaxRequests     \* bound: requests in all

VARIABLES
    listing,        \* each category's sort_order and section
    shelf,          \* each work: is_featured and featured_sort_order
    filed,          \* work_subjects: the subjects of each work
    desk,           \* each request: what it does, what it read, what it wrote
    asked,          \* how many requests there have been
    overlapped,     \* two different changes to the shelf were under way at once
    lastForm,       \* the subjects on the form saved last, of each work
    mixed           \* works whose last filing met another that did not wait for it

panelVars == <<listing, shelf, filed, desk, asked, overlapped, lastForm, mixed>>

AtRest == [does |-> "nothing"]

PanelInit ==
    /\ listing = [s \in Subjects |-> [ord |-> s, section |-> IF s = 1 THEN "shia" ELSE "other"]]
    /\ shelf = [w \in Works |->
            IF w \in ToSet(FirstShelf) THEN [on |-> TRUE, ord |-> CHOOSE k \in DOMAIN FirstShelf : FirstShelf[k] = w]
            ELSE [on |-> FALSE, ord |-> 0]]
    /\ filed = [w \in Works |-> {}]
    /\ desk = [a \in Admins |-> AtRest]
    /\ asked = 0 /\ overlapped = FALSE
    /\ lastForm = [w \in Works |-> {}] /\ mixed = {}

Asks(a, request) ==
    /\ desk[a] = AtRest /\ asked < MaxRequests
    /\ desk' = [desk EXCEPT ![a] = request]
    /\ asked' = asked + 1

Done(a) == desk' = [desk EXCEPT ![a] = AtRest]

-----------------------------------------------------------------------------
\* The categories.

\* _category_list: by sort_order, then id.
CategoryList ==
    SetToSortSeq(Subjects, LAMBDA s, t :
        listing[s].ord < listing[t].ord \/ (listing[s].ord = listing[t].ord /\ s < t))

InShia == Cardinality({s \in Subjects : listing[s].section = "shia"})

Swapped(list, i, j) == [list EXCEPT ![i] = list[j], ![j] = list[i]]

\* category_move: the boundary stays where it is.
Moves ==
    {[does |-> "categories", list |-> Swapped(CategoryList, i, i + 1), shia |-> InShia] :
        i \in 1 .. Len(CategoryList) - 1}

\* category_section: to the first place of "other", or the last of "shia".
Crossings ==
    {[does |-> "categories",
      list |-> InsertAt(Remove(CategoryList, s), (IF listing[s].section = "shia" THEN InShia - 1 ELSE InShia) + 1, s),
      shia |-> IF listing[s].section = "shia" THEN InShia - 1 ELSE InShia + 1] : s \in Subjects}

ReadCategories(a) ==
    /\ \E request \in Moves \union Crossings : Asks(a, request)
    /\ UNCHANGED <<listing, shelf, filed, overlapped, lastForm, mixed>>

\* Mutant: a category keeps the section it has.
KeepSection(a) ==
    LET place(s) == CHOOSE k \in DOMAIN desk[a].list : desk[a].list[k] = s IN
    listing' = [s \in Subjects |-> [ord |-> place(s), section |-> listing[s].section]]

\* _save_category_order: one statement writes every row's place and section.
WriteOrder(a) ==
    LET place(s) == CHOOSE k \in DOMAIN desk[a].list : desk[a].list[k] = s IN
    listing' = [s \in Subjects |-> [ord |-> place(s), section |-> IF place(s) <= desk[a].shia THEN "shia" ELSE "other"]]

SaveCategories(a) ==
    /\ desk[a].does = "categories"
    /\ WriteOrder(a)
    /\ Done(a)
    /\ UNCHANGED <<shelf, filed, asked, overlapped, lastForm, mixed>>

-----------------------------------------------------------------------------
\* The featured shelf.

OnShelf == {w \in Works : shelf[w].on}
ShelfList ==
    SetToSortSeq(OnShelf, LAMBDA v, w : shelf[v].ord < shelf[w].ord \/ (shelf[v].ord = shelf[w].ord /\ v < w))

Busy(a) == desk[a].does \in {"move", "form"}
Locked(w) == \E a \in Admins : Busy(a) /\ w \in DOMAIN desk[a].wrote

\* Every change to the shelf that is under way with another, unless it is the
\* same button pressed twice.
Overlaps(request) ==
    overlapped' = (overlapped \/ \E a \in Admins : Busy(a) /\ desk[a] # request)

\* featured_move reads the shelf and takes the two places to write.
ReadShelf(a) ==
    /\ \E i, j \in DOMAIN ShelfList :
        /\ j \in {i - 1, i + 1}
        /\ LET v == ShelfList[i]  w == ShelfList[j]
               request == [does |-> "move", todo |-> <<<<v, shelf[w].ord>>, <<w, shelf[v].ord>>>>, wrote |-> << >>]
           IN Asks(a, request) /\ Overlaps(request)
    /\ UNCHANGED <<listing, shelf, filed, lastForm, mixed>>

\* The two UPDATEs, one row at a time: the second waits for a row another request wrote.
UpdatePlace(a) ==
    /\ desk[a].does = "move" /\ desk[a].todo # <<>>
    /\ LET w == desk[a].todo[1][1] IN
        /\ ~Locked(w)
        /\ desk' = [desk EXCEPT ![a].todo = Tail(@),
                                ![a].wrote = [x \in {w} |-> [shelf[w] EXCEPT !.ord = desk[a].todo[1][2]]] @@ @]
    /\ UNCHANGED <<listing, shelf, filed, asked, overlapped, lastForm, mixed>>

CommitMove(a) ==
    /\ desk[a].does = "move" /\ desk[a].todo = <<>>
    /\ shelf' = desk[a].wrote @@ shelf
    /\ Done(a)
    /\ UNCHANGED <<listing, filed, asked, overlapped, lastForm, mixed>>

\* PostgreSQL ends one of two requests that wait for each other; nothing of it stays.
DeadlockEnds(a) ==
    /\ desk[a].does = "move" /\ desk[a].todo # <<>>
    /\ \E b \in Admins \ {a} :
        /\ desk[b].does = "move" /\ desk[b].todo # <<>>
        /\ desk[a].todo[1][1] \in DOMAIN desk[b].wrote /\ desk[b].todo[1][1] \in DOMAIN desk[a].wrote
    /\ Done(a)
    /\ UNCHANGED <<listing, shelf, filed, asked, overlapped, lastForm, mixed>>

-----------------------------------------------------------------------------
\* The filing of a work: by a book's form (book_edit_save: is its work featured, and
\* under what subjects), whose UPDATE holds the work's row to the commit, and by the
\* upload or publication of a book (_import_book_json), which holds no row of the work.

\* Mutant: a work newly featured takes the last place there is.
TakesTheLast == Max({0} \union {shelf[w].ord : w \in OnShelf})

\* The end of the featured order, as the statement sees it when it starts.
EndOfShelf == Max({0} \union {shelf[w].ord : w \in OnShelf}) + 1

Filing(w, tags) == [work |-> w, tags |-> tags, step |-> "asked", sees |-> {}, alone |-> TRUE, wrote |-> << >>]

SaveForm(a) ==
    /\ \E w \in Works, on \in BOOLEAN, tags \in SUBSET Tags :
        LET request == [does |-> "form", on |-> on, end |-> EndOfShelf] @@ Filing(w, tags)
        IN Asks(a, request) /\ Overlaps(request)
    /\ UNCHANGED <<listing, shelf, filed, lastForm, mixed>>

\* The book is imported and committed; its work is filed if the form ticks something.
Upload(a) ==
    /\ \E w \in Works, tags \in SUBSET Tags \ {{}} : Asks(a, [does |-> "upload"] @@ Filing(w, tags))
    /\ UNCHANGED <<listing, shelf, filed, overlapped, lastForm, mixed>>

\* Mutant: the work's row is not waited for.
AnyTime(w) == TRUE
WorkIsFree(w) == ~Locked(w)

\* UPDATE works: once the row is free, against the row as it is by then.
UpdateWork(a) ==
    /\ desk[a].does = "form" /\ DOMAIN desk[a].wrote = {}
    /\ WorkIsFree(desk[a].work)
    /\ LET row == shelf[desk[a].work] IN
        desk' = [desk EXCEPT ![a].wrote = [x \in {desk[a].work} |->
            [on |-> desk[a].on, ord |-> IF desk[a].on /\ ~row.on THEN desk[a].end ELSE row.ord]]]
    /\ UNCHANGED <<listing, shelf, filed, asked, overlapped, lastForm, mixed>>

\* The other requests of which _set_work_subjects has begun on the same work.
Beside(a) ==
    {b \in Admins \ {a} : /\ desk[b].does \in {"form", "upload"} /\ desk[b].step # "asked"
                          /\ desk[b].work = desk[a].work}

\* _set_work_subjects: the DELETE begins, and sees the subjects there are.
SeeSubjects(a) ==
    /\ \/ desk[a].does = "upload"
       \/ desk[a].does = "form" /\ DOMAIN desk[a].wrote # {}
    /\ desk[a].step = "asked"
    /\ LET met == {b \in Beside(a) : "upload" \in {desk[a].does, desk[b].does}} IN
        desk' = [b \in Admins |->
            IF b = a THEN [desk[a] EXCEPT !.step = "sees", !.sees = filed[desk[a].work], !.alone = (met = {})]
            ELSE IF b \in met THEN [desk[b] EXCEPT !.alone = FALSE] ELSE desk[b]]
    /\ UNCHANGED <<listing, shelf, filed, asked, overlapped, lastForm, mixed>>

\* The rows a request has deleted and not committed; others wait for them.
Deleted(b) == IF desk[b].step = "deleted" THEN desk[b].sees ELSE {}

\* The requests a filing waits for: to delete their rows, or to insert their keys.
WaitsFor(a) ==
    {b \in Beside(a) : Deleted(b) \intersect (IF desk[a].step = "sees" THEN desk[a].sees ELSE desk[a].tags) # {}}

ClearSubjects(a) ==
    /\ desk[a].does \in {"form", "upload"} /\ desk[a].step = "sees"
    /\ WaitsFor(a) = {}
    /\ desk' = [desk EXCEPT ![a].step = "deleted"]
    /\ UNCHANGED <<listing, shelf, filed, asked, overlapped, lastForm, mixed>>

\* Those of the form are inserted, and the transaction commits: the others' DELETEs no
\* longer find what it deleted, and do not see what it inserted.
FileUnder(a) ==
    /\ desk[a].does \in {"form", "upload"} /\ desk[a].step = "deleted"
    /\ WaitsFor(a) = {}
    /\ LET d == desk[a]  left == filed[d.work] \ d.sees IN
        /\ left \intersect d.tags = {}
        /\ filed' = [filed EXCEPT ![d.work] = left \union d.tags]
        /\ lastForm' = [lastForm EXCEPT ![d.work] = d.tags]
        /\ mixed' = IF d.alone THEN mixed \ {d.work} ELSE mixed \union {d.work}
        /\ shelf' = d.wrote @@ shelf
        /\ desk' = [b \in Admins |-> IF b = a THEN AtRest
                                     ELSE IF b \in Beside(a) THEN [desk[b] EXCEPT !.sees = @ \ d.sees]
                                     ELSE desk[b]]
    /\ UNCHANGED <<listing, asked, overlapped>>

\* A subject another request has filed meanwhile is a duplicate key: nothing of it stays.
DuplicateKey(a) ==
    /\ desk[a].does \in {"form", "upload"} /\ desk[a].step = "deleted"
    /\ WaitsFor(a) = {}
    /\ (filed[desk[a].work] \ desk[a].sees) \intersect desk[a].tags # {}
    /\ Done(a)
    /\ UNCHANGED <<listing, shelf, filed, asked, overlapped, lastForm, mixed>>

PanelNext ==
    \E a \in Admins :
        \/ ReadCategories(a) \/ SaveCategories(a)
        \/ ReadShelf(a) \/ UpdatePlace(a) \/ CommitMove(a) \/ DeadlockEnds(a)
        \/ SaveForm(a) \/ Upload(a) \/ UpdateWork(a)
        \/ SeeSubjects(a) \/ ClearSubjects(a) \/ FileUnder(a) \/ DuplicateKey(a)

-----------------------------------------------------------------------------
\* "A section is a contiguous run of that list" (admin.py, Category order and
\* sections): whichever requests overlapped, the categories have the places
\* 1 .. n, and those of "shia" come before those of "other".
SectionsAreRuns ==
    /\ {listing[s].ord : s \in Subjects} = 1 .. Cardinality(Subjects)
    /\ \A s, t \in Subjects :
        listing[s].section = "shia" /\ listing[t].section = "other" => listing[s].ord < listing[t].ord

\* No two featured works share a place, "even after a double click": only two
\* different changes under way at once can give one place to two works
\* (featured_move, book_edit_save).
PlacesAreOwn ==
    ~overlapped => \A v, w \in OnShelf : v # w => shelf[v].ord # shelf[w].ord

\* A work is filed under what one form ticked, the last saved, and never under a mixture
\* of two, unless the last of them is an upload, or met one, between its DELETE and its
\* commit: the forms of one work wait for each other at its row (_set_work_subjects).
FiledAsTheForm == \A w \in Works \ mixed : filed[w] = lastForm[w]

PanelListsHold == SectionsAreRuns /\ PlacesAreOwn /\ FiledAsTheForm
=============================================================================
