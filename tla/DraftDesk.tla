------------------------------ MODULE DraftDesk ------------------------------
(***************************************************************************)
(* Drafts: Word books converted and corrected in the workbench             *)
(* (workbench/main.py, threads of one process), then published by the      *)
(* admin panel (app/api/admin.py, coroutines of another).  They share a    *)
(* folder per draft (app/services/drafts.py): draft.json, always written   *)
(* by loading it, changing some keys and saving it all, and book.json.     *)
(* No lock covers a handler, so the model lets everything in between.      *)
(***************************************************************************)
EXTENDS BookImport, Sequences

CONSTANTS
    Drafts, Threads, Requests,
    Shelf,                  \* the library at the start: ids to books
    DraftBooks,             \* what an employee or the converter can come up with
    Forms,                  \* the publishing forms filled in
    MaxHandlers, MaxPlans, MaxRequests, MaxSecond   \* bounds

\* The publishing form: as a new book (under a volume number), as a volume of
\* a work, or in the place of a book.
AllForms ==
    [as : {"new"}, volume : Volumes]
    \union [as : {"volume"}, work : Titles, volume : Volumes]
    \union [as : {"replace"}, id : Ids, confirm : BOOLEAN]

ASSUME DeskAssumption ==
    /\ Forms \subseteq AllForms
    /\ DraftBooks \subseteq Content /\ Requests \subseteq Importers
    /\ MaxHandlers \in Nat /\ MaxPlans \in Nat /\ MaxRequests \in Nat /\ MaxSecond \in Nat

\* The library at the start is one that imports left: valid, each volume once.
ASSUME ShelfAssumption ==
    /\ \A b \in DOMAIN Shelf : b \in Ids /\ Shelf[b] \in Content /\ Shelf[b].valid
    /\ \A b, c \in DOMAIN Shelf : b # c =>
            ~SameWork(Shelf[b], Shelf[c]) \/ Shelf[b].volume # Shelf[c].volume

VARIABLES
    meta,       \* draft.json; Nothing: not created yet, Gone: deleted
    book,       \* book.json
    op,         \* thread -> what its handler or background job still has to do
    request,    \* the panel's requests
    aside,      \* books_root/replaced: <<book, second>> -> file
    second,     \* the clock of the last name made
    begun       \* handlers, page plans and requests begun (bounds)

bench == <<meta, book, op>>
panel == <<request, aside, second>>
vars == <<import, bench, panel, begun>>

Gone == [gone |-> TRUE]
Exists(d) == meta[d] \notin {Nothing, Gone}

EDITABLE == {"editing", "returned", "failed"}
STATUSES == EDITABLE \union {"submitted", "published"}

\* Mutant: a status EDITABLE does not know.
NewMetaConverting == [status |-> "converting", plan |-> "over", bookId |-> 0, backup |-> <<>>]

\* create: what the properties need of draft.json.  A page plan is under way,
\* has been for half an hour, or is over: done, failed, never asked for.
NewMeta == [status |-> "editing", plan |-> "over", bookId |-> 0, backup |-> <<>>]

\* draft.json with the changes of an update.
Over(changes, saved) ==
    [key \in DOMAIN changes \union DOMAIN saved |->
        IF key \in DOMAIN changes THEN changes[key] ELSE saved[key]]

\* What a handler still does, in order.
WriteBook(c) == [do |-> "book", book |-> c]
Update(changes) == [do |-> "update", set |-> changes]
Convert(planned) == [do |-> "convert", planned |-> planned]
PagePlan == [do |-> "plan"]
Remove == [do |-> "delete"]

Idle == [todo |-> <<>>]
Busy(t) == op[t].todo # <<>>
Doing(t, what) == Busy(t) /\ Head(op[t].todo).do = what

NoRequest == [stage |-> "none"]

Init ==
    /\ ImportInit(Shelf)
    /\ \E converted \in SUBSET Drafts, c \in DraftBooks :
            /\ meta = [d \in Drafts |-> IF d \in converted THEN NewMeta ELSE Nothing]
            /\ book = [d \in Drafts |-> IF d \in converted THEN c ELSE Nothing]
    /\ op = [t \in Threads |-> Idle]
    /\ request = [r \in Requests |-> NoRequest]
    /\ aside = <<>> /\ second = 0
    /\ begun = [handlers |-> 0, plans |-> 0, requests |-> 0]

\* Mutant: a lost job keeps the draft.
PlanLocksForEver(m) == m.plan \in {"running", "stale"}

\* _plan_running: running or converting, for less than PLAN_STALE_AFTER.
PlanRunning(m) == m.plan = "running"

\* _editable_or_409
Editable(m) == m.status \in EDITABLE /\ ~PlanRunning(m)

-----------------------------------------------------------------------------
(* The workbench.                                                          *)

\* Threads are alike: the first one free takes the next handler.
FirstFree(t) == t = CHOOSE u \in Threads : ~Busy(u)

Handle(t, d, todo) ==
    /\ ~Busy(t) /\ FirstFree(t) /\ begun.handlers < MaxHandlers
    /\ op' = [op EXCEPT ![t] = [draft |-> d, todo |-> todo, snap |-> Nothing]]
    /\ LET plans == begun.plans + Cardinality({k \in DOMAIN todo : todo[k] = PagePlan})
       IN plans <= MaxPlans /\ begun' = [begun EXCEPT !.handlers = @ + 1, !.plans = plans]
    /\ UNCHANGED <<import, panel>>

\* The handler locks the draft; _plan_job writes the same lock again at once.
PlanJob == <<Update([plan |-> "running"]), PagePlan>>

\* create_draft, with a printed PDF or without.
CreateDraft(t, d, pdf) ==
    /\ meta[d] = Nothing
    /\ Handle(t, d, <<Convert(FALSE)>> \o (IF pdf THEN PlanJob ELSE <<>>))
    /\ meta' = [meta EXCEPT ![d] = NewMeta]
    /\ UNCHANGED book

\* save_book: whatever state the book is in.
SaveBook(t, d, c) ==
    /\ Exists(d) /\ Editable(meta[d])
    /\ Handle(t, d, <<WriteBook(c), Update(<<>>)>>)
    /\ UNCHANGED <<meta, book>>

Reconvert(t, d) ==
    /\ Exists(d) /\ Editable(meta[d])
    /\ Handle(t, d, <<Update(<<>>), Convert(FALSE)>>)
    /\ UNCHANGED <<meta, book>>

\* make_plan_from_pdf
MakePlan(t, d) ==
    /\ Exists(d) /\ Editable(meta[d])
    /\ Handle(t, d, PlanJob)
    /\ UNCHANGED <<meta, book>>

Submit(t, d) ==
    /\ Exists(d) /\ Editable(meta[d])
    /\ book[d] # Nothing /\ book[d].valid
    /\ Handle(t, d, <<Update([status |-> "submitted"])>>)
    /\ UNCHANGED <<meta, book>>

Withdraw(t, d) ==
    /\ Exists(d) /\ meta[d].status = "submitted"
    /\ Handle(t, d, <<Update([status |-> "editing"])>>)
    /\ UNCHANGED <<meta, book>>

DeleteDraft(t, d) ==
    /\ Exists(d) /\ meta[d].status # "published"
    /\ Handle(t, d, <<Remove>>)
    /\ UNCHANGED <<meta, book>>

Then(t, todo) ==
    op' = [op EXCEPT ![t] = LET rest == todo \o Tail(@.todo)
                            IN IF rest = <<>> THEN Idle ELSE [@ EXCEPT !.todo = rest, !.snap = Nothing]]
Ends(t) == op' = [op EXCEPT ![t] = Idle]

\* Reading or writing in a folder that is gone raises.
FolderGone(t) ==
    /\ Busy(t) /\ ~Exists(op[t].draft)
    /\ Ends(t)
    /\ UNCHANGED <<import, meta, book, panel, begun>>

SavesBook(t) ==
    /\ Doing(t, "book") /\ Exists(op[t].draft)
    /\ book' = [book EXCEPT ![op[t].draft] = Head(op[t].todo).book]
    /\ Then(t, <<>>)
    /\ UNCHANGED <<import, meta, panel, begun>>

\* drafts.update: load, then save all of it with the changes.
LoadsMeta(t) ==
    /\ Doing(t, "update") /\ Exists(op[t].draft) /\ op[t].snap = Nothing
    /\ op' = [op EXCEPT ![t].snap = meta[op[t].draft]]
    /\ UNCHANGED <<import, meta, book, panel, begun>>

SavesMeta(t) ==
    /\ Doing(t, "update") /\ Exists(op[t].draft) /\ op[t].snap # Nothing
    /\ meta' = [meta EXCEPT ![op[t].draft] = Over(Head(op[t].todo).set, op[t].snap)]
    /\ Then(t, <<>>)
    /\ UNCHANGED <<import, book, panel, begun>>

\* _run_conversion: the status it will write is the one it finds now, before
\* the converter runs.
Converts(t) ==
    /\ Doing(t, "convert") /\ Exists(op[t].draft)
    /\ LET planned == Head(op[t].todo).planned
           found == meta[op[t].draft].status
           kept == IF found = "failed" THEN "editing" ELSE found
           Plan == IF planned THEN <<Update([plan |-> "over"])>> ELSE <<>>
       IN \/ Then(t, <<Update([status |-> "failed"])>> \o Plan)
          \/ \E c \in DraftBooks :
                Then(t, <<WriteBook(c), Update([status |-> kept])>> \o Plan)
    /\ UNCHANGED <<import, meta, book, panel, begun>>

\* _plan_job: the printed pages are found, or not.
FindsPages(t) ==
    /\ Doing(t, "plan") /\ Exists(op[t].draft)
    /\ \/ Then(t, <<Update([plan |-> "over"])>>)
       \/ Then(t, <<Update([plan |-> "running"]), Convert(TRUE)>>)
    /\ UNCHANGED <<import, meta, book, panel, begun>>

Removes(t) ==
    /\ Doing(t, "delete") /\ Exists(op[t].draft)
    /\ meta' = [meta EXCEPT ![op[t].draft] = Gone]
    /\ book' = [book EXCEPT ![op[t].draft] = Nothing]
    /\ Then(t, <<>>)
    /\ UNCHANGED <<import, panel, begun>>

ThreadStep(t) ==
    \/ FolderGone(t) \/ SavesBook(t) \/ LoadsMeta(t) \/ SavesMeta(t)
    \/ Converts(t) \/ FindsPages(t) \/ Removes(t)

\* The workbench restarts: its jobs are lost, the lock they wrote stays.
BenchRestart ==
    /\ \E t \in Threads : Busy(t)
    /\ op' = [t \in Threads |-> Idle]
    /\ UNCHANGED <<import, meta, book, panel, begun>>

\* PLAN_STALE_AFTER passes.
HalfHour(d) ==
    /\ Exists(d) /\ meta[d].plan = "running"
    /\ meta' = [meta EXCEPT ![d].plan = "stale"]
    /\ UNCHANGED <<import, book, op, panel, begun>>

-----------------------------------------------------------------------------
(* The panel: publishing.                                                  *)

\* The script that runs after a deployment.
Scripts == Importers \ Requests

\* Bound: there is one admin, whose requests overlap only when a form is sent
\* twice, and who does not publish while the script runs.
OneAdmin(r, d, form) ==
    /\ request[r] = NoRequest /\ begun.requests < MaxRequests
    /\ \A q \in Requests : request[q] # NoRequest => request[q].draft = d /\ request[q].form = form
    /\ \A i \in Scripts : ~Importing(i)

Asks(r, d, form, c, undo) ==
    /\ OneAdmin(r, d, form)
    /\ request' = [request EXCEPT ![r] =
            [stage |-> "resolve", draft |-> d, form |-> form, book |-> c, undo |-> undo]]
    /\ begun' = [begun EXCEPT !.requests = @ + 1]
    /\ UNCHANGED <<import, bench, aside, second>>

\* draft_publish
Publish(r, d, form) ==
    /\ Exists(d) /\ meta[d].status = "submitted"
    /\ book[d] # Nothing
    /\ Asks(r, d, form, book[d], FALSE)

\* draft_undo_replace
UndoReplace(r, d) ==
    /\ Exists(d) /\ meta[d].status = "published"
    /\ meta[d].backup \in DOMAIN aside
    /\ Asks(r, d, [as |-> "replace", id |-> meta[d].bookId, confirm |-> TRUE],
            aside[meta[d].backup], TRUE)

\* draft_return: one update.
ReturnDraft(r, d) ==
    /\ Exists(d) /\ meta[d].status = "submitted"
    /\ OneAdmin(r, d, [as |-> "return"])
    /\ request' = [request EXCEPT ![r] =
            [stage |-> "mark", draft |-> d, form |-> [as |-> "return"],
             set |-> [status |-> "returned"]]]
    /\ begun' = [begun EXCEPT !.requests = @ + 1]
    /\ UNCHANGED <<import, bench, aside, second>>

Refused(r) ==
    /\ request' = [request EXCEPT ![r] = NoRequest]
    /\ UNCHANGED <<import, bench, aside, second, begun>>

\* _next_manual_id
NextId == Max(Stored \union {0}) + 1

Resolved(r, b, c) ==
    /\ request' = [request EXCEPT ![r] =
            [stage |-> "check", draft |-> @.draft, form |-> @.form, undo |-> @.undo, id |-> b, book |-> c]]
    /\ UNCHANGED <<import, bench, aside, second, begun>>

\* The book keeps the identity of the one it replaces.
ResolveReplace(r) ==
    /\ request[r].stage = "resolve" /\ request[r].form.as = "replace"
    /\ LET c == request[r].book
           form == request[r].form
           old == rows[form.id].content
           Differs == c.title # old.title \/ c.volume # old.volume
       IN IF rows[form.id] = Nothing \/ (Differs /\ ~form.confirm)
          THEN Refused(r)
          ELSE Resolved(r, form.id, [c EXCEPT !.title = old.title, !.volume = old.volume])

WorkExists(title) == \E b \in Stored : rows[b].content.title = title

\* The book takes the title of the work it becomes a volume of.
ResolveVolume(r) ==
    /\ request[r].stage = "resolve" /\ request[r].form.as = "volume"
    /\ LET form == request[r].form
       IN IF WorkExists(form.work) /\ form.volume # 0
          THEN NextId \in Ids
               /\ Resolved(r, NextId, [request[r].book EXCEPT !.title = form.work, !.volume = form.volume])
          ELSE Refused(r)

ResolveNew(r) ==
    /\ request[r].stage = "resolve" /\ request[r].form.as = "new"
    /\ NextId \in Ids   \* bound: MaxId
    /\ Resolved(r, NextId, [request[r].book EXCEPT !.volume =
            IF request[r].form.volume # 0 THEN request[r].form.volume ELSE @])

\* Mutant: the library is not asked.
NoClash(b, c) == FALSE

\* A copy of the volume, or an unnumbered volume next to others.
Clashes(b, c) ==
    \E other \in Stored \ {b} :
        SameWork(rows[other].content, c) /\ c.volume \in {0, rows[other].content.volume}

\* Validation, the query for clashes; then without a pause the file of the
\* replaced book is kept aside and the new one written.
CheckAndWrite(r) ==
    /\ request[r].stage = "check"
    /\ LET b == request[r].id
           c == request[r].book
           replaces == request[r].form.as = "replace"
           keep == replaces /\ files[b] # Nothing
           Name == <<b, second'>>
       IN IF ~Validated(c) \/ Clashes(b, c)
          THEN Refused(r)
          ELSE /\ WriteFile(r, b, c)
               /\ second' \in IF keep THEN second .. MaxSecond ELSE {second}
               /\ aside' = IF keep
                    THEN [n \in DOMAIN aside \union {Name} |-> IF n = Name THEN files[b] ELSE aside[n]]
                    ELSE aside
               /\ request' = [request EXCEPT ![r] =
                    [stage |-> "import", draft |-> @.draft, form |-> @.form,
                     set |-> IF @.undo THEN [status |-> "submitted", backup |-> <<>>]
                             ELSE IF replaces
                             THEN [status |-> "published", bookId |-> b,
                                   backup |-> IF keep THEN Name ELSE <<>>]
                             ELSE [status |-> "published", bookId |-> b]]]
               /\ UNCHANGED <<bench, begun>>

Imported(r) ==
    /\ request[r].stage = "import"
    /\ Commit(r)
    /\ request' = [request EXCEPT ![r].stage = "mark"]
    /\ UNCHANGED <<bench, aside, second, begun>>

ImportFails(r) ==
    /\ request[r].stage = "import"
    /\ Break(r)
    /\ request' = [request EXCEPT ![r] = NoRequest]
    /\ UNCHANGED <<bench, aside, second, begun>>

\* Mutant: the draft is marked while its rows are being written.
LoadsDraftEarly(r) ==
    /\ request[r].stage \in {"import", "mark"} /\ Exists(request[r].draft)
    /\ request' = [request EXCEPT ![r] =
            [stage |-> "save", draft |-> @.draft, form |-> @.form, set |-> @.set, snap |-> meta[@.draft]]]
    /\ UNCHANGED <<import, bench, aside, second, begun>>

\* drafts.update once more: the workbench may save in between.
LoadsDraft(r) ==
    /\ request[r].stage = "mark" /\ Exists(request[r].draft)
    /\ request' = [request EXCEPT ![r] =
            [stage |-> "save", draft |-> @.draft, form |-> @.form, set |-> @.set, snap |-> meta[@.draft]]]
    /\ UNCHANGED <<import, bench, aside, second, begun>>

SavesDraft(r) ==
    /\ request[r].stage = "save" /\ Exists(request[r].draft)
    /\ meta' = [meta EXCEPT ![request[r].draft] = Over(request[r].set, request[r].snap)]
    /\ request' = [request EXCEPT ![r] = NoRequest]
    /\ UNCHANGED <<import, book, op, aside, second, begun>>

DraftGone(r) ==
    /\ request[r].stage \in {"mark", "save"} /\ ~Exists(request[r].draft)
    /\ Refused(r)

\* The application restarts: what a request has written stays.
PanelRestart ==
    /\ \E r \in Requests : request[r] # NoRequest
    /\ request' = [r \in Requests |-> NoRequest]
    /\ job' = [i \in Importers |-> IF i \in Requests THEN NoJob ELSE job[i]]
    /\ UNCHANGED <<rows, files, bench, aside, second, begun>>

RequestStep(r) ==
    \/ ResolveReplace(r) \/ ResolveVolume(r) \/ ResolveNew(r)
    \/ CheckAndWrite(r) \/ Imported(r) \/ ImportFails(r)
    \/ LoadsDraft(r) \/ SavesDraft(r) \/ DraftGone(r)

ScriptStep(i) == (Skip(i) \/ Rewrite(i)) /\ UNCHANGED <<bench, panel, begun>>
ScriptCommits(i) == Commit(i) /\ UNCHANGED <<bench, panel, begun>>
ScriptFails(i) == Break(i) /\ UNCHANGED <<bench, panel, begun>>
ScriptStarts(i, b) ==
    /\ \A r \in Requests : request[r] = NoRequest
    /\ ReadFile(i, b)
    /\ UNCHANGED <<bench, panel, begun>>

Handlers(t, d) ==
    \/ \E pdf \in BOOLEAN : CreateDraft(t, d, pdf)
    \/ \E c \in DraftBooks : SaveBook(t, d, c)
    \/ Reconvert(t, d) \/ MakePlan(t, d) \/ Submit(t, d) \/ Withdraw(t, d) \/ DeleteDraft(t, d)

RequestStarts(r, d) ==
    \/ \E form \in Forms : Publish(r, d, form)
    \/ UndoReplace(r, d)
    \/ ReturnDraft(r, d)

Next ==
    \/ \E t \in Threads, d \in Drafts : Handlers(t, d)
    \/ \E t \in Threads : ThreadStep(t)
    \/ \E d \in Drafts : HalfHour(d)
    \/ \E r \in Requests, d \in Drafts : RequestStarts(r, d)
    \/ \E r \in Requests : RequestStep(r)
    \/ \E i \in Scripts, b \in Ids : ScriptStarts(i, b)
    \/ \E i \in Scripts : ScriptStep(i) \/ ScriptCommits(i) \/ ScriptFails(i)
    \/ BenchRestart \/ PanelRestart

Spec == Init /\ [][Next]_vars

\* Half an hour passes; the panel goes on; the script goes on, is run again for every file, and
\* an import that can succeed does not fail for ever.
FairSpec ==
    /\ Spec
    /\ \A d \in Drafts : WF_vars(HalfHour(d))
    /\ WF_vars(\E r \in Requests : RequestStep(r))
    /\ \A i \in Scripts : WF_vars(ScriptStep(i)) /\ SF_vars(ScriptCommits(i))
    /\ \A i \in Scripts, b \in Ids : SF_vars(ScriptStarts(i, b))

-----------------------------------------------------------------------------
DeskTypeOK ==
    /\ ImportTypeOK
    /\ \A d \in Drafts : meta[d] \in {Nothing, Gone} \/
            meta[d] \in [status : STATUSES, plan : {"over", "running", "stale"},
                         bookId : Ids \union {0}, backup : {<<>>} \union (Ids \X (0 .. MaxSecond))]
    /\ book \in [Drafts -> DraftBooks \union {Nothing}]
    /\ DOMAIN aside \subseteq Ids \X (0 .. MaxSecond)

\* Whatever is saved behind the back of submit and publish, a book with
\* errors never reaches the library.
LibraryIsValid == \A b \in Stored : rows[b].content.valid

\* A volume of a work is one book: not after a double click, a failed import
\* or a draft that is published again.
OneBookPerVolume ==
    \A b, c \in Stored : b # c =>
        \/ ~SameWork(rows[b].content, rows[c].content)
        \/ rows[b].content.volume # rows[c].content.volume

\* A draft that names a book names one of the library.
PublishedIsInLibrary == \A d \in Drafts : Exists(d) /\ meta[d].bookId # 0 => meta[d].bookId \in Stored

\* The library whatever the desk and the panel do to it at once: valid, with every book a
\* draft names, and each volume once when a form was sent twice (admin.py publish,
\* drafts.py).  Of three requests, two can check one volume under two ids before either
\* imports: then OneBookPerVolume fails.
LibraryHolds ==
    /\ LibraryIsValid /\ PublishedIsInLibrary
    /\ begun.requests <= 2 => OneBookPerVolume

\* Replacing keeps every text the library had: live or aside.  (Violated: two
\* requests of one second use one name.)
OriginalIsKept ==
    \A b \in Stored : rows[b].version > 1 =>
        \E f \in {files[b]} \union {aside[n] : n \in {k \in DOMAIN aside : k[1] = b}} :
            f = Shelf[b]

\* A plan job that is lost does not keep its draft for ever.
PlanLockEnds == \A d \in Drafts : Exists(d) /\ PlanRunning(meta[d]) ~> ~(Exists(d) /\ PlanRunning(meta[d]))

\* A book whose import broke off is put right by the next run of the script.
TornBooksHeal == (\E b \in Ids : Torn(b)) ~> (\A b \in Ids : ~Torn(b))
=============================================================================
