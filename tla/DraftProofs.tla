----------------------------- MODULE DraftProofs -----------------------------
(***************************************************************************)
(* Proofs about the drafts and their publication: the library stays valid, *)
(* with every book a draft names, whatever the workbench and the panel do  *)
(* at once; and each volume is there once, as long as the panel has begun  *)
(* two requests at most.                                                   *)
(***************************************************************************)
EXTENDS DraftDesk, SequenceTheorems, FiniteSetTheorems, WellFoundedInduction, TLAPS

-----------------------------------------------------------------------------
(* What draft.json, the tasks of a handler and the panel's requests hold,  *)
(* when the library has the books of a set.                                *)

\* What a workbench handler changes in draft.json.
Settings == {<<>>} \union [plan : {"running", "over"}] \union [status : STATUSES]

Tasks ==
    [do : {"book"}, book : DraftBooks] \union [do : {"update"}, set : Settings]
    \union [do : {"convert"}, planned : BOOLEAN] \union [do : {"plan", "delete"}]

\* A draft names no book or one of the library, and has a file kept aside only of a
\* book it names.
MetaOK(m, library) ==
    /\ {"bookId", "backup", "status"} \subseteq DOMAIN m
    /\ m.bookId \in library \union {0}
    /\ m.bookId = 0 => m.backup = <<>>
    /\ m.status \in STATUSES

\* Changes that keep it so.
ChangesOK(s, library) ==
    /\ "bookId" \in DOMAIN s => s["bookId"] \in library
    /\ "backup" \in DOMAIN s => s["backup"] = <<>> \/ "bookId" \in DOMAIN s
    /\ "status" \in DOMAIN s => s["status"] \in STATUSES

\* A thread of the workbench.
ThreadOK(o, library) ==
    o.todo # <<>> =>
        /\ {"draft", "todo", "snap"} \subseteq DOMAIN o
        /\ o.draft \in Drafts
        /\ o.todo \in Seq(Tasks)
        /\ o.snap = Nothing \/ MetaOK(o.snap, library)

\* A request of the panel, and its import.
RequestOK(q, j, library) ==
    \/ q = NoRequest /\ j = NoJob
    \/ /\ q.draft \in Drafts
       /\ \/ q.stage = "resolve" /\ q.form \in AllForms /\ q.book \in Content /\ j = NoJob
          \/ q.stage = "check" /\ q.form \in AllForms /\ q.book \in Content /\ q.id \in Ids /\ j = NoJob
          \/ /\ q.stage = "import" /\ {"stage", "draft", "set"} \subseteq DOMAIN q
             /\ ChangesOK(q.set, {j.id}) /\ j.stage = "rows"
          \/ q.stage = "mark" /\ ChangesOK(q.set, library) /\ j = NoJob
          \/ q.stage = "save" /\ ChangesOK(q.set, library) /\ MetaOK(q.snap, library) /\ j = NoJob

\* An import under way.
JobOK(j) ==
    j = NoJob \/
        /\ j.stage \in {"hash", "rows"} /\ j.id \in Ids /\ j.content \in Content
        /\ j.stage = "rows" => j.content.valid

ImportOK ==
    /\ DOMAIN rows = Ids /\ DOMAIN files = Ids /\ DOMAIN job = Importers
    /\ \A b \in Ids : rows[b] = Nothing \/ (rows[b].content \in Content /\ rows[b].content.valid)
    /\ \A b \in Ids : files[b] \in Content \union {Nothing}
    /\ \A i \in Importers : JobOK(job[i])

AsideOK ==
    /\ \A n \in DOMAIN aside : n \in Ids \X Nat /\ aside[n] \in Content
    /\ second \in Nat

BenchOK ==
    /\ DOMAIN meta = Drafts /\ DOMAIN op = Threads
    /\ book \in [Drafts -> DraftBooks \union {Nothing}]
    /\ \A d \in Drafts : Exists(d) => MetaOK(meta[d], Stored)
    /\ \A t \in Threads : ThreadOK(op[t], Stored)

PanelOK ==
    /\ DOMAIN request = Requests
    /\ \A r \in Requests : RequestOK(request[r], job[r], Stored)

DeskInv == ImportOK /\ AsideOK /\ BenchOK /\ PanelOK

-----------------------------------------------------------------------------
(* What stays so when the library grows or draft.json is changed.          *)

LEMMA MetaStaysOK ==
    ASSUME NEW S, NEW T, S \subseteq T, NEW m, MetaOK(m, S)
    PROVE  MetaOK(m, T)
BY DEF MetaOK

LEMMA ChangesStayOK ==
    ASSUME NEW S, NEW T, S \subseteq T, NEW s, ChangesOK(s, S)
    PROVE  ChangesOK(s, T)
BY DEF ChangesOK

LEMMA ThreadStaysOK ==
    ASSUME NEW S, NEW T, S \subseteq T, NEW o, ThreadOK(o, S)
    PROVE  ThreadOK(o, T)
BY MetaStaysOK DEF ThreadOK

LEMMA RequestStaysOK ==
    ASSUME NEW S, NEW T, S \subseteq T, NEW q, NEW j, RequestOK(q, j, S)
    PROVE  RequestOK(q, j, T)
BY MetaStaysOK, ChangesStayOK DEF RequestOK

(* drafts.update: what is saved is as good as what was loaded and what is changed. *)
LEMMA OverIsOK ==
    ASSUME NEW S, 0 \notin S, NEW s, NEW m, ChangesOK(s, S), MetaOK(m, S)
    PROVE  MetaOK(Over(s, m), S)
<1> DEFINE new == Over(s, m)
<1>1. /\ DOMAIN new = DOMAIN s \union DOMAIN m
      /\ \A k \in DOMAIN new : new[k] = IF k \in DOMAIN s THEN s[k] ELSE m[k]
  BY DEF Over
<1>2. {"bookId", "backup", "status"} \subseteq DOMAIN new
  BY <1>1 DEF MetaOK
<1>3. /\ new["bookId"] = IF "bookId" \in DOMAIN s THEN s["bookId"] ELSE m["bookId"]
      /\ new["backup"] = IF "backup" \in DOMAIN s THEN s["backup"] ELSE m["backup"]
      /\ new["status"] = IF "status" \in DOMAIN s THEN s["status"] ELSE m["status"]
  BY <1>1, <1>2
<1> HIDE DEF new
<1>4. /\ new.bookId \in S \union {0} /\ new.status \in STATUSES
      /\ new.bookId = 0 => new.backup = <<>>
  BY <1>3 DEF MetaOK, ChangesOK
<1> QED BY <1>2, <1>4 DEF MetaOK, new

LEMMA SettingsAreOK ==
    ASSUME NEW S, NEW s \in Settings
    PROVE  ChangesOK(s, S)
<1>1. CASE s = <<>>
  BY <1>1 DEF ChangesOK
<1>2. CASE s \in [plan : {"running", "over"}]
  BY <1>2 DEF ChangesOK
<1>3. CASE s \in [status : STATUSES]
  BY <1>3 DEF ChangesOK
<1> QED BY <1>1, <1>2, <1>3 DEF Settings

-----------------------------------------------------------------------------
(* The workbench.                                                          *)

LEMMA StoredInIds == Stored \subseteq Ids /\ 0 \notin Stored
<1>1. 0 \notin Ids
  BY ImportAssumption DEF Ids
<1> QED BY <1>1 DEF Stored

LEMMA TaskIsOne ==
    /\ \A c \in DraftBooks : WriteBook(c) \in Tasks
    /\ \A s \in Settings : Update(s) \in Tasks
    /\ \A p \in BOOLEAN : Convert(p) \in Tasks
    /\ PagePlan \in Tasks /\ Remove \in Tasks
<1>1. \A c \in DraftBooks : WriteBook(c) \in [do : {"book"}, book : DraftBooks]
  BY DEF WriteBook
<1>2. \A s \in Settings : Update(s) \in [do : {"update"}, set : Settings]
  BY DEF Update
<1>3. \A p \in BOOLEAN : Convert(p) \in [do : {"convert"}, planned : BOOLEAN]
  BY DEF Convert
<1>4. PagePlan \in [do : {"plan", "delete"}] /\ Remove \in [do : {"plan", "delete"}]
  BY DEF PagePlan, Remove
<1> QED BY <1>1, <1>2, <1>3, <1>4 DEF Tasks

LEMMA SettingsIs ==
    /\ <<>> \in Settings
    /\ [plan |-> "running"] \in Settings /\ [plan |-> "over"] \in Settings
    /\ \A s \in STATUSES : [status |-> s] \in Settings
BY DEF Settings

LEMMA TaskWithSet ==
    ASSUME NEW task \in Tasks, task.do = "update"
    PROVE  task.set \in Settings
BY DEF Tasks

LEMMA TaskWithBook ==
    ASSUME NEW task \in Tasks, task.do = "book"
    PROVE  task.book \in DraftBooks
BY DEF Tasks

LEMMA TasksInSeq ==
    /\ <<>> \in Seq(Tasks)
    /\ \A x \in Tasks : <<x>> \in Seq(Tasks)
    /\ \A x, y \in Tasks : <<x, y>> \in Seq(Tasks)
    /\ \A s, u \in Seq(Tasks) : s \o u \in Seq(Tasks)
    /\ \A s \in Seq(Tasks) : s # <<>> => Head(s) \in Tasks /\ Tail(s) \in Seq(Tasks)
BY HeadTailProperties, ConcatProperties

(* One thread moves; the library and the panel do not. *)
LEMMA ThreadMoves ==
    ASSUME DeskInv, UNCHANGED <<import, panel>>,
           NEW t \in Threads, NEW o, op' = [op EXCEPT ![t] = o], ThreadOK(o, Stored),
           DOMAIN meta' = Drafts, book' \in [Drafts -> DraftBooks \union {Nothing}],
           \A d \in Drafts : Exists(d)' => MetaOK(meta'[d], Stored)
    PROVE  DeskInv'
<1>1. Stored' = Stored
  BY DEF Stored, import
<1>2. ImportOK' /\ AsideOK' /\ PanelOK'
  BY <1>1 DEF DeskInv, ImportOK, AsideOK, PanelOK, import, panel
<1>3. BenchOK'
  <2>1. DOMAIN op' = Threads /\ \A u \in Threads : op'[u] = IF u = t THEN o ELSE op[u]
    BY DEF DeskInv, BenchOK
  <2>2. \A u \in Threads : ThreadOK(op'[u], Stored)
    BY <2>1 DEF DeskInv, BenchOK
  <2> QED BY <1>1, <2>1, <2>2 DEF BenchOK
<1> QED BY <1>2, <1>3 DEF DeskInv

LEMMA IdleIsOK == \A S : ThreadOK(Idle, S)
BY DEF Idle, ThreadOK

(* A handler that begins. *)
LEMMA HandleStep ==
    ASSUME DeskInv, NEW t \in Threads, NEW d \in Drafts, NEW todo \in Seq(Tasks), Handle(t, d, todo),
           DOMAIN meta' = Drafts, book' \in [Drafts -> DraftBooks \union {Nothing}],
           \A e \in Drafts : Exists(e)' => MetaOK(meta'[e], Stored)
    PROVE  DeskInv'
<1> DEFINE o == [draft |-> d, todo |-> todo, snap |-> Nothing]
<1>1. ThreadOK(o, Stored)
  BY DEF ThreadOK
<1>2. op' = [op EXCEPT ![t] = o] /\ UNCHANGED <<import, panel>>
  BY DEF Handle
<1> HIDE DEF o
<1> QED BY <1>1, <1>2, ThreadMoves

LEMMA PlanJobInSeq == PlanJob \in Seq(Tasks)
BY TasksInSeq, TaskIsOne, SettingsIs DEF PlanJob

LEMMA HandlersStep ==
    ASSUME DeskInv, NEW t \in Threads, NEW d \in Drafts, Handlers(t, d)
    PROVE  DeskInv'
<1>1. BenchOK
  BY DEF DeskInv
<1>2. ASSUME NEW todo \in Seq(Tasks), Handle(t, d, todo), UNCHANGED <<meta, book>> PROVE DeskInv'
  <2>1. \A e \in Drafts : Exists(e)' => MetaOK(meta'[e], Stored)
    BY <1>1, <1>2 DEF BenchOK, Exists
  <2> QED BY <1>1, <1>2, <2>1, HandleStep DEF BenchOK
<1>3. ASSUME NEW pdf \in BOOLEAN, CreateDraft(t, d, pdf) PROVE DeskInv'
  <2>1. <<Convert(FALSE)>> \o (IF pdf THEN PlanJob ELSE <<>>) \in Seq(Tasks)
    BY TasksInSeq, TaskIsOne, PlanJobInSeq
  <2>2. MetaOK(NewMeta, Stored)
    BY DEF MetaOK, NewMeta, STATUSES, EDITABLE
  <2>3. DOMAIN meta' = Drafts /\ \A e \in Drafts : meta'[e] = IF e = d THEN NewMeta ELSE meta[e]
    BY <1>1, <1>3 DEF CreateDraft, BenchOK
  <2>4. \A e \in Drafts : Exists(e)' => MetaOK(meta'[e], Stored)
    BY <1>1, <2>2, <2>3 DEF BenchOK, Exists
  <2> QED BY <1>1, <1>3, <2>1, <2>3, <2>4, HandleStep DEF CreateDraft, BenchOK
<1>4. ASSUME NEW c \in DraftBooks, SaveBook(t, d, c) PROVE DeskInv'
  <2>1. <<WriteBook(c), Update(<<>>)>> \in Seq(Tasks)
    BY TasksInSeq, TaskIsOne, SettingsIs
  <2> QED BY <1>2, <1>4, <2>1 DEF SaveBook
<1>5. ASSUME Reconvert(t, d) PROVE DeskInv'
  <2>1. <<Update(<<>>), Convert(FALSE)>> \in Seq(Tasks)
    BY TasksInSeq, TaskIsOne, SettingsIs
  <2> QED BY <1>2, <1>5, <2>1 DEF Reconvert
<1>6. ASSUME MakePlan(t, d) PROVE DeskInv'
  BY <1>2, <1>6, PlanJobInSeq DEF MakePlan
<1>7. ASSUME Submit(t, d) \/ Withdraw(t, d) PROVE DeskInv'
  <2>1. "submitted" \in STATUSES /\ "editing" \in STATUSES
    BY DEF STATUSES, EDITABLE
  <2>2. <<Update([status |-> "submitted"])>> \in Seq(Tasks) /\ <<Update([status |-> "editing"])>> \in Seq(Tasks)
    BY <2>1, TasksInSeq, TaskIsOne, SettingsIs
  <2> QED BY <1>2, <1>7, <2>2 DEF Submit, Withdraw
<1>8. ASSUME DeleteDraft(t, d) PROVE DeskInv'
  <2>1. <<Remove>> \in Seq(Tasks)
    BY TasksInSeq, TaskIsOne
  <2> QED BY <1>2, <1>8, <2>1 DEF DeleteDraft
<1> QED BY <1>3, <1>4, <1>5, <1>6, <1>7, <1>8 DEF Handlers

(* A thread goes on with its list, of which the first task is done or grew into others. *)
LEMMA ThenIsOK ==
    ASSUME DeskInv, NEW t \in Threads, Busy(t), NEW todo \in Seq(Tasks), Then(t, todo)
    PROVE  \E o : op' = [op EXCEPT ![t] = o] /\ ThreadOK(o, Stored)
<1>1. /\ op[t].todo # <<>> /\ {"draft", "todo", "snap"} \subseteq DOMAIN op[t]
      /\ op[t].draft \in Drafts /\ op[t].todo \in Seq(Tasks) /\ DOMAIN op = Threads
  BY DEF DeskInv, BenchOK, ThreadOK, Busy
<1> DEFINE rest == todo \o Tail(op[t].todo)
<1> DEFINE o == IF rest = <<>> THEN Idle ELSE [op[t] EXCEPT !.todo = rest, !.snap = Nothing]
<1>2. rest \in Seq(Tasks)
  BY <1>1, TasksInSeq
<1> HIDE DEF rest
<1>3. op' = [op EXCEPT ![t] = o]
  BY <1>1 DEF Then, rest
<1>4. ThreadOK(o, Stored)
  <2>1. CASE rest = <<>>
    BY <2>1, IdleIsOK
  <2>2. CASE rest # <<>>
    <3>1. /\ DOMAIN o = DOMAIN op[t] /\ o.todo = rest /\ o.snap = Nothing /\ o.draft = op[t].draft
      BY <1>1, <2>2
    <3> HIDE DEF o
    <3> QED BY <1>1, <1>2, <3>1 DEF ThreadOK
  <2> QED BY <2>1, <2>2
<1> QED BY <1>3, <1>4

LEMMA ThreadStepOK ==
    ASSUME DeskInv, NEW t \in Threads, ThreadStep(t)
    PROVE  DeskInv'
<1> DEFINE d == op[t].draft
<1>1. BenchOK /\ DOMAIN meta = Drafts /\ DOMAIN op = Threads
  BY DEF DeskInv, BenchOK
<1>2. Busy(t) => d \in Drafts /\ Head(op[t].todo) \in Tasks
  BY <1>1, TasksInSeq DEF BenchOK, ThreadOK, Busy
<1>3. ASSUME NEW todo \in Seq(Tasks), Busy(t), Then(t, todo), UNCHANGED <<import, panel>>,
             DOMAIN meta' = Drafts, book' \in [Drafts -> DraftBooks \union {Nothing}],
             \A e \in Drafts : Exists(e)' => MetaOK(meta'[e], Stored)
      PROVE  DeskInv'
  BY <1>3, ThenIsOK, ThreadMoves
<1>4. ASSUME UNCHANGED <<meta, book>>
      PROVE  /\ DOMAIN meta' = Drafts /\ book' \in [Drafts -> DraftBooks \union {Nothing}]
             /\ \A e \in Drafts : Exists(e)' => MetaOK(meta'[e], Stored)
  BY <1>1, <1>4 DEF BenchOK, Exists
<1>5. CASE FolderGone(t)
  <2>1. op' = [op EXCEPT ![t] = Idle] /\ UNCHANGED <<import, panel, meta, book>>
    BY <1>5 DEF FolderGone, Ends
  <2> QED BY <1>4, <2>1, IdleIsOK, ThreadMoves
<1>6. CASE SavesBook(t)
  <2>1. Busy(t) /\ Head(op[t].todo).book \in DraftBooks
    BY <1>2, <1>6, TaskWithBook DEF SavesBook, Doing
  <2>2. book' \in [Drafts -> DraftBooks \union {Nothing}]
    BY <1>1, <1>6, <2>1 DEF SavesBook, BenchOK
  <2>3. DOMAIN meta' = Drafts /\ \A e \in Drafts : Exists(e)' => MetaOK(meta'[e], Stored)
    BY <1>1, <1>6 DEF SavesBook, BenchOK, Exists
  <2> QED BY <1>3, <1>6, <2>1, <2>2, <2>3, TasksInSeq DEF SavesBook
<1>7. CASE LoadsMeta(t)
  <2> DEFINE o == [op[t] EXCEPT !.snap = meta[d]]
  <2>1. /\ op[t].todo # <<>> /\ {"draft", "todo", "snap"} \subseteq DOMAIN op[t] /\ d \in Drafts
        /\ op[t].todo \in Seq(Tasks) /\ MetaOK(meta[d], Stored)
    BY <1>1, <1>2, <1>7 DEF LoadsMeta, Doing, Busy, BenchOK, ThreadOK
  <2>2. op' = [op EXCEPT ![t] = o]
    BY <1>7 DEF LoadsMeta
  <2>3. DOMAIN o = DOMAIN op[t] /\ o.todo = op[t].todo /\ o.draft = d /\ o.snap = meta[d]
    BY <2>1
  <2> HIDE DEF o
  <2>4. ThreadOK(o, Stored)
    BY <2>1, <2>3 DEF ThreadOK
  <2> QED BY <1>4, <1>7, <2>2, <2>4, ThreadMoves DEF LoadsMeta
<1>8. CASE SavesMeta(t)
  <2> DEFINE new == Over(Head(op[t].todo).set, op[t].snap)
  <2>1. Busy(t) /\ d \in Drafts /\ Head(op[t].todo).set \in Settings /\ MetaOK(op[t].snap, Stored)
    BY <1>1, <1>2, <1>8, TaskWithSet DEF SavesMeta, Doing, BenchOK, ThreadOK, Busy
  <2>2. MetaOK(new, Stored)
    BY <2>1, SettingsAreOK, OverIsOK, StoredInIds
  <2>3. meta' = [meta EXCEPT ![d] = new]
    BY <1>8 DEF SavesMeta
  <2> HIDE DEF new
  <2>4. DOMAIN meta' = Drafts /\ \A e \in Drafts : Exists(e)' => MetaOK(meta'[e], Stored)
    BY <1>1, <2>1, <2>2, <2>3 DEF BenchOK, Exists
  <2>5. book' \in [Drafts -> DraftBooks \union {Nothing}]
    BY <1>1, <1>8 DEF SavesMeta, BenchOK
  <2> QED BY <1>3, <1>8, <2>1, <2>4, <2>5, TasksInSeq DEF SavesMeta
<1>9. CASE Converts(t)
  <2> DEFINE found == meta[d].status
             kept == IF found = "failed" THEN "editing" ELSE found
             Plan == IF Head(op[t].todo).planned THEN <<Update([plan |-> "over"])>> ELSE <<>>
  <2>1. Busy(t) /\ d \in Drafts /\ MetaOK(meta[d], Stored)
    BY <1>1, <1>2, <1>9 DEF Converts, Doing, BenchOK
  <2>2. kept \in STATUSES /\ "failed" \in STATUSES
    BY <2>1 DEF MetaOK, STATUSES, EDITABLE
  <2>3. Plan \in Seq(Tasks)
    BY TasksInSeq, TaskIsOne, SettingsIs
  <2>4. <<Update([status |-> "failed"])>> \in Seq(Tasks)
    BY <2>2, TasksInSeq, TaskIsOne, SettingsIs
  <2>5. \A c \in DraftBooks : <<WriteBook(c), Update([status |-> kept])>> \in Seq(Tasks)
    BY <2>2, TasksInSeq, TaskIsOne, SettingsIs
  <2>6. \/ Then(t, <<Update([status |-> "failed"])>> \o Plan)
        \/ \E c \in DraftBooks : Then(t, <<WriteBook(c), Update([status |-> kept])>> \o Plan)
    BY <1>9 DEF Converts
  <2> HIDE DEF kept, Plan
  <2>7. \E todo \in Seq(Tasks) : Then(t, todo)
    BY <2>3, <2>4, <2>5, <2>6, TasksInSeq
  <2>8. UNCHANGED <<import, panel, meta, book>>
    BY <1>9 DEF Converts
  <2> QED BY <1>3, <1>4, <2>1, <2>7, <2>8
<1>10. CASE FindsPages(t)
  <2>1. /\ <<Update([plan |-> "over"])>> \in Seq(Tasks)
        /\ <<Update([plan |-> "running"]), Convert(TRUE)>> \in Seq(Tasks)
    BY TasksInSeq, TaskIsOne, SettingsIs
  <2> QED BY <1>3, <1>4, <1>10, <2>1 DEF FindsPages, Doing
<1>11. CASE Removes(t)
  <2>1. Busy(t) /\ d \in Drafts
    BY <1>2, <1>11 DEF Removes, Doing
  <2>2. DOMAIN meta' = Drafts /\ \A e \in Drafts : meta'[e] = IF e = d THEN Gone ELSE meta[e]
    BY <1>1, <1>11 DEF Removes
  <2>3. \A e \in Drafts : Exists(e)' => MetaOK(meta'[e], Stored)
    BY <1>1, <2>2 DEF BenchOK, Exists
  <2>4. book' \in [Drafts -> DraftBooks \union {Nothing}]
    BY <1>1, <1>11 DEF Removes, BenchOK
  <2> QED BY <1>3, <1>11, <2>1, <2>2, <2>3, <2>4, TasksInSeq DEF Removes
<1> QED BY <1>5, <1>6, <1>7, <1>8, <1>9, <1>10, <1>11 DEF ThreadStep

LEMMA BenchRestartOK ==
    ASSUME DeskInv, BenchRestart
    PROVE  DeskInv'
<1>1. Stored' = Stored
  BY DEF BenchRestart, Stored, import
<1>2. ImportOK' /\ AsideOK' /\ PanelOK'
  BY <1>1 DEF BenchRestart, DeskInv, ImportOK, AsideOK, PanelOK, import, panel
<1>3. BenchOK'
  BY <1>1, IdleIsOK DEF BenchRestart, DeskInv, BenchOK, Exists
<1> QED BY <1>2, <1>3 DEF DeskInv

LEMMA HalfHourOK ==
    ASSUME DeskInv, NEW d \in Drafts, HalfHour(d)
    PROVE  DeskInv'
<1>1. Stored' = Stored
  BY DEF HalfHour, Stored, import
<1>2. ImportOK' /\ AsideOK' /\ PanelOK'
  BY <1>1 DEF HalfHour, DeskInv, ImportOK, AsideOK, PanelOK, import, panel
<1>3. BenchOK'
  <2> DEFINE new == [meta[d] EXCEPT !.plan = "stale"]
  <2>1. MetaOK(meta[d], Stored) /\ DOMAIN meta = Drafts
    BY DEF HalfHour, DeskInv, BenchOK
  <2>2. meta' = [meta EXCEPT ![d] = new]
    BY DEF HalfHour
  <2>3. /\ DOMAIN new = DOMAIN meta[d] /\ new.bookId = meta[d].bookId
        /\ new.status = meta[d].status /\ new.backup = meta[d].backup
    BY <2>1 DEF MetaOK
  <2>4. MetaOK(new, Stored)
    BY <2>1, <2>3 DEF MetaOK
  <2> HIDE DEF new
  <2> QED BY <1>1, <2>1, <2>2, <2>4 DEF HalfHour, DeskInv, BenchOK, Exists
<1> QED BY <1>2, <1>3 DEF DeskInv

-----------------------------------------------------------------------------
(* Imports.                                                                *)

LEMMA RowIsThere == \A c, n : [content |-> c, version |-> n] # Nothing
BY DEF Nothing

LEMMA WriteFileOK ==
    ASSUME ImportOK, NEW i \in Importers, NEW b \in Ids, NEW c \in Content, WriteFile(i, b, c)
    PROVE  ImportOK' /\ Stored' = Stored
<1>1. JobOK([stage |-> "rows", id |-> b, content |-> c])
  BY DEF JobOK, WriteFile, Validated
<1> QED BY <1>1 DEF ImportOK, WriteFile, Stored

LEMMA CommitOK ==
    ASSUME ImportOK, NEW i \in Importers, Commit(i)
    PROVE  /\ ImportOK'
           /\ job[i].id \in Ids /\ job[i].content \in Content
           /\ Stored' = Stored \union {job[i].id}
           /\ rows'[job[i].id].content = job[i].content
           /\ \A b \in Ids : b # job[i].id => rows'[b] = rows[b]
<1>1. job[i].id \in Ids /\ job[i].content \in Content /\ job[i].content.valid
  BY DEF ImportOK, JobOK, Commit, NoJob
<1>2. PICK n : rows' = [rows EXCEPT ![job[i].id] = [content |-> job[i].content, version |-> n]]
  BY DEF Commit
<1>3. \A b \in Ids : rows'[b] = IF b = job[i].id THEN [content |-> job[i].content, version |-> n] ELSE rows[b]
  BY <1>2 DEF ImportOK
<1>4. Stored' = Stored \union {job[i].id}
  BY <1>1, <1>3, RowIsThere DEF Stored
<1>5. /\ DOMAIN rows' = Ids
      /\ \A b \in Ids : rows'[b] = Nothing \/ (rows'[b].content \in Content /\ rows'[b].content.valid)
  BY <1>1, <1>2, <1>3 DEF ImportOK
<1>6. /\ DOMAIN files' = Ids /\ DOMAIN job' = Importers
      /\ \A b \in Ids : files'[b] \in Content \union {Nothing}
      /\ \A k \in Importers : JobOK(job'[k])
  BY DEF ImportOK, Commit, JobOK
<1> QED BY <1>1, <1>3, <1>4, <1>5, <1>6 DEF ImportOK

LEMMA JobEndsOK ==
    ASSUME ImportOK, NEW i \in Importers, job' = [job EXCEPT ![i] = NoJob], UNCHANGED <<rows, files>>
    PROVE  ImportOK' /\ Stored' = Stored
BY DEF ImportOK, JobOK, Stored

LEMMA ReadFileOK ==
    ASSUME ImportOK, NEW i \in Importers, NEW b \in Ids, ReadFile(i, b)
    PROVE  ImportOK' /\ Stored' = Stored
<1>1. JobOK([stage |-> "hash", id |-> b, content |-> files[b]])
  BY DEF JobOK, ReadFile, ImportOK
<1> QED BY <1>1 DEF ImportOK, ReadFile, Stored

(* The library grows, drafts and threads rest. *)
LEMMA BenchRests ==
    ASSUME BenchOK, UNCHANGED bench, Stored \subseteq Stored'
    PROVE  BenchOK'
<1>1. /\ \A d \in Drafts : MetaOK(meta[d], Stored) => MetaOK(meta[d], Stored')
      /\ \A t \in Threads : ThreadOK(op[t], Stored) => ThreadOK(op[t], Stored')
  BY MetaStaysOK, ThreadStaysOK
<1> QED BY <1>1 DEF BenchOK, bench, Exists

(* One request moves, and with it its import. *)
LEMMA RequestMoves ==
    ASSUME DeskInv, NEW r \in Requests, NEW q, request' = [request EXCEPT ![r] = q],
           \A s \in Requests : s # r => job'[s] = job[s],
           Stored \subseteq Stored', RequestOK(q, job'[r], Stored'),
           ImportOK', AsideOK', BenchOK'
    PROVE  DeskInv'
<1>1. DOMAIN request' = Requests /\ \A s \in Requests : request'[s] = IF s = r THEN q ELSE request[s]
  BY DEF DeskInv, PanelOK
<1>2. \A s \in Requests : RequestOK(request[s], job[s], Stored')
  BY RequestStaysOK DEF DeskInv, PanelOK
<1>3. PanelOK'
  BY <1>1, <1>2 DEF PanelOK
<1> QED BY <1>3 DEF DeskInv

(* A request moves and nothing else. *)
LEMMA OnlyRequestMoves ==
    ASSUME DeskInv, NEW r \in Requests, NEW q, request' = [request EXCEPT ![r] = q],
           UNCHANGED <<import, bench, aside, second>>, RequestOK(q, job[r], Stored)
    PROVE  DeskInv'
<1>1. Stored' = Stored /\ ImportOK' /\ AsideOK'
  BY DEF DeskInv, ImportOK, AsideOK, import, Stored
<1>2. BenchOK'
  BY <1>1, BenchRests DEF DeskInv
<1> QED BY <1>1, <1>2, RequestMoves DEF import

LEMMA NoRequestIsOK == \A S : RequestOK(NoRequest, NoJob, S)
BY DEF RequestOK

(* What the stage of a request says of it and of its import. *)
LEMMA StageSays ==
    ASSUME DeskInv, NEW r \in Requests
    PROVE  /\ request[r] = NoRequest => job[r] = NoJob
           /\ request[r].stage \in {"resolve", "check", "import", "mark", "save"} => request[r].draft \in Drafts
           /\ request[r].stage = "resolve" =>
                request[r].form \in AllForms /\ request[r].book \in Content /\ job[r] = NoJob
           /\ request[r].stage = "check" =>
                /\ request[r].form \in AllForms /\ request[r].book \in Content
                /\ request[r].id \in Ids /\ job[r] = NoJob
           /\ request[r].stage = "import" =>
                /\ {"stage", "draft", "set"} \subseteq DOMAIN request[r]
                /\ job[r].stage = "rows" /\ ChangesOK(request[r].set, {job[r].id})
           /\ request[r].stage = "mark" => ChangesOK(request[r].set, Stored) /\ job[r] = NoJob
           /\ request[r].stage = "save" =>
                ChangesOK(request[r].set, Stored) /\ MetaOK(request[r].snap, Stored) /\ job[r] = NoJob
<1>1. RequestOK(request[r], job[r], Stored) /\ NoRequest.stage = "none"
  BY DEF DeskInv, PanelOK, NoRequest
<1> QED BY <1>1 DEF RequestOK

LEMMA RefusedOK ==
    ASSUME DeskInv, NEW r \in Requests, job[r] = NoJob, Refused(r)
    PROVE  DeskInv'
BY NoRequestIsOK, OnlyRequestMoves DEF Refused

-----------------------------------------------------------------------------
(* The panel.                                                              *)

LEMMA AsksOK ==
    ASSUME DeskInv, NEW r \in Requests, NEW d \in Drafts, NEW form \in AllForms, NEW c \in Content, NEW undo,
           Asks(r, d, form, c, undo)
    PROVE  DeskInv'
<1> DEFINE q == [stage |-> "resolve", draft |-> d, form |-> form, book |-> c, undo |-> undo]
<1>1. job[r] = NoJob
  BY StageSays DEF Asks, OneAdmin
<1>2. RequestOK(q, job[r], Stored)
  BY <1>1 DEF RequestOK
<1>3. request' = [request EXCEPT ![r] = q] /\ UNCHANGED <<import, bench, aside, second>>
  BY DEF Asks
<1> HIDE DEF q
<1> QED BY <1>2, <1>3, OnlyRequestMoves

LEMMA PublishOK ==
    ASSUME DeskInv, NEW r \in Requests, NEW d \in Drafts, NEW form \in Forms, Publish(r, d, form)
    PROVE  DeskInv'
<1>1. form \in AllForms /\ book[d] \in Content
  BY DeskAssumption DEF DeskInv, BenchOK, Publish
<1> QED BY <1>1, AsksOK DEF Publish

LEMMA UndoReplaceOK ==
    ASSUME DeskInv, NEW r \in Requests, NEW d \in Drafts, UndoReplace(r, d)
    PROVE  DeskInv'
<1> DEFINE name == meta[d].backup
           form == [as |-> "replace", id |-> meta[d].bookId, confirm |-> TRUE]
<1>1. MetaOK(meta[d], Stored) /\ name \in DOMAIN aside
  BY DEF DeskInv, BenchOK, UndoReplace
<1>2. name \in Ids \X Nat /\ aside[name] \in Content
  BY <1>1 DEF DeskInv, AsideOK
<1>3. name # <<>>
  <2>1. PICK x \in Ids, y \in Nat : name = <<x, y>>
    BY <1>2
  <2> QED BY <2>1
<1>4. meta[d].bookId \in Ids
  BY <1>1, <1>3, StoredInIds DEF MetaOK
<1>5. form \in AllForms
  BY <1>4 DEF AllForms
<1> HIDE DEF form
<1>6. Asks(r, d, form, aside[name], TRUE)
  BY DEF UndoReplace, form
<1> QED BY <1>2, <1>5, <1>6, AsksOK

LEMMA ReturnDraftOK ==
    ASSUME DeskInv, NEW r \in Requests, NEW d \in Drafts, ReturnDraft(r, d)
    PROVE  DeskInv'
<1> DEFINE q == [stage |-> "mark", draft |-> d, form |-> [as |-> "return"], set |-> [status |-> "returned"]]
<1>1. job[r] = NoJob
  BY StageSays DEF ReturnDraft, OneAdmin
<1>2. ChangesOK([status |-> "returned"], Stored)
  BY DEF ChangesOK, STATUSES, EDITABLE
<1>3. RequestOK(q, job[r], Stored)
  BY <1>1, <1>2 DEF RequestOK
<1>4. request' = [request EXCEPT ![r] = q] /\ UNCHANGED <<import, bench, aside, second>>
  BY DEF ReturnDraft
<1> HIDE DEF q
<1> QED BY <1>3, <1>4, OnlyRequestMoves

LEMMA RequestStartsOK ==
    ASSUME DeskInv, NEW r \in Requests, NEW d \in Drafts, RequestStarts(r, d)
    PROVE  DeskInv'
BY PublishOK, UndoReplaceOK, ReturnDraftOK DEF RequestStarts

LEMMA ContentChanged ==
    ASSUME NEW c \in Content, NEW v \in Volumes
    PROVE  /\ [c EXCEPT !.volume = v] \in Content
           /\ \A t \in Titles : [c EXCEPT !.title = t, !.volume = v] \in Content
BY DEF Content

(* The form is resolved: to a number of the library's, and a book of its kind. *)
LEMMA ResolvedOK ==
    ASSUME DeskInv, NEW r \in Requests, request[r].stage = "resolve",
           NEW b \in Ids, NEW c \in Content, Resolved(r, b, c)
    PROVE  DeskInv'
<1> DEFINE q == [stage |-> "check", draft |-> request[r].draft, form |-> request[r].form,
                 undo |-> request[r].undo, id |-> b, book |-> c]
<1>1. request[r].form \in AllForms /\ job[r] = NoJob
  BY StageSays
<1>2. RequestOK(q, job[r], Stored)
  BY <1>1, StageSays DEF RequestOK
<1>3. request' = [request EXCEPT ![r] = q] /\ UNCHANGED <<import, bench, aside, second>>
  BY DEF Resolved, DeskInv, PanelOK
<1> HIDE DEF q
<1> QED BY <1>2, <1>3, OnlyRequestMoves

LEMMA ResolveOK ==
    ASSUME DeskInv, NEW r \in Requests, ResolveReplace(r) \/ ResolveVolume(r) \/ ResolveNew(r)
    PROVE  DeskInv'
<1> DEFINE c == request[r].book
           form == request[r].form
<1>1. request[r].stage = "resolve" /\ form \in AllForms /\ c \in Content /\ job[r] = NoJob
  BY StageSays DEF ResolveReplace, ResolveVolume, ResolveNew
<1>2. CASE ResolveReplace(r)
  <2> DEFINE old == rows[form.id].content
  <2>1. form.id \in Ids
    BY <1>1, <1>2 DEF ResolveReplace, AllForms
  <2>2. CASE Refused(r)
    BY <1>1, <2>2, RefusedOK
  <2>3. CASE ~Refused(r)
    <3>1. rows[form.id] # Nothing /\ Resolved(r, form.id, [c EXCEPT !.title = old.title, !.volume = old.volume])
      BY <1>2, <2>3 DEF ResolveReplace
    <3>2. old \in Content
      BY <2>1, <3>1 DEF DeskInv, ImportOK
    <3>3. old.title \in Titles /\ old.volume \in Volumes
      BY <3>2 DEF Content
    <3> QED BY <1>1, <2>1, <3>1, <3>3, ContentChanged, ResolvedOK
  <2> QED BY <2>2, <2>3
<1>3. CASE ResolveVolume(r)
  <2>1. form.work \in Titles /\ form.volume \in Volumes
    BY <1>1, <1>3 DEF ResolveVolume, AllForms
  <2>2. CASE Refused(r)
    BY <1>1, <2>2, RefusedOK
  <2>3. CASE ~Refused(r)
    <3>1. NextId \in Ids /\ Resolved(r, NextId, [c EXCEPT !.title = form.work, !.volume = form.volume])
      BY <1>3, <2>3 DEF ResolveVolume
    <3> QED BY <1>1, <2>1, <3>1, ContentChanged, ResolvedOK
  <2> QED BY <2>2, <2>3
<1>4. CASE ResolveNew(r)
  <2> DEFINE v == IF form.volume # 0 THEN form.volume ELSE c.volume
  <2>1. v \in Volumes
    BY <1>1, <1>4 DEF ResolveNew, AllForms, Content
  <2>2. NextId \in Ids /\ Resolved(r, NextId, [c EXCEPT !.volume = v])
    BY <1>4 DEF ResolveNew
  <2> HIDE DEF v
  <2> QED BY <1>1, <2>1, <2>2, ContentChanged, ResolvedOK
<1> QED BY <1>2, <1>3, <1>4

(* What a check that is passed does. *)
LEMMA CheckedIs ==
    ASSUME DeskInv, NEW r \in Requests, CheckAndWrite(r), ~Refused(r)
    PROVE  LET b == request[r].id
               c == request[r].book
           IN /\ b \in Ids /\ c \in Content /\ job[r] = NoJob
              /\ Validated(c) /\ ~Clashes(b, c) /\ WriteFile(r, b, c)
              /\ UNCHANGED <<bench, begun>>
              /\ AsideOK'
              /\ \E q : /\ request' = [request EXCEPT ![r] = q]
                        /\ q.stage = "import" /\ q.draft \in Drafts
                        /\ {"stage", "draft", "set"} \subseteq DOMAIN q /\ ChangesOK(q.set, {b})
<1> DEFINE b == request[r].id
           c == request[r].book
           keep == request[r].form.as = "replace" /\ files[b] # Nothing
           name == <<b, second'>>
           set == IF request[r].undo THEN [status |-> "submitted", backup |-> <<>>]
                  ELSE IF request[r].form.as = "replace"
                  THEN [status |-> "published", bookId |-> b, backup |-> IF keep THEN name ELSE <<>>]
                  ELSE [status |-> "published", bookId |-> b]
           q == [stage |-> "import", draft |-> request[r].draft, form |-> request[r].form, set |-> set]
<1>1. b \in Ids /\ c \in Content /\ job[r] = NoJob
  BY StageSays DEF CheckAndWrite
<1>2. /\ Validated(c) /\ ~Clashes(b, c) /\ WriteFile(r, b, c)
      /\ second' \in IF keep THEN second .. MaxSecond ELSE {second}
      /\ aside' = IF keep
            THEN [n \in DOMAIN aside \union {name} |-> IF n = name THEN files[b] ELSE aside[n]]
            ELSE aside
      /\ UNCHANGED <<bench, begun>>
  BY DEF CheckAndWrite
<1>3. request' = [request EXCEPT ![r] = q]
  BY DEF CheckAndWrite, DeskInv, PanelOK
<1>4. AsideOK'
  <2>1. AsideOK /\ second \in Nat
    BY DEF DeskInv, AsideOK
  <2>2. CASE ~keep
    BY <1>2, <2>1, <2>2 DEF AsideOK
  <2>3. CASE keep
    <3>1. second' \in Nat /\ files[b] \in Content
      BY <1>1, <1>2, <2>1, <2>3, DeskAssumption DEF DeskInv, ImportOK
    <3>2. /\ DOMAIN aside' = DOMAIN aside \union {name}
          /\ \A n \in DOMAIN aside' : aside'[n] = IF n = name THEN files[b] ELSE aside[n]
      BY <1>2, <2>3
    <3>3. name \in Ids \X Nat
      BY <1>1, <3>1
    <3> HIDE DEF name, keep
    <3> QED BY <2>1, <3>1, <3>2, <3>3 DEF AsideOK
  <2> QED BY <2>2, <2>3
<1>5. ChangesOK(set, {b})
  <2>1. "submitted" \in STATUSES /\ "published" \in STATUSES
    BY DEF STATUSES
  <2>2. CASE request[r].undo
    <3>1. set = [status |-> "submitted", backup |-> <<>>]
      BY <2>2
    <3> HIDE DEF set
    <3> QED BY <2>1, <3>1 DEF ChangesOK
  <2>3. CASE ~request[r].undo /\ request[r].form.as = "replace"
    <3>1. set = [status |-> "published", bookId |-> b, backup |-> IF keep THEN name ELSE <<>>]
      BY <2>3
    <3> HIDE DEF set, b, keep, name
    <3> QED BY <2>1, <3>1 DEF ChangesOK
  <2>4. CASE ~request[r].undo /\ request[r].form.as # "replace"
    <3>1. set = [status |-> "published", bookId |-> b]
      BY <2>4
    <3> HIDE DEF set, b
    <3> QED BY <2>1, <3>1 DEF ChangesOK
  <2> QED BY <2>2, <2>3, <2>4
<1> HIDE DEF set
<1>6. /\ q.stage = "import" /\ q.draft \in Drafts
      /\ {"stage", "draft", "set"} \subseteq DOMAIN q /\ ChangesOK(q.set, {b})
  BY <1>5, StageSays DEF CheckAndWrite
<1> HIDE DEF q
<1> QED BY <1>1, <1>2, <1>3, <1>4, <1>6

LEMMA CheckAndWriteOK ==
    ASSUME DeskInv, NEW r \in Requests, CheckAndWrite(r)
    PROVE  DeskInv'
<1>1. job[r] = NoJob
  BY StageSays DEF CheckAndWrite
<1>2. CASE Refused(r)
  BY <1>1, <1>2, RefusedOK
<1>3. CASE ~Refused(r)
  <2> DEFINE b == request[r].id
             c == request[r].book
  <2>1. /\ b \in Ids /\ c \in Content /\ WriteFile(r, b, c) /\ UNCHANGED bench /\ AsideOK'
        /\ \E q : /\ request' = [request EXCEPT ![r] = q]
                  /\ q.stage = "import" /\ q.draft \in Drafts
                  /\ {"stage", "draft", "set"} \subseteq DOMAIN q /\ ChangesOK(q.set, {b})
    BY <1>3, CheckedIs
  <2>2. PICK q : /\ request' = [request EXCEPT ![r] = q]
                 /\ q.stage = "import" /\ q.draft \in Drafts
                 /\ {"stage", "draft", "set"} \subseteq DOMAIN q /\ ChangesOK(q.set, {b})
    BY <2>1
  <2>3. r \in Importers /\ DOMAIN job = Importers
    BY DeskAssumption DEF DeskInv, ImportOK
  <2>4. ImportOK' /\ Stored' = Stored
    BY <2>1, <2>3, WriteFileOK DEF DeskInv
  <2>5. BenchOK'
    BY <2>1, <2>4, BenchRests DEF DeskInv
  <2>6. job'[r].stage = "rows" /\ job'[r].id = b /\ \A s \in Requests : s # r => job'[s] = job[s]
    BY <2>1, <2>3, DeskAssumption DEF WriteFile
  <2>7. RequestOK(q, job'[r], Stored')
    BY <2>2, <2>6 DEF RequestOK
  <2> QED BY <2>1, <2>2, <2>4, <2>5, <2>6, <2>7, RequestMoves
<1> QED BY <1>2, <1>3

LEMMA ImportedOK ==
    ASSUME DeskInv, NEW r \in Requests, Imported(r)
    PROVE  DeskInv'
<1> DEFINE q == [request[r] EXCEPT !.stage = "mark"]
<1>1. r \in Importers /\ DOMAIN job = Importers
  BY DeskAssumption DEF DeskInv, ImportOK
<1>2. ImportOK' /\ Stored' = Stored \union {job[r].id}
  BY <1>1, CommitOK DEF Imported, DeskInv
<1>3. /\ request[r].stage = "import" /\ {"stage", "draft", "set"} \subseteq DOMAIN request[r]
      /\ ChangesOK(request[r].set, {job[r].id})
  BY StageSays DEF Imported
<1>4. request' = [request EXCEPT ![r] = q]
  BY DEF Imported
<1>5. \A s \in Importers : job'[s] = IF s = r THEN NoJob ELSE job[s]
  BY <1>1 DEF Imported, Commit
<1>6. AsideOK' /\ BenchOK'
  <2>1. BenchOK'
    BY <1>2, BenchRests DEF Imported, DeskInv
  <2> QED BY <2>1 DEF Imported, DeskInv, AsideOK
<1>7. RequestOK(q, NoJob, Stored')
  <2>1. ChangesOK(request[r].set, Stored')
    BY <1>2, <1>3, ChangesStayOK
  <2>2. q.stage = "mark" /\ q.set = request[r].set /\ q.draft = request[r].draft
    BY <1>3
  <2> HIDE DEF q
  <2> QED BY <1>3, <2>1, <2>2, StageSays DEF RequestOK
<1> HIDE DEF q
<1> QED BY <1>1, <1>2, <1>4, <1>5, <1>6, <1>7, DeskAssumption, RequestMoves

LEMMA ImportFailsOK ==
    ASSUME DeskInv, NEW r \in Requests, ImportFails(r)
    PROVE  DeskInv'
<1>1. r \in Importers /\ DOMAIN job = Importers
  BY DeskAssumption DEF DeskInv, ImportOK
<1>2. ImportOK' /\ Stored' = Stored
  BY <1>1, JobEndsOK DEF ImportFails, Break, DeskInv
<1>3. \A s \in Importers : job'[s] = IF s = r THEN NoJob ELSE job[s]
  BY <1>1 DEF ImportFails, Break
<1>4. AsideOK' /\ BenchOK'
  <2>1. BenchOK'
    BY <1>2, BenchRests DEF ImportFails, DeskInv
  <2> QED BY <2>1 DEF ImportFails, DeskInv, AsideOK
<1>5. request' = [request EXCEPT ![r] = NoRequest]
  BY DEF ImportFails
<1> QED BY <1>1, <1>2, <1>3, <1>4, <1>5, NoRequestIsOK, DeskAssumption, RequestMoves

LEMMA LoadsDraftOK ==
    ASSUME DeskInv, NEW r \in Requests, LoadsDraft(r)
    PROVE  DeskInv'
<1> DEFINE q == [stage |-> "save", draft |-> request[r].draft, form |-> request[r].form,
                 set |-> request[r].set, snap |-> meta[request[r].draft]]
<1>1. ChangesOK(request[r].set, Stored) /\ job[r] = NoJob
  BY StageSays DEF LoadsDraft
<1>2. request[r].draft \in Drafts /\ MetaOK(meta[request[r].draft], Stored)
  BY StageSays DEF LoadsDraft, DeskInv, BenchOK
<1>3. RequestOK(q, job[r], Stored)
  BY <1>1, <1>2 DEF RequestOK
<1>4. request' = [request EXCEPT ![r] = q] /\ UNCHANGED <<import, bench, aside, second>>
  BY DEF LoadsDraft, DeskInv, PanelOK
<1> HIDE DEF q
<1> QED BY <1>3, <1>4, OnlyRequestMoves

LEMMA SavesDraftOK ==
    ASSUME DeskInv, NEW r \in Requests, SavesDraft(r)
    PROVE  DeskInv'
<1> DEFINE d == request[r].draft
           new == Over(request[r].set, request[r].snap)
<1>1. ChangesOK(request[r].set, Stored) /\ MetaOK(request[r].snap, Stored) /\ job[r] = NoJob
  BY StageSays DEF SavesDraft
<1>2. MetaOK(new, Stored)
  BY <1>1, OverIsOK, StoredInIds
<1>3. /\ meta' = [meta EXCEPT ![d] = new]
      /\ request' = [request EXCEPT ![r] = NoRequest]
      /\ UNCHANGED <<import, book, op, aside, second>>
  BY DEF SavesDraft
<1> HIDE DEF new
<1>4. Stored' = Stored /\ ImportOK' /\ AsideOK'
  BY <1>3 DEF DeskInv, ImportOK, AsideOK, import, Stored
<1>5. BenchOK'
  <2>1. DOMAIN meta' = Drafts /\ \A e \in Drafts : meta'[e] = IF e = d THEN new ELSE meta[e]
    BY <1>3 DEF DeskInv, BenchOK
  <2>2. \A e \in Drafts : Exists(e)' => MetaOK(meta'[e], Stored)
    BY <1>2, <2>1 DEF DeskInv, BenchOK, Exists
  <2> QED BY <1>3, <1>4, <2>1, <2>2 DEF DeskInv, BenchOK
<1> QED BY <1>1, <1>3, <1>4, <1>5, NoRequestIsOK, RequestMoves DEF import

LEMMA PanelRestartOK ==
    ASSUME DeskInv, PanelRestart
    PROVE  DeskInv'
<1>1. Stored' = Stored
  BY DEF PanelRestart, Stored
<1>2. ImportOK' /\ AsideOK'
  BY DEF PanelRestart, DeskInv, ImportOK, AsideOK, JobOK
<1>3. BenchOK'
  BY <1>1, BenchRests DEF PanelRestart, DeskInv
<1>4. PanelOK'
  BY NoRequestIsOK, DeskAssumption DEF PanelRestart, PanelOK
<1> QED BY <1>2, <1>3, <1>4 DEF DeskInv

(* The script imports, the panel rests. *)
LEMMA ScriptMoves ==
    ASSUME DeskInv, UNCHANGED <<bench, panel>>, ImportOK', Stored \subseteq Stored',
           NEW i \in Scripts, \A s \in Importers : s # i => job'[s] = job[s]
    PROVE  DeskInv'
<1>1. BenchOK' /\ AsideOK'
  BY BenchRests DEF DeskInv, AsideOK, panel
<1>2. \A r \in Requests : job'[r] = job[r] /\ RequestOK(request[r], job[r], Stored')
  BY RequestStaysOK, DeskAssumption DEF DeskInv, PanelOK, Scripts
<1>3. PanelOK'
  BY <1>2 DEF DeskInv, PanelOK, panel
<1> QED BY <1>1, <1>3 DEF DeskInv

LEMMA ScriptOK ==
    ASSUME DeskInv, NEW i \in Scripts,
           ScriptStep(i) \/ ScriptCommits(i) \/ ScriptFails(i) \/ \E b \in Ids : ScriptStarts(i, b)
    PROVE  DeskInv'
<1>1. i \in Importers /\ ImportOK /\ DOMAIN job = Importers
  BY DEF Scripts, DeskInv, ImportOK
<1>2. CASE \E b \in Ids : ScriptStarts(i, b)
  <2>1. PICK b \in Ids : ReadFile(i, b) /\ UNCHANGED <<bench, panel>>
    BY <1>2 DEF ScriptStarts
  <2>2. \A s \in Importers : s # i => job'[s] = job[s]
    BY <1>1, <2>1 DEF ReadFile
  <2> QED BY <1>1, <2>1, <2>2, ReadFileOK, ScriptMoves
<1>3. CASE ScriptStep(i) /\ Skip(i)
  <2>1. job' = [job EXCEPT ![i] = NoJob] /\ UNCHANGED <<rows, files>> /\ UNCHANGED <<bench, panel>>
    BY <1>3 DEF ScriptStep, Skip
  <2> QED BY <1>1, <2>1, JobEndsOK, ScriptMoves
<1>4. CASE ScriptFails(i)
  <2>1. job' = [job EXCEPT ![i] = NoJob] /\ UNCHANGED <<rows, files>> /\ UNCHANGED <<bench, panel>>
    BY <1>4 DEF ScriptFails, Break
  <2> QED BY <1>1, <2>1, JobEndsOK, ScriptMoves
<1>5. CASE ScriptStep(i) /\ Rewrite(i)
  <2>1. job[i].id \in Ids /\ job[i].content \in Content
    BY <1>1, <1>5 DEF Rewrite, ImportOK, JobOK, NoJob
  <2>2. WriteFile(i, job[i].id, job[i].content) /\ UNCHANGED <<bench, panel>>
    BY <1>5 DEF ScriptStep, Rewrite
  <2>3. \A s \in Importers : s # i => job'[s] = job[s]
    BY <1>1, <2>2 DEF WriteFile
  <2> QED BY <1>1, <2>1, <2>2, <2>3, WriteFileOK, ScriptMoves
<1>6. CASE ScriptCommits(i)
  <2>1. Commit(i) /\ UNCHANGED <<bench, panel>>
    BY <1>6 DEF ScriptCommits
  <2>2. \A s \in Importers : s # i => job'[s] = job[s]
    BY <1>1, <2>1 DEF Commit
  <2> QED BY <1>1, <2>1, <2>2, CommitOK, ScriptMoves
<1> QED BY <1>2, <1>3, <1>4, <1>5, <1>6 DEF ScriptStep

LEMMA FirstDesk ==
    ASSUME Init
    PROVE  DeskInv
<1>1. ImportOK
  <2>1. /\ rows = [b \in Ids |-> IF b \in DOMAIN Shelf THEN [content |-> Shelf[b], version |-> 1] ELSE Nothing]
        /\ files = [b \in Ids |-> IF b \in DOMAIN Shelf THEN Shelf[b] ELSE Nothing]
        /\ job = [i \in Importers |-> NoJob]
    BY DEF Init, ImportInit
  <2> QED BY <2>1, ShelfAssumption DEF ImportOK, JobOK
<1>2. AsideOK
  BY DEF Init, AsideOK
<1>3. BenchOK
  <2>1. MetaOK(NewMeta, Stored)
    BY DEF MetaOK, NewMeta, STATUSES, EDITABLE
  <2>2. PICK converted \in SUBSET Drafts, c \in DraftBooks :
            /\ meta = [d \in Drafts |-> IF d \in converted THEN NewMeta ELSE Nothing]
            /\ book = [d \in Drafts |-> IF d \in converted THEN c ELSE Nothing]
    BY DEF Init
  <2>3. op = [t \in Threads |-> Idle]
    BY DEF Init
  <2> QED BY <2>1, <2>2, <2>3, IdleIsOK DEF BenchOK, Exists
<1>4. PanelOK
  <2>1. request = [r \in Requests |-> NoRequest] /\ job = [i \in Importers |-> NoJob]
    BY DEF Init, ImportInit
  <2> QED BY <2>1, NoRequestIsOK, DeskAssumption DEF PanelOK
<1> QED BY <1>1, <1>2, <1>3, <1>4 DEF DeskInv

LEMMA DeskStep ==
    ASSUME DeskInv, [Next]_vars
    PROVE  DeskInv'
<1>1. ASSUME NEW t \in Threads, NEW d \in Drafts, Handlers(t, d) PROVE DeskInv'
  BY <1>1, HandlersStep
<1>2. ASSUME NEW t \in Threads, ThreadStep(t) PROVE DeskInv'
  BY <1>2, ThreadStepOK
<1>3. ASSUME NEW d \in Drafts, HalfHour(d) PROVE DeskInv'
  BY <1>3, HalfHourOK
<1>4. ASSUME NEW r \in Requests, NEW d \in Drafts, RequestStarts(r, d) PROVE DeskInv'
  BY <1>4, RequestStartsOK
<1>5. ASSUME NEW r \in Requests, RequestStep(r) PROVE DeskInv'
  <2>1. CASE DraftGone(r)
    BY <2>1, StageSays, RefusedOK DEF DraftGone
  <2> QED BY <1>5, <2>1, ResolveOK, CheckAndWriteOK, ImportedOK, ImportFailsOK, LoadsDraftOK, SavesDraftOK
          DEF RequestStep
<1>6. ASSUME NEW i \in Scripts, NEW b \in Ids, ScriptStarts(i, b) PROVE DeskInv'
  BY <1>6, ScriptOK
<1>7. ASSUME NEW i \in Scripts, ScriptStep(i) \/ ScriptCommits(i) \/ ScriptFails(i) PROVE DeskInv'
  BY <1>7, ScriptOK
<1>8. CASE BenchRestart \/ PanelRestart
  BY <1>8, BenchRestartOK, PanelRestartOK
<1>9. CASE UNCHANGED vars
  <2>1. UNCHANGED <<import, bench, panel>> /\ Stored' = Stored
    BY <1>9 DEF vars, Stored, import
  <2>2. BenchOK'
    BY <2>1, BenchRests DEF DeskInv
  <2> QED BY <2>1, <2>2 DEF DeskInv, ImportOK, AsideOK, PanelOK, import, panel
<1> QED BY <1>1, <1>2, <1>3, <1>4, <1>5, <1>6, <1>7, <1>8, <1>9 DEF Next

-----------------------------------------------------------------------------
(* Each volume once: two requests of the panel.                            *)

SameVolume(c, d) == SameWork(c, d) /\ c.volume = d.volume

\* What the library, the books directory and the imports under way have of a book.
Holds(b, c) ==
    \/ rows[b] # Nothing /\ c = rows[b].content
    \/ files[b] # Nothing /\ c = files[b]
    \/ \E i \in Importers : job[i] # NoJob /\ job[i].id = b /\ c = job[i].content

Active(r) == request[r] # NoRequest
At(r, stage) == request[r].stage = stage
IsNew(r) == request[r].form.as # "replace"

\* The requests that may still check.
Early(r) == At(r, "resolve") \/ At(r, "check")
ChecksToCome == begun.requests < 2 \/ \E r \in Requests : Early(r)

\* No request has written a file yet.
NothingWritten ==
    \/ begun.requests = 0
    \/ begun.requests = 1 /\ \E r \in Requests : Early(r)
    \/ begun.requests = 2 /\ \E r, q \in Requests : r # q /\ Early(r) /\ Early(q)

\* The script waits for the panel; no more requests are under way than were begun.
FewRequests ==
    /\ "requests" \in DOMAIN begun /\ begun.requests \in Nat
    /\ (\E r \in Requests : Active(r)) => \A i \in Scripts : job[i] = NoJob
    /\ begun.requests = 0 => \A r \in Requests : ~Active(r)
    /\ begun.requests = 1 => \A r, q \in Requests : Active(r) /\ Active(q) => r = q
    /\ begun.requests = 2 => \A r, q, s \in Requests :
            Active(r) /\ Active(q) /\ Active(s) => r = q \/ q = s \/ r = s

\* No two books hold the same volume.
VolumesApart ==
    \A a, b \in Ids, c, d \in Content : a # b /\ Holds(a, c) /\ Holds(b, d) => ~SameVolume(c, d)

\* All that is held of a book is one volume, of a book of the library or of the next one.
BooksAreWhole ==
    \A b \in Ids, c \in Content : Holds(b, c) =>
        /\ b \in Stored \/ b = NextId
        /\ \A d \in Content : Holds(b, d) => SameVolume(c, d)

HeldIsStored == \A b \in Ids, c \in Content : Holds(b, c) => b \in Stored

\* Who replaces a book keeps its volume; who brings a new one has the next number, or
\* that number was taken meanwhile.
NumbersFit ==
    \A r \in Requests : At(r, "check") =>
        \/ IsNew(r) /\ (request[r].id = NextId \/ HeldIsStored)
        \/ /\ ~IsNew(r) /\ request[r].id \in Stored
           /\ SameVolume(request[r].book, rows[request[r].id].content)

NumbersAreNew ==
    /\ HeldIsStored
    /\ \A r \in Requests : At(r, "check") /\ IsNew(r) => request[r].id = NextId

VolumesInv ==
    /\ FewRequests
    /\ begun.requests <= 2 =>
        /\ VolumesApart
        /\ ChecksToCome => BooksAreWhole /\ NumbersFit
        /\ NothingWritten => NumbersAreNew

LEMMA SameVolumeIsOne ==
    \A c, d, e : /\ SameVolume(c, d) => SameVolume(d, c)
                 /\ SameVolume(c, d) /\ SameVolume(d, e) => SameVolume(c, e)
                 /\ SameVolume(c, c)
BY DEF SameVolume, SameWork

LEMMA EarlyIsActive == \A r \in Requests : Early(r) => Active(r)
BY DEF Early, Active, At, NoRequest

LEMMA StoredHolds ==
    ASSUME ImportOK, NEW b \in Stored
    PROVE  b \in Ids /\ rows[b].content \in Content /\ Holds(b, rows[b].content)
BY DEF ImportOK, Stored, Holds

(* A set of numbers has a least one. *)
LEMMA LeastIsThere ==
    ASSUME NEW S \in SUBSET Nat, S # {}
    PROVE  /\ Min(S) \in S
           /\ \A y \in S : Min(S) <= y
<1>1. IsWellFoundedOn(OpToRel(<, Nat), Nat)
  BY NatLessThanWellFounded
<1>2. PICK x \in S : \A y \in S : ~ (<<y, x>> \in OpToRel(<, Nat))
  BY <1>1, WFMin
<1>3. \A y \in S : x <= y
  <2> TAKE y \in S
  <2>1. x \in Nat /\ y \in Nat /\ ~(y < x)
    BY <1>2 DEF OpToRel
  <2> QED BY <2>1
<1> QED BY <1>3 DEF Min

(* A bounded set of numbers has a greatest one. *)
LEMMA GreatestIsThere ==
    ASSUME NEW S \in SUBSET Nat, S # {}, NEW n \in Nat, \A x \in S : x <= n
    PROVE  /\ Max(S) \in S
           /\ \A x \in S : x <= Max(S)
<1> DEFINE Bounds == {m \in Nat : \A x \in S : x <= m}
<1> DEFINE top == Min(Bounds)
<1>1. top \in Bounds /\ \A m \in Bounds : top <= m
  BY LeastIsThere
<1>2. top \in S
  <2> SUFFICES ASSUME top \notin S PROVE FALSE
    OBVIOUS
  <2>1. top \in Nat /\ \A x \in S : x \in Nat /\ x <= top /\ x # top
    BY <1>1
  <2>2. PICK x \in S : TRUE
    OBVIOUS
  <2> HIDE DEF top
  <2>3. top - 1 \in Nat /\ \A y \in S : y <= top - 1
    BY <2>1, <2>2
  <2>4. top <= top - 1
    BY <1>1, <2>3
  <2> QED BY <2>1, <2>4
<1> HIDE DEF top
<1>3. \A x \in S : top >= x
  BY <1>1
<1>4. \E x \in S : \A y \in S : x >= y
  BY <1>2, <1>3
<1>5. Max(S) \in S /\ \A y \in S : Max(S) >= y
  BY <1>4 DEF Max
<1>6. \A y \in S : y \in Nat /\ Max(S) \in Nat
  BY <1>5
<1> QED BY <1>5, <1>6

LEMMA NextIdIsNew == NextId \notin Stored
<1> DEFINE S == Stored \union {0}
<1>1. S \in SUBSET Nat /\ S # {} /\ \A x \in S : x <= MaxId
  BY ImportAssumption DEF Stored, Ids
<1> DEFINE m == Max(S)
<1>2. m \in S /\ \A x \in S : x <= m
  BY <1>1, GreatestIsThere, ImportAssumption
<1> HIDE DEF m
<1>3. m \in Nat /\ m + 1 \notin S
  BY <1>1, <1>2
<1>4. NextId = m + 1
  BY DEF NextId, m
<1> QED BY <1>3, <1>4

(* Nothing new is held, the library stays, requests only go on past their checks. *)
LEMMA LibraryStays ==
    ASSUME VolumesInv, FewRequests', begun'.requests = begun.requests, rows' = rows,
           \A b \in Ids, c \in Content : Holds(b, c)' => Holds(b, c),
           \A r \in Requests : request'[r] = request[r] \/ ~Early(r)'
    PROVE  VolumesInv'
<1>1. Stored' = Stored /\ NextId' = NextId
  BY DEF Stored, NextId
<1>2. \A r \in Requests : Early(r)' => Early(r) /\ request'[r] = request[r]
  BY DEF Early, At
<1>3. (ChecksToCome' => ChecksToCome) /\ (NothingWritten' => NothingWritten)
  BY <1>2 DEF ChecksToCome, NothingWritten
<1>4. VolumesApart => VolumesApart'
  BY DEF VolumesApart
<1>5. HeldIsStored => HeldIsStored'
  BY <1>1 DEF HeldIsStored
<1>6. BooksAreWhole => BooksAreWhole'
  BY <1>1 DEF BooksAreWhole
<1>7. \A r \in Requests : At(r, "check")' => At(r, "check") /\ request'[r] = request[r]
  BY <1>2 DEF Early, At
<1>8. NumbersFit => NumbersFit'
  BY <1>1, <1>5, <1>7 DEF NumbersFit, IsNew
<1>9. NumbersAreNew => NumbersAreNew'
  BY <1>1, <1>5, <1>7 DEF NumbersAreNew, IsNew
<1> QED BY <1>3, <1>4, <1>6, <1>8, <1>9 DEF VolumesInv

(* A book is committed that was held before. *)
LEMMA LibraryGrows ==
    ASSUME DeskInv, VolumesInv, FewRequests', begun'.requests = begun.requests,
           NEW x \in Ids, NEW c \in Content, Holds(x, c),
           Stored' = Stored \union {x}, rows'[x].content = c,
           \A b \in Ids : b # x => rows'[b] = rows[b],
           \A b \in Ids, d \in Content : Holds(b, d)' => Holds(b, d),
           \A r \in Requests : request'[r] = request[r] \/ ~Early(r)',
           NothingWritten' => begun.requests = 0
    PROVE  VolumesInv'
<1>1. NextId \notin Stored /\ (Stored' = Stored => NextId' = NextId)
  BY NextIdIsNew DEF NextId
<1>2. \A r \in Requests : Early(r)' => Early(r) /\ request'[r] = request[r]
  BY DEF Early, At
<1>3. ChecksToCome' => ChecksToCome
  BY <1>2 DEF ChecksToCome
<1>4. \A r \in Requests : At(r, "check")' => At(r, "check") /\ request'[r] = request[r]
  BY <1>2 DEF Early, At
<1>5. VolumesApart => VolumesApart'
  BY DEF VolumesApart
<1>6. HeldIsStored => HeldIsStored' /\ NextId' = NextId
  BY <1>1 DEF HeldIsStored
<1>7. ASSUME BooksAreWhole, x \notin Stored PROVE HeldIsStored'
  BY <1>7 DEF BooksAreWhole, HeldIsStored
<1>8. ASSUME x \in Stored PROVE Stored' = Stored /\ NextId' = NextId
  BY <1>1, <1>8
<1>9. ASSUME BooksAreWhole PROVE BooksAreWhole'
  BY <1>7, <1>8, <1>9 DEF BooksAreWhole, HeldIsStored
<1>10. ASSUME BooksAreWhole, NumbersFit PROVE NumbersFit'
  <2> SUFFICES ASSUME NEW r \in Requests, At(r, "check")'
               PROVE  \/ IsNew(r)' /\ (request'[r].id = NextId' \/ HeldIsStored')
                      \/ /\ ~IsNew(r)' /\ request'[r].id \in Stored'
                         /\ SameVolume(request'[r].book, rows'[request'[r].id].content)
    BY DEF NumbersFit
  <2> DEFINE b == request[r].id
  <2>1. At(r, "check") /\ request'[r] = request[r]
    BY <1>4
  <2>2. CASE IsNew(r)
    BY <1>6, <1>7, <1>8, <1>10, <2>1, <2>2 DEF NumbersFit, IsNew
  <2>3. CASE ~IsNew(r)
    <3>1. b \in Stored /\ SameVolume(request[r].book, rows[b].content)
      BY <1>10, <2>1, <2>3 DEF NumbersFit
    <3>2. b \in Ids /\ rows[b].content \in Content /\ Holds(b, rows[b].content)
      BY <3>1, StoredHolds DEF DeskInv
    <3>3. SameVolume(rows[b].content, rows'[b].content)
      <4>1. CASE b = x
        BY <1>10, <3>2, <4>1 DEF BooksAreWhole
      <4>2. CASE b # x
        BY <3>2, <4>2, SameVolumeIsOne
      <4> QED BY <4>1, <4>2
    <3>4. SameVolume(request[r].book, rows'[b].content)
      BY <3>1, <3>3, SameVolumeIsOne
    <3> QED BY <2>1, <2>3, <3>1, <3>4 DEF IsNew
  <2> QED BY <2>2, <2>3
<1>11. NothingWritten' => NumbersAreNew'
  <2> SUFFICES ASSUME NothingWritten' PROVE NumbersAreNew'
    OBVIOUS
  <2>1. NumbersAreNew /\ \A r \in Requests : ~Active(r)
    BY DEF VolumesInv, FewRequests, NothingWritten
  <2>2. \A r \in Requests : ~At(r, "check")'
    BY <1>4, <2>1, EarlyIsActive DEF Early
  <2> QED BY <1>6, <2>1, <2>2 DEF NumbersAreNew
<1> QED BY <1>3, <1>5, <1>9, <1>10, <1>11 DEF VolumesInv

(* A request begins. *)
LEMMA RequestBegins ==
    ASSUME VolumesInv, FewRequests', begun'.requests = begun.requests + 1, UNCHANGED import,
           NEW r \in Requests, ~At(r, "check")', request[r] = NoRequest,
           \A s \in Requests : s # r => request'[s] = request[s]
    PROVE  VolumesInv'
<1>1. Stored' = Stored /\ NextId' = NextId /\ rows' = rows /\ \A b, c : Holds(b, c)' = Holds(b, c)
  BY DEF Stored, NextId, import, Holds
<1>2. begun.requests \in Nat
  BY DEF VolumesInv, FewRequests
<1> SUFFICES ASSUME begun'.requests <= 2
             PROVE  /\ VolumesApart'
                    /\ ChecksToCome' => BooksAreWhole' /\ NumbersFit'
                    /\ NothingWritten' => NumbersAreNew'
  BY DEF VolumesInv
<1>3. VolumesApart /\ BooksAreWhole /\ NumbersFit
  BY <1>2 DEF VolumesInv, ChecksToCome
<1>4. VolumesApart' /\ BooksAreWhole'
  BY <1>1, <1>3 DEF VolumesApart, BooksAreWhole
<1>5. HeldIsStored' = HeldIsStored
  BY <1>1 DEF HeldIsStored
<1>6. \A s \in Requests : At(s, "check")' => At(s, "check") /\ request'[s] = request[s]
  BY DEF At
<1>7. NumbersFit'
  BY <1>1, <1>3, <1>5, <1>6 DEF NumbersFit, IsNew
<1>8. ASSUME NothingWritten' PROVE NothingWritten
  <2>1. CASE begun.requests = 0
    BY <2>1 DEF NothingWritten
  <2>2. CASE begun.requests = 1
    <3>1. PICK s \in Requests : Early(s)' /\ s # r
      BY <1>2, <1>8, <2>2 DEF NothingWritten
    <3> QED BY <2>2, <3>1 DEF NothingWritten, Early, At
  <2> QED BY <1>2, <2>1, <2>2
<1>9. NothingWritten' => NumbersAreNew'
  BY <1>1, <1>2, <1>5, <1>6, <1>8 DEF VolumesInv, NumbersAreNew, IsNew
<1> QED BY <1>4, <1>7, <1>9

(* A form is resolved. *)
LEMMA FormResolved ==
    ASSUME DeskInv, VolumesInv, FewRequests', begun'.requests = begun.requests, UNCHANGED import,
           NEW r \in Requests, At(r, "resolve"), At(r, "check")',
           \A s \in Requests : s # r => request'[s] = request[s],
           IF IsNew(r)' THEN request'[r].id = NextId
           ELSE request'[r].id \in Stored /\ SameVolume(request'[r].book, rows[request'[r].id].content)
    PROVE  VolumesInv'
<1>1. Stored' = Stored /\ NextId' = NextId /\ rows' = rows /\ \A b, c : Holds(b, c)' = Holds(b, c)
  BY DEF Stored, NextId, import, Holds
<1>2. \A s \in Requests : Early(s)' = Early(s)
  BY DEF Early, At
<1>3. ChecksToCome' = ChecksToCome /\ NothingWritten' = NothingWritten
  BY <1>2 DEF ChecksToCome, NothingWritten
<1>4. (VolumesApart => VolumesApart') /\ (BooksAreWhole => BooksAreWhole') /\ HeldIsStored' = HeldIsStored
  BY <1>1 DEF VolumesApart, BooksAreWhole, HeldIsStored
<1>5. \A s \in Requests : s # r /\ At(s, "check")' => At(s, "check") /\ IsNew(s)' = IsNew(s)
  BY DEF At, IsNew
<1>6. NumbersFit => NumbersFit'
  BY <1>1, <1>4, <1>5 DEF NumbersFit
<1>7. NumbersAreNew => NumbersAreNew'
  BY <1>1, <1>4, <1>5 DEF NumbersAreNew
<1> QED BY <1>3, <1>4, <1>6, <1>7 DEF VolumesInv

(* A request under way and another that is to check: nothing is written yet. *)
LEMMA NobodyHasWritten ==
    ASSUME FewRequests, begun.requests <= 2, NEW r \in Requests, Early(r),
           begun.requests < 2 \/ \E s \in Requests : s # r /\ Early(s)
    PROVE  NothingWritten
<1>1. Active(r) /\ begun.requests # 0 /\ begun.requests \in Nat
  BY EarlyIsActive DEF FewRequests
<1>2. CASE begun.requests = 1
  BY <1>2 DEF NothingWritten
<1>3. CASE begun.requests = 2
  BY <1>3 DEF NothingWritten
<1> QED BY <1>1, <1>2, <1>3

(* A request checks, finds no clash and writes the file: what it holds then is held of no
   other book. *)
LEMMA FileWritten ==
    ASSUME DeskInv, VolumesInv, FewRequests', begun'.requests = begun.requests, rows' = rows,
           NEW r \in Requests, At(r, "check"), ~Early(r)', Active(r)',
           \A s \in Requests : s # r => request'[s] = request[s],
           NEW b \in Ids, NEW c \in Content, b = request[r].id, c = request[r].book,
           ~Clashes(b, c),
           \A x \in Ids, d \in Content : Holds(x, d)' => Holds(x, d) \/ (x = b /\ d = c)
    PROVE  VolumesInv'
<1>1. Stored' = Stored /\ NextId' = NextId /\ NextId \notin Stored
  BY NextIdIsNew DEF Stored, NextId
<1>2. Early(r) /\ Active(r)
  BY EarlyIsActive DEF Early
<1> SUFFICES ASSUME begun.requests <= 2
             PROVE  /\ VolumesApart'
                    /\ ChecksToCome' => BooksAreWhole' /\ NumbersFit'
                    /\ NothingWritten' => NumbersAreNew'
  BY DEF VolumesInv
<1>3. VolumesApart /\ BooksAreWhole /\ NumbersFit /\ FewRequests
  BY <1>2 DEF VolumesInv, ChecksToCome
<1>4. \/ IsNew(r) /\ (b = NextId \/ HeldIsStored)
      \/ /\ ~IsNew(r) /\ b \in Stored /\ SameVolume(c, rows[b].content)
         /\ rows[b].content \in Content /\ Holds(b, rows[b].content)
  BY <1>3, StoredHolds DEF NumbersFit, DeskInv
<1>5. ASSUME NEW x \in Ids, x # b, NEW d \in Content, Holds(x, d) PROVE ~SameVolume(c, d)
  <2>1. CASE x \in Stored
    <3>1. rows[x].content \in Content /\ Holds(x, rows[x].content)
      BY <2>1, StoredHolds DEF DeskInv
    <3>2. SameVolume(d, rows[x].content)
      BY <1>3, <1>5, <3>1 DEF BooksAreWhole
    <3>3. ~SameVolume(c, rows[x].content)
      BY <1>5, <2>1 DEF Clashes, SameVolume, SameWork
    <3> QED BY <3>2, <3>3, SameVolumeIsOne
  <2>2. CASE x \notin Stored
    <3>1. x = NextId
      BY <1>3, <1>5, <2>2 DEF BooksAreWhole
    <3>2. ~IsNew(r) /\ SameVolume(c, rows[b].content) /\ rows[b].content \in Content /\ Holds(b, rows[b].content)
      BY <1>4, <1>5, <2>2, <3>1 DEF HeldIsStored
    <3>3. ~SameVolume(rows[b].content, d)
      BY <1>3, <1>5, <3>2 DEF VolumesApart
    <3> QED BY <3>2, <3>3, SameVolumeIsOne
  <2> QED BY <2>1, <2>2
<1>6. VolumesApart'
  <2> SUFFICES ASSUME NEW x \in Ids, NEW y \in Ids, NEW d \in Content, NEW e \in Content,
                      x # y, Holds(x, d)', Holds(y, e)'
               PROVE  ~SameVolume(d, e)
    BY DEF VolumesApart
  <2>1. CASE Holds(x, d) /\ Holds(y, e)
    BY <1>3, <2>1 DEF VolumesApart
  <2>2. CASE x = b /\ d = c /\ Holds(y, e)
    BY <1>5, <2>2
  <2>3. CASE y = b /\ e = c /\ Holds(x, d)
    BY <1>5, <2>3, SameVolumeIsOne
  <2> QED BY <2>1, <2>2, <2>3
<1>7. \A s \in Requests : Early(s)' => s # r /\ Early(s) /\ request'[s] = request[s]
  BY DEF Early, At
<1>8. ChecksToCome' => NothingWritten
  <2> SUFFICES ASSUME ChecksToCome' PROVE NothingWritten
    OBVIOUS
  <2>1. begun.requests < 2 \/ \E s \in Requests : s # r /\ Early(s)
    BY <1>7 DEF ChecksToCome
  <2> QED BY <1>2, <1>3, <2>1, NobodyHasWritten
<1>9. NothingWritten => HeldIsStored /\ (IsNew(r) => b = NextId)
                      /\ \A s \in Requests : At(s, "check") /\ IsNew(s) => request[s].id = NextId
  BY DEF VolumesInv, NumbersAreNew
<1>10. ASSUME ChecksToCome' PROVE BooksAreWhole'
  <2> SUFFICES ASSUME NEW x \in Ids, NEW d \in Content, Holds(x, d)'
               PROVE  /\ x \in Stored \/ x = NextId
                      /\ \A e \in Content : Holds(x, e)' => SameVolume(d, e)
    BY <1>1 DEF BooksAreWhole
  <2>1. HeldIsStored /\ (IsNew(r) => b = NextId)
    BY <1>8, <1>9, <1>10
  <2>2. x \in Stored \/ x = NextId
    BY <1>4, <2>1 DEF HeldIsStored
  <2>3. ASSUME NEW e \in Content, Holds(b, e) PROVE SameVolume(c, e) /\ SameVolume(e, c)
    <3>1. b \in Stored
      BY <2>1, <2>3 DEF HeldIsStored
    <3>2. SameVolume(c, rows[b].content) /\ rows[b].content \in Content /\ Holds(b, rows[b].content)
      BY <1>1, <1>4, <2>1, <3>1
    <3>3. SameVolume(rows[b].content, e)
      BY <1>3, <2>3, <3>2 DEF BooksAreWhole
    <3> QED BY <3>2, <3>3, SameVolumeIsOne
  <2>4. ASSUME NEW e \in Content, Holds(x, e)' PROVE SameVolume(d, e)
    <3>1. CASE Holds(x, d) /\ Holds(x, e)
      BY <1>3, <3>1 DEF BooksAreWhole
    <3>2. CASE x = b /\ d = c /\ Holds(b, e)
      BY <2>3, <3>2
    <3>3. CASE x = b /\ e = c /\ Holds(b, d)
      BY <2>3, <3>3
    <3>4. CASE d = c /\ e = c
      BY <3>4, SameVolumeIsOne
    <3> QED BY <2>4, <3>1, <3>2, <3>3, <3>4
  <2> QED BY <2>2, <2>4
<1>11. ASSUME ChecksToCome' PROVE NumbersFit'
  <2> SUFFICES ASSUME NEW s \in Requests, At(s, "check")'
               PROVE  \/ IsNew(s)' /\ request'[s].id = NextId'
                      \/ /\ ~IsNew(s)' /\ request'[s].id \in Stored'
                         /\ SameVolume(request'[s].book, rows'[request'[s].id].content)
    BY DEF NumbersFit
  <2>1. At(s, "check") /\ request'[s] = request[s]
    BY <1>7 DEF Early, At
  <2>2. IsNew(s)' = IsNew(s)
    BY <2>1 DEF IsNew
  <2>3. CASE IsNew(s)
    BY <1>1, <1>8, <1>9, <1>11, <2>1, <2>2, <2>3
  <2>4. CASE ~IsNew(s)
    BY <1>1, <1>3, <2>1, <2>2, <2>4 DEF NumbersFit
  <2> QED BY <2>3, <2>4
<1>12. ~NothingWritten'
  <2>1. begun.requests # 0
    BY <1>2, <1>3 DEF FewRequests
  <2>2. ASSUME begun.requests = 1, NEW s \in Requests, Early(s)' PROVE FALSE
    BY <1>2, <1>3, <1>7, <2>2, EarlyIsActive DEF FewRequests
  <2>3. ASSUME begun.requests = 2, NEW s \in Requests, NEW q \in Requests, s # q, Early(s)', Early(q)' PROVE FALSE
    BY <1>2, <1>3, <1>7, <2>3, EarlyIsActive DEF FewRequests
  <2> QED BY <2>1, <2>2, <2>3 DEF NothingWritten
<1> QED BY <1>6, <1>10, <1>11, <1>12

-----------------------------------------------------------------------------
(* The steps.                                                              *)

BegunStays == "requests" \in DOMAIN begun' /\ begun'.requests = begun.requests

LEMMA FewStay ==
    ASSUME FewRequests, BegunStays,
           \A r \in Requests : Active(r)' => Active(r),
           (\E r \in Requests : Active(r)) => \A i \in Scripts : job'[i] = job[i]
    PROVE  FewRequests'
BY DEF FewRequests, BegunStays

(* Neither the library nor a request moves. *)
LEMMA QuietStep ==
    ASSUME VolumesInv, BegunStays, UNCHANGED <<import, request>>
    PROVE  VolumesInv'
<1>1. FewRequests'
  BY FewStay DEF VolumesInv, import, Active
<1>2. rows' = rows /\ \A b, c : Holds(b, c)' = Holds(b, c)
  BY DEF import, Holds
<1> QED BY <1>1, <1>2, LibraryStays DEF BegunStays

LEMMA BegunRests == VolumesInv /\ begun' = begun => BegunStays
BY DEF VolumesInv, FewRequests, BegunStays

LEMMA BenchIsQuiet ==
    ASSUME VolumesInv,
           \/ \E t \in Threads, d \in Drafts : Handlers(t, d)
           \/ \E t \in Threads : ThreadStep(t)
           \/ \E d \in Drafts : HalfHour(d)
           \/ BenchRestart
           \/ UNCHANGED vars
    PROVE  VolumesInv'
<1>1. CASE \E t \in Threads, d \in Drafts : Handlers(t, d)
  <2>1. PICK t \in Threads, d \in Drafts : \E todo : Handle(t, d, todo)
    BY <1>1 DEF Handlers, CreateDraft, SaveBook, Reconvert, MakePlan, Submit, Withdraw, DeleteDraft
  <2>2. UNCHANGED <<import, request>> /\ \E n : begun' = [begun EXCEPT !.handlers = @ + 1, !.plans = n]
    BY <2>1 DEF Handle, panel
  <2>3. BegunStays
    BY <2>2 DEF BegunStays, VolumesInv, FewRequests
  <2> QED BY <2>2, <2>3, QuietStep
<1>2. CASE \E t \in Threads : ThreadStep(t)
  <2>1. UNCHANGED <<import, request>> /\ begun' = begun
    BY <1>2 DEF ThreadStep, FolderGone, SavesBook, LoadsMeta, SavesMeta, Converts, FindsPages, Removes, panel
  <2> QED BY <2>1, BegunRests, QuietStep
<1>3. CASE (\E d \in Drafts : HalfHour(d)) \/ BenchRestart \/ UNCHANGED vars
  <2>1. UNCHANGED <<import, request>> /\ begun' = begun
    BY <1>3 DEF HalfHour, BenchRestart, vars, panel
  <2> QED BY <2>1, BegunRests, QuietStep
<1> QED BY <1>1, <1>2, <1>3

(* A request that neither moves the library nor is to check. *)
LEMMA RequestPasses ==
    ASSUME VolumesInv, UNCHANGED <<import, begun>>, NEW r \in Requests, ~Early(r)', Active(r)' => Active(r),
           \A s \in Requests : s # r => request'[s] = request[s]
    PROVE  VolumesInv'
<1>1. FewRequests'
  <2>1. \A s \in Requests : Active(s)' => Active(s)
    BY DEF Active
  <2> QED BY <2>1, BegunRests, FewStay DEF VolumesInv, import
<1>2. rows' = rows /\ \A b, c : Holds(b, c)' = Holds(b, c)
  BY DEF import, Holds
<1> QED BY <1>1, <1>2, LibraryStays

LEMMA NobodyIsNotEarly == NoRequest.stage \notin {"resolve", "check"}
BY DEF NoRequest

LEMMA RefusedPasses ==
    ASSUME DeskInv, VolumesInv, NEW r \in Requests, Refused(r)
    PROVE  VolumesInv'
<1>1. \A s \in Requests : request'[s] = IF s = r THEN NoRequest ELSE request[s]
  BY DEF Refused, DeskInv, PanelOK
<1>2. ~Early(r)' /\ ~Active(r)'
  BY <1>1, NobodyIsNotEarly DEF Early, At, Active
<1> QED BY <1>1, <1>2, RequestPasses DEF Refused

LEMMA DraftMarked ==
    ASSUME DeskInv, VolumesInv, NEW r \in Requests, LoadsDraft(r) \/ SavesDraft(r)
    PROVE  VolumesInv'
<1>1. DOMAIN request = Requests
  BY DEF DeskInv, PanelOK
<1>2. CASE LoadsDraft(r)
  <2>1. Active(r) /\ request'[r].stage = "save" /\ \A s \in Requests : s # r => request'[s] = request[s]
    BY <1>1, <1>2 DEF LoadsDraft, Active, NoRequest
  <2>2. ~Early(r)'
    BY <2>1 DEF Early, At
  <2> QED BY <1>2, <2>1, <2>2, RequestPasses DEF LoadsDraft
<1>3. CASE SavesDraft(r)
  <2>1. \A s \in Requests : request'[s] = IF s = r THEN NoRequest ELSE request[s]
    BY <1>1, <1>3 DEF SavesDraft
  <2>2. ~Early(r)' /\ ~Active(r)'
    BY <2>1, NobodyIsNotEarly DEF Early, At, Active
  <2> QED BY <1>3, <2>1, <2>2, RequestPasses DEF SavesDraft
<1> QED BY <1>2, <1>3

LEMMA OneMoreBegins ==
    ASSUME DeskInv, VolumesInv, NEW r \in Requests, NEW d, NEW form, OneAdmin(r, d, form),
           request'[r].stage \in {"resolve", "mark"}, \A s \in Requests : s # r => request'[s] = request[s],
           begun' = [begun EXCEPT !.requests = @ + 1], UNCHANGED import
    PROVE  VolumesInv'
<1>2. \A i \in Scripts : job'[i] = NoJob
  BY DEF OneAdmin, Importing, Scripts, DeskInv, ImportOK, JobOK, import
<1>3. request[r] = NoRequest /\ ~Active(r)
  BY DEF OneAdmin, Active
<1>4. "requests" \in DOMAIN begun' /\ begun'.requests = begun.requests + 1 /\ begun.requests \in Nat
  BY DEF VolumesInv, FewRequests
<1>5. FewRequests'
  <2>1. \A s \in Requests : s # r /\ Active(s)' => Active(s)
    BY DEF Active
  <2>2. /\ begun.requests = 0 => \A s \in Requests : ~Active(s)
        /\ begun.requests = 1 => \A s, u \in Requests : Active(s) /\ Active(u) => s = u
    BY DEF VolumesInv, FewRequests
  <2>3. begun'.requests = 1 => \A s, u \in Requests : Active(s)' /\ Active(u)' => s = u
    BY <1>4, <2>1, <2>2
  <2>4. begun'.requests = 2 => \A s, u, v \in Requests :
            Active(s)' /\ Active(u)' /\ Active(v)' => s = u \/ u = v \/ s = v
    BY <1>4, <2>1, <2>2
  <2> QED BY <1>2, <1>4, <2>3, <2>4 DEF FewRequests
<1>6. ~At(r, "check")'
  BY DEF At
<1> QED BY <1>3, <1>4, <1>5, <1>6, RequestBegins

LEMMA RequestStartsOnce ==
    ASSUME DeskInv, VolumesInv, NEW r \in Requests, NEW d \in Drafts, RequestStarts(r, d)
    PROVE  VolumesInv'
<1>1. ASSUME NEW form, NEW c, NEW undo, Asks(r, d, form, c, undo) PROVE VolumesInv'
  <2>1. /\ request'[r].stage = "resolve" /\ \A s \in Requests : s # r => request'[s] = request[s]
        /\ OneAdmin(r, d, form) /\ UNCHANGED import /\ begun' = [begun EXCEPT !.requests = @ + 1]
    BY <1>1 DEF Asks, DeskInv, PanelOK
  <2> QED BY <2>1, OneMoreBegins
<1>2. CASE ReturnDraft(r, d)
  <2> DEFINE form == [as |-> "return"]
  <2>1. /\ request'[r].stage = "mark" /\ \A s \in Requests : s # r => request'[s] = request[s]
        /\ OneAdmin(r, d, form) /\ UNCHANGED import /\ begun' = [begun EXCEPT !.requests = @ + 1]
    BY <1>2 DEF ReturnDraft, DeskInv, PanelOK
  <2> HIDE DEF form
  <2> QED BY <2>1, OneMoreBegins
<1> QED BY <1>1, <1>2 DEF RequestStarts, Publish, UndoReplace

LEMMA ResolvedIs ==
    ASSUME DeskInv, NEW r \in Requests, NEW b, NEW c, Resolved(r, b, c)
    PROVE  /\ request'[r].stage = "check" /\ request'[r].form = request[r].form
           /\ request'[r].id = b /\ request'[r].book = c
           /\ \A s \in Requests : s # r => request'[s] = request[s]
           /\ UNCHANGED <<import, begun>>
BY DEF Resolved, DeskInv, PanelOK

LEMMA ResolvedOnce ==
    ASSUME DeskInv, VolumesInv, NEW r \in Requests, ResolveReplace(r) \/ ResolveVolume(r) \/ ResolveNew(r)
    PROVE  VolumesInv'
<1> DEFINE c == request[r].book
           form == request[r].form
<1>1. At(r, "resolve") /\ Active(r) /\ c \in Content /\ form \in AllForms
  <2>1. request[r].stage = "resolve"
    BY DEF ResolveReplace, ResolveVolume, ResolveNew
  <2>2. Active(r)
    BY <2>1 DEF Active, NoRequest
  <2> QED BY <2>1, <2>2, StageSays DEF At
<1>2. ASSUME NEW b, NEW d, Resolved(r, b, d),
             IF form.as # "replace" THEN b = NextId ELSE b \in Stored /\ SameVolume(d, rows[b].content)
      PROVE  VolumesInv'
  <2>1. /\ request'[r].stage = "check" /\ request'[r].form = form /\ request'[r].id = b /\ request'[r].book = d
        /\ \A s \in Requests : s # r => request'[s] = request[s]
        /\ UNCHANGED <<import, begun>>
    BY <1>2, ResolvedIs
  <2>2. FewRequests'
    <3>1. \A s \in Requests : Active(s)' => Active(s)
      BY <1>1, <2>1 DEF Active
    <3> QED BY <2>1, <3>1, BegunRests, FewStay DEF VolumesInv, import
  <2>3. At(r, "check")' /\ IsNew(r)' = IsNew(r) /\ IsNew(r) = (form.as # "replace")
    BY <2>1 DEF At, IsNew
  <2> HIDE DEF form, c
  <2> QED BY <1>1, <1>2, <2>1, <2>2, <2>3, FormResolved
<1>3. CASE Refused(r)
  BY <1>3, RefusedPasses
<1>4. CASE ResolveReplace(r) /\ ~Refused(r)
  <2> DEFINE old == rows[form.id].content
             new == [c EXCEPT !.title = old.title, !.volume = old.volume]
  <2>1. rows[form.id] # Nothing /\ form.as = "replace" /\ Resolved(r, form.id, new)
    BY <1>4 DEF ResolveReplace
  <2>2. form.id \in Stored
    BY <1>1, <2>1 DEF AllForms, Stored
  <2>3. new.title = old.title /\ new.volume = old.volume
    BY <1>1 DEF Content
  <2>4. SameVolume(new, old)
    BY <2>3 DEF SameVolume, SameWork
  <2> HIDE DEF new
  <2> QED BY <1>2, <2>1, <2>2, <2>4
<1>5. CASE ResolveVolume(r) /\ ~Refused(r)
  BY <1>2, <1>5 DEF ResolveVolume
<1>6. CASE ResolveNew(r)
  BY <1>2, <1>6 DEF ResolveNew
<1> QED BY <1>3, <1>4, <1>5, <1>6

LEMMA WrittenOnce ==
    ASSUME DeskInv, VolumesInv, NEW r \in Requests, CheckAndWrite(r)
    PROVE  VolumesInv'
<1>1. CASE Refused(r)
  BY <1>1, RefusedPasses
<1>2. CASE ~Refused(r)
  <2> DEFINE b == request[r].id
             c == request[r].book
  <2>1. /\ b \in Ids /\ c \in Content /\ ~Clashes(b, c) /\ WriteFile(r, b, c) /\ UNCHANGED begun
        /\ \E q : request' = [request EXCEPT ![r] = q] /\ q.stage = "import"
    BY <1>2, CheckedIs
  <2>2. request'[r].stage = "import" /\ \A s \in Requests : s # r => request'[s] = request[s]
    BY <2>1 DEF DeskInv, PanelOK
  <2>3. At(r, "check") /\ ~Early(r)' /\ Active(r)' /\ Active(r)
    BY <2>2 DEF CheckAndWrite, Early, At, Active, NoRequest
  <2>4. r \in Importers /\ r \notin Scripts /\ DOMAIN job = Importers /\ DOMAIN files = Ids
    BY DeskAssumption DEF DeskInv, ImportOK, Scripts
  <2>5. /\ rows' = rows
        /\ \A x \in Ids : files'[x] = IF x = b THEN c ELSE files[x]
        /\ job'[r].id = b /\ job'[r].content = c
        /\ \A i \in Importers : i # r => job'[i] = job[i]
    BY <2>1, <2>4 DEF WriteFile
  <2>6. FewRequests'
    <3>1. \A s \in Requests : Active(s)' => Active(s)
      BY <2>2, <2>3 DEF Active
    <3>2. \A i \in Scripts : job'[i] = job[i]
      BY <2>4, <2>5 DEF Scripts
    <3> QED BY <2>1, <3>1, <3>2, BegunRests, FewStay DEF VolumesInv
  <2> HIDE DEF b, c
  <2>7. \A x \in Ids, d \in Content : Holds(x, d)' => Holds(x, d) \/ (x = b /\ d = c)
    <3> SUFFICES ASSUME NEW x \in Ids, NEW d \in Content, Holds(x, d)'
                 PROVE  Holds(x, d) \/ (x = b /\ d = c)
      OBVIOUS
    <3>1. CASE rows'[x] # Nothing /\ d = rows'[x].content
      BY <2>5, <3>1 DEF Holds
    <3>2. CASE files'[x] # Nothing /\ d = files'[x]
      BY <2>5, <3>2 DEF Holds
    <3>3. ASSUME NEW i \in Importers, job'[i] # NoJob, job'[i].id = x, d = job'[i].content
          PROVE  Holds(x, d) \/ (x = b /\ d = c)
      BY <2>5, <3>3 DEF Holds
    <3> QED BY <3>1, <3>2, <3>3 DEF Holds
  <2>8. b = request[r].id /\ c = request[r].book
    BY DEF b, c
  <2> QED BY <2>1, <2>2, <2>3, <2>5, <2>6, <2>7, <2>8, FileWritten
<1> QED BY <1>1, <1>2

(* An import that commits: what it held, the row holds now. *)
LEMMA CommitHolds ==
    ASSUME ImportOK, NEW i \in Importers, Commit(i)
    PROVE  /\ Holds(job[i].id, job[i].content)
           /\ \A b \in Ids, c \in Content : Holds(b, c)' => Holds(b, c)
<1>1. job[i] # NoJob
  BY DEF Commit, NoJob
<1>2. Holds(job[i].id, job[i].content)
  BY <1>1 DEF Holds
<1>3. /\ rows'[job[i].id].content = job[i].content /\ files' = files
      /\ \A b \in Ids : b # job[i].id => rows'[b] = rows[b]
      /\ \A k \in Importers : job'[k] = job[k] \/ job'[k] = NoJob
  BY CommitOK DEF Commit, ImportOK
<1> SUFFICES ASSUME NEW b \in Ids, NEW c \in Content, Holds(b, c)'
             PROVE  Holds(b, c)
  BY <1>2
<1>4. CASE rows'[b] # Nothing /\ c = rows'[b].content
  BY <1>2, <1>3, <1>4 DEF Holds
<1>5. CASE files'[b] # Nothing /\ c = files'[b]
  BY <1>3, <1>5 DEF Holds
<1>6. ASSUME NEW k \in Importers, job'[k] # NoJob, job'[k].id = b, c = job'[k].content
      PROVE  Holds(b, c)
  BY <1>3, <1>6 DEF Holds
<1> QED BY <1>4, <1>5, <1>6 DEF Holds

LEMMA JobEndHolds ==
    ASSUME UNCHANGED <<rows, files>>, \A k \in Importers : job'[k] = job[k] \/ job'[k] = NoJob
    PROVE  \A b, c : Holds(b, c)' => Holds(b, c)
BY DEF Holds

LEMMA ImportedOnce ==
    ASSUME DeskInv, VolumesInv, NEW r \in Requests, Imported(r)
    PROVE  VolumesInv'
<1> DEFINE x == job[r].id
           c == job[r].content
<1>1. r \in Importers /\ r \notin Scripts /\ DOMAIN job = Importers /\ DOMAIN request = Requests /\ ImportOK
  BY DeskAssumption DEF DeskInv, ImportOK, PanelOK, Scripts
<1>2. Commit(r) /\ begun' = begun /\ request[r].stage = "import"
  BY DEF Imported
<1>3. {"stage", "draft", "set"} \subseteq DOMAIN request[r]
  BY <1>2, StageSays
<1>4. request'[r].stage = "mark" /\ \A s \in Requests : s # r => request'[s] = request[s]
  BY <1>1, <1>3 DEF Imported
<1>5. ~Early(r)' /\ Active(r) /\ ~Early(r)
  BY <1>2, <1>4 DEF Early, At, Active, NoRequest
<1>6. FewRequests'
  <2>1. \A s \in Requests : Active(s)' => Active(s)
    BY <1>4, <1>5 DEF Active
  <2>2. \A i \in Scripts : job'[i] = job[i]
    BY <1>1, <1>2 DEF Commit, Scripts
  <2> QED BY <1>2, <2>1, <2>2, BegunRests, FewStay DEF VolumesInv
<1>7. /\ x \in Ids /\ c \in Content /\ Stored' = Stored \union {x} /\ rows'[x].content = c
      /\ \A b \in Ids : b # x => rows'[b] = rows[b]
      /\ Holds(x, c) /\ \A b \in Ids, d \in Content : Holds(b, d)' => Holds(b, d)
  BY <1>1, <1>2, CommitOK, CommitHolds
<1>8. ~NothingWritten'
  <2>1. \A s \in Requests : Early(s)' => s # r /\ Early(s) /\ Active(s)
    BY <1>4, <1>5, EarlyIsActive DEF Early, At
  <2>2. FewRequests
    BY DEF VolumesInv
  <2>3. begun.requests # 0
    BY <1>5, <2>2 DEF FewRequests
  <2>4. ASSUME begun.requests = 1, NEW s \in Requests, Early(s)' PROVE FALSE
    BY <1>5, <2>1, <2>2, <2>4 DEF FewRequests
  <2>5. ASSUME begun.requests = 2, NEW s \in Requests, NEW q \in Requests, s # q, Early(s)', Early(q)' PROVE FALSE
    BY <1>5, <2>1, <2>2, <2>5 DEF FewRequests
  <2> QED BY <1>2, <2>3, <2>4, <2>5 DEF NothingWritten
<1> HIDE DEF x, c
<1>9. \A s \in Requests : request'[s] = request[s] \/ ~Early(s)'
  BY <1>4, <1>5
<1> QED BY <1>2, <1>6, <1>7, <1>8, <1>9, LibraryGrows

LEMMA ImportFailed ==
    ASSUME DeskInv, VolumesInv, NEW r \in Requests, ImportFails(r)
    PROVE  VolumesInv'
<1>1. r \in Importers /\ r \notin Scripts /\ DOMAIN job = Importers /\ DOMAIN request = Requests
  BY DeskAssumption DEF DeskInv, ImportOK, PanelOK, Scripts
<1>2. Break(r) /\ begun' = begun /\ \A s \in Requests : request'[s] = IF s = r THEN NoRequest ELSE request[s]
  BY <1>1 DEF ImportFails
<1>3. ~Early(r)' /\ ~Active(r)'
  BY <1>2, NobodyIsNotEarly DEF Early, At, Active
<1>4. UNCHANGED <<rows, files>> /\ \A k \in Importers : job'[k] = IF k = r THEN NoJob ELSE job[k]
  BY <1>1, <1>2 DEF Break
<1>5. FewRequests'
  <2>1. \A s \in Requests : Active(s)' => Active(s)
    BY <1>2, <1>3 DEF Active
  <2>2. \A i \in Scripts : job'[i] = job[i]
    BY <1>1, <1>4 DEF Scripts
  <2> QED BY <1>2, <2>1, <2>2, BegunRests, FewStay DEF VolumesInv
<1>6. \A b, c : Holds(b, c)' => Holds(b, c)
  BY <1>4, JobEndHolds
<1>7. \A s \in Requests : request'[s] = request[s] \/ ~Early(s)'
  BY <1>2, <1>3
<1> QED BY <1>2, <1>4, <1>5, <1>6, <1>7, LibraryStays

LEMMA PanelRestarted ==
    ASSUME DeskInv, VolumesInv, PanelRestart
    PROVE  VolumesInv'
<1>1. /\ \A r \in Requests : request'[r] = NoRequest
      /\ \A i \in Importers : job'[i] = IF i \in Requests THEN NoJob ELSE job[i]
      /\ UNCHANGED <<rows, files, begun>>
  BY DEF PanelRestart
<1>2. \A r \in Requests : ~Early(r)' /\ ~Active(r)'
  BY <1>1, NobodyIsNotEarly DEF Early, At, Active
<1>3. FewRequests'
  <2>1. \A i \in Scripts : job'[i] = job[i]
    BY <1>1 DEF Scripts
  <2> QED BY <1>1, <1>2, <2>1, BegunRests, FewStay DEF VolumesInv
<1>4. \A b, c : Holds(b, c)' => Holds(b, c)
  BY <1>1, JobEndHolds
<1> QED BY <1>1, <1>2, <1>3, <1>4, LibraryStays

(* The script: it imports only what the directory holds, while the panel rests. *)
LEMMA ScriptOnce ==
    ASSUME DeskInv, VolumesInv, NEW i \in Scripts,
           ScriptStep(i) \/ ScriptCommits(i) \/ ScriptFails(i) \/ \E b \in Ids : ScriptStarts(i, b)
    PROVE  VolumesInv'
<1>1. i \in Importers /\ DOMAIN job = Importers /\ DOMAIN files = Ids /\ ImportOK
  BY DEF Scripts, DeskInv, ImportOK
<1>2. UNCHANGED <<request, begun>>
  BY DEF ScriptStep, ScriptCommits, ScriptFails, ScriptStarts, panel
<1>3. \A r \in Requests : ~Active(r) /\ ~Early(r)'
  <2>1. job[i] # NoJob => \A r \in Requests : ~Active(r)
    BY DEF VolumesInv, FewRequests
  <2>2. ScriptStep(i) \/ ScriptCommits(i) \/ ScriptFails(i) => job[i].stage # "none"
    BY DEF ScriptStep, ScriptCommits, ScriptFails, Skip, Rewrite, Commit, Break
  <2>3. (\E b \in Ids : ScriptStarts(i, b)) => \A r \in Requests : ~Active(r)
    BY DEF ScriptStarts, Active
  <2>4. \A r \in Requests : ~Active(r)
    BY <2>1, <2>2, <2>3 DEF NoJob
  <2>5. \A r \in Requests : Early(r)' => Early(r)
    BY <1>2 DEF Early, At
  <2> QED BY <2>4, <2>5, EarlyIsActive
<1>4. FewRequests'
  <2>1. \A r \in Requests : ~Active(r)'
    BY <1>2, <1>3 DEF Active
  <2> QED BY <1>2, <1>3, <2>1, BegunRests, FewStay DEF VolumesInv
<1>5. ASSUME rows' = rows, \A b \in Ids, c \in Content : Holds(b, c)' => Holds(b, c)
      PROVE  VolumesInv'
  BY <1>2, <1>3, <1>4, <1>5, LibraryStays
<1>6. CASE \E b \in Ids : ScriptStarts(i, b)
  <2>1. PICK b \in Ids : ReadFile(i, b)
    BY <1>6 DEF ScriptStarts
  <2>2. /\ rows' = rows /\ files' = files /\ files[b] # Nothing
        /\ job'[i].id = b /\ job'[i].content = files[b]
        /\ \A k \in Importers : k # i => job'[k] = job[k]
    BY <1>1, <2>1 DEF ReadFile
  <2>3. \A a, c : Holds(a, c)' => Holds(a, c)
    BY <2>2 DEF Holds
  <2> QED BY <1>5, <2>2, <2>3
<1>7. CASE (ScriptStep(i) /\ Skip(i)) \/ ScriptFails(i)
  <2>1. UNCHANGED <<rows, files>> /\ \A k \in Importers : job'[k] = job[k] \/ job'[k] = NoJob
    BY <1>1, <1>7 DEF ScriptFails, Skip, Break
  <2> QED BY <1>5, <2>1, JobEndHolds
<1>8. CASE ScriptStep(i) /\ Rewrite(i)
  <2> DEFINE b == job[i].id
             c == job[i].content
  <2>1. b \in Ids /\ job[i] # NoJob /\ WriteFile(i, b, c)
    BY <1>1, <1>8 DEF Rewrite, ImportOK, JobOK, NoJob
  <2>2. /\ rows' = rows
        /\ \A a \in Ids : files'[a] = IF a = b THEN c ELSE files[a]
        /\ job'[i].id = b /\ job'[i].content = c
        /\ \A k \in Importers : k # i => job'[k] = job[k]
    BY <1>1, <2>1 DEF WriteFile
  <2>3. \A a \in Ids, d \in Content : Holds(a, d)' => Holds(a, d)
    BY <1>1, <2>1, <2>2 DEF Holds
  <2> QED BY <1>5, <2>2, <2>3
<1>9. CASE ScriptCommits(i)
  <2> DEFINE x == job[i].id
             c == job[i].content
  <2>1. Commit(i)
    BY <1>9 DEF ScriptCommits
  <2>2. /\ x \in Ids /\ c \in Content /\ Stored' = Stored \union {x} /\ rows'[x].content = c
        /\ \A b \in Ids : b # x => rows'[b] = rows[b]
        /\ Holds(x, c) /\ \A b \in Ids, d \in Content : Holds(b, d)' => Holds(b, d)
    BY <1>1, <2>1, CommitOK, CommitHolds
  <2>3. NothingWritten' => begun.requests = 0
    BY <1>2, <1>3 DEF NothingWritten
  <2> HIDE DEF x, c
  <2> QED BY <1>2, <1>3, <1>4, <2>2, <2>3, LibraryGrows
<1> QED BY <1>6, <1>7, <1>8, <1>9 DEF ScriptStep

LEMMA FirstVolumes ==
    ASSUME Init
    PROVE  VolumesInv
<1>1. /\ rows = [b \in Ids |-> IF b \in DOMAIN Shelf THEN [content |-> Shelf[b], version |-> 1] ELSE Nothing]
      /\ files = [b \in Ids |-> IF b \in DOMAIN Shelf THEN Shelf[b] ELSE Nothing]
      /\ job = [i \in Importers |-> NoJob]
      /\ request = [r \in Requests |-> NoRequest]
      /\ begun.requests = 0 /\ "requests" \in DOMAIN begun
  BY DEF Init, ImportInit
<1>2. \A b \in Ids, c \in Content : Holds(b, c) => b \in DOMAIN Shelf /\ c = Shelf[b] /\ b \in Stored
  <2> SUFFICES ASSUME NEW b \in Ids, NEW c \in Content, Holds(b, c)
               PROVE  b \in DOMAIN Shelf /\ c = Shelf[b] /\ b \in Stored
    OBVIOUS
  <2>1. \A i \in Importers : job[i] = NoJob
    BY <1>1
  <2>2. b \in DOMAIN Shelf /\ c = Shelf[b]
    BY <1>1, <2>1 DEF Holds
  <2> QED BY <1>1, <2>2, RowIsThere DEF Stored
<1>3. \A r \in Requests : ~Active(r) /\ ~Early(r)
  BY <1>1, NobodyIsNotEarly DEF Active, Early, At
<1>4. FewRequests
  BY <1>1, <1>3 DEF FewRequests
<1>5. VolumesApart
  BY <1>2, ShelfAssumption DEF VolumesApart, SameVolume
<1>6. BooksAreWhole /\ HeldIsStored
  BY <1>2, SameVolumeIsOne DEF BooksAreWhole, HeldIsStored
<1>7. NumbersFit /\ NumbersAreNew
  BY <1>3, <1>6 DEF NumbersFit, NumbersAreNew, Early
<1> QED BY <1>4, <1>5, <1>6, <1>7 DEF VolumesInv

LEMMA VolumesStep ==
    ASSUME DeskInv, VolumesInv, [Next]_vars
    PROVE  VolumesInv'
<1>1. ASSUME NEW r \in Requests, RequestStep(r) PROVE VolumesInv'
  <2>1. DraftGone(r) => Refused(r)
    BY DEF DraftGone
  <2> QED BY <1>1, <2>1, RefusedPasses, ResolvedOnce, WrittenOnce, ImportedOnce, ImportFailed, DraftMarked
          DEF RequestStep
<1>2. ASSUME NEW r \in Requests, NEW d \in Drafts, RequestStarts(r, d) PROVE VolumesInv'
  BY <1>2, RequestStartsOnce
<1>3. ASSUME NEW i \in Scripts, NEW b \in Ids, ScriptStarts(i, b) PROVE VolumesInv'
  BY <1>3, ScriptOnce
<1>4. ASSUME NEW i \in Scripts, ScriptStep(i) \/ ScriptCommits(i) \/ ScriptFails(i) PROVE VolumesInv'
  BY <1>4, ScriptOnce
<1> QED BY <1>1, <1>2, <1>3, <1>4, BenchIsQuiet, PanelRestarted DEF Next

-----------------------------------------------------------------------------
(* The theorems.                                                           *)

LEMMA DeskInvSuffices ==
    ASSUME DeskInv
    PROVE  LibraryIsValid /\ PublishedIsInLibrary
<1>1. LibraryIsValid
  BY DEF DeskInv, ImportOK, LibraryIsValid, Stored
<1>2. PublishedIsInLibrary
  BY DEF DeskInv, BenchOK, MetaOK, PublishedIsInLibrary
<1> QED BY <1>1, <1>2

LEMMA VolumesInvSuffices ==
    ASSUME DeskInv, VolumesInv, begun.requests <= 2
    PROVE  OneBookPerVolume
<1>1. VolumesApart
  BY DEF VolumesInv
<1>2. \A b \in Stored : b \in Ids /\ rows[b].content \in Content /\ Holds(b, rows[b].content)
  BY StoredHolds DEF DeskInv
<1>3. ASSUME NEW b \in Stored, NEW c \in Stored, b # c
      PROVE  ~SameVolume(rows[b].content, rows[c].content)
  BY <1>1, <1>2, <1>3 DEF VolumesApart
<1> QED BY <1>3 DEF OneBookPerVolume, SameVolume

(* draft_publish, draft_undo_replace, drafts.update, import_books: for any number of
   drafts, threads, requests, imports and books, only valid books are in the library and a draft
   names only books that are there, whatever is loaded, saved, published, undone, lost in a
   restart or imported again by the script in between. *)
THEOREM OnlyValidBooksArePublished == Spec => []LibraryIsValid /\ []PublishedIsInLibrary
<1>1. Init => DeskInv
  BY FirstDesk
<1>2. DeskInv /\ [Next]_vars => DeskInv'
  BY DeskStep
<1> QED BY <1>1, <1>2, DeskInvSuffices, PTL DEF Spec

(* The same, and each volume is one book as long as two requests of the panel were begun at
   most: a form sent twice, an import that failed and is repeated, a replacement undone. *)
THEOREM PublicationHolds == Spec => []LibraryHolds
<1>1. Init => DeskInv /\ VolumesInv
  BY FirstDesk, FirstVolumes
<1>2. DeskInv /\ VolumesInv /\ [Next]_vars => (DeskInv /\ VolumesInv)'
  BY DeskStep, VolumesStep
<1>3. DeskInv /\ VolumesInv => LibraryHolds
  BY DeskInvSuffices, VolumesInvSuffices DEF LibraryHolds
<1> QED BY <1>1, <1>2, <1>3, PTL DEF Spec
=============================================================================
