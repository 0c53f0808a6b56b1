----------------------------- MODULE MCPushBooks -----------------------------
(***************************************************************************)
(* One user with two phones, in three scenes: the queue, with any kind of  *)
(* row queued and the books at rest; the books, with the worker at rest    *)
(* and the user's first phone only; and the shelf, where books are hidden, *)
(* shown and deleted too, and the phone stays.                             *)
(***************************************************************************)
EXTENDS PushBooks
CONSTANTS u1, l1, l2, t1, t2
OneUser == l1 :> u1 @@ l2 :> u1

VARIABLE scene
MCInit == Init /\ scene \in {"queue", "books", "shelf"} /\ (scene # "queue" => configured)

Queue ==
    \/ \E t \in Tokens : RegisterDevice(l1, t, FALSE)
    \/ RegisterDevice(l2, t2, FALSE)
    \/ \E l \in Logins : RemoveDevice(l, FALSE)
    \/ Uninstall(t1)
    \/ QueueNext
    \/ Enqueue(u1, "book_updates")
    \/ Enqueue(u1, "chat_answer") /\ outbox = << >>
FirstPhone ==
    \/ \E t \in Tokens, denied \in BOOLEAN : RegisterDevice(l1, t, denied)
    \/ RemoveDevice(l1, TRUE) \/ EndLogin(l1) \/ Clock
Shelf ==
    \/ RegisterDevice(l1, t1, FALSE) /\ UNCHANGED books
    \/ \E on \in BOOLEAN : SetPreference(u1, "new_books", on)
    \/ \E b \in Books : Import(b) \/ SetPublished(b) \/ Delete(b)
    \/ Seed \/ Scan \/ Digest(u1) \/ DayBreaks
MCNext ==
    /\ UNCHANGED scene
    /\ \/ scene = "queue" /\ Queue /\ UNCHANGED books
       \/ scene = "books" /\ FirstPhone /\ UNCHANGED books
       \/ scene = "books" /\ BooksNext /\ (\A u \in Users : owns'[u] \subseteq Library)
                           /\ published \subseteq published'  \* nothing is hidden or deleted
       \/ scene = "shelf" /\ Shelf
       \/ Tidy

MCSpec == MCInit /\ [][MCNext]_<<vars, scene>>
Rest == <<books, scene>>
MCFairSpec ==
    /\ MCSpec
    /\ WF_vars(WorkerStep /\ UNCHANGED Rest)
    /\ SF_vars(Clock /\ night /\ UNCHANGED Rest)
    /\ SF_vars(BackoffEnds /\ UNCHANGED Rest)
    /\ SF_vars(Aged /\ UNCHANGED Rest)
=============================================================================
