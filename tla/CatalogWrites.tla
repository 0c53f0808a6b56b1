---------------------------- MODULE CatalogWrites ----------------------------
(***************************************************************************)
(* The writers of the catalog: transactions of the importer, the admin     *)
(* panel, scripts and hand-run SQL, and the triggers that number every     *)
(* change (migration e2d84b6a19f7).                                        *)
(*                                                                         *)
(* PostgreSQL, READ COMMITTED: a transaction sees the committed rows and   *)
(* its own writes, and a row it wrote is locked until it ends.  The first  *)
(* write of a transaction, of whatever table, gives it its xid.  A trigger *)
(* draws a number from catalog_seq before it waits for the row it puts the *)
(* number in.                                                              *)
(*                                                                         *)
(* One category stands for every group with a version (categories,         *)
(* libraries, featured works); a work has one book.                        *)
(***************************************************************************)
EXTENDS Naturals, Sequences, SequencesExt, FiniteSets, FiniteSetsExt

CONSTANTS Writers,     \* connections that write, each one transaction at a time
          Books,
          Texts,       \* what a published book may say
          Hidden,      \* an unpublished book
          Gone,        \* a deleted book, or one not imported yet
          Titles,      \* titles of the category
          Movable,     \* books that may join and leave the category
          Seeded,      \* books already there when the change tracking was installed
          MaxXid,      \* bound: transactions
          MaxSeq       \* bound: numbers drawn

ASSUME CatalogConstants ==
    /\ IsFiniteSet(Books) /\ Movable \subseteq Books /\ Seeded \subseteq Books
    /\ MaxXid \in Nat /\ MaxSeq \in Nat
    /\ Hidden \notin Texts /\ Gone \notin Texts \union Books /\ Hidden # Gone
    /\ Texts # {} /\ Titles # {}

VARIABLES db,          \* row -> its committed value
          txn,         \* writer -> its running transaction
          lastSeq,     \* the last value of catalog_seq
          lastXid      \* the last transaction id given out

writes == <<db, txn, lastSeq, lastXid>>

-----------------------------------------------------------------------------
(* Rows: the book, its work's membership, its change number; the category's title
   and its stamp. *)
BookRow(b) == <<"book", b>>
MemberRow(b) == <<"member", b>>
ChangeRow(b) == <<"change", b>>
TitleRow == <<"title", Gone>>
StampRow == <<"stamp", Gone>>
Rows == ({"book", "member", "change"} \X Books) \cup {TitleRow, StampRow}

Category == Gone       \* in a trigger's work list, the stamp of the category

Number == [seq : Nat, xid : Nat, old : BOOLEAN]
NoNumber == [seq |-> 0, xid |-> 0, old |-> FALSE]

ValuesOf(row) ==
    IF row[1] = "book" THEN Texts \cup {Hidden, Gone}
    ELSE IF row[1] = "member" THEN BOOLEAN
    ELSE IF row[1] = "title" THEN Titles
    ELSE Number

NoTxn == [xid |-> 0, writes |-> <<>>, todo |-> <<>>, drawn |-> 0]
Running(w) == txn[w].xid # 0

WritesTypeOK ==
    /\ DOMAIN db = Rows
    /\ \A row \in Rows : db[row] \in ValuesOf(row)
    /\ DOMAIN txn = Writers
    /\ \A w \in Writers :
        /\ txn[w].xid \in 0..lastXid /\ txn[w].drawn \in 0..lastSeq
        /\ txn[w].todo \in Seq(Books \cup {Category})
        /\ DOMAIN txn[w].writes \subseteq Rows
        /\ \A row \in DOMAIN txn[w].writes : txn[w].writes[row] \in ValuesOf(row)
    /\ lastSeq \in Nat /\ lastXid \in Nat

\* The migration numbers every existing book, in one transaction.
SeedNumber(b) ==
    LET order == SetToSeq(Seeded)
    IN IF b \in Seeded
       THEN [seq |-> CHOOSE i \in 1..Len(order) : order[i] = b, xid |-> 1, old |-> FALSE]
       ELSE NoNumber

WritesInit ==
    /\ \E text \in Texts, title \in Titles :
        db = [row \in Rows |->
                IF row[1] = "book" THEN IF row[2] \in Seeded THEN text ELSE Gone
                ELSE IF row[1] = "member" THEN row[2] \in Seeded
                ELSE IF row[1] = "title" THEN title
                ELSE IF row[1] = "stamp" THEN NoNumber
                ELSE SeedNumber(row[2])]
    /\ txn = [w \in Writers |-> NoTxn]
    /\ lastSeq = Cardinality(Seeded)
    /\ lastXid = 1

-----------------------------------------------------------------------------
(* Transactions *)

\* Mutant of Begin: the transaction id is not taken.
BeginReusesXid(w) ==
    /\ ~Running(w)
    /\ lastXid < MaxXid
    /\ txn' = [txn EXCEPT ![w].xid = lastXid + 1]
    /\ UNCHANGED <<db, lastSeq, lastXid>>

Begin(w) ==
    /\ ~Running(w)
    /\ lastXid < MaxXid
    /\ lastXid' = lastXid + 1
    /\ txn' = [txn EXCEPT ![w].xid = lastXid + 1]
    /\ UNCHANGED <<db, lastSeq>>

Seen(w, row) == IF row \in DOMAIN txn[w].writes THEN txn[w].writes[row] ELSE db[row]

LockFree(w, row) == \A v \in Writers \ {w} : row \notin DOMAIN txn[v].writes

With(f, row, value) == [r \in DOMAIN f \cup {row} |-> IF r = row THEN value ELSE f[r]]

\* A statement changes one row; its row trigger then has numbers to write.
Statement(w, row, value, work) ==
    /\ Running(w)
    /\ txn[w].todo = <<>>
    /\ LockFree(w, row)
    /\ Seen(w, row) # value
    /\ txn' = [txn EXCEPT ![w].writes = With(@, row, value), ![w].todo = work]
    /\ UNCHANGED <<db, lastSeq, lastXid>>

\* Mutant of EditBook: a deleted book stamps nothing.
EditBookStampsNothing(w, b, content) == Statement(w, BookRow(b), content, <<b>>)

\* trg_catalog_books: a deleted book also stamps its work's category.
EditBook(w, b, content) ==
    Statement(w, BookRow(b), content,
              IF content = Gone /\ Seen(w, MemberRow(b)) THEN <<b, Category>> ELSE <<b>>)

BooksOfWork(w, b) == IF Seen(w, BookRow(b)) = Gone THEN <<>> ELSE <<b>>

\* trg_catalog_work_subjects, trg_catalog_library_works
JoinOrLeave(w, b) ==
    Statement(w, MemberRow(b), ~Seen(w, MemberRow(b)), <<Category>> \o BooksOfWork(w, b))

\* trg_catalog_subjects, trg_catalog_libraries: every book carries its categories' titles.
Retitle(w, title) ==
    Statement(w, TitleRow, title,
              <<Category>> \o SetToSeq({b \in Books : /\ Seen(w, MemberRow(b))
                                                     /\ Seen(w, BookRow(b)) # Gone}))

\* catalog_touch_book and catalog_stamp: nextval, then the upsert waits for the row.
Draw(w) ==
    /\ txn[w].todo # <<>> /\ txn[w].drawn = 0
    /\ lastSeq < MaxSeq
    /\ lastSeq' = lastSeq + 1
    /\ txn' = [txn EXCEPT ![w].drawn = lastSeq + 1]
    /\ UNCHANGED <<db, lastXid>>

NumberedRow(w) ==
    IF Head(txn[w].todo) = Category THEN StampRow ELSE ChangeRow(Head(txn[w].todo))

Upsert(w) ==
    /\ txn[w].drawn # 0
    /\ LockFree(w, NumberedRow(w))
    /\ txn' = [txn EXCEPT
         ![w].writes = With(@, NumberedRow(w),
                            [seq |-> txn[w].drawn, xid |-> txn[w].xid, old |-> FALSE]),
         ![w].todo = Tail(@),
         ![w].drawn = 0]
    /\ UNCHANGED <<db, lastSeq, lastXid>>

Commit(w) ==
    /\ Running(w)
    /\ txn[w].todo = <<>>
    /\ db' = [row \in Rows |-> Seen(w, row)]
    /\ txn' = [txn EXCEPT ![w] = NoTxn]
    /\ UNCHANGED <<lastSeq, lastXid>>

\* An error, a crash or a deadlock: nothing was written, the numbers drawn are gaps.
Rollback(w) ==
    /\ Running(w)
    /\ txn' = [txn EXCEPT ![w] = NoTxn]
    /\ UNCHANGED <<db, lastSeq, lastXid>>

Write(w) ==
    \/ Begin(w)
    \/ \E b \in Books, content \in Texts \cup {Hidden, Gone} : EditBook(w, b, content)
    \/ \E b \in Movable : JoinOrLeave(w, b)
    \/ \E title \in Titles : Retitle(w, title)
    \/ Draw(w) \/ Upsert(w) \/ Commit(w) \/ Rollback(w)

-----------------------------------------------------------------------------
(* What a reader sees *)

\* HORIZON: pg_snapshot_xmin, the oldest transaction still running.
Horizon == Min({lastXid + 1} \cup {txn[w].xid : w \in {v \in Writers : Running(v)}})

Served(row) == db[row].seq # 0 /\ db[row].xid < Horizon
SeqServed(row) == IF Served(row) THEN db[row].seq ELSE 0

ChangesServed == {b \in Books : Served(ChangeRow(b))}
LatestSeq == Max({0} \cup {db[ChangeRow(b)].seq : b \in ChangesServed})

Published(b) == db[BookRow(b)] \in Texts
InCategory(b) == db[MemberRow(b)]

\* GET /books and the change feed give a published book as it is at the time of reading.
View(b) == IF Published(b)
           THEN <<db[BookRow(b)], IF InCategory(b) THEN db[TitleRow] ELSE Gone>>
           ELSE Gone

-----------------------------------------------------------------------------
(* Forgetting old deletions *)

\* 180 days pass without a write (TOMBSTONE_DAYS).
Aged(row) == IF row[1] = "change" /\ db[row].seq # 0 THEN [db[row] EXCEPT !.old = TRUE] ELSE db[row]
Age == /\ \A w \in Writers : ~Running(w)
       /\ db' = [row \in Rows |-> Aged(row)]
       /\ UNCHANGED <<txn, lastSeq, lastXid>>

\* Numbers of books that are gone or unpublished, and that nobody is writing.
Forgettable == {b \in Books : db[ChangeRow(b)].old /\ ~Published(b)}

Forget(books) ==
    /\ \A b \in books, w \in Writers : ChangeRow(b) \notin DOMAIN txn[w].writes
    /\ db' = [row \in Rows |-> IF row[1] = "change" /\ row[2] \in books THEN NoNumber ELSE db[row]]
    /\ UNCHANGED <<txn, lastSeq, lastXid>>
=============================================================================
