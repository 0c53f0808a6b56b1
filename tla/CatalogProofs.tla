---------------------------- MODULE CatalogProofs ----------------------------
(***************************************************************************)
(* Proofs about the tracking of catalog changes: that the change feed      *)
(* misses nothing, and that the version of a category moves with its       *)
(* contents, for any number of books, clients and transactions, and for    *)
(* writers that take turns.                                                *)
(***************************************************************************)
EXTENDS MCCatalog, FiniteSetTheorems, WellFoundedInduction, TLAPS

\* No two transactions of the catalog are ever open at once.  (With two, the feed misses
\* changes: see the violation catalog_overtaken.)
TakeTurns == \A w, x \in Writers : Running(w) /\ Running(x) => w = x

-----------------------------------------------------------------------------
(* Numbers and orders.                                                     *)

(* A set of numbers has a least one. *)
LEMMA LeastIsThere ==
    ASSUME NEW S \in SUBSET Nat, S # {}
    PROVE  /\ Min(S) \in S
           /\ \A y \in S : Min(S) <= y
<1>1. IsWellFoundedOn(OpToRel(<, Nat), Nat)
  BY NatLessThanWellFounded
<1>2. PICK x \in S : \A y \in S : ~ (<<y, x>> \in OpToRel(<, Nat))
  BY <1>1, WFMin
<1>3. \A y \in S : x <= y
  <2> TAKE y \in S
  <2>1. x \in Nat /\ y \in Nat /\ ~(y < x)
    BY <1>2 DEF OpToRel
  <2> QED BY <2>1
<1> QED BY <1>3 DEF Min

(* A bounded set of numbers has a greatest one. *)
LEMMA GreatestIsThere ==
    ASSUME NEW S \in SUBSET Nat, S # {}, NEW n \in Nat, \A x \in S : x <= n
    PROVE  /\ Max(S) \in S
           /\ \A x \in S : x <= Max(S)
<1> DEFINE Bounds == {m \in Nat : \A x \in S : x <= m}
<1> DEFINE top == Min(Bounds)
<1>1. top \in Bounds /\ \A m \in Bounds : top <= m
  BY LeastIsThere
<1>2. top \in S
  <2> SUFFICES ASSUME top \notin S PROVE FALSE
    OBVIOUS
  <2>1. top \in Nat /\ \A x \in S : x \in Nat /\ x <= top /\ x # top
    BY <1>1
  <2>2. PICK x \in S : TRUE
    OBVIOUS
  <2> HIDE DEF top
  <2>3. top - 1 \in Nat /\ \A y \in S : y <= top - 1
    BY <2>1, <2>2
  <2>4. top <= top - 1
    BY <1>1, <2>3
  <2> QED BY <2>1, <2>4
<1> HIDE DEF top
<1>3. \A x \in S : top >= x
  BY <1>1
<1>4. \E x \in S : \A y \in S : x >= y
  BY <1>2, <1>3
<1>5. Max(S) \in S /\ \A y \in S : Max(S) >= y
  BY <1>4 DEF Max
<1>6. \A y \in S : y \in Nat /\ Max(S) \in Nat
  BY <1>5
<1> QED BY <1>5, <1>6

(* SetToSeq lists a finite set: every element, once. *)
LEMMA SetIsListed ==
    ASSUME NEW S, IsFiniteSet(S)
    PROVE  /\ SetToSeq(S) \in Seq(S)
           /\ Len(SetToSeq(S)) = Cardinality(S)
           /\ \A x \in S : \E i \in 1 .. Cardinality(S) : SetToSeq(S)[i] = x
<1> DEFINE n == Cardinality(S)
<1> DEFINE f == SetToSeq(S)
<1>1. n \in Nat /\ ExistsBijection(1..n, S)
  BY FS_CardinalityType
<1>2. \E g \in [1..n -> S] : IsInjective(g)
  BY <1>1 DEF ExistsBijection, Bijection, Injection
<1>3. f \in [1..n -> S] /\ IsInjective(f)
  BY <1>2 DEF SetToSeq
<1>4. f \in Injection(1..n, S)
  BY <1>3 DEF Injection
<1>5. IsFiniteSet(1..n) /\ Cardinality(1..n) = n
  BY <1>1, FS_Interval
<1>6. f \in Surjection(1..n, S)
  BY <1>4, <1>5, FS_Injection
<1>7. \A x \in S : \E i \in 1..n : f[i] = x
  BY <1>6 DEF Surjection
<1> HIDE DEF f
<1>8. f \in Seq(S) /\ Len(f) = n
  BY <1>1, <1>3
<1> QED BY <1>7, <1>8 DEF f

-----------------------------------------------------------------------------
(* The rows and the transactions.                                          *)

In(s, x) == \E i \in 1 .. Len(s) : s[i] = x

\* What carries a number: the change of a book, the stamp of the category.
NumberRow(x) == IF x = Category THEN StampRow ELSE ChangeRow(x)
NumberRows == {NumberRow(x) : x \in Books \union {Category}}

Value == Texts \union {Hidden, Gone} \union BOOLEAN \union Titles \union Number
Writings == UNION {[S -> Value] : S \in SUBSET Rows}
Txn == [xid : Nat, writes : Writings, todo : Seq(Books \union {Category}), drawn : Nat]

\* x has a number in the transaction of w, or is about to be given one.
Numbered(w, x) == In(txn[w].todo, x) \/ NumberRow(x) \in DOMAIN txn[w].writes

\* A book as the transaction of w sees it.
ViewSeen(w, b) ==
    IF Seen(w, BookRow(b)) \in Texts
    THEN <<Seen(w, BookRow(b)), IF Seen(w, MemberRow(b)) THEN Seen(w, TitleRow) ELSE Gone>>
    ELSE Gone

\* A transaction changes what the category lists only with a stamp, or with a number for a
\* book that stays in it.
StampOK(w) ==
    \/ Numbered(w, Category)
    \/ /\ Seen(w, TitleRow) = db[TitleRow]
       /\ \A b \in Books :
            /\ Seen(w, MemberRow(b)) = db[MemberRow(b)]
            /\ Seen(w, MemberRow(b)) /\ Seen(w, BookRow(b)) # db[BookRow(b)] =>
                    Seen(w, BookRow(b)) # Gone /\ Numbered(w, b)

TxnOK(w) ==
    /\ ~Running(w) => txn[w] = NoTxn
    /\ Running(w) =>
        /\ txn[w].xid <= lastXid /\ \A row \in NumberRows : db[row].xid < txn[w].xid
        /\ txn[w].drawn <= lastSeq /\ (txn[w].drawn # 0 => txn[w].todo # <<>>)
        /\ \A row \in NumberRows : row \in DOMAIN txn[w].writes =>
                /\ txn[w].writes[row] \in Number /\ txn[w].writes[row].seq \in 1 .. lastSeq
                /\ txn[w].writes[row].xid = txn[w].xid
        /\ \A b \in Books : ViewSeen(w, b) # View(b) => Numbered(w, b)
        /\ StampOK(w)

\* A number no transaction will go behind any more.
Ahead(w, n) ==
    /\ txn[w].drawn # 0 => txn[w].drawn > n
    /\ \A row \in NumberRows : row \in DOMAIN txn[w].writes => txn[w].writes[row].seq > n
Settled == {n \in 0 .. lastSeq : \A w \in Writers : Ahead(w, n)}

\* The inductive invariant of the writers.
WritersInv ==
    /\ db \in [Rows -> Value] /\ txn \in [Writers -> Txn]
    /\ lastSeq \in Nat /\ lastXid \in Nat
    /\ \A w \in Writers : TxnOK(w)
    /\ \A row \in NumberRows : db[row] \in Number /\ db[row].seq \in Settled /\ db[row].xid <= lastXid
    /\ \A b \in Books : db[ChangeRow(b)].seq = 0 => View(b) = Gone

(* The kinds of rows are different rows. *)
LEMMA RowsDiffer ==
    /\ TitleRow \in Rows /\ StampRow \in Rows /\ TitleRow # StampRow
    /\ \A b \in Books :
        /\ BookRow(b) \in Rows /\ MemberRow(b) \in Rows /\ ChangeRow(b) \in Rows
        /\ BookRow(b) \notin {TitleRow, StampRow} /\ MemberRow(b) \notin {TitleRow, StampRow}
        /\ ChangeRow(b) \notin {TitleRow, StampRow}
    /\ \A b, a \in Books :
        /\ BookRow(b) # MemberRow(a) /\ BookRow(b) # ChangeRow(a) /\ MemberRow(b) # ChangeRow(a)
        /\ (BookRow(b) = BookRow(a) \/ MemberRow(b) = MemberRow(a) \/ ChangeRow(b) = ChangeRow(a)) => a = b
BY DEF Rows, TitleRow, StampRow, BookRow, MemberRow, ChangeRow

(* Whose number a row has. *)
LEMMA NumberRowsAre ==
    /\ Category \notin Books /\ NumberRow(Category) = StampRow
    /\ \A b \in Books : NumberRow(b) = ChangeRow(b)
    /\ \A x \in Books \union {Category} : NumberRow(x) \in NumberRows /\ NumberRow(x) \in Rows
    /\ \A x, y \in Books \union {Category} : NumberRow(x) = NumberRow(y) => x = y
    /\ \A row \in NumberRows : \E x \in Books \union {Category} : row = NumberRow(x)
    /\ TitleRow \notin NumberRows
    /\ \A b \in Books : BookRow(b) \notin NumberRows /\ MemberRow(b) \notin NumberRows
    /\ NumberRows \subseteq Rows
<1>1. Category \notin Books
  BY CatalogConstants DEF Category
<1> QED BY <1>1, RowsDiffer DEF NumberRow, NumberRows

(* The rows of the changes have numbers. *)
LEMMA ChangesAreNumberRows == \A row \in Rows : row[1] = "change" => row \in NumberRows
<1> SUFFICES ASSUME NEW row \in Rows, row[1] = "change" PROVE row \in NumberRows
  OBVIOUS
<1>1. row \in {"book", "member", "change"} \X Books
  BY DEF Rows, TitleRow, StampRow
<1>2. PICK kind \in {"book", "member", "change"}, b \in Books : row = <<kind, b>>
  BY <1>1
<1>3. row = ChangeRow(b)
  BY <1>2 DEF ChangeRow
<1> QED BY <1>3, NumberRowsAre

(* A row is written over what was written before. *)
LEMMA WithIs ==
    ASSUME NEW f \in Writings, NEW row \in Rows, NEW value \in Value
    PROVE  /\ With(f, row, value) \in Writings
           /\ DOMAIN With(f, row, value) = DOMAIN f \union {row}
           /\ With(f, row, value)[row] = value
           /\ \A r \in DOMAIN f : r # row => With(f, row, value)[r] = f[r]
<1>1. PICK S \in SUBSET Rows : f \in [S -> Value]
  BY DEF Writings
<1>2. DOMAIN f = S /\ \A r \in S : f[r] \in Value
  BY <1>1
<1>3. With(f, row, value) \in [S \union {row} -> Value]
  BY <1>2 DEF With
<1>4. S \union {row} \in SUBSET Rows
  OBVIOUS
<1> QED BY <1>2, <1>3, <1>4 DEF With, Writings

(* What is in a short list. *)
LEMMA InShort ==
    /\ \A x : ~In(<<>>, x)
    /\ \A x : In(<<x>>, x)
    /\ \A x, y : In(<<x, y>>, x) /\ In(<<x, y>>, y)
<1>1. \A x : ~In(<<>>, x)
  BY DEF In
<1>2. \A x : In(<<x>>, x)
  <2> TAKE x
  <2>1. Len(<<x>>) = 1 /\ <<x>>[1] = x
    OBVIOUS
  <2> QED BY <2>1 DEF In
<1>3. \A x, y : In(<<x, y>>, x) /\ In(<<x, y>>, y)
  <2> TAKE x, y
  <2>1. Len(<<x, y>>) = 2 /\ <<x, y>>[1] = x /\ <<x, y>>[2] = y
    OBVIOUS
  <2> QED BY <2>1 DEF In
<1> QED BY <1>1, <1>2, <1>3

(* What a list begins with, and what follows. *)
LEMMA InParts ==
    ASSUME NEW S, NEW s \in Seq(S), s # <<>>
    PROVE  /\ Head(s) \in S /\ Tail(s) \in Seq(S)
           /\ \A x : In(s, x) => x = Head(s) \/ In(Tail(s), x)
<1>1. /\ Head(s) = s[1] /\ Head(s) \in S /\ Tail(s) \in Seq(S)
      /\ Len(Tail(s)) = Len(s) - 1 /\ Len(s) \in Nat
      /\ \A i \in 1 .. Len(s) - 1 : Tail(s)[i] = s[i + 1]
  OBVIOUS
<1>2. ASSUME NEW x, NEW i \in 1 .. Len(s), s[i] = x, x # Head(s) PROVE In(Tail(s), x)
  <2>1. i # 1
    BY <1>1, <1>2
  <2>2. i - 1 \in 1 .. Len(s) - 1 /\ (i - 1) + 1 = i
    BY <1>1, <2>1
  <2>3. Tail(s)[i - 1] = x
    BY <1>1, <1>2, <2>2
  <2> QED BY <1>1, <2>2, <2>3 DEF In
<1> QED BY <1>1, <1>2 DEF In

LEMMA InBoth ==
    ASSUME NEW S, NEW s \in Seq(S), NEW r \in Seq(S)
    PROVE  /\ s \o r \in Seq(S)
           /\ \A x : In(s, x) \/ In(r, x) => In(s \o r, x)
<1>1. /\ s \o r \in Seq(S) /\ Len(s) \in Nat /\ Len(r) \in Nat /\ Len(s \o r) = Len(s) + Len(r)
      /\ \A i \in 1 .. Len(s) : (s \o r)[i] = s[i]
      /\ \A i \in 1 .. Len(r) : (s \o r)[Len(s) + i] = r[i]
  OBVIOUS
<1>2. ASSUME NEW x, NEW i \in 1 .. Len(s), s[i] = x PROVE In(s \o r, x)
  <2>1. i \in 1 .. Len(s \o r) /\ (s \o r)[i] = x
    BY <1>1, <1>2
  <2> QED BY <2>1 DEF In
<1>3. ASSUME NEW x, NEW i \in 1 .. Len(r), r[i] = x PROVE In(s \o r, x)
  <2>1. Len(s) + i \in 1 .. Len(s \o r) /\ (s \o r)[Len(s) + i] = x
    BY <1>1, <1>3
  <2> QED BY <2>1 DEF In
<1> QED BY <1>1, <1>2, <1>3 DEF In

-----------------------------------------------------------------------------
(* The writers' steps, without the bounds on how many there are.           *)

Starts(w) ==
    /\ ~Running(w)
    /\ lastXid' = lastXid + 1
    /\ txn' = [txn EXCEPT ![w].xid = lastXid + 1]
    /\ UNCHANGED <<db, lastSeq>>

Changes(w) ==
    \/ \E b \in Books, content \in Texts \union {Hidden, Gone} : EditBook(w, b, content)
    \/ \E b \in Books : JoinOrLeave(w, b)
    \/ \E title \in Titles : Retitle(w, title)

Draws(w) ==
    /\ txn[w].todo # <<>> /\ txn[w].drawn = 0
    /\ lastSeq' = lastSeq + 1
    /\ txn' = [txn EXCEPT ![w].drawn = lastSeq + 1]
    /\ UNCHANGED <<db, lastXid>>

WriterStep(w) == Starts(w) \/ Changes(w) \/ Draws(w) \/ Upsert(w) \/ Commit(w) \/ Rollback(w)

(* A transaction that has written nothing sees the committed rows. *)
LEMMA NothingWritten ==
    /\ NoTxn \in Txn
    /\ NoTxn.xid = 0 /\ NoTxn.drawn = 0 /\ NoTxn.todo = <<>> /\ DOMAIN NoTxn.writes = {}
<1>1. <<>> \in [{} -> Value] /\ DOMAIN <<>> = {}
  OBVIOUS
<1>2. <<>> \in Writings
  BY <1>1 DEF Writings
<1> QED BY <1>1, <1>2 DEF NoTxn, Txn

(* Who does not run waits for nothing, and has nothing to write. *)
LEMMA RestingIsOK ==
    ASSUME NEW w \in Writers, txn[w] = NoTxn
    PROVE  TxnOK(w) /\ \A n : Ahead(w, n)
BY NothingWritten DEF TxnOK, Ahead, Running

LEMMA RestingStays ==
    ASSUME NEW w \in Writers, txn'[w] = NoTxn
    PROVE  TxnOK(w)' /\ \A n : Ahead(w, n)'
BY NothingWritten DEF TxnOK, Ahead, Running

(* The committed rows as they are, and no fewer numbers: what holds of a transaction
   that did nothing goes on to hold. *)
LEMMA OthersStayOK ==
    ASSUME WritersInv, NEW w \in Writers, txn'[w] = txn[w],
           UNCHANGED db, lastSeq' \in Nat, lastSeq' >= lastSeq, lastXid' \in Nat, lastXid' >= lastXid
    PROVE  TxnOK(w)' /\ \A n : Ahead(w, n) => Ahead(w, n)'
<1> USE DEF WritersInv
<1>1. \A row : Seen(w, row)' = Seen(w, row)
  BY DEF Seen
<1>2. \A b \in Books : ViewSeen(w, b)' = ViewSeen(w, b) /\ View(b)' = View(b)
  BY <1>1 DEF ViewSeen, View, Published, InCategory
<1>3. \A x : Numbered(w, x)' <=> Numbered(w, x)
  BY DEF Numbered
<1>4. StampOK(w) => StampOK(w)'
  BY <1>1, <1>3 DEF StampOK
<1>5. txn[w] \in Txn /\ TxnOK(w)
  OBVIOUS
<1>6. CASE ~Running(w)
  BY <1>5, <1>6, RestingStays DEF TxnOK
<1>7. CASE Running(w)
  <2>1. Running(w)'
    BY <1>7 DEF Running
  <2>2. txn[w].xid \in Nat /\ txn[w].drawn \in Nat
    BY <1>5 DEF Txn
  <2>3. \A row \in NumberRows : row \in DOMAIN txn[w].writes => txn[w].writes[row].seq \in 1 .. lastSeq'
    BY <1>5, <1>7 DEF TxnOK
  <2> QED BY <1>2, <1>3, <1>4, <1>5, <1>7, <2>1, <2>2, <2>3 DEF TxnOK, Ahead
<1> QED BY <1>6, <1>7

(* A step of one transaction that commits nothing. *)
LEMMA OwnStep ==
    ASSUME WritersInv, NEW w \in Writers, txn' \in [Writers -> Txn],
           \A x \in Writers \ {w} : txn'[x] = txn[x],
           UNCHANGED db, lastSeq' \in Nat, lastSeq' >= lastSeq, lastXid' \in Nat, lastXid' >= lastXid,
           TxnOK(w)', \A n \in 0 .. lastSeq : Ahead(w, n) => Ahead(w, n)'
    PROVE  WritersInv' /\ Settled \subseteq Settled'
<1> USE DEF WritersInv
<1>1. ASSUME NEW x \in Writers PROVE TxnOK(x)' /\ \A n \in 0 .. lastSeq : Ahead(x, n) => Ahead(x, n)'
  BY OthersStayOK
<1>2. Settled \subseteq Settled'
  BY <1>1 DEF Settled
<1>3. \A b \in Books : View(b)' = View(b)
  BY DEF View, Published, InCategory
<1>4. \A row \in NumberRows :
        db[row]' \in Number /\ db[row]'.seq \in Settled' /\ db[row]'.xid <= lastXid'
  <2> TAKE row \in NumberRows
  <2>1. db[row] \in Number /\ db[row].seq \in Settled /\ db[row].xid <= lastXid
    OBVIOUS
  <2>2. db[row].xid \in Nat
    BY <2>1 DEF Number
  <2> QED BY <1>2, <2>1, <2>2
<1> QED BY <1>1, <1>2, <1>3, <1>4

LEMMA StartsStep ==
    ASSUME WritersInv, NEW w \in Writers, Starts(w)
    PROVE  WritersInv' /\ Settled \subseteq Settled'
<1> USE DEF WritersInv, Starts
<1>1. txn[w] = NoTxn
  BY DEF TxnOK
<1> DEFINE begun == [NoTxn EXCEPT !.xid = lastXid + 1]
<1>a. begun \in Txn
  <2>1. lastXid + 1 \in Nat
    OBVIOUS
  <2>2. NoTxn.writes = <<>> /\ <<>> \in Writings
    BY NothingWritten DEF NoTxn, Txn
  <2>3. begun = [xid |-> lastXid + 1, writes |-> <<>>, todo |-> <<>>, drawn |-> 0]
    BY DEF NoTxn
  <2> HIDE DEF WritersInv, Starts, begun
  <2> QED BY <2>1, <2>2, <2>3 DEF Txn
<1>b. txn' = [txn EXCEPT ![w] = begun]
  BY <1>1
<1> HIDE DEF begun, Starts
<1>2. /\ txn' \in [Writers -> Txn] /\ \A x \in Writers \ {w} : txn'[x] = txn[x]
      /\ txn'[w] = begun
  BY <1>a, <1>b
<1> USE DEF begun, Starts
<1>3. /\ txn'[w].xid = lastXid + 1 /\ txn'[w].drawn = 0
      /\ txn'[w].todo = <<>> /\ DOMAIN txn'[w].writes = {}
  BY <1>2, NothingWritten DEF NoTxn
<1>4. \A row : Seen(w, row)' = db[row]
  BY <1>3 DEF Seen
<1>5. \A b \in Books : ViewSeen(w, b)' = View(b)'
  BY <1>4 DEF ViewSeen, View, Published, InCategory
<1>6. StampOK(w)'
  BY <1>4 DEF StampOK
<1>7. \A row \in NumberRows : db[row].xid < lastXid + 1
  BY DEF Number
<1>8. TxnOK(w)'
  BY <1>3, <1>5, <1>6, <1>7 DEF TxnOK, Running
<1>9. \A n : Ahead(w, n)'
  BY <1>3 DEF Ahead
<1> QED BY <1>2, <1>8, <1>9, OwnStep

(* A statement of a transaction, whose trigger will number what it changed. *)
LEMMA StatementStep ==
    ASSUME WritersInv, NEW w \in Writers, NEW row \in Rows \ NumberRows, NEW value \in Value,
           NEW work \in Seq(Books \union {Category}),
           Statement(w, row, value, work),
           \A b \in Books : ViewSeen(w, b)' # ViewSeen(w, b) => In(work, b),
           In(work, Category) \/
               \E b \in Books : /\ row = BookRow(b) /\ In(work, b)
                                /\ Seen(w, MemberRow(b)) => value # Gone
    PROVE  WritersInv' /\ Settled \subseteq Settled'
<1> USE DEF WritersInv, Statement
<1>1. txn[w] \in Txn /\ TxnOK(w) /\ txn[w].writes \in Writings
  BY DEF Txn
<1> DEFINE new == With(txn[w].writes, row, value)
<1>2. /\ new \in Writings /\ DOMAIN new = DOMAIN txn[w].writes \union {row}
      /\ new[row] = value
      /\ \A r \in DOMAIN txn[w].writes : r # row => new[r] = txn[w].writes[r]
  <2>1. txn[w].writes \in Writings /\ row \in Rows /\ value \in Value
    BY <1>1
  <2> QED BY ONLY <2>1, WithIs DEF new
<1>3. txn'[w] = [txn[w] EXCEPT !.writes = new, !.todo = work]
  OBVIOUS
<1> HIDE DEF new
<1>4. /\ txn' \in [Writers -> Txn] /\ \A x \in Writers \ {w} : txn'[x] = txn[x]
      /\ txn'[w].xid = txn[w].xid /\ txn'[w].drawn = txn[w].drawn
      /\ txn'[w].writes = new /\ txn'[w].todo = work
  BY <1>1, <1>2, <1>3 DEF Txn
<1>5. txn[w].drawn = 0 /\ txn[w].drawn \in Nat
  BY <1>1 DEF TxnOK, Txn
<1>6. \A x : Numbered(w, x) => Numbered(w, x)'
  <2>1. \A x : ~In(txn[w].todo, x)
    BY InShort
  <2> QED BY <1>2, <1>4, <2>1 DEF Numbered
<1>7. \A x : In(work, x) => Numbered(w, x)'
  BY <1>4 DEF Numbered
<1>8. \A r : Seen(w, r)' = IF r = row THEN value ELSE Seen(w, r)
  BY <1>2, <1>4 DEF Seen
<1>9. \A b \in Books : View(b)' = View(b)
  BY DEF View, Published, InCategory
<1>10. \A b \in Books : ViewSeen(w, b)' # View(b)' => Numbered(w, b)'
  BY <1>1, <1>6, <1>7, <1>9 DEF TxnOK
<1>11. StampOK(w)'
  <2>1. CASE In(work, Category)
    BY <1>7, <2>1 DEF StampOK
  <2>2. CASE Numbered(w, Category)
    BY <1>6, <2>2 DEF StampOK
  <2>3. CASE ~In(work, Category) /\ ~Numbered(w, Category)
    <3>1. PICK b \in Books : row = BookRow(b) /\ In(work, b) /\ (Seen(w, MemberRow(b)) => value # Gone)
      BY <2>3
    <3>2. /\ Seen(w, TitleRow)' = Seen(w, TitleRow)
          /\ \A a \in Books : /\ Seen(w, MemberRow(a))' = Seen(w, MemberRow(a))
                              /\ Seen(w, BookRow(a))' = IF a = b THEN value ELSE Seen(w, BookRow(a))
      BY <1>8, <3>1, RowsDiffer
    <3>3. Seen(w, TitleRow) = db[TitleRow] /\
          \A a \in Books :
            /\ Seen(w, MemberRow(a)) = db[MemberRow(a)]
            /\ Seen(w, MemberRow(a)) /\ Seen(w, BookRow(a)) # db[BookRow(a)] =>
                    Seen(w, BookRow(a)) # Gone /\ Numbered(w, a)
      BY <1>1, <2>3 DEF TxnOK, StampOK
    <3>4. ASSUME NEW a \in Books, Seen(w, MemberRow(a))', Seen(w, BookRow(a))' # db[BookRow(a)]'
          PROVE  Seen(w, BookRow(a))' # Gone /\ Numbered(w, a)'
      <4>1. CASE a = b
        BY <1>7, <3>1, <3>2, <3>4, <4>1
      <4>2. CASE a # b
        BY <1>6, <3>2, <3>3, <3>4, <4>2
      <4> QED BY <4>1, <4>2
    <3> QED BY <3>2, <3>3, <3>4 DEF StampOK
  <2> QED BY <2>1, <2>2, <2>3
<1>12. \A r \in NumberRows : r \in DOMAIN new => r \in DOMAIN txn[w].writes /\ new[r] = txn[w].writes[r]
  BY <1>2
<1>13. TxnOK(w)'
  BY <1>1, <1>4, <1>5, <1>10, <1>11, <1>12 DEF TxnOK, Running
<1>14. \A n : Ahead(w, n) => Ahead(w, n)'
  BY <1>4, <1>12 DEF Ahead
<1> QED BY <1>4, <1>13, <1>14, OwnStep

(* What a transaction sees after a statement: the row it changed, and the others as before. *)
LEMMA StatementSees ==
    ASSUME WritersInv, NEW w \in Writers, NEW row \in Rows, NEW value \in Value, NEW work,
           Statement(w, row, value, work)
    PROVE  \A r : Seen(w, r)' = IF r = row THEN value ELSE Seen(w, r)
<1>1. txn[w] \in Txn /\ txn[w].writes \in Writings
  BY DEF WritersInv, Txn
<1>2. txn'[w] = [txn[w] EXCEPT !.writes = With(txn[w].writes, row, value), !.todo = work]
  BY DEF Statement, WritersInv
<1>3. txn'[w].writes = With(txn[w].writes, row, value)
  BY <1>1, <1>2 DEF Txn
<1>4. UNCHANGED db
  BY DEF Statement
<1> DEFINE new == With(txn[w].writes, row, value)
<1>5. /\ DOMAIN new = DOMAIN txn[w].writes \union {row} /\ new[row] = value
      /\ \A r \in DOMAIN txn[w].writes : r # row => new[r] = txn[w].writes[r]
  <2>1. txn[w].writes \in Writings /\ row \in Rows /\ value \in Value
    BY <1>1
  <2> QED BY ONLY <2>1, WithIs DEF new
<1> HIDE DEF new
<1>6. txn'[w].writes = new
  BY <1>3 DEF new
<1> QED BY <1>4, <1>5, <1>6 DEF Seen

LEMMA ChangesStep ==
    ASSUME WritersInv, NEW w \in Writers, Changes(w)
    PROVE  WritersInv' /\ Settled \subseteq Settled'
<1> DEFINE Work == Books \union {Category}
<1>1. ASSUME NEW b \in Books, NEW content \in Texts \union {Hidden, Gone}, EditBook(w, b, content)
      PROVE  WritersInv' /\ Settled \subseteq Settled'
  <2> DEFINE work == IF content = Gone /\ Seen(w, MemberRow(b)) THEN <<b, Category>> ELSE <<b>>
  <2>1. Statement(w, BookRow(b), content, work) /\ content \in Value
    BY <1>1 DEF EditBook, Value
  <2>2. /\ <<b>> \in Seq(Work) /\ <<b, Category>> \in Seq(Work)
        /\ In(<<b>>, b) /\ In(<<b, Category>>, b) /\ In(<<b, Category>>, Category)
    BY InShort
  <2>3. /\ work \in Seq(Work) /\ In(work, b)
        /\ In(work, Category) \/ (Seen(w, MemberRow(b)) => content # Gone)
    BY <2>2
  <2> HIDE DEF work
  <2>4. BookRow(b) \in Rows \ NumberRows
    BY RowsDiffer, NumberRowsAre
  <2>5. \A r : Seen(w, r)' = IF r = BookRow(b) THEN content ELSE Seen(w, r)
    BY <2>1, <2>4, StatementSees
  <2>6. \A a \in Books : ViewSeen(w, a)' # ViewSeen(w, a) => a = b
    BY <2>5, RowsDiffer DEF ViewSeen
  <2> QED BY <2>1, <2>3, <2>4, <2>6, StatementStep
<1>2. ASSUME NEW b \in Books, JoinOrLeave(w, b)
      PROVE  WritersInv' /\ Settled \subseteq Settled'
  <2> DEFINE value == ~Seen(w, MemberRow(b))
  <2> DEFINE work == <<Category>> \o BooksOfWork(w, b)
  <2>1. Statement(w, MemberRow(b), value, work) /\ value \in Value
    BY <1>2 DEF JoinOrLeave, Value
  <2>2. /\ <<Category>> \in Seq(Work) /\ BooksOfWork(w, b) \in Seq(Work)
        /\ Seen(w, BookRow(b)) # Gone => In(BooksOfWork(w, b), b)
    <3>1. <<Category>> \in Seq(Work) /\ <<>> \in Seq(Work) /\ <<b>> \in Seq(Work) /\ In(<<b>>, b)
      BY InShort
    <3> QED BY <3>1 DEF BooksOfWork
  <2>3. work \in Seq(Work) /\ In(work, Category) /\ (Seen(w, BookRow(b)) # Gone => In(work, b))
    BY <2>2, InShort, InBoth
  <2> HIDE DEF work, value
  <2>4. MemberRow(b) \in Rows \ NumberRows
    BY RowsDiffer, NumberRowsAre
  <2>5. \A r : Seen(w, r)' = IF r = MemberRow(b) THEN value ELSE Seen(w, r)
    BY <2>1, <2>4, StatementSees
  <2>6. \A a \in Books : ViewSeen(w, a)' # ViewSeen(w, a) => a = b /\ Seen(w, BookRow(b)) # Gone
    BY <2>5, RowsDiffer, CatalogConstants DEF ViewSeen
  <2> QED BY <2>1, <2>3, <2>4, <2>6, StatementStep
<1>3. ASSUME NEW title \in Titles, Retitle(w, title)
      PROVE  WritersInv' /\ Settled \subseteq Settled'
  <2> DEFINE carriers == {b \in Books : /\ Seen(w, MemberRow(b))
                                        /\ Seen(w, BookRow(b)) # Gone}
  <2> DEFINE work == <<Category>> \o SetToSeq(carriers)
  <2>1. Statement(w, TitleRow, title, work) /\ title \in Value
    BY <1>3 DEF Retitle, Value
  <2>2. IsFiniteSet(carriers) /\ carriers \subseteq Work
    BY CatalogConstants, FS_Subset
  <2>3. /\ <<Category>> \in Seq(Work) /\ SetToSeq(carriers) \in Seq(Work)
        /\ \A b \in carriers : In(SetToSeq(carriers), b)
    <3> HIDE DEF carriers
    <3>1. /\ SetToSeq(carriers) \in Seq(carriers) /\ Len(SetToSeq(carriers)) = Cardinality(carriers)
          /\ \A b \in carriers : \E i \in 1 .. Cardinality(carriers) : SetToSeq(carriers)[i] = b
      BY <2>2, SetIsListed
    <3>2. SetToSeq(carriers) \in Seq(Work) /\ \A b \in carriers : In(SetToSeq(carriers), b)
      BY <2>2, <3>1 DEF In
    <3> QED BY <3>2
  <2>4. work \in Seq(Work) /\ In(work, Category) /\ \A b \in carriers : In(work, b)
    BY <2>3, InShort, InBoth
  <2> HIDE DEF work
  <2>5. TitleRow \in Rows \ NumberRows
    BY RowsDiffer, NumberRowsAre
  <2>6. \A r : Seen(w, r)' = IF r = TitleRow THEN title ELSE Seen(w, r)
    BY <2>1, <2>5, StatementSees
  <2>7. \A a \in Books : ViewSeen(w, a)' # ViewSeen(w, a) => a \in carriers
    BY <2>6, RowsDiffer, CatalogConstants DEF ViewSeen
  <2> HIDE DEF carriers
  <2> QED BY <2>1, <2>4, <2>5, <2>7, StatementStep
<1> QED BY <1>1, <1>2, <1>3 DEF Changes

LEMMA DrawsStep ==
    ASSUME WritersInv, NEW w \in Writers, Draws(w)
    PROVE  WritersInv' /\ Settled \subseteq Settled'
<1> USE DEF WritersInv, Draws
<1>1. txn[w] \in Txn /\ TxnOK(w)
  OBVIOUS
<1>2. lastSeq + 1 \in Nat /\ [txn[w] EXCEPT !.drawn = lastSeq + 1] \in Txn
  <2>1. lastSeq + 1 \in Nat
    OBVIOUS
  <2> HIDE DEF WritersInv, Draws
  <2> QED BY <1>1, <2>1 DEF Txn
<1>3. /\ txn' \in [Writers -> Txn] /\ \A x \in Writers \ {w} : txn'[x] = txn[x]
      /\ txn'[w] = [txn[w] EXCEPT !.drawn = lastSeq + 1]
  BY <1>2
<1>4. /\ txn'[w].xid = txn[w].xid /\ txn'[w].drawn = lastSeq + 1
      /\ txn'[w].writes = txn[w].writes /\ txn'[w].todo = txn[w].todo
  BY <1>1, <1>3 DEF Txn
<1>5. \A r : Seen(w, r)' = Seen(w, r)
  BY <1>4 DEF Seen
<1>6. \A b \in Books : ViewSeen(w, b)' = ViewSeen(w, b) /\ View(b)' = View(b)
  BY <1>5 DEF ViewSeen, View, Published, InCategory
<1>7. \A x : Numbered(w, x)' <=> Numbered(w, x)
  BY <1>4 DEF Numbered
<1>8. StampOK(w) => StampOK(w)'
  BY <1>5, <1>7 DEF StampOK
<1>9. Running(w)
  BY <1>1, NothingWritten DEF TxnOK
<1>10. \A row \in NumberRows : row \in DOMAIN txn[w].writes => txn[w].writes[row].seq \in 1 .. lastSeq + 1
  BY <1>1, <1>9 DEF TxnOK
<1>11. TxnOK(w)'
  BY <1>1, <1>4, <1>6, <1>7, <1>8, <1>9, <1>10 DEF TxnOK, Running
<1>12. \A n \in 0 .. lastSeq : Ahead(w, n) => Ahead(w, n)'
  BY <1>4 DEF Ahead
<1> HIDE DEF Draws
<1>13. UNCHANGED <<db, lastXid>> /\ lastSeq' = lastSeq + 1
  BY DEF Draws
<1> QED BY <1>2, <1>3, <1>11, <1>12, <1>13, OwnStep

LEMMA UpsertStep ==
    ASSUME WritersInv, NEW w \in Writers, Upsert(w)
    PROVE  WritersInv' /\ Settled \subseteq Settled'
<1> USE DEF WritersInv, Upsert
<1> DEFINE x == Head(txn[w].todo)
<1> DEFINE number == [seq |-> txn[w].drawn, xid |-> txn[w].xid, old |-> FALSE]
<1> DEFINE new == With(txn[w].writes, NumberRow(x), number)
<1>1. txn[w] \in Txn /\ TxnOK(w)
  OBVIOUS
<1>2. Running(w) /\ txn[w].todo # <<>> /\ txn[w].drawn # 0 /\ txn[w].drawn \in 1 .. lastSeq
  BY <1>1, NothingWritten DEF TxnOK, Txn
<1>3. /\ x \in Books \union {Category} /\ Tail(txn[w].todo) \in Seq(Books \union {Category})
      /\ \A y : In(txn[w].todo, y) => y = x \/ In(Tail(txn[w].todo), y)
  BY <1>1, <1>2, InParts DEF Txn
<1>4. NumberedRow(w) = NumberRow(x) /\ NumberRow(x) \in NumberRows /\ NumberRow(x) \in Rows
  BY <1>3, NumberRowsAre DEF NumberedRow, NumberRow
<1>5. number \in Number /\ number \in Value /\ txn[w].writes \in Writings
  BY <1>1 DEF Txn, Number, Value
<1>6. /\ new \in Writings /\ DOMAIN new = DOMAIN txn[w].writes \union {NumberRow(x)}
      /\ new[NumberRow(x)] = number
      /\ \A r \in DOMAIN txn[w].writes : r # NumberRow(x) => new[r] = txn[w].writes[r]
  <2> HIDE DEF WritersInv, Upsert, x, number
  <2> QED BY <1>4, <1>5, WithIs
<1>7. txn'[w] = [txn[w] EXCEPT !.writes = new, !.todo = Tail(txn[w].todo), !.drawn = 0]
  BY <1>4
<1>8. number.seq = txn[w].drawn /\ number.xid = txn[w].xid
  OBVIOUS
<1> HIDE DEF new, number, x
<1>9. /\ txn' \in [Writers -> Txn] /\ \A y \in Writers \ {w} : txn'[y] = txn[y]
      /\ txn'[w].xid = txn[w].xid /\ txn'[w].drawn = 0
      /\ txn'[w].writes = new /\ txn'[w].todo = Tail(txn[w].todo)
  BY <1>1, <1>3, <1>6, <1>7 DEF Txn
<1>10. \A r : r \notin NumberRows => Seen(w, r)' = Seen(w, r)
  BY <1>4, <1>6, <1>9 DEF Seen
<1>11. \A b \in Books : ViewSeen(w, b)' = ViewSeen(w, b) /\ View(b)' = View(b)
  BY <1>10, NumberRowsAre DEF ViewSeen, View, Published, InCategory
<1>12. \A y : Numbered(w, y) => Numbered(w, y)'
  BY <1>3, <1>6, <1>9 DEF Numbered
<1>13. StampOK(w) => StampOK(w)'
  BY <1>10, <1>12, NumberRowsAre DEF StampOK
<1>14. \A r \in NumberRows : r \in DOMAIN new =>
            /\ new[r] \in Number /\ new[r].seq \in 1 .. lastSeq /\ new[r].xid = txn[w].xid
  BY <1>1, <1>2, <1>5, <1>6, <1>8 DEF TxnOK
<1>15. TxnOK(w)'
  BY <1>1, <1>2, <1>9, <1>11, <1>12, <1>13, <1>14 DEF TxnOK, Running
<1>16. \A n : Ahead(w, n) => Ahead(w, n)'
  BY <1>2, <1>6, <1>8, <1>9 DEF Ahead
<1> QED BY <1>9, <1>15, <1>16, OwnStep

LEMMA RollbackStep ==
    ASSUME WritersInv, NEW w \in Writers, Rollback(w)
    PROVE  WritersInv' /\ Settled \subseteq Settled'
<1>1. /\ txn' \in [Writers -> Txn] /\ \A x \in Writers \ {w} : txn'[x] = txn[x]
      /\ txn'[w] = NoTxn /\ UNCHANGED <<db, lastSeq, lastXid>> /\ lastSeq \in Nat /\ lastXid \in Nat
  BY NothingWritten DEF WritersInv, Rollback
<1> QED BY <1>1, OwnStep, RestingStays

-----------------------------------------------------------------------------
(* Commits, and what they leave of the numbers.                            *)

NumberOf(b) == db[ChangeRow(b)].seq

\* A step leaves a book and its number alone, or gives it a number ahead of every settled one.
NumbersGoAhead ==
    \A b \in Books : \/ NumberOf(b)' = NumberOf(b) /\ View(b)' = View(b)
                     \/ NumberOf(b)' # 0 /\ \A n \in Settled : NumberOf(b)' > n

(* Numbers are numbers. *)
LEMMA SettledNumbers ==
    ASSUME WritersInv
    PROVE  /\ Settled \subseteq Nat /\ 0 \in Settled /\ \A n \in Settled : n <= lastSeq
           /\ \A b \in Books : NumberOf(b) \in Settled /\ db[ChangeRow(b)] \in Number
           /\ SUBSET Settled \subseteq SUBSET Nat
<1> USE DEF WritersInv
<1>1. Settled \subseteq Nat /\ \A n \in Settled : n <= lastSeq
  BY DEF Settled
<1>2. ASSUME NEW w \in Writers PROVE Ahead(w, 0)
  <2>1. CASE ~Running(w)
    BY <2>1, RestingIsOK DEF TxnOK
  <2>2. CASE Running(w)
    <3>1. txn[w].drawn \in Nat
      BY DEF Txn
    <3>2. \A row \in NumberRows : row \in DOMAIN txn[w].writes => txn[w].writes[row].seq \in 1 .. lastSeq
      BY <2>2 DEF TxnOK
    <3> QED BY <3>1, <3>2 DEF Ahead
  <2> QED BY <2>1, <2>2
<1>3. 0 \in Settled
  BY <1>2 DEF Settled
<1>4. \A b \in Books : NumberOf(b) \in Settled /\ db[ChangeRow(b)] \in Number
  BY NumberRowsAre DEF NumberOf
<1> QED BY <1>1, <1>3, <1>4

LEMMA CommitStep ==
    ASSUME WritersInv, TakeTurns, NEW w \in Writers, Commit(w)
    PROVE  WritersInv' /\ Settled \subseteq Settled' /\ NumbersGoAhead
<1> USE DEF WritersInv
<1>1. txn[w] \in Txn /\ TxnOK(w) /\ Running(w) /\ txn[w].todo = <<>>
  BY DEF Commit
<1>2. txn' \in [Writers -> Txn] /\ \A x \in Writers : txn'[x] = NoTxn
  <2>1. \A x \in Writers \ {w} : txn[x] = NoTxn
    BY <1>1 DEF TakeTurns, TxnOK
  <2> QED BY <2>1, NothingWritten DEF Commit
<1>3. lastSeq' = lastSeq /\ lastXid' = lastXid /\ db' = [row \in Rows |-> Seen(w, row)]
  BY DEF Commit
<1>4. \A x \in Writers : TxnOK(x)' /\ (\A n : Ahead(x, n)')
  BY <1>2, RestingStays
<1>5. Settled \subseteq 0 .. lastSeq /\ Settled' = 0 .. lastSeq
  BY <1>3, <1>4 DEF Settled
<1>6. txn[w].writes \in Writings /\ \A row \in DOMAIN txn[w].writes : txn[w].writes[row] \in Value
  BY <1>1 DEF Txn, Writings
<1>7. db' \in [Rows -> Value]
  BY <1>3, <1>6 DEF Seen
<1>8. \A row \in NumberRows : IF row \in DOMAIN txn[w].writes
            THEN /\ db[row]' = txn[w].writes[row] /\ db[row]' \in Number
                 /\ db[row]'.seq \in 1 .. lastSeq /\ db[row]'.xid = txn[w].xid
                 /\ \A n \in Settled : db[row]'.seq > n
            ELSE db[row]' = db[row]
  <2> TAKE row \in NumberRows
  <2>1. db[row]' = Seen(w, row)
    BY <1>3, NumberRowsAre
  <2>2. CASE row \in DOMAIN txn[w].writes
    <3>1. db[row]' = txn[w].writes[row]
      BY <2>1, <2>2 DEF Seen
    <3>2. \A n \in Settled : Ahead(w, n)
      BY DEF Settled
    <3> QED BY <1>1, <2>2, <3>1, <3>2 DEF TxnOK, Ahead
  <2>3. CASE row \notin DOMAIN txn[w].writes
    BY <2>1, <2>3 DEF Seen
  <2> QED BY <2>2, <2>3
<1>9. \A row \in NumberRows : db[row]' \in Number /\ db[row]'.seq \in Settled' /\ db[row]'.xid <= lastXid'
  <2> TAKE row \in NumberRows
  <2>1. /\ db[row] \in Number /\ db[row].seq \in 0 .. lastSeq /\ db[row].xid <= lastXid
        /\ txn[w].xid <= lastXid
    BY <1>1, <1>5 DEF TxnOK
  <2>2. CASE row \in DOMAIN txn[w].writes
    <3>1. db[row]' \in Number /\ db[row]'.seq \in 1 .. lastSeq /\ db[row]'.xid = txn[w].xid
      BY <1>8, <2>2
    <3> QED BY <1>3, <1>5, <2>1, <3>1
  <2>3. CASE row \notin DOMAIN txn[w].writes
    BY <1>3, <1>5, <1>8, <2>1, <2>3
  <2> QED BY <2>2, <2>3
<1>10. \A b \in Books : View(b)' = ViewSeen(w, b)
  BY <1>3, RowsDiffer DEF View, ViewSeen, Published, InCategory
<1>11. NumbersGoAhead
  <2> SUFFICES ASSUME NEW b \in Books
               PROVE  \/ NumberOf(b)' = NumberOf(b) /\ View(b)' = View(b)
                      \/ NumberOf(b)' # 0 /\ \A n \in Settled : NumberOf(b)' > n
    BY DEF NumbersGoAhead
  <2>1. ChangeRow(b) \in NumberRows /\ NumberRow(b) = ChangeRow(b)
    BY NumberRowsAre
  <2>2. CASE ChangeRow(b) \in DOMAIN txn[w].writes
    <3>1. /\ db[ChangeRow(b)]'.seq \in 1 .. lastSeq
          /\ \A n \in Settled : db[ChangeRow(b)]'.seq > n
      BY <1>8, <2>1, <2>2
    <3> QED BY <3>1 DEF NumberOf
  <2>3. CASE ChangeRow(b) \notin DOMAIN txn[w].writes
    <3>1. NumberOf(b)' = NumberOf(b)
      BY <1>8, <2>1, <2>3 DEF NumberOf
    <3>2. ~Numbered(w, b)
      BY <1>1, <2>1, <2>3, InShort DEF Numbered
    <3> QED BY <1>1, <1>10, <3>1, <3>2 DEF TxnOK
  <2> QED BY <2>2, <2>3
<1>12. \A b \in Books : NumberOf(b)' = 0 => View(b)' = Gone
  <2> TAKE b \in Books
  <2>1. NumberOf(b) = 0 => View(b) = Gone
    BY DEF NumberOf
  <2> QED BY <1>11, <2>1 DEF NumbersGoAhead
<1> QED BY <1>2, <1>3, <1>4, <1>5, <1>7, <1>9, <1>11, <1>12 DEF NumberOf

(* Every step of a writer. *)
LEMMA WriterStepOK ==
    ASSUME WritersInv, TakeTurns, NEW w \in Writers, WriterStep(w)
    PROVE  WritersInv' /\ Settled \subseteq Settled' /\ NumbersGoAhead
<1>1. CASE Commit(w)
  BY <1>1, CommitStep
<1>2. CASE ~Commit(w)
  <2>1. WritersInv' /\ Settled \subseteq Settled'
    BY <1>2, StartsStep, ChangesStep, DrawsStep, UpsertStep, RollbackStep DEF WriterStep
  <2>2. UNCHANGED db
    BY <1>2 DEF WriterStep, Starts, Changes, EditBook, JoinOrLeave, Retitle, Statement, Draws, Upsert, Rollback
  <2>3. \A b \in Books : NumberOf(b)' = NumberOf(b) /\ View(b)' = View(b)
    BY <2>2 DEF NumberOf, View, Published, InCategory
  <2> QED BY <2>1, <2>3 DEF NumbersGoAhead
<1> QED BY <1>1, <1>2

(* Writers who rest, and books as they are: other rows may change. *)
LEMMA RowsStep ==
    ASSUME WritersInv, UNCHANGED <<txn, lastSeq, lastXid>>, db' \in [Rows -> Value],
           \A row \in Rows \ NumberRows : db'[row] = db[row],
           \A row \in NumberRows :
                db'[row] \in Number /\ db'[row].seq \in Settled /\ db'[row].xid <= db[row].xid,
           \A b \in Books : NumberOf(b)' = 0 => View(b) = Gone
    PROVE  WritersInv' /\ Settled' = Settled /\ \A b \in Books : View(b)' = View(b)
<1> USE DEF WritersInv
<1>1. \A b \in Books : View(b)' = View(b) /\ \A w \in Writers : ViewSeen(w, b)' = ViewSeen(w, b)
  BY RowsDiffer, NumberRowsAre DEF View, ViewSeen, Seen, Published, InCategory
<1>2. \A w \in Writers : \A n : Ahead(w, n)' <=> Ahead(w, n)
  BY DEF Ahead
<1>3. Settled' = Settled
  BY <1>2 DEF Settled
<1>4. ASSUME NEW w \in Writers PROVE TxnOK(w)'
  <2>1. txn'[w] = txn[w] /\ txn[w] \in Txn
    OBVIOUS
  <2>2. \A x : Numbered(w, x)' <=> Numbered(w, x)
    BY DEF Numbered
  <2>3. StampOK(w) => StampOK(w)'
    BY <2>2, RowsDiffer, NumberRowsAre DEF StampOK, Seen
  <2>4. ASSUME Running(w), NEW row \in NumberRows PROVE db'[row].xid < txn[w].xid
    <3>1. db[row].xid \in Nat /\ db'[row].xid \in Nat /\ txn[w].xid \in Nat /\ db[row].xid < txn[w].xid
      BY <2>1, <2>4 DEF Number, Txn, TxnOK
    <3> QED BY <3>1
  <2> QED BY <1>1, <2>1, <2>2, <2>3, <2>4 DEF TxnOK, Running
<1>5. \A row \in NumberRows : db'[row].xid <= lastXid
  <2> TAKE row \in NumberRows
  <2>1. db[row].xid \in Nat /\ db'[row].xid \in Nat /\ db[row].xid <= lastXid
    BY DEF Number
  <2> QED BY <2>1
<1> QED BY <1>1, <1>3, <1>4, <1>5 DEF NumberOf

LEMMA AgeStep ==
    ASSUME WritersInv, Age
    PROVE  /\ WritersInv' /\ Settled' = Settled
           /\ \A b \in Books : View(b)' = View(b) /\ NumberOf(b)' = NumberOf(b)
<1> USE DEF WritersInv
<1>1. UNCHANGED <<txn, lastSeq, lastXid>> /\ \A row \in Rows : db'[row] = Aged(row)
  BY DEF Age
<1>2. ASSUME NEW row \in NumberRows
      PROVE  /\ db'[row] \in Number /\ db'[row].seq = db[row].seq
             /\ db'[row].xid = db[row].xid
  <2>1. row \in Rows /\ db[row] \in Number
    BY NumberRowsAre
  <2> QED BY <1>1, <2>1 DEF Aged, Number
<1>3. \A row \in Rows \ NumberRows : db'[row] = db[row]
  BY <1>1, ChangesAreNumberRows DEF Aged
<1>4. db' \in [Rows -> Value]
  <2>1. \A row \in Rows : db'[row] \in Value
    BY <1>2, <1>3 DEF Value
  <2>2. db' = [row \in Rows |-> Aged(row)]
    BY DEF Age
  <2> QED BY <1>1, <2>1, <2>2
<1>5. \A b \in Books : NumberOf(b)' = NumberOf(b)
  BY <1>2, NumberRowsAre DEF NumberOf
<1>6. \A row \in NumberRows : db'[row].seq \in Settled /\ db'[row].xid <= db[row].xid
  <2> TAKE row \in NumberRows
  <2>1. db[row].xid \in Nat
    BY DEF Number
  <2> QED BY <1>2, <2>1
<1>7. \A b \in Books : NumberOf(b)' = 0 => View(b) = Gone
  BY <1>5 DEF NumberOf
<1> QED BY <1>1, <1>2, <1>3, <1>4, <1>5, <1>6, <1>7, RowsStep

LEMMA ForgetStep ==
    ASSUME WritersInv, NEW books \in SUBSET Forgettable, Forget(books)
    PROVE  /\ WritersInv' /\ Settled' = Settled
           /\ \A b \in Books : View(b)' = View(b)
           /\ \A b \in Books : IF b \in books THEN NumberOf(b)' = 0 /\ View(b) = Gone
                                              ELSE NumberOf(b)' = NumberOf(b)
<1> USE DEF WritersInv
<1>1. /\ UNCHANGED <<txn, lastSeq, lastXid>>
      /\ db' = [row \in Rows |-> IF row[1] = "change" /\ row[2] \in books THEN NoNumber ELSE db[row]]
  BY DEF Forget
<1>2. NoNumber \in Number /\ NoNumber.seq = 0 /\ NoNumber.xid = 0 /\ NoNumber \in Value
  BY DEF NoNumber, Number, Value
<1>3. \A b \in Books : NumberOf(b)' = IF b \in books THEN 0 ELSE NumberOf(b)
  BY <1>1, <1>2, RowsDiffer DEF NumberOf, ChangeRow
<1>4. \A b \in books : View(b) = Gone
  BY DEF Forgettable, View
<1>5. ASSUME NEW row \in NumberRows
      PROVE  db'[row] \in Number /\ db'[row].seq \in Settled /\ db'[row].xid <= db[row].xid
  <2>1. row \in Rows /\ db[row] \in Number /\ db[row].xid \in Nat /\ 0 \in Settled
    BY NumberRowsAre, SettledNumbers DEF Number
  <2> QED BY <1>1, <1>2, <2>1
<1>6. \A row \in Rows \ NumberRows : db'[row] = db[row]
  BY <1>1, ChangesAreNumberRows
<1>7. db' \in [Rows -> Value]
  BY <1>1, <1>2
<1>8. \A b \in Books : NumberOf(b)' = 0 => View(b) = Gone
  BY <1>3, <1>4 DEF NumberOf
<1> QED BY <1>1, <1>3, <1>4, <1>5, <1>6, <1>7, <1>8, RowsStep

-----------------------------------------------------------------------------
(* The first state, and the two scenes' writers.                           *)

SeedNumberOf(S, b) ==
    LET order == SetToSeq(S)
    IN IF b \in S
       THEN [seq |-> CHOOSE i \in 1..Len(order) : order[i] = b, xid |-> 1, old |-> FALSE]
       ELSE NoNumber

(* The migration has numbered the books in S. *)
LEMMA MigrationIsOK ==
    ASSUME NEW S \in SUBSET Books, NEW text \in Texts, NEW title \in Titles,
           db = [row \in Rows |->
                    IF row[1] = "book" THEN IF row[2] \in S THEN text ELSE Gone
                    ELSE IF row[1] = "member" THEN row[2] \in S
                    ELSE IF row[1] = "title" THEN title
                    ELSE IF row[1] = "stamp" THEN NoNumber
                    ELSE SeedNumberOf(S, row[2])],
           txn = [w \in Writers |-> NoTxn], lastSeq = Cardinality(S), lastXid = 1
    PROVE  WritersInv
<1>1. IsFiniteSet(S) /\ lastSeq \in Nat
  BY CatalogConstants, FS_Subset, FS_CardinalityType
<1>2. NoNumber \in Number /\ NoNumber.seq = 0 /\ NoNumber.xid = 0
  BY DEF NoNumber, Number
<1>3. ASSUME NEW b
      PROVE  /\ SeedNumberOf(S, b) \in Number /\ SeedNumberOf(S, b).seq \in 0 .. lastSeq
             /\ SeedNumberOf(S, b).xid <= 1
             /\ b \in S => SeedNumberOf(S, b).seq # 0
  <2> DEFINE place == CHOOSE i \in 1 .. Len(SetToSeq(S)) : SetToSeq(S)[i] = b
  <2>1. CASE b \in S
    <3>1. Len(SetToSeq(S)) = lastSeq /\ \E i \in 1 .. lastSeq : SetToSeq(S)[i] = b
      BY <1>1, <2>1, SetIsListed
    <3>2. place \in 1 .. lastSeq
      BY <3>1
    <3>3. SeedNumberOf(S, b) = [seq |-> place, xid |-> 1, old |-> FALSE]
      BY <2>1 DEF SeedNumberOf
    <3> HIDE DEF place
    <3> QED BY <1>1, <3>2, <3>3 DEF Number
  <2>2. CASE b \notin S
    BY <1>1, <1>2, <2>2 DEF SeedNumberOf
  <2> QED BY <2>1, <2>2
<1>4. \A row \in NumberRows : \/ db[row] = NoNumber
                              \/ \E b : db[row] = SeedNumberOf(S, b)
  BY NumberRowsAre DEF NumberRows, NumberRow, StampRow, ChangeRow
<1>5. ASSUME NEW row \in NumberRows
      PROVE  db[row] \in Number /\ db[row].seq \in 0 .. lastSeq /\ db[row].xid <= lastXid
  BY <1>1, <1>2, <1>3, <1>4
<1>6. db \in [Rows -> Value]
  <2>1. \A row \in Rows : db[row] \in Value
    BY <1>2, <1>3 DEF Value
  <2> QED BY <2>1
<1>7. txn \in [Writers -> Txn] /\ \A w \in Writers : TxnOK(w) /\ \A n : Ahead(w, n)
  BY NothingWritten, RestingIsOK
<1>8. Settled = 0 .. lastSeq
  BY <1>7 DEF Settled
<1>9. ASSUME NEW b \in Books, db[ChangeRow(b)].seq = 0 PROVE View(b) = Gone
  <2>1. db[ChangeRow(b)] = SeedNumberOf(S, b)
    BY RowsDiffer DEF ChangeRow
  <2>2. b \notin S
    BY <1>3, <1>9, <2>1
  <2>3. db[BookRow(b)] = Gone
    BY <2>2, RowsDiffer DEF BookRow
  <2> QED BY <2>3, CatalogConstants DEF View, Published
<1> QED BY <1>1, <1>5, <1>6, <1>7, <1>8, <1>9 DEF WritersInv

(* The operators on sets and sequences are the same in both scenes. *)
LEMMA SameOperators ==
    \A S : Shelves!SetToSeq(S) = SetToSeq(S) /\ Shelves!Cardinality(S) = Cardinality(S)
<1>1. \A S : Shelves!Cardinality(S) = Cardinality(S)
  BY DEF Shelves!Cardinality, Cardinality
<1>2. \A f : Shelves!IsInjective(f) <=> IsInjective(f)
  BY DEF Shelves!IsInjective, IsInjective
<1> QED BY <1>1, <1>2 DEF Shelves!SetToSeq, SetToSeq

LEMMA FirstIsOK ==
    /\ WritesInit => WritersInv
    /\ Shelves!WritesInit => WritersInv
<1>1. ASSUME WritesInit PROVE WritersInv
  <2>1. \A b : SeedNumber(b) = SeedNumberOf(Seeded, b)
    BY DEF SeedNumber, SeedNumberOf
  <2>2. Seeded \in SUBSET Books
    BY CatalogConstants
  <2> QED BY <1>1, <2>1, <2>2, MigrationIsOK DEF WritesInit
<1>2. ASSUME Shelves!WritesInit PROVE WritersInv
  <2>0. \A S : Shelves!SetToSeq(S) = SetToSeq(S) /\ Shelves!Cardinality(S) = Cardinality(S)
    BY SameOperators
  <2>1. \A b : Shelves!SeedNumber(b) = SeedNumberOf(Books, b)
    BY <2>0 DEF Shelves!SeedNumber, SeedNumberOf, Shelves!NoNumber, NoNumber
  <2> QED BY <1>2, <2>0, <2>1, MigrationIsOK
          DEF Shelves!WritesInit, Shelves!Rows, Rows, Shelves!TitleRow, TitleRow, Shelves!StampRow, StampRow,
              Shelves!NoNumber, NoNumber, Shelves!NoTxn, NoTxn
<1> QED BY <1>1, <1>2

(* The writers of both scenes take the writers' steps. *)
LEMMA WritesAreSteps ==
    ASSUME NEW w \in Writers
    PROVE  /\ Write(w) => WriterStep(w)
           /\ Shelves!Write(w) => WriterStep(w)
<1>1. Movable \subseteq Books
  BY CatalogConstants
<1>2. Write(w) => WriterStep(w)
  BY <1>1 DEF Write, WriterStep, Begin, Starts, Changes, Draw, Draws
<1>3. /\ Shelves!Begin(w) => Starts(w)
      /\ Shelves!Draw(w) => Draws(w)
      /\ Shelves!Rollback(w) => Rollback(w)
  BY DEF Shelves!Begin, Starts, Shelves!Running, Running, Shelves!Draw, Draws, Shelves!Rollback, Rollback,
         Shelves!NoTxn, NoTxn
<1>4. \A row : /\ Shelves!Seen(w, row) = Seen(w, row)
               /\ Shelves!LockFree(w, row) <=> LockFree(w, row)
  BY DEF Shelves!Seen, Seen, Shelves!LockFree, LockFree
<1>5. Shelves!Commit(w) => Commit(w)
  BY <1>4 DEF Shelves!Commit, Commit, Shelves!Running, Running, Shelves!NoTxn, NoTxn, Shelves!Rows, Rows,
      Shelves!TitleRow, TitleRow, Shelves!StampRow, StampRow
<1>6. \A f, row, value : Shelves!With(f, row, value) = With(f, row, value)
  BY DEF Shelves!With, With
<1>7. Shelves!Upsert(w) => Upsert(w)
  BY <1>4, <1>6 DEF Shelves!Upsert, Upsert, Shelves!NumberedRow, NumberedRow, Shelves!Category, Category,
      Shelves!StampRow, StampRow, Shelves!ChangeRow, ChangeRow
<1>8. \A row, value, work : Shelves!Statement(w, row, value, work) => Statement(w, row, value, work)
  BY <1>4, <1>6 DEF Shelves!Statement, Statement, Shelves!Running, Running
<1>9. \A b : /\ Shelves!BookRow(b) = BookRow(b) /\ Shelves!MemberRow(b) = MemberRow(b)
             /\ Shelves!BooksOfWork(w, b) = BooksOfWork(w, b)
  BY <1>4 DEF Shelves!BookRow, BookRow, Shelves!MemberRow, MemberRow, Shelves!BooksOfWork, BooksOfWork
<1>10. Shelves!TitleRow = TitleRow /\ Shelves!Category = Category
  BY DEF Shelves!TitleRow, TitleRow, Shelves!Category, Category
<1>11. \A b, content : Shelves!EditBook(w, b, content) => EditBook(w, b, content)
  BY <1>4, <1>8, <1>9, <1>10 DEF Shelves!EditBook, EditBook
<1>12. \A b : Shelves!JoinOrLeave(w, b) => JoinOrLeave(w, b)
  BY <1>4, <1>8, <1>9, <1>10 DEF Shelves!JoinOrLeave, JoinOrLeave
<1>13. \A title : Shelves!Retitle(w, title) => Retitle(w, title)
  BY <1>4, <1>8, <1>9, <1>10, SameOperators DEF Shelves!Retitle, Retitle
<1>14. Shelves!Write(w) => WriterStep(w)
  BY <1>1, <1>3, <1>5, <1>7, <1>11, <1>12, <1>13 DEF Shelves!Write, WriterStep, Changes
<1> QED BY <1>2, <1>14

(* What commits is what every later reader is served. *)
LEMMA AllServed ==
    ASSUME WritersInv
    PROVE  \A row \in NumberRows : Served(row) <=> db[row].seq # 0
<1> USE DEF WritersInv
<1> DEFINE xids == {lastXid + 1} \union {txn[w].xid : w \in {v \in Writers : Running(v)}}
<1>1. xids \in SUBSET Nat /\ xids # {}
  BY DEF Txn
<1>2. \A row \in NumberRows : \A x \in xids : db[row].xid < x
  <2> TAKE row \in NumberRows
  <2>1. db[row].xid \in Nat /\ db[row].xid < lastXid + 1
    BY DEF Number
  <2> QED BY <2>1 DEF TxnOK
<1>3. Horizon \in xids
  BY <1>1, LeastIsThere DEF Horizon
<1> QED BY <1>2, <1>3 DEF Served

-----------------------------------------------------------------------------
(* The clients of the change feed.                                         *)

ClientsOK ==
    /\ stage \in [Clients -> Stages] /\ cursor \in [Clients -> Settled] /\ current \in [Clients -> Settled]
    /\ page \in [Clients -> SUBSET (Books \X Settled)] /\ DOMAIN copy = Clients /\ floor \in Nat
    /\ \A c \in Clients : stage[c] # "books" => page[c] = {}

InPage(c, b) == \E p \in page[c] : p[1] = b

\* The cursor of c, or the one its answer will bring it, passes the number n.
Passes(c, n) == n <= cursor[c] \/ \E p \in page[c] : n <= p[2]

\* Whose number is passed is shown as it is, or comes with the answer.
PassedIsShown ==
    \A c \in Clients, b \in Books :
        stage[c] # "reload" /\ NumberOf(b) # 0 /\ Passes(c, NumberOf(b)) =>
            copy[c][b] = View(b) \/ InPage(c, b)

FeedInv == WritersInv /\ ClientsOK /\ PassedIsShown

(* What the writers and time do to the clients: nothing, as long as numbers go ahead. *)
LEMMA ClientsRest ==
    ASSUME FeedInv, WritersInv', Settled \subseteq Settled', NumbersGoAhead,
           UNCHANGED <<floor, request>>
    PROVE  FeedInv'
<1> USE DEF FeedInv, request
<1>1. ClientsOK'
  <2>1. SUBSET (Books \X Settled) \subseteq SUBSET (Books \X Settled')
    OBVIOUS
  <2> QED BY <2>1 DEF ClientsOK
<1>2. PassedIsShown'
  <2> SUFFICES ASSUME NEW c \in Clients, NEW b \in Books,
                      stage[c] # "reload", NumberOf(b)' # 0, Passes(c, NumberOf(b))'
               PROVE  copy[c][b] = View(b)' \/ InPage(c, b)
    BY DEF PassedIsShown, InPage
  <2>1. CASE NumberOf(b)' = NumberOf(b) /\ View(b)' = View(b)
    BY <2>1 DEF PassedIsShown, Passes
  <2>2. CASE \A n \in Settled : NumberOf(b)' > n
    <3>1. cursor[c] \in Settled /\ \A p \in page[c] : p[2] \in Settled
      BY DEF ClientsOK
    <3>2. Settled \subseteq Nat
      BY SettledNumbers
    <3>3. db'[ChangeRow(b)] \in Number
      BY NumberRowsAre DEF WritersInv
    <3>4. NumberOf(b)' \in Nat
      BY <3>3 DEF NumberOf, Number
    <3> DEFINE number == NumberOf(b)'
    <3>5. ASSUME NEW n \in Settled PROVE ~(number <= n)
      <4>1. number > n /\ number \in Nat /\ n \in Nat
        BY <2>2, <3>2, <3>4
      <4> HIDE DEF number
      <4> QED BY <4>1
    <3> HIDE DEF number
    <3>6. ~(number <= cursor[c]) /\ \A p \in page[c] : ~(number <= p[2])
      BY <3>1, <3>5
    <3> USE DEF number
    <3>7. cursor' = cursor /\ page' = page
      OBVIOUS
    <3> QED BY <3>6, <3>7 DEF Passes
  <2> QED BY <2>1, <2>2 DEF NumbersGoAhead
<1> QED BY <1>1, <1>2

(* The number the feed is at, and where a purge raises the floor to. *)
LEMMA LatestIsSettled ==
    ASSUME WritersInv
    PROVE  LatestSeq \in Settled
<1> DEFINE numbers == {0} \union {db[ChangeRow(b)].seq : b \in ChangesServed}
<1>1. numbers \subseteq Settled /\ Settled \subseteq Nat /\ \A n \in Settled : n <= lastSeq
  BY SettledNumbers DEF NumberOf, ChangesServed
<1>2. numbers \in SUBSET Nat /\ numbers # {} /\ lastSeq \in Nat /\ \A n \in numbers : n <= lastSeq
  BY <1>1 DEF WritersInv
<1>3. Max(numbers) \in numbers
  <2> HIDE DEF numbers
  <2> QED BY <1>2, GreatestIsThere
<1> QED BY <1>1, <1>3 DEF LatestSeq

LEMMA RaisedFloorIs ==
    ASSUME WritersInv, floor \in Nat, NEW books \in SUBSET Books
    PROVE  /\ RaisedFloor(books) \in Nat /\ RaisedFloor(books) >= floor
           /\ \A b \in books : RaisedFloor(books) >= NumberOf(b)
<1> DEFINE numbers == {floor} \union {db[ChangeRow(b)].seq : b \in books}
<1>1. lastSeq \in Nat /\ \A b \in Books : NumberOf(b) \in Nat /\ NumberOf(b) <= lastSeq
  BY SettledNumbers DEF WritersInv
<1>2. numbers \in SUBSET Nat /\ numbers # {} /\ floor + lastSeq \in Nat
  BY <1>1 DEF NumberOf
<1>3. \A n \in numbers : n <= floor + lastSeq
  BY <1>1 DEF NumberOf
<1>4. Max(numbers) \in numbers /\ \A n \in numbers : n <= Max(numbers)
  <2> HIDE DEF numbers
  <2> QED BY <1>2, <1>3, GreatestIsThere
<1>5. floor \in numbers /\ \A b \in books : NumberOf(b) \in numbers
  BY DEF NumberOf
<1>6. RaisedFloor(books) = Max(numbers)
  BY DEF RaisedFloor
<1> HIDE DEF numbers
<1> QED BY <1>1, <1>2, <1>4, <1>5, <1>6

(* The changes of a page begin where the cursor is: every number up to one in the page is
   in it. *)
LEMMA PageHasAllBefore ==
    ASSUME WritersInv, NEW c \in Clients, cursor[c] \in Settled, NEW a \in NewChanges(c), NEW b \in Books,
           NumberOf(b) # 0, NumberOf(b) > cursor[c], NumberOf(b) <= NumberOf(a)
    PROVE  b \in NewChanges(c)
<1> DEFINE after == {x \in ChangesServed : db[ChangeRow(x)].seq > cursor[c]}
<1> DEFINE upTo(x) == {y \in after : db[ChangeRow(y)].seq <= db[ChangeRow(x)].seq}
<1>1. b \in after /\ after \subseteq Books /\ a \in after /\ a \in Books
  BY AllServed, NumberRowsAre DEF ChangesServed, NumberOf, NewChanges
<1>2. \A x \in Books : db[ChangeRow(x)].seq \in Nat
  BY SettledNumbers DEF NumberOf
<1>3. upTo(b) \subseteq upTo(a)
  <2> SUFFICES ASSUME NEW y \in after, db[ChangeRow(y)].seq <= db[ChangeRow(b)].seq
               PROVE  db[ChangeRow(y)].seq <= db[ChangeRow(a)].seq
    OBVIOUS
  <2> HIDE DEF after
  <2> QED BY <1>1, <1>2 DEF NumberOf
<1>4. IsFiniteSet(upTo(a))
  BY <1>1, CatalogConstants, FS_Subset
<1>5. Cardinality(upTo(b)) <= Cardinality(upTo(a)) /\ Cardinality(upTo(b)) \in Nat
      /\ Cardinality(upTo(a)) \in Nat
  <2> HIDE DEF upTo
  <2>1. IsFiniteSet(upTo(b))
    BY <1>3, <1>4, FS_Subset
  <2> QED BY <1>3, <1>4, <2>1, FS_Subset, FS_CardinalityType
<1>6. Cardinality(upTo(a)) <= PageLimit
  BY DEF NewChanges
<1>7. Cardinality(upTo(b)) <= PageLimit
  BY <1>5, <1>6, FeedConstants
<1> QED BY <1>1, <1>7 DEF NewChanges

(* What is so of the writers stays so while only clients move. *)
LEMMA WritersRest ==
    ASSUME WritersInv, UNCHANGED writes
    PROVE  /\ WritersInv' /\ Settled' = Settled
           /\ \A b \in Books : View(b)' = View(b) /\ NumberOf(b)' = NumberOf(b)
<1>1. UNCHANGED <<txn, lastSeq, lastXid>> /\ db' = db
  BY DEF writes
<1>2. /\ db' \in [Rows -> Value] /\ \A row \in Rows \ NumberRows : db'[row] = db[row]
      /\ \A b \in Books : NumberOf(b)' = NumberOf(b)
      /\ \A b \in Books : NumberOf(b)' = 0 => View(b) = Gone
  BY <1>1 DEF WritersInv, NumberOf
<1>3. ASSUME NEW row \in NumberRows
      PROVE  db'[row] \in Number /\ db'[row].seq \in Settled /\ db'[row].xid <= db[row].xid
  <2>1. db[row] \in Number /\ db[row].xid \in Nat
    BY DEF WritersInv, Number
  <2> QED BY <1>1, <2>1 DEF WritersInv
<1>4. WritersInv' /\ Settled' = Settled /\ \A b \in Books : View(b)' = View(b)
  BY <1>1, <1>2, <1>3, RowsStep
<1> QED BY <1>2, <1>4

(* A request of a client keeps the invariant, whatever the writers did meanwhile. *)
LEMMA RequestStep ==
    ASSUME FeedInv, NEW c \in Clients, Request(c)
    PROVE  FeedInv'
<1> USE DEF FeedInv
<1>1. CASE Ask(c) \/ ReadCurrent(c) \/ ReadFloor(c)
  <2>1. /\ UNCHANGED <<writes, floor, page, copy>>
        /\ \E to \in Stages \ {"books"} : stage' = [stage EXCEPT ![c] = to]
        /\ stage[c] # "books"
        /\ \A d \in Clients : stage'[d] # "reload" => stage[d] # "reload" /\ cursor'[d] = cursor[d]
        /\ cursor' \in [Clients -> Settled] /\ current' \in [Clients -> Settled]
    BY <1>1, LatestIsSettled DEF Ask, ReadCurrent, ReadFloor, At, ClientsOK, Stages
  <2>2. /\ WritersInv' /\ Settled' = Settled
        /\ \A b \in Books : View(b)' = View(b) /\ NumberOf(b)' = NumberOf(b)
    BY <2>1, WritersRest
  <2>3. ClientsOK'
    BY <2>1, <2>2 DEF ClientsOK
  <2>4. PassedIsShown'
    BY <2>1, <2>2 DEF PassedIsShown, Passes, InPage
  <2> QED BY <2>2, <2>3, <2>4
<1>2. CASE AskAndPurge(c)
  <2>1. /\ stage[c] = "idle" /\ stage' = [stage EXCEPT ![c] = "asked"]
        /\ Forget(Forgettable) /\ floor' = RaisedFloor(Forgettable)
        /\ UNCHANGED <<current, page, cursor, copy>>
    BY <1>2 DEF AskAndPurge, At
  <2>2. /\ WritersInv' /\ Settled' = Settled
        /\ \A b \in Books : View(b)' = View(b) /\ (NumberOf(b)' # 0 => NumberOf(b)' = NumberOf(b))
    BY <2>1, ForgetStep
  <2>3. floor' \in Nat
    BY <2>1, RaisedFloorIs DEF ClientsOK, Forgettable
  <2>4. ClientsOK'
    BY <2>1, <2>2, <2>3 DEF ClientsOK, Stages
  <2>5. PassedIsShown'
    BY <2>1, <2>2 DEF PassedIsShown, Passes, InPage, ClientsOK
  <2> QED BY <2>2, <2>4, <2>5
<1>3. CASE ReadChanges(c)
  <2> DEFINE rows == {<<b, db[ChangeRow(b)].seq>> : b \in NewChanges(c)}
  <2>1. /\ stage[c] = "changes" /\ stage' = [stage EXCEPT ![c] = "books"]
        /\ page' = [page EXCEPT ![c] = rows]
        /\ UNCHANGED <<writes, floor, current, cursor, copy>>
    BY <1>3 DEF ReadChanges, At
  <2>2. /\ WritersInv' /\ Settled' = Settled
        /\ \A b \in Books : View(b)' = View(b) /\ NumberOf(b)' = NumberOf(b)
    BY <2>1, WritersRest
  <2>3. NewChanges(c) \subseteq Books /\ rows \in SUBSET (Books \X Settled)
    <3>1. NewChanges(c) \subseteq Books
      BY DEF NewChanges, ChangesServed
    <3>2. \A b \in Books : db[ChangeRow(b)].seq \in Settled
      BY SettledNumbers DEF NumberOf
    <3> QED BY <3>1, <3>2
  <2>4. ClientsOK'
    <3> HIDE DEF rows
    <3> QED BY <2>1, <2>2, <2>3 DEF ClientsOK, Stages
  <2>5. ASSUME NEW b \in Books, NumberOf(b) # 0, Passes(c, NumberOf(b))'
        PROVE  copy[c][b] = View(b) \/ InPage(c, b)'
    <3>1. page'[c] = rows /\ page[c] = {}
      BY <2>1 DEF ClientsOK
    <3>2. NumberOf(b) \in Nat /\ cursor[c] \in Settled /\ cursor[c] \in Nat
      BY SettledNumbers DEF ClientsOK
    <3>3. CASE NumberOf(b) <= cursor[c]
      <4>1. Passes(c, NumberOf(b)) /\ ~InPage(c, b) /\ stage[c] # "reload"
        BY <2>1, <3>1, <3>3 DEF Passes, InPage
      <4> QED BY <2>5, <4>1 DEF PassedIsShown
    <3>4. CASE NumberOf(b) > cursor[c]
      <4>1. PICK a \in NewChanges(c) : NumberOf(b) <= NumberOf(a)
        <5>1. ~(NumberOf(b) <= cursor[c])
          BY <3>2, <3>4
        <5>2. \E p \in rows : NumberOf(b) <= p[2]
          BY <2>1, <2>2, <2>5, <3>1, <5>1 DEF Passes
        <5> QED BY <5>2 DEF NumberOf
      <4>2. b \in NewChanges(c)
        BY <2>3, <2>5, <3>2, <3>4, <4>1, PageHasAllBefore
      <4>3. <<b, db[ChangeRow(b)].seq>> \in rows
        BY <4>2
      <4> HIDE DEF rows
      <4> QED BY <3>1, <4>3 DEF InPage
    <3> QED BY <3>2, <3>3, <3>4
  <2>6. PassedIsShown'
    <3> SUFFICES ASSUME NEW d \in Clients, NEW b \in Books,
                        stage'[d] # "reload", NumberOf(b)' # 0, Passes(d, NumberOf(b))'
                 PROVE  copy'[d][b] = View(b)' \/ InPage(d, b)'
      BY DEF PassedIsShown, Passes, InPage
    <3>1. CASE d = c
      <4>1. Passes(c, NumberOf(b))' /\ NumberOf(b) # 0
        BY <2>2, <3>1
      <4> QED BY <2>1, <2>2, <2>5, <3>1, <4>1
    <3>2. CASE d # c
      <4>1. page'[d] = page[d] /\ cursor'[d] = cursor[d] /\ stage'[d] = stage[d] /\ copy'[d] = copy[d]
        BY <2>1, <3>2 DEF ClientsOK
      <4> QED BY <2>2, <4>1 DEF PassedIsShown, Passes, InPage
    <3> QED BY <3>1, <3>2
  <2> QED BY <2>2, <2>4, <2>6
<1>4. CASE ReadBooks(c)
  <2> DEFINE changed == {row[1] : row \in page[c]}
  <2> DEFINE numbers == {cursor[c]} \union {row[2] : row \in page[c]}
  <2>1. /\ stage[c] = "books" /\ stage' = [stage EXCEPT ![c] = "idle"]
        /\ cursor' = [cursor EXCEPT ![c] = Max(numbers)]
        /\ copy' = [copy EXCEPT ![c] = [b \in Books |-> IF b \in changed THEN View(b) ELSE copy[c][b]]]
        /\ page' = [page EXCEPT ![c] = {}]
        /\ UNCHANGED <<writes, floor, current>>
    BY <1>4 DEF ReadBooks, At
  <2>2. /\ WritersInv' /\ Settled' = Settled
        /\ \A b \in Books : View(b)' = View(b) /\ NumberOf(b)' = NumberOf(b)
    BY <2>1, WritersRest
  <2>3. numbers \subseteq Settled /\ Max(numbers) \in numbers
    <3>1. cursor[c] \in Settled /\ \A p \in page[c] : p[2] \in Settled
      BY DEF ClientsOK
    <3>2. numbers \in SUBSET Nat /\ numbers # {} /\ lastSeq \in Nat /\ \A n \in numbers : n <= lastSeq
      BY <3>1, SettledNumbers DEF WritersInv
    <3>3. Max(numbers) \in numbers
      <4> HIDE DEF numbers
      <4> QED BY <3>2, GreatestIsThere
    <3> QED BY <3>1, <3>3
  <2>4. ClientsOK'
    <3> HIDE DEF changed, numbers
    <3> QED BY <2>1, <2>2, <2>3 DEF ClientsOK, Stages
  <2>5. ASSUME NEW b \in Books, NumberOf(b) # 0, Passes(c, NumberOf(b))'
        PROVE  copy'[c][b] = View(b)
    <3>1. cursor'[c] = Max(numbers) /\ page'[c] = {}
      BY <2>1 DEF ClientsOK
    <3>2. NumberOf(b) <= Max(numbers)
      BY <2>2, <2>5, <3>1 DEF Passes
    <3>3. Passes(c, NumberOf(b))
      BY <2>3, <3>2 DEF Passes
    <3>4. copy[c][b] = View(b) \/ InPage(c, b)
      BY <2>1, <2>5, <3>3 DEF PassedIsShown
    <3>5. copy'[c][b] = IF b \in changed THEN View(b) ELSE copy[c][b]
      BY <2>1 DEF ClientsOK
    <3>6. InPage(c, b) => b \in changed
      BY DEF InPage
    <3> HIDE DEF changed
    <3> QED BY <3>4, <3>5, <3>6
  <2>6. PassedIsShown'
    <3> SUFFICES ASSUME NEW d \in Clients, NEW b \in Books,
                        stage'[d] # "reload", NumberOf(b)' # 0, Passes(d, NumberOf(b))'
                 PROVE  copy'[d][b] = View(b)' \/ InPage(d, b)'
      BY DEF PassedIsShown, Passes, InPage
    <3>1. CASE d = c
      <4>1. Passes(c, NumberOf(b))' /\ NumberOf(b) # 0
        BY <2>2, <3>1
      <4> QED BY <2>2, <2>5, <3>1, <4>1
    <3>2. CASE d # c
      <4>1. page'[d] = page[d] /\ cursor'[d] = cursor[d] /\ stage'[d] = stage[d] /\ copy'[d] = copy[d]
        BY <2>1, <3>2 DEF ClientsOK
      <4> QED BY <2>2, <4>1 DEF PassedIsShown, Passes, InPage
    <3> QED BY <3>1, <3>2
  <2> QED BY <2>2, <2>4, <2>6
<1>5. CASE Reload(c)
  <2>1. /\ stage[c] = "reload" /\ stage' = [stage EXCEPT ![c] = "idle"]
        /\ copy' = [copy EXCEPT ![c] = [b \in Books |-> View(b)]]
        /\ UNCHANGED <<writes, floor, current, page, cursor>>
    BY <1>5 DEF Reload, At
  <2>2. /\ WritersInv' /\ Settled' = Settled
        /\ \A b \in Books : View(b)' = View(b) /\ NumberOf(b)' = NumberOf(b)
    BY <2>1, WritersRest
  <2>3. ClientsOK'
    BY <2>1, <2>2 DEF ClientsOK, Stages
  <2>4. \A b \in Books : copy'[c][b] = View(b)
    BY <2>1 DEF ClientsOK
  <2>5. \A d \in Clients : d # c => stage'[d] = stage[d] /\ copy'[d] = copy[d]
    BY <2>1 DEF ClientsOK
  <2>6. PassedIsShown'
    BY <2>1, <2>2, <2>4, <2>5 DEF PassedIsShown, Passes, InPage
  <2> QED BY <2>2, <2>3, <2>6
<1> QED BY <1>1, <1>2, <1>3, <1>4, <1>5 DEF Request

-----------------------------------------------------------------------------
(* Forgotten deletions.                                                    *)

\* A book without a number is shown as gone by every client that is not told to reload.
ForgottenIsShown ==
    \A c \in Clients, b \in Books :
        stage[c] # "reload" /\ cursor[c] >= 1 /\ cursor[c] >= floor /\ NumberOf(b) = 0 =>
            copy[c][b] = Gone \/ InPage(c, b)

\* Who is on the way to its rows was not told to reload, and still need not be.
FloorIsBelow == \A c \in Clients : stage[c] \in {"changes", "books"} => cursor[c] >= 1 /\ cursor[c] >= floor

DeletedInv == FeedInv /\ ForgottenIsShown /\ FloorIsBelow

\* No step raises the floor between the two statements of a request that read the floor
\* and the changes: with one client that is so, and with more the code does not see to it
\* (catalog_sync_service.py get_changes commits the purge before it reads anything, other
\* requests may be further).
PurgesApart == floor' # floor => \A c \in Clients : stage[c] \notin {"changes", "books"}

LEMMA DeletionsRest ==
    ASSUME DeletedInv, WritersInv', Settled \subseteq Settled', NumbersGoAhead,
           UNCHANGED <<floor, request>>
    PROVE  DeletedInv'
<1>1. FeedInv'
  BY ClientsRest DEF DeletedInv
<1>2. UNCHANGED <<floor, stage, page, cursor, copy>>
  BY DEF request
<1>3. ForgottenIsShown'
  <2> SUFFICES ASSUME NEW c \in Clients, NEW b \in Books,
                      stage[c] # "reload", cursor[c] >= 1, cursor[c] >= floor, NumberOf(b)' = 0
               PROVE  copy[c][b] = Gone \/ InPage(c, b)
    BY <1>2 DEF ForgottenIsShown, InPage
  <2>1. NumberOf(b) = 0
    BY DEF NumbersGoAhead
  <2> QED BY <2>1 DEF DeletedInv, ForgottenIsShown
<1>4. FloorIsBelow'
  BY <1>2 DEF DeletedInv, FloorIsBelow
<1> QED BY <1>1, <1>3, <1>4 DEF DeletedInv

LEMMA DeletionsRequestStep ==
    ASSUME DeletedInv, NEW c \in Clients, Request(c), PurgesApart
    PROVE  DeletedInv'
<1> USE DEF DeletedInv
<1>1. FeedInv'
  BY RequestStep
<1>2. /\ WritersInv /\ ClientsOK /\ PassedIsShown
      /\ cursor[c] \in Nat /\ floor \in Nat /\ \A b \in Books : NumberOf(b) \in Nat
  BY SettledNumbers DEF FeedInv, ClientsOK
<1>3. ASSUME UNCHANGED writes
      PROVE  \A b \in Books : View(b)' = View(b) /\ NumberOf(b)' = NumberOf(b)
  BY <1>2, <1>3, WritersRest
<1> HIDE DEF FeedInv
<1>4. CASE Ask(c) \/ ReadCurrent(c) \/ ReadFloor(c)
  <2>1. /\ UNCHANGED <<writes, floor, page, copy>>
        /\ \A d \in Clients : d # c => stage'[d] = stage[d] /\ cursor'[d] = cursor[d]
        /\ stage'[c] # "reload" => stage[c] # "reload" /\ cursor'[c] = cursor[c]
        /\ stage'[c] \in {"changes", "books"} => ~MustReload(c) /\ cursor'[c] = cursor[c]
    BY <1>2, <1>4 DEF Ask, ReadCurrent, ReadFloor, At, ClientsOK, Stages
  <2>2. \A b \in Books : NumberOf(b)' = NumberOf(b)
    BY <1>3, <2>1
  <2>3. ForgottenIsShown'
    BY <2>1, <2>2 DEF ForgottenIsShown, InPage
  <2>4. FloorIsBelow'
    <3>1. ~MustReload(c) => cursor[c] >= 1 /\ cursor[c] >= floor
      BY <1>2 DEF MustReload
    <3> QED BY <2>1, <3>1 DEF FloorIsBelow
  <2> QED BY <1>1, <2>3, <2>4
<1>5. CASE AskAndPurge(c)
  <2>1. /\ stage[c] = "idle" /\ stage' = [stage EXCEPT ![c] = "asked"]
        /\ Forget(Forgettable) /\ floor' = RaisedFloor(Forgettable)
        /\ UNCHANGED <<current, page, cursor, copy>>
    BY <1>5 DEF AskAndPurge, At
  <2>2. /\ floor' \in Nat /\ floor' >= floor /\ \A b \in Forgettable : floor' >= NumberOf(b)
    BY <1>2, <2>1, RaisedFloorIs DEF Forgettable
  <2>3. \A b \in Books : IF b \in Forgettable THEN View(b) = Gone ELSE NumberOf(b)' = NumberOf(b)
    BY <1>2, <2>1, ForgetStep
  <2>4. \A d \in Clients : /\ stage'[d] # "reload" => stage[d] # "reload"
                           /\ stage'[d] \in {"changes", "books"} => stage[d] \in {"changes", "books"}
                           /\ cursor[d] \in Nat
    BY <1>2, <2>1, SettledNumbers DEF ClientsOK
  <2>5. ForgottenIsShown'
    <3> SUFFICES ASSUME NEW d \in Clients, NEW b \in Books,
                        stage'[d] # "reload", cursor[d] >= 1, cursor[d] >= floor', NumberOf(b)' = 0
                 PROVE  copy[d][b] = Gone \/ InPage(d, b)
      BY <2>1 DEF ForgottenIsShown, InPage
    <3>1. stage[d] # "reload" /\ cursor[d] >= floor
      BY <2>2, <2>4, <1>2
    <3>2. CASE NumberOf(b) = 0
      BY <3>1, <3>2 DEF ForgottenIsShown
    <3>3. CASE NumberOf(b) # 0
      <4>1. b \in Forgettable /\ View(b) = Gone
        BY <2>3, <3>3
      <4>2. NumberOf(b) <= cursor[d]
        BY <1>2, <2>2, <2>4, <4>1
      <4> QED BY <1>2, <3>1, <3>3, <4>1, <4>2 DEF PassedIsShown, Passes
    <3> QED BY <3>2, <3>3
  <2>6. FloorIsBelow'
    BY <2>1, <2>4 DEF FloorIsBelow, PurgesApart
  <2> QED BY <1>1, <2>5, <2>6
<1>6. CASE ReadChanges(c)
  <2>1. /\ stage[c] = "changes" /\ stage' = [stage EXCEPT ![c] = "books"]
        /\ \A d \in Clients : d # c => page'[d] = page[d]
        /\ UNCHANGED <<writes, floor, current, cursor, copy>>
    BY <1>2, <1>6 DEF ReadChanges, At, ClientsOK
  <2>2. ~ \E b : InPage(c, b)
    BY <1>2, <2>1 DEF ClientsOK, InPage
  <2>3. \A d \in Clients : stage'[d] # "reload" => stage[d] # "reload"
    BY <1>2, <2>1 DEF ClientsOK
  <2>4. \A d \in Clients : stage'[d] \in {"changes", "books"} => stage[d] \in {"changes", "books"}
    BY <1>2, <2>1 DEF ClientsOK
  <2>5. ForgottenIsShown'
    <3> SUFFICES ASSUME NEW d \in Clients, NEW b \in Books,
                        stage'[d] # "reload", cursor[d] >= 1, cursor[d] >= floor, NumberOf(b)' = 0
                 PROVE  copy[d][b] = Gone \/ InPage(d, b)'
      BY <2>1 DEF ForgottenIsShown
    <3>1. copy[d][b] = Gone \/ InPage(d, b)
      BY <1>3, <2>1, <2>3 DEF ForgottenIsShown
    <3> QED BY <2>1, <2>2, <3>1 DEF InPage
  <2>6. FloorIsBelow'
    BY <2>1, <2>4 DEF FloorIsBelow
  <2> QED BY <1>1, <2>5, <2>6
<1>7. CASE ReadBooks(c)
  <2> DEFINE changed == {row[1] : row \in page[c]}
  <2>1. /\ stage[c] = "books" /\ stage' = [stage EXCEPT ![c] = "idle"]
        /\ copy' = [copy EXCEPT ![c] = [b \in Books |-> IF b \in changed THEN View(b) ELSE copy[c][b]]]
        /\ page' = [page EXCEPT ![c] = {}]
        /\ UNCHANGED <<writes, floor, current>>
        /\ \A d \in Clients : d # c => cursor'[d] = cursor[d]
    BY <1>2, <1>7 DEF ReadBooks, At, ClientsOK
  <2>2. cursor[c] >= 1 /\ cursor[c] >= floor
    BY <2>1 DEF FloorIsBelow
  <2>3. \A d \in Clients : d # c => copy'[d] = copy[d] /\ page'[d] = page[d] /\ stage'[d] = stage[d]
    BY <1>2, <2>1 DEF ClientsOK
  <2>4. ASSUME NEW b \in Books, NumberOf(b) = 0 PROVE copy'[c][b] = Gone
    <3>1. copy'[c][b] = IF b \in changed THEN View(b) ELSE copy[c][b]
      BY <1>2, <2>1 DEF ClientsOK
    <3>2. View(b) = Gone
      BY <1>2, <2>4 DEF WritersInv, NumberOf
    <3>3. copy[c][b] = Gone \/ InPage(c, b)
      BY <2>1, <2>2, <2>4 DEF ForgottenIsShown
    <3>4. InPage(c, b) => b \in changed
      BY DEF InPage
    <3> HIDE DEF changed
    <3> QED BY <3>1, <3>2, <3>3, <3>4
  <2> HIDE DEF changed
  <2>5. ForgottenIsShown'
    <3> SUFFICES ASSUME NEW d \in Clients, NEW b \in Books,
                        stage'[d] # "reload", cursor'[d] >= 1, cursor'[d] >= floor, NumberOf(b)' = 0
                 PROVE  copy'[d][b] = Gone \/ InPage(d, b)'
      BY <2>1 DEF ForgottenIsShown
    <3>1. NumberOf(b) = 0
      BY <1>3, <2>1
    <3>2. CASE d = c
      BY <2>4, <3>1, <3>2
    <3>3. CASE d # c
      BY <2>1, <2>3, <3>1, <3>3 DEF ForgottenIsShown, InPage
    <3> QED BY <3>2, <3>3
  <2>6. FloorIsBelow'
    <3>1. stage'[c] = "idle"
      BY <1>2, <2>1 DEF ClientsOK
    <3> QED BY <2>1, <2>3, <3>1 DEF FloorIsBelow
  <2> QED BY <1>1, <2>5, <2>6
<1>8. CASE Reload(c)
  <2>1. /\ stage[c] = "reload" /\ stage' = [stage EXCEPT ![c] = "idle"]
        /\ copy' = [copy EXCEPT ![c] = [b \in Books |-> View(b)]]
        /\ UNCHANGED <<writes, floor, current, page, cursor>>
    BY <1>8 DEF Reload, At
  <2>2. \A d \in Clients : d # c => copy'[d] = copy[d] /\ stage'[d] = stage[d]
    BY <1>2, <2>1 DEF ClientsOK
  <2>3. stage'[c] = "idle" /\ \A b \in Books : copy'[c][b] = View(b)
    BY <1>2, <2>1 DEF ClientsOK
  <2>4. ForgottenIsShown'
    <3> SUFFICES ASSUME NEW d \in Clients, NEW b \in Books,
                        stage'[d] # "reload", cursor[d] >= 1, cursor[d] >= floor, NumberOf(b)' = 0
                 PROVE  copy'[d][b] = Gone \/ InPage(d, b)
      BY <2>1 DEF ForgottenIsShown, InPage
    <3>1. NumberOf(b) = 0
      BY <1>3, <2>1
    <3>2. View(b) = Gone
      BY <1>2, <3>1 DEF WritersInv, NumberOf
    <3> QED BY <2>2, <2>3, <3>1, <3>2 DEF ForgottenIsShown
  <2>5. FloorIsBelow'
    BY <2>1, <2>2, <2>3 DEF FloorIsBelow
  <2> QED BY <1>1, <2>4, <2>5
<1> QED BY <1>4, <1>5, <1>6, <1>7, <1>8 DEF Request

-----------------------------------------------------------------------------
(* The version of the category.                                            *)

\* The version covers every number of the category, and is one that a commit goes ahead of.
VersionCovers ==
    LET version == Shelves!Version
    IN /\ version \in Settled /\ version \in Nat /\ db[StampRow].seq <= version
       /\ \A b \in Books : InCategory(b) /\ db[BookRow(b)] # Gone => NumberOf(b) <= version

LEMMA VersionIs == WritersInv => VersionCovers
<1> SUFFICES ASSUME WritersInv PROVE VersionCovers
  OBVIOUS
<1>1. \A S : Shelves!Max(S) = Max(S) /\ Shelves!Min(S) = Min(S)
  BY DEF Shelves!Max, Max, Shelves!Min, Min
<1>2. Shelves!StampRow = StampRow /\ Shelves!Horizon = Horizon
  BY <1>1 DEF Shelves!StampRow, StampRow, Shelves!Horizon, Horizon, Shelves!Running, Running
<1>3. \A b : /\ Shelves!ChangeRow(b) = ChangeRow(b) /\ Shelves!BookRow(b) = BookRow(b)
             /\ Shelves!InCategory(b) = InCategory(b)
  BY DEF Shelves!ChangeRow, ChangeRow, Shelves!BookRow, BookRow, Shelves!InCategory, InCategory,
         Shelves!MemberRow, MemberRow
<1>4. \A row : Shelves!Served(row) <=> Served(row)
  BY <1>2 DEF Shelves!Served, Served
<1> DEFINE members == {b \in Books : InCategory(b) /\ db[BookRow(b)] # Gone /\ Served(ChangeRow(b))}
<1> DEFINE numbers == {0} \union {NumberOf(b) : b \in members}
<1>5. Shelves!NewestBookChange = Max(numbers)
  BY <1>1, <1>3, <1>4 DEF Shelves!NewestBookChange, Shelves!BooksInCategory, NumberOf
<1>6. Settled \subseteq Nat /\ lastSeq \in Nat /\ \A n \in Settled : n <= lastSeq
  BY SettledNumbers DEF WritersInv
<1>7. numbers \subseteq Settled /\ numbers # {}
  BY SettledNumbers
<1>8. Max(numbers) \in Settled /\ \A n \in numbers : n <= Max(numbers)
  <2> HIDE DEF numbers
  <2>1. numbers \in SUBSET Nat /\ \A n \in numbers : n <= lastSeq
    BY <1>6, <1>7
  <2> QED BY <1>6, <1>7, <2>1, GreatestIsThere
<1>9. db[StampRow] \in Number /\ db[StampRow].seq \in Settled
  BY NumberRowsAre DEF WritersInv
<1>10. Shelves!SeqServed(StampRow) = db[StampRow].seq
  BY <1>4, AllServed, NumberRowsAre DEF Shelves!SeqServed
<1> HIDE DEF numbers
<1> DEFINE both == {db[StampRow].seq, Max(numbers)}
<1>11. Shelves!Version = Max(both)
  BY <1>1, <1>2, <1>5, <1>10 DEF Shelves!Version
<1>12. Max(both) \in both /\ \A n \in both : n <= Max(both)
  <2>1. both \in SUBSET Nat /\ both # {} /\ \A n \in both : n <= lastSeq
    BY <1>6, <1>8, <1>9
  <2> HIDE DEF both
  <2> QED BY <1>6, <2>1, GreatestIsThere
<1>13. /\ Max(both) \in Settled /\ Max(both) \in Nat /\ db[StampRow].seq <= Max(both)
       /\ Max(numbers) <= Max(both)
  BY <1>6, <1>8, <1>9, <1>12
<1>14. ASSUME NEW b \in Books, InCategory(b), db[BookRow(b)] # Gone PROVE NumberOf(b) <= Max(both)
  <2>1. NumberOf(b) \in Nat
    BY SettledNumbers
  <2>2. CASE NumberOf(b) = 0
    BY <1>13, <2>2
  <2>3. CASE NumberOf(b) # 0
    <3>1. Served(ChangeRow(b))
      BY <2>3, AllServed, NumberRowsAre DEF NumberOf
    <3>2. NumberOf(b) \in numbers
      BY <1>14, <3>1 DEF numbers
    <3>3. NumberOf(b) <= Max(numbers) /\ Max(numbers) \in Nat
      BY <1>6, <1>8, <3>2
    <3> QED BY <1>13, <2>1, <3>3
  <2> QED BY <2>2, <2>3
<1> HIDE DEF both
<1> QED BY <1>11, <1>13, <1>14 DEF VersionCovers

LEMMA VersionIsAfter == (WritersInv => VersionCovers)'
BY VersionIs, PTL

(* The contents of the category, in the terms of the rows. *)
LEMMA ContentsAre ==
    Shelves!Contents = [b \in {a \in Books : Published(a) /\ InCategory(a)} |-> View(b)]
BY DEF Shelves!Contents, Shelves!Published, Published, Shelves!InCategory, InCategory, Shelves!View, View,
       Shelves!BookRow, BookRow, Shelves!MemberRow, MemberRow, Shelves!TitleRow, TitleRow

LEMMA ContentsAreAfter ==
    (Shelves!Contents = [b \in {a \in Books : Published(a) /\ InCategory(a)} |-> View(b)])'
BY ContentsAre, PTL

(* Nothing but the books, their membership and the title is in them. *)
LEMMA ContentsStay ==
    ASSUME TitleRow \in Rows, db'[TitleRow] = db[TitleRow],
           \A b \in Books : /\ db'[MemberRow(b)] = db[MemberRow(b)]
                            /\ InCategory(b) => db'[BookRow(b)] = db[BookRow(b)]
    PROVE  Shelves!Contents' = Shelves!Contents
<1> DEFINE listed == {a \in Books : Published(a) /\ InCategory(a)}
<1> DEFINE listedAfter == {a \in Books : Published(a)' /\ InCategory(a)'}
<1>1. \A b \in Books : InCategory(b)' = InCategory(b)
  BY DEF InCategory
<1>2. \A b \in Books : InCategory(b) => (Published(b)' <=> Published(b)) /\ View(b)' = View(b)
  BY <1>1 DEF Published, View
<1>3. listedAfter = listed
  BY <1>1, <1>2
<1>4. \A b \in listed : View(b)' = View(b)
  BY <1>2
<1>5. Shelves!Contents = [b \in listed |-> View(b)] /\ Shelves!Contents' = [b \in listedAfter |-> View(b)']
  BY ContentsAre, ContentsAreAfter
<1> HIDE DEF listed, listedAfter
<1> QED BY <1>3, <1>4, <1>5

(* A commit that changes the contents brings a number ahead of the version. *)
LEMMA CommitMovesVersion ==
    ASSUME WritersInv, TakeTurns, NEW w \in Writers, Commit(w), Shelves!Contents' # Shelves!Contents
    PROVE  Shelves!Version' > Shelves!Version
<1>1. WritersInv'
  BY CommitStep
<1>2. VersionCovers /\ VersionCovers'
  BY <1>1, VersionIs, VersionIsAfter
<1>3. TxnOK(w) /\ Running(w) /\ txn[w].todo = <<>> /\ db' = [row \in Rows |-> Seen(w, row)]
  BY DEF Commit, WritersInv
<1>4. \A row \in NumberRows : row \in DOMAIN txn[w].writes =>
            /\ db'[row].seq \in Nat
            /\ \A n \in Settled : db'[row].seq > n
  <2> TAKE row \in NumberRows
  <2>1. HAVE row \in DOMAIN txn[w].writes
  <2>2. db'[row] = txn[w].writes[row]
    BY <1>3, <2>1, NumberRowsAre DEF Seen
  <2>3. \A n \in Settled : Ahead(w, n)
    BY DEF Settled
  <2>4. txn[w].writes[row].seq \in Nat
    BY <1>3, <2>1 DEF TxnOK, Number
  <2> QED BY <2>1, <2>2, <2>3, <2>4 DEF Ahead
<1>5. \A x : Numbered(w, x) => NumberRow(x) \in DOMAIN txn[w].writes
  BY <1>3, InShort DEF Numbered
<1> DEFINE before == Shelves!Version
<1> DEFINE after == Shelves!Version'
<1>6. before \in Settled /\ before \in Nat /\ after \in Nat
  BY <1>2 DEF VersionCovers
<1>7. CASE Numbered(w, Category)
  <2>1. StampRow \in NumberRows /\ StampRow \in DOMAIN txn[w].writes
    BY <1>5, <1>7, NumberRowsAre
  <2>2. db'[StampRow].seq \in Nat /\ db'[StampRow].seq > before
    BY <1>4, <1>6, <2>1
  <2>3. db'[StampRow].seq <= after
    BY <1>2 DEF VersionCovers
  <2> HIDE DEF before, after
  <2>4. after > before
    BY <1>6, <2>2, <2>3
  <2> QED BY <2>4 DEF before, after
<1>8. CASE ~Numbered(w, Category)
  <2>1. /\ Seen(w, TitleRow) = db[TitleRow]
        /\ \A b \in Books :
            /\ Seen(w, MemberRow(b)) = db[MemberRow(b)]
            /\ Seen(w, MemberRow(b)) /\ Seen(w, BookRow(b)) # db[BookRow(b)] =>
                    Seen(w, BookRow(b)) # Gone /\ Numbered(w, b)
    BY <1>3, <1>8 DEF TxnOK, StampOK
  <2>2. PICK b \in Books : InCategory(b) /\ db'[BookRow(b)] # db[BookRow(b)]
    <3> SUFFICES ASSUME \A b \in Books : InCategory(b) => db'[BookRow(b)] = db[BookRow(b)] PROVE FALSE
      OBVIOUS
    <3>1. db'[TitleRow] = db[TitleRow] /\ \A b \in Books : db'[MemberRow(b)] = db[MemberRow(b)]
      BY <1>3, <2>1, RowsDiffer
    <3> QED BY <3>1, RowsDiffer, ContentsStay
  <2>3. /\ InCategory(b)' /\ db'[BookRow(b)] # Gone /\ Numbered(w, b)
    BY <1>3, <2>1, <2>2, RowsDiffer DEF InCategory
  <2>4. ChangeRow(b) \in NumberRows /\ ChangeRow(b) \in DOMAIN txn[w].writes
    BY <1>5, <2>3, NumberRowsAre
  <2>5. db'[ChangeRow(b)].seq \in Nat /\ db'[ChangeRow(b)].seq > before
    BY <1>4, <1>6, <2>4
  <2>6. db'[ChangeRow(b)].seq <= after
    BY <1>2, <2>3 DEF VersionCovers, NumberOf
  <2> HIDE DEF before, after
  <2>7. after > before
    BY <1>6, <2>5, <2>6
  <2> QED BY <2>7 DEF before, after
<1> QED BY <1>7, <1>8

(* Every step of the shelves' scene. *)
LEMMA ShelvesStep ==
    ASSUME WritersInv, TakeTurns, ShelvesNext
    PROVE  WritersInv' /\ (Shelves!Contents' # Shelves!Contents => Shelves!Version' > Shelves!Version)
<1>1. ASSUME NEW w \in Writers, Shelves!Write(w)
      PROVE  WritersInv' /\ (Shelves!Contents' # Shelves!Contents => Shelves!Version' > Shelves!Version)
  <2>1. WriterStep(w)
    BY <1>1, WritesAreSteps
  <2>2. WritersInv'
    BY <2>1, WriterStepOK
  <2>3. CASE Commit(w)
    BY <2>2, <2>3, CommitMovesVersion
  <2>4. CASE ~Commit(w)
    <3>1. UNCHANGED db
      BY <2>1, <2>4 DEF WriterStep, Starts, Changes, EditBook, JoinOrLeave, Retitle, Statement, Draws, Upsert, Rollback
    <3> QED BY <2>2, <3>1, RowsDiffer, ContentsStay
  <2> QED BY <2>3, <2>4
<1>2. ASSUME UNCHANGED writes
      PROVE  WritersInv' /\ Shelves!Contents' = Shelves!Contents
  BY <1>2, WritersRest, RowsDiffer, ContentsStay DEF writes
<1>3. ASSUME UNCHANGED <<txn, lastSeq, lastXid>>, WritersInv',
             \A row \in Rows \ NumberRows : db'[row] = db[row]
      PROVE  Shelves!Contents' = Shelves!Contents
  BY <1>3, RowsDiffer, NumberRowsAre, ContentsStay
<1>4. ASSUME Shelves!HalfYear
      PROVE  WritersInv' /\ Shelves!Contents' = Shelves!Contents
  <2>1. Age
    BY <1>4 DEF Shelves!HalfYear, Shelves!Age, Age, Shelves!Running, Running, Shelves!Rows, Rows, Shelves!Aged, Aged,
        Shelves!TitleRow, TitleRow, Shelves!StampRow, StampRow
  <2>2. WritersInv'
    BY <2>1, AgeStep
  <2>3. \A row \in Rows \ NumberRows : db'[row] = db[row]
    BY <2>1, ChangesAreNumberRows DEF Age, Aged
  <2> QED BY <1>3, <2>1, <2>2, <2>3 DEF Age
<1>5. ASSUME Shelves!Purge
      PROVE  WritersInv' /\ Shelves!Contents' = Shelves!Contents
  <2>1. \A b : /\ Shelves!ChangeRow(b) = ChangeRow(b) /\ (Shelves!Published(b) <=> Published(b))
    BY DEF Shelves!ChangeRow, ChangeRow, Shelves!Published, Published, Shelves!BookRow, BookRow
  <2>2. Shelves!Forgettable = Forgettable
    BY <2>1 DEF Shelves!Forgettable, Forgettable
  <2>3. Forget(Forgettable)
    BY <1>5, <2>1, <2>2 DEF Shelves!Purge, Shelves!Forget, Forget, Shelves!Rows, Rows, Shelves!NoNumber, NoNumber,
        Shelves!TitleRow, TitleRow, Shelves!StampRow, StampRow
  <2>4. WritersInv'
    BY <2>3, ForgetStep
  <2>5. \A row \in Rows \ NumberRows : db'[row] = db[row]
    BY <2>3, ChangesAreNumberRows DEF Forget
  <2> QED BY <1>3, <2>3, <2>4, <2>5 DEF Forget
<1>6. ASSUME NEW c \in Clients, Check(c) PROVE UNCHANGED writes
  BY <1>6 DEF Check, Shelves!ReadStamps, Shelves!ReadVersion, Shelves!Fetch, Shelves!writes, writes
<1> QED BY <1>1, <1>2, <1>4, <1>5, <1>6 DEF ShelvesNext, OnShelves

-----------------------------------------------------------------------------
(* Theorems                                                                *)

\* Between requests, whose number a cursor has passed is shown as it is.
ChangesShown ==
    \A c \in Clients, b \in Books :
        stage[c] = "idle" /\ NumberOf(b) # 0 /\ NumberOf(b) <= cursor[c] => copy[c][b] = View(b)

LEMMA FirstClients == Init => DeletedInv
<1> SUFFICES ASSUME Init PROVE DeletedInv
  OBVIOUS
<1>1. WritersInv
  BY FirstIsOK DEF Init
<1>2. /\ Settled \subseteq Nat /\ 0 \in Settled /\ \A b \in Books : NumberOf(b) \in Nat
  BY <1>1, SettledNumbers
<1>3. ClientsOK
  BY <1>2 DEF Init, ClientsOK, Stages
<1>4. \A c \in Clients : cursor[c] = 0 /\ page[c] = {} /\ stage[c] = "idle"
  BY DEF Init
<1>5. PassedIsShown /\ ForgottenIsShown /\ FloorIsBelow
  BY <1>2, <1>4 DEF PassedIsShown, Passes, ForgottenIsShown, FloorIsBelow
<1> QED BY <1>1, <1>3, <1>5 DEF DeletedInv, FeedInv

LEMMA FeedStep ==
    ASSUME FeedInv, TakeTurns, [Next]_vars
    PROVE  FeedInv' /\ (DeletedInv /\ PurgesApart => DeletedInv')
<1>1. ASSUME NEW w \in Writers, Write(w), UNCHANGED <<floor, age, request>>
      PROVE  FeedInv' /\ (DeletedInv => DeletedInv')
  <2>1. WritersInv' /\ Settled \subseteq Settled' /\ NumbersGoAhead
    BY <1>1, WritesAreSteps, WriterStepOK DEF FeedInv
  <2> QED BY <1>1, <2>1, ClientsRest, DeletionsRest
<1>2. ASSUME NEW c \in Clients, Request(c)
      PROVE  FeedInv' /\ (DeletedInv /\ PurgesApart => DeletedInv')
  BY <1>2, RequestStep, DeletionsRequestStep
<1>3. ASSUME HalfYear
      PROVE  FeedInv' /\ (DeletedInv => DeletedInv')
  <2>1. Age /\ UNCHANGED <<floor, request>>
    BY <1>3 DEF HalfYear
  <2>2. WritersInv' /\ Settled \subseteq Settled' /\ NumbersGoAhead
    BY <2>1, AgeStep DEF FeedInv, NumbersGoAhead
  <2> QED BY <2>1, <2>2, ClientsRest, DeletionsRest
<1>4. ASSUME UNCHANGED vars
      PROVE  FeedInv' /\ (DeletedInv => DeletedInv')
  <2>1. UNCHANGED writes /\ UNCHANGED <<floor, request>>
    BY <1>4 DEF vars
  <2>2. WritersInv' /\ Settled \subseteq Settled' /\ NumbersGoAhead
    BY <2>1, WritersRest DEF FeedInv, NumbersGoAhead
  <2> QED BY <2>1, <2>2, ClientsRest, DeletionsRest
<1> QED BY <1>1, <1>2, <1>3, <1>4 DEF Next

LEMMA DeletedInvSuffices ==
    /\ FeedInv => ChangesShown
    /\ DeletedInv => NothingMissed
<1>1. ASSUME FeedInv PROVE ChangesShown
  <2>1. \A c \in Clients, b \in Books : stage[c] = "idle" => ~InPage(c, b)
    BY <1>1 DEF FeedInv, ClientsOK, InPage
  <2> QED BY <1>1, <2>1 DEF FeedInv, PassedIsShown, Passes, ChangesShown
<1>2. ASSUME DeletedInv PROVE NothingMissed
  <2>1. \A c \in Clients, b \in Books : stage[c] = "idle" => ~InPage(c, b)
    BY <1>2 DEF DeletedInv, FeedInv, ClientsOK, InPage
  <2>2. ChangesShown
    BY <1>1, <1>2 DEF DeletedInv
  <2> SUFFICES ASSUME NEW c \in Clients, NEW b \in Books,
                      stage[c] = "idle", cursor[c] >= 1, cursor[c] >= floor, NumberOf(b) <= cursor[c]
               PROVE  copy[c][b] = View(b)
    BY DEF NothingMissed, NumberOf
  <2>3. CASE NumberOf(b) # 0
    BY <2>2, <2>3 DEF ChangesShown
  <2>4. CASE NumberOf(b) = 0
    <3>1. View(b) = Gone
      BY <1>2, <2>4 DEF DeletedInv, FeedInv, WritersInv, NumberOf
    <3>2. copy[c][b] = Gone
      BY <1>2, <2>1, <2>4 DEF DeletedInv, ForgottenIsShown
    <3> QED BY <3>1, <3>2
  <2> QED BY <2>3, <2>4
<1> QED BY <1>1, <1>2

(* get_changes: as long as no two transactions of the catalog are open at once, every
   client shows every book whose number its cursor has passed as the catalog has it
   between its requests, however many clients ask, whatever the writers do between the
   statements of a request, and whatever is forgotten meanwhile. *)
THEOREM PassedChangesAreShown == Spec /\ []TakeTurns => []ChangesShown
<1>1. Init => FeedInv
  BY FirstClients DEF DeletedInv
<1>2. FeedInv /\ TakeTurns /\ [Next]_vars => FeedInv'
  BY FeedStep
<1> QED BY <1>1, <1>2, DeletedInvSuffices, PTL DEF Spec

(* The same for every book, the forgotten deletions included, as long as nothing is
   forgotten between the two statements of another request that read the floor and the
   changes: nothing is missed. *)
THEOREM NothingIsMissed == Spec /\ []TakeTurns /\ [][PurgesApart]_vars => []NothingMissed
<1>1. Init => DeletedInv
  BY FirstClients
<1>2. DeletedInv /\ TakeTurns /\ [Next]_vars /\ [PurgesApart]_vars => DeletedInv'
  <2> SUFFICES ASSUME DeletedInv, TakeTurns, [Next]_vars, [PurgesApart]_vars PROVE DeletedInv'
    OBVIOUS
  <2>1. PurgesApart
    BY DEF PurgesApart, vars
  <2> QED BY <2>1, FeedStep DEF DeletedInv
<1> QED BY <1>1, <1>2, DeletedInvSuffices, PTL DEF Spec

(* With one client no purge comes between two statements of a request. *)
LEMMA OneClientPurgesApart ==
    ASSUME \A c, d \in Clients : c = d, ClientsOK, [Next]_vars
    PROVE  PurgesApart
<1>1. ASSUME NEW c \in Clients, Request(c), floor' # floor
      PROVE  stage[c] = "idle"
  BY <1>1 DEF Request, Ask, AskAndPurge, ReadCurrent, ReadFloor, ReadChanges, ReadBooks, Reload, At
<1>2. ASSUME floor' # floor PROVE \E c \in Clients : Request(c)
  BY <1>2 DEF Next, HalfYear, vars
<1> QED BY <1>1, <1>2 DEF PurgesApart

(* The property of the run catalog_catalog: one client, one transaction at a time, any
   number of books, pages of any size. *)
THEOREM FeedMissesNothingIsSafe ==
    ASSUME \A c, d \in Clients : c = d
    PROVE  MCFairSpec /\ []TakeTurns => []FeedMissesNothing
<1> DEFINE Inv == scene = "feed" => DeletedInv
<1>1. FeedInit \/ ShelvesInit => Inv
  BY FirstClients DEF FeedInit, ShelvesInit
<1>2. Inv /\ TakeTurns /\ [FeedNext \/ ShelvesNext]_mcVars => Inv'
  <2> SUFFICES ASSUME Inv, TakeTurns, [FeedNext \/ ShelvesNext]_mcVars, scene' = "feed"
               PROVE  DeletedInv'
    OBVIOUS
  <2>1. scene = "feed" /\ [Next]_vars
    BY DEF FeedNext, ShelvesNext, InFeed, OnShelves, mcVars, Next
  <2>2. DeletedInv /\ ClientsOK
    BY <2>1 DEF DeletedInv, FeedInv
  <2>3. PurgesApart
    BY <2>1, <2>2, OneClientPurgesApart
  <2> QED BY <2>1, <2>2, <2>3, FeedStep DEF DeletedInv
<1>3. Inv => FeedMissesNothing
  BY DeletedInvSuffices DEF FeedMissesNothing
<1> HIDE DEF Inv
<1> QED BY <1>1, <1>2, <1>3, PTL DEF MCFairSpec

(* get_versions: as long as no two transactions of the catalog are open at once, no commit
   changes what a category lists without moving its version forward, whatever it edits,
   publishes, hides, deletes, moves or renames, and nothing else changes what is listed. *)
THEOREM ContentsMoveTheVersion == MCFairSpec /\ []TakeTurns => ContentsMoveVersion
<1> DEFINE Inv == scene = "shelves" => WritersInv
<1>1. FeedInit \/ ShelvesInit => Inv
  BY FirstIsOK DEF FeedInit, ShelvesInit, Shelves!Init
<1>2. Inv /\ TakeTurns /\ [FeedNext \/ ShelvesNext]_mcVars => Inv'
  <2> SUFFICES ASSUME Inv, TakeTurns, [FeedNext \/ ShelvesNext]_mcVars, scene' = "shelves"
               PROVE  WritersInv'
    OBVIOUS
  <2>1. scene = "shelves" /\ (ShelvesNext \/ UNCHANGED writes)
    BY DEF FeedNext, InFeed, OnShelves, ShelvesNext, mcVars, vars
  <2> QED BY <2>1, ShelvesStep, WritersRest
<1>3. Inv /\ TakeTurns /\ [FeedNext \/ ShelvesNext]_mcVars =>
        [scene = "shelves" /\ Shelves!Contents' # Shelves!Contents => Shelves!Version' > Shelves!Version]_mcVars
  <2> SUFFICES ASSUME Inv, TakeTurns, FeedNext \/ ShelvesNext, scene = "shelves",
                      Shelves!Contents' # Shelves!Contents
               PROVE  Shelves!Version' > Shelves!Version
    OBVIOUS
  <2>1. ShelvesNext
    BY DEF FeedNext, InFeed
  <2> QED BY <2>1, ShelvesStep
<1> HIDE DEF Inv
<1> QED BY <1>1, <1>2, <1>3, PTL DEF MCFairSpec, ContentsMoveVersion
=============================================================================
