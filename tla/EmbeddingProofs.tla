--------------------------- MODULE EmbeddingProofs ---------------------------
(***************************************************************************)
(* Proofs about the embedding of the library: that the books are shared    *)
(* out among any number of workers, threads and books, whatever crashes    *)
(* and whichever claims grow old, and that what the loader takes are the   *)
(* vectors of the text they are stored with, unless two uploads met.       *)
(***************************************************************************)
EXTENDS EmbeddingFleet, VectorLoader, SequenceTheorems, WellFoundedInduction, TLAPS

-----------------------------------------------------------------------------
(* The loader.                                                             *)

Stages == {"ready", "writing", "received", "whole", "moved", "described", "over"}
Puts == [of : Nat, at : Stages, file : {"tmp", "inbox", "lost"}, sent : Nat]

(* Unless two uploads met, one at most is at the temporary file and writes it from its
   beginning; what it has renamed is a whole text, so are the vectors that were read, and
   the stored ones are of the text they are stored with. *)
Separate ==
    /\ put \in [Senders -> Puts]
    /\ \A s, t \in Senders : AtFile(s) /\ AtFile(t) => s = t
    /\ \A s \in Senders : AtFile(s) => put[s].file = "tmp" /\ tmp \in Seq({put[s].of})
    /\ \A s \in Senders : put[s].at = "writing" => Len(tmp) = put[s].sent
    /\ \A s \in Senders : put[s].at = "whole" => Len(tmp) = put[s].of
    /\ inbox # NoFile => inbox \in Seq({Len(inbox)})
    /\ loader.at # "idle" => inbox # NoFile
    /\ loader.at = "read" => loader.cells \in Seq({loader.n})
    /\ points.cells \in Seq({points.of})

LoaderInv == met \/ Separate

(* A file of one text only is a file. *)
LEMMA OneTextIsAFile ==
    ASSUME NEW x \in Nat, NEW f \in Seq({x})
    PROVE  f # NoFile
BY LoaderAssumption

(* What is written behind the end of a file of one text (head -c) leaves it so. *)
LEMMA WrittenBehind ==
    ASSUME NEW x, NEW f \in Seq({x}), NEW k, k = Len(f) + 1
    PROVE  Over(f, k, x) \in Seq({x}) /\ Len(Over(f, k, x)) = k
<1>1. Len(f) \in Nat /\ k \in Nat /\ k > Len(f)
  OBVIOUS
<1>2. Over(f, k, x) = [i \in 1 .. k |-> IF i = k THEN x ELSE IF i <= Len(f) THEN f[i] ELSE 0]
  BY <1>1 DEF Over
<1>3. \A i \in 1 .. k : i # k => i <= Len(f) /\ f[i] = x
  BY <1>1
<1>4. Over(f, k, x) = [i \in 1 .. k |-> x]
  BY <1>2, <1>3
<1> QED BY <1>1, <1>4

(* An upload goes from one stage of gate.sh put to the next; the others stay. *)
LEMMA StageMoves ==
    ASSUME put \in [Senders -> Puts], NEW s \in Senders, NEW from, NEW to \in Stages, At(s, from, to)
    PROVE  /\ put' \in [Senders -> Puts]
           /\ put[s].at = from /\ put'[s].at = to
           /\ put'[s].of = put[s].of /\ put'[s].file = put[s].file /\ put'[s].sent = put[s].sent
           /\ \A t \in Senders \ {s} : put'[t] = put[t]
<1> DEFINE p == [put[s] EXCEPT !.at = to]
<1>1. put[s] \in Puts
  OBVIOUS
<1>2. p \in Puts /\ p.at = to /\ p.of = put[s].of /\ p.file = put[s].file /\ p.sent = put[s].sent
  BY <1>1 DEF Puts
<1>3. put[s].at = from /\ put' = [put EXCEPT ![s] = p]
  BY DEF At
<1> HIDE DEF p
<1> QED BY <1>2, <1>3

(* A file that is renamed or removed (mv, rm) leaves the uploads' texts and stages. *)
LEMMA RenamedPuts ==
    ASSUME put \in [Senders -> Puts], NEW s \in Senders, NEW to \in Stages,
           NEW where, \A name \in DOMAIN where : where[name] \in {"tmp", "inbox", "lost"},
           put' = Renamed(s, to, where)
    PROVE  /\ put' \in [Senders -> Puts]
           /\ put'[s].at = to
           /\ \A t \in Senders \ {s} : put'[t].at = put[t].at
<1> DEFINE p(t) == [put[t] EXCEPT !.at = IF t = s THEN to ELSE @,
                                  !.file = IF @ \in DOMAIN where THEN where[@] ELSE @]
<1>1. ASSUME NEW t \in Senders
      PROVE  p(t) \in Puts /\ p(t).at = IF t = s THEN to ELSE put[t].at
  <2>1. put[t] \in Puts
    OBVIOUS
  <2> DEFINE file == IF put[t].file \in DOMAIN where THEN where[put[t].file] ELSE put[t].file
  <2> DEFINE at == IF t = s THEN to ELSE put[t].at
  <2>2. file \in {"tmp", "inbox", "lost"}
    BY <2>1 DEF Puts
  <2>3. at \in Stages
    BY <2>1 DEF Puts
  <2>4. p(t) = [put[t] EXCEPT !.at = at, !.file = file]
    BY <2>1 DEF Puts
  <2> HIDE DEF file, at
  <2>5. p(t) \in Puts /\ p(t).at = at
    BY <2>1, <2>2, <2>3, <2>4 DEF Puts
  <2> QED BY <2>5 DEF at
<1>2. put' = [t \in Senders |-> p(t)]
  BY DEF Renamed
<1> HIDE DEF p
<1> QED BY <1>1, <1>2

(* An upload that is at no file moves on: nothing is written. *)
LEMMA PastTheFile ==
    ASSUME Separate, NEW s \in Senders, put' \in [Senders -> Puts],
           put'[s].at \notin {"writing", "received", "whole"},
           \A t \in Senders \ {s} : put'[t] = put[t],
           UNCHANGED <<tmp, inbox, loader, points>>
    PROVE  Separate'
BY DEF Separate, AtFile

(* The command of an upload keeps what is separate, *)
LEMMA PutSteps == ASSUME Separate, NEW s \in Senders, PutStep(s) \/ Cut(s) PROVE LoaderInv'
<1>1. CASE Open(s)
  <2> SUFFICES ASSUME ~met' PROVE Separate'
    BY DEF LoaderInv
  <2> DEFINE p == [of |-> put[s].of, at |-> "writing", file |-> "tmp", sent |-> 0]
  <2>1. put' = [put EXCEPT ![s] = p] /\ tmp' = <<>> /\ UNCHANGED <<inbox, loader, points>>
    BY <1>1 DEF Open
  <2>2. p \in Puts
    BY DEF Separate, Puts, Stages
  <2>3. \A t \in Senders \ {s} : ~AtFile(t)
    BY <1>1 DEF Open
  <2> HIDE DEF p
  <2>4. /\ put' \in [Senders -> Puts] /\ put'[s] = p
        /\ \A t \in Senders \ {s} : put'[t] = put[t]
    BY <2>1, <2>2 DEF Separate
  <2>5. p.at = "writing" /\ p.file = "tmp" /\ p.sent = 0 /\ tmp' \in Seq({p.of}) /\ Len(tmp') = 0
    BY <2>1 DEF p
  <2>6. \A t \in Senders : AtFile(t)' => t = s
    BY <2>3, <2>4 DEF AtFile
  <2> QED BY <2>1, <2>4, <2>5, <2>6 DEF Separate, AtFile
<1>2. CASE Write(s)
  <2> DEFINE p == [put[s] EXCEPT !.sent = @ + 1]
  <2>1. /\ put[s] \in Puts /\ put[s].at = "writing" /\ put[s].file = "tmp"
        /\ tmp \in Seq({put[s].of}) /\ Len(tmp) = put[s].sent
    BY <1>2 DEF Write, Separate, AtFile
  <2>2. /\ put' = [put EXCEPT ![s] = p] /\ tmp' = Over(tmp, Len(tmp) + 1, put[s].of)
        /\ UNCHANGED <<inbox, loader, points>>
    BY <1>2, <2>1 DEF Write, Separate
  <2>3. tmp' \in Seq({put[s].of}) /\ Len(tmp') = put[s].sent + 1
    <3> DEFINE x == put[s].of
    <3> DEFINE k == Len(tmp) + 1
    <3>1. tmp \in Seq({x}) /\ k = Len(tmp) + 1 /\ tmp' = Over(tmp, k, x)
      BY <2>1, <2>2
    <3> HIDE DEF x, k
    <3>2. Over(tmp, k, x) \in Seq({x}) /\ Len(Over(tmp, k, x)) = k
      BY <3>1, WrittenBehind
    <3>3. k = put[s].sent + 1
      BY <2>1 DEF k
    <3> QED BY <3>1, <3>2, <3>3 DEF x
  <2>4. p \in Puts /\ p.of = put[s].of /\ p.at = "writing" /\ p.file = "tmp" /\ p.sent = put[s].sent + 1
    BY <2>1 DEF Puts
  <2> HIDE DEF p
  <2>5. /\ put' \in [Senders -> Puts] /\ put'[s] = p
        /\ \A t \in Senders \ {s} : put'[t] = put[t]
    BY <2>2, <2>4 DEF Separate
  <2>6. \A t \in Senders : AtFile(t)' => t = s
    BY <2>1, <2>5 DEF Separate, AtFile
  <2> QED BY <2>2, <2>3, <2>4, <2>5, <2>6 DEF LoaderInv, Separate, AtFile
<1>3. CASE Received(s) \/ Cut(s)
  <2>1. At(s, "writing", "received") /\ UNCHANGED <<tmp, inbox, loader, points>>
    BY <1>3 DEF Received, Cut
  <2>2. /\ put' \in [Senders -> Puts]
        /\ put[s].at = "writing" /\ put'[s].at = "received"
        /\ put'[s].of = put[s].of /\ put'[s].file = put[s].file
        /\ \A t \in Senders \ {s} : put'[t] = put[t]
    BY <2>1, StageMoves DEF Separate, Stages
  <2> QED BY <2>1, <2>2 DEF LoaderInv, Separate, AtFile
<1>4. CASE CheckSize(s)
  <2>1. put[s].at = "received" /\ put[s] \in Puts /\ tmp \in Seq({put[s].of})
    BY <1>4 DEF CheckSize, Separate, AtFile
  <2>2. tmp # NoFile
    BY <2>1, OneTextIsAFile DEF Puts
  <2>3. CASE Len(tmp) = put[s].of
    <3>1. At(s, "received", "whole") /\ UNCHANGED <<tmp, inbox, loader, points>>
      BY <1>4, <2>2, <2>3 DEF CheckSize
    <3>2. /\ put' \in [Senders -> Puts]
          /\ put'[s].at = "whole"
          /\ put'[s].of = put[s].of /\ put'[s].file = put[s].file
          /\ \A t \in Senders \ {s} : put'[t] = put[t]
      BY <3>1, StageMoves DEF Separate, Stages
    <3> QED BY <2>1, <2>3, <3>1, <3>2 DEF LoaderInv, Separate, AtFile
  <2>4. CASE Len(tmp) # put[s].of
    <3> DEFINE where == [tmp |-> "lost"]
    <3>1. put' = Renamed(s, AfterShort, where) /\ UNCHANGED <<inbox, loader, points>>
      BY <1>4, <2>4 DEF CheckSize
    <3>2. \A name \in DOMAIN where : where[name] \in {"tmp", "inbox", "lost"}
      OBVIOUS
    <3> HIDE DEF where
    <3>3. /\ put' \in [Senders -> Puts] /\ put'[s].at = "ready"
          /\ \A t \in Senders \ {s} : put'[t].at = put[t].at
      BY <3>1, <3>2, RenamedPuts DEF Separate, Stages, AfterShort
    <3>4. \A t \in Senders : ~AtFile(t)'
      BY <2>1, <3>3 DEF Separate, AtFile
    <3> QED BY <3>1, <3>3, <3>4 DEF LoaderInv, Separate, AtFile
  <2> QED BY <2>3, <2>4
<1>5. CASE Move(s)
  <2>1. /\ put[s].at = "whole" /\ put[s] \in Puts
        /\ tmp \in Seq({put[s].of}) /\ Len(tmp) = put[s].of
    BY <1>5 DEF Move, Separate, AtFile
  <2>2. tmp # NoFile
    BY <2>1, OneTextIsAFile DEF Puts
  <2> DEFINE where == [tmp |-> "inbox", inbox |-> "lost"]
  <2>3. put' = Renamed(s, "moved", where) /\ inbox' = tmp /\ UNCHANGED <<loader, points>>
    BY <1>5, <2>2 DEF Move
  <2>4. \A name \in DOMAIN where : where[name] \in {"tmp", "inbox", "lost"}
    OBVIOUS
  <2> HIDE DEF where
  <2>5. /\ put' \in [Senders -> Puts] /\ put'[s].at = "moved"
        /\ \A t \in Senders \ {s} : put'[t].at = put[t].at
    BY <2>3, <2>4, RenamedPuts DEF Separate, Stages
  <2>6. \A t \in Senders : ~AtFile(t)'
    BY <2>1, <2>5 DEF Separate, AtFile
  <2>7. inbox' \in Seq({Len(inbox')}) /\ inbox' # NoFile
    BY <2>1, <2>2, <2>3
  <2> QED BY <2>3, <2>5, <2>6, <2>7 DEF LoaderInv, Separate, AtFile
<1>6. CASE Describe(s) \/ MarkDone(s)
  <2>1. PICK from, to \in {"moved", "described", "over"} : At(s, from, to) /\ to # "moved"
    BY <1>6 DEF Describe, MarkDone
  <2>2. /\ put' \in [Senders -> Puts] /\ put'[s].at = to
        /\ \A t \in Senders \ {s} : put'[t] = put[t]
    BY <2>1, StageMoves DEF Separate, Stages
  <2>3. UNCHANGED <<tmp, inbox, loader, points>>
    BY <1>6 DEF Describe, MarkDone
  <2> QED BY <2>2, <2>3, PastTheFile DEF LoaderInv
<1> QED BY <1>1, <1>2, <1>3, <1>4, <1>5, <1>6 DEF PutStep

(* and so do the loader's own steps: it stores what it has read as the text the book is
   cut into now only if there are as many chunks (load_book). *)
LEMMA LoadSteps == ASSUME Separate, LoadStep PROVE Separate'
<1>1. UNCHANGED <<put, tmp, inbox>>
  BY DEF LoadStep, ReadMeta, ReadVectors, StorePoints, Aside
<1>2. /\ loader'.at # "idle" => inbox # NoFile
      /\ loader'.at = "read" => loader'.cells \in Seq({loader'.n})
      /\ points'.cells \in Seq({points'.of})
  <2>1. CASE Aside
    BY <2>1 DEF Aside, Idle, Separate
  <2>2. CASE ~Aside /\ ReadMeta
    BY <2>2 DEF ReadMeta, Separate
  <2>3. CASE ~Aside /\ ReadVectors
    BY <2>3 DEF ReadVectors, Separate
  <2>4. CASE ~Aside /\ StorePoints
    BY <2>4 DEF StorePoints, Matches, Idle, Separate
  <2> QED BY <2>1, <2>2, <2>3, <2>4 DEF LoadStep
<1> QED BY <1>1, <1>2 DEF Separate, AtFile

(* Every step of the uploads, of a replacement and of the loader keeps it. *)
LEMMA LoaderStep == LoaderInv /\ [LoaderNext]_loaderVars => LoaderInv'
<1> SUFFICES ASSUME LoaderInv, [LoaderNext]_loaderVars PROVE LoaderInv'
  OBVIOUS
<1>1. met => met'
  BY DEF LoaderNext, PutStep, Open, Write, Received, Cut, Dies, CheckSize, Move, Describe,
         MarkDone, Replace, LoadStep, ReadMeta, ReadVectors, StorePoints, Aside, loaderVars
<1>2. CASE Separate
  <2>1. CASE \E s \in Senders : PutStep(s) \/ Cut(s)
    BY <1>2, <2>1, PutSteps
  <2>2. CASE LoadStep
    BY <1>2, <2>2, LoadSteps DEF LoaderInv
  <2>3. CASE (\E s \in Senders : Dies(s)) \/ Replace \/ UNCHANGED loaderVars
    <3>1. UNCHANGED <<put, tmp, inbox, loader, points>>
      BY <2>3 DEF Dies, Replace, loaderVars
    <3> QED BY <1>2, <3>1 DEF LoaderInv, Separate, AtFile
  <2> QED BY <2>1, <2>2, <2>3 DEF LoaderNext
<1> QED BY <1>1, <1>2 DEF LoaderInv

(* However many uploads of a book follow each other through its temporary file (gate.sh
   put), wherever they are cut short or left and however often the book is replaced, what
   load_book stores are vectors of the very text it stores with them; two uploads at the
   temporary file at once are the exception. *)
THEOREM LoadedVectorsAreOfTheBooksText ==
    LoaderInit /\ [][LoaderNext]_loaderVars => []LoadedIsWhole
<1>1. LoaderInit => LoaderInv
  <2> SUFFICES ASSUME LoaderInit PROVE Separate
    BY DEF LoaderInv
  <2>1. PICK text \in [Senders -> 1 .. MaxChunks] :
          put = [s \in Senders |-> [of |-> text[s], at |-> "ready", file |-> "lost", sent |-> 0]]
    BY DEF LoaderInit
  <2>2. put \in [Senders -> Puts] /\ \A s \in Senders : put[s].at = "ready"
    BY <2>1, LoaderAssumption DEF Puts, Stages
  <2>3. inbox = NoFile /\ loader.at = "idle" /\ points.cells = <<>>
    BY DEF LoaderInit, Idle
  <2> QED BY <2>2, <2>3 DEF Separate, AtFile
<1>2. LoaderInv => LoadedIsWhole
  BY DEF LoaderInv, Separate, LoadedIsWhole
<1> QED BY <1>1, <1>2, LoaderStep, PTL

-----------------------------------------------------------------------------
(* The fleet.  Queues first.                                               *)

(* A set of numbers that is not empty has a least one: gate.sh's first free line. *)
LEMMA LeastNumber ==
    ASSUME NEW S \in SUBSET Nat, S # {}
    PROVE  \E x \in S : \A y \in S : x <= y
<1>1. PICK x \in S : \A y \in S : ~ (<<y, x>> \in OpToRel(<, Nat))
  BY WFMin, NatLessThanWellFounded
<1>2. \A y \in S : ~ (y < x)
  BY <1>1 DEF OpToRel
<1> QED BY <1>2

(* gate.sh claim hands out a book that is free whenever there is one. *)
LEMMA NextBookIsFree ==
    Free # {} => NextBook \in Free
<1> SUFFICES ASSUME Free # {} PROVE NextBook \in Free
  OBVIOUS
<1> DEFINE Lines == {k \in DOMAIN Manifest : Manifest[k] \in Free}
<1>1. Lines \in SUBSET Nat
  BY FleetAssumption
<1>2. Lines # {}
  BY DEF Free, Books, ToSet
<1>3. PICK k \in Lines : \A j \in Lines : k <= j
  BY <1>1, <1>2, LeastNumber
<1>4. DOMAIN Manifest \subseteq Nat
  BY FleetAssumption
<1>5. \A j \in 1 .. k - 1 : j \in DOMAIN Manifest
  BY <1>3, FleetAssumption
<1>6. \A j \in 1 .. k - 1 : Manifest[j] \notin Free
  BY <1>1, <1>3, <1>5
<1>7. \E m \in DOMAIN Manifest : Manifest[m] \in Free /\ \A j \in 1 .. m - 1 : Manifest[j] \notin Free
  BY <1>3, <1>6
<1> QED BY <1>7 DEF NextBook

\* What a queue may hold, a book on its way, and what it means to be in a queue once.
Something == Item \union {Closing}
Copy(b) == [book |-> b]
In(q, item) == \E i \in 1 .. Len(q) : q[i] = item
OnceIn(q, item) == \A i, j \in 1 .. Len(q) : q[i] = item /\ q[j] = item => i = j
ClosesLast(q) == \A i \in 1 .. Len(q) : q[i] = Closing => i = Len(q)

(* A book on its way, an empty hand and the end of a queue are three different things
   (the None that worker.py puts last). *)
LEMMA Distinct ==
    /\ None # Closing
    /\ \A b : Copy(b) # None /\ Copy(b) # Closing /\ Copy(b).book = b /\ Has(Copy(b))
    /\ \A b, c : Copy(b) = Copy(c) => b = c
    /\ ~Has(None) /\ ~Has(Closing)
    /\ \A item \in Item : item = Copy(item.book) /\ item.book \in Books
    /\ \A b \in Books : Copy(b) \in Item
<1>1. \A b, c : Copy(b) = Copy(c) => b = c
  <2>1. \A b : Copy(b).book = b
    BY DEF Copy
  <2> QED BY <2>1
<1> QED BY <1>1 DEF None, Closing, Copy, Has, Item

(* What joins a queue (books.put, vectors.put) is in it, last and once. *)
LEMMA Appended ==
    ASSUME NEW q \in Seq(Something), NEW e \in Something
    PROVE  /\ Append(q, e) \in Seq(Something) /\ Len(Append(q, e)) = Len(q) + 1
           /\ Append(q, e) # <<>>
           /\ \A item : In(Append(q, e), item) <=> In(q, item) \/ item = e
           /\ \A item : OnceIn(q, item) /\ (item = e => ~In(q, item)) => OnceIn(Append(q, e), item)
           /\ ~In(q, Closing) => ClosesLast(Append(q, e))
<1> DEFINE r == Append(q, e)
<1>1. /\ r \in Seq(Something) /\ Len(r) = Len(q) + 1 /\ r # <<>>
      /\ \A i \in 1 .. Len(q) : r[i] = q[i]
      /\ r[Len(q) + 1] = e
  BY AppendProperties
<1>2. Len(q) \in Nat
  OBVIOUS
<1> HIDE DEF r
<1>3. \A i : i \in 1 .. Len(r) <=> i \in 1 .. Len(q) \/ i = Len(q) + 1
  BY <1>1, <1>2
<1>4. \A item : In(r, item) <=> In(q, item) \/ item = e
  BY <1>1, <1>2, <1>3 DEF In
<1>5. ASSUME NEW item, OnceIn(q, item), item = e => ~In(q, item)
      PROVE  OnceIn(r, item)
  BY <1>1, <1>3, <1>5 DEF In, OnceIn
<1>6. ~In(q, Closing) => ClosesLast(r)
  BY <1>1, <1>3 DEF In, ClosesLast
<1> QED BY <1>1, <1>4, <1>5, <1>6 DEF r

(* What leaves a queue is its head, and what was in it once is not in the rest; nothing
   is behind the end. *)
LEMMA Taken ==
    ASSUME NEW q \in Seq(Something), q # <<>>
    PROVE  /\ Head(q) \in Something /\ Tail(q) \in Seq(Something) /\ Len(Tail(q)) = Len(q) - 1
           /\ \A item : In(q, item) <=> item = Head(q) \/ In(Tail(q), item)
           /\ \A item : OnceIn(q, item) =>
                OnceIn(Tail(q), item) /\ (item = Head(q) => ~In(Tail(q), item))
           /\ ClosesLast(q) => ClosesLast(Tail(q)) /\ (Head(q) = Closing => Tail(q) = <<>>)
<1> DEFINE r == Tail(q)
<1>1. /\ Head(q) \in Something /\ r \in Seq(Something) /\ Len(r) = Len(q) - 1
      /\ \A i \in 1 .. Len(r) : r[i] = q[i + 1]
  BY HeadTailProperties
<1>2. Len(q) \in Nat \ {0} /\ Head(q) = q[1] /\ (Len(q) = 1 => r = <<>>)
  BY <1>1, EmptySeq
<1> HIDE DEF r
<1>3. \A i : i \in 1 .. Len(r) <=> i + 1 \in 2 .. Len(q) /\ i \in Int
  BY <1>1, <1>2
<1>4. \A i \in 1 .. Len(q) : i = 1 \/ (i - 1 \in 1 .. Len(r) /\ q[i] = r[i - 1])
  BY <1>1, <1>2
<1>5. \A item : In(q, item) <=> item = q[1] \/ In(r, item)
  BY <1>1, <1>2, <1>3, <1>4 DEF In
<1>6. ASSUME NEW item, OnceIn(q, item)
      PROVE  OnceIn(r, item) /\ (item = q[1] => ~In(r, item))
  <2>1. \A i \in 1 .. Len(r) : i + 1 \in 1 .. Len(q) /\ r[i] = q[i + 1] /\ i + 1 # 1
    BY <1>1, <1>2
  <2>2. OnceIn(r, item)
    BY <1>6, <2>1 DEF OnceIn
  <2>3. 1 \in 1 .. Len(q)
    BY <1>2
  <2> QED BY <1>6, <2>1, <2>2, <2>3 DEF OnceIn, In
<1>7. ASSUME ClosesLast(q)
      PROVE  ClosesLast(r) /\ (q[1] = Closing => r = <<>>)
  BY <1>1, <1>2, <1>7 DEF ClosesLast
<1> QED BY <1>1, <1>2, <1>5, <1>6, <1>7 DEF r

(* A queue that was just made holds nothing. *)
LEMMA EmptyQueue ==
    /\ <<>> \in Seq(Something) /\ Len(<<>>) = 0
    /\ \A item : ~In(<<>>, item) /\ OnceIn(<<>>, item)
    /\ ClosesLast(<<>>)
BY EmptySeq DEF In, OnceIn, ClosesLast
-----------------------------------------------------------------------------
(* What a running worker holds.                                            *)
Hands == [on : {TRUE}, main : BOOLEAN, fetch : [Fetchers -> Item \union {None, Closing}],
          books : Seq(Something), vectors : Seq(Something)]

\* A book that waits to be embedded, and one whose vectors wait.
Waits(h, b) == (\E f \in Fetchers : h.fetch[f] = Copy(b)) \/ In(h.books, Copy(b))
Ready(h, b) == In(h.vectors, Copy(b))

Once(h, b) ==
    /\ \A f, g \in Fetchers : h.fetch[f] = Copy(b) /\ h.fetch[g] = Copy(b) => f = g
    /\ \A f \in Fetchers : h.fetch[f] = Copy(b) => ~In(h.books, Copy(b))
    /\ ~(Waits(h, b) /\ Ready(h, b))
    /\ OnceIn(h.books, Copy(b)) /\ OnceIn(h.vectors, Copy(b))

\* The end of a queue is its last element, and nothing is left before it.
Ending(h) ==
    /\ Len(h.books) <= BooksMax /\ Len(h.vectors) <= VectorsMax
    /\ ClosesLast(h.books) /\ ClosesLast(h.vectors)
    /\ In(h.books, Closing) \/ In(h.vectors, Closing) => \A f \in Fetchers : h.fetch[f] = Closing
    /\ In(h.vectors, Closing) => h.books = <<>>

(* A book is in a worker's hands when it waits to be embedded or its vectors wait. *)
LEMMA HeldIs ==
    ASSUME NEW w \in Workers, worker[w] \in Hands, NEW b
    PROVE  b \in Held(w) <=> Waits(worker[w], b) \/ Ready(worker[w], b)
<1> DEFINE h == worker[w]
<1>1. h.on /\ DOMAIN h.fetch = Fetchers /\ h.fetch \in [Fetchers -> Item \union {None, Closing}]
      /\ h.books \in Seq(Something) /\ h.vectors \in Seq(Something)
  BY DEF Hands
<1> DEFINE things == Range(h.fetch) \union ToSet(h.books) \union ToSet(h.vectors)
<1>2. Held(w) = {item.book : item \in {i \in things : Has(i)}}
  BY <1>1 DEF Held, On
<1>3. \A i : i \in things <=> (\E f \in Fetchers : h.fetch[f] = i) \/ In(h.books, i) \/ In(h.vectors, i)
  <2>1. \A i : i \in Range(h.fetch) <=> \E f \in Fetchers : h.fetch[f] = i
    BY <1>1 DEF Range
  <2>2. \A q \in Seq(Something) : \A i : i \in ToSet(q) <=> In(q, i)
    BY DEF ToSet, In
  <2> QED BY <1>1, <2>1, <2>2
<1>4. things \subseteq Item \union {None, Closing}
  BY <1>1 DEF Range, ToSet, Something
<1> HIDE DEF things
<1>5. \A i \in things : Has(i) <=> i \in Item
  BY <1>4, Distinct
<1>6. b \in Held(w) <=> Copy(b) \in things
  <2>1. ASSUME b \in Held(w) PROVE Copy(b) \in things
    BY <1>2, <1>5, <2>1, Distinct
  <2>2. ASSUME Copy(b) \in things PROVE b \in Held(w)
    BY <1>2, <2>2, Distinct
  <2> QED BY <2>1, <2>2
<1> QED BY <1>3, <1>6 DEF Waits, Ready

Started == Fresh \in Hands /\ Ending(Fresh) /\ \A b : ~Waits(Fresh, b) /\ ~Ready(Fresh, b) /\ Once(Fresh, b)

(* A worker that has just started (worker.py main) holds nothing. *)
LEMMA FreshHands == Started
<1>1. Fresh \in Hands
  BY EmptyQueue DEF Fresh, Hands
<1>2. \A b, f : f \in Fetchers => Fresh.fetch[f] # Copy(b)
  BY Distinct DEF Fresh
<1>3. Fresh.books = <<>> /\ Fresh.vectors = <<>>
  BY DEF Fresh
<1> QED BY <1>1, <1>2, <1>3, EmptyQueue, FleetAssumption DEF Started, Ending, Waits, Ready, Once

(* A fetcher that holds nothing takes something (worker.py fetcher), *)
LEMMA HandsTake ==
    ASSUME NEW h \in Hands, Ending(h), NEW f \in Fetchers, h.fetch[f] = None,
           NEW item \in Item \union {Closing}, NEW k, k = [h EXCEPT !.fetch[f] = item]
    PROVE  /\ k \in Hands /\ Ending(k)
           /\ \A b : Waits(k, b) <=> Waits(h, b) \/ item = Copy(b)
           /\ \A b : Ready(k, b) <=> Ready(h, b)
           /\ \A b : Once(h, b) /\ (item = Copy(b) => ~Waits(h, b) /\ ~Ready(h, b)) => Once(k, b)
<1>1. /\ k \in Hands /\ k.books = h.books /\ k.vectors = h.vectors
      /\ k.fetch = [h.fetch EXCEPT ![f] = item]
  BY DEF Hands, Something
<1>2. h.fetch \in [Fetchers -> Item \union {None, Closing}]
  BY DEF Hands
<1>3. k.fetch[f] = item /\ \A g \in Fetchers : g # f => k.fetch[g] = h.fetch[g]
  BY <1>1, <1>2
<1>4. \A b : h.fetch[f] # Copy(b)
  BY Distinct
<1>5. Ending(k)
  BY <1>1, <1>3, Distinct DEF Ending
<1>6. \A b : Waits(k, b) <=> Waits(h, b) \/ item = Copy(b)
  BY <1>1, <1>3, <1>4 DEF Waits
<1>7. \A b : Ready(k, b) <=> Ready(h, b)
  BY <1>1 DEF Ready
<1>8. ASSUME NEW b, Once(h, b), item = Copy(b) => ~Waits(h, b) /\ ~Ready(h, b)
      PROVE  Once(k, b)
  <2>1. \A g \in Fetchers : k.fetch[g] = Copy(b) => ~In(k.books, Copy(b))
    BY <1>1, <1>3, <1>8 DEF Once, Waits
  <2>2. \A g, j \in Fetchers : k.fetch[g] = Copy(b) /\ k.fetch[j] = Copy(b) => g = j
    BY <1>3, <1>4, <1>8 DEF Once, Waits
  <2> QED BY <1>1, <1>6, <1>7, <1>8, <2>1, <2>2 DEF Once
<1> QED BY <1>1, <1>5, <1>6, <1>7, <1>8

(* and lets go of it; *)
LEMMA HandsDrop ==
    ASSUME NEW h \in Hands, Ending(h), NEW f \in Fetchers, NEW item \in Item, h.fetch[f] = item,
           NEW k, k = [h EXCEPT !.fetch[f] = None]
    PROVE  /\ k \in Hands /\ Ending(k)
           /\ \A b : Waits(h, b) <=> Waits(k, b) \/ item = Copy(b)
           /\ \A b : Ready(k, b) <=> Ready(h, b)
           /\ \A b : Once(h, b) => Once(k, b) /\ (item = Copy(b) => ~Waits(k, b) /\ ~Ready(k, b))
           /\ ~In(h.books, Closing) /\ ~In(h.vectors, Closing)
<1>1. /\ k \in Hands /\ k.books = h.books /\ k.vectors = h.vectors
      /\ k.fetch = [h.fetch EXCEPT ![f] = None]
  BY DEF Hands
<1>2. h.fetch \in [Fetchers -> Item \union {None, Closing}]
  BY DEF Hands
<1>3. k.fetch[f] = None /\ \A g \in Fetchers : g # f => k.fetch[g] = h.fetch[g]
  BY <1>1, <1>2
<1>4. ~In(h.books, Closing) /\ ~In(h.vectors, Closing)
  <2>1. item # Closing
    BY Distinct
  <2> QED BY <2>1 DEF Ending
<1>5. Ending(k)
  BY <1>1, <1>4 DEF Ending
<1>6. \A b : Copy(b) # None
  BY Distinct
<1>7. \A b : Waits(h, b) <=> Waits(k, b) \/ item = Copy(b)
  BY <1>1, <1>3, <1>6 DEF Waits
<1>8. \A b : Ready(k, b) <=> Ready(h, b)
  BY <1>1 DEF Ready
<1>9. ASSUME NEW b, Once(h, b)
      PROVE  Once(k, b) /\ (item = Copy(b) => ~Waits(k, b) /\ ~Ready(k, b))
  <2>1. \A g \in Fetchers : k.fetch[g] = Copy(b) => h.fetch[g] = Copy(b) /\ g # f
    BY <1>3, <1>6
  <2>2. Once(k, b)
    BY <1>1, <1>7, <1>8, <1>9, <2>1 DEF Once
  <2>3. item = Copy(b) => ~Waits(k, b) /\ ~Ready(k, b)
    BY <1>1, <1>7, <1>8, <1>9, <2>1 DEF Once, Waits
  <2> QED BY <2>2, <2>3
<1> QED BY <1>1, <1>4, <1>5, <1>7, <1>8, <1>9

(* something joins the books that wait for the model, *)
LEMMA HandsQueue ==
    ASSUME NEW h \in Hands, Ending(h), NEW item \in Something, Len(h.books) < BooksMax,
           ~In(h.books, Closing), ~In(h.vectors, Closing),
           item = Closing => \A f \in Fetchers : h.fetch[f] = Closing,
           NEW k, k = [h EXCEPT !.books = Append(@, item)]
    PROVE  /\ k \in Hands /\ Ending(k)
           /\ \A b : Waits(k, b) <=> Waits(h, b) \/ item = Copy(b)
           /\ \A b : Ready(k, b) <=> Ready(h, b)
           /\ \A b : Once(h, b) /\ (item = Copy(b) => ~Waits(h, b) /\ ~Ready(h, b)) => Once(k, b)
<1>1. h.books \in Seq(Something) /\ h.vectors \in Seq(Something)
  BY DEF Hands
<1>2. /\ k.books = Append(h.books, item) /\ k.fetch = h.fetch /\ k.vectors = h.vectors
      /\ k.stop = h.stop /\ k.on = h.on
  BY DEF Hands
<1>3. /\ Append(h.books, item) \in Seq(Something) /\ Len(Append(h.books, item)) = Len(h.books) + 1
      /\ \A i : In(Append(h.books, item), i) <=> In(h.books, i) \/ i = item
      /\ \A i : OnceIn(h.books, i) /\ (i = item => ~In(h.books, i)) => OnceIn(Append(h.books, item), i)
      /\ ~In(h.books, Closing) => ClosesLast(Append(h.books, item))
  BY <1>1, Appended
<1>4. k \in Hands
  BY <1>3 DEF Hands
<1>5. Ending(k)
  BY <1>1, <1>2, <1>3, FleetAssumption DEF Ending
<1>6. \A b : Waits(k, b) <=> Waits(h, b) \/ item = Copy(b)
  BY <1>2, <1>3 DEF Waits
<1>7. \A b : Ready(k, b) <=> Ready(h, b)
  BY <1>2 DEF Ready
<1>8. ASSUME NEW b, Once(h, b), item = Copy(b) => ~Waits(h, b) /\ ~Ready(h, b)
      PROVE  Once(k, b)
  BY <1>2, <1>3, <1>6, <1>7, <1>8 DEF Once, Waits
<1> QED BY <1>4, <1>5, <1>6, <1>7, <1>8

(* and leaves them: a book that is given up, or the head of the queue. *)
LEMMA HandsUnqueue ==
    ASSUME NEW h \in Hands, Ending(h), h.books # <<>>,
           NEW k, k = [h EXCEPT !.books = Tail(@)]
    PROVE  /\ k \in Hands /\ Ending(k)
           /\ \A b : Waits(k, b) => Waits(h, b)
           /\ \A b : Waits(h, b) => Waits(k, b) \/ Head(h.books) = Copy(b)
           /\ \A b : Head(h.books) = Copy(b) => Waits(h, b)
           /\ \A b : Ready(k, b) <=> Ready(h, b)
           /\ \A b : Once(h, b) => /\ Once(k, b)
                                   /\ Head(h.books) = Copy(b) => ~Waits(k, b) /\ ~Ready(k, b)
<1>1. h.books \in Seq(Something) /\ h.vectors \in Seq(Something)
  BY DEF Hands
<1>2. /\ k.books = Tail(h.books) /\ k.fetch = h.fetch /\ k.vectors = h.vectors
      /\ k.stop = h.stop /\ k.on = h.on
  BY DEF Hands
<1>3. /\ Head(h.books) \in Something /\ Tail(h.books) \in Seq(Something)
      /\ Len(Tail(h.books)) = Len(h.books) - 1
      /\ \A i : In(h.books, i) <=> i = Head(h.books) \/ In(Tail(h.books), i)
      /\ \A i : OnceIn(h.books, i) =>
                OnceIn(Tail(h.books), i) /\ (i = Head(h.books) => ~In(Tail(h.books), i))
      /\ ClosesLast(h.books) => ClosesLast(Tail(h.books))
  BY <1>1, Taken
<1>4. k \in Hands
  BY <1>3 DEF Hands
<1>5. Ending(k)
  <2>1. Len(h.books) \in Nat
    BY <1>1
  <2>2. ~In(h.vectors, Closing)
    BY DEF Ending
  <2> QED BY <1>2, <1>3, <2>1, <2>2, FleetAssumption DEF Ending
<1>6. \A b : Waits(k, b) => Waits(h, b)
  BY <1>2, <1>3 DEF Waits
<1>7. \A b : Waits(h, b) => Waits(k, b) \/ Head(h.books) = Copy(b)
  BY <1>2, <1>3 DEF Waits
<1>8. \A b : Head(h.books) = Copy(b) => Waits(h, b)
  BY <1>3 DEF Waits
<1>9. \A b : Ready(k, b) <=> Ready(h, b)
  BY <1>2 DEF Ready
<1>10. ASSUME NEW b, Once(h, b)
       PROVE  Once(k, b) /\ (Head(h.books) = Copy(b) => ~Waits(k, b) /\ ~Ready(k, b))
  <2>1. OnceIn(k.books, Copy(b)) /\ (Head(h.books) = Copy(b) => ~In(k.books, Copy(b)))
    BY <1>2, <1>3, <1>10 DEF Once
  <2>2. Once(k, b)
    BY <1>2, <1>3, <1>6, <1>9, <1>10, <2>1 DEF Once
  <2>3. ASSUME Head(h.books) = Copy(b) PROVE ~Waits(k, b) /\ ~Ready(k, b)
    <3>1. In(h.books, Copy(b))
      BY <1>3, <2>3
    <3> QED BY <1>2, <1>8, <1>9, <1>10, <2>1, <2>3, <3>1 DEF Once, Waits
  <2> QED BY <2>2, <2>3
<1> QED BY <1>4, <1>5, <1>6, <1>7, <1>8, <1>9, <1>10

(* What leaves the books joins the uploader's queue (worker.py main), *)
LEMMA HandsEmbed ==
    ASSUME NEW h \in Hands, Ending(h), h.books # <<>>, Len(h.vectors) < VectorsMax,
           NEW k, k = [h EXCEPT !.vectors = Append(@, Head(h.books)), !.books = Tail(@)]
    PROVE  /\ k \in Hands /\ Ending(k)
           /\ \A b : Waits(k, b) => Waits(h, b)
           /\ \A b : Ready(h, b) => Ready(k, b)
           /\ \A b : Ready(k, b) => Ready(h, b) \/ Waits(h, b)
           /\ \A b : Waits(h, b) => Waits(k, b) \/ Ready(k, b)
           /\ \A b : Once(h, b) => Once(k, b)
<1> DEFINE m == [h EXCEPT !.books = Tail(@)]
<1> DEFINE item == Head(h.books)
<1>1. /\ m \in Hands /\ Ending(m)
      /\ \A b : Waits(m, b) => Waits(h, b)
      /\ \A b : Waits(h, b) => Waits(m, b) \/ item = Copy(b)
      /\ \A b : item = Copy(b) => Waits(h, b)
      /\ \A b : Ready(m, b) <=> Ready(h, b)
      /\ \A b : Once(h, b) => Once(m, b) /\ (item = Copy(b) => ~Waits(m, b) /\ ~Ready(m, b))
  BY HandsUnqueue
<1>2. m.vectors = h.vectors /\ m.fetch = h.fetch /\ m.books = Tail(h.books)
  BY DEF Hands
<1>3. k = [m EXCEPT !.vectors = Append(h.vectors, item)]
  BY DEF Hands
<1>4. h.books \in Seq(Something) /\ h.vectors \in Seq(Something)
  BY DEF Hands
<1>5. /\ item \in Something
      /\ ClosesLast(h.books) => (item = Closing => Tail(h.books) = <<>>)
      /\ item = Closing => In(h.books, Closing)
  BY <1>4, Taken
<1>6. /\ Append(h.vectors, item) \in Seq(Something)
      /\ Len(Append(h.vectors, item)) = Len(h.vectors) + 1
      /\ \A i : In(Append(h.vectors, item), i) <=> In(h.vectors, i) \/ i = item
      /\ \A i : OnceIn(h.vectors, i) /\ (i = item => ~In(h.vectors, i)) => OnceIn(Append(h.vectors, item), i)
      /\ ~In(h.vectors, Closing) => ClosesLast(Append(h.vectors, item))
  BY <1>4, <1>5, Appended
<1>7. ~In(h.vectors, Closing)
  BY DEF Ending
<1> HIDE DEF m, item
<1>8. /\ k \in Hands /\ k.vectors = Append(h.vectors, item) /\ k.books = m.books /\ k.fetch = m.fetch
  BY <1>1, <1>3, <1>6 DEF Hands
<1>9. Ending(k)
  <2>1. Len(h.vectors) \in Nat
    BY <1>4
  <2>2. In(k.vectors, Closing) => m.books = <<>> /\ \A f \in Fetchers : k.fetch[f] = Closing
    BY <1>2, <1>5, <1>6, <1>7, <1>8 DEF Ending
  <2>3. In(k.books, Closing) => \A f \in Fetchers : k.fetch[f] = Closing
    BY <1>1, <1>8 DEF Ending
  <2>4. Len(k.vectors) <= VectorsMax
    BY <1>6, <1>8, <2>1, FleetAssumption
  <2>5. ClosesLast(k.vectors)
    BY <1>6, <1>7, <1>8
  <2>6. Len(k.books) <= BooksMax /\ ClosesLast(k.books)
    BY <1>1, <1>8 DEF Ending
  <2> QED BY <1>8, <2>2, <2>3, <2>4, <2>5, <2>6 DEF Ending
<1>10. \A b : Waits(k, b) <=> Waits(m, b)
  BY <1>8 DEF Waits
<1>11. \A b : Ready(k, b) <=> Ready(h, b) \/ item = Copy(b)
  BY <1>6, <1>8 DEF Ready
<1>12. ASSUME NEW b, Once(h, b) PROVE Once(k, b)
  <2>1. Once(m, b) /\ (item = Copy(b) => ~Waits(m, b) /\ ~Ready(m, b))
    BY <1>1, <1>12
  <2>2. OnceIn(k.vectors, Copy(b))
    BY <1>2, <1>6, <1>8, <2>1 DEF Once, Ready
  <2>3. ~(Waits(k, b) /\ Ready(k, b))
    BY <1>1, <1>10, <1>11, <2>1 DEF Once
  <2> QED BY <1>8, <2>1, <2>2, <2>3 DEF Once
<1> QED BY <1>1, <1>8, <1>9, <1>10, <1>11, <1>12

(* and leaves it when it has arrived (worker.py uploader). *)
LEMMA HandsUpload ==
    ASSUME NEW h \in Hands, Ending(h), h.vectors # <<>>,
           NEW k, k = [h EXCEPT !.vectors = Tail(@)]
    PROVE  /\ k \in Hands /\ Ending(k)
           /\ \A b : Waits(k, b) <=> Waits(h, b)
           /\ \A b : Ready(k, b) => Ready(h, b)
           /\ \A b : Head(h.vectors) = Copy(b) => Ready(h, b)
           /\ \A b : Once(h, b) => /\ Once(k, b)
                                   /\ Head(h.vectors) = Copy(b) => ~Waits(k, b) /\ ~Ready(k, b)
<1>1. h.books \in Seq(Something) /\ h.vectors \in Seq(Something)
  BY DEF Hands
<1>2. /\ k.vectors = Tail(h.vectors) /\ k.fetch = h.fetch /\ k.books = h.books
      /\ k.stop = h.stop /\ k.on = h.on
  BY DEF Hands
<1>3. /\ Head(h.vectors) \in Something /\ Tail(h.vectors) \in Seq(Something)
      /\ Len(Tail(h.vectors)) = Len(h.vectors) - 1
      /\ \A i : In(h.vectors, i) <=> i = Head(h.vectors) \/ In(Tail(h.vectors), i)
      /\ \A i : OnceIn(h.vectors, i) =>
                OnceIn(Tail(h.vectors), i) /\ (i = Head(h.vectors) => ~In(Tail(h.vectors), i))
      /\ ClosesLast(h.vectors) => ClosesLast(Tail(h.vectors))
  BY <1>1, Taken
<1>4. k \in Hands
  BY <1>3 DEF Hands
<1>5. Ending(k)
  <2>1. Len(h.vectors) \in Nat
    BY <1>1
  <2> QED BY <1>2, <1>3, <2>1, FleetAssumption DEF Ending
<1>6. \A b : Waits(k, b) <=> Waits(h, b)
  BY <1>2 DEF Waits
<1>7. \A b : Ready(k, b) => Ready(h, b)
  BY <1>2, <1>3 DEF Ready
<1>8. \A b : Head(h.vectors) = Copy(b) => Ready(h, b)
  BY <1>3 DEF Ready
<1>9. ASSUME NEW b, Once(h, b)
      PROVE  Once(k, b) /\ (Head(h.vectors) = Copy(b) => ~Waits(k, b) /\ ~Ready(k, b))
  <2>1. OnceIn(k.vectors, Copy(b)) /\ (Head(h.vectors) = Copy(b) => ~In(k.vectors, Copy(b)))
    BY <1>2, <1>3, <1>9 DEF Once
  <2>2. Once(k, b)
    BY <1>2, <1>6, <1>7, <1>9, <2>1 DEF Once
  <2>3. Head(h.vectors) = Copy(b) => ~Waits(k, b) /\ ~Ready(k, b)
    BY <1>6, <1>8, <1>9, <2>1 DEF Once, Ready
  <2> QED BY <2>2, <2>3
<1> QED BY <1>4, <1>5, <1>6, <1>7, <1>8, <1>9

-----------------------------------------------------------------------------
(* The inductive invariant.  A book whose claim was never given away is in one place
   at most; before its vectors are there the worker that has it holds the claim, and
   the book has not ended. *)
Mine(w, b) == claims[b] \in [owner : {w}, aged : BOOLEAN]

BookOK(b) ==
    /\ ~(b \in done /\ b \in failed)
    /\ \A w \in Workers : On(w) =>
        /\ Once(worker[w], b)
        /\ Waits(worker[w], b) => Mine(w, b) /\ b \notin done /\ b \notin failed
        /\ Ready(worker[w], b) => b \notin failed /\ (b \in done \/ Mine(w, b))
    /\ \A v, w \in Workers : On(v) /\ On(w) /\ v # w => ~(Ready(worker[v], b) /\ Ready(worker[w], b))

FleetShape ==
    /\ worker \in [Workers -> {Off} \union Hands]
    /\ \A w \in Workers : On(w) => Ending(worker[w])
    /\ claims \in [Books -> {Nobody} \union [owner : Workers, aged : BOOLEAN]]
    /\ done \subseteq Books /\ failed \subseteq Books /\ old \subseteq Books
    /\ loop \subseteq Workers /\ stops \subseteq Workers

FleetInv == FleetShape /\ \A b \in Books \ old : BookOK(b)

(* A claim is one worker's (the owner in claims/). *)
LEMMA ClaimsAreExclusive ==
    ASSUME NEW b, NEW v, NEW w
    PROVE  /\ Mine(v, b) => claims[b] # Nobody /\ claims[b].owner = v
           /\ Mine(v, b) /\ Mine(w, b) => v = w
BY DEF Mine, Nobody

(* A process that runs is told from one that does not. *)
LEMMA OffIsOff == ~Off.on /\ \A h \in Hands : h.on /\ h # Off
<1>1. Off.on = FALSE
  BY DEF Off
<1>2. \A h \in Hands : h.on = TRUE
  BY DEF Hands
<1> QED BY <1>1, <1>2

(* A step of one worker leaves the others as they are. *)
LEMMA NewHands ==
    ASSUME FleetShape, NEW w \in Workers, NEW k \in {Off} \union Hands, k # Off => Ending(k),
           worker' = [worker EXCEPT ![w] = k]
    PROVE  /\ worker' \in [Workers -> {Off} \union Hands]
           /\ worker'[w] = k /\ \A v \in Workers : v # w => worker'[v] = worker[v]
           /\ On(w)' <=> k # Off
           /\ \A v \in Workers : v # w => (On(v)' <=> On(v))
           /\ \A v \in Workers : On(v)' => Ending(worker'[v])
<1>1. /\ worker' \in [Workers -> {Off} \union Hands]
      /\ worker'[w] = k /\ \A v \in Workers : v # w => worker'[v] = worker[v]
  BY DEF FleetShape
<1>2. k.on <=> k # Off
  BY OffIsOff
<1> QED BY <1>1, <1>2 DEF FleetShape, On

(* What a running worker holds has its shape. *)
LEMMA OnHands ==
    ASSUME FleetShape, NEW w \in Workers, On(w)
    PROVE  worker[w] \in Hands /\ worker[w] # Off /\ Ending(worker[w])
BY OffIsOff DEF FleetShape, On

(* Books pass on inside a worker, or are lost with it: the gate knows nothing of it. *)
LEMMA Passing ==
    ASSUME FleetInv, NEW w \in Workers, NEW k \in {Off} \union Hands,
           k # Off => /\ On(w) /\ Ending(k)
                      /\ \A b : Once(worker[w], b) => Once(k, b)
                      /\ \A b : Waits(k, b) => Waits(worker[w], b)
                      /\ \A b : Ready(k, b) => Ready(worker[w], b) \/ Waits(worker[w], b),
           worker' = [worker EXCEPT ![w] = k], UNCHANGED gate,
           loop' \subseteq Workers, stops' \subseteq Workers
    PROVE  FleetInv'
<1>1. /\ worker' \in [Workers -> {Off} \union Hands]
      /\ worker'[w] = k /\ \A v \in Workers : v # w => worker'[v] = worker[v]
      /\ On(w)' <=> k # Off
      /\ \A v \in Workers : v # w => (On(v)' <=> On(v))
      /\ \A v \in Workers : On(v)' => Ending(worker'[v])
  BY NewHands DEF FleetInv
<1>2. FleetShape'
  BY <1>1 DEF FleetInv, FleetShape, gate
<1>3. ASSUME NEW b \in Books \ old PROVE BookOK(b)'
  <2>1. BookOK(b)
    BY DEF FleetInv
  <2>2. \A v : Mine(v, b)' <=> Mine(v, b)
    BY DEF Mine, gate
  <2>3. \A v \in Workers : On(v)' =>
          /\ On(v) /\ Once(worker'[v], b)
          /\ Waits(worker'[v], b) => Waits(worker[v], b)
          /\ Ready(worker'[v], b) => Ready(worker[v], b) \/ Waits(worker[v], b)
    BY <1>1, <2>1 DEF BookOK
  <2>4. \A v \in Workers : On(v)' =>
          /\ Once(worker'[v], b)
          /\ Waits(worker'[v], b) => Mine(v, b)' /\ b \notin done /\ b \notin failed
          /\ Ready(worker'[v], b) => b \notin failed /\ (b \in done \/ Mine(v, b)')
    BY <2>1, <2>2, <2>3 DEF BookOK
  <2>5. ASSUME NEW u \in Workers, NEW v \in Workers, On(u)', On(v)', u # v,
               Ready(worker'[u], b), Ready(worker'[v], b)
        PROVE  FALSE
    <3>1. Ready(worker[u], b) \/ Waits(worker[u], b)
      BY <2>3, <2>5
    <3>2. Ready(worker[v], b) \/ Waits(worker[v], b)
      BY <2>3, <2>5
    <3>3. On(u) /\ On(v)
      BY <2>3, <2>5
    <3>4. ~(Ready(worker[u], b) /\ Ready(worker[v], b))
      BY <2>1, <2>5, <3>3 DEF BookOK
    <3>5. b \notin done /\ Mine(u, b) /\ Mine(v, b)
      BY <2>1, <3>1, <3>2, <3>3, <3>4 DEF BookOK
    <3> QED BY <2>5, <3>5, ClaimsAreExclusive
  <2>6. done' = done /\ failed' = failed /\ old' = old
    BY DEF gate
  <2> QED BY <2>1, <2>4, <2>5, <2>6 DEF BookOK
<1>4. old' = old
  BY DEF gate
<1> QED BY <1>2, <1>3, <1>4 DEF FleetInv

(* A book is given up by the worker that has it (gate.sh fail). *)
LEMMA GivingUp ==
    ASSUME FleetInv, NEW w \in Workers, On(w), NEW c \in Books, Waits(worker[w], c),
           NEW k \in Hands, Ending(k),
           \A b : Once(worker[w], b) => Once(k, b) /\ (b = c => ~Waits(k, b) /\ ~Ready(k, b)),
           \A b : Waits(k, b) => Waits(worker[w], b),
           \A b : Ready(k, b) => Ready(worker[w], b),
           worker' = [worker EXCEPT ![w] = k], GateFail(c), UNCHANGED shells
    PROVE  FleetInv'
<1>1. k # Off
  BY OffIsOff
<1>2. /\ worker' \in [Workers -> {Off} \union Hands]
      /\ worker'[w] = k /\ \A v \in Workers : v # w => worker'[v] = worker[v]
      /\ \A v \in Workers : v # w => (On(v)' <=> On(v))
      /\ \A v \in Workers : On(v)' => Ending(worker'[v])
  BY <1>1, NewHands DEF FleetInv
<1>3. /\ claims' = [b \in Books |-> IF b = c THEN Nobody ELSE claims[b]]
      /\ failed' = failed \union {c} /\ done' = done /\ old' = old
  BY DEF GateFail, Released
<1>4. FleetShape'
  BY <1>2, <1>3 DEF FleetInv, FleetShape, shells
<1>5. ASSUME NEW b \in Books \ old PROVE BookOK(b)'
  <2>1. BookOK(b)
    BY DEF FleetInv
  <2>2. \A v \in Workers : On(v)' =>
          /\ On(v) /\ Once(worker'[v], b)
          /\ Waits(worker'[v], b) => Waits(worker[v], b)
          /\ Ready(worker'[v], b) => Ready(worker[v], b)
    BY <1>2, <2>1 DEF BookOK
  <2>3. CASE b = c
    <3>1. Mine(w, b) /\ b \notin done
      BY <2>1, <2>3 DEF BookOK
    <3>2. \A v \in Workers : v # w /\ On(v) => ~Waits(worker[v], b) /\ ~Ready(worker[v], b)
      BY <2>1, <3>1, ClaimsAreExclusive DEF BookOK
    <3>3. ~Waits(worker'[w], b) /\ ~Ready(worker'[w], b)
      BY <1>2, <2>1, <2>3 DEF BookOK
    <3>4. \A v \in Workers : On(v)' => ~Waits(worker'[v], b) /\ ~Ready(worker'[v], b)
      BY <2>2, <3>2, <3>3
    <3> QED BY <1>3, <2>2, <3>1, <3>4 DEF BookOK
  <2>4. CASE b # c
    <3>1. \A v : Mine(v, b)' <=> Mine(v, b)
      BY <1>3, <2>4 DEF Mine
    <3>2. \A v \in Workers : On(v)' =>
            /\ Once(worker'[v], b)
            /\ Waits(worker'[v], b) => Mine(v, b)' /\ b \notin done /\ b \notin failed
            /\ Ready(worker'[v], b) => b \notin failed /\ (b \in done \/ Mine(v, b)')
      BY <2>1, <2>2, <3>1 DEF BookOK
    <3>3. \A u, v \in Workers : On(u)' /\ On(v)' /\ u # v =>
            ~(Ready(worker'[u], b) /\ Ready(worker'[v], b))
      BY <2>1, <2>2 DEF BookOK
    <3> QED BY <1>3, <2>1, <2>4, <3>2, <3>3 DEF BookOK
  <2> QED BY <2>3, <2>4
<1> QED BY <1>3, <1>4, <1>5 DEF FleetInv

(* The vectors of a book have arrived (gate.sh put); the worker may not know. *)
LEMMA Arriving ==
    ASSUME FleetInv, NEW w \in Workers, On(w), NEW c \in Books, Ready(worker[w], c),
           NEW k \in Hands, Ending(k),
           \A b : Once(worker[w], b) => Once(k, b),
           \A b : Waits(k, b) => Waits(worker[w], b),
           \A b : Ready(k, b) => Ready(worker[w], b),
           worker' = [worker EXCEPT ![w] = k],
           done' = done \union {c}, claims' = Released({c}), UNCHANGED <<failed, old, shells>>
    PROVE  FleetInv'
<1>1. k # Off
  BY OffIsOff
<1>2. /\ worker' \in [Workers -> {Off} \union Hands]
      /\ worker'[w] = k /\ \A v \in Workers : v # w => worker'[v] = worker[v]
      /\ \A v \in Workers : v # w => (On(v)' <=> On(v))
      /\ \A v \in Workers : On(v)' => Ending(worker'[v])
  BY <1>1, NewHands DEF FleetInv
<1>3. claims' = [b \in Books |-> IF b = c THEN Nobody ELSE claims[b]]
  BY DEF Released
<1>4. FleetShape'
  BY <1>2, <1>3 DEF FleetInv, FleetShape, shells
<1>5. ASSUME NEW b \in Books \ old PROVE BookOK(b)'
  <2>1. BookOK(b)
    BY DEF FleetInv
  <2>2. \A v \in Workers : On(v)' =>
          /\ On(v) /\ Once(worker'[v], b)
          /\ Waits(worker'[v], b) => Waits(worker[v], b)
          /\ Ready(worker'[v], b) => Ready(worker[v], b)
    BY <1>2, <2>1 DEF BookOK
  <2>3. \A u, v \in Workers : On(u)' /\ On(v)' /\ u # v =>
          ~(Ready(worker'[u], b) /\ Ready(worker'[v], b))
    BY <2>1, <2>2 DEF BookOK
  <2>4. CASE b = c
    <3>1. b \notin failed /\ (b \in done \/ Mine(w, b)) /\ ~Waits(worker[w], b)
      BY <2>1, <2>4 DEF BookOK, Once
    <3>2. \A v \in Workers : On(v) => ~Waits(worker[v], b)
      BY <2>1, <3>1, ClaimsAreExclusive DEF BookOK
    <3> QED BY <2>2, <2>3, <2>4, <3>1, <3>2 DEF BookOK
  <2>5. CASE b # c
    <3>1. \A v : Mine(v, b)' <=> Mine(v, b)
      BY <1>3, <2>5 DEF Mine
    <3>2. \A v \in Workers : On(v)' =>
            /\ Once(worker'[v], b)
            /\ Waits(worker'[v], b) => Mine(v, b)' /\ b \notin done /\ b \notin failed
            /\ Ready(worker'[v], b) => b \notin failed /\ (b \in done \/ Mine(v, b)')
      BY <2>1, <2>2, <3>1 DEF BookOK
    <3> QED BY <2>1, <2>3, <2>5, <3>2 DEF BookOK
  <2> QED BY <2>4, <2>5
<1> QED BY <1>4, <1>5 DEF FleetInv

(* A step that touches neither a worker nor the gate changes nothing of it. *)
LEMMA Untouched ==
    ASSUME FleetInv, worker' = worker, claims' = claims,
           done' = done, failed' = failed, old' = old,
           loop' \subseteq Workers, stops' \subseteq Workers
    PROVE  FleetInv'
<1>1. \A w \in Workers : On(w)' <=> On(w)
  BY DEF On
<1>2. \A b, v : Mine(v, b)' <=> Mine(v, b)
  BY DEF Mine
<1> QED BY <1>1, <1>2 DEF FleetInv, FleetShape, BookOK

(* A worker that begins, by hand or because run.sh starts it again, releases its own
   claims and nobody else's (gate.sh release). *)
LEMMA StartStep == ASSUME FleetInv, NEW w \in Workers, Start(w) \/ Restart(w) PROVE FleetInv'
<1>0. Begin(w) /\ loop' \subseteq Workers /\ stops' \subseteq Workers
  BY DEF Start, Restart, shells, FleetInv, FleetShape
<1> USE <1>0 DEF Begin
<1>1. Fresh \in Hands /\ Ending(Fresh) /\ \A b : ~Waits(Fresh, b) /\ ~Ready(Fresh, b) /\ Once(Fresh, b)
  BY FreshHands DEF Started
<1>2. Fresh # Off
  BY <1>1, OffIsOff
<1>3. /\ worker' \in [Workers -> {Off} \union Hands]
      /\ worker'[w] = Fresh /\ \A v \in Workers : v # w => worker'[v] = worker[v]
      /\ \A v \in Workers : v # w => (On(v)' <=> On(v))
      /\ \A v \in Workers : On(v)' => Ending(worker'[v])
  BY <1>1, <1>2, NewHands DEF FleetInv
<1>4. claims' = [b \in Books |-> IF b \in Unfinished(w) THEN Nobody ELSE claims[b]]
  BY DEF Released
<1>5. FleetShape'
  BY <1>3, <1>4 DEF FleetInv, FleetShape
<1>6. ASSUME NEW b \in Books \ old PROVE BookOK(b)'
  <2>1. BookOK(b)
    BY DEF FleetInv
  <2>2. \A v : v # w /\ Mine(v, b) => Mine(v, b)'
    <3>1. \A v : v # w /\ Mine(v, b) => b \notin Unfinished(w)
      BY ClaimsAreExclusive DEF Unfinished
    <3> QED BY <1>4, <3>1 DEF Mine
  <2>3. \A v \in Workers : On(v)' =>
          /\ Once(worker'[v], b)
          /\ Waits(worker'[v], b) => Mine(v, b)' /\ b \notin done /\ b \notin failed
          /\ Ready(worker'[v], b) => b \notin failed /\ (b \in done \/ Mine(v, b)')
    BY <1>1, <1>3, <2>1, <2>2 DEF BookOK
  <2>4. \A u, v \in Workers : On(u)' /\ On(v)' /\ u # v =>
          ~(Ready(worker'[u], b) /\ Ready(worker'[v], b))
    BY <1>1, <1>3, <2>1 DEF BookOK
  <2> QED BY <2>1, <2>3, <2>4 DEF BookOK
<1> QED BY <1>5, <1>6 DEF FleetInv

(* What is claimed was in nobody's hands, unless its claim grew old (gate.sh claim). *)
LEMMA ClaimStep == ASSUME FleetInv, NEW w \in Workers, NEW f \in Fetchers, Claim(w, f) PROVE FleetInv'
<1> DEFINE h == worker[w]
<1> DEFINE c == NextBook
<1>1. On(w) /\ h \in Hands /\ h # Off /\ Ending(h) /\ h.fetch[f] = None /\ Free # {}
  BY OnHands DEF Claim, FleetInv
<1>2. c \in Free /\ c \in Books
  BY <1>1, NextBookIsFree DEF Free
<1> DEFINE took == [h EXCEPT !.fetch[f] = Copy(c)]
<1>3. /\ took \in Hands /\ Ending(took)
      /\ \A b : Waits(took, b) <=> Waits(h, b) \/ Copy(c) = Copy(b)
      /\ \A b : Ready(took, b) <=> Ready(h, b)
      /\ \A b : Once(h, b) /\ (Copy(c) = Copy(b) => ~Waits(h, b) /\ ~Ready(h, b)) => Once(took, b)
  <2>1. Copy(c) \in Item \union {Closing}
    BY <1>2, Distinct
  <2> HIDE DEF h, c
  <2> QED BY <1>1, <2>1, HandsTake
<1>4. PICK k \in {h, took} : worker' = [worker EXCEPT ![w] = k]
  <2>1. CASE worker' = [worker EXCEPT ![w].fetch[f] = [book |-> NextBook]]
    <3>1. worker' = [worker EXCEPT ![w] = took]
      BY <2>1 DEF Copy, FleetInv, FleetShape
    <3> QED BY <3>1
  <2>2. CASE UNCHANGED worker
    <3>1. worker' = [worker EXCEPT ![w] = h]
      BY <2>2 DEF FleetInv, FleetShape
    <3> QED BY <3>1
  <2> QED BY <2>1, <2>2 DEF Claim
<1>5. /\ claims' = [Released(Stale) EXCEPT ![c] = [owner |-> w, aged |-> FALSE]]
      /\ old' = old \union Stale /\ done' = done /\ failed' = failed /\ UNCHANGED shells
  BY DEF Claim
<1> HIDE DEF h, c, took
<1>6. /\ k \in Hands /\ Ending(k) /\ k # Off
      /\ \A b : Waits(k, b) => Waits(h, b) \/ b = c
      /\ \A b : Ready(k, b) <=> Ready(h, b)
      /\ \A b : Once(h, b) /\ (b = c => ~Waits(h, b) /\ ~Ready(h, b)) => Once(k, b)
  <2>1. \A b : Copy(c) = Copy(b) <=> c = b
    BY Distinct
  <2>2. k \in Hands
    BY <1>1, <1>3
  <2>3. k # Off
    BY <2>2, OffIsOff
  <2> QED BY <1>1, <1>3, <2>1, <2>2, <2>3
<1>7. /\ worker' \in [Workers -> {Off} \union Hands]
      /\ worker'[w] = k /\ \A v \in Workers : v # w => worker'[v] = worker[v]
      /\ \A v \in Workers : v # w => (On(v)' <=> On(v))
      /\ \A v \in Workers : On(v)' => Ending(worker'[v])
  BY <1>4, <1>6, NewHands DEF FleetInv
<1>8. /\ claims'[c] = [owner |-> w, aged |-> FALSE]
      /\ \A b \in Books : b # c => claims'[b] = IF b \in Stale THEN Nobody ELSE claims[b]
      /\ claims' \in [Books -> {Nobody} \union [owner : Workers, aged : BOOLEAN]]
  <2>1. claims \in [Books -> {Nobody} \union [owner : Workers, aged : BOOLEAN]]
    BY DEF FleetInv, FleetShape
  <2>2. [owner |-> w, aged |-> FALSE] \in [owner : Workers, aged : BOOLEAN]
    OBVIOUS
  <2> QED BY <1>2, <1>5, <2>1, <2>2 DEF Released
<1>9. FleetShape'
  BY <1>5, <1>7, <1>8 DEF FleetInv, FleetShape, Stale, Claimed, shells
<1>10. ASSUME NEW b \in Books \ old' PROVE BookOK(b)'
  <2>1. BookOK(b) /\ b \notin Stale
    BY <1>5 DEF FleetInv
  <2>2. \A v \in Workers : On(v)' => On(v)
    BY <1>1, <1>7
  <2>3. CASE b = c
    <3>1. claims[b] = Nobody /\ b \notin done /\ b \notin failed
      BY <1>2, <2>1, <2>3 DEF Free, Claimed
    <3>2. \A v \in Workers : On(v) => ~Waits(worker[v], b) /\ ~Ready(worker[v], b)
      BY <2>1, <3>1, ClaimsAreExclusive DEF BookOK
    <3>3. Mine(w, b)'
      <4>1. [owner |-> w, aged |-> FALSE] \in [owner : {w}, aged : BOOLEAN]
        OBVIOUS
      <4> QED BY <1>8, <2>3, <4>1 DEF Mine
    <3>4. /\ Once(k, b) /\ ~Ready(k, b)
      BY <1>1, <1>6, <2>1, <3>2 DEF BookOK, h
    <3>5. \A v \in Workers : On(v)' => ~Ready(worker'[v], b)
      BY <1>7, <2>2, <3>2, <3>4
    <3>6. \A v \in Workers : On(v)' => Once(worker'[v], b) /\ (Waits(worker'[v], b) => v = w)
      BY <1>7, <2>1, <2>2, <3>2, <3>4 DEF BookOK
    <3> QED BY <1>5, <3>1, <3>3, <3>5, <3>6 DEF BookOK
  <2>4. CASE b # c
    <3>1. \A v : Mine(v, b)' <=> Mine(v, b)
      BY <1>8, <2>1, <2>4 DEF Mine
    <3>2. \A v \in Workers : On(v)' =>
            /\ Once(worker'[v], b)
            /\ Waits(worker'[v], b) => Waits(worker[v], b)
            /\ Ready(worker'[v], b) => Ready(worker[v], b)
      BY <1>1, <1>6, <1>7, <2>1, <2>2, <2>4 DEF BookOK, h
    <3>3. \A v \in Workers : On(v)' =>
            /\ Waits(worker'[v], b) => Mine(v, b)' /\ b \notin done /\ b \notin failed
            /\ Ready(worker'[v], b) => b \notin failed /\ (b \in done \/ Mine(v, b)')
      BY <2>1, <2>2, <3>1, <3>2 DEF BookOK
    <3>4. \A u, v \in Workers : On(u)' /\ On(v)' /\ u # v =>
            ~(Ready(worker'[u], b) /\ Ready(worker'[v], b))
      BY <2>1, <2>2, <3>2 DEF BookOK
    <3> QED BY <1>5, <2>1, <3>2, <3>3, <3>4 DEF BookOK
  <2> QED BY <2>3, <2>4
<1> QED BY <1>9, <1>10 DEF FleetInv

(* What the steps inside a worker leave alone is the two scripts' files. *)
LEMMA ShellsStay == FleetInv /\ UNCHANGED shells => loop' \subseteq Workers /\ stops' \subseteq Workers
BY DEF FleetInv, FleetShape, shells

(* The fetchers keep the invariant: a book is downloaded or given up, or they end. *)
LEMMA FetchStepOK ==
    ASSUME FleetInv, NEW w \in Workers, NEW f \in Fetchers,
           Fetch(w, f) \/ FetchFails(w, f) \/ FetcherEnds(w, f)
    PROVE  FleetInv'
<1> DEFINE h == worker[w]
<1>1. On(w) /\ h \in Hands /\ h # Off /\ Ending(h)
  BY OnHands DEF Fetch, FetchFails, FetcherEnds, FleetInv
<1>2. worker \in [Workers -> {Off} \union Hands]
  BY DEF FleetInv, FleetShape
<1>3. h.fetch[f] \in Item \union {None, Closing}
  BY <1>1 DEF Hands
<1> DEFINE dropped == [h EXCEPT !.fetch[f] = None]
<1>4. ASSUME NEW c, h.fetch[f] = Copy(c)
      PROVE  /\ dropped \in Hands /\ Ending(dropped)
             /\ \A b : Waits(h, b) <=> Waits(dropped, b) \/ b = c
             /\ \A b : Ready(dropped, b) <=> Ready(h, b)
             /\ \A b : Once(h, b) => Once(dropped, b) /\ (b = c => ~Waits(dropped, b) /\ ~Ready(dropped, b))
             /\ ~In(dropped.books, Closing) /\ ~In(dropped.vectors, Closing)
  <2> DEFINE item == h.fetch[f]
  <2>1. item \in Item /\ \A b : item = Copy(b) <=> b = c
    BY <1>3, <1>4, Distinct
  <2>2. dropped.books = h.books /\ dropped.vectors = h.vectors
    BY <1>1 DEF Hands
  <2> HIDE DEF h
  <2>3. /\ dropped \in Hands /\ Ending(dropped)
        /\ \A b : Waits(h, b) <=> Waits(dropped, b) \/ item = Copy(b)
        /\ \A b : Ready(dropped, b) <=> Ready(h, b)
        /\ \A b : Once(h, b) => Once(dropped, b) /\ (item = Copy(b) => ~Waits(dropped, b) /\ ~Ready(dropped, b))
        /\ ~In(h.books, Closing) /\ ~In(h.vectors, Closing)
    BY <1>1, <2>1, HandsDrop
  <2> HIDE DEF dropped, item
  <2> QED BY <2>1, <2>2, <2>3
<1>5. CASE Fetch(w, f)
  <2> DEFINE c == h.fetch[f].book
  <2>1. h.fetch[f] = Copy(c) /\ c \in Books
    BY <1>3, <1>5, Distinct DEF Fetch
  <2> DEFINE k == [dropped EXCEPT !.books = Append(@, Copy(c))]
  <2>2. worker' = [worker EXCEPT ![w] = k]
    <3>1. h.books = dropped.books
      BY <1>1 DEF Hands
    <3>2. k = [h EXCEPT !.books = Append(h.books, Copy(c)), !.fetch[f] = None]
      BY <1>1, <3>1 DEF Hands
    <3> QED BY <1>5, <1>2, <3>2 DEF Fetch, Copy
  <2>3. Len(dropped.books) < BooksMax
    BY <1>1, <1>5 DEF Fetch, Room, Hands
  <2>4. Copy(c) \in Something /\ Copy(c) # Closing
    BY <2>1, Distinct DEF Something
  <2> HIDE DEF c
  <2>5. /\ dropped \in Hands /\ Ending(dropped)
        /\ \A b : Waits(h, b) <=> Waits(dropped, b) \/ b = c
        /\ \A b : Ready(dropped, b) <=> Ready(h, b)
        /\ \A b : Once(h, b) => Once(dropped, b) /\ (b = c => ~Waits(dropped, b) /\ ~Ready(dropped, b))
        /\ ~In(dropped.books, Closing) /\ ~In(dropped.vectors, Closing)
    BY <1>4, <2>1
  <2> HIDE DEF dropped
  <2>6. /\ k \in Hands /\ Ending(k)
        /\ \A b : Waits(k, b) <=> Waits(dropped, b) \/ Copy(c) = Copy(b)
        /\ \A b : Ready(k, b) <=> Ready(dropped, b)
        /\ \A b : Once(dropped, b) /\ (Copy(c) = Copy(b) => ~Waits(dropped, b) /\ ~Ready(dropped, b)) => Once(k, b)
    <3> DEFINE item == Copy(c)
    <3>1. item \in Something /\ item # Closing
      BY <2>4
    <3>2. k = [dropped EXCEPT !.books = Append(@, item)]
      OBVIOUS
    <3> HIDE DEF item, k
    <3>3. item = Copy(c)
      BY DEF item
    <3>4. /\ k \in Hands /\ Ending(k)
          /\ \A b : Waits(k, b) <=> Waits(dropped, b) \/ item = Copy(b)
          /\ \A b : Ready(k, b) <=> Ready(dropped, b)
          /\ \A b : Once(dropped, b) /\ (item = Copy(b) => ~Waits(dropped, b) /\ ~Ready(dropped, b)) => Once(k, b)
      BY <2>3, <2>5, <3>1, <3>2, HandsQueue
    <3> QED BY <3>3, <3>4
  <2>7. \A b : Copy(c) = Copy(b) => b = c
    BY Distinct
  <2> HIDE DEF k
  <2>8. /\ \A b : Waits(k, b) => Waits(h, b)
        /\ \A b : Ready(k, b) => Ready(h, b)
        /\ \A b : Once(h, b) => Once(k, b)
    BY <2>5, <2>6, <2>7
  <2>9. UNCHANGED <<shells, gate>>
    BY <1>5 DEF Fetch
  <2> QED BY <1>1, <2>2, <2>6, <2>8, <2>9, Passing, ShellsStay
<1>6. CASE FetchFails(w, f)
  <2> DEFINE c == h.fetch[f].book
  <2>1. h.fetch[f] = Copy(c) /\ c \in Books
    BY <1>3, <1>6, Distinct DEF FetchFails
  <2>2. worker' = [worker EXCEPT ![w] = dropped] /\ GateFail(c) /\ UNCHANGED shells
    BY <1>2, <1>6 DEF FetchFails
  <2>3. Waits(h, c)
    BY <2>1 DEF Waits
  <2> HIDE DEF c
  <2>4. /\ dropped \in Hands /\ Ending(dropped)
        /\ \A b : Waits(h, b) <=> Waits(dropped, b) \/ b = c
        /\ \A b : Ready(dropped, b) <=> Ready(h, b)
        /\ \A b : Once(h, b) => Once(dropped, b) /\ (b = c => ~Waits(dropped, b) /\ ~Ready(dropped, b))
    BY <1>4, <2>1
  <2> HIDE DEF dropped
  <2> QED BY <1>1, <2>1, <2>2, <2>3, <2>4, GivingUp
<1>7. CASE FetcherEnds(w, f)
  <2> DEFINE ended == [h EXCEPT !.fetch[f] = Closing]
  <2>1. h.fetch[f] = None
    BY <1>7 DEF FetcherEnds
  <2>2. /\ ended \in Hands /\ Ending(ended)
        /\ \A b : Waits(ended, b) <=> Waits(h, b) \/ Closing = Copy(b)
        /\ \A b : Ready(ended, b) <=> Ready(h, b)
        /\ \A b : Once(h, b) /\ (Closing = Copy(b) => ~Waits(h, b) /\ ~Ready(h, b)) => Once(ended, b)
    <3> HIDE DEF h
    <3> QED BY <1>1, <2>1, HandsTake
  <2>3. \A b : Closing # Copy(b)
    BY Distinct
  <2>4. /\ ended.books = h.books /\ ended.vectors = h.vectors
        /\ ended.fetch[f] = Closing /\ \A g \in Fetchers : g # f => ended.fetch[g] = h.fetch[g]
    BY <1>1 DEF Hands
  <2>5. UNCHANGED <<shells, gate>>
    BY <1>7 DEF FetcherEnds
  <2>6. CASE IsLast(w, f)
    <3> DEFINE k == [ended EXCEPT !.books = Append(@, Closing)]
    <3>1. worker' = [worker EXCEPT ![w] = k]
      <4>1. k = [h EXCEPT !.fetch[f] = Closing, !.books = Append(h.books, Closing)]
        BY <1>1, <2>4 DEF Hands
      <4> QED BY <1>2, <1>7, <2>6, <4>1 DEF FetcherEnds
    <3>2. Len(ended.books) < BooksMax
      BY <1>7, <2>4, <2>6 DEF FetcherEnds, Room
    <3>3. \A g \in Fetchers : ended.fetch[g] = Closing
      BY <2>4, <2>6 DEF IsLast
    <3>4. ~In(ended.books, Closing) /\ ~In(ended.vectors, Closing)
      BY <1>1, <2>1, <2>4, Distinct DEF Ending
    <3>5. Closing \in Something
      BY DEF Something
    <3> HIDE DEF ended
    <3>6. /\ k \in Hands /\ Ending(k)
          /\ \A b : Waits(k, b) <=> Waits(ended, b) \/ Closing = Copy(b)
          /\ \A b : Ready(k, b) <=> Ready(ended, b)
          /\ \A b : Once(ended, b) /\ (Closing = Copy(b) => ~Waits(ended, b) /\ ~Ready(ended, b)) => Once(k, b)
      BY <2>2, <3>2, <3>3, <3>4, <3>5, HandsQueue
    <3> HIDE DEF k
    <3>7. /\ \A b : Waits(k, b) => Waits(h, b)
          /\ \A b : Ready(k, b) => Ready(h, b)
          /\ \A b : Once(h, b) => Once(k, b)
      BY <2>2, <2>3, <3>6
    <3> QED BY <1>1, <2>5, <3>1, <3>6, <3>7, Passing, ShellsStay
  <2>7. CASE ~IsLast(w, f)
    <3>1. worker' = [worker EXCEPT ![w] = ended]
      BY <1>2, <1>7, <2>7 DEF FetcherEnds
    <3> HIDE DEF ended
    <3>2. /\ \A b : Waits(ended, b) => Waits(h, b)
          /\ \A b : Ready(ended, b) => Ready(h, b)
          /\ \A b : Once(h, b) => Once(ended, b)
      BY <2>2, <2>3
    <3> QED BY <1>1, <2>2, <2>5, <3>1, <3>2, Passing, ShellsStay
  <2> QED BY <2>6, <2>7
<1> QED BY <1>5, <1>6, <1>7

(* So does the thread that embeds, *)
LEMMA MainStepOK == ASSUME FleetInv, NEW w \in Workers, MainStep(w) PROVE FleetInv'
<1> DEFINE h == worker[w]
<1>1. On(w) /\ h \in Hands /\ h # Off /\ Ending(h) /\ h.books # <<>>
  BY OnHands DEF MainStep, Embed, EmbeddingFails, FleetInv
<1>2. worker \in [Workers -> {Off} \union Hands]
  BY DEF FleetInv, FleetShape
<1>3. CASE Embed(w)
  <2> DEFINE k == [h EXCEPT !.vectors = Append(@, Head(h.books)), !.books = Tail(@)]
  <2>1. worker' = [worker EXCEPT ![w] = k] /\ Len(h.vectors) < VectorsMax /\ UNCHANGED <<shells, gate>>
    BY <1>2, <1>3 DEF Embed
  <2> HIDE DEF h
  <2>2. /\ k \in Hands /\ Ending(k)
        /\ \A b : Waits(k, b) => Waits(h, b)
        /\ \A b : Ready(k, b) => Ready(h, b) \/ Waits(h, b)
        /\ \A b : Once(h, b) => Once(k, b)
    BY <1>1, <2>1, HandsEmbed
  <2> HIDE DEF k
  <2> QED BY <1>1, <2>1, <2>2, Passing, ShellsStay DEF h
<1>4. CASE EmbeddingFails(w)
  <2> DEFINE c == Head(h.books).book
  <2> DEFINE k == [h EXCEPT !.books = Tail(@)]
  <2>1. worker' = [worker EXCEPT ![w] = k] /\ GateFail(c) /\ UNCHANGED shells /\ Has(Head(h.books))
    BY <1>2, <1>4 DEF EmbeddingFails
  <2>2. Head(h.books) = Copy(c) /\ c \in Books
    <3>1. h.books \in Seq(Something)
      BY <1>1 DEF Hands
    <3>2. Head(h.books) \in Something
      BY <1>1, <3>1, Taken
    <3> QED BY <2>1, <3>2, Distinct DEF Something
  <2> HIDE DEF h, c
  <2>3. /\ k \in Hands /\ Ending(k)
        /\ \A b : Waits(k, b) => Waits(h, b)
        /\ \A b : Head(h.books) = Copy(b) => Waits(h, b)
        /\ \A b : Ready(k, b) <=> Ready(h, b)
        /\ \A b : Once(h, b) => /\ Once(k, b)
                                /\ Head(h.books) = Copy(b) => ~Waits(k, b) /\ ~Ready(k, b)
    BY <1>1, HandsUnqueue
  <2> HIDE DEF k
  <2>4. \A b : Once(h, b) => Once(k, b) /\ (b = c => ~Waits(k, b) /\ ~Ready(k, b))
    BY <2>2, <2>3
  <2>5. Waits(h, c)
    BY <2>2, <2>3
  <2> QED BY <1>1, <2>1, <2>2, <2>3, <2>4, <2>5, GivingUp DEF h
<1> QED BY <1>3, <1>4 DEF MainStep

(* so does the one that uploads, or ends the process, *)
LEMMA UploadStepOK == ASSUME FleetInv, NEW w \in Workers, UploadStep(w) PROVE FleetInv'
<1>1. CASE Put(w)
  <2> DEFINE h == worker[w]
  <2> DEFINE c == Up(w).book
  <2> DEFINE sent == [h EXCEPT !.vectors = Tail(@)]
  <2>1. Has(Up(w))
    BY <1>1 DEF Put
  <2>2. On(w) /\ h.vectors # <<>> /\ Up(w) = Head(h.vectors)
    BY <2>1, Distinct DEF Up
  <2>3. h \in Hands /\ h # Off /\ Ending(h)
    BY <2>2, OnHands DEF FleetInv
  <2>4. Head(h.vectors) = Copy(c) /\ c \in Books
    <3>1. h.vectors \in Seq(Something)
      BY <2>3 DEF Hands
    <3>2. Head(h.vectors) \in Something
      BY <2>2, <3>1, Taken
    <3> QED BY <2>1, <2>2, <3>2, Distinct DEF Something
  <2>5. done' = done \union {c} /\ claims' = Released({c}) /\ UNCHANGED <<failed, old, shells>>
    BY <1>1 DEF Put
  <2>6. PICK k \in {h, sent} : worker' = [worker EXCEPT ![w] = k]
    <3>1. worker \in [Workers -> {Off} \union Hands]
      BY DEF FleetInv, FleetShape
    <3>2. CASE worker' = [worker EXCEPT ![w].vectors = Tail(@)]
      <4>1. worker' = [worker EXCEPT ![w] = sent]
        BY <3>1, <3>2
      <4> QED BY <4>1
    <3>3. CASE UNCHANGED worker
      <4>1. worker' = [worker EXCEPT ![w] = h]
        BY <3>1, <3>3
      <4> QED BY <4>1
    <3> QED BY <1>1, <3>2, <3>3 DEF Put
  <2> HIDE DEF h, c
  <2>7. /\ sent \in Hands /\ Ending(sent)
        /\ \A b : Waits(sent, b) <=> Waits(h, b)
        /\ \A b : Ready(sent, b) => Ready(h, b)
        /\ \A b : Head(h.vectors) = Copy(b) => Ready(h, b)
        /\ \A b : Once(h, b) => Once(sent, b)
    BY <2>2, <2>3, HandsUpload
  <2> HIDE DEF sent
  <2>8. /\ k \in Hands /\ Ending(k)
        /\ \A b : Waits(k, b) => Waits(h, b)
        /\ \A b : Ready(k, b) => Ready(h, b)
        /\ \A b : Once(h, b) => Once(k, b)
    BY <2>3, <2>7
  <2>9. Ready(h, c)
    BY <2>4, <2>7
  <2> QED BY <2>2, <2>4, <2>5, <2>6, <2>8, <2>9, Arriving DEF h
<1>2. CASE Exit(w)
  <2>1. worker' = [worker EXCEPT ![w] = Off] /\ UNCHANGED gate
        /\ loop' \subseteq Workers /\ stops' \subseteq Workers
    BY <1>2 DEF Exit, FleetInv, FleetShape
  <2> QED BY <2>1, Passing
<1> QED BY <1>1, <1>2 DEF UploadStep

(* so does a worker that crashes, is interrupted, is given up or told to stop, *)
LEMMA BreakOK == ASSUME FleetInv, NEW w \in Workers, Breaks(w) PROVE FleetInv'
<1>1. CASE Crash(w) \/ Quit(w)
  <2>1. worker' = [worker EXCEPT ![w] = Off] /\ UNCHANGED gate
        /\ loop' \subseteq Workers /\ stops' \subseteq Workers
    BY <1>1 DEF Crash, Quit, shells, FleetInv, FleetShape
  <2> QED BY <2>1, Passing
<1>2. CASE Interrupt(w)
  <2> DEFINE h == worker[w]
  <2> DEFINE k == [h EXCEPT !.main = FALSE]
  <2>1. On(w) /\ h \in Hands /\ Ending(h) /\ UNCHANGED gate
        /\ loop' \subseteq Workers /\ stops' \subseteq Workers
    BY <1>2, OnHands DEF Interrupt, shells, FleetInv, FleetShape
  <2>2. worker' = [worker EXCEPT ![w] = k]
    BY <1>2 DEF Interrupt, FleetInv, FleetShape
  <2>3. k \in Hands /\ k.fetch = h.fetch /\ k.books = h.books /\ k.vectors = h.vectors
    BY <2>1 DEF Hands
  <2> HIDE DEF k
  <2>4. \A b : (Waits(k, b) <=> Waits(h, b)) /\ (Ready(k, b) <=> Ready(h, b)) /\ (Once(k, b) <=> Once(h, b))
    BY <2>3 DEF Waits, Ready, Once
  <2>5. Ending(k)
    BY <2>1, <2>3 DEF Ending
  <2> QED BY <2>1, <2>2, <2>3, <2>4, <2>5, Passing
<1>3. CASE Stop(w)
  <2>1. /\ worker' = worker /\ claims' = claims
        /\ done' = done /\ failed' = failed /\ old' = old
        /\ loop' \subseteq Workers /\ stops' \subseteq Workers
    BY <1>3 DEF Stop, gate, FleetInv, FleetShape
  <2> QED BY <2>1, Untouched
<1> QED BY <1>1, <1>2, <1>3 DEF Breaks

(* and so does the clock. *)
LEMMA ClaimsAge == ASSUME FleetInv, NEW b \in Books, Ages(b) \/ Outlasted(b) PROVE FleetInv'
<1>1. /\ claims[b] # Nobody /\ claims' = [claims EXCEPT ![b].aged = TRUE]
      /\ UNCHANGED <<worker, done, failed, old, shells>>
  BY DEF Ages, Outlasted
<1>2. claims \in [Books -> {Nobody} \union [owner : Workers, aged : BOOLEAN]]
  BY DEF FleetInv, FleetShape
<1> DEFINE c == [claims[b] EXCEPT !.aged = TRUE]
<1>3. c \in [owner : Workers, aged : BOOLEAN] /\ c.owner = claims[b].owner
  BY <1>1, <1>2
<1>4. claims' = [claims EXCEPT ![b] = c]
  BY <1>1, <1>2
<1> HIDE DEF c
<1>5. claims' \in [Books -> {Nobody} \union [owner : Workers, aged : BOOLEAN]]
  BY <1>2, <1>3, <1>4
<1>6. ASSUME NEW v, NEW a \in Books, Mine(v, a) PROVE Mine(v, a)'
  <2>1. CASE a = b
    <3>1. claims'[a] = c /\ c.owner = v
      BY <1>2, <1>3, <1>4, <1>6, <2>1 DEF Mine
    <3> QED BY <1>3, <3>1 DEF Mine
  <2>2. CASE a # b
    BY <1>2, <1>4, <1>6, <2>2 DEF Mine
  <2> QED BY <2>1, <2>2
<1>7. \A w \in Workers : On(w)' <=> On(w)
  BY <1>1 DEF On
<1>8. FleetShape'
  BY <1>1, <1>5, <1>7 DEF FleetInv, FleetShape, shells
<1>9. \A a \in Books \ old : BookOK(a)'
  BY <1>1, <1>6, <1>7 DEF FleetInv, BookOK
<1> QED BY <1>1, <1>8, <1>9 DEF FleetInv

(* Every step of the fleet keeps the inductive invariant, *)
LEMMA FleetStep == FleetInv /\ [Next]_vars => FleetInv'
<1> SUFFICES ASSUME FleetInv, [Next]_vars PROVE FleetInv'
  OBVIOUS
<1>1. ASSUME NEW w \in Workers, Start(w) \/ Restart(w) \/ MainStep(w) \/ UploadStep(w) \/ Breaks(w)
      PROVE  FleetInv'
  BY <1>1, StartStep, MainStepOK, UploadStepOK, BreakOK
<1>2. ASSUME NEW w \in Workers, NEW f \in Fetchers, FetchStep(w, f)
      PROVE  FleetInv'
  BY <1>2, ClaimStep, FetchStepOK DEF FetchStep
<1>3. ASSUME NEW b \in Books, Ages(b) \/ Outlasted(b)
      PROVE  FleetInv'
  BY <1>3, ClaimsAge
<1>4. CASE UNCHANGED vars
  <2>1. /\ worker' = worker /\ claims' = claims
        /\ done' = done /\ failed' = failed /\ old' = old
        /\ loop' \subseteq Workers /\ stops' \subseteq Workers
    BY <1>4 DEF vars, gate, shells, FleetInv, FleetShape
  <2> QED BY <2>1, Untouched
<1> QED BY <1>1, <1>2, <1>3, <1>4 DEF Next

(* and it holds before the first worker starts. *)
LEMMA FleetStarts == Init => FleetInv
<1> SUFFICES ASSUME Init PROVE FleetInv
  OBVIOUS
<1>1. \A w \in Workers : ~On(w)
  BY OffIsOff DEF Init, On
<1>2. FleetShape
  BY <1>1 DEF Init, FleetShape
<1>3. \A b \in Books : BookOK(b)
  BY <1>1 DEF Init, BookOK
<1> QED BY <1>2, <1>3 DEF FleetInv

(* Only a running worker has a book, and it is one of the manifest. *)
LEMMA HeldAre ==
    ASSUME FleetInv, NEW w \in Workers, NEW b \in Held(w)
    PROVE  On(w) /\ b \in Books /\ (Waits(worker[w], b) \/ Ready(worker[w], b))
<1>1. On(w)
  BY DEF Held
<1>2. worker[w] \in Hands
  BY <1>1, OnHands DEF FleetInv
<1>3. Waits(worker[w], b) \/ Ready(worker[w], b)
  BY <1>2, HeldIs
<1>4. Copy(b) \in Item \union {None, Closing}
  <2>1. /\ worker[w].fetch \in [Fetchers -> Item \union {None, Closing}]
        /\ worker[w].books \in Seq(Something) /\ worker[w].vectors \in Seq(Something)
    BY <1>2 DEF Hands
  <2>2. \A q \in Seq(Something) : In(q, Copy(b)) => Copy(b) \in Item \union {None, Closing}
    BY DEF In, Something
  <2>3. In(worker[w].books, Copy(b)) \/ In(worker[w].vectors, Copy(b)) => Copy(b) \in Item \union {None, Closing}
    BY <2>1, <2>2
  <2>4. (\E f \in Fetchers : worker[w].fetch[f] = Copy(b)) => Copy(b) \in Item \union {None, Closing}
    BY <2>1
  <2> QED BY <1>3, <2>3, <2>4 DEF Waits, Ready
<1>5. Copy(b) \in Item
  BY <1>4, Distinct
<1>6. b \in Books
  BY <1>5, Distinct
<1> QED BY <1>1, <1>3, <1>6

(* A book that is in a worker once is in one place, where it waits to be embedded or its
   vectors wait (worker.py's threads and queues). *)
LEMMA PlacesAre ==
    ASSUME NEW w \in Workers, worker[w] \in Hands, NEW b, Once(worker[w], b)
    PROVE  /\ \A p, q \in Places(w, b) : p = q
           /\ Places(w, b) # {} => Waits(worker[w], b) \/ Ready(worker[w], b)
<1> DEFINE h == worker[w]
<1> DEFINE F == {f \in Fetchers : h.fetch[f] = Copy(b)}
<1> DEFINE B == {j \in 1 .. Len(h.books) : h.books[j] = Copy(b)}
<1> DEFINE V == {j \in 1 .. Len(h.vectors) : h.vectors[j] = Copy(b)}
<1>1. h.books \in Seq(Something) /\ h.vectors \in Seq(Something)
  BY DEF Hands
<1>2. Places(w, b) = {<<"fetch", f>> : f \in F} \union {<<"books", i>> : i \in B}
                        \union {<<"vectors", i>> : i \in V}
  BY <1>1 DEF Places, Copy
<1>3. /\ \A f, g \in F : f = g
      /\ \A i, j \in B : i = j
      /\ \A i, j \in V : i = j
      /\ F # {} => B = {}
      /\ F # {} \/ B # {} => V = {} /\ Waits(h, b)
      /\ V # {} => Ready(h, b)
  BY DEF Once, OnceIn, In, Waits, Ready
<1> HIDE DEF F, B, V, h
<1>4. \A p, q \in Places(w, b) : p = q
  BY <1>2, <1>3
<1>5. Places(w, b) # {} => F # {} \/ B # {} \/ V # {}
  BY <1>2
<1> QED BY <1>3, <1>4, <1>5 DEF h

(* For any number of workers, fetchers, books and breaks, and queues of any size: a book
   whose claim was not given away is in one place of one worker at most, which holds its
   claim unless the book is done, and ends one way only, and a worker that ends leaves no
   book behind (worker.py, gate.sh). *)
THEOREM BooksAreSharedOut == Spec => []FleetHolds
<1>1. FleetInv => FleetTypeOK
  <2> SUFFICES ASSUME FleetInv PROVE FleetTypeOK
    OBVIOUS
  <2>1. ASSUME NEW w \in Workers, worker[w] # Off
        PROVE  /\ On(w) /\ worker[w].main \in BOOLEAN
               /\ worker[w].fetch \in [Fetchers -> [book : Books] \union {None, Closing}]
               /\ ToSet(worker[w].books) \subseteq Item \union {Closing} /\ Len(worker[w].books) <= BooksMax
               /\ ToSet(worker[w].vectors) \subseteq Item \union {Closing} /\ Len(worker[w].vectors) <= VectorsMax
    <3>1. worker[w] \in Hands
      BY <2>1 DEF FleetInv, FleetShape
    <3>2. On(w)
      BY <3>1, OffIsOff DEF On
    <3>3. Ending(worker[w])
      BY <3>2 DEF FleetInv, FleetShape
    <3>4. \A q \in Seq(Something) : ToSet(q) \subseteq Something
      BY DEF ToSet
    <3> QED BY <3>1, <3>2, <3>3, <3>4 DEF Hands, Ending, Something, Item
  <2>2. /\ claims \in [Books -> {Nobody} \union [owner : Workers, aged : BOOLEAN]]
        /\ done \subseteq Books /\ failed \subseteq Books /\ old \subseteq Books
        /\ loop \subseteq Workers /\ stops \subseteq Workers
    BY DEF FleetInv, FleetShape
  <2> QED BY <2>1, <2>2 DEF FleetTypeOK
<1>2. FleetInv => OneWorkerPerBook
  <2> SUFFICES ASSUME FleetInv PROVE OneWorkerPerBook
    OBVIOUS
  <2>1. ASSUME NEW v \in Workers, NEW w \in Workers, v # w, NEW b \in Held(v) \intersect Held(w), b \notin old
        PROVE  FALSE
    <3>1. /\ On(v) /\ b \in Books /\ (Waits(worker[v], b) \/ Ready(worker[v], b))
          /\ On(w) /\ (Waits(worker[w], b) \/ Ready(worker[w], b))
      BY HeldAre
    <3>2. BookOK(b)
      BY <2>1, <3>1 DEF FleetInv
    <3>3. ~(Mine(v, b) /\ Mine(w, b))
      BY <2>1, ClaimsAreExclusive
    <3> QED BY <2>1, <3>1, <3>2, <3>3 DEF BookOK
  <2>2. done \intersect failed \subseteq old
    BY DEF FleetInv, FleetShape, BookOK
  <2> QED BY <2>1, <2>2 DEF OneWorkerPerBook
<1>3. FleetInv => NothingLeftBehind
  <2> SUFFICES ASSUME FleetInv, NEW w \in Workers, Up(w) = Closing PROVE Held(w) = {}
    BY DEF NothingLeftBehind
  <2> DEFINE h == worker[w]
  <2>1. On(w) /\ h.vectors # <<>> /\ Head(h.vectors) = Closing
    BY Distinct DEF Up
  <2>2. h \in Hands /\ Ending(h)
    BY <2>1, OnHands DEF FleetInv
  <2>3. h.vectors \in Seq(Something)
    BY <2>2 DEF Hands
  <2>4. /\ In(h.vectors, Closing)
        /\ \A item : In(h.vectors, item) <=> item = Closing \/ In(Tail(h.vectors), item)
        /\ ClosesLast(h.vectors) => Tail(h.vectors) = <<>>
    BY <2>1, <2>3, Taken
  <2>5. Tail(h.vectors) = <<>> /\ h.books = <<>> /\ \A f \in Fetchers : h.fetch[f] = Closing
    BY <2>2, <2>4 DEF Ending
  <2>6. \A b : ~Ready(h, b)
    BY <2>4, <2>5, EmptyQueue, Distinct DEF Ready
  <2>7. \A b : ~Waits(h, b)
    BY <2>5, EmptyQueue, Distinct DEF Waits
  <2> QED BY <2>6, <2>7, HeldAre
<1>4. FleetInv => InOnePlace
  <2> SUFFICES ASSUME FleetInv, NEW b \in Books \ old, NEW w \in Workers, On(w)
               PROVE  /\ \A p, q \in Places(w, b) : p = q
                      /\ Places(w, b) # {} => claims[b].owner = w \/ b \in done
    BY DEF InOnePlace
  <2>1. worker[w] \in Hands /\ BookOK(b)
    BY OnHands DEF FleetInv
  <2>2. Once(worker[w], b)
    BY <2>1 DEF BookOK
  <2>3. \A p, q \in Places(w, b) : p = q
    BY <2>1, <2>2, PlacesAre
  <2>4. Places(w, b) # {} => Waits(worker[w], b) \/ Ready(worker[w], b)
    BY <2>1, <2>2, PlacesAre
  <2>5. Mine(w, b) => claims[b].owner = w
    BY ClaimsAreExclusive
  <2> QED BY <2>1, <2>3, <2>4, <2>5 DEF BookOK
<1>5. FleetInv => FleetHolds
  BY <1>1, <1>2, <1>3, <1>4 DEF FleetHolds
<1> QED BY <1>5, FleetStarts, FleetStep, PTL DEF Spec
=============================================================================
