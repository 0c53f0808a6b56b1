-------------------------- MODULE SyncStoreProofs ---------------------------
(***************************************************************************)
(* Proofs about the sync store: its types, that no cursor ever skips a     *)
(* committed write, that the store implements the abstract change feed,    *)
(* that no note's text is lost unseen and that no record goes back, for    *)
(* any number of devices, records, items and pages.                        *)
(***************************************************************************)
EXTENDS SyncStore, FiniteSetTheorems, TLAPS

-----------------------------------------------------------------------------
(* The merge returns versions; where nothing is stored it stores what was
   pushed and keeps no copy (sync_service.merge). *)
LEMMA MergeType ==
    ASSUME NEW kind \in Kinds, NEW stored \in Version \cup {NoVersion},
           NEW storedSeq \in Nat, NEW incoming \in Version, NEW base \in Nat,
           NEW m, m = Merge(kind, stored, storedSeq, incoming, base)
    PROVE  /\ m.status \in Statuses
           /\ m.write \in Version \cup {NoVersion}
           /\ m.copy \in Version \cup {NoVersion}
           /\ m.write = NoVersion => stored \in Version
<1>1. CASE stored = NoVersion
  BY <1>1, NoVersionIsNone DEF Merge, Statuses
<1>2. CASE stored \in Version
  <2>1. Combined(kind, stored, incoming) \in Version
    BY <1>2 DEF Combined, Version, ContentWins, OrderWins
  <2>2. Loser(stored, incoming) \in Version
    BY <1>2 DEF Loser
  <2>3. \A x, y : StatusOf(x, y) \in Statuses
    BY DEF StatusOf, Statuses
  <2>4. stored # NoVersion
    BY <1>2, NoVersionIsNone
  <2> QED BY <1>2, <2>1, <2>2, <2>3, <2>4 DEF Merge
<1> QED BY <1>1, <1>2

(* A page is exactly the rows between the cursor and its last row. *)
LEMMA PageIsAnInterval ==
    ASSUME NEW since \in Nat, NEW stop, records \in [Keys -> Row],
           stop \in {since} \cup {records[k].seq : k \in Page(since)},
           \A k \in Page(since) : records[k].seq <= stop
    PROVE  Page(since) = {k \in Keys : since < records[k].seq /\ records[k].seq <= stop}
<1> DEFINE Rank(k) == {j \in After(since) : records[j].seq <= records[k].seq}
<1>1. \A k \in Keys : records[k].seq \in Nat
  BY DEF Row
<1>2. ASSUME NEW k \in Keys, since < records[k].seq, records[k].seq <= stop
      PROVE  k \in Page(since)
  <2>1. k \in After(since)
    BY <1>2, <1>1 DEF After
  <2>2. PICK last \in Page(since) : stop = records[last].seq
    BY <1>1, <1>2
  <2>3. last \in After(since) /\ Cardinality(Rank(last)) <= PageLimit
    BY <2>2 DEF Page
  <2>4. Rank(k) \subseteq Rank(last)
    BY <1>1, <1>2, <2>2, <2>3 DEF After
  <2>5. IsFiniteSet(Rank(last))
    BY KeysAreFinite, FS_Subset DEF After
  <2>6. IsFiniteSet(Rank(k)) /\ Cardinality(Rank(k)) <= Cardinality(Rank(last))
    BY <2>4, <2>5, FS_Subset
  <2>7. Cardinality(Rank(k)) \in Nat /\ Cardinality(Rank(last)) \in Nat
    BY <2>5, <2>6, FS_CardinalityType
  <2>8. Cardinality(Rank(k)) <= PageLimit
    BY <2>3, <2>6, <2>7, BoundsAreNumbers
  <2> QED BY <2>1, <2>8 DEF Page
<1>3. ASSUME NEW k \in Page(since)
      PROVE  k \in Keys /\ since < records[k].seq /\ records[k].seq <= stop
  BY <1>1, <1>3 DEF Page, After
<1> QED BY <1>2, <1>3

-----------------------------------------------------------------------------
(* The inductive invariant.  Sequence numbers only grow; the writer is the lock's
   holder, and what it has not committed yet is numbered after every committed row,
   hence after every cursor. *)
OneWriter ==
    \A d \in Devices :
        /\ phase[d] = "pushing" <=> lock = d
        /\ phase[d] # "pushing" => writes[d] = NoWrites

NothingAheadOfSeq ==
    /\ \A k \in Keys : records[k].seq <= seq
    /\ \A d \in Devices : cursor[d] <= seq
    /\ \A d \in Devices, k \in Keys : writes[d][k].seq <= seq

WritesAreFresh ==
    \A d \in Devices, k \in Keys : writes[d][k].seq # 0 =>
        /\ \A j \in Keys : records[j].seq < writes[d][k].seq
        /\ \A e \in Devices : cursor[e] < writes[d][k].seq

IInv == TypeOK /\ OneWriter /\ NothingAheadOfSeq /\ WritesAreFresh /\ NothingMissed

LEMMA NoWritesType == NoRow \in Row /\ NoWrites \in [Keys -> Row]
BY DEF NoRow, NoWrites, Row

LEMMA InitIInv == Init => IInv
<1> SUFFICES ASSUME Init PROVE IInv
  OBVIOUS
<1> USE NoWritesType DEF Init
<1>1. TypeOK
  BY DEF TypeOK
<1>2. OneWriter
  BY NoDeviceIsZero DEF OneWriter
<1>3. NothingAheadOfSeq /\ WritesAreFresh /\ NothingMissed
  BY DEF NothingAheadOfSeq, WritesAreFresh, NothingMissed, NoWrites, NoRow
<1> QED BY <1>1, <1>2, <1>3 DEF IInv

(* What the devices do by themselves, and the ticking of the clock, touch nothing that
   the store's invariants speak of. *)
LEMMA DeviceSteps ==
    ASSUME IInv, NEW d \in Devices,
           Edits(d) \/ AnswerReceived(d) \/ AnswerLost(d)
    PROVE  IInv'
<1> USE DEF IInv
<1>1. CASE Edits(d)
  <2>1. PICK item \in Item : Compose(d, item)
    <3>1. \A k \in EditKeys : known[d][k] \in Row /\ KindOf[k] \in Kinds
      BY KindsOfKeys DEF TypeOK
    <3>2. \A k \in EditKeys : Live(known[d][k]) => known[d][k].version \in Version
      BY <3>1 DEF Live, Row
    <3>3. PICK k \in EditKeys, time \in EditTimes :
            \/ \E text \in EditTexts : EditText(d, k, text, time)
            \/ \E pos \in Positions : Rearrange(d, k, pos, time)
            \/ Delete(d, k, time)
      BY <1>1 DEF Edits
    <3>4. k \in Keys /\ time \in Nat /\ known[d][k].seq \in Nat
      BY <3>1, KindsOfKeys, EditsAreVersions DEF Row
    <3>5. CASE \E text \in EditTexts : EditText(d, k, text, time)
      BY <3>2, <3>4, <3>5, EditsAreVersions DEF EditText, Item, Version, NoTime
    <3>6. CASE \E pos \in Positions : Rearrange(d, k, pos, time)
      BY <3>2, <3>4, <3>6 DEF Rearrange, Item, Version
    <3>7. CASE Delete(d, k, time)
      BY <3>4, <3>7, TextsOfNothing DEF Delete, Item, NoTime
    <3> QED BY <3>3, <3>5, <3>6, <3>7
  <2>2. outbox' \in [Devices -> Seq(Item)]
    BY <2>1 DEF Compose, TypeOK
  <2>3. TypeOK'
    BY <2>1, <2>2 DEF Compose, TypeOK, server
  <2> QED BY <2>1, <2>3
          DEF Compose, server, OneWriter, NothingAheadOfSeq, WritesAreFresh, NothingMissed
<1>2. CASE AnswerReceived(d) \/ AnswerLost(d)
  <2>1. UNCHANGED <<server, cursor, known>>
    BY <1>2 DEF AnswerReceived, AnswerLost
  <2>2. outbox' \in [Devices -> Seq(Item)]
    <3>1. outbox' = outbox \/ outbox' = [outbox EXCEPT ![d] = <<>>]
      BY <1>2 DEF AnswerReceived, AnswerLost
    <3>2. outbox \in [Devices -> Seq(Item)] /\ <<>> \in Seq(Item)
      BY DEF TypeOK
    <3>3. CASE outbox' = [outbox EXCEPT ![d] = <<>>]
      BY <3>2, <3>3
    <3> QED BY <3>1, <3>2, <3>3
  <2>3. /\ phase' \in [Devices -> {"idle", "pushing", "answered", "pulling"}]
        /\ \A e \in Devices : phase'[e] = "pushing" <=> phase[e] = "pushing"
    BY <1>2 DEF AnswerReceived, AnswerLost, TypeOK
  <2>4. TypeOK'
    BY <2>1, <2>2, <2>3 DEF TypeOK, server
  <2>5. OneWriter'
    BY <2>1, <2>3 DEF OneWriter, server
  <2> QED BY <2>1, <2>4, <2>5 DEF server, NothingAheadOfSeq, WritesAreFresh, NothingMissed
<1> QED BY <1>1, <1>2

LEMMA PullStep ==
    ASSUME IInv, NEW d \in Devices, Pull(d)
    PROVE  IInv'
<1> USE DEF IInv
<1> DEFINE page == Page(cursor[d])
<1>1. PICK stop \in {cursor[d]} \cup {records[k].seq : k \in page} :
        /\ \A k \in page : records[k].seq <= stop
        /\ cursor' = [cursor EXCEPT ![d] = stop]
  BY DEF Pull
<1>2. UNCHANGED <<server, outbox>>
  BY DEF Pull
<1>3. records \in [Keys -> Row] /\ cursor \in [Devices -> Nat]
  BY DEF TypeOK
<1>4. page \subseteq Keys /\ \A k \in Keys : records[k].seq \in Nat
  BY <1>3 DEF Page, After, Row
<1>5. stop \in Nat /\ (stop = cursor[d] \/ \E k \in Keys : stop = records[k].seq)
  BY <1>1, <1>3, <1>4
<1>6. page = {k \in Keys : cursor[d] < records[k].seq /\ records[k].seq <= stop}
  BY <1>1, <1>3, PageIsAnInterval
<1>7. known' = [known EXCEPT ![d] = [k \in Keys |-> IF k \in page THEN records[k]
                                                                 ELSE known[d][k]]]
  BY DEF Pull
<1>8. phase' \in [Devices -> {"idle", "pushing", "answered", "pulling"}]
      /\ \A e \in Devices : phase'[e] = "pushing" <=> phase[e] = "pushing"
  BY DEF Pull, TypeOK
<1>9. TypeOK'
  <2>1. known' \in [Devices -> [Keys -> Row]]
    BY <1>3, <1>7 DEF TypeOK
  <2> QED BY <2>1, <1>1, <1>2, <1>5, <1>8 DEF TypeOK, server
<1>10. OneWriter'
  BY <1>2, <1>8 DEF OneWriter, server
<1>11. NothingAheadOfSeq' /\ WritesAreFresh'
  BY <1>1, <1>2, <1>3, <1>5 DEF server, NothingAheadOfSeq, WritesAreFresh
<1>12. NothingMissed'
  <2> SUFFICES ASSUME NEW e \in Devices, NEW k \in Keys, records[k].seq <= cursor'[e]
               PROVE  known'[e][k] = records[k]
    BY <1>2 DEF NothingMissed, server
  <2>1. CASE e # d
    BY <2>1, <1>1, <1>3, <1>7 DEF NothingMissed, TypeOK
  <2>2. CASE e = d /\ k \in page
    BY <2>2, <1>7 DEF TypeOK
  <2>3. CASE e = d /\ k \notin page
    <3>1. records[k].seq <= cursor[d]
      BY <2>3, <1>1, <1>3, <1>4, <1>6
    <3> QED BY <2>3, <3>1, <1>7 DEF NothingMissed, TypeOK
  <2> QED BY <2>1, <2>2, <2>3
<1> QED BY <1>9, <1>10, <1>11, <1>12

LEMMA PushBeginStep ==
    ASSUME IInv, NEW d \in Devices, PushBegin(d)
    PROVE  IInv'
<1> USE DEF IInv
<1>1. /\ phase' = [phase EXCEPT ![d] = "pushing"]
      /\ lock = NoDevice /\ lock' = d
      /\ left' = [left EXCEPT ![d] = outbox[d]]
      /\ UNCHANGED <<records, seq, clock, writes, results, outbox, cursor, known, answered>>
  BY DEF PushBegin, LockIsFree
<1>2. TypeOK'
  <2>1. left' \in [Devices -> Seq(Item)]
    BY <1>1 DEF TypeOK
  <2>2. phase' \in [Devices -> {"idle", "pushing", "answered", "pulling"}]
    BY <1>1 DEF TypeOK
  <2> QED BY <1>1, <2>1, <2>2 DEF TypeOK
<1>3. OneWriter'
  BY <1>1, NoDeviceIsZero DEF OneWriter, TypeOK
<1>4. NothingAheadOfSeq' /\ WritesAreFresh' /\ NothingMissed'
  BY <1>1 DEF NothingAheadOfSeq, WritesAreFresh, NothingMissed
<1> QED BY <1>2, <1>3, <1>4

LEMMA PushRejectedStep ==
    ASSUME IInv, NEW d \in Devices, PushRejected(d)
    PROVE  IInv'
<1> USE DEF IInv
<1>1. /\ left' = [left EXCEPT ![d] = Tail(left[d])]
      /\ left[d] # <<>>
      /\ UNCHANGED <<records, seq, clock, lock, writes, results, answered, device>>
  BY DEF PushRejected
<1>2. left' \in [Devices -> Seq(Item)]
  BY <1>1 DEF TypeOK
<1>3. TypeOK'
  BY <1>1, <1>2 DEF TypeOK, device
<1> QED BY <1>1, <1>3 DEF device, OneWriter, NothingAheadOfSeq, WritesAreFresh, NothingMissed

(* A commit: only the lock's holder has writes, and each is numbered after every
   committed row and every cursor, so no cursor has passed what becomes visible. *)
LEMMA PushCommitStep ==
    ASSUME IInv, NEW d \in Devices, PushCommit(d)
    PROVE  IInv'
<1> USE DEF IInv
<1>1. /\ phase[d] = "pushing" /\ phase' = [phase EXCEPT ![d] = "answered"]
      /\ lock' = NoDevice
      /\ left' = [left EXCEPT ![d] = <<>>]
      /\ writes' = [writes EXCEPT ![d] = NoWrites]
      /\ results' = [results EXCEPT ![d] = {}]
      /\ records' = [k \in Keys |-> Seen(d, k)]
      /\ answered' = answered \cup results[d]
      /\ UNCHANGED <<seq, clock, outbox, cursor, known>>
  BY DEF PushCommit, EndOfPush
<1>2. \A k \in Keys : Seen(d, k) \in Row
  BY DEF Seen, TypeOK
<1>3. \A e \in Devices : e # d => phase[e] # "pushing" /\ writes[e] = NoWrites
  BY <1>1 DEF OneWriter
<1>4. \A e \in Devices, k \in Keys : writes'[e][k].seq = 0
  BY <1>1, <1>3 DEF NoWrites, NoRow, TypeOK
<1>5. \A k \in Keys : records'[k] # records[k] =>
        /\ \A j \in Keys : records[j].seq < records'[k].seq
        /\ \A e \in Devices : cursor[e] < records'[k].seq
        /\ records'[k].seq <= seq
  BY <1>1 DEF Seen, WritesAreFresh, NothingAheadOfSeq
<1>6. TypeOK'
  <2>1. left' \in [Devices -> Seq(Item)] /\ results' \in [Devices -> SUBSET Result]
    BY <1>1 DEF TypeOK
  <2>2. answered' \subseteq Result
    BY <1>1 DEF TypeOK
  <2>3. writes' \in [Devices -> [Keys -> Row]]
    BY <1>1, NoWritesType DEF TypeOK
  <2>4. phase' \in [Devices -> {"idle", "pushing", "answered", "pulling"}]
    BY <1>1 DEF TypeOK
  <2>5. records' \in [Keys -> Row]
    BY <1>1, <1>2
  <2> QED BY <1>1, <2>1, <2>2, <2>3, <2>4, <2>5 DEF TypeOK
<1>7. OneWriter'
  BY <1>1, <1>3, NoDeviceIsZero DEF OneWriter, TypeOK
<1>8. NothingAheadOfSeq'
  BY <1>1, <1>4, <1>5 DEF NothingAheadOfSeq, TypeOK
<1>9. WritesAreFresh'
  BY <1>4 DEF WritesAreFresh
<1>10. NothingMissed'
  <2> SUFFICES ASSUME NEW e \in Devices, NEW k \in Keys, records'[k].seq <= cursor[e]
               PROVE  known[e][k] = records'[k]
    BY <1>1 DEF NothingMissed
  <2>1. cursor[e] \in Nat /\ records'[k].seq \in Nat
    BY <1>6 DEF TypeOK, Row
  <2>2. records'[k] = records[k]
    BY <1>5, <2>1
  <2> QED BY <2>2 DEF NothingMissed
<1> QED BY <1>6, <1>7, <1>8, <1>9, <1>10

LEMMA PushFailStep ==
    ASSUME IInv, NEW d \in Devices, PushFail(d)
    PROVE  IInv'
<1> USE DEF IInv
<1>1. /\ phase[d] = "pushing" /\ phase' = [phase EXCEPT ![d] = "idle"]
      /\ lock' = NoDevice
      /\ left' = [left EXCEPT ![d] = <<>>]
      /\ writes' = [writes EXCEPT ![d] = NoWrites]
      /\ results' = [results EXCEPT ![d] = {}]
      /\ UNCHANGED <<records, seq, clock, outbox, cursor, known, answered>>
  BY DEF PushFail, EndOfPush
<1>2. TypeOK'
  <2>1. left' \in [Devices -> Seq(Item)] /\ results' \in [Devices -> SUBSET Result]
    BY <1>1 DEF TypeOK
  <2>2. writes' \in [Devices -> [Keys -> Row]]
    BY <1>1, NoWritesType DEF TypeOK
  <2>3. phase' \in [Devices -> {"idle", "pushing", "answered", "pulling"}]
    BY <1>1 DEF TypeOK
  <2> QED BY <1>1, <2>1, <2>2, <2>3 DEF TypeOK
<1>3. \A e \in Devices, k \in Keys :
        writes'[e][k].seq = 0 \/ writes'[e][k] = writes[e][k]
  BY <1>1 DEF NoWrites, NoRow, TypeOK
<1>4. OneWriter'
  BY <1>1, NoDeviceIsZero DEF OneWriter, TypeOK
<1>5. NothingAheadOfSeq'
  <2>1. seq \in Nat
    BY DEF TypeOK
  <2>2. \A e \in Devices, k \in Keys : writes'[e][k].seq <= seq
    BY <1>3, <2>1 DEF NothingAheadOfSeq
  <2> QED BY <1>1, <2>2 DEF NothingAheadOfSeq
<1>6. WritesAreFresh'
  BY <1>1, <1>3 DEF WritesAreFresh
<1>7. NothingMissed'
  BY <1>1 DEF NothingMissed
<1> QED BY <1>2, <1>4, <1>5, <1>6, <1>7

(* The next item is merged: every row it writes takes a number above seq. *)
LEMMA PushItemStep ==
    ASSUME IInv, NEW d \in Devices, PushItem(d)
    PROVE  IInv'
<1> USE DEF IInv
<1> DEFINE item     == Head(left[d])
           row      == Seen(d, item.key)
           incoming == Incoming(d, item)
           merged   == Merge(KindOf[item.key], row.version, row.seq, incoming, item.base)
           written  == merged.write # NoVersion
           rowSeq   == IF written THEN seq + 1 ELSE seq
           after    == IF written THEN [row EXCEPT !.seq = rowSeq, !.version = merged.write]
                                  ELSE row
           own      == IF written THEN [writes[d] EXCEPT ![item.key] = after] ELSE writes[d]
           copy     == [seq |-> rowSeq + 1, copyOf |-> item.key,
                        version |-> [merged.copy EXCEPT !.updated = clock, !.ordered = NoTime,
                                                        !.device = d]]
           noted    == Noted([key |-> item.key, status |-> merged.status, seq |-> after.seq,
                              base |-> item.base, pushed |-> incoming,
                              text |-> after.version.text, deleted |-> after.version.deleted])
<1>1. /\ phase[d] = "pushing" /\ left[d] # <<>>
      /\ left' = [left EXCEPT ![d] = Tail(left[d])]
      /\ results' = [results EXCEPT ![d] = results[d] \cup noted]
      /\ UNCHANGED <<records, clock, lock, answered, device>>
  BY DEF PushItem
<1>2. \/ /\ writes' = [writes EXCEPT ![d] = own]
         /\ seq' = rowSeq
      \/ /\ merged.copy # NoVersion
         /\ \E c \in Keys : writes' = [writes EXCEPT ![d] = [own EXCEPT ![c] = copy]]
         /\ seq' = rowSeq + 1
  BY DEF PushItem
<1> HIDE DEF row, incoming, merged, written, rowSeq, after, own, copy, noted
<1>3. /\ item \in Item /\ Tail(left[d]) \in Seq(Item)
      /\ item.key \in Keys /\ item.base \in Nat
  <2>1. left[d] \in Seq(Item)
    BY DEF TypeOK
  <2>2. item \in Item /\ Tail(left[d]) \in Seq(Item)
    BY <1>1, <2>1
  <2> QED BY <2>2 DEF Item
<1> HIDE DEF item
<1>4. row \in Row /\ row.seq \in Nat /\ row.version \in Version \cup {NoVersion}
  <2>1. row \in Row
    BY <1>3 DEF row, Seen, TypeOK
  <2> QED BY <2>1 DEF Row
<1>5. clock \in Nat /\ seq \in Nat /\ rowSeq \in Nat /\ rowSeq >= seq /\ rowSeq + 1 > seq
  BY DEF rowSeq, TypeOK
<1>6. incoming \in Version
  BY <1>3, <1>5 DEF incoming, Incoming, Clamped, Item, Version
<1>7. /\ merged.status \in Statuses
      /\ merged.write \in Version \cup {NoVersion}
      /\ merged.copy \in Version \cup {NoVersion}
      /\ merged.write = NoVersion => row.version \in Version
  <2>1. KindOf[item.key] \in Kinds
    BY <1>3, KindsOfKeys
  <2>2. merged = Merge(KindOf[item.key], row.version, row.seq, incoming, item.base)
    BY DEF merged
  <2>3. ASSUME NEW kind, kind = KindOf[item.key], NEW base, base = item.base,
               NEW stored, stored = row.version, NEW storedSeq, storedSeq = row.seq
        PROVE  /\ merged.status \in Statuses
               /\ merged.write \in Version \cup {NoVersion}
               /\ merged.copy \in Version \cup {NoVersion}
               /\ merged.write = NoVersion => row.version \in Version
    <3>1. kind \in Kinds /\ base \in Nat
      BY <2>1, <2>3, <1>3
    <3>2. stored \in Version \cup {NoVersion} /\ storedSeq \in Nat
      BY <2>3, <1>4
    <3>3. merged = Merge(kind, stored, storedSeq, incoming, base)
      BY <2>2, <2>3
    <3>4. incoming \in Version
      BY <1>6
    <3>5. /\ merged.status \in Statuses
          /\ merged.write \in Version \cup {NoVersion}
          /\ merged.copy \in Version \cup {NoVersion}
          /\ merged.write = NoVersion => stored \in Version
      BY <3>1, <3>2, <3>3, <3>4, MergeType
    <3> QED BY <3>5, <2>3
  <2> QED BY <2>3
<1>8. after \in Row /\ after.version \in Version /\ after.seq \in Nat
  <2>1. CASE written
    BY <2>1, <1>4, <1>5, <1>7 DEF after, written, Row
  <2>2. CASE ~written
    BY <2>2, <1>4, <1>7 DEF after, written
  <2> QED BY <2>1, <2>2
<1>9. merged.copy # NoVersion => copy \in Row
  <2> SUFFICES ASSUME merged.copy # NoVersion PROVE copy \in Row
    OBVIOUS
  <2>1. [merged.copy EXCEPT !.updated = clock, !.ordered = NoTime, !.device = d] \in Version
    BY <1>5, <1>7 DEF Version, NoTime
  <2> QED BY <1>3, <1>5, <2>1 DEF copy, Row
<1>10. writes[d] \in [Keys -> Row] /\ own \in [Keys -> Row]
  BY <1>3, <1>8 DEF own, TypeOK
<1>11. /\ writes' \in [Devices -> [Keys -> Row]]
       /\ seq' \in Nat /\ seq' >= seq
       /\ \A e \in Devices : e # d => writes'[e] = writes[e]
       /\ \A k \in Keys : \/ writes'[d][k] = writes[d][k]
                          \/ writes'[d][k].seq > seq /\ writes'[d][k].seq <= seq'
  <2>1. \A k \in Keys : own[k] = writes[d][k] \/ (own[k].seq > seq /\ own[k].seq <= rowSeq)
    <3>1. CASE written
      <4>1. after.seq = rowSeq /\ rowSeq = seq + 1
        BY <3>1, <1>4 DEF after, rowSeq, Row
      <4>2. \A k \in Keys : own[k] = IF k = item.key THEN after ELSE writes[d][k]
        BY <3>1, <1>10 DEF own
      <4> QED BY <4>1, <4>2, <1>5
    <3>2. CASE ~written
      BY <3>2 DEF own
    <3> QED BY <3>1, <3>2
  <2>2. CASE /\ writes' = [writes EXCEPT ![d] = own]
             /\ seq' = rowSeq
    <3>1. writes' \in [Devices -> [Keys -> Row]]
      BY <2>2, <1>10 DEF TypeOK
    <3>2. /\ \A e \in Devices : e # d => writes'[e] = writes[e]
          /\ writes'[d] = own
      BY <2>2 DEF TypeOK
    <3> QED BY <2>1, <2>2, <3>1, <3>2, <1>5
  <2>3. CASE /\ merged.copy # NoVersion
             /\ \E c \in Keys : writes' = [writes EXCEPT ![d] = [own EXCEPT ![c] = copy]]
             /\ seq' = rowSeq + 1
    <3>1. PICK c \in Keys : writes' = [writes EXCEPT ![d] = [own EXCEPT ![c] = copy]]
      BY <2>3
    <3>2. [own EXCEPT ![c] = copy] \in [Keys -> Row]
      BY <1>9, <1>10, <2>3
    <3>3. copy.seq = rowSeq + 1
      BY DEF copy
    <3>4. writes' \in [Devices -> [Keys -> Row]]
      BY <3>1, <3>2 DEF TypeOK
    <3>5. \A k \in Keys : writes'[d][k] = IF k = c THEN copy ELSE own[k]
      BY <3>1, <1>10 DEF TypeOK
    <3>6. ASSUME NEW k \in Keys
          PROVE  \/ writes'[d][k] = writes[d][k]
                 \/ writes'[d][k].seq > seq /\ writes'[d][k].seq <= seq'
      <4>1. CASE k = c
        <5>1. writes'[d][k].seq = rowSeq + 1
          BY <4>1, <3>3, <3>5
        <5> QED BY <5>1, <2>3, <1>5
      <4>2. CASE k # c /\ own[k] # writes[d][k]
        <5>1. own[k].seq \in Nat
          BY <1>10 DEF Row
        <5>2. writes'[d][k] = own[k] /\ own[k].seq > seq /\ own[k].seq <= rowSeq
          BY <4>2, <3>5, <2>1
        <5> QED BY <5>1, <5>2, <2>3, <1>5
      <4>3. CASE k # c /\ own[k] = writes[d][k]
        BY <4>3, <3>5
      <4> QED BY <4>1, <4>2, <4>3
    <3>7. \A e \in Devices : e # d => writes'[e] = writes[e]
      BY <3>1 DEF TypeOK
    <3> QED BY <3>4, <3>6, <3>7, <2>3, <1>5
  <2> QED BY <1>2, <2>2, <2>3
<1>12. TypeOK'
  <2>1. noted \subseteq Result
    <3>1. /\ incoming \in Version
          /\ after.version.text \in Texts /\ after.version.deleted \in BOOLEAN
      BY <1>6, <1>8 DEF Version
    <3>2. [key |-> item.key, status |-> merged.status, seq |-> after.seq,
           base |-> item.base, pushed |-> incoming,
           text |-> after.version.text, deleted |-> after.version.deleted] \in Result
      BY <1>3, <1>7, <1>8, <3>1 DEF Result
    <3> QED BY <3>2 DEF noted, Noted
  <2>2. results' \in [Devices -> SUBSET Result]
    BY <1>1, <2>1 DEF TypeOK
  <2>3. left' \in [Devices -> Seq(Item)]
    BY <1>1, <1>3 DEF TypeOK
  <2> QED BY <1>1, <1>11, <2>2, <2>3 DEF TypeOK, device
<1>13. OneWriter'
  BY <1>1, <1>11 DEF OneWriter, device
<1>14. NothingAheadOfSeq'
  <2>1. \A e \in Devices, k \in Keys : writes[e][k].seq \in Nat /\ writes'[e][k].seq \in Nat
    BY <1>11 DEF TypeOK, Row
  <2>2. \A e \in Devices, k \in Keys : writes'[e][k].seq <= seq'
    BY <1>5, <1>11, <2>1 DEF NothingAheadOfSeq
  <2>3. \A k \in Keys : records[k].seq <= seq'
    BY <1>5, <1>11 DEF NothingAheadOfSeq, TypeOK, Row
  <2>4. \A e \in Devices : cursor[e] <= seq'
    BY <1>5, <1>11 DEF NothingAheadOfSeq, TypeOK
  <2> QED BY <1>1, <2>2, <2>3, <2>4 DEF NothingAheadOfSeq, device
<1>15. WritesAreFresh'
  <2> SUFFICES ASSUME NEW e \in Devices, NEW k \in Keys, writes'[e][k].seq # 0
               PROVE  /\ \A j \in Keys : records[j].seq < writes'[e][k].seq
                      /\ \A f \in Devices : cursor[f] < writes'[e][k].seq
    BY <1>1 DEF WritesAreFresh, device
  <2>1. CASE writes'[e][k] = writes[e][k]
    BY <2>1 DEF WritesAreFresh
  <2>2. CASE writes'[e][k].seq > seq
    <3>1. writes'[e][k].seq \in Nat
      BY <1>11 DEF Row
    <3>2. \A j \in Keys : records[j].seq \in Nat /\ records[j].seq <= seq
      BY DEF NothingAheadOfSeq, TypeOK, Row
    <3>3. \A f \in Devices : cursor[f] \in Nat /\ cursor[f] <= seq
      BY DEF NothingAheadOfSeq, TypeOK
    <3> QED BY <2>2, <3>1, <3>2, <3>3, <1>5
  <2> QED BY <1>11, <2>1, <2>2
<1>16. NothingMissed'
  BY <1>1 DEF NothingMissed, device
<1> QED BY <1>12, <1>13, <1>14, <1>15, <1>16

LEMMA TickStep ==
    ASSUME IInv, Tick PROVE IInv'
BY DEF IInv, Tick, TypeOK, device, OneWriter, NothingAheadOfSeq, WritesAreFresh, NothingMissed

-----------------------------------------------------------------------------
THEOREM Inductive == Spec => []IInv
<1>1. IInv /\ [Next]_vars => IInv'
  <2> SUFFICES ASSUME IInv, [Next]_vars PROVE IInv'
    OBVIOUS
  <2>1. CASE \E d \in Devices :
               \/ Edits(d)
               \/ AnswerReceived(d) \/ AnswerLost(d)
               \/ Pull(d)
               \/ PushBegin(d) \/ PushRejected(d) \/ PushItem(d) \/ PushCommit(d) \/ PushFail(d)
    BY <2>1, DeviceSteps, PullStep, PushBeginStep, PushRejectedStep, PushItemStep,
       PushCommitStep, PushFailStep
  <2>2. CASE Tick
    BY <2>2, TickStep
  <2>3. CASE UNCHANGED vars
    BY <2>3 DEF IInv, vars, server, device, TypeOK, OneWriter, NothingAheadOfSeq,
                WritesAreFresh, NothingMissed
  <2> QED BY <2>1, <2>2, <2>3 DEF Next
<1> QED BY InitIInv, <1>1, PTL DEF Spec

(* Every variable of the sync store keeps its type, whatever the devices send and in
   whatever order pushes, pulls, failures and lost answers happen. *)
THEOREM TypeCorrect == Spec => []TypeOK
BY Inductive, PTL DEF IInv

(* No cursor ever skips a committed write: pull's one index range over seq is enough,
   because the per-user lock makes the order of commits the order of numbers. *)
THEOREM CursorsMissNothing == Spec => []NothingMissed
BY Inductive, PTL DEF IInv

-----------------------------------------------------------------------------
(* Refinement: a commit publishes, a pull advances, every other step leaves the feed
   alone. *)
FeedRows == [k \in Keys |-> records[k].seq]
FeedHeld == [d \in Devices |-> [k \in Keys |-> known[d][k].seq]]

LEMMA CommitPublishes ==
    ASSUME IInv, IInv', NEW d \in Devices, PushCommit(d)
    PROVE  Feed!Publish
<1>1. /\ records' = [k \in Keys |-> Seen(d, k)]
      /\ UNCHANGED <<cursor, known>>
  BY DEF PushCommit
<1>2. \A k \in Keys : records'[k].seq \in Nat
  BY DEF IInv, TypeOK, Row
<1>3. \A k \in Keys : records'[k].seq # records[k].seq =>
        \A j \in Keys : records'[k].seq > records[j].seq
  BY <1>1 DEF Seen, IInv, WritesAreFresh
<1> QED BY <1>1, <1>2, <1>3 DEF Feed!Publish

LEMMA PullAdvances ==
    ASSUME IInv, NEW d \in Devices, Pull(d)
    PROVE  Feed!Advance(d)
<1> DEFINE page == Page(cursor[d])
<1>1. PICK stop \in {cursor[d]} \cup {records[k].seq : k \in page} :
        /\ \A k \in page : records[k].seq <= stop
        /\ cursor' = [cursor EXCEPT ![d] = stop]
  BY DEF Pull
<1>2. /\ records \in [Keys -> Row] /\ cursor[d] \in Nat
      /\ known \in [Devices -> [Keys -> Row]]
  BY DEF IInv, TypeOK
<1>3. page = {k \in Keys : cursor[d] < records[k].seq /\ records[k].seq <= stop}
  BY <1>1, <1>2, PageIsAnInterval
<1>4. /\ UNCHANGED records
      /\ known' = [known EXCEPT ![d] = [k \in Keys |-> IF k \in page THEN records[k]
                                                                    ELSE known[d][k]]]
  BY DEF Pull, server
<1> HIDE DEF page
<1>5. stop >= cursor[d] /\ stop \in {cursor[d]} \cup {FeedRows[k] : k \in Keys}
  <2>1. page \subseteq Keys
    BY <1>3
  <2>2. \A k \in page : records[k].seq \in Nat /\ cursor[d] < records[k].seq
    BY <1>2, <1>3 DEF Row
  <2> QED BY <1>1, <1>2, <2>1, <2>2 DEF FeedRows
<1>6. FeedHeld' = [FeedHeld EXCEPT ![d] =
        [k \in Keys |-> IF cursor[d] < FeedRows[k] /\ FeedRows[k] <= stop
                        THEN FeedRows[k] ELSE FeedHeld[d][k]]]
  <2>1. ASSUME NEW k \in Keys
        PROVE  known'[d][k].seq = IF cursor[d] < FeedRows[k] /\ FeedRows[k] <= stop
                                  THEN FeedRows[k] ELSE FeedHeld[d][k]
    BY <1>2, <1>3, <1>4 DEF FeedRows, FeedHeld
  <2>2. \A e \in Devices : e # d => known'[e] = known[e]
    BY <1>2, <1>4
  <2> DEFINE new == [k \in Keys |-> IF cursor[d] < FeedRows[k] /\ FeedRows[k] <= stop
                                    THEN FeedRows[k] ELSE FeedHeld[d][k]]
  <2>3. [k \in Keys |-> known'[d][k].seq] = new
    BY <2>1
  <2> HIDE DEF new
  <2>4. FeedHeld' = [e \in Devices |-> IF e = d THEN new ELSE FeedHeld[e]]
    BY <2>2, <2>3 DEF FeedHeld
  <2>5. FeedHeld' = [FeedHeld EXCEPT ![d] = new]
    BY <2>4 DEF FeedHeld
  <2> QED BY <2>5 DEF new
<1> QED BY <1>1, <1>4, <1>5, <1>6 DEF Feed!Advance, FeedRows, FeedHeld

(* The store implements the abstract change feed: whatever concurrent pushes, failures
   and lost answers do, rows appear in the order of their numbers and each pull
   delivers exactly one interval of them. *)
THEOREM StoreIsAFeed == Spec => ImplementsFeed
<1>1. Init => Feed!Init
  BY DEF Init, Feed!Init, NoWrites, NoRow
<1>2. IInv /\ IInv' /\ [Next]_vars => [Feed!Next]_(Feed!vars)
  <2> SUFFICES ASSUME IInv, IInv', [Next]_vars
               PROVE  Feed!Next \/ UNCHANGED <<records, cursor, known>>
    BY DEF Feed!vars
  <2>1. CASE UNCHANGED vars \/ Tick
    BY <2>1 DEF vars, server, device, Tick
  <2>2. ASSUME NEW d \in Devices,
               Edits(d) \/ AnswerReceived(d) \/ AnswerLost(d)
        PROVE  UNCHANGED <<records, cursor, known>>
    BY <2>2 DEF Edits, EditText, Rearrange, Delete, Compose, AnswerReceived, AnswerLost, server
  <2>3. ASSUME NEW d \in Devices,
               PushBegin(d) \/ PushRejected(d) \/ PushItem(d) \/ PushFail(d)
        PROVE  UNCHANGED <<records, cursor, known>>
    BY <2>3 DEF PushBegin, PushRejected, PushItem, PushFail, device
  <2>4. ASSUME NEW d \in Devices, Pull(d)
        PROVE  Feed!Next
    BY <2>4, PullAdvances DEF Feed!Next
  <2>5. ASSUME NEW d \in Devices, PushCommit(d)
        PROVE  Feed!Next
    BY <2>5, CommitPublishes DEF Feed!Next
  <2> QED BY <2>1, <2>2, <2>3, <2>4, <2>5 DEF Next
<1> QED BY <1>1, <1>2, Inductive, PTL DEF Spec, ImplementsFeed, Feed!Spec

-----------------------------------------------------------------------------
(* What the merges keep.  The second inductive invariant: rows exist as a whole, what a
   push is about to commit lies ahead of the committed row, copies have keys of their
   own, and every text answered for a note is shown, copied or was replaced knowingly,
   in the committed rows and in what each transaction sees. *)
Whole(row) ==
    /\ row.seq = 0 => row = NoRow
    /\ row.seq # 0 => row.version \in Version

RowsAreWhole ==
    /\ \A k \in Keys : Whole(records[k])
    /\ \A d \in Devices : \A k \in Keys : Whole(writes[d][k])

Onward(k, old, new) ==
    /\ new.updated >= old.updated
    /\ KindOf[k] \in OrderedKinds => new.ordered >= old.ordered

WritesGoOnward ==
    \A d \in Devices : \A k \in Keys :
        records[k].seq # 0 /\ writes[d][k].seq # 0 =>
            Onward(k, records[k].version, writes[d][k].version)

OnlyEdits(items) == \A i \in DOMAIN items : items[i].key \in EditKeys

CopiesStayApart ==
    /\ \A d \in Devices : OnlyEdits(outbox[d]) /\ OnlyEdits(left[d])
    /\ \A k \in EditKeys : records[k].copyOf = NoKey
    /\ \A d \in Devices : \A k \in EditKeys : writes[d][k].copyOf = NoKey

ShownIn(rows, r) ==
    ~rows[r.key].version.deleted /\ Content(rows[r.key].version) = Content(r)
CopiedIn(rows, r) ==
    \E c \in Keys : rows[c].copyOf = r.key /\ Content(rows[c].version) = Content(r)
ReplacedIn(done, r) ==
    \E s \in done : s.key = r.key /\ s.seq > r.seq /\ (s.base >= r.seq \/ s.deleted)

Traced(rows, done) ==
    \A r \in done :
        /\ KindOf[r.key] = "note"
        /\ rows[r.key].seq # 0 /\ r.seq <= rows[r.key].seq
        /\ ~r.deleted => ShownIn(rows, r) \/ CopiedIn(rows, r) \/ ReplacedIn(done, r)

\* The rows as the transaction of d sees them.
View(d) == [k \in Keys |-> Seen(d, k)]

NotesAreTraced ==
    /\ Traced(records, answered)
    /\ \A d \in Devices : Traced(View(d), answered \cup results[d])
    /\ \A d \in Devices : phase[d] # "pushing" => results[d] = {}

KeepInv == RowsAreWhole /\ WritesGoOnward /\ CopiesStayApart /\ NotesAreTraced

(* What merge() writes over a stored version is not older, in content or in order. *)
LEMMA MergeGoesOnward ==
    ASSUME NEW k \in Keys, NEW stored \in Version, NEW storedSeq \in Nat,
           NEW incoming \in Version, NEW base \in Nat,
           NEW m, m = Merge(KindOf[k], stored, storedSeq, incoming, base),
           m.write # NoVersion
    PROVE  Onward(k, stored, m.write)
<1>1. m.write = Combined(KindOf[k], stored, incoming)
  BY NoVersionIsNone DEF Merge
<1>2. /\ stored.updated \in Nat /\ stored.ordered \in Nat /\ stored.device \in Nat
      /\ incoming.updated \in Nat /\ incoming.ordered \in Nat /\ incoming.device \in Nat
  BY DevicesAreOrdered DEF Version
<1>3. m.write.updated = IF ContentWins(stored, incoming) THEN incoming.updated ELSE stored.updated
  BY <1>1 DEF Combined, Version
<1>4. KindOf[k] \in OrderedKinds =>
        m.write.ordered = IF OrderWins(KindOf[k], stored, incoming) THEN incoming.ordered
                                                                    ELSE stored.ordered
  BY <1>1 DEF Combined, Version
<1>5. ContentWins(stored, incoming) => incoming.updated >= stored.updated
  BY <1>2 DEF ContentWins, Newer
<1>6. OrderWins(KindOf[k], stored, incoming) => incoming.ordered >= stored.ordered
  BY <1>2 DEF OrderWins, Newer
<1>7. m.write.updated >= stored.updated
  BY <1>2, <1>3, <1>5
<1>8. KindOf[k] \in OrderedKinds => m.write.ordered >= stored.ordered
  BY <1>2, <1>4, <1>6
<1> QED BY <1>7, <1>8 DEF Onward

(* What merge() does to the text of a live note: it stays, or the note keeps it as a
   copy, or the push that replaces it deletes the note or had seen it. *)
LEMMA MergeKeepsText ==
    ASSUME NEW stored \in Version, ~stored.deleted, NEW storedSeq \in Nat,
           NEW incoming \in Version, NEW base \in Nat,
           NEW m, m = Merge("note", stored, storedSeq, incoming, base),
           m.write # NoVersion
    PROVE  \/ ~m.write.deleted /\ Content(m.write) = Content(stored)
           \/ m.copy = stored
           \/ /\ m.status # "older_ignored"
              /\ m.write.deleted \/ base >= storedSeq
<1>1. stored # NoVersion
  BY NoVersionIsNone
<1>2. m.write = Combined("note", stored, incoming)
  BY <1>1 DEF Merge
<1>3. CASE ~ContentWins(stored, incoming)
  <2>1. m.write.text = stored.text /\ m.write.deleted = stored.deleted
    BY <1>2, <1>3 DEF Combined, Version
  <2> QED BY <2>1 DEF Content
<1>4. CASE ContentWins(stored, incoming)
  <2>1. m.write.text = incoming.text /\ m.write.deleted = incoming.deleted
    BY <1>2, <1>4 DEF Combined, Version
  <2>2. m.status # "older_ignored"
    BY <1>1, <1>4 DEF Merge, StatusOf
  <2>3. CASE incoming.deleted
    BY <2>1, <2>2, <2>3
  <2>4. CASE base >= storedSeq
    BY <2>2, <2>4
  <2>5. CASE ~incoming.deleted /\ Content(incoming) = Content(stored)
    BY <2>1, <2>5 DEF Content
  <2>6. CASE ~incoming.deleted /\ ~(base >= storedSeq) /\ Content(incoming) # Content(stored)
    <3>1. UnseenEdit("note", stored, storedSeq, incoming, base)
      BY <2>6 DEF UnseenEdit
    <3>2. m.copy = Loser(stored, incoming)
      BY <1>1, <3>1 DEF Merge
    <3> QED BY <1>4, <3>2 DEF Loser
  <2> QED BY <2>3, <2>4, <2>5, <2>6
<1> QED BY <1>3, <1>4

(* One merge carries the trace of every answered note on, if it touches no copy, moves
   only the pushed key's row and keeps that row's text somewhere. *)
LEMMA TraceGoesOn ==
    ASSUME NEW rows \in [Keys -> Row], NEW next \in [Keys -> Row],
           NEW done \in SUBSET Result, NEW all \in SUBSET Result, done \subseteq all,
           NEW key \in Keys,
           Traced(rows, done),
           \A c \in Keys : rows[c].copyOf # NoKey => next[c] = rows[c],
           \A k \in Keys : k # key /\ rows[k].seq # 0 => next[k] = rows[k],
           next[key].seq >= rows[key].seq, next[key].seq # 0,
           KindOf[key] = "note" /\ rows[key].seq # 0 /\ ~rows[key].version.deleted =>
               \/ ~next[key].version.deleted
                  /\ Content(next[key].version) = Content(rows[key].version)
               \/ \E c \in Keys : next[c].copyOf = key
                                  /\ Content(next[c].version) = Content(rows[key].version)
               \/ \E s \in all : s.key = key /\ s.seq > rows[key].seq
                                 /\ (s.base >= rows[key].seq \/ s.deleted),
           \A r \in all \ done :
               /\ r.key = key /\ KindOf[key] = "note"
               /\ r.seq = next[key].seq
               /\ r.text = next[key].version.text
               /\ r.deleted = next[key].version.deleted
    PROVE  Traced(next, all)
<1> SUFFICES ASSUME NEW r \in all
             PROVE  /\ KindOf[r.key] = "note"
                    /\ next[r.key].seq # 0 /\ r.seq <= next[r.key].seq
                    /\ ~r.deleted =>
                         ShownIn(next, r) \/ CopiedIn(next, r) \/ ReplacedIn(all, r)
  BY DEF Traced
<1>1. \A k \in Keys : rows[k].seq \in Nat /\ next[k].seq \in Nat
  BY DEF Row
<1>2. \A s \in all : s.key \in Keys /\ s.seq \in Nat /\ s.base \in Nat
  BY DEF Result
<1>3. CASE r \notin done
  <2>1. r.seq <= next[r.key].seq
    BY <1>1, <1>3
  <2>2. ~r.deleted => ShownIn(next, r)
    BY <1>3 DEF ShownIn, Content
  <2> QED BY <1>3, <2>1, <2>2
<1>4. CASE r \in done
  <2>1. /\ KindOf[r.key] = "note"
        /\ rows[r.key].seq # 0 /\ r.seq <= rows[r.key].seq
        /\ ~r.deleted => ShownIn(rows, r) \/ CopiedIn(rows, r) \/ ReplacedIn(done, r)
    BY <1>4 DEF Traced
  <2>2. next[r.key].seq # 0 /\ r.seq <= next[r.key].seq
    BY <1>1, <1>2, <2>1
  <2>3. CopiedIn(rows, r) => CopiedIn(next, r)
    <3> SUFFICES ASSUME CopiedIn(rows, r) PROVE CopiedIn(next, r)
      OBVIOUS
    <3>1. PICK c \in Keys : rows[c].copyOf = r.key /\ Content(rows[c].version) = Content(r)
      BY DEF CopiedIn
    <3>2. r.key # NoKey
      BY <1>2, KeysAreFinite
    <3>3. next[c] = rows[c]
      BY <3>1, <3>2
    <3> QED BY <3>1, <3>3 DEF CopiedIn
  <2>4. ReplacedIn(done, r) => ReplacedIn(all, r)
    BY DEF ReplacedIn
  <2>5. ASSUME ~r.deleted, ShownIn(rows, r)
        PROVE  ShownIn(next, r) \/ CopiedIn(next, r) \/ ReplacedIn(all, r)
    <3>1. CASE r.key # key
      BY <1>2, <2>1, <2>5, <3>1 DEF ShownIn
    <3>2. CASE r.key = key
      <4>1. ~rows[key].version.deleted /\ Content(rows[key].version) = Content(r)
        BY <2>5, <3>2 DEF ShownIn
      <4>2. CASE ~next[key].version.deleted
                 /\ Content(next[key].version) = Content(rows[key].version)
        BY <3>2, <4>1, <4>2 DEF ShownIn
      <4>3. CASE \E c \in Keys : next[c].copyOf = key
                                 /\ Content(next[c].version) = Content(rows[key].version)
        BY <3>2, <4>1, <4>3 DEF CopiedIn
      <4>4. CASE \E s \in all : s.key = key /\ s.seq > rows[key].seq
                                /\ (s.base >= rows[key].seq \/ s.deleted)
        <5>1. PICK s \in all : s.key = key /\ s.seq > rows[key].seq
                               /\ (s.base >= rows[key].seq \/ s.deleted)
          BY <4>4
        <5>2. s.seq > r.seq /\ (s.base >= r.seq \/ s.deleted)
          BY <1>1, <1>2, <2>1, <3>2, <5>1
        <5> QED BY <3>2, <5>1, <5>2 DEF ReplacedIn
      <4> QED BY <2>1, <3>2, <4>1, <4>2, <4>3, <4>4
    <3> QED BY <3>1, <3>2
  <2> QED BY <2>1, <2>2, <2>3, <2>4, <2>5
<1> QED BY <1>3, <1>4

(* An empty store keeps everything there is. *)
LEMMA InitKeeps == Init => KeepInv
<1> SUFFICES ASSUME Init PROVE KeepInv
  OBVIOUS
<1>1. Whole(NoRow) /\ NoRow.copyOf = NoKey
  BY DEF Whole, NoRow
<1>2. RowsAreWhole
  BY <1>1 DEF Init, NoWrites, RowsAreWhole
<1>3. WritesGoOnward
  BY DEF Init, NoWrites, NoRow, WritesGoOnward
<1>4. OnlyEdits(<<>>)
  BY DEF OnlyEdits
<1>5. CopiesStayApart
  BY <1>1, <1>4, KindsOfKeys DEF Init, NoWrites, CopiesStayApart
<1>6. NotesAreTraced
  BY DEF Init, NotesAreTraced, Traced
<1> QED BY <1>2, <1>3, <1>5, <1>6 DEF KeepInv

(* The steps that leave the rows, written or committed, and the results as they are. *)
LEMMA KeepStays ==
    ASSUME KeepInv, UNCHANGED <<records, writes, results, answered>>,
           \A d \in Devices : OnlyEdits(outbox[d])' /\ OnlyEdits(left[d])',
           \A d \in Devices : phase'[d] # "pushing" => results[d] = {}
    PROVE  KeepInv'
<1>1. RowsAreWhole' /\ WritesGoOnward'
  BY DEF KeepInv, RowsAreWhole, WritesGoOnward
<1>2. CopiesStayApart'
  BY DEF KeepInv, CopiesStayApart
<1>3. \A d \in Devices : View(d)' = View(d)
  BY DEF View, Seen
<1>4. NotesAreTraced'
  BY <1>3 DEF KeepInv, NotesAreTraced
<1> QED BY <1>1, <1>2, <1>4 DEF KeepInv

(* Users edit the records that are theirs to edit; a copy is nobody's until it is pulled. *)
LEMMA DevicesKeep ==
    ASSUME IInv, KeepInv, NEW d \in Devices,
           Edits(d) \/ AnswerReceived(d) \/ AnswerLost(d)
    PROVE  KeepInv'
<1>1. UNCHANGED server
  BY DEF Edits, EditText, Rearrange, Delete, Compose, AnswerReceived, AnswerLost
<1>2. \A e \in Devices : phase'[e] # "pushing" => phase[e] # "pushing"
  BY DEF Edits, EditText, Rearrange, Delete, Compose, AnswerReceived, AnswerLost,
         IInv, TypeOK
<1>3. outbox \in [Devices -> Seq(Item)]
  BY DEF IInv, TypeOK
<1>4. \A e \in Devices : OnlyEdits(outbox[e])'
  <2>1. CASE AnswerReceived(d) \/ AnswerLost(d)
    <3>1. \A e \in Devices : outbox'[e] = outbox[e] \/ outbox'[e] = <<>>
      BY <2>1, <1>3 DEF AnswerReceived, AnswerLost
    <3> QED BY <3>1 DEF KeepInv, CopiesStayApart, OnlyEdits
  <2>2. CASE Edits(d)
    <3>1. PICK item : Compose(d, item) /\ item.key \in EditKeys
      <4>1. PICK k \in EditKeys, time \in EditTimes :
              \/ \E text \in EditTexts : EditText(d, k, text, time)
              \/ \E pos \in Positions : Rearrange(d, k, pos, time)
              \/ Delete(d, k, time)
        BY <2>2 DEF Edits
      <4>2. CASE \E text \in EditTexts : EditText(d, k, text, time)
        BY <4>2 DEF EditText
      <4>3. CASE \E pos \in Positions : Rearrange(d, k, pos, time)
        BY <4>3 DEF Rearrange
      <4>4. CASE Delete(d, k, time)
        BY <4>4 DEF Delete
      <4> QED BY <4>1, <4>2, <4>3, <4>4
    <3>2. outbox' = [outbox EXCEPT ![d] = Append(outbox[d], item)]
      BY <3>1 DEF Compose
    <3>3. OnlyEdits(Append(outbox[d], item))
      <4>1. outbox[d] \in Seq(Item)
        BY <1>3
      <4>2. PICK s : s = outbox[d]
        OBVIOUS
      <4>3. s \in Seq(Item) /\ OnlyEdits(s)
        BY <4>1, <4>2 DEF KeepInv, CopiesStayApart
      <4>4. \A i \in DOMAIN Append(s, item) :
                (i \in DOMAIN s /\ Append(s, item)[i] = s[i]) \/ Append(s, item)[i] = item
        BY <4>3
      <4> QED BY <3>1, <4>2, <4>3, <4>4 DEF OnlyEdits
    <3>4. \A e \in Devices : outbox'[e] = IF e = d THEN Append(outbox[d], item) ELSE outbox[e]
      BY <1>3, <3>2
    <3>5. \A e \in Devices : OnlyEdits(outbox'[e])
      BY <3>3, <3>4 DEF KeepInv, CopiesStayApart
    <3> QED BY <3>5 DEF OnlyEdits
  <2> QED BY <2>1, <2>2
<1>5. \A e \in Devices : OnlyEdits(left[e])'
  BY <1>1 DEF server, KeepInv, CopiesStayApart, OnlyEdits
<1> QED BY <1>1, <1>2, <1>4, <1>5, KeepStays DEF server, KeepInv, NotesAreTraced

(* A pull reads, and a push begins or skips a rejected item, without writing a row. *)
LEMMA PullKeeps ==
    ASSUME IInv, KeepInv, NEW d \in Devices, Pull(d)
    PROVE  KeepInv'
<1>1. UNCHANGED <<server, outbox>>
  BY DEF Pull
<1>2. \A e \in Devices : phase'[e] # "pushing" => phase[e] # "pushing"
  BY DEF Pull, IInv, TypeOK
<1>3. \A e \in Devices : OnlyEdits(outbox[e])' /\ OnlyEdits(left[e])'
  BY <1>1 DEF server, KeepInv, CopiesStayApart, OnlyEdits
<1> QED BY <1>1, <1>2, <1>3, KeepStays DEF server, KeepInv, NotesAreTraced

LEMMA BeginKeeps ==
    ASSUME IInv, KeepInv, NEW d \in Devices, PushBegin(d) \/ PushRejected(d)
    PROVE  KeepInv'
<1>1. UNCHANGED <<records, writes, results, answered, outbox>>
  BY DEF PushBegin, PushRejected, device
<1>2. \A e \in Devices : phase'[e] # "pushing" => phase[e] # "pushing"
  BY DEF PushBegin, PushRejected, device, IInv, TypeOK
<1>3. \A e \in Devices : OnlyEdits(left'[e])
  <2>1. CASE PushBegin(d)
    <3>1. \A e \in Devices : left'[e] = left[e] \/ left'[e] = outbox[e]
      BY <2>1 DEF PushBegin, IInv, TypeOK
    <3> QED BY <3>1 DEF KeepInv, CopiesStayApart
  <2>2. CASE PushRejected(d)
    <3>1. \A e \in Devices : left'[e] = IF e = d THEN Tail(left[d]) ELSE left[e]
      BY <2>2 DEF PushRejected, IInv, TypeOK
    <3>2. PICK s : s = left[d]
      OBVIOUS
    <3>3. s \in Seq(Item) /\ s # <<>> /\ OnlyEdits(s)
      BY <2>2, <3>2 DEF PushRejected, IInv, TypeOK, KeepInv, CopiesStayApart
    <3>4. \A i \in DOMAIN Tail(s) : i + 1 \in DOMAIN s /\ Tail(s)[i] = s[i + 1]
      BY <3>3
    <3>5. OnlyEdits(Tail(s))
      BY <3>3, <3>4 DEF OnlyEdits
    <3> QED BY <3>1, <3>2, <3>5 DEF KeepInv, CopiesStayApart
  <2> QED BY <2>1, <2>2
<1>4. \A e \in Devices : OnlyEdits(outbox[e])' /\ OnlyEdits(left[e])'
  BY <1>1, <1>3 DEF KeepInv, CopiesStayApart, OnlyEdits
<1> QED BY <1>1, <1>2, <1>4, KeepStays DEF KeepInv, NotesAreTraced

(* A commit publishes exactly what the transaction saw. *)
LEMMA CommitKeeps ==
    ASSUME IInv, KeepInv, NEW d \in Devices, PushCommit(d)
    PROVE  KeepInv'
<1>1. /\ phase[d] = "pushing" /\ phase' = [phase EXCEPT ![d] = "answered"]
      /\ left' = [left EXCEPT ![d] = <<>>]
      /\ writes' = [writes EXCEPT ![d] = NoWrites]
      /\ results' = [results EXCEPT ![d] = {}]
      /\ records' = View(d)
      /\ answered' = answered \cup results[d]
      /\ UNCHANGED outbox
  BY DEF PushCommit, EndOfPush, View
<1>2. \A e \in Devices : e # d => phase[e] # "pushing"
  BY <1>1 DEF IInv, OneWriter
<1>3. \A e \in Devices : writes'[e] = NoWrites /\ results'[e] = {}
  BY <1>1, <1>2 DEF IInv, TypeOK, OneWriter, KeepInv, NotesAreTraced
<1>4. \A k \in Keys : records'[k] = records[k] \/ records'[k] = writes[d][k]
  BY <1>1 DEF View, Seen
<1>5. Whole(NoRow) /\ NoRow.copyOf = NoKey
  BY DEF Whole, NoRow
<1>6. RowsAreWhole'
  <2>1. \A k \in Keys : Whole(records'[k])
    BY <1>4 DEF KeepInv, RowsAreWhole
  <2>2. \A e \in Devices : \A k \in Keys : Whole(writes'[e][k])
    BY <1>3, <1>5 DEF NoWrites
  <2> QED BY <2>1, <2>2 DEF RowsAreWhole, Whole
<1>7. WritesGoOnward'
  BY <1>3 DEF NoWrites, NoRow, WritesGoOnward
<1>8. CopiesStayApart'
  <2>1. \A e \in Devices : OnlyEdits(outbox'[e]) /\ OnlyEdits(left'[e])
    <3>1. \A e \in Devices : left'[e] = left[e] \/ left'[e] = <<>>
      BY <1>1 DEF IInv, TypeOK
    <3> QED BY <1>1, <3>1 DEF KeepInv, CopiesStayApart, OnlyEdits
  <2>2. \A k \in EditKeys : records'[k].copyOf = NoKey
    BY <1>4, KindsOfKeys DEF KeepInv, CopiesStayApart
  <2>3. \A e \in Devices : \A k \in EditKeys : writes'[e][k].copyOf = NoKey
    BY <1>3, <1>5, KindsOfKeys DEF NoWrites
  <2> QED BY <2>1, <2>2, <2>3 DEF CopiesStayApart, OnlyEdits
<1>9. NotesAreTraced'
  <2>1. Traced(records', answered')
    BY <1>1 DEF KeepInv, NotesAreTraced
  <2>2. \A e \in Devices : View(e)' = records'
    <3>1. \A e \in Devices : \A k \in Keys : Seen(e, k)' = records'[k]
      BY <1>3 DEF Seen, NoWrites, NoRow
    <3>2. \A e \in Devices : View(e)' = [k \in Keys |-> records'[k]]
      BY <3>1 DEF View
    <3>3. records' = [k \in Keys |-> records'[k]]
      BY <1>1 DEF View
    <3> QED BY <3>2, <3>3
  <2>3. \A e \in Devices : answered' \cup results'[e] = answered'
    BY <1>3
  <2> QED BY <1>3, <2>1, <2>2, <2>3 DEF NotesAreTraced, Traced, ShownIn, CopiedIn, ReplacedIn
<1> QED BY <1>6, <1>7, <1>8, <1>9 DEF KeepInv

(* A rolled back push leaves the committed rows and the answers there were. *)
LEMMA FailKeeps ==
    ASSUME IInv, KeepInv, NEW d \in Devices, PushFail(d)
    PROVE  KeepInv'
<1>1. /\ phase[d] = "pushing" /\ phase' = [phase EXCEPT ![d] = "idle"]
      /\ left' = [left EXCEPT ![d] = <<>>]
      /\ writes' = [writes EXCEPT ![d] = NoWrites]
      /\ results' = [results EXCEPT ![d] = {}]
      /\ UNCHANGED <<records, answered, outbox>>
  BY DEF PushFail, EndOfPush
<1>2. \A e \in Devices : e # d => phase[e] # "pushing"
  BY <1>1 DEF IInv, OneWriter
<1>3. \A e \in Devices : writes'[e] = NoWrites /\ results'[e] = {}
  BY <1>1, <1>2 DEF IInv, TypeOK, OneWriter, KeepInv, NotesAreTraced
<1>4. Whole(NoRow) /\ NoRow.copyOf = NoKey
  BY DEF Whole, NoRow
<1>5. RowsAreWhole'
  BY <1>1, <1>3, <1>4 DEF NoWrites, KeepInv, RowsAreWhole, Whole
<1>6. WritesGoOnward'
  BY <1>3 DEF NoWrites, NoRow, WritesGoOnward
<1>7. CopiesStayApart'
  <2>1. \A e \in Devices : OnlyEdits(outbox'[e]) /\ OnlyEdits(left'[e])
    <3>1. \A e \in Devices : left'[e] = left[e] \/ left'[e] = <<>>
      BY <1>1 DEF IInv, TypeOK
    <3> QED BY <1>1, <3>1 DEF KeepInv, CopiesStayApart, OnlyEdits
  <2>2. \A e \in Devices : \A k \in EditKeys : writes'[e][k].copyOf = NoKey
    BY <1>3, <1>4, KindsOfKeys DEF NoWrites
  <2> QED BY <1>1, <2>1, <2>2 DEF KeepInv, CopiesStayApart, OnlyEdits
<1>8. NotesAreTraced'
  <2>1. \A e \in Devices : View(e)' = records
    <3>1. \A e \in Devices : \A k \in Keys : Seen(e, k)' = records[k]
      BY <1>1, <1>3 DEF Seen, NoWrites, NoRow
    <3>2. \A e \in Devices : View(e)' = [k \in Keys |-> records[k]]
      BY <3>1 DEF View
    <3>3. records = [k \in Keys |-> records[k]]
      BY DEF IInv, TypeOK
    <3> QED BY <3>2, <3>3
  <2>2. \A e \in Devices : answered' \cup results'[e] = answered
    BY <1>1, <1>3
  <2> QED BY <1>1, <1>3, <2>1, <2>2
          DEF KeepInv, NotesAreTraced, Traced, ShownIn, CopiedIn, ReplacedIn
<1> QED BY <1>5, <1>6, <1>7, <1>8 DEF KeepInv

(* What the merge of one item changes, said row by row: the item's row if anything is
   written, and a fresh row for the copy. *)
ItemEffect(d, key, row, m, after, copy) ==
    /\ \A e \in Devices : e # d => writes'[e] = writes[e]
    /\ \A k \in EditKeys : k # key => writes'[d][k] = writes[d][k]
    /\ \A k \in Keys \ EditKeys :
          \/ writes'[d][k] = writes[d][k]
          \/ m.copy # NoVersion /\ Seen(d, k).seq = 0 /\ writes'[d][k] = copy
    /\ writes'[d][key] = IF m.write # NoVersion THEN after ELSE writes[d][key]
    /\ m.copy # NoVersion => \E c \in Keys : writes'[d][c] = copy
    /\ m.write # NoVersion => after.seq = seq + 1 /\ after.version = m.write
                              /\ after.copyOf = row.copyOf
    /\ m.write = NoVersion => after = row
    /\ m.copy # NoVersion => /\ copy.seq # 0 /\ copy.copyOf = key
                             /\ copy.version \in Version
                             /\ copy.version.text = m.copy.text

(* The next item is merged: its row goes on from the row the transaction saw, a copy
   gets a row of its own, and the result tells what the row says now. *)
LEMMA ItemKeeps ==
    ASSUME IInv, KeepInv, NEW d \in Devices, PushItem(d)
    PROVE  KeepInv'
<1>1. PICK item : item = Head(left[d])
  OBVIOUS
<1>2. /\ phase[d] = "pushing" /\ left[d] # <<>>
      /\ left' = [left EXCEPT ![d] = Tail(left[d])]
      /\ UNCHANGED <<records, answered, outbox, phase>>
  BY DEF PushItem, device
<1>3. /\ item \in Item /\ item.key \in EditKeys
      /\ \A e \in Devices : OnlyEdits(left'[e])
  <2>1. PICK s : s = left[d]
    OBVIOUS
  <2>2. s \in Seq(Item) /\ s # <<>> /\ OnlyEdits(s)
    BY <1>2, <2>1 DEF IInv, TypeOK, KeepInv, CopiesStayApart
  <2>3. 1 \in DOMAIN s /\ item = s[1] /\ item \in Item
    BY <1>1, <2>1, <2>2
  <2>4. \A i \in DOMAIN Tail(s) : i + 1 \in DOMAIN s /\ Tail(s)[i] = s[i + 1]
    BY <2>2
  <2>5. OnlyEdits(Tail(s))
    BY <2>2, <2>4 DEF OnlyEdits
  <2>6. \A e \in Devices : left'[e] = IF e = d THEN Tail(s) ELSE left[e]
    BY <1>2, <2>1 DEF IInv, TypeOK
  <2> QED BY <2>2, <2>3, <2>5, <2>6 DEF OnlyEdits, KeepInv, CopiesStayApart
<1>4. PICK key, base : key = item.key /\ base = item.base
  OBVIOUS
<1>5. key \in EditKeys /\ key \in Keys /\ base \in Nat /\ KindOf[key] \in Kinds
  BY <1>3, <1>4, KindsOfKeys DEF Item
<1>6. PICK row : row = Seen(d, key)
  OBVIOUS
<1>7. row \in Row /\ (row = writes[d][key] \/ row = records[key])
  BY <1>5, <1>6 DEF Seen, IInv, TypeOK
<1>8. PICK stored, storedSeq : stored = row.version /\ storedSeq = row.seq
  OBVIOUS
<1>9. stored \in Version \cup {NoVersion} /\ storedSeq \in Nat
  BY <1>7, <1>8 DEF Row
<1>10. PICK incoming : incoming = Incoming(d, item)
  OBVIOUS
<1>11. incoming \in Version
  <2>1. clock \in Nat /\ Slack \in Nat
    BY BoundsAreNumbers DEF IInv, TypeOK
  <2> QED BY <1>3, <1>10, <2>1 DEF Incoming, Clamped, Item, Version
<1>12. PICK m : m = Merge(KindOf[key], stored, storedSeq, incoming, base)
  OBVIOUS
<1>13. /\ m.status \in Statuses
       /\ m.write \in Version \cup {NoVersion}
       /\ m.copy \in Version \cup {NoVersion}
       /\ m.write = NoVersion => stored \in Version
  BY <1>5, <1>9, <1>11, <1>12, MergeType
<1>14. PICK after, copy :
         /\ ItemEffect(d, key, row, m, after, copy)
         /\ results' = [results EXCEPT ![d] = results[d] \cup
                Noted([key |-> key, status |-> m.status, seq |-> after.seq,
                       base |-> base, pushed |-> incoming,
                       text |-> after.version.text, deleted |-> after.version.deleted])]
  <2> DEFINE written == m.write # NoVersion
             rowSeq  == IF written THEN seq + 1 ELSE seq
             after   == IF written THEN [row EXCEPT !.seq = rowSeq, !.version = m.write] ELSE row
             own     == IF written THEN [writes[d] EXCEPT ![key] = after] ELSE writes[d]
             copy    == [seq |-> rowSeq + 1, copyOf |-> key,
                         version |-> [m.copy EXCEPT !.updated = clock, !.ordered = NoTime,
                                                    !.device = d]]
  <2>1. /\ results' = [results EXCEPT ![d] = results[d] \cup
                      Noted([key |-> key, status |-> m.status, seq |-> after.seq,
                             base |-> base, pushed |-> incoming,
                             text |-> after.version.text, deleted |-> after.version.deleted])]
        /\ IF m.copy = NoVersion
           THEN writes' = [writes EXCEPT ![d] = own]
           ELSE \E c \in Keys \ EditKeys :
                   /\ Seen(d, c).seq = 0
                   /\ writes' = [writes EXCEPT ![d] = [own EXCEPT ![c] = copy]]
    BY <1>1, <1>4, <1>6, <1>8, <1>10, <1>12 DEF PushItem
  <2>2. written => after.seq = seq + 1 /\ after.version = m.write /\ after.copyOf = row.copyOf
    BY <1>7 DEF Row
  <2>3. ~written => after = row
    OBVIOUS
  <2>4. m.copy # NoVersion => /\ copy.seq # 0 /\ copy.copyOf = key
                              /\ copy.version \in Version
                              /\ copy.version.text = m.copy.text
    <3> SUFFICES ASSUME m.copy # NoVersion
                 PROVE  /\ copy.seq # 0 /\ copy.copyOf = key
                        /\ copy.version \in Version
                        /\ copy.version.text = m.copy.text
      OBVIOUS
    <3>1. clock \in Nat /\ rowSeq \in Nat
      BY DEF IInv, TypeOK
    <3>2. PICK v \in Version : v = m.copy
      BY <1>13
    <3>3. /\ [v EXCEPT !.updated = clock, !.ordered = NoTime, !.device = d] \in Version
          /\ [v EXCEPT !.updated = clock, !.ordered = NoTime, !.device = d].text = v.text
      BY <3>1 DEF Version, NoTime
    <3>4. copy.version = [v EXCEPT !.updated = clock, !.ordered = NoTime, !.device = d]
      BY <3>2
    <3>5. copy.seq = rowSeq + 1 /\ copy.copyOf = key
      OBVIOUS
    <3>6. copy.version \in Version /\ copy.version.text = v.text
      BY <3>3, <3>4
    <3> HIDE DEF copy, rowSeq
    <3> QED BY <3>1, <3>2, <3>5, <3>6
  <2> HIDE DEF after, copy, rowSeq
  <2>5. writes \in [Devices -> [Keys -> Row]] /\ key \in Keys
    BY <1>5 DEF IInv, TypeOK
  <2>6. \A k \in Keys : own[k] = IF written /\ k = key THEN after ELSE writes[d][k]
    BY <2>5
  <2>7. DOMAIN own = Keys
    BY <2>5
  <2> HIDE DEF own
  <2>8. /\ \A e \in Devices : e # d => writes'[e] = writes[e]
        /\ m.copy = NoVersion => writes'[d] = own
        /\ m.copy # NoVersion => \E c \in Keys \ EditKeys :
              /\ Seen(d, c).seq = 0
              /\ \A k \in Keys : writes'[d][k] = IF k = c THEN copy ELSE own[k]
    BY <2>1, <2>5, <2>7
  <2>9. /\ \A k \in EditKeys : writes'[d][k] = own[k]
        /\ \A k \in Keys \ EditKeys :
              \/ writes'[d][k] = own[k]
              \/ m.copy # NoVersion /\ Seen(d, k).seq = 0 /\ writes'[d][k] = copy
        /\ m.copy # NoVersion => \E c \in Keys : writes'[d][c] = copy
    <3>1. CASE m.copy = NoVersion
      BY <2>8, <3>1, KindsOfKeys
    <3>2. CASE m.copy # NoVersion
      <4>1. PICK c \in Keys \ EditKeys :
              /\ Seen(d, c).seq = 0
              /\ \A k \in Keys : writes'[d][k] = IF k = c THEN copy ELSE own[k]
        BY <2>8, <3>2
      <4> QED BY <3>2, <4>1, KindsOfKeys
    <3> QED BY <3>1, <3>2
  <2>10. ItemEffect(d, key, row, m, after, copy)
    <3>1. /\ \A k \in EditKeys : k # key => writes'[d][k] = writes[d][k]
          /\ \A k \in Keys \ EditKeys : own[k] = writes[d][k]
          /\ writes'[d][key] = IF m.write # NoVersion THEN after ELSE writes[d][key]
      BY <1>5, <2>6, <2>9, KindsOfKeys
    <3> QED BY <2>2, <2>3, <2>4, <2>8, <2>9, <3>1 DEF ItemEffect
  <2>11. results' = [results EXCEPT ![d] = results[d] \cup
                      Noted([key |-> key, status |-> m.status, seq |-> after.seq,
                             base |-> base, pushed |-> incoming,
                             text |-> after.version.text, deleted |-> after.version.deleted])]
    BY <2>1
  <2> QED BY <2>10, <2>11, Zenon
<1>15. /\ Whole(row)
       /\ (\A k \in Keys : Whole(records[k]) /\ Whole(writes[d][k]))
       /\ \A k \in Keys : Whole(Seen(d, k))
  <2>1. \A k \in Keys : Whole(records[k]) /\ Whole(writes[d][k])
    BY DEF KeepInv, RowsAreWhole
  <2> QED BY <1>7, <1>5, <2>1 DEF Seen
<1>16. storedSeq = 0 <=> stored = NoVersion
  BY <1>8, <1>15, NoVersionIsNone DEF Whole, NoRow
<1>17. seq \in Nat /\ storedSeq <= seq
  BY <1>5, <1>7, <1>8 DEF IInv, TypeOK, NothingAheadOfSeq
<1>18. writes' \in [Devices -> [Keys -> Row]] /\ records' \in [Keys -> Row]
       /\ results' \in [Devices -> SUBSET Result]
  <2>1. IInv'
    BY PushItemStep
  <2> QED BY <2>1 DEF IInv, TypeOK
<1>19. RowsAreWhole'
  <2>1. m.write # NoVersion => Whole(after)
    BY <1>13, <1>14, <1>17 DEF ItemEffect, Whole
  <2>2. m.copy # NoVersion => Whole(copy)
    BY <1>14 DEF ItemEffect, Whole
  <2>3. \A e \in Devices : \A k \in Keys : Whole(writes'[e][k])
    <3>1. \A k \in Keys : writes'[d][k] = writes[d][k]
                          \/ (m.copy # NoVersion /\ writes'[d][k] = copy)
                          \/ (m.write # NoVersion /\ writes'[d][k] = after)
      BY <1>5, <1>14 DEF ItemEffect
    <3>2. \A e \in Devices : e # d => writes'[e] = writes[e]
      BY <1>14 DEF ItemEffect
    <3> QED BY <2>1, <2>2, <3>1, <3>2 DEF KeepInv, RowsAreWhole
  <2> QED BY <1>2, <1>15, <2>3 DEF RowsAreWhole, Whole
<1>20. WritesGoOnward'
  <2>1. ASSUME NEW k \in Keys, records[k].seq # 0, writes'[d][k].seq # 0
        PROVE  Onward(k, records[k].version, writes'[d][k].version)
    <3>1. CASE writes'[d][k] = writes[d][k]
      BY <2>1, <3>1 DEF KeepInv, WritesGoOnward
    <3>2. CASE writes'[d][k] # writes[d][k] /\ k # key
      <4>1. Seen(d, k).seq = 0
        BY <1>14, <3>2 DEF ItemEffect
      <4> QED BY <2>1, <4>1 DEF Seen
    <3>3. CASE writes'[d][k] # writes[d][k] /\ k = key
      <4>1. m.write # NoVersion /\ writes'[d][k].version = m.write
        BY <1>14, <3>3 DEF ItemEffect
      <4>2. storedSeq # 0
        BY <1>6, <1>8, <2>1, <3>3 DEF Seen
      <4>3. stored \in Version
        BY <1>9, <1>16, <4>2
      <4>4. Onward(key, stored, m.write)
        BY <1>5, <1>9, <1>11, <1>12, <4>1, <4>3, MergeGoesOnward
      <4>5. CASE row = records[key]
        BY <1>8, <3>3, <4>1, <4>4, <4>5
      <4>6. CASE row = writes[d][key]
        <5>1. Onward(key, records[key].version, stored)
          BY <1>5, <1>8, <2>1, <3>3, <4>2, <4>6 DEF KeepInv, WritesGoOnward
        <5>2. PICK first : first = records[key].version
          OBVIOUS
        <5>3. first \in Version /\ m.write \in Version
          BY <1>5, <1>13, <1>15, <2>1, <3>3, <4>1, <5>2 DEF Whole
        <5>4. /\ first.updated \in Nat /\ stored.updated \in Nat /\ m.write.updated \in Nat
              /\ first.ordered \in Nat /\ stored.ordered \in Nat /\ m.write.ordered \in Nat
          BY <4>3, <5>3 DEF Version
        <5>5. Onward(key, first, m.write)
          BY <4>4, <5>1, <5>2, <5>4 DEF Onward
        <5> QED BY <3>3, <4>1, <5>2, <5>5
      <4> QED BY <1>7, <4>5, <4>6
    <3> QED BY <3>1, <3>2, <3>3
  <2>2. \A e \in Devices : e # d => writes'[e] = writes[e]
    BY <1>14 DEF ItemEffect
  <2>3. \A e \in Devices : \A k \in Keys : records'[k].seq # 0 /\ writes'[e][k].seq # 0 =>
            Onward(k, records'[k].version, writes'[e][k].version)
    BY <1>2, <2>1, <2>2 DEF KeepInv, WritesGoOnward
  <2> QED BY <2>3 DEF WritesGoOnward, Onward
<1>21. CopiesStayApart'
  <2>1. \A k \in EditKeys : writes'[d][k].copyOf = NoKey
    <3>1. row.copyOf = NoKey
      BY <1>5, <1>7 DEF KeepInv, CopiesStayApart
    <3> QED BY <1>5, <1>14, <3>1 DEF ItemEffect, KeepInv, CopiesStayApart
  <2>2. \A e \in Devices : e # d => writes'[e] = writes[e]
    BY <1>14 DEF ItemEffect
  <2> QED BY <1>2, <1>3, <2>1, <2>2 DEF KeepInv, CopiesStayApart, OnlyEdits
<1>22. PICK rows, next : rows = View(d) /\ next = View(d)'
  OBVIOUS
<1>23. /\ rows \in [Keys -> Row] /\ next \in [Keys -> Row]
       /\ \A k \in Keys : rows[k] = Seen(d, k)
       /\ \A k \in Keys : next[k] = IF writes'[d][k].seq # 0 THEN writes'[d][k] ELSE records[k]
  <2>1. \A k \in Keys : Seen(d, k) \in Row /\ Seen(d, k)' \in Row
    BY <1>18 DEF Seen, IInv, TypeOK
  <2>2. next = [k \in Keys |-> Seen(d, k)']
    BY <1>22 DEF View
  <2>3. rows = [k \in Keys |-> Seen(d, k)]
    BY <1>22 DEF View
  <2> QED BY <1>2, <2>1, <2>2, <2>3 DEF Seen
<1>24. \A k \in Keys : writes'[d][k] = writes[d][k] => next[k] = rows[k]
  BY <1>23 DEF Seen
<1>25. rows[key] = row /\ Traced(rows, answered \cup results[d])
  BY <1>5, <1>6, <1>22, <1>23 DEF KeepInv, NotesAreTraced
<1>26. m.write # NoVersion => next[key] = after
  BY <1>5, <1>14, <1>17, <1>23 DEF ItemEffect
<1>27. m.write = NoVersion => next[key] = row
  BY <1>5, <1>14, <1>24, <1>25 DEF ItemEffect
<1>28. after = next[key]
  BY <1>14, <1>26, <1>27 DEF ItemEffect
<1>29. PICK res : res = [key |-> key, status |-> m.status, seq |-> after.seq,
                         base |-> base, pushed |-> incoming,
                         text |-> after.version.text, deleted |-> after.version.deleted]
  OBVIOUS
<1>30. PICK done, all : done = answered \cup results[d] /\ all = answered' \cup results'[d]
  OBVIOUS
<1>31. /\ done \in SUBSET Result /\ all \in SUBSET Result
       /\ all = done \cup Noted(res)
  <2>1. results'[d] = results[d] \cup Noted(res)
    BY <1>14, <1>29 DEF IInv, TypeOK
  <2>2. answered \subseteq Result /\ results[d] \subseteq Result /\ results'[d] \subseteq Result
    BY <1>18 DEF IInv, TypeOK
  <2> QED BY <1>2, <1>30, <2>1, <2>2
<1>32. \A c \in Keys : rows[c].copyOf # NoKey => next[c] = rows[c]
  <2> SUFFICES ASSUME NEW c \in Keys, rows[c].copyOf # NoKey
               PROVE  next[c] = rows[c]
    OBVIOUS
  <2>1. c \notin EditKeys
    BY <1>23 DEF Seen, KeepInv, CopiesStayApart
  <2>2. Seen(d, c).seq # 0
    BY <1>15, <1>23 DEF Whole, NoRow
  <2>3. writes'[d][c] = writes[d][c]
    BY <1>14, <2>1, <2>2 DEF ItemEffect
  <2> QED BY <1>24, <2>3
<1>33. \A k \in Keys : k # key /\ rows[k].seq # 0 => next[k] = rows[k]
  BY <1>14, <1>23, <1>24 DEF ItemEffect
<1>34. next[key].seq >= rows[key].seq /\ next[key].seq # 0
  <2>1. CASE m.write # NoVersion
    <3>1. after.seq = seq + 1
      BY <1>14, <2>1 DEF ItemEffect
    <3>2. rows[key].seq = storedSeq
      BY <1>8, <1>25
    <3> QED BY <1>9, <1>17, <1>28, <3>1, <3>2
  <2>2. CASE m.write = NoVersion
    <3>1. storedSeq # 0
      BY <1>13, <1>16, <2>2, NoVersionIsNone
    <3> QED BY <1>8, <1>9, <1>25, <1>27, <2>2, <3>1
  <2> QED BY <2>1, <2>2
<1>35. ASSUME KindOf[key] = "note", rows[key].seq # 0, ~rows[key].version.deleted
       PROVE  \/ ~next[key].version.deleted
                 /\ Content(next[key].version) = Content(rows[key].version)
              \/ \E c \in Keys : next[c].copyOf = key
                                 /\ Content(next[c].version) = Content(rows[key].version)
              \/ \E s \in all : s.key = key /\ s.seq > rows[key].seq
                                /\ (s.base >= rows[key].seq \/ s.deleted)
  <2>1. storedSeq # 0 /\ ~stored.deleted /\ rows[key].version = stored /\ rows[key].seq = storedSeq
    BY <1>8, <1>25, <1>35
  <2>2. stored \in Version
    BY <1>9, <1>16, <2>1
  <2>3. CASE m.write = NoVersion
    BY <1>25, <1>27, <1>35, <2>3
  <2>4. CASE m.write # NoVersion
    <3>1. next[key].version = m.write /\ after.seq = seq + 1
      BY <1>14, <1>28, <2>4 DEF ItemEffect
    <3>2. \/ ~m.write.deleted /\ Content(m.write) = Content(stored)
          \/ m.copy = stored
          \/ /\ m.status # "older_ignored"
             /\ m.write.deleted \/ base >= storedSeq
      BY <1>5, <1>9, <1>11, <1>12, <1>35, <2>1, <2>2, <2>4, MergeKeepsText
    <3>3. CASE m.copy = stored
      <4>1. m.copy # NoVersion
        BY <2>2, <3>3, NoVersionIsNone
      <4>2. PICK c \in Keys : writes'[d][c] = copy
        BY <1>14, <4>1 DEF ItemEffect
      <4>3. copy.seq # 0 /\ copy.copyOf = key /\ copy.version.text = stored.text
        BY <1>14, <3>3, <4>1 DEF ItemEffect
      <4>4. next[c] = copy
        BY <1>23, <4>2, <4>3
      <4> QED BY <2>1, <4>3, <4>4 DEF Content
    <3>4. CASE m.status # "older_ignored" /\ (m.write.deleted \/ base >= storedSeq)
      <4>1. res.key = key /\ res.status = m.status /\ res.seq = after.seq /\ res.base = base
            /\ res.deleted = m.write.deleted
        BY <1>28, <1>29, <3>1
      <4>2. res \in Noted(res)
        BY <1>35, <3>4, <4>1 DEF Noted
      <4>3. res.seq > storedSeq
        BY <1>9, <1>17, <3>1, <4>1
      <4>4. res \in all
        BY <1>31, <4>2
      <4> QED BY <2>1, <3>4, <4>1, <4>3, <4>4
    <3> QED BY <2>1, <3>1, <3>2, <3>3, <3>4
  <2> QED BY <2>3, <2>4
<1>36. \A r \in all \ done : /\ r.key = key /\ KindOf[key] = "note"
                             /\ r.seq = next[key].seq
                             /\ r.text = next[key].version.text
                             /\ r.deleted = next[key].version.deleted
  <2>1. \A r \in all \ done : r = res /\ KindOf[res.key] = "note"
    BY <1>31 DEF Noted
  <2>2. /\ res.key = key /\ res.seq = next[key].seq
        /\ res.text = next[key].version.text
        /\ res.deleted = next[key].version.deleted
    BY <1>28, <1>29
  <2> QED BY <2>1, <2>2
<1>37. Traced(next, all)
  <2>1. done \subseteq all /\ Traced(rows, done)
    BY <1>25, <1>30, <1>31
  <2> QED BY <1>5, <1>23, <1>31, <1>32, <1>33, <1>34, <1>35, <1>36, <2>1, TraceGoesOn
<1>38. NotesAreTraced'
  <2>1. \A e \in Devices : e # d => View(e)' = View(e) /\ results'[e] = results[e]
    <3>1. \A e \in Devices : e # d => writes'[e] = writes[e] /\ results'[e] = results[e]
      BY <1>14 DEF ItemEffect, IInv, TypeOK
    <3> QED BY <1>2, <3>1 DEF View, Seen
  <2>2. Traced(records, answered)'
    BY <1>2 DEF KeepInv, NotesAreTraced
  <2>3. \A e \in Devices : Traced(View(e)', answered' \cup results'[e])
    BY <1>2, <1>22, <1>30, <1>37, <2>1 DEF KeepInv, NotesAreTraced
  <2>4. \A e \in Devices : phase'[e] # "pushing" => results'[e] = {}
    BY <1>2, <2>1 DEF KeepInv, NotesAreTraced
  <2> QED BY <2>2, <2>3, <2>4 DEF NotesAreTraced, Traced, ShownIn, CopiedIn, ReplacedIn
<1> QED BY <1>19, <1>20, <1>21, <1>38 DEF KeepInv

(* The second invariant holds whatever the devices and the server do. *)
LEMMA TextsAreKept == Spec => []KeepInv
<1>1. IInv /\ KeepInv /\ [Next]_vars => KeepInv'
  <2> SUFFICES ASSUME IInv, KeepInv, [Next]_vars PROVE KeepInv'
    OBVIOUS
  <2>1. CASE \E d \in Devices :
               \/ Edits(d)
               \/ AnswerReceived(d) \/ AnswerLost(d)
               \/ Pull(d)
               \/ PushBegin(d) \/ PushRejected(d) \/ PushItem(d) \/ PushCommit(d) \/ PushFail(d)
    BY <2>1, DevicesKeep, PullKeeps, BeginKeeps, ItemKeeps, CommitKeeps, FailKeeps
  <2>2. CASE Tick \/ UNCHANGED vars
    <3>1. UNCHANGED <<records, writes, results, answered, outbox, left, phase>>
      BY <2>2 DEF Tick, vars, server, device
    <3>2. \A d \in Devices : OnlyEdits(outbox[d])' /\ OnlyEdits(left[d])'
      BY <3>1 DEF KeepInv, CopiesStayApart, OnlyEdits
    <3>3. \A d \in Devices : phase'[d] # "pushing" => results[d] = {}
      BY <3>1 DEF KeepInv, NotesAreTraced
    <3> QED BY <3>1, <3>2, <3>3, KeepStays
  <2> QED BY <2>1, <2>2 DEF Next
<1> QED BY InitKeeps, <1>1, Inductive, PTL DEF Spec

(* Whatever batches are pushed, pushed again, rolled back or left unanswered, by devices
   with whatever clocks: what a note said when its push was answered is what the note or
   one of its copies says, until a push that had seen it, or a deletion, takes its place. *)
THEOREM NoTextIsLostUnseen == Spec => []NothingLostUnseen
<1>1. IInv /\ KeepInv => NothingLostUnseen
  <2> SUFFICES ASSUME IInv, KeepInv, NEW r \in answered, KindOf[r.key] = "note", ~r.deleted
               PROVE  \/ Live(records[r.key]) /\ Content(records[r.key].version) = Content(r)
                      \/ KeptAsCopy(r)
                      \/ \E s \in answered : s.key = r.key /\ s.seq > r.seq
                                             /\ (s.base >= r.seq \/ s.deleted)
    BY DEF NothingLostUnseen
  <2>1. /\ records[r.key].seq # 0
        /\ ShownIn(records, r) \/ CopiedIn(records, r) \/ ReplacedIn(answered, r)
    BY DEF KeepInv, NotesAreTraced, Traced
  <2>2. ShownIn(records, r) =>
            Live(records[r.key]) /\ Content(records[r.key].version) = Content(r)
    <3>1. Whole(NoRow) /\ \A k \in Keys : Whole(records[k])
      BY DEF KeepInv, RowsAreWhole, Whole, NoRow
    <3>2. r.key \in Keys
      BY DEF IInv, TypeOK, Result
    <3> QED BY <2>1, <3>1, <3>2, NoVersionIsNone DEF ShownIn, Live, Whole
  <2> QED BY <2>1, <2>2 DEF CopiedIn, KeptAsCopy, ReplacedIn
<1> QED BY Inductive, TextsAreKept, <1>1, PTL

GoesOnward ==
    \A k \in Keys :
        records[k].seq # 0 /\ records'[k] # records[k] =>
            LET old == records[k].version
                new == records'[k].version
            IN /\ records'[k].seq > records[k].seq
               /\ new.updated >= old.updated
               /\ KindOf[k] \in OrderedKinds => new.ordered >= old.ordered

(* Only a commit changes committed rows, and what it publishes is numbered later and is
   not older than what was there: the batch merged every item with the row under the
   user's lock. *)
THEOREM RecordsNeverGoBack == Spec => NeverGoesBack
<1>1. IInv /\ KeepInv /\ [Next]_vars => [GoesOnward]_vars
  <2> SUFFICES ASSUME IInv, KeepInv, Next PROVE GoesOnward
    OBVIOUS
  <2>1. CASE UNCHANGED records
    BY <2>1 DEF GoesOnward
  <2>2. ASSUME NEW d \in Devices, PushCommit(d)
        PROVE  GoesOnward
    <3> SUFFICES ASSUME NEW k \in Keys, records[k].seq # 0, records'[k] # records[k]
                 PROVE  /\ records'[k].seq > records[k].seq
                        /\ Onward(k, records[k].version, records'[k].version)
      BY DEF GoesOnward, Onward
    <3>1. records'[k] = writes[d][k] /\ writes[d][k].seq # 0
      BY <2>2 DEF PushCommit, Seen
    <3>2. records[k].seq \in Nat /\ writes[d][k].seq \in Nat
      BY DEF IInv, TypeOK, Row
    <3>3. records[k].seq < writes[d][k].seq
      BY <3>1 DEF IInv, WritesAreFresh
    <3>4. Onward(k, records[k].version, writes[d][k].version)
      BY <3>1 DEF KeepInv, WritesGoOnward
    <3> QED BY <3>1, <3>2, <3>3, <3>4
  <2>3. ASSUME NEW d \in Devices,
               \/ Edits(d) \/ AnswerReceived(d) \/ AnswerLost(d) \/ Pull(d)
               \/ PushBegin(d) \/ PushRejected(d) \/ PushItem(d) \/ PushFail(d)
        PROVE  UNCHANGED records
    BY <2>3 DEF Edits, EditText, Rearrange, Delete, Compose, AnswerReceived, AnswerLost,
                Pull, PushBegin, PushRejected, PushItem, PushFail, server
  <2>4. Tick => UNCHANGED records
    BY DEF Tick
  <2> QED BY <2>1, <2>2, <2>3, <2>4 DEF Next
<1> QED BY <1>1, Inductive, TextsAreKept, PTL DEF Spec, NeverGoesBack, GoesOnward
=============================================================================
