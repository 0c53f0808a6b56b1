------------------------------ MODULE PushProofs ------------------------------
(***************************************************************************)
(* Proofs about the push notifications: that a token is one login's, that  *)
(* nothing known to be delivered is sent again, that the daily cap holds   *)
(* through batches that are taken back, and that digests tell a new book   *)
(* once, but for those hidden; for any number of users, phones, rows and   *)
(* books.                                                                  *)
(***************************************************************************)
EXTENDS PushBooks, FiniteSetTheorems, SequenceTheorems, WellFoundedInduction, TLAPS

-----------------------------------------------------------------------------
(* The inductive invariant of the queue.                                   *)

Waiting == {i \in Rows : outbox[i].status = "pending"}

\* Rows as they are while the tries are not bounded.
Notice == [user : Users, kind : Kinds, status : {"pending", "sent", "skipped", "failed"},
           attempts : Nat, waits : {"no", "morning", "backoff"}, recent : BOOLEAN]

\* The worker's record, when it has written those rows.
Work(rows) == [at : {"row", "sending"}, left : SUBSET Nat, row : Nat, to : SUBSET (Logins \X Tokens),
               rows : {rows}, oks : SUBSET Logins, deads : SUBSET Logins,
               flushed : SUBSET Logins, off : SUBSET Logins, lost : SUBSET Logins,
               told : SUBSET (Nat \X Tokens)]

\* A worker that is at work has this record, whichever rows it has written.
WorkerShape == worker \in Work(worker.rows)

\* A batch is made of rows that wait, each of which is still to do, being sent or written.
BatchOK ==
    /\ worker.left \subseteq Waiting /\ DOMAIN worker.rows \subseteq Waiting
    /\ worker.left \intersect DOMAIN worker.rows = {}
    /\ worker.at = "sending" => worker.row \in Waiting \ (worker.left \union DOMAIN worker.rows)
    /\ worker.at = "row" => worker.to = {}
    /\ \A i \in DOMAIN worker.rows : worker.rows[i] \in Notice
    /\ \A d \in worker.told : d[1] \in DOMAIN worker.rows /\ worker.rows[d[1]].status = "sent"

\* The device rows the worker holds are there, or it will find out.
DevicesOK ==
    /\ worker.off \subseteq worker.flushed
    /\ \A l \in worker.off : devices[l] # NoDevice
    /\ \A l \in Held : devices[l] # NoDevice \/ l \in worker.lost

\* What the daily cap counts of a user: in the committed rows, and as the batch sees them.
Counted(r, u) == r.user = u /\ r.kind # "chat_answer" /\ r.status = "sent" /\ r.recent
SentTo(u) == {i \in Rows : Counted(outbox[i], u)}
SentInBatch(u) == {i \in Rows : Counted(TxRow(i), u)}

\* The cap holds for the batch too, and what is being sent still fits under it.
CapOK ==
    /\ \A u \in Users : Cardinality(SentInBatch(u)) <= DailyCap
    /\ worker.to # {} /\ outbox[worker.row].kind # "chat_answer" =>
            Cardinality(SentInBatch(outbox[worker.row].user)) < DailyCap

\* The unique constraint on the token of a device.
OneRowPerToken ==
    \A l, m \in Logins :
        devices[l] # NoDevice /\ devices[m] # NoDevice /\ devices[l].token = devices[m].token => l = m

Shape ==
    /\ devices \in [Logins -> Device \union {NoDevice}]
    /\ outbox \in Seq(Notice \union {NoRow})
    /\ alive \subseteq Logins
    /\ heard \subseteq (DOMAIN outbox) \X Tokens

\* Between two batches the promises themselves suffice; within one, the batch keeps them.
QueueInv ==
    /\ Shape /\ OneRowPerToken /\ SendingHolds
    /\ worker = Off \/ (WorkerShape /\ BatchOK /\ DevicesOK /\ CapOK)

\* The inductive invariant of the digests: a book a user was told of is older than the
\* user's last digest, and the books of the first scan are as old as time.
DigestInv ==
    /\ version \in [Books -> Nat] /\ known \in [Books -> Nat] /\ firstSeen \in [Books -> Nat]
    /\ clock \in Nat /\ seeded \in BOOLEAN
    /\ digest \in [Users -> [updated : Nat, lastSent : Nat]]
    /\ told \in [Users -> [Books -> Nat]]
    /\ \A b \in published : b \in Books /\ version[b] > 0
    /\ \A b \in atFirst : b \in Books /\ firstSeen[b] = 0 /\ known[b] > 0
    /\ \A b \in Books : firstSeen[b] <= clock /\ (firstSeen[b] > 0 => known[b] > 0)
    /\ \A b \in Books : known[b] > 0 => seeded
    /\ \A u \in Users : digest[u].updated <= clock /\ digest[u].lastSent <= clock
    /\ \A u \in Users, b \in Books : told[u][b] > 0 =>
            known[b] > 0 /\ 0 < firstSeen[b] /\ firstSeen[b] <= digest[u].lastSent
    /\ DigestsHold

-----------------------------------------------------------------------------
(* Lemmas about rows and batches.                                          *)

(* What a set of rows counts (cap_count) is a number, and fewer rows count less. *)
LEMMA RowsAreCounted ==
    ASSUME Shape, NEW S \in SUBSET (DOMAIN outbox), NEW R \in SUBSET S
    PROVE  /\ IsFiniteSet(S) /\ Cardinality(S) \in Nat
           /\ IsFiniteSet(R) /\ Cardinality(R) \in Nat /\ Cardinality(R) <= Cardinality(S)
<1>1. DOMAIN outbox = 1 .. Len(outbox) /\ Len(outbox) \in Nat
  BY DEF Shape
<1>2. IsFiniteSet(1 .. Len(outbox))
  BY <1>1, FS_Interval
<1>3. IsFiniteSet(S)
  BY <1>1, <1>2, FS_Subset
<1>4. IsFiniteSet(R) /\ Cardinality(R) <= Cardinality(S)
  BY <1>3, FS_Subset
<1> QED BY <1>3, <1>4, FS_CardinalityType

(* A row that was sent before is not in the batch. *)
LEMMA SentRowsStay ==
    ASSUME BatchOK, NEW i \in Rows, outbox[i].status = "sent"
    PROVE  i \notin worker.left /\ i \notin DOMAIN worker.rows /\ TxRow(i) = outbox[i]
BY DEF BatchOK, Waiting, TxRow

(* The rows as the transaction sees them are rows, and what was sent before counts in the
   batch (run_once reads its own writes). *)
LEMMA BatchRows ==
    ASSUME Shape, WorkerShape, BatchOK, NEW u
    PROVE  /\ SentTo(u) \subseteq SentInBatch(u) /\ SentInBatch(u) \subseteq DOMAIN outbox
           /\ SentInBatch(u) \subseteq Rows
           /\ \A i \in Rows : TxRow(i) \in Notice
<1>1. \A i \in Rows : outbox[i] \in Notice
  BY DEF Shape, Rows
<1>2. \A i \in Rows : TxRow(i) \in Notice
  BY <1>1 DEF TxRow, BatchOK
<1>3. SentInBatch(u) \subseteq Rows /\ Rows \subseteq DOMAIN outbox
  BY DEF SentInBatch, Rows
<1>4. SentTo(u) \subseteq SentInBatch(u)
  BY SentRowsStay DEF SentTo, SentInBatch, Counted
<1> QED BY <1>2, <1>3, <1>4

(* The worker is between two batches, or at work on one (run_once). *)
LEMMA WorkerIsOff ==
    /\ WorkerShape => worker # Off /\ (worker.at = "row" \/ worker.at = "sending")
    /\ worker = Off => ~WorkerShape
<1>1. Off.at = "off"
  BY DEF Off
<1>2. WorkerShape => worker.at = "row" \/ worker.at = "sending"
  BY DEF WorkerShape, Work
<1> QED BY <1>1, <1>2

(* The daily cap, said of the rows it counts (cap_count). *)
LEMMA CapIsKept ==
    /\ CapHolds <=> \A u \in Users : Cardinality(SentTo(u)) <= DailyCap
    /\ CapHolds' <=> \A u \in Users : Cardinality(SentTo(u)') <= DailyCap
<1>1. \A u : SentTo(u) = {i \in Rows : outbox[i].user = u /\ outbox[i].kind # "chat_answer"
                                  /\ outbox[i].status = "sent" /\ outbox[i].recent}
  BY DEF SentTo, Counted
<1>2. \A u : SentTo(u)' = {i \in Rows' : outbox'[i].user = u /\ outbox'[i].kind # "chat_answer"
                                  /\ outbox'[i].status = "sent" /\ outbox'[i].recent}
  BY DEF SentTo, Counted
<1> QED BY <1>1, <1>2 DEF CapHolds

(* Whatever touches neither the rows, the devices nor the worker keeps the invariant. *)
LEMMA Aside ==
    ASSUME QueueInv, UNCHANGED <<devices, outbox, worker, heard>>, alive' \subseteq Logins
    PROVE  QueueInv'
<1>1. Shape' /\ OneRowPerToken' /\ HeardIsSent'
  BY DEF QueueInv, Shape, OneRowPerToken, SendingHolds, HeardIsSent
<1>2. Rows' = Rows /\ \A u : SentTo(u)' = SentTo(u)
  BY DEF Rows, SentTo, Counted
<1>3. CapHolds'
  BY <1>2, CapIsKept DEF QueueInv, SendingHolds, CapHolds
<1>4. CASE worker = Off
  BY <1>1, <1>3, <1>4 DEF QueueInv, SendingHolds
<1>5. CASE WorkerShape /\ BatchOK /\ DevicesOK /\ CapOK
  <2>1. WorkerShape' /\ BatchOK' /\ DevicesOK'
    BY <1>2, <1>5 DEF WorkerShape, Work, BatchOK, DevicesOK, Waiting, Held
  <2>2. \A u : SentInBatch(u)' = SentInBatch(u)
    BY <1>2 DEF SentInBatch, TxRow
  <2>3. CapOK'
    BY <1>5, <2>2 DEF CapOK
  <2> QED BY <1>1, <1>3, <2>1, <2>3 DEF QueueInv, SendingHolds
<1> QED BY <1>4, <1>5 DEF QueueInv

(* New rows wait, and are nobody's yet: enqueue, scan_books and send_digests. *)
LEMMA Growing ==
    ASSUME QueueInv, UNCHANGED <<devices, worker, heard, alive>>,
           outbox' \in Seq(Notice \union {NoRow}), Len(outbox) <= Len(outbox'),
           \A i \in DOMAIN outbox : outbox'[i] = outbox[i],
           \A i \in DOMAIN outbox' : i \notin DOMAIN outbox => outbox'[i].status = "pending"
    PROVE  QueueInv'
<1>1. DOMAIN outbox \subseteq DOMAIN outbox'
  BY DEF QueueInv, Shape
<1>2. Shape' /\ OneRowPerToken' /\ HeardIsSent'
  BY <1>1 DEF QueueInv, Shape, OneRowPerToken, SendingHolds, HeardIsSent
<1>3. Rows \subseteq Rows' /\ \A i \in Rows' : i \in Rows \/ outbox'[i].status = "pending"
  BY <1>1 DEF Rows
<1>4. \A i \in Rows : outbox'[i] = outbox[i]
  BY DEF Rows
<1>5. \A u : SentTo(u)' = SentTo(u)
  BY <1>3, <1>4 DEF SentTo, Counted
<1>6. CapHolds'
  BY <1>5, CapIsKept DEF QueueInv, SendingHolds
<1>7. CASE worker = Off
  BY <1>2, <1>6, <1>7 DEF QueueInv, SendingHolds
<1>8. CASE WorkerShape /\ BatchOK /\ DevicesOK /\ CapOK
  <2>1. WorkerShape' /\ DevicesOK'
    BY <1>8 DEF WorkerShape, Work, DevicesOK, Held
  <2>2. Waiting \subseteq Waiting'
    BY <1>3, <1>4 DEF Waiting
  <2>3. BatchOK'
    BY <1>8, <2>2 DEF BatchOK
  <2>4. \A i \in Rows' : (i \in Rows /\ TxRow(i)' = TxRow(i)) \/ TxRow(i)'.status = "pending"
    BY <1>3, <1>4, <1>8 DEF TxRow, BatchOK, Waiting
  <2>5. \A u : SentInBatch(u)' = SentInBatch(u)
    <3>1. \A i \in Rows : TxRow(i)' = TxRow(i)
      BY <1>4 DEF TxRow
    <3> QED BY <1>3, <2>4, <3>1 DEF SentInBatch, Counted
  <2>6. worker.to # {} => outbox'[worker.row] = outbox[worker.row]
    <3>1. worker.to # {} => worker.row \in Rows
      BY <1>8 DEF BatchOK, Waiting, WorkerShape, Work
    <3> QED BY <1>4, <3>1
  <2>7. CapOK'
    BY <1>8, <2>5, <2>6 DEF CapOK
  <2> QED BY <1>2, <1>6, <2>1, <2>3, <2>7 DEF QueueInv, SendingHolds
<1> QED BY <1>7, <1>8 DEF QueueInv

(* Between two batches rows may come due, grow old, be given up or forgotten: Clock,
   cleanup, and rows that are skipped without a key. *)
LEMMA Resting ==
    ASSUME QueueInv, worker = Off, worker' = Off \/ (WorkerShape /\ BatchOK /\ DevicesOK)',
           DOMAIN outbox' = DOMAIN outbox,
           outbox' \in Seq(Notice \union {NoRow}),
           \A i \in DOMAIN outbox : outbox'[i] # NoRow =>
                /\ outbox[i] # NoRow
                /\ outbox[i].status = "sent" => outbox'[i].status = "sent"
                /\ \A u : Counted(outbox'[i], u) => Counted(outbox[i], u),
           worker' # Off => worker'.to = {} /\ DOMAIN worker'.rows = {},
           devices' \in [Logins -> Device \union {NoDevice}], OneRowPerToken',
           UNCHANGED <<heard, alive>>
    PROVE  QueueInv'
<1>1. Shape'
  BY DEF QueueInv, Shape
<1>2. HeardIsSent'
  BY DEF QueueInv, Shape, SendingHolds, HeardIsSent
<1>3. \A u : SentTo(u)' \subseteq SentTo(u)
  BY DEF SentTo, Rows
<1>4. \A u : SentTo(u) \subseteq DOMAIN outbox
  BY DEF SentTo, Rows
<1>5. \A u \in Users : Cardinality(SentTo(u)') <= DailyCap
  <2> TAKE u \in Users
  <2>1. SentTo(u)' \subseteq SentTo(u) /\ SentTo(u) \subseteq DOMAIN outbox
    BY <1>3, <1>4
  <2>2. Cardinality(SentTo(u)') \in Nat /\ Cardinality(SentTo(u)) \in Nat
        /\ Cardinality(SentTo(u)') <= Cardinality(SentTo(u))
    BY <2>1, RowsAreCounted DEF QueueInv
  <2>3. Cardinality(SentTo(u)) <= DailyCap
    BY CapIsKept DEF QueueInv, SendingHolds
  <2> QED BY <2>2, <2>3, PushAssumption
<1>6. CapHolds'
  BY <1>5, CapIsKept
<1>7. CASE worker' = Off
  BY <1>1, <1>2, <1>6, <1>7 DEF QueueInv, SendingHolds
<1>8. CASE worker' # Off
  <2>1. \A u : SentInBatch(u)' = SentTo(u)'
    BY <1>8 DEF SentInBatch, SentTo, TxRow
  <2>2. CapOK'
    BY <1>5, <1>8, <2>1 DEF CapOK
  <2> QED BY <1>1, <1>2, <1>6, <1>8, <2>2 DEF QueueInv, SendingHolds
<1> QED BY <1>7, <1>8

(* A batch that is taken back leaves everything as it was before. *)
LEMMA TakenBack ==
    ASSUME QueueInv, worker' = Off, UNCHANGED <<devices, outbox, heard, alive>>
    PROVE  QueueInv'
<1>1. Shape' /\ OneRowPerToken' /\ HeardIsSent'
  BY DEF QueueInv, Shape, OneRowPerToken, SendingHolds, HeardIsSent
<1>2. \A u : SentTo(u)' = SentTo(u)
  BY DEF Rows, SentTo, Counted
<1>3. CapHolds'
  BY <1>2, CapIsKept DEF QueueInv, SendingHolds
<1> QED BY <1>1, <1>3 DEF QueueInv, SendingHolds

(* The devices change under the worker, which finds out at its next flush. *)
LEMMA DevicesChange ==
    ASSUME QueueInv, NEW gone \in SUBSET Logins, WorkerLoses(gone),
           devices' \in [Logins -> Device \union {NoDevice}], OneRowPerToken',
           \A l \in Logins \ gone : devices[l] # NoDevice => devices'[l] # NoDevice,
           gone \intersect Locked = {},
           UNCHANGED <<outbox, heard>>, alive' \subseteq Logins
    PROVE  QueueInv'
<1>1. Shape' /\ HeardIsSent'
  BY DEF QueueInv, Shape, SendingHolds, HeardIsSent
<1>2. Rows' = Rows /\ \A u : SentTo(u)' = SentTo(u)
  BY DEF Rows, SentTo, Counted
<1>3. CapHolds'
  BY <1>2, CapIsKept DEF QueueInv, SendingHolds
<1>4. CASE worker = Off
  <2>1. Held = {}
    BY <1>4 DEF Held
  <2>2. worker' = Off
    BY <1>4, <2>1 DEF WorkerLoses
  <2> QED BY <1>1, <1>3, <2>2 DEF QueueInv, SendingHolds
<1>5. CASE WorkerShape /\ BatchOK /\ DevicesOK /\ CapOK
  <2> DEFINE k == [worker EXCEPT !.lost = @ \union (gone \intersect Held)]
  <2>1. worker \in Work(worker.rows)
    BY <1>5 DEF WorkerShape, Work
  <2>2. worker' = k \/ (worker' = worker /\ gone \intersect Held = {})
    BY DEF WorkerLoses
  <2>3. /\ k.at = worker.at /\ k.left = worker.left /\ k.row = worker.row /\ k.to = worker.to
        /\ k.rows = worker.rows /\ k.oks = worker.oks /\ k.deads = worker.deads
        /\ k.flushed = worker.flushed /\ k.off = worker.off /\ k.told = worker.told
        /\ k.lost = worker.lost \union (gone \intersect Held)
    BY <2>1 DEF Work
  <2>4. k \in Work(worker.rows)
    BY <2>1 DEF Work
  <2>5. worker # Off /\ Held = {d[1] : d \in worker.to} \union worker.oks \union worker.deads
    BY <1>5, WorkerIsOff DEF Held
  <2> HIDE DEF k
  <2>6. /\ worker'.at = worker.at /\ worker'.left = worker.left /\ worker'.row = worker.row
        /\ worker'.to = worker.to /\ worker'.rows = worker.rows /\ worker'.oks = worker.oks
        /\ worker'.deads = worker.deads /\ worker'.flushed = worker.flushed
        /\ worker'.off = worker.off /\ worker'.told = worker.told
        /\ worker'.lost = worker.lost \union (gone \intersect Held)
    BY <2>2, <2>3
  <2>7. WorkerShape'
    BY <2>1, <2>2, <2>3, <2>4 DEF WorkerShape, Work
  <2>8. worker' # Off
    <3>1. worker.at # "off"
      BY <2>1 DEF Work
    <3> QED BY <2>6, <3>1 DEF Off
  <2>9. BatchOK'
    BY <1>2, <1>5, <2>6 DEF BatchOK, Waiting
  <2>10. Held' = Held
    BY <2>5, <2>6, <2>8 DEF Held
  <2>11. DevicesOK'
    <3>1. Held \subseteq Logins
      BY <2>1, <2>5 DEF Work
    <3>2. worker.off \intersect gone = {} /\ worker.off \subseteq Logins
      BY <1>5, <2>1, <2>5 DEF DevicesOK, Locked, Work
    <3> QED BY <1>5, <2>6, <2>10, <3>1, <3>2 DEF DevicesOK
  <2>12. \A u : SentInBatch(u)' = SentInBatch(u)
    BY <1>2, <2>6 DEF SentInBatch, TxRow
  <2>13. CapOK'
    BY <1>5, <2>6, <2>12 DEF CapOK
  <2> QED BY <1>1, <1>3, <2>7, <2>9, <2>11, <2>13 DEF QueueInv, SendingHolds
<1> QED BY <1>4, <1>5 DEF QueueInv

-----------------------------------------------------------------------------
(* The steps of the devices.                                               *)

(* register_device takes the token from every other login before it writes the row, so no
   token ever stands in two. *)
LEMMA RegisterKeeps ==
    ASSUME QueueInv, NEW l \in Logins, NEW t \in Tokens, NEW denied \in BOOLEAN,
           RegisterDevice(l, t, denied)
    PROVE  QueueInv'
<1> DEFINE gone == Holders(t) \ {l}
           new == [token |-> t, disabled |-> FALSE, denied |-> denied]
<1>1. new \in Device /\ new.token = t /\ new # NoDevice
  <2>1. NoDevice \notin Device
    BY PushAssumption DEF Device
  <2>2. new \in Device /\ new.token = t
    BY DEF Device
  <2> QED BY <2>1, <2>2
<1>2. devices \in [Logins -> Device \union {NoDevice}]
  BY DEF QueueInv, Shape
<1>3. devices' = [k \in Logins |-> IF k = l THEN new ELSE IF k \in Holders(t) THEN NoDevice ELSE devices[k]]
  BY DEF RegisterDevice
<1> HIDE DEF new
<1>4. devices' \in [Logins -> Device \union {NoDevice}]
  BY <1>1, <1>2, <1>3
<1>5. devices'[l] = new /\ \A k \in Logins \ {l} : devices'[k] = IF k \in Holders(t) THEN NoDevice ELSE devices[k]
  BY <1>3
<1>6. \A k \in Logins \ {l} : devices'[k] # NoDevice => devices'[k] = devices[k] /\ devices[k].token # t
  BY <1>5 DEF Holders
<1>7. OneRowPerToken'
  <2> SUFFICES ASSUME NEW k \in Logins, NEW m \in Logins, devices'[k] # NoDevice, devices'[m] # NoDevice,
                      devices'[k].token = devices'[m].token, k # m
               PROVE  FALSE
    BY DEF OneRowPerToken
  <2>1. CASE k = l
    BY <1>1, <1>5, <1>6, <2>1
  <2>2. CASE m = l
    BY <1>1, <1>5, <1>6, <2>2
  <2>3. CASE k # l /\ m # l
    BY <1>6, <2>3 DEF QueueInv, OneRowPerToken
  <2> QED BY <2>1, <2>2, <2>3
<1>8. \A k \in Logins \ gone : devices[k] # NoDevice => devices'[k] # NoDevice
  BY <1>1, <1>5
<1>9. gone \in SUBSET Logins /\ gone \intersect Locked = {} /\ WorkerLoses(gone)
  BY DEF RegisterDevice, Holders
<1>10. UNCHANGED <<outbox, heard>> /\ alive' \subseteq Logins
  BY DEF RegisterDevice, QueueInv, Shape
<1> HIDE DEF gone
<1> QED BY <1>4, <1>7, <1>8, <1>9, <1>10, DevicesChange

(* remove_device, with or without a sign-out, leaves the worker a row that is gone. *)
LEMMA RemoveKeeps ==
    ASSUME QueueInv, NEW l \in Logins, NEW signOut \in BOOLEAN, RemoveDevice(l, signOut)
    PROVE  QueueInv'
<1>1. devices \in [Logins -> Device \union {NoDevice}] /\ alive \subseteq Logins
  BY DEF QueueInv, Shape
<1>2. devices' = [devices EXCEPT ![l] = NoDevice]
  BY DEF RemoveDevice
<1>3. devices' \in [Logins -> Device \union {NoDevice}]
  BY <1>1, <1>2
<1>4. devices'[l] = NoDevice /\ \A k \in Logins \ {l} : devices'[k] = devices[k]
  BY <1>1, <1>2
<1>5. OneRowPerToken'
  BY <1>4 DEF QueueInv, OneRowPerToken
<1>6. \A k \in Logins \ {l} : devices[k] # NoDevice => devices'[k] # NoDevice
  BY <1>4
<1>7. {l} \in SUBSET Logins /\ {l} \intersect Locked = {} /\ WorkerLoses({l})
  BY DEF RemoveDevice
<1>8. UNCHANGED <<outbox, heard>> /\ alive' \subseteq Logins
  BY <1>1 DEF RemoveDevice
<1> QED BY <1>3, <1>5, <1>6, <1>7, <1>8, DevicesChange

(* Whatever the phones do keeps the invariant of the queue. *)
LEMMA DevicesKeep ==
    ASSUME QueueInv, DeviceNext
    PROVE  QueueInv'
<1>1. ASSUME NEW l \in Logins, EndLogin(l)
      PROVE  QueueInv'
  <2>1. alive' \subseteq Logins
    BY <1>1 DEF EndLogin, QueueInv, Shape
  <2> QED BY <1>1, <2>1, Aside DEF EndLogin
<1>2. ASSUME NEW t \in Tokens, Uninstall(t)
      PROVE  QueueInv'
  <2>1. alive' \subseteq Logins
    BY <1>2 DEF Uninstall, QueueInv, Shape
  <2> QED BY <1>2, <2>1, Aside DEF Uninstall
<1> QED BY <1>1, <1>2, RegisterKeeps, RemoveKeeps DEF DeviceNext

-----------------------------------------------------------------------------
(* The steps between two batches.                                          *)

(* run_once takes rows that wait, or skips them without a key. *)
LEMMA TakeKeeps ==
    ASSUME QueueInv, Take
    PROVE  QueueInv'
<1> DEFINE F == FirstOf(Due, Batch)
<1>1. worker = Off /\ UNCHANGED <<alive, devices, heard>>
  BY DEF Take
<1>2. outbox \in Seq(Notice \union {NoRow}) /\ devices \in [Logins -> Device \union {NoDevice}]
      /\ OneRowPerToken'
  BY <1>1 DEF QueueInv, Shape, OneRowPerToken
<1>3. DOMAIN outbox = 1 .. Len(outbox) /\ Len(outbox) \in Nat
  BY <1>2
<1>4. F \subseteq Waiting /\ Waiting \subseteq Rows /\ Rows \subseteq DOMAIN outbox
  BY DEF FirstOf, Due, Waiting, Rows
<1>5. F \subseteq Nat
  BY <1>3, <1>4
<1> HIDE DEF F
<1>6. CASE configured
  <2>1. worker' = [at |-> "row", left |-> F, row |-> 0, to |-> {},
                   rows |-> << >>, oks |-> {}, deads |-> {}, flushed |-> {}, off |-> {},
                   lost |-> {}, told |-> {}] /\ outbox' = outbox
    BY <1>6 DEF Take, F
  <2>2. /\ worker'.at = "row" /\ worker'.left = F /\ worker'.row = 0 /\ worker'.to = {}
        /\ worker'.rows = << >> /\ worker'.oks = {} /\ worker'.deads = {} /\ worker'.flushed = {}
        /\ worker'.off = {} /\ worker'.lost = {} /\ worker'.told = {}
    BY <2>1
  <2>3. WorkerShape'
    BY <1>5, <2>1 DEF WorkerShape, Work
  <2>4. DOMAIN worker'.rows = {}
    BY <2>2
  <2>5. Waiting' = Waiting
    BY <2>1 DEF Waiting, Rows
  <2>6. BatchOK'
    BY <1>4, <2>2, <2>4, <2>5 DEF BatchOK
  <2>7. Held' = {}
    BY <2>2 DEF Held
  <2>8. DevicesOK'
    BY <2>2, <2>7 DEF DevicesOK
  <2> QED BY <1>1, <1>2, <2>1, <2>2, <2>3, <2>4, <2>6, <2>8, Resting
<1>7. CASE ~configured
  <2>1. outbox' = [i \in DOMAIN outbox |-> IF i \in F THEN [outbox[i] EXCEPT !.status = "skipped"] ELSE outbox[i]]
        /\ worker' = Off
    BY <1>1, <1>7 DEF Take, F
  <2>2. \A i \in F : /\ outbox[i] \in Notice /\ outbox[i] # NoRow /\ outbox[i].status = "pending"
                     /\ [outbox[i] EXCEPT !.status = "skipped"] \in Notice
                     /\ [outbox[i] EXCEPT !.status = "skipped"].status = "skipped"
    BY <1>2, <1>4 DEF Waiting, Rows, Notice
  <2>3. \A i \in DOMAIN outbox : outbox[i] \in Notice \union {NoRow}
    BY <1>2
  <2>4. \A i \in DOMAIN outbox : outbox'[i] = IF i \in F THEN [outbox[i] EXCEPT !.status = "skipped"] ELSE outbox[i]
    BY <2>1
  <2>5. \A i \in DOMAIN outbox : outbox'[i] \in Notice \union {NoRow}
    BY <2>2, <2>3, <2>4
  <2>6. DOMAIN outbox' = DOMAIN outbox /\ outbox' \in Seq(Notice \union {NoRow})
    BY <1>3, <2>1, <2>5
  <2>7. \A i \in DOMAIN outbox : outbox'[i] # NoRow =>
                /\ outbox[i] # NoRow
                /\ outbox[i].status = "sent" => outbox'[i].status = "sent"
                /\ \A u : Counted(outbox'[i], u) => Counted(outbox[i], u)
    BY <2>2, <2>4 DEF Counted
  <2> QED BY <1>1, <1>2, <2>1, <2>6, <2>7, Resting
<1> QED BY <1>6, <1>7

(* A back-off that ends, or a morning, only lets rows be tried again (next_attempt_at). *)
LEMMA WaitedIsLess ==
    ASSUME QueueInv, worker = Off, NEW from, outbox' = Waited(from) \/ outbox' = outbox,
           UNCHANGED <<worker, devices, heard, alive>>
    PROVE  QueueInv'
<1>1. outbox \in Seq(Notice \union {NoRow}) /\ devices \in [Logins -> Device \union {NoDevice}]
      /\ OneRowPerToken'
  BY DEF QueueInv, Shape, OneRowPerToken
<1>2. DOMAIN outbox = 1 .. Len(outbox) /\ Len(outbox) \in Nat
      /\ \A i \in DOMAIN outbox : outbox[i] \in Notice \union {NoRow}
  BY <1>1
<1>3. ASSUME NEW r \in Notice
      PROVE  [r EXCEPT !.waits = "no"] \in Notice /\ [r EXCEPT !.waits = "no"].status = r.status
             /\ \A u : Counted([r EXCEPT !.waits = "no"], u) <=> Counted(r, u)
  BY <1>3 DEF Notice, Counted
<1>4. \A i \in DOMAIN outbox : \/ outbox'[i] = outbox[i]
                               \/ /\ outbox[i] \in Notice /\ outbox[i] # NoRow
                                  /\ outbox'[i] = [outbox[i] EXCEPT !.waits = "no"]
  BY <1>2 DEF Waited
<1>5. DOMAIN outbox' = DOMAIN outbox
  BY DEF Waited
<1>6. \A i \in DOMAIN outbox : outbox'[i] \in Notice \union {NoRow}
  BY <1>2, <1>3, <1>4
<1>7. outbox' \in Seq(Notice \union {NoRow})
  <2>1. CASE outbox' = Waited(from)
    BY <1>2, <1>5, <1>6, <2>1 DEF Waited
  <2> QED BY <1>1, <2>1
<1>8. \A i \in DOMAIN outbox : outbox'[i] # NoRow =>
                /\ outbox[i] # NoRow
                /\ outbox[i].status = "sent" => outbox'[i].status = "sent"
                /\ \A u : Counted(outbox'[i], u) => Counted(outbox[i], u)
  <2> TAKE i \in DOMAIN outbox
  <2>1. CASE outbox'[i] = outbox[i]
    BY <2>1
  <2>2. CASE outbox[i] \in Notice /\ outbox[i] # NoRow /\ outbox'[i] = [outbox[i] EXCEPT !.waits = "no"]
    <3> DEFINE r == outbox[i]
    <3>1. outbox'[i].status = r.status /\ \A u : Counted(outbox'[i], u) <=> Counted(r, u)
      BY <1>3, <2>2
    <3> QED BY <2>2, <3>1
  <2> QED BY <1>4, <2>1, <2>2
<1>9. worker' = Off
  BY DEF Off
<1> QED BY <1>1, <1>5, <1>7, <1>8, <1>9, Resting

(* A day later less counts for the cap (the 24 hours of cap_count). *)
LEMMA AgedKeeps ==
    ASSUME QueueInv, Aged
    PROVE  QueueInv'
<1>1. outbox \in Seq(Notice \union {NoRow}) /\ devices \in [Logins -> Device \union {NoDevice}]
      /\ OneRowPerToken' /\ worker = Off /\ worker' = Off /\ UNCHANGED <<heard, alive, devices>>
  BY DEF QueueInv, Shape, OneRowPerToken, Aged
<1>2. DOMAIN outbox = 1 .. Len(outbox) /\ Len(outbox) \in Nat
      /\ \A i \in DOMAIN outbox : outbox[i] \in Notice \union {NoRow}
  BY <1>1
<1>3. ASSUME NEW r \in Notice
      PROVE  [r EXCEPT !.recent = FALSE] \in Notice /\ [r EXCEPT !.recent = FALSE].status = r.status
             /\ \A u : ~Counted([r EXCEPT !.recent = FALSE], u)
  BY <1>3 DEF Notice, Counted
<1>4. outbox' = [i \in DOMAIN outbox |-> IF outbox[i] = NoRow THEN NoRow ELSE [outbox[i] EXCEPT !.recent = FALSE]]
  BY DEF Aged
<1>5. \A i \in DOMAIN outbox : outbox'[i] \in Notice \union {NoRow}
  BY <1>2, <1>3, <1>4
<1>6. DOMAIN outbox' = DOMAIN outbox /\ outbox' \in Seq(Notice \union {NoRow})
  BY <1>2, <1>4, <1>5
<1>7. \A i \in DOMAIN outbox : outbox'[i] # NoRow =>
                /\ outbox[i] # NoRow
                /\ outbox[i].status = "sent" => outbox'[i].status = "sent"
                /\ \A u : Counted(outbox'[i], u) => Counted(outbox[i], u)
  BY <1>2, <1>3, <1>4
<1> QED BY <1>1, <1>6, <1>7, Resting

(* cleanup forgets rows that are done and devices that were disabled. *)
LEMMA CleanupKeeps ==
    ASSUME QueueInv, Cleanup
    PROVE  QueueInv'
<1>1. outbox \in Seq(Notice \union {NoRow}) /\ devices \in [Logins -> Device \union {NoDevice}]
      /\ worker = Off /\ worker' = Off /\ UNCHANGED <<heard, alive>>
  BY DEF QueueInv, Shape, Cleanup
<1>2. DOMAIN outbox = 1 .. Len(outbox) /\ Len(outbox) \in Nat
      /\ \A i \in DOMAIN outbox : outbox[i] \in Notice \union {NoRow}
  BY <1>1
<1>3. outbox' = [i \in DOMAIN outbox |-> IF outbox[i] # NoRow /\ outbox[i].status # "pending" /\ ~outbox[i].recent
                                         THEN NoRow ELSE outbox[i]]
      /\ devices' = [l \in Logins |-> IF devices[l] # NoDevice /\ devices[l].disabled THEN NoDevice ELSE devices[l]]
  BY DEF Cleanup
<1>4. \A i \in DOMAIN outbox : outbox'[i] = NoRow \/ outbox'[i] = outbox[i]
  BY <1>3
<1>5. DOMAIN outbox' = DOMAIN outbox /\ outbox' \in Seq(Notice \union {NoRow})
  BY <1>2, <1>3
<1>6. devices' \in [Logins -> Device \union {NoDevice}]
  BY <1>1, <1>3
<1>7. \A l \in Logins : devices'[l] # NoDevice => devices'[l] = devices[l]
  BY <1>3
<1>8. OneRowPerToken'
  BY <1>7 DEF QueueInv, OneRowPerToken
<1> QED BY <1>1, <1>4, <1>5, <1>6, <1>8, Resting

-----------------------------------------------------------------------------
(* The steps of a batch.                                                   *)

(* Numbers can be taken in their order: the batch is sent by id. *)
LEMMA LeastIsThere ==
    ASSUME NEW S \in SUBSET Nat, S # {}
    PROVE  Min(S) \in S
<1>1. IsWellFoundedOn(OpToRel(<, Nat), Nat)
  BY NatLessThanWellFounded
<1>2. PICK x \in S : \A y \in S : ~ (<<y, x>> \in OpToRel(<, Nat))
  BY <1>1, WFMin
<1>3. \A y \in S : x <= y
  <2> TAKE y \in S
  <2>1. x \in Nat /\ y \in Nat /\ ~(y < x)
    BY <1>2 DEF OpToRel
  <2> QED BY <2>1
<1> QED BY <1>3 DEF Min

(* What the worker holds at a step of a batch. *)
LEMMA AtWork ==
    ASSUME QueueInv, worker # Off
    PROVE  /\ WorkerShape /\ BatchOK /\ DevicesOK /\ CapOK
           /\ worker \in Work(worker.rows)
           /\ Held = {d[1] : d \in worker.to} \union worker.oks \union worker.deads
           /\ \A i \in Rows : outbox[i] \in Notice /\ i \in Nat
<1>1. WorkerShape /\ BatchOK /\ DevicesOK /\ CapOK
  BY DEF QueueInv
<1>2. outbox \in Seq(Notice \union {NoRow})
  BY DEF QueueInv, Shape
<1>3. DOMAIN outbox = 1 .. Len(outbox) /\ Len(outbox) \in Nat
  BY <1>2
<1>4. \A i \in Rows : outbox[i] \in Notice /\ i \in Nat
  BY <1>2, <1>3 DEF Rows
<1> QED BY <1>1, <1>4 DEF WorkerShape, Work, Held

(* deliver takes the next row: it is sent to devices that are there, and under the cap, or
   held back. *)
LEMMA DeliverKeeps ==
    ASSUME QueueInv, Deliver
    PROVE  QueueInv'
<1>0. PICK i : i = Min(worker.left)
  OBVIOUS
<1> DEFINE to == Eligible(outbox[i].user, worker.off \union worker.deads)
           held == HeldFor(outbox[i], to)
           sends == {<<l, devices[l].token>> : l \in to}
           later == [outbox[i] EXCEPT !.waits = held]
           same == worker.rows
           more == Written(i, later)
           flush == worker.flushed \union Dirty
           offs == worker.off \union worker.deads
<1>1. worker # Off /\ worker.at = "row" /\ worker.left # {} /\ CanFlush
      /\ UNCHANGED <<alive, devices, outbox, heard>>
  BY DEF Deliver
<1>2. /\ WorkerShape /\ BatchOK /\ DevicesOK /\ CapOK
      /\ worker \in Work(worker.rows)
      /\ Held = {d[1] : d \in worker.to} \union worker.oks \union worker.deads
      /\ \A k \in Rows : outbox[k] \in Notice /\ k \in Nat
  BY <1>1, AtWork
<1>3. i \in worker.left
  <2>1. worker.left \in SUBSET Nat
    BY <1>2 DEF Work
  <2> QED BY <1>0, <1>1, <2>1, LeastIsThere
<1>4. /\ i \in Waiting /\ i \in Rows /\ outbox[i] \in Notice /\ i \in Nat
      /\ outbox[i].status = "pending" /\ i \notin DOMAIN worker.rows
  BY <1>2, <1>3 DEF BatchOK, Waiting
<1>5. to \subseteq Logins /\ \A l \in to : devices[l] # NoDevice /\ devices[l] \in Device
  BY DEF Eligible, QueueInv, Shape
<1>6. sends \subseteq Logins \X Tokens /\ \A d \in sends : d[1] \in to
  <2>1. \A l \in to : l \in Logins /\ devices[l].token \in Tokens
    BY <1>5 DEF Device
  <2> HIDE DEF to
  <2> QED BY <2>1
<1>7. held \in {"no", "morning", "backoff"}
  BY DEF HeldFor
<1>8. later \in Notice /\ later.status = "pending"
  BY <1>4, <1>7 DEF Notice
<1>9. flush \subseteq Logins /\ offs \subseteq Logins /\ offs \subseteq flush
  BY <1>2 DEF Dirty, DevicesOK, Work
<1>10. \A l \in offs : devices[l] # NoDevice
  BY <1>1, <1>2 DEF DevicesOK, CanFlush, Dirty
<1>11. held = "no" /\ to # {} /\ outbox[i].kind # "chat_answer" =>
            Cardinality(SentInBatch(outbox[i].user)) < DailyCap
  <2>1. CapCount(outbox[i].user) = Cardinality(SentInBatch(outbox[i].user))
    BY DEF CapCount, SentInBatch, Counted
  <2>2. Cardinality(SentInBatch(outbox[i].user)) \in Nat
    BY <1>2, BatchRows, RowsAreCounted DEF QueueInv
  <2>3. held = "no" /\ to # {} /\ outbox[i].kind # "chat_answer" => ~(CapCount(outbox[i].user) >= DailyCap)
    BY DEF HeldFor
  <2> HIDE DEF held, to
  <2> QED BY <2>1, <2>2, <2>3, PushAssumption
<1>12. /\ worker'.at = (IF held = "no" THEN "sending" ELSE "row")
       /\ worker'.left = worker.left \ {i}
       /\ worker'.row = (IF held = "no" THEN i ELSE 0)
       /\ worker'.to = (IF held = "no" THEN sends ELSE {})
       /\ worker'.rows = (IF held = "no" THEN same ELSE more)
       /\ worker'.oks = {} /\ worker'.deads = {} /\ worker'.flushed = flush
       /\ worker'.off = offs /\ worker'.lost = {} /\ worker'.told = worker.told
       /\ worker' \in Work(worker'.rows)
  <2>1. worker' = [Flushed EXCEPT
            !.left = @ \ {i},
            !.at = IF held = "no" THEN "sending" ELSE "row",
            !.row = IF held = "no" THEN i ELSE 0,
            !.to = IF held = "no" THEN sends ELSE {},
            !.rows = IF held = "no" THEN @ ELSE more]
    BY <1>0 DEF Deliver
  <2>2. /\ Flushed \in Work(same)
        /\ Flushed.at = worker.at /\ Flushed.left = worker.left /\ Flushed.rows = same
        /\ Flushed.oks = {} /\ Flushed.deads = {} /\ Flushed.flushed = flush /\ Flushed.off = offs
        /\ Flushed.lost = {} /\ Flushed.told = worker.told
    BY <1>2, <1>9 DEF Flushed, Work
  <2> HIDE DEF held, sends, same, more, flush, offs
  <2>3. PICK f : f = Flushed
    OBVIOUS
  <2>4. worker' = [f EXCEPT
            !.left = @ \ {i},
            !.at = IF held = "no" THEN "sending" ELSE "row",
            !.row = IF held = "no" THEN i ELSE 0,
            !.to = IF held = "no" THEN sends ELSE {},
            !.rows = IF held = "no" THEN @ ELSE more]
    BY <2>1, <2>3
  <2>5. f \in Work(same) /\ f.at = worker.at /\ f.left = worker.left /\ f.rows = same
        /\ f.oks = {} /\ f.deads = {} /\ f.flushed = flush /\ f.off = offs
        /\ f.lost = {} /\ f.told = worker.told
    BY <2>2, <2>3
  <2>6. sends \in SUBSET (Logins \X Tokens) /\ i \in Nat
    BY <1>4, <1>6
  <2> QED BY <2>4, <2>5, <2>6 DEF Work
<1>13. DOMAIN more = DOMAIN same \union {i} /\ more[i] = later
       /\ \A k \in DOMAIN same : more[k] = same[k]
  BY <1>4 DEF Written
<1>14. TxRow(i) = outbox[i]
  BY <1>4 DEF TxRow
<1>15. to = {} => sends = {}
  OBVIOUS
<1> HIDE DEF to, held, sends, later, same, more, flush, offs
<1> DEFINE A == IF held = "no" THEN "sending" ELSE "row"
           L == worker.left \ {i}
           R == IF held = "no" THEN i ELSE 0
           T == IF held = "no" THEN sends ELSE {}
           O == IF held = "no" THEN same ELSE more
<1>18. (A = "sending" <=> held = "no") /\ (A = "row" <=> held # "no")
       /\ (held = "no" => R = i /\ T = sends /\ O = same) /\ (held # "no" => T = {} /\ O = more)
  OBVIOUS
<1> HIDE DEF A, L, R, T, O
<1>19. /\ worker'.at = A /\ worker'.left = L /\ worker'.row = R /\ worker'.to = T /\ worker'.rows = O
       /\ worker'.oks = {} /\ worker'.deads = {} /\ worker'.flushed = flush /\ worker'.off = offs
       /\ worker'.lost = {} /\ worker'.told = worker.told /\ WorkerShape'
  BY <1>12 DEF A, L, R, T, O, WorkerShape, Work
<1>20. worker' # Off
  BY <1>19 DEF A, Off
<1>21. Rows' = Rows /\ Waiting' = Waiting
  BY <1>1 DEF Rows, Waiting
<1>22. DOMAIN O \subseteq DOMAIN same \union {i} /\ DOMAIN same \subseteq DOMAIN O
       /\ (\A k \in DOMAIN same : O[k] = same[k]) /\ (i \in DOMAIN O => O[i] = later /\ held # "no")
  BY <1>4, <1>13, <1>18 DEF same
<1>23. BatchOK'
  <2>1. L \subseteq Waiting /\ DOMAIN O \subseteq Waiting /\ L \intersect DOMAIN O = {}
    BY <1>2, <1>4, <1>22 DEF BatchOK, L, same
  <2>2. A = "sending" => R \in Waiting \ (L \union DOMAIN O)
    BY <1>4, <1>18, <1>22 DEF L, same
  <2>3. A = "row" => T = {}
    BY <1>18
  <2>4. \A k \in DOMAIN O : O[k] \in Notice
    BY <1>2, <1>8, <1>22 DEF BatchOK, same
  <2>5. \A d \in worker.told : d[1] \in DOMAIN O /\ O[d[1]].status = "sent"
    BY <1>2, <1>22 DEF BatchOK, same
  <2> QED BY <1>19, <1>21, <2>1, <2>2, <2>3, <2>4, <2>5 DEF BatchOK
<1>24. DevicesOK'
  <2>1. Held' = {d[1] : d \in T}
    BY <1>19, <1>20 DEF Held
  <2>2. \A d \in T : d[1] \in to
    BY <1>6, <1>18
  <2>3. \A l \in Held' : devices'[l] # NoDevice
    BY <1>1, <1>5, <2>1, <2>2
  <2> QED BY <1>1, <1>9, <1>10, <1>19, <2>3 DEF DevicesOK
<1>25. \A u : SentInBatch(u)' = SentInBatch(u)
  <2>1. \A k \in Rows : k # i => TxRow(k)' = TxRow(k)
    BY <1>1, <1>19, <1>22 DEF TxRow, same
  <2>2. TxRow(i)'.status = "pending" /\ TxRow(i).status = "pending"
    <3>1. TxRow(i)' = IF i \in DOMAIN O THEN O[i] ELSE outbox[i]
      BY <1>1, <1>19 DEF TxRow
    <3> QED BY <1>4, <1>8, <1>14, <1>22, <3>1
  <2>3. \A u : \A k \in Rows : Counted(TxRow(k)', u) <=> Counted(TxRow(k), u)
    BY <2>1, <2>2 DEF Counted
  <2> QED BY <1>21, <2>3 DEF SentInBatch
<1>26. CapOK'
  <2>1. worker'.to # {} /\ outbox'[worker'.row].kind # "chat_answer" =>
            Cardinality(SentInBatch(outbox'[worker'.row].user)) < DailyCap
    BY <1>1, <1>11, <1>15, <1>18, <1>19
  <2> QED BY <1>2, <1>25, <2>1 DEF CapOK
<1>27. Shape' /\ OneRowPerToken' /\ HeardIsSent'
  BY <1>1 DEF QueueInv, Shape, OneRowPerToken, SendingHolds, HeardIsSent
<1>28. CapHolds'
  <2>1. \A u : SentTo(u)' = SentTo(u)
    BY <1>1, <1>21 DEF SentTo, Counted
  <2> QED BY <2>1, CapIsKept DEF QueueInv, SendingHolds
<1> QED BY <1>19, <1>23, <1>24, <1>26, <1>27, <1>28 DEF QueueInv, SendingHolds

(* What the answers of Apple make of a row (deliver, after the sends): it counts as sent
   only if a device has it. *)
LEMMA SentIsARow ==
    ASSUME NEW row \in Notice, NEW res \in SUBSET Outcomes
    PROVE  /\ Sent(row, res) \in Notice
           /\ Sent(row, res).user = row.user /\ Sent(row, res).kind = row.kind
           /\ "ok" \in res => Sent(row, res).status = "sent"
           /\ \A u : Counted(Sent(row, res), u) /\ row.status = "pending" => "ok" \in res /\ row.user = u /\ row.kind # "chat_answer"
<1> DEFINE tried == [row EXCEPT !.attempts = @ + 1]
<1>1. tried \in Notice /\ tried.user = row.user /\ tried.kind = row.kind /\ tried.status = row.status
  BY DEF Notice
<1>2. Sent(row, res) = IF "ok" \in res THEN [tried EXCEPT !.status = "sent", !.recent = TRUE]
         ELSE IF res \subseteq {"dead"} THEN [tried EXCEPT !.status = "skipped"]
         ELSE IF "retry" \in res /\ tried.attempts < MaxAttempts THEN [tried EXCEPT !.waits = "backoff"]
         ELSE [tried EXCEPT !.status = "failed"]
  BY DEF Sent
<1> HIDE DEF tried
<1>3. CASE "ok" \in res
  <2>1. Sent(row, res) = [tried EXCEPT !.status = "sent", !.recent = TRUE]
    BY <1>2, <1>3
  <2> QED BY <1>1, <1>3, <2>1 DEF Notice, Counted
<1>4. CASE "ok" \notin res
  <2>1. Sent(row, res) \in {[tried EXCEPT !.status = "skipped"], [tried EXCEPT !.waits = "backoff"],
                            [tried EXCEPT !.status = "failed"]}
    BY <1>2, <1>4
  <2> QED BY <1>1, <1>4, <2>1 DEF Notice, Counted
<1> QED BY <1>3, <1>4

(* The answers count the row once more at most, which the cap still had room for. *)
LEMMA AnswersKeep ==
    ASSUME QueueInv, Answers
    PROVE  QueueInv'
<1>1. worker # Off /\ worker.at = "sending" /\ UNCHANGED <<alive, devices, outbox, heard>>
  BY DEF Answers
<1>2. /\ WorkerShape /\ BatchOK /\ DevicesOK /\ CapOK
      /\ worker \in Work(worker.rows)
      /\ Held = {d[1] : d \in worker.to} \union worker.oks \union worker.deads
      /\ \A k \in Rows : outbox[k] \in Notice /\ k \in Nat
  BY <1>1, AtWork
<1>3. PICK o \in [worker.to -> Outcomes] :
         worker' = [worker EXCEPT
                !.at = "row", !.row = 0, !.to = {},
                !.rows = Written(worker.row, Sent(outbox[worker.row], {o[d] : d \in worker.to})),
                !.oks = {d[1] : d \in {e \in worker.to : o[e] = "ok"}},
                !.deads = {d[1] : d \in {e \in worker.to : o[e] = "dead"}},
                !.told = @ \union {<<worker.row, d[2]>> : d \in {e \in worker.to : o[e] = "ok"}}]
  BY DEF Answers
<1> DEFINE res == {o[d] : d \in worker.to}
           i == worker.row
           same == worker.rows
           new == Sent(outbox[i], res)
           O == Written(i, new)
           oks == {d[1] : d \in {e \in worker.to : o[e] = "ok"}}
           deads == {d[1] : d \in {e \in worker.to : o[e] = "dead"}}
           fresh == {<<i, d[2]>> : d \in {e \in worker.to : o[e] = "ok"}}
<1>4. /\ i \in Waiting /\ i \in Rows /\ outbox[i] \in Notice /\ i \in Nat
      /\ outbox[i].status = "pending" /\ i \notin DOMAIN same /\ i \notin worker.left
  BY <1>1, <1>2 DEF BatchOK, Waiting
<1>5. worker.to \subseteq Logins \X Tokens
  BY <1>2 DEF Work
<1>6. res \in SUBSET Outcomes
  OBVIOUS
<1>7. /\ new \in Notice /\ new.user = outbox[i].user /\ new.kind = outbox[i].kind
      /\ "ok" \in res => new.status = "sent"
      /\ \A u : Counted(new, u) => "ok" \in res /\ outbox[i].user = u /\ outbox[i].kind # "chat_answer"
  <2> HIDE DEF res, i
  <2> QED BY <1>4, <1>6, SentIsARow
<1>8. oks \subseteq Logins /\ deads \subseteq Logins
  BY <1>5
<1>9. \A l \in oks \union deads : l \in {d[1] : d \in worker.to}
  OBVIOUS
<1>10. fresh \subseteq Nat \X Tokens /\ \A d \in fresh : d[1] = i /\ "ok" \in res
  <2>1. \A d \in worker.to : d[2] \in Tokens
    BY <1>5
  <2> QED BY <1>4, <2>1
<1>11. "ok" \in res => worker.to # {}
  OBVIOUS
<1>12. DOMAIN O = DOMAIN same \union {i} /\ O[i] = new /\ \A k \in DOMAIN same : O[k] = same[k]
  BY <1>4 DEF Written
<1>13. worker' = [worker EXCEPT !.at = "row", !.row = 0, !.to = {}, !.rows = O, !.oks = oks,
                                !.deads = deads, !.told = @ \union fresh]
  BY <1>3
<1> HIDE DEF res, new, O, oks, deads, fresh
<1>14. /\ worker'.at = "row" /\ worker'.left = worker.left /\ worker'.to = {}
       /\ worker'.rows = O /\ worker'.oks = oks /\ worker'.deads = deads
       /\ worker'.flushed = worker.flushed /\ worker'.off = worker.off /\ worker'.lost = worker.lost
       /\ worker'.told = worker.told \union fresh /\ worker' \in Work(worker'.rows)
  BY <1>2, <1>8, <1>10, <1>13 DEF Work
<1>15. worker' # Off /\ WorkerShape'
  BY <1>14 DEF WorkerShape, Work, Off
<1>16. Rows' = Rows /\ Waiting' = Waiting
  BY <1>1 DEF Rows, Waiting
<1>17. BatchOK'
  <2>1. worker.left \subseteq Waiting /\ DOMAIN O \subseteq Waiting /\ worker.left \intersect DOMAIN O = {}
    BY <1>2, <1>4, <1>12 DEF BatchOK
  <2>2. \A k \in DOMAIN O : O[k] \in Notice
    BY <1>2, <1>7, <1>12 DEF BatchOK
  <2>3. \A d \in worker.told \union fresh : d[1] \in DOMAIN O /\ O[d[1]].status = "sent"
    BY <1>2, <1>7, <1>10, <1>12 DEF BatchOK
  <2> QED BY <1>14, <1>16, <2>1, <2>2, <2>3 DEF BatchOK
<1>18. DevicesOK'
  <2>1. Held' = oks \union deads
    BY <1>14, <1>15 DEF Held
  <2>2. Held' \subseteq Held
    BY <1>2, <1>9, <2>1
  <2> QED BY <1>1, <1>2, <1>14, <2>2 DEF DevicesOK
<1>19. ASSUME NEW u \in Users
       PROVE  Cardinality(SentInBatch(u)') <= DailyCap
  <2> PICK r : r = i
    OBVIOUS
  <2>1. \A k \in Rows : k # r => TxRow(k)' = TxRow(k)
    BY <1>1, <1>12, <1>14 DEF TxRow
  <2>2. TxRow(r)' = new
    <3>1. r \in DOMAIN worker'.rows /\ worker'.rows[r] = new
      BY <1>12, <1>14
    <3> QED BY <3>1 DEF TxRow
  <2>3. /\ IsFiniteSet(SentInBatch(u)) /\ Cardinality(SentInBatch(u)) \in Nat
        /\ Cardinality(SentInBatch(u)) <= DailyCap
    BY <1>2, BatchRows, RowsAreCounted DEF QueueInv, CapOK
  <2>4. SentInBatch(u)' \subseteq SentInBatch(u) \union {r}
    BY <1>16, <2>1 DEF SentInBatch
  <2>5. CASE ~Counted(new, u)
    <3>1. SentInBatch(u)' \subseteq SentInBatch(u)
      <4>1. r \notin SentInBatch(u)'
        BY <2>2, <2>5 DEF SentInBatch
      <4> QED BY <2>4, <4>1
    <3>2. Cardinality(SentInBatch(u)') <= Cardinality(SentInBatch(u)) /\ IsFiniteSet(SentInBatch(u)')
      BY <2>3, <3>1, FS_Subset
    <3>3. Cardinality(SentInBatch(u)') \in Nat
      BY <3>2, FS_CardinalityType
    <3> QED BY <2>3, <3>2, <3>3, PushAssumption
  <2>6. CASE Counted(new, u)
    <3>1. worker.to # {} /\ outbox[i].kind # "chat_answer" /\ outbox[i].user = u
      BY <1>7, <1>11, <2>6
    <3>2. Cardinality(SentInBatch(u)) < DailyCap
      BY <1>2, <3>1 DEF CapOK
    <3>3. r \notin SentInBatch(u)
      <4>1. TxRow(r) = outbox[r]
        BY <1>4 DEF TxRow
      <4> QED BY <1>4, <4>1 DEF SentInBatch, Counted
    <3> DEFINE big == SentInBatch(u) \union {r}
    <3>4. IsFiniteSet(big) /\ Cardinality(big) = Cardinality(SentInBatch(u)) + 1
      BY <2>3, <3>3, FS_AddElement
    <3>5. SentInBatch(u)' \subseteq big
      BY <2>4
    <3> HIDE DEF big
    <3>6. IsFiniteSet(SentInBatch(u)') /\ Cardinality(SentInBatch(u)') <= Cardinality(big)
      BY <3>4, <3>5, FS_Subset
    <3>7. Cardinality(SentInBatch(u)') \in Nat
      BY <3>6, FS_CardinalityType
    <3> QED BY <2>3, <3>2, <3>4, <3>6, <3>7, PushAssumption
  <2> QED BY <2>5, <2>6
<1>20. CapOK'
  BY <1>14, <1>19 DEF CapOK
<1>21. Shape' /\ OneRowPerToken' /\ HeardIsSent'
  BY <1>1 DEF QueueInv, Shape, OneRowPerToken, SendingHolds, HeardIsSent
<1>22. CapHolds'
  <2>1. \A u : SentTo(u)' = SentTo(u)
    BY <1>1, <1>16 DEF SentTo, Counted
  <2> QED BY <2>1, CapIsKept DEF QueueInv, SendingHolds
<1> QED BY <1>15, <1>17, <1>18, <1>20, <1>21, <1>22 DEF QueueInv, SendingHolds

(* The commit makes the batch true: what was heard is sent, what counts is under the cap,
   and no device row comes back. *)
LEMMA CommitKeeps ==
    ASSUME QueueInv, CommitBatch
    PROVE  QueueInv'
<1>1. worker # Off /\ worker.at = "row" /\ worker.left = {} /\ CanFlush /\ worker' = Off /\ UNCHANGED alive
  BY DEF CommitBatch
<1>2. /\ WorkerShape /\ BatchOK /\ DevicesOK /\ CapOK
      /\ worker \in Work(worker.rows)
      /\ Held = {d[1] : d \in worker.to} \union worker.oks \union worker.deads
      /\ \A k \in Rows : outbox[k] \in Notice /\ k \in Nat
  BY <1>1, AtWork
<1>3. outbox' = [i \in DOMAIN outbox |-> IF outbox[i] = NoRow THEN NoRow ELSE TxRow(i)]
      /\ devices' = [l \in Logins |-> IF l \in worker.off \union worker.deads
                                    THEN [devices[l] EXCEPT !.disabled = TRUE] ELSE devices[l]]
      /\ heard' = heard \union worker.told
  BY DEF CommitBatch
<1>4. outbox \in Seq(Notice \union {NoRow}) /\ devices \in [Logins -> Device \union {NoDevice}]
      /\ alive \subseteq Logins /\ heard \subseteq (DOMAIN outbox) \X Tokens
  BY DEF QueueInv, Shape
<1>5. DOMAIN outbox = 1 .. Len(outbox) /\ Len(outbox) \in Nat
  BY <1>4
<1>6. DOMAIN outbox' = DOMAIN outbox /\ (\A i \in Rows : outbox'[i] = TxRow(i) /\ TxRow(i) \in Notice)
      /\ \A i \in DOMAIN outbox : i \notin Rows => outbox'[i] = NoRow
  <2>1. \A i \in Rows : TxRow(i) \in Notice
    BY <1>2, BatchRows DEF QueueInv
  <2> QED BY <1>3, <2>1 DEF Rows
<1>7. outbox' \in Seq(Notice \union {NoRow})
  <2>1. \A i \in DOMAIN outbox : outbox'[i] \in Notice \union {NoRow}
    BY <1>6
  <2> QED BY <1>3, <1>5, <2>1
<1>8. \A l \in worker.off \union worker.deads : devices[l] # NoDevice /\ l \in Logins
  BY <1>1, <1>2 DEF DevicesOK, CanFlush, Dirty, Work
<1>9. \A l \in Logins : /\ devices'[l] \in Device \union {NoDevice}
                        /\ devices'[l] # NoDevice => devices[l] # NoDevice /\ devices'[l].token = devices[l].token
  <2> TAKE l \in Logins
  <2>1. CASE l \in worker.off \union worker.deads
    <3>1. devices[l] \in Device /\ devices[l] # NoDevice
      BY <1>4, <1>8, <2>1
    <3>2. devices'[l] = [devices[l] EXCEPT !.disabled = TRUE]
      BY <1>3, <2>1
    <3> QED BY <3>1, <3>2 DEF Device
  <2>2. CASE l \notin worker.off \union worker.deads
    BY <1>3, <1>4, <2>2
  <2> QED BY <2>1, <2>2
<1>10. devices' \in [Logins -> Device \union {NoDevice}]
  BY <1>3, <1>9
<1>11. OneRowPerToken'
  BY <1>9 DEF QueueInv, OneRowPerToken
<1>12. \A d \in worker.told : d[1] \in Rows /\ TxRow(d[1]).status = "sent"
  BY <1>2 DEF BatchOK, Waiting, TxRow
<1>13. Shape'
  <2>1. worker.told \subseteq (DOMAIN outbox) \X Tokens
    <3>1. worker.told \subseteq Nat \X Tokens
      BY <1>2 DEF Work
    <3>2. \A d \in worker.told : d[1] \in DOMAIN outbox
      BY <1>12 DEF Rows
    <3> QED BY <3>1, <3>2
  <2> QED BY <1>1, <1>3, <1>4, <1>6, <1>7, <1>10, <2>1 DEF Shape
<1>14. HeardIsSent'
  <2> SUFFICES ASSUME NEW h \in heard', outbox'[h[1]] # NoRow
               PROVE  outbox'[h[1]].status = "sent"
    BY DEF HeardIsSent
  <2>1. CASE h \in worker.told
    BY <1>6, <1>12, <2>1
  <2>2. CASE h \in heard
    <3>1. h[1] \in DOMAIN outbox
      BY <1>4, <2>2
    <3>2. h[1] \in Rows
      BY <1>6, <3>1
    <3>3. outbox[h[1]].status = "sent"
      BY <2>2, <3>2 DEF QueueInv, SendingHolds, HeardIsSent, Rows
    <3> QED BY <1>2, <1>6, <3>2, <3>3, SentRowsStay
  <2> QED BY <1>3, <2>1, <2>2
<1>15. ASSUME NEW u \in Users
       PROVE  Cardinality(SentTo(u)') <= DailyCap
  <2>1. SentTo(u)' \subseteq SentInBatch(u)
    BY <1>6 DEF SentTo, SentInBatch, Rows
  <2>2. SentInBatch(u) \subseteq DOMAIN outbox
    BY <1>2, BatchRows DEF QueueInv
  <2>3. Cardinality(SentTo(u)') \in Nat /\ Cardinality(SentInBatch(u)) \in Nat
        /\ Cardinality(SentTo(u)') <= Cardinality(SentInBatch(u))
    BY <2>1, <2>2, RowsAreCounted DEF QueueInv
  <2>4. Cardinality(SentInBatch(u)) <= DailyCap
    BY <1>2 DEF CapOK
  <2> QED BY <2>3, <2>4, PushAssumption
<1>16. CapHolds'
  BY <1>15, CapIsKept
<1> QED BY <1>1, <1>11, <1>13, <1>14, <1>16 DEF QueueInv, SendingHolds

-----------------------------------------------------------------------------
(* The steps that queue rows.                                              *)

(* A row that is queued waits (enqueue). *)
LEMMA NewRowWaits ==
    ASSUME NEW u \in Users, NEW kind \in Kinds
    PROVE  NewRow(u, kind) \in Notice /\ NewRow(u, kind).status = "pending"
BY DEF NewRow, Notice

(* One more row is queued: chat_answer_ready and send_digests. *)
LEMMA OneMore ==
    ASSUME QueueInv, NEW u \in Users, NEW kind \in Kinds, outbox' = Append(outbox, NewRow(u, kind)),
           UNCHANGED <<devices, worker, heard, alive>>
    PROVE  QueueInv'
<1> DEFINE row == NewRow(u, kind)
           any == Notice \union {NoRow}
<1>1. row \in any /\ row.status = "pending" /\ outbox \in Seq(any)
  BY NewRowWaits DEF QueueInv, Shape
<1> HIDE DEF row, any
<1>2. outbox' = Append(outbox, row)
  BY DEF row
<1>3. /\ outbox' \in Seq(any) /\ Len(outbox') = Len(outbox) + 1 /\ Len(outbox) \in Nat
      /\ \A i \in 1 .. Len(outbox) : outbox'[i] = outbox[i]
      /\ outbox'[Len(outbox) + 1] = row
  BY <1>1, <1>2, AppendProperties
<1>4. DOMAIN outbox = 1 .. Len(outbox) /\ DOMAIN outbox' = 1 .. Len(outbox) + 1
  BY <1>1, <1>3
<1>5. outbox' \in Seq(Notice \union {NoRow})
  BY <1>3 DEF any
<1>6. Len(outbox) <= Len(outbox') /\ \A i \in DOMAIN outbox : outbox'[i] = outbox[i]
  BY <1>3, <1>4
<1>7. \A i \in DOMAIN outbox' : i \notin DOMAIN outbox => outbox'[i].status = "pending"
  <2>1. \A i \in 1 .. Len(outbox) + 1 : i \notin 1 .. Len(outbox) => i = Len(outbox) + 1
    BY <1>3
  <2> QED BY <1>1, <1>3, <1>4, <2>1
<1> QED BY <1>5, <1>6, <1>7, Growing

(* scan_books queues a row for each owner of a book that was updated. *)
LEMMA ScanKeeps ==
    ASSUME QueueInv, Scan
    PROVE  QueueInv'
<1>1. PICK order \in SetToSeqs(ToldOfUpdates) :
            outbox' = outbox \o [k \in DOMAIN order |-> NewRow(order[k], "book_updates")]
  BY DEF Scan
<1> DEFINE any == Notice \union {NoRow}
           more == [k \in DOMAIN order |-> NewRow(order[k], "book_updates")]
<1>2. PICK n \in Nat : order \in [1 .. n -> ToldOfUpdates]
  <2>1. order \in [1 .. Cardinality(ToldOfUpdates) -> ToldOfUpdates]
    BY DEF SetToSeqs
  <2>2. IsFiniteSet(ToldOfUpdates)
    BY PushAssumption, FS_Subset DEF ToldOfUpdates
  <2> QED BY <2>1, <2>2, FS_CardinalityType
<1>3. \A k \in 1 .. n : more[k] \in Notice /\ more[k].status = "pending"
  <2>1. \A k \in 1 .. n : order[k] \in Users
    BY <1>2 DEF ToldOfUpdates
  <2>2. "book_updates" \in Kinds
    BY DEF Kinds
  <2>3. \A k \in 1 .. n : more[k] = NewRow(order[k], "book_updates")
    BY <1>2
  <2> QED BY <2>1, <2>2, <2>3, NewRowWaits
<1>4. DOMAIN more = 1 .. n
  BY <1>2
<1>5. more \in Seq(any) /\ Len(more) = n
  <2>1. more \in [1 .. n -> any]
    BY <1>3, <1>4
  <2> HIDE DEF more, any
  <2> QED BY <1>2, <2>1
<1>6. outbox \in Seq(any)
  BY DEF QueueInv, Shape
<1>7. UNCHANGED <<devices, worker, heard, alive>>
  BY DEF Scan
<1>8. outbox' = outbox \o more
  BY <1>1
<1> HIDE DEF more, any
<1>9. /\ outbox' \in Seq(any) /\ Len(outbox') = Len(outbox) + n /\ Len(outbox) \in Nat
      /\ \A i \in 1 .. Len(outbox) + n : outbox'[i] = IF i <= Len(outbox) THEN outbox[i] ELSE more[i - Len(outbox)]
  <2>1. /\ outbox \o more \in Seq(any) /\ Len(outbox \o more) = Len(outbox) + Len(more)
        /\ \A i \in 1 .. Len(outbox) + Len(more) :
                (outbox \o more)[i] = IF i <= Len(outbox) THEN outbox[i] ELSE more[i - Len(outbox)]
    BY <1>5, <1>6, ConcatProperties
  <2>2. Len(outbox) \in Nat
    BY <1>6
  <2> QED BY <1>5, <1>8, <2>1, <2>2
<1>10. DOMAIN outbox = 1 .. Len(outbox) /\ DOMAIN outbox' = 1 .. Len(outbox) + n
  BY <1>6, <1>9
<1>11. outbox' \in Seq(Notice \union {NoRow})
  BY <1>9 DEF any
<1>12. Len(outbox) <= Len(outbox') /\ \A i \in DOMAIN outbox : outbox'[i] = outbox[i]
  BY <1>2, <1>9, <1>10
<1>13. \A i \in DOMAIN outbox' : i \notin DOMAIN outbox => outbox'[i].status = "pending"
  <2>1. \A i \in 1 .. Len(outbox) + n : i \notin 1 .. Len(outbox) => ~(i <= Len(outbox)) /\ i - Len(outbox) \in 1 .. n
    BY <1>2, <1>9
  <2> QED BY <1>3, <1>9, <1>10, <2>1
<1> QED BY <1>7, <1>11, <1>12, <1>13, Growing

-----------------------------------------------------------------------------
(* Every step keeps the invariant of the queue.                            *)

(* Nothing is queued and no phone is registered at the start. *)
LEMMA QueueStarts == Init => QueueInv
<1> SUFFICES ASSUME Init PROVE QueueInv
  OBVIOUS
<1>1. /\ alive = Logins /\ devices = [l \in Logins |-> NoDevice] /\ outbox = << >>
      /\ worker = Off /\ heard = {}
  BY DEF Init, PushInit
<1>2. << >> \in Seq(Notice \union {NoRow}) /\ DOMAIN << >> = {}
  OBVIOUS
<1>3. Shape
  BY <1>1, <1>2 DEF Shape
<1>4. OneRowPerToken
  BY <1>1 DEF OneRowPerToken
<1>5. HeardIsSent
  BY <1>1 DEF HeardIsSent
<1>6. CapHolds
  <2>1. \A u : SentTo(u) = {}
    BY <1>1, <1>2 DEF SentTo, Rows
  <2>2. Cardinality({}) = 0
    BY FS_EmptySet
  <2> QED BY <2>1, <2>2, CapIsKept, PushAssumption
<1> QED BY <1>1, <1>3, <1>4, <1>5, <1>6 DEF QueueInv, SendingHolds

(* Every step of a batch, and every passing of time, keeps the invariant of the queue. *)
LEMMA QueueSteps ==
    ASSUME QueueInv, QueueNext
    PROVE  QueueInv'
<1>1. CASE FlushFails
  BY <1>1, TakenBack DEF FlushFails
<1>2. CASE Interrupted
  BY <1>2, TakenBack DEF Interrupted
<1>3. CASE BackoffEnds
  BY <1>3, WaitedIsLess DEF BackoffEnds
<1>4. CASE Clock
  BY <1>4, WaitedIsLess DEF Clock
<1> QED BY <1>1, <1>2, <1>3, <1>4, TakeKeeps, DeliverKeeps, AnswersKeep, CommitKeeps, AgedKeeps
    DEF QueueNext, WorkerStep

(* What the worker queues by itself keeps the invariant of the queue. *)
LEMMA BooksSteps ==
    ASSUME QueueInv, BooksNext
    PROVE  QueueInv'
<1>1. alive \subseteq Logins
  BY DEF QueueInv, Shape
<1>2. ASSUME NEW b \in Books, Import(b) \/ SetPublished(b) \/ Delete(b)
      PROVE  QueueInv'
  BY <1>1, <1>2, Aside DEF Import, SetPublished, Delete, pushvars
<1>3. ASSUME NEW u \in Users, NEW S \in SUBSET Books, SetBooks(u, S)
      PROVE  QueueInv'
  BY <1>1, <1>3, Aside DEF SetBooks, pushvars
<1>4. ASSUME NEW u \in Users, NEW kind \in Kinds, NEW on \in BOOLEAN, SetPreference(u, kind, on)
      PROVE  QueueInv'
  BY <1>1, <1>4, Aside DEF SetPreference
<1>5. CASE Seed
  BY <1>1, <1>5, Aside DEF Seed, pushvars
<1>6. ASSUME NEW u \in Users, Digest(u)
      PROVE  QueueInv'
  <2>1. "new_books" \in Kinds
    BY DEF Kinds
  <2>2. outbox' = Append(outbox, NewRow(u, "new_books")) /\ UNCHANGED <<devices, worker, heard, alive>>
    BY <1>6 DEF Digest
  <2> QED BY <2>1, <2>2, OneMore
<1>7. CASE DayBreaks
  BY <1>1, <1>7, Aside DEF DayBreaks, pushvars
<1> QED BY <1>2, <1>3, <1>4, <1>5, <1>6, <1>7, ScanKeeps DEF BooksNext

(* Every step of the push service keeps the invariant of the queue. *)
LEMMA QueueIsKept == QueueInv /\ [Next]_vars => QueueInv'
<1> SUFFICES ASSUME QueueInv, [Next]_vars PROVE QueueInv'
  OBVIOUS
<1>1. ASSUME NEW u \in Users, Enqueue(u, "chat_answer")
      PROVE  QueueInv'
  <2>1. "chat_answer" \in Kinds
    BY DEF Kinds
  <2>2. outbox' = Append(outbox, NewRow(u, "chat_answer")) /\ UNCHANGED <<devices, worker, heard, alive>>
    BY <1>1 DEF Enqueue
  <2> QED BY <2>1, <2>2, OneMore
<1>2. CASE UNCHANGED vars
  <2>1. alive' \subseteq Logins
    BY <1>2 DEF vars, pushvars, QueueInv, Shape
  <2> QED BY <1>2, <2>1, Aside DEF vars, pushvars
<1> QED BY <1>1, <1>2, DevicesKeep, QueueSteps, BooksSteps, CleanupKeeps DEF Next, Tidy

-----------------------------------------------------------------------------
(* The digests.                                                            *)

(* No book was told to anybody at the start. *)
LEMMA DigestStarts == Init => DigestInv
<1> SUFFICES ASSUME Init PROVE DigestInv
  OBVIOUS
<1>1. /\ version = [b \in Books |-> IF b \in Library THEN 1 ELSE 0]
      /\ known = [b \in Books |-> 0] /\ firstSeen = [b \in Books |-> 0] /\ seeded = FALSE
      /\ digest = [u \in Users |-> [updated |-> 0, lastSent |-> 0]] /\ clock = 0
      /\ told = [u \in Users |-> [b \in Books |-> 0]]
      /\ published = Library /\ atFirst = {}
  BY DEF Init
<1>2. \A u \in Users : digest[u].updated = 0 /\ digest[u].lastSent = 0
  BY <1>1
<1>3. digest \in [Users -> [updated : Nat, lastSent : Nat]] /\ told \in [Users -> [Books -> Nat]]
  BY <1>1
<1>4. \A u \in Users, b \in Books : told[u][b] = 0
  BY <1>1
<1>5. DigestsHold
  BY <1>1, <1>2, <1>4 DEF DigestsHold, DigestsTellOnce, DigestsMissNothing
<1>6. version \in [Books -> Nat] /\ known \in [Books -> Nat] /\ firstSeen \in [Books -> Nat]
      /\ \A b \in Books : known[b] = 0 /\ firstSeen[b] = 0 /\ (b \in Library => version[b] = 1)
  BY <1>1
<1>7. \A b \in published : b \in Books /\ version[b] > 0
  BY <1>1, <1>6, BooksAssumption
<1>8. clock \in Nat /\ seeded \in BOOLEAN /\ clock = 0
  BY <1>1
<1> QED BY <1>1, <1>2, <1>3, <1>4, <1>5, <1>6, <1>7, <1>8 DEF DigestInv

(* The digests depend on nothing else. *)
LEMMA DigestAside ==
    ASSUME DigestInv, UNCHANGED <<version, published, known, firstSeen, seeded, digest, clock, told,
                                atFirst, passed>>
    PROVE  DigestInv'
BY DEF DigestInv, DigestsHold, DigestsTellOnce, DigestsMissNothing

(* An import publishes a book or changes its content, the panel hides or shows one; it is
   announced by the next scan (import_books.py, book_edit_save). *)
LEMMA ShelfTells ==
    ASSUME DigestInv, NEW b \in Books, Import(b) \/ SetPublished(b) \/ Delete(b)
    PROVE  DigestInv'
<1>1. version \in [Books -> Nat] /\ UNCHANGED <<known, firstSeen, seeded, digest, clock, told, atFirst, passed>>
  BY DEF DigestInv, Import, SetPublished, Delete
<1>2. version' \in [Books -> Nat] /\ \A c \in published' : c \in Books /\ version'[c] > 0
  <2>1. CASE Import(b)
    BY <1>1, <2>1 DEF DigestInv, Import
  <2>2. CASE SetPublished(b)
    BY <1>1, <2>2 DEF DigestInv, SetPublished
  <2>3. CASE Delete(b)
    BY <1>1, <2>3 DEF DigestInv, Delete
  <2> QED BY <2>1, <2>2, <2>3
<1> QED BY <1>1, <1>2 DEF DigestInv, DigestsHold, DigestsTellOnce, DigestsMissNothing

(* The first scan records the library as older than every digest (scan_books, the book 0). *)
LEMMA SeedTells ==
    ASSUME DigestInv, Seed
    PROVE  DigestInv'
<1>1. /\ ~seeded /\ seeded' = TRUE /\ atFirst' = published
      /\ known' = [b \in Books |-> IF b \in published THEN version[b] ELSE 0]
      /\ UNCHANGED <<version, published, firstSeen, digest, clock, told, passed>>
  BY DEF Seed
<1>2. version \in [Books -> Nat] /\ known \in [Books -> Nat] /\ firstSeen \in [Books -> Nat]
      /\ told \in [Users -> [Books -> Nat]]
  BY DEF DigestInv
<1>3. \A c \in Books : ~(known[c] > 0) /\ ~(firstSeen[c] > 0) /\ firstSeen[c] = 0
  BY <1>1, <1>2 DEF DigestInv
<1>4. \A u \in Users, c \in Books : ~(told[u][c] > 0) /\ told[u][c] = 0
  BY <1>2, <1>3 DEF DigestInv
<1>5. known' \in [Books -> Nat] /\ \A c \in atFirst' : c \in Books /\ firstSeen[c] = 0 /\ known'[c] > 0
  BY <1>1, <1>2, <1>3 DEF DigestInv
<1>6. DigestsTellOnce'
  BY <1>1, <1>4 DEF DigestsTellOnce
<1>7. DigestsMissNothing'
  BY <1>1 DEF DigestInv, DigestsHold, DigestsMissNothing
<1> QED BY <1>1, <1>2, <1>3, <1>4, <1>5, <1>6, <1>7 DEF DigestInv, DigestsHold

(* cleanup forgets the books that are gone, and what was told of them. *)
LEMMA TidyTells ==
    ASSUME DigestInv, Tidy
    PROVE  DigestInv'
<1>1. /\ known' = [b \in Books |-> IF b \in Gone THEN 0 ELSE known[b]]
      /\ firstSeen' = [b \in Books |-> IF b \in Gone THEN 0 ELSE firstSeen[b]]
      /\ told' = [u \in Users |-> [b \in Books |-> IF b \in Gone THEN 0 ELSE told[u][b]]]
      /\ atFirst' = atFirst \ Gone /\ passed' = passed \ (Users \X Gone)
      /\ UNCHANGED <<version, published, seeded, digest, clock>>
  BY DEF Tidy
<1>2. /\ version \in [Books -> Nat] /\ known \in [Books -> Nat] /\ firstSeen \in [Books -> Nat]
      /\ clock \in Nat /\ digest \in [Users -> [updated : Nat, lastSent : Nat]]
      /\ told \in [Users -> [Books -> Nat]]
  BY DEF DigestInv
<1>3. known' \in [Books -> Nat] /\ firstSeen' \in [Books -> Nat] /\ told' \in [Users -> [Books -> Nat]]
  BY <1>1, <1>2
<1>4. \A b \in Books : IF b \in Gone THEN known'[b] = 0 /\ firstSeen'[b] = 0
                                      ELSE known'[b] = known[b] /\ firstSeen'[b] = firstSeen[b]
  BY <1>1, <1>2
<1>5. \A u \in Users, b \in Books : told'[u][b] = IF b \in Gone THEN 0 ELSE told[u][b]
  BY <1>1, <1>2
<1>6. \A b \in Books : firstSeen'[b] <= clock /\ (firstSeen'[b] > 0 => known'[b] > 0) /\ (known'[b] > 0 => seeded)
  BY <1>2, <1>4 DEF DigestInv
<1>7. \A b \in atFirst' : b \in Books /\ firstSeen'[b] = 0 /\ known'[b] > 0
  BY <1>1, <1>4 DEF DigestInv
<1>8. \A u \in Users, b \in Books : told'[u][b] > 0 =>
            known'[b] > 0 /\ 0 < firstSeen'[b] /\ firstSeen'[b] <= digest[u].lastSent
  BY <1>4, <1>5 DEF DigestInv
<1>9. DigestsTellOnce'
  <2> SUFFICES ASSUME NEW u \in Users, NEW b \in Books
               PROVE  told'[u][b] <= IF b \in atFirst' THEN 0 ELSE 1
    BY DEF DigestsTellOnce
  <2>1. told[u][b] <= IF b \in atFirst THEN 0 ELSE 1
    BY DEF DigestInv, DigestsHold, DigestsTellOnce
  <2> QED BY <1>1, <1>5, <2>1
<1>10. DigestsMissNothing'
  <2> SUFFICES ASSUME NEW u \in Users, NEW b \in Books, digest[u].updated < firstSeen'[b],
                      firstSeen'[b] <= digest[u].lastSent
               PROVE  told'[u][b] = 1 \/ <<u, b>> \in passed'
    BY <1>1 DEF DigestsMissNothing
  <2>1. b \notin Gone
    BY <1>2, <1>4
  <2>2. told[u][b] = 1 \/ <<u, b>> \in passed
    BY <1>4, <2>1 DEF DigestInv, DigestsHold, DigestsMissNothing
  <2> QED BY <1>1, <1>5, <2>1, <2>2
<1> QED BY <1>1, <1>2, <1>3, <1>6, <1>7, <1>8, <1>9, <1>10 DEF DigestInv, DigestsHold

(* Switching the digest on or off moves its beginning, past every book seen by then
   (set_preferences). *)
LEMMA PreferenceTells ==
    ASSUME DigestInv, NEW u \in Users, NEW kind \in Kinds, NEW on \in BOOLEAN, SetPreference(u, kind, on)
    PROVE  DigestInv'
<1>1. UNCHANGED <<version, published, known, firstSeen, seeded, told, atFirst, passed>>
  BY DEF SetPreference
<1>2. CASE UNCHANGED <<clock, digest>>
  BY <1>1, <1>2, DigestAside
<1>3. CASE clock' = clock + 1 /\ digest' = [digest EXCEPT ![u].updated = clock']
  <2>1. digest \in [Users -> [updated : Nat, lastSent : Nat]] /\ clock \in Nat
        /\ firstSeen \in [Books -> Nat]
    BY DEF DigestInv
  <2>2. clock' \in Nat /\ clock < clock'
    BY <1>3, <2>1
  <2>3. /\ digest' \in [Users -> [updated : Nat, lastSent : Nat]]
        /\ digest'[u].updated = clock'
        /\ \A w \in Users : /\ digest'[w].lastSent = digest[w].lastSent
                            /\ digest'[w].updated \in {digest[w].updated, clock'}
                            /\ w # u => digest'[w].updated = digest[w].updated
    BY <1>3, <2>1, <2>2
  <2>4. \A b \in Books : firstSeen[b] <= clock' /\ ~(clock' < firstSeen[b])
    BY <2>1, <2>2 DEF DigestInv
  <2>5. \A w \in Users : digest'[w].updated <= clock' /\ digest'[w].lastSent <= clock'
    BY <2>1, <2>2, <2>3 DEF DigestInv
  <2>6. DigestsTellOnce'
    BY <1>1 DEF DigestInv, DigestsHold, DigestsTellOnce
  <2>7. DigestsMissNothing'
    <3> SUFFICES ASSUME NEW w \in Users, NEW b \in Books, digest'[w].updated < firstSeen[b],
                        firstSeen[b] <= digest[w].lastSent
                 PROVE  told[w][b] = 1 \/ <<w, b>> \in passed
      BY <1>1, <2>3 DEF DigestsMissNothing
    <3>1. w # u
      BY <2>3, <2>4
    <3> QED BY <2>3, <3>1 DEF DigestInv, DigestsHold, DigestsMissNothing
  <2> QED BY <1>1, <2>2, <2>3, <2>4, <2>5, <2>6, <2>7 DEF DigestInv, DigestsHold
<1> QED BY <1>2, <1>3 DEF SetPreference

(* A book that a scan finds new was told to nobody, and is newer than every digest
   (first_seen_at). *)
LEMMA ScanTells ==
    ASSUME DigestInv, Scan
    PROVE  DigestInv'
<1>1. /\ clock' = clock + 1 /\ seeded /\ seeded' = seeded
      /\ known' = [b \in Books |-> IF b \in New \union Updated THEN version[b] ELSE known[b]]
      /\ firstSeen' = [b \in Books |-> IF b \in New THEN clock' ELSE firstSeen[b]]
      /\ UNCHANGED <<version, published, digest, told, atFirst, passed>>
  BY DEF Scan
<1>2. /\ version \in [Books -> Nat] /\ known \in [Books -> Nat] /\ firstSeen \in [Books -> Nat]
      /\ clock \in Nat /\ digest \in [Users -> [updated : Nat, lastSent : Nat]]
      /\ told \in [Users -> [Books -> Nat]]
  BY DEF DigestInv
<1>3. clock' \in Nat /\ clock < clock'
  BY <1>1, <1>2
<1>4. known' \in [Books -> Nat] /\ firstSeen' \in [Books -> Nat]
  BY <1>1, <1>2, <1>3
<1>5. \A b \in Books : /\ known[b] > 0 => known'[b] > 0
                       /\ b \in New => known[b] = 0 /\ known'[b] > 0 /\ firstSeen'[b] = clock'
                       /\ b \notin New => firstSeen'[b] = firstSeen[b]
  BY <1>1, <1>2 DEF DigestInv, New, Updated
<1>6. \A b \in atFirst : b \in Books /\ b \notin New
  BY <1>2 DEF DigestInv, New
<1>7. \A u \in Users : digest[u].updated < clock' /\ digest[u].lastSent < clock'
                       /\ digest[u].updated <= clock' /\ digest[u].lastSent <= clock'
  BY <1>2, <1>3 DEF DigestInv
<1>8. \A b \in atFirst : b \in Books /\ firstSeen'[b] = 0 /\ known'[b] > 0
  BY <1>2, <1>5, <1>6 DEF DigestInv
<1>9. \A b \in Books : firstSeen'[b] <= clock' /\ (firstSeen'[b] > 0 => known'[b] > 0)
  BY <1>2, <1>3, <1>5 DEF DigestInv
<1>10. \A u \in Users, b \in Books : told[u][b] > 0 =>
            known'[b] > 0 /\ 0 < firstSeen'[b] /\ firstSeen'[b] <= digest[u].lastSent
  <2> TAKE u \in Users, b \in Books
  <2> HAVE told[u][b] > 0
  <2>1. known[b] > 0 /\ 0 < firstSeen[b] /\ firstSeen[b] <= digest[u].lastSent
    BY DEF DigestInv
  <2>2. b \notin New
    BY <1>2, <1>5, <2>1
  <2> QED BY <1>5, <2>1, <2>2
<1>11. DigestsTellOnce'
  BY <1>1 DEF DigestInv, DigestsHold, DigestsTellOnce
<1>12. DigestsMissNothing'
  <2> SUFFICES ASSUME NEW u \in Users, NEW b \in Books, digest[u].updated < firstSeen'[b],
                      firstSeen'[b] <= digest[u].lastSent
               PROVE  told[u][b] = 1 \/ <<u, b>> \in passed
    BY <1>1 DEF DigestsMissNothing
  <2>1. b \notin New
    BY <1>2, <1>3, <1>5, <1>7
  <2> QED BY <1>5, <2>1 DEF DigestInv, DigestsHold, DigestsMissNothing
<1> QED BY <1>1, <1>2, <1>3, <1>4, <1>5, <1>7, <1>8, <1>9, <1>10, <1>11, <1>12 DEF DigestInv, DigestsHold

(* The later of two times (send_digests, since). *)
LEMMA LaterOfTwo ==
    ASSUME NEW a \in Nat, NEW b \in Nat
    PROVE  Max({a, b}) \in Nat /\ a <= Max({a, b}) /\ b <= Max({a, b}) /\ Max({a, b}) \in {a, b}
<1>1. \E x \in {a, b} : \A y \in {a, b} : x >= y
  OBVIOUS
<1>2. Max({a, b}) \in {a, b} /\ \A y \in {a, b} : Max({a, b}) >= y
  BY <1>1 DEF Max
<1> QED BY <1>2

(* A digest counts what is newer than the last one and than the preference: never a book
   it has told, and every one it has not. *)
LEMMA DigestTells ==
    ASSUME DigestInv, NEW u \in Users, Digest(u)
    PROVE  DigestInv'
<1>1. /\ clock' = clock + 1 /\ digest' = [digest EXCEPT ![u].lastSent = clock']
      /\ told' = [told EXCEPT ![u] = [b \in Books |-> IF b \in Unheard(u) THEN told[u][b] + 1 ELSE told[u][b]]]
      /\ passed' = passed \union ({u} \X (Recent(u) \ published))
      /\ UNCHANGED <<version, published, known, firstSeen, seeded, atFirst>>
  BY DEF Digest
<1>2. /\ version \in [Books -> Nat] /\ known \in [Books -> Nat] /\ firstSeen \in [Books -> Nat]
      /\ clock \in Nat /\ digest \in [Users -> [updated : Nat, lastSent : Nat]]
      /\ told \in [Users -> [Books -> Nat]]
  BY DEF DigestInv
<1>3. clock' \in Nat /\ clock < clock'
  BY <1>1, <1>2
<1>4. /\ digest' \in [Users -> [updated : Nat, lastSent : Nat]]
      /\ digest'[u].lastSent = clock' /\ digest'[u].updated = digest[u].updated
      /\ \A w \in Users \ {u} : digest'[w] = digest[w]
  BY <1>1, <1>2, <1>3
<1>5. /\ told' \in [Users -> [Books -> Nat]]
      /\ \A b \in Books : told'[u][b] = IF b \in Unheard(u) THEN told[u][b] + 1 ELSE told[u][b]
      /\ \A w \in Users \ {u} : told'[w] = told[w]
  <2> DEFINE row == [b \in Books |-> IF b \in Unheard(u) THEN told[u][b] + 1 ELSE told[u][b]]
  <2>1. row \in [Books -> Nat] /\ \A b \in Books : row[b] = IF b \in Unheard(u) THEN told[u][b] + 1 ELSE told[u][b]
    BY <1>2
  <2>2. told' = [told EXCEPT ![u] = row]
    BY <1>1
  <2> HIDE DEF row
  <2> QED BY <1>2, <2>1, <2>2
<1>6. digest[u].updated \in Nat /\ digest[u].lastSent \in Nat
  BY <1>2
<1>7. Since(u) \in Nat /\ digest[u].lastSent <= Since(u) /\ digest[u].updated <= Since(u)
      /\ Since(u) \in {digest[u].lastSent, digest[u].updated}
  BY <1>6, LaterOfTwo DEF Since
<1>8. \A b \in Unheard(u) : b \in Books /\ known[b] # 0 /\ firstSeen[b] > Since(u)
  BY DEF Unheard, Recent
<1>9. \A b \in Unheard(u) : told[u][b] = 0 /\ b \notin atFirst
  <2> TAKE b \in Unheard(u)
  <2>1. b \in Books /\ firstSeen[b] > Since(u) /\ firstSeen[b] \in Nat /\ told[u][b] \in Nat
    BY <1>2, <1>8
  <2>2. ~(firstSeen[b] <= digest[u].lastSent) /\ firstSeen[b] # 0
    BY <1>6, <1>7, <2>1
  <2>3. ~(told[u][b] > 0)
    BY <2>1, <2>2 DEF DigestInv
  <2> QED BY <2>1, <2>2, <2>3 DEF DigestInv
<1>10. \A b \in Books : firstSeen[b] <= clock'
  BY <1>2, <1>3 DEF DigestInv
<1>11. \A w \in Users : digest'[w].updated <= clock' /\ digest'[w].lastSent <= clock'
  <2> TAKE w \in Users
  <2>1. digest[w].updated \in Nat /\ digest[w].lastSent \in Nat
    BY <1>2
  <2>2. digest[w].updated <= clock' /\ digest[w].lastSent <= clock'
    BY <1>2, <1>3, <2>1 DEF DigestInv
  <2>3. digest'[w].updated = digest[w].updated /\ digest'[w].lastSent \in {digest[w].lastSent, clock'}
    BY <1>4
  <2> QED BY <1>3, <2>2, <2>3
<1>12. \A w \in Users, b \in Books : told'[w][b] > 0 =>
            known[b] > 0 /\ 0 < firstSeen[b] /\ firstSeen[b] <= digest'[w].lastSent
  <2> TAKE w \in Users, b \in Books
  <2> HAVE told'[w][b] > 0
  <2>1. CASE w # u
    BY <1>4, <1>5, <2>1 DEF DigestInv
  <2>2. CASE w = u /\ b \in Unheard(u)
    BY <1>2, <1>4, <1>7, <1>8, <1>10, <2>2
  <2>3. CASE w = u /\ b \notin Unheard(u)
    BY <1>4, <1>5, <1>10, <2>3 DEF DigestInv
  <2> QED BY <2>1, <2>2, <2>3
<1>13. DigestsTellOnce'
  <2> SUFFICES ASSUME NEW w \in Users, NEW b \in Books
               PROVE  told'[w][b] <= IF b \in atFirst THEN 0 ELSE 1
    BY <1>1 DEF DigestsTellOnce
  <2>1. told[w][b] <= IF b \in atFirst THEN 0 ELSE 1
    BY DEF DigestInv, DigestsHold, DigestsTellOnce
  <2>2. CASE w = u /\ b \in Unheard(u)
    BY <1>5, <1>9, <2>2
  <2>3. CASE ~(w = u /\ b \in Unheard(u))
    BY <1>5, <2>1, <2>3
  <2> QED BY <2>2, <2>3
<1>14. DigestsMissNothing'
  <2> SUFFICES ASSUME NEW w \in Users, NEW b \in Books, digest'[w].updated < firstSeen[b],
                      firstSeen[b] <= digest'[w].lastSent
               PROVE  told'[w][b] = 1 \/ <<w, b>> \in passed'
    BY <1>1 DEF DigestsMissNothing
  <2>1. digest[w].updated < firstSeen[b] /\ firstSeen[b] \in Nat /\ digest[w].updated \in Nat
        /\ digest[w].lastSent \in Nat
    BY <1>2, <1>4
  <2>2. CASE firstSeen[b] <= digest[w].lastSent
    <3>1. told[w][b] = 1 \/ <<w, b>> \in passed
      BY <2>1, <2>2 DEF DigestInv, DigestsHold, DigestsMissNothing
    <3>2. CASE <<w, b>> \in passed
      BY <1>1, <3>2
    <3>3. CASE told[w][b] = 1
      <4>1. ~(w = u /\ b \in Unheard(u))
        BY <1>9, <3>3
      <4> QED BY <1>5, <3>3, <4>1
    <3> QED BY <3>1, <3>2, <3>3
  <2>3. CASE ~(firstSeen[b] <= digest[w].lastSent)
    <3>1. w = u
      BY <1>4, <2>3
    <3>2. firstSeen[b] > Since(u)
      BY <1>7, <2>1, <2>3, <3>1
    <3>3. known[b] > 0
      BY <1>2, <2>1 DEF DigestInv
    <3>4. b \in Recent(u)
      BY <1>2, <3>2, <3>3 DEF Recent
    <3>5. CASE b \in published
      BY <1>5, <1>9, <3>1, <3>4, <3>5 DEF Unheard
    <3>6. CASE b \notin published
      BY <1>1, <3>1, <3>4, <3>6
    <3> QED BY <3>5, <3>6
  <2> QED BY <2>2, <2>3
<1> QED BY <1>1, <1>2, <1>3, <1>4, <1>5, <1>10, <1>11, <1>12, <1>13, <1>14 DEF DigestInv, DigestsHold

(* Every step of the push service keeps the invariant of the digests. *)
LEMMA DigestsAreKept == DigestInv /\ [Next]_vars => DigestInv'
<1> SUFFICES ASSUME DigestInv, [Next]_vars PROVE DigestInv'
  OBVIOUS
<1>1. CASE UNCHANGED books
  BY <1>1, DigestAside DEF books
<1>2. CASE BooksNext
  <2>1. ASSUME NEW u \in Users, NEW S \in SUBSET Books, SetBooks(u, S)
        PROVE  DigestInv'
    BY <2>1, DigestAside DEF SetBooks
  <2>2. CASE DayBreaks
    BY <2>2, DigestAside DEF DayBreaks
  <2> QED BY <1>2, <2>1, <2>2, ShelfTells, SeedTells, PreferenceTells, ScanTells, DigestTells DEF BooksNext
<1>3. [Next]_vars => UNCHANGED books \/ BooksNext \/ Tidy
  BY DEF Next, vars
<1> QED BY <1>1, <1>2, <1>3, TidyTells

-----------------------------------------------------------------------------
(* A phone is pushed to for one login only: a token never stands in two rows
   (uq_push_devices_token, register_device). *)
THEOREM ATokenIsOneLogins == Spec => []OneLoginPerToken
<1>1. QueueInv => OneLoginPerToken
  <2> SUFFICES ASSUME QueueInv, NEW t \in Tokens PROVE Cardinality(Holders(t)) <= 1
    BY DEF OneLoginPerToken
  <2>1. \A l, m \in Holders(t) : l = m
    BY DEF QueueInv, OneRowPerToken, Holders
  <2>2. CASE Holders(t) = {}
    <3>1. Cardinality({}) = 0
      BY FS_EmptySet
    <3> QED BY <2>2, <3>1
  <2>3. CASE Holders(t) # {}
    <3>1. PICK l : Holders(t) = {l}
      BY <2>1, <2>3
    <3>2. Cardinality({l}) = 1
      BY FS_Singleton
    <3> QED BY <3>1, <3>2
  <2> QED BY <2>2, <2>3
<1> QED BY QueueStarts, QueueIsKept, <1>1, PTL DEF Spec

(* Nothing a device is known to have received is sent again, and no user gets more than
   DAILY_CAP pushes a day besides the answers, whatever batches are taken back
   (run_once, deliver, cap_count). *)
THEOREM NothingIsSentTwice == Spec => []SendingHolds
<1>1. QueueInv => SendingHolds
  BY DEF QueueInv
<1> QED BY QueueStarts, QueueIsKept, <1>1, PTL DEF Spec

(* A digest counts no book twice and none of the library there was at first, and misses
   none seen since it was switched on, but those hidden or gone when it was sent
   (scan_books, send_digests, cleanup). *)
THEOREM NewBooksAreToldOnce == Spec => []DigestsHold
<1>1. DigestInv => DigestsHold
  BY DEF DigestInv
<1> QED BY DigestStarts, DigestsAreKept, <1>1, PTL DEF Spec
=============================================================================
