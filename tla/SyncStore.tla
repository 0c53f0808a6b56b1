----------------------------- MODULE SyncStore ------------------------------
(***************************************************************************)
(* The sync store of one user (app/services/sync_service.py): devices push *)
(* batches of items in transactions and pull by cursor.                    *)
(*                                                                         *)
(* A push holds the user's advisory lock from its first statement to its   *)
(* commit or rollback; under READ COMMITTED it reads the committed rows    *)
(* and its own writes.  Sequence numbers come from a PostgreSQL sequence,  *)
(* which no rollback gives back.  Other users share only that sequence,    *)
(* and only make gaps in it.                                               *)
(*                                                                         *)
(* The apps are outside the repository.  A device is modelled by what the  *)
(* API asks of it: it keeps the records and the cursor of its last pull,   *)
(* sends an item with the seq it last pulled as baseSeq, and sends a batch *)
(* again when no answer came.                                              *)
(***************************************************************************)
EXTENDS SyncMerge, Sequences, FiniteSets

CONSTANTS Keys,        \* record identities: (kind, lower-cased key)
          KindOf,      \* key -> "note", "folder" or "mark"
          EditKeys,    \* the keys the devices edit; the others are free for copies
          EditTexts,   \* bound: what the users write
          EditTimes,   \* bound: the times of the devices' clocks, right or wrong
          PageLimit,   \* the pull's limit
          BatchMax,    \* bound: items in one push (500 in the code)
          MaxTime,     \* bound: the server's clock
          MaxSeq,      \* bound: no push begins once sync_seq has reached it
          Slack        \* FUTURE_SLACK

NoKey == "none"        \* not the copy of any note
NoDevice == 0          \* nobody holds the lock

ASSUME KeysAreFinite == IsFiniteSet(Keys) /\ NoKey \notin Keys
ASSUME KindsOfKeys == KindOf \in [Keys -> Kinds] /\ EditKeys \subseteq Keys
ASSUME EditsAreVersions == EditTexts \subseteq Texts /\ EditTimes \subseteq Nat
ASSUME BoundsAreNumbers ==
    PageLimit \in Nat \ {0} /\ BatchMax \in Nat /\ MaxTime \in Nat /\ MaxSeq \in Nat /\ Slack \in Nat
ASSUME NoDeviceIsZero == NoDevice \notin Devices

VARIABLES
    records,   \* key -> the committed row
    seq,       \* the last value of sync_seq
    clock,     \* the server's clock
    lock,      \* which device's push holds the advisory lock
    left,      \* device -> items of its push not merged yet
    writes,    \* device -> key -> row written by its uncommitted push
    results,   \* device -> results for notes of its push so far
    outbox,    \* device -> the batch it has to push
    phase,     \* device -> "idle", "pushing", "answered", "pulling"
    cursor,    \* device -> cursor of its last pull
    known,     \* device -> key -> row as last pulled
    answered   \* results for notes of every committed push (history)

server == <<records, seq, clock, lock, left, writes, results, answered>>
device == <<outbox, phase, cursor, known>>
vars == <<server, device>>

-----------------------------------------------------------------------------
(* Rows.  A row that does not exist has seq 0. *)
Row == [seq : Nat, version : Version \cup {NoVersion}, copyOf : Keys \cup {NoKey}]
NoRow == [seq |-> 0, version |-> NoVersion, copyOf |-> NoKey]
NoWrites == [k \in Keys |-> NoRow]

Item == [key : Keys, text : Texts, pos : Positions \cup {NoPos}, deleted : BOOLEAN,
         updated : Nat, ordered : Nat, base : Nat]

\* One result of a push, with what was pushed and the text the row is left with.
Result == [key : Keys, status : Statuses, seq : Nat, base : Nat,
           pushed : Version, text : Texts, deleted : BOOLEAN]

TypeOK ==
    /\ records \in [Keys -> Row]
    /\ seq \in Nat
    /\ clock \in Nat
    /\ lock \in Devices \cup {NoDevice}
    /\ left \in [Devices -> Seq(Item)]
    /\ writes \in [Devices -> [Keys -> Row]]
    /\ results \in [Devices -> SUBSET Result]
    /\ outbox \in [Devices -> Seq(Item)]
    /\ phase \in [Devices -> {"idle", "pushing", "answered", "pulling"}]
    /\ cursor \in [Devices -> Nat]
    /\ known \in [Devices -> [Keys -> Row]]
    /\ answered \subseteq Result

Init ==
    /\ records = NoWrites
    /\ seq = 0
    /\ clock = 1
    /\ lock = NoDevice
    /\ left = [d \in Devices |-> <<>>]
    /\ writes = [d \in Devices |-> NoWrites]
    /\ results = [d \in Devices |-> {}]
    /\ outbox = [d \in Devices |-> <<>>]
    /\ phase = [d \in Devices |-> "idle"]
    /\ cursor = [d \in Devices |-> 0]
    /\ known = [d \in Devices |-> NoWrites]
    /\ answered = {}

-----------------------------------------------------------------------------
(* The devices (external). *)

Live(row) == row.version # NoVersion /\ ~row.version.deleted

\* A change waits in the outbox; the app pushes one item per record.
Compose(d, item) ==
    /\ phase[d] = "idle"
    /\ Len(outbox[d]) < BatchMax
    /\ \A i \in DOMAIN outbox[d] : outbox[d][i].key # item.key
    /\ outbox' = [outbox EXCEPT ![d] = Append(@, item)]
    /\ UNCHANGED <<server, phase, cursor, known>>

\* The user writes: a new text, the order as it was.
EditText(d, k, text, time) ==
    LET row == known[d][k]
    IN /\ Live(row) => row.version.text # text
       /\ Compose(d, [key |-> k, text |-> text, deleted |-> FALSE, updated |-> time,
                      pos |-> IF Live(row) THEN row.version.pos ELSE NoPos,
                      ordered |-> IF Live(row) THEN row.version.ordered ELSE NoTime,
                      base |-> row.seq])

\* The user rearranges: a new position and order time, the content as it was.
Rearrange(d, k, pos, time) ==
    LET row == known[d][k]
    IN /\ KindOf[k] \in OrderedKinds
       /\ Live(row)
       /\ pos # row.version.pos
       /\ time # NoTime
       /\ Compose(d, [key |-> k, text |-> row.version.text, deleted |-> FALSE,
                      updated |-> row.version.updated, pos |-> pos, ordered |-> time,
                      base |-> row.seq])

\* The user deletes; a deletion carries no data.
Delete(d, k, time) ==
    /\ Live(known[d][k])
    /\ Compose(d, [key |-> k, text |-> NoData, deleted |-> TRUE, updated |-> time,
                   pos |-> NoPos, ordered |-> NoTime, base |-> known[d][k].seq])

\* The answer reaches the device, which then pulls; or it is lost and the device will
\* push the batch again.
AnswerReceived(d) ==
    /\ phase[d] = "answered"
    /\ phase' = [phase EXCEPT ![d] = "pulling"]
    /\ outbox' = [outbox EXCEPT ![d] = <<>>]
    /\ UNCHANGED <<server, cursor, known>>

AnswerLost(d) ==
    /\ phase[d] = "answered"
    /\ phase' = [phase EXCEPT ![d] = "idle"]
    /\ UNCHANGED <<server, outbox, cursor, known>>

-----------------------------------------------------------------------------
(* pull: the rows after the cursor in seq order, at most PageLimit of them. *)

\* Mutant of After: the change right after the cursor is left out.
AfterTheNext(since) == {k \in Keys : records[k].seq > since + 1}

After(since) == {k \in Keys : records[k].seq > since}

\* Mutant of Page: the newest rows come first.
PageNewestFirst(since) ==
    {k \in After(since) :
        Cardinality({j \in After(since) : records[j].seq >= records[k].seq}) <= PageLimit}

Page(since) ==
    {k \in After(since) :
        Cardinality({j \in After(since) : records[j].seq <= records[k].seq}) <= PageLimit}

\* The new cursor is the seq of the page's last row, the old one when the page is empty;
\* the device stores what it got, and after a push pulls until hasMore is false.
Pull(d) ==
    LET page == Page(cursor[d])
    IN /\ phase[d] \in {"idle", "pulling"}
       /\ \E stop \in {cursor[d]} \cup {records[k].seq : k \in page} :
            /\ \A k \in page : records[k].seq <= stop
            /\ cursor' = [cursor EXCEPT ![d] = stop]
       /\ known' = [known EXCEPT ![d] = [k \in Keys |-> IF k \in page THEN records[k] ELSE @[k]]]
       /\ phase' = [phase EXCEPT ![d] = IF page = After(cursor[d]) THEN "idle" ELSE @]
       /\ UNCHANGED <<server, outbox>>

-----------------------------------------------------------------------------
(* push *)

\* Mutant of LockIsFree: a push does not wait.
NobodyWaits == TRUE

\* The first statement of a push waits for the user's advisory lock.
LockIsFree == lock = NoDevice

PushBegin(d) ==
    /\ phase[d] = "idle"
    /\ outbox[d] # <<>>
    /\ LockIsFree
    /\ seq < MaxSeq
    /\ lock' = d
    /\ left' = [left EXCEPT ![d] = outbox[d]]
    /\ phase' = [phase EXCEPT ![d] = "pushing"]
    /\ UNCHANGED <<records, seq, clock, writes, results, outbox, cursor, known, answered>>

\* What the transaction sees: its own writes over the committed rows.
Seen(d, k) == IF writes[d][k].seq # 0 THEN writes[d][k] ELSE records[k]

\* A time too far in the future of the server is set back to the server's.
Clamped(time) == IF time > clock + Slack THEN clock ELSE time

Incoming(d, item) ==
    [text |-> item.text, pos |-> item.pos, deleted |-> item.deleted,
     updated |-> Clamped(item.updated), ordered |-> Clamped(item.ordered), device |-> d]

\* An item of no acceptable time is answered rejected_time and skipped; the kinds of
\* rejection (kind, key, size, time) differ only in the status.
Rejected(item) == item.updated = NoTime

PushRejected(d) ==
    /\ phase[d] = "pushing"
    /\ left[d] # <<>>
    /\ Rejected(Head(left[d]))
    /\ left' = [left EXCEPT ![d] = Tail(@)]
    /\ UNCHANGED <<records, seq, clock, lock, writes, results, answered, device>>

\* The history keeps the results of notes, but not of an ignored push that said nothing
\* new (a batch pushed again after it was applied).
Noted(result) ==
    {r \in {result} :
        /\ KindOf[r.key] = "note"
        /\ r.status = "older_ignored" => r.pushed.text # r.text}

\* Merge the next item: its row gets a new seq, then the copy (a fresh key) gets the next.
PushItem(d) ==
    /\ phase[d] = "pushing"
    /\ left[d] # <<>>
    /\ ~Rejected(Head(left[d]))
    /\ LET item     == Head(left[d])
           row      == Seen(d, item.key)
           incoming == Incoming(d, item)
           merged   == Merge(KindOf[item.key], row.version, row.seq, incoming, item.base)
           written  == merged.write # NoVersion
           rowSeq   == IF written THEN seq + 1 ELSE seq
           after    == IF written THEN [row EXCEPT !.seq = rowSeq, !.version = merged.write] ELSE row
           own      == IF written THEN [writes[d] EXCEPT ![item.key] = after] ELSE writes[d]
           copy     == [seq |-> rowSeq + 1, copyOf |-> item.key,
                        version |-> [merged.copy EXCEPT !.updated = clock, !.ordered = NoTime,
                                                        !.device = d]]
       IN /\ IF merged.copy = NoVersion
             THEN /\ writes' = [writes EXCEPT ![d] = own]
                  /\ seq' = rowSeq
             ELSE \E c \in Keys \ EditKeys :
                  /\ KindOf[c] = "note"
                  /\ Seen(d, c).seq = 0
                  /\ writes' = [writes EXCEPT ![d] = [own EXCEPT ![c] = copy]]
                  /\ seq' = rowSeq + 1
          /\ results' = [results EXCEPT ![d] = @ \cup
                Noted([key |-> item.key, status |-> merged.status, seq |-> after.seq,
                       base |-> item.base, pushed |-> incoming,
                       text |-> after.version.text, deleted |-> after.version.deleted])]
    /\ left' = [left EXCEPT ![d] = Tail(@)]
    /\ UNCHANGED <<records, clock, lock, answered, device>>

\* Mutant of EndOfPush: the lock outlives the transaction.
EndOfPushKeepsLock(d) ==
    /\ lock' = lock
    /\ left' = [left EXCEPT ![d] = <<>>]
    /\ writes' = [writes EXCEPT ![d] = NoWrites]
    /\ results' = [results EXCEPT ![d] = {}]

\* The transaction ends: its lock is released and its session's state is gone.
EndOfPush(d) ==
    /\ lock' = NoDevice
    /\ left' = [left EXCEPT ![d] = <<>>]
    /\ writes' = [writes EXCEPT ![d] = NoWrites]
    /\ results' = [results EXCEPT ![d] = {}]

PushCommit(d) ==
    /\ phase[d] = "pushing"
    /\ left[d] = <<>>
    /\ records' = [k \in Keys |-> Seen(d, k)]
    /\ answered' = answered \cup results[d]
    /\ EndOfPush(d)
    /\ phase' = [phase EXCEPT ![d] = "answered"]
    /\ UNCHANGED <<seq, clock, outbox, cursor, known>>

\* The server or its connection fails: the transaction is rolled back, no answer is sent,
\* and the sequence numbers it took are gaps.
PushFail(d) ==
    /\ phase[d] = "pushing"
    /\ EndOfPush(d)
    /\ phase' = [phase EXCEPT ![d] = "idle"]
    /\ UNCHANGED <<records, seq, clock, outbox, cursor, known, answered>>

Tick ==
    /\ clock < MaxTime
    /\ clock' = clock + 1
    /\ UNCHANGED <<records, seq, lock, left, writes, results, answered, device>>

-----------------------------------------------------------------------------
Edits(d) ==
    \E k \in EditKeys, time \in EditTimes :
        \/ \E text \in EditTexts : EditText(d, k, text, time)
        \/ \E pos \in Positions : Rearrange(d, k, pos, time)
        \/ Delete(d, k, time)

Next ==
    \/ \E d \in Devices :
        \/ Edits(d)
        \/ AnswerReceived(d) \/ AnswerLost(d)
        \/ Pull(d)
        \/ PushBegin(d) \/ PushRejected(d) \/ PushItem(d) \/ PushCommit(d) \/ PushFail(d)
    \/ Tick

Spec == Init /\ [][Next]_vars

(* An app keeps syncing: it pulls and pushes again what was not answered
   (docs/accounts_sync_spec.md 4.3).  PostgreSQL grants the advisory lock in the order it
   was asked for, so a push that waits for it is not passed over for ever, and a push
   that is tried again and again, of whatever length, is not rolled back, nor its answer
   lost, every time.  Edits are nobody's duty. *)
Fairness ==
    \A d \in Devices :
        /\ WF_vars(Pull(d))
        /\ SF_vars(PushBegin(d))
        /\ \A n \in 1..BatchMax : SF_vars(Len(left[d]) = n /\ (PushRejected(d) \/ PushItem(d)))
        /\ SF_vars(PushCommit(d))
        /\ SF_vars(AnswerReceived(d))

FairSpec == Spec /\ Fairness

-----------------------------------------------------------------------------
(* Properties *)

Feed == INSTANCE ChangeFeed
          WITH Readers <- Devices,
               rows <- [k \in Keys |-> records[k].seq],
               held <- [d \in Devices |-> [k \in Keys |-> known[d][k].seq]]

(* The store is a change feed: committed rows appear after every row there was,
   whatever the pushes do meanwhile, and a pull delivers exactly what lies between
   the old cursor and the new one. *)
ImplementsFeed == Feed!Spec

(* A record whose seq the device's cursor has passed is a record the device holds as it
   is stored: no committed write is ever skipped by a cursor ("a pull of everything
   after my cursor is one index range"). *)
NothingMissed ==
    \A d \in Devices, k \in Keys :
        records[k].seq <= cursor[d] => known[d][k] = records[k]

(* A committed record never goes back to older content, nor an ordered one to an older
   order, across concurrent batches, retries and rollbacks. *)
NeverGoesBack ==
    [][\A k \in Keys :
          records[k].seq # 0 /\ records'[k] # records[k] =>
            LET old == records[k].version
                new == records'[k].version
            IN /\ records'[k].seq > records[k].seq
               /\ new.updated >= old.updated
               /\ KindOf[k] \in OrderedKinds => new.ordered >= old.ordered]_vars

Stored == {"applied", "applied_with_copy"}
WithCopy == {"applied_with_copy", "older_ignored_with_copy"}
KeptAsCopy(r) ==
    \E c \in Keys : records[c].copyOf = r.key /\ Content(records[c].version) = Content(r)

(* What a note said when a push was answered is still what the note or a copy says,
   unless a later push deleted the note or came from a device that had seen that text. *)
NothingLostUnseen ==
    \A r \in answered :
        KindOf[r.key] = "note" /\ ~r.deleted =>
            \/ Live(records[r.key]) /\ Content(records[r.key].version) = Content(r)
            \/ KeptAsCopy(r)
            \/ \E s \in answered :
                  s.key = r.key /\ s.seq > r.seq /\ (s.base >= r.seq \/ s.deleted)

(* When the users stop, every device ends up with every record as it is stored. *)
EveryDeviceCatchesUp == \A d \in Devices : <>[](known[d] = records)

(* What a device has to push is pushed: no push that failed, and no device that went
   away, leaves the user's lock behind.  (The bound MaxSeq ends the pushing.) *)
EditsAreDelivered ==
    \A d \in Devices : outbox[d] # <<>> ~> (outbox[d] = <<>> \/ seq >= MaxSeq)

-----------------------------------------------------------------------------
(* What the documents say of the store and the code does not keep *)

(* "an edit from a device with a stale baseSeq creates one copy"
   (docs/accounts_sync_spec.md): a note has no more copies than losing edits. *)
OneCopyPerEdit ==
    \A k \in Keys :
        Cardinality({c \in Keys : records[c].copyOf = k})
          <= Cardinality({<<r.pushed, r.base>> : r \in
                            {x \in answered : x.key = k /\ x.status \in WithCopy}})
=============================================================================
