----------------------------- MODULE PushOutbox -----------------------------
(***************************************************************************)
(* Push notifications (app/services/push_service.py): the devices of the   *)
(* users, the outbox, and the worker that sends a batch of it in one       *)
(* transaction.  What the worker has changed is in its record until the    *)
(* commit: rows, and devices, which it reads without a lock and writes     *)
(* back by primary key (a row that is gone by then fails the batch).       *)
(***************************************************************************)
EXTENDS Naturals, Sequences, FiniteSets, FiniteSetsExt, SequencesExt

CONSTANTS
    Users, Logins, UserOf,      \* the logins (device ids) and whose they are
    Tokens,                     \* Apple's tokens, one per installed app
    NoDevice, NoRow,
    Batch, MaxAttempts, DailyCap,
    MaxRows, MaxBreaks          \* bounds: notifications queued, batches interrupted

Kinds == {"chat_answer", "book_updates", "new_books"}

ASSUME PushAssumption ==
    /\ UserOf \in [Logins -> Users] /\ IsFiniteSet(Users)
    /\ NoDevice \notin [token : Tokens, disabled : BOOLEAN, denied : BOOLEAN]
    /\ Batch \in Nat \ {0} /\ MaxAttempts \in Nat \ {0} /\ DailyCap \in Nat
    /\ MaxRows \in Nat /\ MaxBreaks \in Nat

VARIABLES
    alive,      \* logins with a session neither revoked nor expired
    devices,    \* push_devices, by login
    enabled,    \* push_preferences: user -> the kinds switched on
    outbox,     \* push_outbox, by id
    worker,     \* run_once and its transaction
    night,      \* the quiet hours of the users' clock
    configured, \* an APNs key is set
    dead,       \* tokens Apple no longer knows
    heard,      \* <<row, token>> the server knows to have been delivered
    breaks      \* batches interrupted

queue == <<outbox, worker, heard, breaks>>
pushvars == <<alive, devices, enabled, outbox, worker, night, configured, dead, heard, breaks>>

\* permission "denied" on the phone; disabled_at; what a row waits for: nothing,
\* 08:00, or a back-off.  recent: sent in the last 24 hours.
Device == [token : Tokens, disabled : BOOLEAN, denied : BOOLEAN]
Row == [user : Users, kind : Kinds, status : {"pending", "sent", "skipped", "failed"},
        attempts : 0..MaxAttempts, waits : {"no", "morning", "backoff"}, recent : BOOLEAN]
NewRow(u, kind) ==
    [user |-> u, kind |-> kind, status |-> "pending", attempts |-> 0, waits |-> "no", recent |-> FALSE]
Off == [at |-> "off"]

PushInit ==
    /\ alive = Logins
    /\ devices = [l \in Logins |-> NoDevice]
    /\ enabled = [u \in Users |-> {"chat_answer", "book_updates"}]
    /\ outbox = << >>
    /\ worker = Off
    /\ night = FALSE /\ configured \in BOOLEAN
    /\ dead = {} /\ heard = {} /\ breaks = 0

-----------------------------------------------------------------------------
\* Devices and preferences.

\* The device rows the worker has written wait for its commit.
Locked == IF worker = Off THEN {} ELSE worker.flushed
\* Rows deleted while the worker holds them in memory, which will fail its batch.
Held == IF worker = Off THEN {} ELSE {d[1] : d \in worker.to} \union worker.oks \union worker.deads
WorkerLoses(gone) ==
    IF gone \intersect Held = {} THEN UNCHANGED worker
    ELSE breaks < MaxBreaks /\ worker' = [worker EXCEPT !.lost = @ \union (gone \intersect Held)]

Holders(t) == {l \in Logins : devices[l] # NoDevice /\ devices[l].token = t}

\* Mutant: the token stays with its other logins.
RegisterKeepsOthers(l, t, denied) ==
    /\ l \in alive /\ t \notin dead /\ l \notin Locked
    /\ devices' = [devices EXCEPT ![l] = [token |-> t, disabled |-> FALSE, denied |-> denied]]
    /\ devices' # devices
    /\ UNCHANGED <<alive, enabled, outbox, worker, night, configured, dead, heard, breaks>>

\* register_device: the token leaves every other login, then the row is
\* inserted or updated.
RegisterDevice(l, t, denied) ==
    /\ l \in alive /\ t \notin dead
    /\ ({l} \union Holders(t)) \intersect Locked = {}
    /\ devices' = [k \in Logins |->
            IF k = l THEN [token |-> t, disabled |-> FALSE, denied |-> denied]
            ELSE IF k \in Holders(t) THEN NoDevice ELSE devices[k]]
    /\ devices' # devices
    /\ WorkerLoses(Holders(t) \ {l})
    /\ UNCHANGED <<alive, enabled, outbox, night, configured, dead, heard, breaks>>

\* remove_device, alone or with a sign-out.
RemoveDevice(l, signOut) ==
    /\ l \in alive /\ l \notin Locked
    /\ signOut \/ devices[l] # NoDevice
    /\ devices' = [devices EXCEPT ![l] = NoDevice]
    /\ alive' = IF signOut THEN alive \ {l} ELSE alive
    /\ WorkerLoses({l})
    /\ UNCHANGED <<enabled, outbox, night, configured, dead, heard, breaks>>

\* A login that ends by itself keeps its device row.
EndLogin(l) ==
    /\ l \in alive
    /\ alive' = alive \ {l}
    /\ UNCHANGED <<devices, enabled, outbox, worker, night, configured, dead, heard, breaks>>

\* The app is removed from the phone.
Uninstall(t) ==
    /\ t \notin dead
    /\ dead' = dead \union {t}
    /\ UNCHANGED <<alive, devices, enabled, outbox, worker, night, configured, heard, breaks>>

-----------------------------------------------------------------------------
\* The queue.

\* _eligible; `off` are the devices a transaction has disabled itself.
Eligible(u, off) ==
    {l \in alive \ off : UserOf[l] = u /\ devices[l] # NoDevice
                         /\ ~devices[l].disabled /\ ~devices[l].denied}

\* enqueue: nothing for a user without a device or with the kind switched off.
Queued(u, kind) == Eligible(u, {}) # {} /\ kind \in enabled[u]

Rows == {i \in DOMAIN outbox : outbox[i] # NoRow}
Due == {i \in Rows : outbox[i].status = "pending" /\ outbox[i].waits = "no"}
FirstOf(S, n) == {i \in S : Cardinality({j \in S : j < i}) < n}

\* run_once takes the rows that are due; without a key they are skipped.
Take ==
    /\ worker = Off /\ Due # {}
    /\ IF configured
       THEN /\ worker' = [at |-> "row", left |-> FirstOf(Due, Batch), row |-> 0, to |-> {},
                          rows |-> << >>, oks |-> {}, deads |-> {}, flushed |-> {}, off |-> {},
                          lost |-> {}, told |-> {}]
            /\ UNCHANGED outbox
       ELSE /\ outbox' = [i \in DOMAIN outbox |-> IF i \in FirstOf(Due, Batch)
                                                 THEN [outbox[i] EXCEPT !.status = "skipped"] ELSE outbox[i]]
            /\ UNCHANGED worker
    /\ UNCHANGED <<alive, devices, enabled, night, configured, dead, heard, breaks>>

\* The outbox as the worker's transaction sees it.
TxRow(i) == IF i \in DOMAIN worker.rows THEN worker.rows[i] ELSE outbox[i]
Written(i, row) == [k \in DOMAIN worker.rows \union {i} |-> IF k = i THEN row ELSE worker.rows[k]]

Dirty == worker.oks \union worker.deads
\* The unit of work is flushed before every query; a device row that is gone
\* raises StaleDataError.
CanFlush == Dirty \intersect worker.lost = {}
Flushed == [worker EXCEPT !.flushed = @ \union Dirty, !.off = @ \union worker.deads, !.oks = {}, !.deads = {}, !.lost = {}]

\* Mutant: only rows committed earlier count.
CapCountCommitted(u) ==
    Cardinality({i \in Rows : outbox[i].user = u /\ outbox[i].kind # "chat_answer"
                              /\ outbox[i].status = "sent" /\ outbox[i].recent})

\* No more than DAILY_CAP pushes a day besides the answers, those sent earlier
\* in this batch included.
CapCount(u) ==
    Cardinality({i \in Rows : LET r == TxRow(i) IN
                    r.user = u /\ r.kind # "chat_answer" /\ r.status = "sent" /\ r.recent})
HeldFor(row, to) ==
    IF to = {} \/ row.kind = "chat_answer" THEN "no"
    ELSE IF night THEN "morning"
    ELSE IF CapCount(row.user) >= DailyCap THEN "backoff" ELSE "no"

\* deliver, up to the sends: the devices are read, the row sent or held back.
Deliver ==
    /\ worker # Off /\ worker.at = "row" /\ worker.left # {} /\ CanFlush
    /\ LET i == Min(worker.left)
           to == Eligible(outbox[i].user, worker.off \union worker.deads)
           held == HeldFor(outbox[i], to) IN
       worker' = [Flushed EXCEPT
            !.left = @ \ {i},
            !.at = IF held = "no" THEN "sending" ELSE "row",
            !.row = IF held = "no" THEN i ELSE 0,
            !.to = IF held = "no" THEN {<<l, devices[l].token>> : l \in to} ELSE {},
            !.rows = IF held = "no" THEN @ ELSE Written(i, [outbox[i] EXCEPT !.waits = held])]
    /\ UNCHANGED <<alive, devices, enabled, outbox, night, configured, dead, heard, breaks>>

\* What APNs.send makes of Apple's answer; a network error, after which the
\* notification may have arrived, is a retry.
Outcomes == {"ok", "dead", "retry", "failed"}
Possible(t, o) == (t \in dead) => o # "ok" /\ (o = "dead" => t \in dead)

\* Mutants: one try too many; a retry comes first; tries are not counted.
SentOnceMore(row, outcomes) ==
    LET tried == [row EXCEPT !.attempts = @ + 1] IN
    IF "ok" \in outcomes THEN [tried EXCEPT !.status = "sent", !.recent = TRUE]
    ELSE IF "retry" \in outcomes /\ row.attempts <= MaxAttempts THEN [tried EXCEPT !.waits = "backoff"]
    ELSE [tried EXCEPT !.status = "failed"]
RetryFirst(row, outcomes) ==
    LET tried == [row EXCEPT !.attempts = @ + 1] IN
    IF "retry" \in outcomes /\ tried.attempts < MaxAttempts THEN [tried EXCEPT !.waits = "backoff"]
    ELSE [tried EXCEPT !.status = IF "ok" \in outcomes THEN "sent" ELSE "failed"]
RetriesForever(row, outcomes) ==
    IF "ok" \in outcomes THEN [row EXCEPT !.status = "sent", !.recent = TRUE]
    ELSE [row EXCEPT !.waits = "backoff"]

\* The row after its sends.
Sent(row, outcomes) ==
    LET tried == [row EXCEPT !.attempts = @ + 1] IN
    IF "ok" \in outcomes THEN [tried EXCEPT !.status = "sent", !.recent = TRUE]
    ELSE IF outcomes \subseteq {"dead"} THEN [tried EXCEPT !.status = "skipped"]
    ELSE IF "retry" \in outcomes /\ tried.attempts < MaxAttempts THEN [tried EXCEPT !.waits = "backoff"]
    ELSE [tried EXCEPT !.status = "failed"]

Answers ==
    /\ worker # Off /\ worker.at = "sending"
    /\ \E o \in [worker.to -> Outcomes] :
        /\ \A d \in worker.to : Possible(d[2], o[d])
        /\ LET res == {o[d] : d \in worker.to} IN
           worker' = [worker EXCEPT
                !.at = "row", !.row = 0, !.to = {},
                !.rows = Written(worker.row, Sent(outbox[worker.row], res)),
                !.oks = {d[1] : d \in {e \in worker.to : o[e] = "ok"}},
                !.deads = {d[1] : d \in {e \in worker.to : o[e] = "dead"}},
                !.told = @ \union {<<worker.row, d[2]>> : d \in {e \in worker.to : o[e] = "ok"}}]
    /\ UNCHANGED <<alive, devices, enabled, outbox, night, configured, dead, heard, breaks>>

\* One commit for the whole batch.
CommitBatch ==
    /\ worker # Off /\ worker.at = "row" /\ worker.left = {} /\ CanFlush
    /\ outbox' = [i \in DOMAIN outbox |-> IF outbox[i] = NoRow THEN NoRow ELSE TxRow(i)]
    /\ devices' = [l \in Logins |-> IF l \in worker.off \union worker.deads
                                    THEN [devices[l] EXCEPT !.disabled = TRUE] ELSE devices[l]]
    /\ heard' = heard \union worker.told
    /\ worker' = Off
    /\ UNCHANGED <<alive, enabled, night, configured, dead, breaks>>

\* A flush that fails rolls the batch back, whatever was sent.
FlushFails ==
    /\ worker # Off /\ worker.at = "row" /\ ~CanFlush
    /\ worker' = Off
    /\ breaks' = breaks + 1
    /\ UNCHANGED <<alive, devices, enabled, outbox, night, configured, dead, heard>>

\* The process stops, or the database fails.
Interrupted ==
    /\ worker # Off /\ breaks < MaxBreaks
    /\ breaks' = breaks + 1
    /\ worker' = Off
    /\ UNCHANGED <<alive, devices, enabled, outbox, night, configured, dead, heard>>

\* Time: a back-off ends, night falls, 08:00 comes, a day or a week goes by.
Waited(from) == [i \in DOMAIN outbox |-> IF outbox[i] # NoRow /\ outbox[i].waits = from
                                         THEN [outbox[i] EXCEPT !.waits = "no"] ELSE outbox[i]]
InBatch == IF worker = Off THEN {} ELSE worker.left \union DOMAIN worker.rows \union {worker.row}
BackoffEnds ==
    /\ worker = Off
    /\ outbox' = Waited("backoff") /\ outbox' # outbox
    /\ UNCHANGED <<alive, devices, enabled, worker, night, configured, dead, heard, breaks>>
\* (A day is long: the worker, which looks every 5 seconds, has done by nightfall
\* what was due.)
Clock ==
    /\ worker = Off /\ (night \/ Due = {})
    /\ night' = ~night
    /\ outbox' = IF night THEN Waited("morning") ELSE outbox
    /\ UNCHANGED <<alive, devices, enabled, worker, configured, dead, heard, breaks>>
Aged ==
    /\ worker = Off
    /\ \E i \in Rows : outbox[i].recent
    /\ outbox' = [i \in DOMAIN outbox |-> IF outbox[i] = NoRow THEN NoRow ELSE [outbox[i] EXCEPT !.recent = FALSE]]
    /\ UNCHANGED <<alive, devices, enabled, worker, night, configured, dead, heard, breaks>>
\* cleanup, of rows handled a week ago and devices disabled for a month (and of
\* the books that are gone: PushBooks).
Cleanup ==
    /\ worker = Off
    /\ outbox' = [i \in DOMAIN outbox |-> IF outbox[i] # NoRow /\ outbox[i].status # "pending" /\ ~outbox[i].recent
                                          THEN NoRow ELSE outbox[i]]
    /\ devices' = [l \in Logins |-> IF devices[l] # NoDevice /\ devices[l].disabled THEN NoDevice ELSE devices[l]]
    /\ UNCHANGED <<alive, enabled, worker, night, configured, dead, heard, breaks>>

WorkerStep == Take \/ Deliver \/ Answers \/ CommitBatch \/ FlushFails

\* What a caller queues: chat_answer_ready when a streamed answer is stored.
Enqueue(u, kind) ==
    /\ Len(outbox) < MaxRows
    /\ Queued(u, kind)
    /\ outbox' = Append(outbox, NewRow(u, kind))
    /\ UNCHANGED <<alive, devices, enabled, worker, night, configured, dead, heard, breaks>>

DeviceNext ==
    \/ \E l \in Logins, t \in Tokens, denied \in BOOLEAN : RegisterDevice(l, t, denied)
    \/ \E l \in Logins, signOut \in BOOLEAN : RemoveDevice(l, signOut)
    \/ \E l \in Logins : EndLogin(l)
    \/ \E t \in Tokens : Uninstall(t)
QueueNext == WorkerStep \/ Interrupted \/ BackoffEnds \/ Clock \/ Aged
=============================================================================
