---------------------------- MODULE ChatQuestions ----------------------------
(***************************************************************************)
(* Asking the chatbot (app/api/chat.py, services/chat_limits.py and        *)
(* services/chat_history.py): the checks that admit a question, the        *)
(* in-flight set kept in memory, the log and the turn written when it is   *)
(* answered, and what removes them: a deleted chat, the daily cleanup, a   *)
(* deleted account.  One step is one statement or transaction of the       *)
(* database, or the code run between two awaits.                           *)
(***************************************************************************)
EXTENDS Naturals, Sequences, FiniteSets

CONSTANTS
    Users,          \* the accounts
    Chats,          \* ids of conversations (a new uuid is one not used before)
    Slots,          \* requests the server works on at once
    Statuses,       \* how a question may end: a subset of CHAT_STATUSES
    Daily, PerMinute, Everyone,     \* CHAT_DAILY_LIMIT, ...; 0 is no limit
    MaxMessages, MaxChats,
    NoChat, NoRow,
    MaxLog          \* bound: questions logged

ASSUME LimitsAssumption ==
    /\ Daily \in Nat /\ PerMinute \in Nat /\ Everyone \in Nat
    /\ MaxMessages \in Nat /\ MaxChats \in Nat /\ MaxLog \in Nat
    /\ Statuses \subseteq {"ok", "no_results", "rate_limited", "error"}
ASSUME SlotsAssumption == IsFiniteSet(Slots)

VARIABLES
    users,      \* the accounts that exist
    chats,      \* chat_conversations with the log ids of their turns
    log,        \* chat_requests, by id
    inflight,   \* chat_limits._in_flight
    req,        \* the requests, by slot
    erasing     \* account -> the log rows its deletion, not yet committed, removes, or NoRow

vars == <<users, chats, log, inflight, req, erasing>>

Answered == {"ok", "no_results"}
Idle == [at |-> "idle"]

\* A row of the log.  age: 0 in the last minute, 1 earlier today, 2 before
\* today, 3 more than KEEP_DELETED_DAYS ago.
Row == [who : Users, chat : Chats, status : Statuses, text : BOOLEAN, age : 0..3]
\* A conversation; "old" is deleted more than KEEP_DELETED_DAYS ago, and
\* "purged" the removed row, remembered for the properties.
Chat == [user : Users, is : {"open", "deleted", "old", "purged"}, turns : SUBSET (1..MaxLog)]
Request ==
    [at : {"asked", "counted", "admitted", "answering"},
     user : Users, chat : Chats, new : BOOLEAN, stream : BOOLEAN, free : BOOLEAN]
    \union [at : {"answered", "logged", "stored"},
     user : Users, chat : Chats, new : BOOLEAN, stream : BOOLEAN, status : Statuses, id : 0..MaxLog]

ASSUME NamesAssumption ==
    /\ NoRow \notin Row
    /\ NoChat \notin [user : Users, is : {"open", "deleted", "old", "purged"}, turns : SUBSET Nat]

Init ==
    /\ users = Users
    /\ chats = [c \in Chats |-> NoChat]
    /\ log = << >>
    /\ inflight = {}
    /\ req = [s \in Slots |-> Idle]
    /\ erasing = [u \in Users |-> NoRow]

-----------------------------------------------------------------------------
\* What the checks read.

Rows == {i \in DOMAIN log : log[i] # NoRow}
Live(c) == chats[c] # NoChat /\ chats[c].is # "purged"
Visible(c, u) == chats[c] # NoChat /\ chats[c].is = "open" /\ chats[c].user = u
Busy(s) == req[s].at # "idle"
Fresh(c) ==
    /\ chats[c] = NoChat
    /\ \A s \in Slots : Busy(s) => req[s].chat # c
    /\ \A i \in Rows : log[i].chat # c

DayCount(u) == Cardinality({i \in Rows : log[i].who = u /\ log[i].status \in Answered /\ log[i].age <= 1})
MinuteCount(u) == Cardinality({i \in Rows : log[i].who = u /\ log[i].age = 0})
TotalCount == Cardinality({i \in Rows : log[i].age <= 1})

\* Mutant: the limit itself is let through.
AtOrBelow(count, limit) == limit = 0 \/ count <= limit

Below(count, limit) == limit = 0 \/ count < limit

\* decide, without the in-flight test.
CountsAllow(u) ==
    /\ Below(TotalCount, Everyone)
    /\ Below(DayCount(u), Daily)
    /\ Below(MinuteCount(u), PerMinute)

HasRoom(u, c) ==
    IF chats[c] = NoChat
    THEN Cardinality({d \in Chats : Visible(d, u)}) < MaxChats
    ELSE Visible(c, u) /\ 2 * Cardinality(chats[c].turns) < MaxMessages

-----------------------------------------------------------------------------
\* A question, from admit to its end.

UnderWay == {s \in Slots : Busy(s)}

\* The caller is checked, then the room in the chat.
Ask(s, u, c, stream) ==
    /\ ~Busy(s) /\ Len(log) + Cardinality(UnderWay) < MaxLog
    /\ u \in users
    /\ Fresh(c) \/ Visible(c, u)
    /\ HasRoom(u, c)
    /\ req' = [req EXCEPT ![s] = [at |-> "asked", user |-> u, chat |-> c, new |-> chats[c] = NoChat,
                                  stream |-> stream, free |-> FALSE]]
    /\ UNCHANGED <<users, chats, log, inflight, erasing>>

\* counts is awaited ...
Count(s) ==
    /\ req[s].at = "asked"
    /\ req' = [req EXCEPT ![s].at = "counted", ![s].free = CountsAllow(req[s].user)]
    /\ UNCHANGED <<users, chats, log, inflight, erasing>>

\* ... and the in-flight set looked at afterwards.  A question in a new chat
\* has no earlier turns to wait for: it is entered in the same breath.
Admits(s) == req[s].free /\ req[s].user \notin inflight

Refuse(s) ==
    /\ req[s].at = "counted" /\ ~Admits(s)
    /\ req' = [req EXCEPT ![s] = Idle]
    /\ UNCHANGED <<users, chats, log, inflight, erasing>>

AdmitNew(s) ==
    /\ req[s].at = "counted" /\ Admits(s) /\ req[s].new
    /\ inflight' = inflight \union {req[s].user}
    /\ req' = [req EXCEPT ![s].at = "answering"]
    /\ UNCHANGED <<users, chats, log, erasing>>

AdmitFollowUp(s) ==
    /\ req[s].at = "counted" /\ Admits(s) /\ ~req[s].new
    /\ req' = [req EXCEPT ![s].at = "admitted"]
    /\ UNCHANGED <<users, chats, log, inflight, erasing>>

\* earlier_turns was awaited; the question is entered now.
BeginFollowUp(s) ==
    /\ req[s].at = "admitted"
    /\ inflight' = inflight \union {req[s].user}
    /\ req' = [req EXCEPT ![s].at = "answering"]
    /\ UNCHANGED <<users, chats, log, erasing>>

\* chat_limits.end
Released(s) == inflight \ {req[s].user}

\* POST /chat ends the question when it has the answer, before it is logged;
\* the stream ends it last.
Answer(s, status) ==
    /\ req[s].at = "answering"
    /\ req' = [req EXCEPT ![s] = [at |-> "answered", user |-> @.user, chat |-> @.chat, new |-> @.new,
                                  stream |-> @.stream, status |-> status, id |-> 0]]
    /\ inflight' = IF req[s].stream THEN inflight ELSE Released(s)
    /\ UNCHANGED <<users, chats, log, erasing>>

\* Mutant: only an answer takes the asker out.
StopKeepsAsker(s) ==
    /\ req' = [req EXCEPT ![s] = Idle]
    /\ UNCHANGED inflight

\* The request is over; a stream takes its asker out whatever happened.
Stop(s) ==
    /\ req' = [req EXCEPT ![s] = Idle]
    /\ inflight' = IF req[s].stream THEN Released(s) ELSE inflight

\* A statement fails: of admit, before the question is entered, or of finish.
Break(s) ==
    /\ req[s].at \in {"asked", "counted", "admitted", "answered", "logged", "stored"}
    /\ IF req[s].at \in {"answered", "logged", "stored"} THEN Stop(s)
       ELSE req' = [req EXCEPT ![s] = Idle] /\ UNCHANGED inflight
    /\ UNCHANGED <<users, chats, log, erasing>>

\* log_request, committed by itself.
Log(s) ==
    /\ req[s].at = "answered"
    /\ log' = Append(log, [who |-> req[s].user, chat |-> req[s].chat, status |-> req[s].status,
                           text |-> TRUE, age |-> 0])
    /\ IF req[s].status \in Answered
       THEN req' = [req EXCEPT ![s].at = "logged", ![s].id = Len(log) + 1] /\ UNCHANGED inflight
       ELSE Stop(s)
    /\ UNCHANGED <<users, chats, erasing>>

\* add_turn: the chat as it is now, deleted ones too, else a new one, which the
\* foreign key refuses to an account that is gone.
AccountStands(u) == u \in users
\* Mutant: the turn is stored with an id of 0.
TurnWithoutRow(s) == [user |-> req[s].user, is |-> "open", turns |-> {0}]
\* Mutant: the turn brings the chat back.
TurnReopens(s) ==
    [user |-> req[s].user, is |-> "open",
     turns |-> (IF Live(req[s].chat) THEN chats[req[s].chat].turns ELSE {}) \union {req[s].id}]
TurnAdded(s) ==
    LET c == req[s].chat IN
    IF Live(c) THEN [chats[c] EXCEPT !.turns = @ \union {req[s].id}]
    ELSE [user |-> req[s].user, is |-> "open", turns |-> {req[s].id}]

AddTurn(s) ==
    /\ req[s].at = "logged"
    /\ Live(req[s].chat) \/ AccountStands(req[s].user)
    /\ chats' = [chats EXCEPT ![req[s].chat] = TurnAdded(s)]
    /\ IF req[s].stream
       THEN req' = [req EXCEPT ![s].at = "stored"] /\ UNCHANGED inflight
       ELSE Stop(s)
    /\ UNCHANGED <<users, log, erasing>>

\* The stream's notification is enqueued; then the asker is taken out.
EndStream(s) ==
    /\ req[s].at = "stored"
    /\ Stop(s)
    /\ UNCHANGED <<users, chats, log, erasing>>

\* The process stops: what it had in memory is gone.
Restart ==
    /\ UnderWay # {}
    /\ req' = [s \in Slots |-> Idle]
    /\ inflight' = {}
    /\ UNCHANGED <<users, chats, log, erasing>>

-----------------------------------------------------------------------------
\* What removes chats and texts.

Delete(c) ==
    /\ chats[c] # NoChat /\ chats[c].is = "open"
    /\ chats' = [chats EXCEPT ![c].is = "deleted"]
    /\ UNCHANGED <<users, log, inflight, req, erasing>>

\* Mutant: the chats are removed first, and none is old any more.
BlankedAfter(old) ==
    [i \in DOMAIN log |->
        IF log[i] # NoRow /\ log[i].age = 3 /\ log[i].status \notin Answered
        THEN [log[i] EXCEPT !.text = FALSE] ELSE log[i]]

Old == {c \in Chats : chats[c] # NoChat /\ chats[c].is = "old"}
Blanked(old) ==
    [i \in DOMAIN log |->
        IF log[i] # NoRow /\ (log[i].chat \in old \/ (log[i].age = 3 /\ log[i].status \notin Answered))
        THEN [log[i] EXCEPT !.text = FALSE] ELSE log[i]]

\* purge: the texts of old chats and of failed questions are blanked, then the
\* old chats are removed, in one transaction.
Purge ==
    /\ log' = Blanked(Old)
    /\ chats' = [c \in Chats |-> IF c \in Old THEN [chats[c] EXCEPT !.is = "purged", !.turns = {}] ELSE chats[c]]
    /\ <<log', chats'>> # <<log, chats>>
    /\ UNCHANGED <<users, inflight, req, erasing>>

OwnChat(c, u) == Live(c) /\ chats[c].user = u
RowsOf(u) == {i \in Rows : log[i].who = u \/ OwnChat(log[i].chat, u)}

\* Mutant: the log rows are deleted in a transaction of their own.
DeleteLogFirst(u) ==
    /\ u \in users /\ erasing[u] = NoRow
    /\ log' = [i \in DOMAIN log |-> IF i \in RowsOf(u) THEN NoRow ELSE log[i]]
    /\ erasing' = [erasing EXCEPT ![u] = {}]
    /\ UNCHANGED <<users, chats, inflight, req>>

\* delete_account: the log rows are deleted first, the user row with its chats
\* after it, and both are committed together.
DeleteAccount(u) ==
    /\ u \in users /\ erasing[u] = NoRow
    /\ erasing' = [erasing EXCEPT ![u] = RowsOf(u)]
    /\ UNCHANGED <<users, chats, log, inflight, req>>

DeleteAccountCommit(u) ==
    /\ u \in users /\ erasing[u] # NoRow
    /\ users' = users \ {u}
    /\ log' = [i \in DOMAIN log |-> IF i \in erasing[u] THEN NoRow ELSE log[i]]
    /\ chats' = [c \in Chats |-> IF OwnChat(c, u) THEN [chats[c] EXCEPT !.is = "purged", !.turns = {}] ELSE chats[c]]
    /\ erasing' = [erasing EXCEPT ![u] = NoRow]
    /\ UNCHANGED <<inflight, req>>

\* Time.  A month passes only while nothing is being answered.
Aged(from, to) == [i \in DOMAIN log |-> IF log[i] # NoRow /\ log[i].age \in from THEN [log[i] EXCEPT !.age = to] ELSE log[i]]
Minute ==
    /\ log' = Aged({0}, 1) /\ log' # log
    /\ UNCHANGED <<users, chats, inflight, req, erasing>>
Midnight ==
    /\ log' = Aged({0, 1}, 2) /\ log' # log
    /\ UNCHANGED <<users, chats, inflight, req, erasing>>
Month ==
    /\ UnderWay = {} /\ \A u \in Users : erasing[u] = NoRow
    /\ log' = Aged(0..2, 3)
    /\ chats' = [c \in Chats |-> IF chats[c] # NoChat /\ chats[c].is = "deleted"
                                 THEN [chats[c] EXCEPT !.is = "old"] ELSE chats[c]]
    /\ <<log', chats'>> # <<log, chats>>
    /\ UNCHANGED <<users, inflight, req, erasing>>

Progress(s) ==
    \/ Count(s) \/ Refuse(s) \/ AdmitNew(s) \/ AdmitFollowUp(s) \/ BeginFollowUp(s)
    \/ \E status \in Statuses : Answer(s, status)
    \/ Log(s) \/ AddTurn(s) \/ EndStream(s) \/ Break(s)

Next ==
    \/ \E s \in Slots, u \in Users, c \in Chats, stream \in BOOLEAN : Ask(s, u, c, stream)
    \/ \E s \in Slots : Progress(s)
    \/ Restart
    \/ \E c \in Chats : Delete(c)
    \/ Purge
    \/ \E u \in Users : DeleteAccount(u) \/ DeleteAccountCommit(u)
    \/ Minute \/ Midnight \/ Month

Spec == Init /\ [][Next]_vars
\* The event loop resumes every request whose await has ended.
FairSpec == Spec /\ \A s \in Slots : WF_vars(Progress(s))

-----------------------------------------------------------------------------
\* Properties.

\* Type correctness of the rows, the requests and the in-flight set.
TypeOK ==
    /\ users \subseteq Users /\ inflight \subseteq Users
    /\ chats \in [Chats -> Chat \union {NoChat}]
    /\ log \in Seq(Row \union {NoRow})
    /\ req \in [Slots -> Request \union {Idle}]
    /\ erasing \in [Users -> (SUBSET (1..MaxLog)) \union {NoRow}]

Entered(s) ==
    \/ req[s].at = "answering"
    \/ req[s].at \in {"answered", "logged", "stored"} /\ req[s].stream

\* Nobody is told that an earlier question is still being answered when there
\* is none: whoever is in _in_flight has a question that will take them out.
NobodyLockedOut == \A u \in inflight : \E s \in Slots : Entered(s) /\ req[s].user = u

\* The counts are taken from questions that have ended, so the limits of
\* chat_limits.decide are overshot, but by no more than the questions that were
\* under way together: with n of them, by n - 1.
Within(count, limit) == limit = 0 \/ count < limit + Cardinality(Slots)
QuotaHolds ==
    /\ Within(TotalCount, Everyone)
    /\ \A u \in Users : Within(DayCount(u), Daily) /\ Within(MinuteCount(u), PerMinute)

\* A turn of a chat points at its own row of the log: the same asker and chat,
\* an answer and not a failure, whatever accounts are deleted meanwhile.
TurnsAreLogged ==
    \A c \in Chats : Live(c) => \A i \in chats[c].turns :
        /\ i \in Rows
        /\ log[i].chat = c /\ log[i].who = chats[c].user /\ log[i].status \in Answered

\* A chat that was removed for good leaves none of its questions and answers
\* in the log; failed questions are blanked too, and none is kept for a month
\* after the cleanup.
RemovedChatsLeaveNoText ==
    \A i \in Rows : log[i].who \in users /\ chats[log[i].chat] # NoChat /\ chats[log[i].chat].is = "purged"
        => ~log[i].text

\* Both: what a chat shows is what was logged of it, and what it no longer shows
\* is no longer logged (chat_history.py, api/chat.py).
ChatsHold == TurnsAreLogged /\ RemovedChatsLeaveNoText

\* A deleted chat never shows again, although answers still under way are
\* added to it, and a removed one is never made anew.
Rank == [open |-> 0, deleted |-> 1, old |-> 2, purged |-> 3]
DeletedStaysDeleted ==
    [][\A c \in Chats : chats[c] # NoChat =>
        /\ chats'[c] # NoChat
        /\ Rank[chats[c].is] <= Rank[chats'[c].is]
        /\ chats'[c].user = chats[c].user]_chats

\* Whoever is answered is free to ask again, whatever breaks.
AskersAreFreed == \A u \in Users : u \in inflight ~> u \notin inflight

\* Nothing of an account is left when it was deleted (auth_service.py, the
\* docstring of delete_account): not in the log, not in the chats.
NothingOutlivesTheAccount ==
    /\ \A i \in Rows : log[i].who \in users
    /\ \A c \in Chats : Live(c) => chats[c].user \in users
=============================================================================
