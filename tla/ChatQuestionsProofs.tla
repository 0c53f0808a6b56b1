------------------------ MODULE ChatQuestionsProofs -------------------------
(***************************************************************************)
(* Proofs about the questions of the chat: whoever is in the in-flight set *)
(* has a question under way that will take them out; the limits are        *)
(* overshot by less than the number of requests; a chat shows what was     *)
(* logged of it, and what was deleted stays deleted: for any number of     *)
(* accounts, chats and requests and whatever the limits are.               *)
(***************************************************************************)
EXTENDS ChatQuestions, SequenceTheorems, FiniteSetTheorems, TLAPS

\* A request before and after it is answered, without the bound on the log.
Asking ==
    [at : {"asked", "counted", "admitted", "answering"},
     user : Users, chat : Chats, new : BOOLEAN, stream : BOOLEAN, free : BOOLEAN]
Ending ==
    [at : {"answered", "logged", "stored"},
     user : Users, chat : Chats, new : BOOLEAN, stream : BOOLEAN, status : Statuses, id : Nat]
Resting == [at : {"idle"}]

RequestsOK ==
    /\ inflight \subseteq Users
    /\ req \in [Slots -> Asking \union Ending \union Resting]
    /\ log \in Seq(Row \union {NoRow})

IInv == RequestsOK /\ NobodyLockedOut

-----------------------------------------------------------------------------
(* How far a request is tells what is known of it. *)
LEMMA RequestShape ==
    ASSUME RequestsOK, NEW s \in Slots
    PROVE  /\ req[s].at \in {"asked", "counted", "admitted", "answering"} => req[s] \in Asking
           /\ req[s].at \in {"answered", "logged", "stored"} => req[s] \in Ending
           /\ req[s].at = "idle" => req[s] \in Resting
BY DEF RequestsOK, Asking, Ending, Resting

(* A step of one request keeps nobody locked out, if it takes out of the in-flight
   set whom that request alone would have taken out, and puts in only its own asker. *)
LEMMA OneRequestMoves ==
    ASSUME NobodyLockedOut, NEW s \in Slots,
           \A t \in Slots \ {s} : req'[t] = req[t],
           \A u \in inflight' :
              \/ u \in inflight /\ ~(Entered(s) /\ req[s].user = u)
              \/ Entered(s)' /\ req'[s].user = u
    PROVE  NobodyLockedOut'
BY DEF NobodyLockedOut, Entered

(* Before it is entered in the in-flight set, a request has nobody in it: its steps,
   and the end of it, leave the set as it is. *)
LEMMA NotEntered ==
    ASSUME IInv, NEW s \in Slots, ~Entered(s), UNCHANGED inflight,
           \A t \in Slots \ {s} : req'[t] = req[t]
    PROVE  NobodyLockedOut'
BY OneRequestMoves DEF IInv

(* Stop ends a request wherever it is after its answer: a stream takes its asker out,
   POST /chat has done so before. *)
LEMMA StopFrees ==
    ASSUME IInv, NEW s \in Slots, req[s].at \in {"answered", "logged", "stored"}, Stop(s)
    PROVE  /\ NobodyLockedOut'
           /\ inflight' \subseteq Users
           /\ req' \in [Slots -> Asking \union Ending \union Resting]
<1>1. req[s] \in Ending
  BY RequestShape DEF IInv
<1>2. Idle \in Resting
  BY DEF Idle, Resting
<1>3. /\ inflight' \subseteq Users
      /\ req' \in [Slots -> Asking \union Ending \union Resting]
  BY <1>2 DEF Stop, Released, IInv, RequestsOK
<1>4. \A t \in Slots \ {s} : req'[t] = req[t]
  BY DEF Stop, IInv, RequestsOK
<1>5. CASE req[s].stream
  BY <1>3, <1>4, <1>5, OneRequestMoves DEF Stop, Released, IInv, Entered
<1>6. CASE ~req[s].stream
  <2>1. ~Entered(s)
    BY <1>6 DEF Entered
  <2> QED BY <2>1, <1>3, <1>4, <1>6, NotEntered DEF Stop
<1> QED BY <1>3, <1>5, <1>6

-----------------------------------------------------------------------------
LEMMA AskStep ==
    ASSUME IInv, NEW s \in Slots, NEW u \in Users, NEW c \in Chats, NEW stream \in BOOLEAN,
           Ask(s, u, c, stream)
    PROVE  IInv'
<1> DEFINE asked == [at |-> "asked", user |-> u, chat |-> c, new |-> chats[c] = NoChat,
                     stream |-> stream, free |-> FALSE]
<1>1. asked \in Asking
  BY DEF Asking
<1>2. req' = [req EXCEPT ![s] = asked] /\ UNCHANGED <<log, inflight>>
  BY DEF Ask
<1>3. RequestsOK'
  BY <1>1, <1>2 DEF IInv, RequestsOK
<1>4. ~Entered(s)
  BY DEF Ask, Busy, Entered
<1>5. \A t \in Slots \ {s} : req'[t] = req[t]
  BY <1>2 DEF IInv, RequestsOK
<1> QED BY <1>2, <1>3, <1>4, <1>5, NotEntered DEF IInv

LEMMA CountStep ==
    ASSUME IInv, NEW s \in Slots, Count(s)
    PROVE  IInv'
<1>1. req[s] \in Asking
  BY RequestShape DEF IInv, Count
<1>2. CountsAllow(req[s].user) \in BOOLEAN
  BY DEF CountsAllow, Below
<1> DEFINE counted == [req[s] EXCEPT !.at = "counted", !.free = CountsAllow(req[s].user)]
<1>3. counted \in Asking
  BY <1>1, <1>2 DEF Asking
<1>4. req' = [req EXCEPT ![s] = counted] /\ UNCHANGED <<log, inflight>>
  BY DEF Count
<1>5. RequestsOK'
  BY <1>3, <1>4 DEF IInv, RequestsOK
<1>6. ~Entered(s)
  BY DEF Count, Entered
<1>7. \A t \in Slots \ {s} : req'[t] = req[t]
  BY <1>4 DEF IInv, RequestsOK
<1> QED BY <1>4, <1>5, <1>6, <1>7, NotEntered DEF IInv

LEMMA RefuseStep ==
    ASSUME IInv, NEW s \in Slots, Refuse(s)
    PROVE  IInv'
<1>1. Idle \in Resting
  BY DEF Idle, Resting
<1>2. RequestsOK' /\ \A t \in Slots \ {s} : req'[t] = req[t]
  BY <1>1 DEF Refuse, IInv, RequestsOK
<1>3. ~Entered(s) /\ UNCHANGED inflight
  BY DEF Refuse, Entered
<1> QED BY <1>2, <1>3, NotEntered DEF IInv

(* AdmitNew and BeginFollowUp: the asker is entered, and the request with them. *)
LEMMA EntryStep ==
    ASSUME IInv, NEW s \in Slots, req[s].at \in {"counted", "admitted"},
           req' = [req EXCEPT ![s].at = "answering"],
           inflight' = inflight \union {req[s].user}, UNCHANGED log
    PROVE  IInv'
<1>1. req[s] \in Asking
  BY RequestShape DEF IInv
<1>2. /\ [req[s] EXCEPT !.at = "answering"] \in Asking
      /\ [req[s] EXCEPT !.at = "answering"].at = "answering"
      /\ [req[s] EXCEPT !.at = "answering"].user = req[s].user
  BY <1>1 DEF Asking
<1>3. req' = [req EXCEPT ![s] = [req[s] EXCEPT !.at = "answering"]]
  OBVIOUS
<1>4. req[s].user \in Users
  BY <1>1 DEF Asking
<1>5. RequestsOK'
  BY <1>2, <1>3, <1>4 DEF IInv, RequestsOK
<1>6. \A t \in Slots \ {s} : req'[t] = req[t]
  BY <1>3 DEF IInv, RequestsOK
<1>7. req'[s].at = "answering" /\ req'[s].user = req[s].user
  BY <1>2, <1>3 DEF IInv, RequestsOK
<1>8. ~Entered(s)
  BY DEF Entered
<1>9. Entered(s)'
  BY <1>7 DEF Entered
<1> QED BY <1>5, <1>6, <1>7, <1>8, <1>9, OneRequestMoves DEF IInv

LEMMA AdmitFollowUpStep ==
    ASSUME IInv, NEW s \in Slots, AdmitFollowUp(s)
    PROVE  IInv'
<1>1. req[s] \in Asking
  BY RequestShape DEF IInv, AdmitFollowUp
<1>2. [req[s] EXCEPT !.at = "admitted"] \in Asking
  BY <1>1 DEF Asking
<1>3. req' = [req EXCEPT ![s] = [req[s] EXCEPT !.at = "admitted"]] /\ UNCHANGED <<log, inflight>>
  BY DEF AdmitFollowUp
<1>4. RequestsOK' /\ \A t \in Slots \ {s} : req'[t] = req[t]
  BY <1>2, <1>3 DEF IInv, RequestsOK
<1>5. ~Entered(s)
  BY DEF AdmitFollowUp, Entered
<1> QED BY <1>3, <1>4, <1>5, NotEntered DEF IInv

(* POST /chat takes the asker out with the answer; a stream stays entered. *)
LEMMA AnswerStep ==
    ASSUME IInv, NEW s \in Slots, NEW status \in Statuses, Answer(s, status)
    PROVE  IInv'
<1>1. req[s] \in Asking
  BY RequestShape DEF IInv, Answer
<1> DEFINE answered == [at |-> "answered", user |-> req[s].user, chat |-> req[s].chat, new |-> req[s].new,
                        stream |-> req[s].stream, status |-> status, id |-> 0]
<1>2. answered \in Ending
  BY <1>1 DEF Asking, Ending
<1>3. req' = [req EXCEPT ![s] = answered] /\ UNCHANGED log
  BY DEF Answer
<1>4. RequestsOK'
  BY <1>2, <1>3 DEF Answer, Released, IInv, RequestsOK
<1>5. \A t \in Slots \ {s} : req'[t] = req[t]
  BY <1>3 DEF IInv, RequestsOK
<1>6. req'[s] = answered
  BY <1>3 DEF IInv, RequestsOK
<1>7. CASE req[s].stream
  <2>1. Entered(s)' /\ req'[s].user = req[s].user
    BY <1>6, <1>7 DEF Entered
  <2>2. inflight' = inflight
    BY <1>7 DEF Answer
  <2> QED BY <1>4, <1>5, <2>1, <2>2, OneRequestMoves DEF IInv
<1>8. CASE ~req[s].stream
  <2>1. inflight' = inflight \ {req[s].user}
    BY <1>8 DEF Answer, Released
  <2> QED BY <1>4, <1>5, <2>1, OneRequestMoves DEF IInv
<1> QED BY <1>7, <1>8

LEMMA BreakStep ==
    ASSUME IInv, NEW s \in Slots, Break(s)
    PROVE  IInv'
<1>1. CASE req[s].at \in {"answered", "logged", "stored"}
  BY <1>1, StopFrees DEF Break, IInv, RequestsOK
<1>2. CASE req[s].at = "asked" \/ req[s].at = "counted" \/ req[s].at = "admitted"
  <2>1. Idle \in Resting
    BY DEF Idle, Resting
  <2>2. req' = [req EXCEPT ![s] = Idle] /\ UNCHANGED <<log, inflight>>
    BY <1>2 DEF Break
  <2>3. RequestsOK' /\ \A t \in Slots \ {s} : req'[t] = req[t]
    BY <2>1, <2>2 DEF IInv, RequestsOK
  <2>4. ~Entered(s)
    BY <1>2 DEF Entered
  <2> QED BY <2>2, <2>3, <2>4, NotEntered DEF IInv
<1> QED BY <1>1, <1>2 DEF Break

(* A request that goes on after its answer keeps its asker, and their place in the set. *)
LEMMA EndingGoesOn ==
    ASSUME IInv, NEW s \in Slots, NEW r \in Ending, req[s] \in Ending,
           r.user = req[s].user, r.stream = req[s].stream,
           req' = [req EXCEPT ![s] = r], UNCHANGED inflight
    PROVE  NobodyLockedOut' /\ req' \in [Slots -> Asking \union Ending \union Resting]
<1>1. /\ req' \in [Slots -> Asking \union Ending \union Resting]
      /\ req'[s] = r /\ \A t \in Slots \ {s} : req'[t] = req[t]
  BY DEF IInv, RequestsOK
<1>2. Entered(s) => Entered(s)'
  BY <1>1 DEF Entered, Ending
<1> QED BY <1>1, <1>2, OneRequestMoves DEF IInv

LEMMA LogStep ==
    ASSUME IInv, NEW s \in Slots, Log(s)
    PROVE  IInv'
<1>1. req[s] \in Ending
  BY RequestShape DEF IInv, Log
<1> DEFINE row == [who |-> req[s].user, chat |-> req[s].chat, status |-> req[s].status,
                   text |-> TRUE, age |-> 0]
<1>2. row \in Row
  BY <1>1 DEF Ending, Row
<1>3. log' \in Seq(Row \union {NoRow})
  <2>1. log' = Append(log, row)
    BY DEF Log
  <2>2. log \in Seq(Row \union {NoRow}) /\ row \in Row \union {NoRow}
    BY <1>2 DEF IInv, RequestsOK
  <2> QED BY <2>1, <2>2, AppendProperties
<1>4. Len(log) + 1 \in Nat
  BY DEF IInv, RequestsOK
<1>5. CASE req[s].status \in Answered
  <2> DEFINE logged == [req[s] EXCEPT !.at = "logged", !.id = Len(log) + 1]
  <2>1. logged \in Ending /\ logged.user = req[s].user /\ logged.stream = req[s].stream
    BY <1>1, <1>4 DEF Ending
  <2>2. req' = [req EXCEPT ![s] = logged] /\ UNCHANGED inflight
    BY <1>5 DEF Log
  <2>3. NobodyLockedOut' /\ req' \in [Slots -> Asking \union Ending \union Resting]
    BY <1>1, <2>1, <2>2, EndingGoesOn
  <2> QED BY <1>3, <2>2, <2>3 DEF IInv, RequestsOK
<1>6. CASE req[s].status \notin Answered
  BY <1>3, <1>6, StopFrees DEF Log, IInv, RequestsOK
<1> QED BY <1>5, <1>6

LEMMA AddTurnStep ==
    ASSUME IInv, NEW s \in Slots, AddTurn(s)
    PROVE  IInv'
<1>1. req[s] \in Ending
  BY RequestShape DEF IInv, AddTurn
<1>2. CASE req[s].stream
  <2> DEFINE stored == [req[s] EXCEPT !.at = "stored"]
  <2>1. stored \in Ending /\ stored.user = req[s].user /\ stored.stream = req[s].stream
    BY <1>1 DEF Ending
  <2>2. req' = [req EXCEPT ![s] = stored] /\ UNCHANGED <<log, inflight>>
    BY <1>2 DEF AddTurn
  <2>3. NobodyLockedOut' /\ req' \in [Slots -> Asking \union Ending \union Resting]
    BY <1>1, <2>1, <2>2, EndingGoesOn
  <2> QED BY <2>2, <2>3 DEF IInv, RequestsOK
<1>3. CASE ~req[s].stream
  BY <1>3, StopFrees DEF AddTurn, IInv, RequestsOK
<1> QED BY <1>2, <1>3

LEMMA RestartStep ==
    ASSUME IInv, Restart
    PROVE  IInv'
BY DEF Restart, IInv, RequestsOK, NobodyLockedOut, Idle, Resting

(* Blanking, deleting and ageing change rows of the log one by one. *)
LEMMA RowsChange ==
    ASSUME RequestsOK, log' = [i \in DOMAIN log |-> log'[i]],
           \A i \in DOMAIN log : log'[i] \in Row \union {NoRow}
    PROVE  log' \in Seq(Row \union {NoRow})
<1>1. Len(log) \in Nat /\ DOMAIN log = 1 .. Len(log)
  BY DEF RequestsOK
<1>2. log' \in [1 .. Len(log) -> Row \union {NoRow}]
  BY <1>1
<1> QED BY <1>1, <1>2, IsASeq

(* Every other step leaves the requests and the in-flight set alone, and rows where
   they are. *)
LEMMA OtherStep ==
    ASSUME IInv, UNCHANGED <<inflight, req>>, log' \in Seq(Row \union {NoRow})
    PROVE  IInv'
BY DEF IInv, RequestsOK, NobodyLockedOut, Entered

LEMMA PurgeStep ==
    ASSUME IInv, Purge
    PROVE  IInv'
<1>1. \A i \in DOMAIN log : log[i] \in Row \union {NoRow}
  BY DEF IInv, RequestsOK
<1>2. \A r \in Row : [r EXCEPT !.text = FALSE] \in Row
  BY DEF Row
<1>3. log' = Blanked(Old)
  BY DEF Purge
<1>4. log' = [i \in DOMAIN log |-> log'[i]] /\ \A i \in DOMAIN log : log'[i] \in Row \union {NoRow}
  BY <1>1, <1>2, <1>3 DEF Blanked
<1> QED BY <1>4, RowsChange, OtherStep DEF Purge, IInv

LEMMA DeleteAccountCommitStep ==
    ASSUME IInv, NEW u \in Users, DeleteAccountCommit(u)
    PROVE  IInv'
<1>1. \A i \in DOMAIN log : log[i] \in Row \union {NoRow}
  BY DEF IInv, RequestsOK
<1>2. log' = [i \in DOMAIN log |-> log'[i]] /\ \A i \in DOMAIN log : log'[i] \in Row \union {NoRow}
  BY <1>1 DEF DeleteAccountCommit
<1> QED BY <1>2, RowsChange, OtherStep DEF DeleteAccountCommit, IInv

LEMMA TimeStep ==
    ASSUME IInv, Minute \/ Midnight \/ Month
    PROVE  IInv'
<1>1. \A i \in DOMAIN log : log[i] \in Row \union {NoRow}
  BY DEF IInv, RequestsOK
<1>2. \A r \in Row, to \in 0..3 : [r EXCEPT !.age = to] \in Row
  BY DEF Row
<1>3. PICK from \in SUBSET (0..3), to \in 0..3 : log' = Aged(from, to)
  <2>1. CASE Minute
    BY <2>1 DEF Minute
  <2>2. CASE Midnight
    BY <2>2 DEF Midnight
  <2>3. CASE Month
    BY <2>3 DEF Month
  <2> QED BY <2>1, <2>2, <2>3
<1>4. log' = [i \in DOMAIN log |-> log'[i]] /\ \A i \in DOMAIN log : log'[i] \in Row \union {NoRow}
  BY <1>1, <1>2, <1>3 DEF Aged
<1>5. UNCHANGED <<inflight, req>>
  BY DEF Minute, Midnight, Month
<1> QED BY <1>4, <1>5, RowsChange, OtherStep DEF IInv

-----------------------------------------------------------------------------
LEMMA InitiallyInv == Init => IInv
<1> SUFFICES ASSUME Init PROVE IInv
  OBVIOUS
<1>1. Idle \in Resting
  BY DEF Idle, Resting
<1>2. RequestsOK
  BY <1>1, EmptySeq DEF Init, RequestsOK
<1>3. NobodyLockedOut
  BY DEF Init, NobodyLockedOut
<1> QED BY <1>2, <1>3 DEF IInv

LEMMA Inductive == IInv /\ [Next]_vars => IInv'
<1> SUFFICES ASSUME IInv, [Next]_vars PROVE IInv'
  OBVIOUS
<1>1. ASSUME NEW s \in Slots, Progress(s) PROVE IInv'
  <2>1. CASE Count(s)
    BY <2>1, CountStep
  <2>2. CASE Refuse(s)
    BY <2>2, RefuseStep
  <2>3. CASE AdmitNew(s)
    BY <2>3, EntryStep DEF AdmitNew
  <2>4. CASE AdmitFollowUp(s)
    BY <2>4, AdmitFollowUpStep
  <2>5. CASE BeginFollowUp(s)
    BY <2>5, EntryStep DEF BeginFollowUp
  <2>6. ASSUME NEW status \in Statuses, Answer(s, status) PROVE IInv'
    BY <2>6, AnswerStep
  <2>7. CASE Log(s)
    BY <2>7, LogStep
  <2>8. CASE AddTurn(s)
    BY <2>8, AddTurnStep
  <2>9. CASE EndStream(s)
    BY <2>9, StopFrees DEF EndStream, IInv, RequestsOK
  <2>10. CASE Break(s)
    BY <2>10, BreakStep
  <2> QED BY <1>1, <2>1, <2>2, <2>3, <2>4, <2>5, <2>6, <2>7, <2>8, <2>9, <2>10 DEF Progress
<1>2. ASSUME NEW s \in Slots, NEW u \in Users, NEW c \in Chats, NEW stream \in BOOLEAN,
             Ask(s, u, c, stream)
      PROVE  IInv'
  BY <1>2, AskStep
<1>3. CASE Restart
  BY <1>3, RestartStep
<1>4. ASSUME NEW c \in Chats, Delete(c) PROVE IInv'
  BY <1>4, OtherStep DEF Delete, IInv, RequestsOK
<1>5. CASE Purge
  BY <1>5, PurgeStep
<1>6. ASSUME NEW u \in Users, DeleteAccount(u) PROVE IInv'
  BY <1>6, OtherStep DEF DeleteAccount, IInv, RequestsOK
<1>7. ASSUME NEW u \in Users, DeleteAccountCommit(u) PROVE IInv'
  BY <1>7, DeleteAccountCommitStep
<1>8. CASE Minute \/ Midnight \/ Month
  BY <1>8, TimeStep
<1>9. CASE UNCHANGED vars
  BY <1>9, OtherStep DEF vars, IInv, RequestsOK
<1> QED BY <1>1, <1>2, <1>3, <1>4, <1>5, <1>6, <1>7, <1>8, <1>9 DEF Next

(* Nobody is told that an earlier question of theirs is still being answered when there
   is none: whatever breaks off, restarts or is deleted, an entry of _in_flight has a
   question that will take it out (api/chat.py, chat_limits.begin and end). *)
THEOREM EntriesHaveQuestions == Spec => []NobodyLockedOut
<1>1. IInv => NobodyLockedOut
  BY DEF IInv
<1> QED BY <1>1, InitiallyInv, Inductive, PTL DEF Spec

-----------------------------------------------------------------------------
(* The limits.  A question holds a place from the look at the counts to its row of the
   log: with the rows, such questions stay below the limit and the number of requests. *)
Counted(s) ==
    \/ req[s].at = "counted" /\ req[s].free
    \/ req[s].at \in {"admitted", "answering", "answered"}
Pending == {s \in Slots : Counted(s)}
PendingOf(u) == {s \in Slots : Counted(s) /\ req[s].user = u}

Lately == {i \in Rows : log[i].age <= 1}
TodayOf(u) == {i \in Rows : log[i].who = u /\ log[i].status \in Answered /\ log[i].age <= 1}
JustNowOf(u) == {i \in Rows : log[i].who = u /\ log[i].age = 0}

Bounded(C, P, limit) ==
    limit = 0 \/ Cardinality(C) + Cardinality(P) < limit + Cardinality(Slots)

QuotaInv ==
    /\ Bounded(Lately, Pending, Everyone)
    /\ \A u \in Users :
        /\ Bounded(TodayOf(u), PendingOf(u), Daily)
        /\ Bounded(JustNowOf(u), PendingOf(u), PerMinute)

(* Fewer rows and fewer questions: the bound holds on. *)
LEMMA BoundKept ==
    ASSUME NEW C, IsFiniteSet(C), NEW D \in SUBSET C, NEW P \in SUBSET Slots, NEW Q \in SUBSET P,
           NEW limit \in Nat, Bounded(C, P, limit)
    PROVE  Bounded(D, Q, limit)
<1>1. IsFiniteSet(P) /\ IsFiniteSet(Q) /\ Cardinality(Q) <= Cardinality(P)
  BY SlotsAssumption, FS_Subset
<1>2. IsFiniteSet(D) /\ Cardinality(D) <= Cardinality(C)
  BY FS_Subset
<1>3. /\ Cardinality(C) \in Nat /\ Cardinality(D) \in Nat /\ Cardinality(P) \in Nat
      /\ Cardinality(Q) \in Nat /\ Cardinality(Slots) \in Nat
  BY <1>1, <1>2, SlotsAssumption, FS_CardinalityType
<1> QED BY <1>1, <1>2, <1>3 DEF Bounded

(* A question that becomes a row. *)
LEMMA BoundMoves ==
    ASSUME NEW C, IsFiniteSet(C), NEW x, NEW D \in SUBSET (C \union {x}),
           NEW P \in SUBSET Slots, NEW s \in P, NEW Q \in SUBSET (P \ {s}),
           NEW limit \in Nat, Bounded(C, P, limit)
    PROVE  Bounded(D, Q, limit)
<1>1. IsFiniteSet(P)
  BY SlotsAssumption, FS_Subset
<1>2. IsFiniteSet(P \ {s}) /\ Cardinality(P \ {s}) = Cardinality(P) - 1
  BY <1>1, FS_RemoveElement
<1>3. IsFiniteSet(Q) /\ Cardinality(Q) <= Cardinality(P \ {s})
  BY <1>2, FS_Subset
<1>4. IsFiniteSet(C \union {x}) /\ Cardinality(C \union {x}) <= Cardinality(C) + 1
  <2>1. Cardinality(C) \in Nat
    BY FS_CardinalityType
  <2> QED BY <2>1, FS_AddElement
<1>5. IsFiniteSet(D) /\ Cardinality(D) <= Cardinality(C \union {x})
  BY <1>4, FS_Subset
<1>6. /\ Cardinality(C) \in Nat /\ Cardinality(D) \in Nat /\ Cardinality(P) \in Nat
      /\ Cardinality(C \union {x}) \in Nat /\ Cardinality(P \ {s}) \in Nat
      /\ Cardinality(Q) \in Nat /\ Cardinality(Slots) \in Nat
  BY <1>1, <1>2, <1>3, <1>4, <1>5, SlotsAssumption, FS_CardinalityType
<1> QED BY <1>2, <1>3, <1>4, <1>5, <1>6 DEF Bounded

(* The look at the counts: below the limit there is room for a question of every request. *)
LEMMA BoundMade ==
    ASSUME NEW C, IsFiniteSet(C), NEW Q \in SUBSET Slots, NEW limit \in Nat,
           Below(Cardinality(C), limit)
    PROVE  Bounded(C, Q, limit)
<1>1. IsFiniteSet(Q) /\ Cardinality(Q) <= Cardinality(Slots)
  BY SlotsAssumption, FS_Subset
<1>2. Cardinality(C) \in Nat /\ Cardinality(Q) \in Nat /\ Cardinality(Slots) \in Nat
  BY <1>1, SlotsAssumption, FS_CardinalityType
<1> QED BY <1>1, <1>2 DEF Bounded, Below

LEMMA RowsAreFinite ==
    ASSUME IInv
    PROVE  /\ IsFiniteSet(Lately)
           /\ \A u : IsFiniteSet(TodayOf(u)) /\ IsFiniteSet(JustNowOf(u))
<1>1. Len(log) \in Nat /\ DOMAIN log = 1 .. Len(log)
  BY DEF IInv, RequestsOK
<1>2. IsFiniteSet(DOMAIN log)
  BY <1>1, FS_Interval
<1>3. IsFiniteSet(Rows)
  BY <1>2, FS_Subset DEF Rows
<1> QED BY <1>3, FS_Subset DEF Lately, TodayOf, JustNowOf

LEMMA QuotaKept ==
    ASSUME IInv, QuotaInv,
           Lately' \subseteq Lately, Pending' \subseteq Pending,
           \A u \in Users : /\ TodayOf(u)' \subseteq TodayOf(u)
                            /\ JustNowOf(u)' \subseteq JustNowOf(u)
                            /\ PendingOf(u)' \subseteq PendingOf(u)
    PROVE  QuotaInv'
<1>1. Pending \in SUBSET Slots /\ \A u : PendingOf(u) \in SUBSET Slots
  BY DEF Pending, PendingOf
<1>2. Bounded(Lately', Pending', Everyone)
  BY <1>1, RowsAreFinite, BoundKept, LimitsAssumption DEF QuotaInv
<1>3. ASSUME NEW u \in Users
      PROVE  /\ Bounded(TodayOf(u)', PendingOf(u)', Daily)
             /\ Bounded(JustNowOf(u)', PendingOf(u)', PerMinute)
  BY <1>1, RowsAreFinite, BoundKept, LimitsAssumption DEF QuotaInv
<1> QED BY <1>2, <1>3 DEF QuotaInv, Bounded

(* A step of one request that takes no place and keeps its asker. *)
LEMMA QuietStep ==
    ASSUME IInv, QuotaInv, NEW s \in Slots, UNCHANGED log,
           \A t \in Slots \ {s} : req'[t] = req[t],
           Counted(s)' => Counted(s) /\ req'[s].user = req[s].user
    PROVE  QuotaInv'
<1>1. Pending' \subseteq Pending /\ \A u : PendingOf(u)' \subseteq PendingOf(u)
  BY DEF Pending, PendingOf, Counted
<1>2. Lately' = Lately /\ \A u : TodayOf(u)' = TodayOf(u) /\ JustNowOf(u)' = JustNowOf(u)
  BY DEF Lately, TodayOf, JustNowOf, Rows
<1> QED BY <1>1, <1>2, QuotaKept

(* A step of the log alone that makes rows older or removes them. *)
LEMMA RowsGetOlder ==
    ASSUME IInv, QuotaInv, UNCHANGED req, DOMAIN log' = DOMAIN log,
           \A i \in DOMAIN log : log'[i] # NoRow =>
              /\ log[i] # NoRow
              /\ log'[i].who = log[i].who /\ log'[i].status = log[i].status
              /\ log[i].age \in Nat /\ log'[i].age \in Nat /\ log[i].age <= log'[i].age
    PROVE  QuotaInv'
<1>1. Pending' = Pending /\ \A u : PendingOf(u)' = PendingOf(u)
  BY DEF Pending, PendingOf, Counted
<1>2. Lately' \subseteq Lately
  BY DEF Lately, Rows
<1>3. \A u : TodayOf(u)' \subseteq TodayOf(u) /\ JustNowOf(u)' \subseteq JustNowOf(u)
  BY DEF TodayOf, JustNowOf, Rows
<1> QED BY <1>1, <1>2, <1>3, QuotaKept

-----------------------------------------------------------------------------
(* The look at the counts takes a place; the bounds of its asker are made anew. *)
LEMMA CountTakesAPlace ==
    ASSUME IInv, QuotaInv, NEW s \in Slots, Count(s)
    PROVE  QuotaInv'
<1>1. req[s] \in Asking
  BY RequestShape DEF IInv, Count
<1> DEFINE counted == [req[s] EXCEPT !.at = "counted", !.free = CountsAllow(req[s].user)]
<1>2. req' = [req EXCEPT ![s] = counted] /\ UNCHANGED <<log, inflight>>
  BY DEF Count
<1>3. req'[s] = counted /\ \A t \in Slots \ {s} : req'[t] = req[t]
  BY <1>2 DEF IInv, RequestsOK
<1>4. /\ counted.at = "counted" /\ counted.user = req[s].user
      /\ counted.free = CountsAllow(req[s].user)
  BY <1>1 DEF Asking
<1>5. CASE ~CountsAllow(req[s].user)
  <2>1. ~Counted(s)'
    BY <1>3, <1>4, <1>5 DEF Counted
  <2> QED BY <1>2, <1>3, <2>1, QuietStep
<1>6. CASE CountsAllow(req[s].user)
  <2>1. Lately' = Lately /\ \A u : TodayOf(u)' = TodayOf(u) /\ JustNowOf(u)' = JustNowOf(u)
    BY <1>2 DEF Lately, TodayOf, JustNowOf, Rows
  <2>2. Pending' \in SUBSET Slots /\ \A u : PendingOf(u)' \in SUBSET Slots /\ PendingOf(u) \in SUBSET Slots
    BY DEF Pending, PendingOf
  <2>3. Bounded(Lately', Pending', Everyone)
    BY <1>6, <2>1, <2>2, RowsAreFinite, BoundMade, LimitsAssumption DEF CountsAllow, TotalCount, Lately
  <2>4. ASSUME NEW u \in Users, u = req[s].user
        PROVE  /\ Bounded(TodayOf(u)', PendingOf(u)', Daily)
               /\ Bounded(JustNowOf(u)', PendingOf(u)', PerMinute)
    <3>1. Below(Cardinality(TodayOf(u)), Daily) /\ Below(Cardinality(JustNowOf(u)), PerMinute)
      BY <1>6, <2>4 DEF CountsAllow, DayCount, MinuteCount, TodayOf, JustNowOf
    <3> QED BY <3>1, <2>1, <2>2, RowsAreFinite, BoundMade, LimitsAssumption
  <2>5. ASSUME NEW u \in Users, u # req[s].user
        PROVE  /\ Bounded(TodayOf(u)', PendingOf(u)', Daily)
               /\ Bounded(JustNowOf(u)', PendingOf(u)', PerMinute)
    <3>1. PendingOf(u)' \subseteq PendingOf(u)
      BY <1>3, <1>4, <2>5 DEF PendingOf, Counted
    <3> QED BY <3>1, <2>1, <2>2, RowsAreFinite, BoundKept, LimitsAssumption DEF QuotaInv
  <2> QED BY <2>3, <2>4, <2>5 DEF QuotaInv, Bounded
<1> QED BY <1>5, <1>6

(* The row of the log takes the place over. *)
LEMMA LogTakesThePlace ==
    ASSUME IInv, QuotaInv, NEW s \in Slots, Log(s)
    PROVE  QuotaInv'
<1>1. req[s] \in Ending
  BY RequestShape DEF IInv, Log
<1> DEFINE row == [who |-> req[s].user, chat |-> req[s].chat, status |-> req[s].status,
                   text |-> TRUE, age |-> 0]
           new == Len(log) + 1
<1>2. /\ log' = Append(log, row) /\ log \in Seq(Row \union {NoRow})
      /\ row \in Row \union {NoRow}
  BY <1>1 DEF Log, Ending, Row, IInv, RequestsOK
<1>3. /\ log' \in Seq(Row \union {NoRow}) /\ Len(log') = new /\ log'[new] = row
      /\ \A i \in 1 .. Len(log) : log'[i] = log[i]
  BY <1>2, AppendProperties
<1>4. DOMAIN log = 1 .. Len(log) /\ DOMAIN log' = (1 .. Len(log)) \union {new} /\ Len(log) \in Nat
  BY <1>2, <1>3
<1>5. Lately' \in SUBSET (Lately \union {new})
  BY <1>3, <1>4 DEF Lately, Rows
<1>6. \A u : /\ TodayOf(u)' \in SUBSET (TodayOf(u) \union {new})
             /\ JustNowOf(u)' \in SUBSET (JustNowOf(u) \union {new})
  BY <1>3, <1>4 DEF TodayOf, JustNowOf, Rows
<1>7. row.who = req[s].user
  OBVIOUS
<1>8. \A u : u # req[s].user => /\ TodayOf(u)' \in SUBSET TodayOf(u)
                                /\ JustNowOf(u)' \in SUBSET JustNowOf(u)
  BY <1>3, <1>4, <1>7 DEF TodayOf, JustNowOf, Rows
<1>9. (\A t \in Slots \ {s} : req'[t] = req[t]) /\ req'[s].at \in {"logged", "idle"}
  <2>1. CASE req[s].status \in Answered
    <3> DEFINE logged == [req[s] EXCEPT !.at = "logged", !.id = Len(log) + 1]
    <3>1. logged.at = "logged"
      BY <1>1 DEF Ending
    <3>2. req' = [req EXCEPT ![s] = logged]
      BY <2>1 DEF Log
    <3> QED BY <3>1, <3>2 DEF IInv, RequestsOK
  <2>2. CASE req[s].status \notin Answered
    <3>1. req' = [req EXCEPT ![s] = Idle] /\ Idle.at = "idle"
      BY <2>2 DEF Log, Stop, Idle
    <3> QED BY <3>1 DEF IInv, RequestsOK
  <2> QED BY <2>1, <2>2
<1>10. s \in Pending /\ s \in PendingOf(req[s].user)
  BY DEF Log, Pending, PendingOf, Counted
<1>11. Pending' \in SUBSET (Pending \ {s}) /\ \A u : PendingOf(u)' \in SUBSET (PendingOf(u) \ {s})
  BY <1>9 DEF Pending, PendingOf, Counted
<1>12. Pending \in SUBSET Slots /\ \A u : PendingOf(u) \in SUBSET Slots
  BY DEF Pending, PendingOf
<1>13. Bounded(Lately', Pending', Everyone)
  BY <1>5, <1>10, <1>11, <1>12, RowsAreFinite, BoundMoves, LimitsAssumption DEF QuotaInv
<1>14. ASSUME NEW u \in Users
       PROVE  /\ Bounded(TodayOf(u)', PendingOf(u)', Daily)
              /\ Bounded(JustNowOf(u)', PendingOf(u)', PerMinute)
  <2>1. Bounded(TodayOf(u), PendingOf(u), Daily) /\ Bounded(JustNowOf(u), PendingOf(u), PerMinute)
    BY DEF QuotaInv
  <2>2. CASE u = req[s].user
    <3>1. /\ IsFiniteSet(TodayOf(u)) /\ IsFiniteSet(JustNowOf(u))
          /\ TodayOf(u)' \in SUBSET (TodayOf(u) \union {new})
          /\ JustNowOf(u)' \in SUBSET (JustNowOf(u) \union {new})
      BY <1>6, RowsAreFinite
    <3>2. /\ PendingOf(u) \in SUBSET Slots /\ s \in PendingOf(u)
          /\ PendingOf(u)' \in SUBSET (PendingOf(u) \ {s})
      BY <2>2, <1>10, <1>11, <1>12
    <3>3. Daily \in Nat /\ PerMinute \in Nat
      BY LimitsAssumption
    <3>4. Bounded(TodayOf(u)', PendingOf(u)', Daily)
      BY <2>1, <3>1, <3>2, <3>3, BoundMoves
    <3>5. Bounded(JustNowOf(u)', PendingOf(u)', PerMinute)
      BY <2>1, <3>1, <3>2, <3>3, BoundMoves
    <3> QED BY <3>4, <3>5
  <2>3. CASE u # req[s].user
    <3>1. PendingOf(u)' \in SUBSET PendingOf(u)
      BY <1>11
    <3> QED BY <2>1, <2>3, <3>1, <1>8, <1>12, RowsAreFinite, BoundKept, LimitsAssumption
  <2> QED BY <2>2, <2>3
<1> QED BY <1>13, <1>14 DEF QuotaInv, Bounded

(* From the look at the counts to the answer a question keeps its place; where it is
   refused or breaks off it gives it back. *)
LEMMA QuestionGoesOn ==
    ASSUME IInv, QuotaInv, NEW s \in Slots, NEW to, req[s] \in Asking,
           req' = [req EXCEPT ![s].at = to], Counted(s), UNCHANGED log
    PROVE  QuotaInv'
<1>1. [req[s] EXCEPT !.at = to].user = req[s].user
  BY DEF Asking
<1>2. req'[s].user = req[s].user /\ \A t \in Slots \ {s} : req'[t] = req[t]
  BY <1>1 DEF IInv, RequestsOK
<1> QED BY <1>2, QuietStep

LEMMA RequestRests ==
    ASSUME IInv, QuotaInv, NEW s \in Slots, req' = [req EXCEPT ![s] = Idle], UNCHANGED log
    PROVE  QuotaInv'
<1>1. req'[s].at = "idle" /\ \A t \in Slots \ {s} : req'[t] = req[t]
  BY DEF IInv, RequestsOK, Idle
<1>2. ~Counted(s)'
  BY <1>1 DEF Counted
<1> QED BY <1>1, <1>2, QuietStep

LEMMA QuotaProgress ==
    ASSUME IInv, QuotaInv, NEW s \in Slots, Progress(s)
    PROVE  QuotaInv'
<1>1. CASE Count(s)
  BY <1>1, CountTakesAPlace
<1>2. CASE Refuse(s)
  BY <1>2, RequestRests DEF Refuse
<1>3. CASE AdmitNew(s)
  <2>1. req[s] \in Asking
    BY <1>3, RequestShape DEF AdmitNew, IInv
  <2> QED BY <1>3, <2>1, QuestionGoesOn DEF AdmitNew, Admits, Counted
<1>4. CASE AdmitFollowUp(s)
  <2>1. req[s] \in Asking
    BY <1>4, RequestShape DEF AdmitFollowUp, IInv
  <2> QED BY <1>4, <2>1, QuestionGoesOn DEF AdmitFollowUp, Admits, Counted
<1>5. CASE BeginFollowUp(s)
  <2>1. req[s] \in Asking
    BY <1>5, RequestShape DEF BeginFollowUp, IInv
  <2> QED BY <1>5, <2>1, QuestionGoesOn DEF BeginFollowUp, Counted
<1>6. ASSUME NEW status \in Statuses, Answer(s, status) PROVE QuotaInv'
  <2>1. req'[s].user = req[s].user /\ \A t \in Slots \ {s} : req'[t] = req[t]
    BY <1>6 DEF Answer, IInv, RequestsOK
  <2>2. Counted(s) /\ UNCHANGED log
    BY <1>6 DEF Answer, Counted
  <2> QED BY <2>1, <2>2, QuietStep
<1>7. CASE Log(s)
  BY <1>7, LogTakesThePlace
<1>8. CASE AddTurn(s)
  <2>1. CASE req[s].stream
    <3>1. req[s] \in Ending
      BY <1>8, RequestShape DEF AddTurn, IInv
    <3>2. [req[s] EXCEPT !.at = "stored"].at = "stored"
      BY <3>1 DEF Ending
    <3>3. req' = [req EXCEPT ![s] = [req[s] EXCEPT !.at = "stored"]] /\ UNCHANGED log
      BY <1>8, <2>1 DEF AddTurn
    <3>4. req'[s].at = "stored" /\ \A t \in Slots \ {s} : req'[t] = req[t]
      BY <3>2, <3>3 DEF IInv, RequestsOK
    <3>5. ~Counted(s)'
      BY <3>4 DEF Counted
    <3> QED BY <3>3, <3>4, <3>5, QuietStep
  <2>2. CASE ~req[s].stream
    BY <1>8, <2>2, RequestRests DEF AddTurn, Stop
  <2> QED BY <2>1, <2>2
<1>9. CASE EndStream(s)
  BY <1>9, RequestRests DEF EndStream, Stop
<1>10. CASE Break(s)
  BY <1>10, RequestRests DEF Break, Stop
<1> QED BY <1>1, <1>2, <1>3, <1>4, <1>5, <1>6, <1>7, <1>8, <1>9, <1>10 DEF Progress

(* The steps that touch the log or no request at all. *)
LEMMA QuotaOther ==
    ASSUME IInv, QuotaInv,
           \/ Purge \/ Minute \/ Midnight \/ Month \/ UNCHANGED vars
           \/ \E c \in Chats : Delete(c)
           \/ \E u \in Users : DeleteAccount(u) \/ DeleteAccountCommit(u)
    PROVE  QuotaInv'
<1>1. \A i \in DOMAIN log : log[i] \in Row \union {NoRow}
  BY DEF IInv, RequestsOK
<1>2. \A r \in Row : r.age \in Nat
  BY DEF Row
<1>3. CASE Purge
  <2>1. log' = Blanked(Old) /\ UNCHANGED req
    BY <1>3 DEF Purge
  <2>2. \A r \in Row : LET q == [r EXCEPT !.text = FALSE]
                       IN  q.who = r.who /\ q.status = r.status /\ q.age = r.age
    BY DEF Row
  <2> QED BY <1>1, <1>2, <2>1, <2>2, RowsGetOlder DEF Blanked
<1>4. ASSUME Minute \/ Midnight \/ Month PROVE QuotaInv'
  <2>1. \A r \in Row, to \in 0..3 :
            LET q == [r EXCEPT !.age = to]
            IN  q.who = r.who /\ q.status = r.status /\ q.age = to
    BY DEF Row
  <2>2. PICK from \in SUBSET (0..3), to \in 0..3 :
            log' = Aged(from, to) /\ \A a \in from : a <= to
    <3>1. CASE Minute
      BY <3>1 DEF Minute
    <3>2. CASE Midnight
      BY <3>2 DEF Midnight
    <3>3. CASE Month
      BY <3>3 DEF Month
    <3> QED BY <1>4, <3>1, <3>2, <3>3
  <2>3. UNCHANGED req
    BY <1>4 DEF Minute, Midnight, Month
  <2>4. DOMAIN log' = DOMAIN log
    BY <2>2 DEF Aged
  <2>5. ASSUME NEW i \in DOMAIN log, log'[i] # NoRow
        PROVE  /\ log[i] # NoRow
               /\ log'[i].who = log[i].who /\ log'[i].status = log[i].status
               /\ log[i].age \in Nat /\ log'[i].age \in Nat /\ log[i].age <= log'[i].age
    <3>1. log[i] # NoRow /\ log[i] \in Row
      BY <1>1, <2>2, <2>5 DEF Aged
    <3>2. CASE log[i].age \in from
      <4>1. log'[i] = [log[i] EXCEPT !.age = to]
        BY <2>2, <3>1, <3>2 DEF Aged
      <4> QED BY <1>2, <2>1, <2>2, <3>1, <3>2, <4>1
    <3>3. CASE log[i].age \notin from
      <4>1. log'[i] = log[i]
        BY <2>2, <3>1, <3>3 DEF Aged
      <4> QED BY <1>2, <3>1, <4>1
    <3> QED BY <3>2, <3>3
  <2> QED BY <2>3, <2>4, <2>5, RowsGetOlder
<1>5. ASSUME NEW u \in Users, DeleteAccountCommit(u) PROVE QuotaInv'
  <2>1. log' = [i \in DOMAIN log |-> IF i \in erasing[u] THEN NoRow ELSE log[i]] /\ UNCHANGED req
    BY <1>5 DEF DeleteAccountCommit
  <2>2. DOMAIN log' = DOMAIN log
    BY <2>1
  <2>3. ASSUME NEW i \in DOMAIN log, log'[i] # NoRow
        PROVE  log'[i] = log[i] /\ log[i] # NoRow /\ log[i].age \in Nat
    BY <1>1, <1>2, <2>1, <2>3
  <2> QED BY <2>1, <2>2, <2>3, RowsGetOlder
<1>6. CASE UNCHANGED <<log, req>>
  BY <1>1, <1>2, <1>6, RowsGetOlder
<1> QED BY <1>3, <1>4, <1>5, <1>6 DEF Delete, DeleteAccount, vars

LEMMA QuotaInductive == IInv /\ QuotaInv /\ [Next]_vars => QuotaInv'
<1> SUFFICES ASSUME IInv, QuotaInv, [Next]_vars PROVE QuotaInv'
  OBVIOUS
<1>1. ASSUME NEW s \in Slots, NEW u \in Users, NEW c \in Chats, NEW stream \in BOOLEAN,
             Ask(s, u, c, stream)
      PROVE  QuotaInv'
  <2>1. req'[s].at = "asked" /\ \A t \in Slots \ {s} : req'[t] = req[t]
    BY <1>1 DEF Ask, IInv, RequestsOK
  <2>2. ~Counted(s)' /\ UNCHANGED log
    BY <1>1, <2>1 DEF Counted, Ask
  <2> QED BY <2>1, <2>2, QuietStep
<1>2. CASE Restart
  <2>1. Pending' = {} /\ \A u : PendingOf(u)' = {}
    BY <1>2 DEF Restart, Pending, PendingOf, Counted, Idle
  <2>2. Lately' = Lately /\ \A u : TodayOf(u)' = TodayOf(u) /\ JustNowOf(u)' = JustNowOf(u)
    BY <1>2 DEF Restart, Lately, TodayOf, JustNowOf, Rows
  <2> QED BY <2>1, <2>2, QuotaKept
<1> QED BY <1>1, <1>2, QuotaProgress, QuotaOther DEF Next

LEMMA QuotaInitially == Init => QuotaInv
<1> SUFFICES ASSUME Init PROVE QuotaInv
  OBVIOUS
<1>1. Rows = {}
  BY EmptySeq DEF Init, Rows
<1>2. Lately = {} /\ \A u : TodayOf(u) = {} /\ JustNowOf(u) = {}
  BY <1>1 DEF Lately, TodayOf, JustNowOf
<1>3. Pending = {} /\ \A u : PendingOf(u) = {}
  BY DEF Init, Pending, PendingOf, Counted, Idle
<1>4. Cardinality({}) = 0 /\ Cardinality(Slots) \in Nat
  BY SlotsAssumption, FS_EmptySet, FS_CardinalityType
<1> QED BY <1>2, <1>3, <1>4, LimitsAssumption DEF QuotaInv, Bounded

(* However many questions are asked at once, a limit is overshot by less than the number
   of requests the server works on together (chat_limits.decide counts questions that
   have ended; api/chat.py logs them after the answer). *)
THEOREM LimitsAreOvershotByAtMostThoseUnderWay == Spec => []QuotaHolds
<1>1. IInv /\ QuotaInv => QuotaHolds
  <2> SUFFICES ASSUME IInv, QuotaInv PROVE QuotaHolds
    OBVIOUS
  <2>1. ASSUME NEW C, IsFiniteSet(C), NEW P \in SUBSET Slots, NEW limit \in Nat, Bounded(C, P, limit)
        PROVE  Within(Cardinality(C), limit)
    <3>1. IsFiniteSet(P) /\ Cardinality(P) \in Nat /\ Cardinality(C) \in Nat /\ Cardinality(Slots) \in Nat
      BY <2>1, SlotsAssumption, FS_Subset, FS_CardinalityType
    <3> QED BY <2>1, <3>1 DEF Bounded, Within
  <2>2. Pending \in SUBSET Slots /\ \A u : PendingOf(u) \in SUBSET Slots
    BY DEF Pending, PendingOf
  <2>3. Within(Cardinality(Lately), Everyone)
    BY <2>1, <2>2, RowsAreFinite, LimitsAssumption DEF QuotaInv
  <2>4. ASSUME NEW u \in Users
        PROVE  Within(Cardinality(TodayOf(u)), Daily) /\ Within(Cardinality(JustNowOf(u)), PerMinute)
    BY <2>1, <2>2, RowsAreFinite, LimitsAssumption DEF QuotaInv
  <2> QED BY <2>3, <2>4 DEF QuotaHolds, TotalCount, DayCount, MinuteCount, Lately, TodayOf, JustNowOf
<1> QED BY <1>1, InitiallyInv, Inductive, QuotaInitially, QuotaInductive, PTL DEF Spec

-----------------------------------------------------------------------------
(* What a chat shows, and what is left of it in the log.                   *)

\* A chat with the ids of its turns unbounded.
StoredChat == [user : Users, is : {"open", "deleted", "old", "purged"}, turns : SUBSET Nat]

TablesOK ==
    /\ chats \in [Chats -> StoredChat \union {NoChat}]
    /\ erasing \in [Users -> (SUBSET Nat) \union {NoRow}]

\* What a request under way may rely on.  Everything there is of its chat is its
\* asker's; the chat is neither old nor, unless the account went with it, removed; and
\* what was logged of it is in the log.
Reliable(k) ==
    k.at # "idle" =>
        /\ chats[k.chat] # NoChat =>
                /\ chats[k.chat].user = k.user /\ chats[k.chat].is # "old"
                /\ chats[k.chat].is = "purged" => k.user \notin users
        /\ \A i \in Rows : log[i].chat = k.chat => log[i].who = k.user
        /\ k.at = "logged" /\ k.user \in users =>
                /\ k.id \in Rows /\ log[k.id].chat = k.chat /\ log[k.id].who = k.user
                /\ log[k.id].status \in Answered

\* Two requests of one chat have one asker.
Agree(k, j) == k.at # "idle" /\ j.at # "idle" /\ k.chat = j.chat => k.user = j.user

\* A chat has one owner, who has an account as long as it is shown.
OwnersOK ==
    /\ \A i \in Rows : chats[log[i].chat] # NoChat => chats[log[i].chat].user = log[i].who
    /\ \A c \in Chats : Live(c) => chats[c].user \in users

\* A deletion of an account removes rows of its own only.
ErasingOK ==
    \A u \in Users : erasing[u] # NoRow =>
        \A i \in erasing[u] : i \in DOMAIN log /\ (i \in Rows => log[i].who = u)

ChatInv ==
    /\ TablesOK /\ OwnersOK /\ ErasingOK
    /\ \A s \in Slots : Reliable(req[s])
    /\ \A s, t \in Slots : Agree(req[s], req[t])
    /\ TurnsAreLogged /\ RemovedChatsLeaveNoText

(* What is known of a request. *)
LEMMA RequestKnown ==
    ASSUME IInv, ChatInv, NEW s \in Slots
    PROVE  /\ Reliable(req[s]) /\ \A t \in Slots : Agree(req[s], req[t]) /\ Agree(req[t], req[s])
           /\ req[s].at # "idle" => req[s].chat \in Chats /\ req[s].user \in Users
<1>1. Reliable(req[s]) /\ \A t \in Slots : Agree(req[s], req[t]) /\ Agree(req[t], req[s])
  BY DEF ChatInv
<1>2. req[s] \in Asking \union Ending \union Resting
  BY DEF IInv, RequestsOK
<1>3. req[s].at # "idle" => req[s].chat \in Chats /\ req[s].user \in Users
  BY <1>2 DEF Asking, Ending, Resting
<1> QED BY <1>1, <1>3

(* A step of one request that writes no table. *)
LEMMA RequestMoves ==
    ASSUME IInv, ChatInv, NEW s \in Slots, NEW k, UNCHANGED <<users, chats, log, erasing>>,
           req' = [req EXCEPT ![s] = k], Reliable(k),
           \A t \in Slots \ {s} : Agree(k, req[t]) /\ Agree(req[t], k)
    PROVE  ChatInv'
<1>1. req'[s] = k /\ \A t \in Slots \ {s} : req'[t] = req[t]
  BY DEF IInv, RequestsOK
<1>2. UNCHANGED <<Rows, users, chats, log, erasing>>
  BY DEF Rows
<1>3. \A t \in Slots : Reliable(req'[t])
  <2> TAKE t \in Slots
  <2>1. CASE t = s
    BY <1>1, <2>1
  <2>2. CASE t # s
    BY <1>1, <2>2, RequestKnown
  <2> QED BY <2>1, <2>2
<1>4. \A t \in Slots : Reliable(req[t])'
  BY <1>2, <1>3 DEF Reliable
<1>5. \A t, q \in Slots : Agree(req'[t], req'[q])
  <2>1. Agree(k, k)
    BY DEF Agree
  <2> QED BY <1>1, <2>1, RequestKnown
<1>6. \A t, q \in Slots : Agree(req[t], req[q])'
  BY <1>5 DEF Agree
<1>7. TablesOK' /\ OwnersOK' /\ ErasingOK'
  BY <1>2 DEF ChatInv, TablesOK, OwnersOK, ErasingOK, Live
<1>8. TurnsAreLogged' /\ RemovedChatsLeaveNoText'
  BY <1>2 DEF ChatInv, TurnsAreLogged, RemovedChatsLeaveNoText, Live
<1> QED BY <1>4, <1>6, <1>7, <1>8 DEF ChatInv

(* A request that goes on, with its chat and its asker, or ends. *)
LEMMA RequestGoesOn ==
    ASSUME IInv, ChatInv, NEW s \in Slots, NEW k, UNCHANGED <<users, chats, log, erasing>>,
           req' = [req EXCEPT ![s] = k], k.at # "logged",
           k.at = "idle" \/ (req[s].at # "idle" /\ k.user = req[s].user /\ k.chat = req[s].chat)
    PROVE  ChatInv'
<1>1. Reliable(k)
  BY RequestKnown DEF Reliable
<1>2. \A t \in Slots \ {s} : Agree(k, req[t]) /\ Agree(req[t], k)
  BY RequestKnown DEF Agree
<1> QED BY <1>1, <1>2, RequestMoves

(* The request is over. *)
LEMMA RequestEnds ==
    ASSUME IInv, ChatInv, NEW s \in Slots, UNCHANGED <<users, chats, log, erasing>>,
           req' = [req EXCEPT ![s] = Idle]
    PROVE  ChatInv'
<1>1. Idle.at = "idle"
  BY DEF Idle
<1> QED BY <1>1, RequestGoesOn

(* A question is asked in a chat of one's own, or under an id nobody has used. *)
LEMMA AskFinds ==
    ASSUME IInv, ChatInv, NEW s \in Slots, NEW u \in Users, NEW c \in Chats, NEW stream \in BOOLEAN,
           Ask(s, u, c, stream)
    PROVE  ChatInv'
<1> PICK k : k = [at |-> "asked", user |-> u, chat |-> c, new |-> chats[c] = NoChat,
                  stream |-> stream, free |-> FALSE]
  OBVIOUS
<1>1. k.at = "asked" /\ k.user = u /\ k.chat = c
  OBVIOUS
<1>2. req' = [req EXCEPT ![s] = k] /\ UNCHANGED <<users, chats, log, erasing>> /\ (Fresh(c) \/ Visible(c, u))
  BY DEF Ask
<1>3. Reliable(k)
  BY <1>1, <1>2 DEF Reliable, Fresh, Visible, ChatInv, OwnersOK
<1>4. \A t \in Slots \ {s} : Agree(k, req[t]) /\ Agree(req[t], k)
  <2> TAKE t \in Slots \ {s}
  <2>1. CASE Fresh(c)
    BY <1>1, <2>1 DEF Agree, Fresh, Busy
  <2>2. CASE Visible(c, u)
    BY <1>1, <2>2, RequestKnown DEF Agree, Visible, Reliable
  <2> QED BY <1>2, <2>1, <2>2
<1> QED BY <1>2, <1>3, <1>4, RequestMoves

(* The question and its answer are logged: nothing of it is removed yet. *)
LEMMA LogWrites ==
    ASSUME IInv, ChatInv, NEW s \in Slots, Log(s)
    PROVE  ChatInv'
<1> PICK r, n : r = req[s] /\ n = Len(log) + 1
  OBVIOUS
<1> PICK row : row = [who |-> r.user, chat |-> r.chat, status |-> r.status, text |-> TRUE, age |-> 0]
  OBVIOUS
<1>1. r \in Ending /\ r.at = "answered" /\ Reliable(r) /\ r.chat \in Chats /\ r.user \in Users
  <2>1. req[s].at = "answered"
    BY DEF Log
  <2> QED BY <2>1, RequestShape, RequestKnown DEF IInv
<1>2. row \in Row /\ row # NoRow /\ row.who = r.user /\ row.chat = r.chat /\ row.status = r.status
  <2>1. row \in Row
    BY <1>1 DEF Ending, Row
  <2>2. row.who = r.user /\ row.chat = r.chat /\ row.status = r.status
    OBVIOUS
  <2> QED BY <2>1, <2>2, NamesAssumption
<1>3. log \in Seq(Row \union {NoRow}) /\ log' = Append(log, row) /\ UNCHANGED <<users, chats, erasing>>
  BY DEF Log, IInv, RequestsOK
<1>4. /\ Len(log') = n /\ log'[n] = row /\ log' \in Seq(Row \union {NoRow})
      /\ \A i \in 1 .. Len(log) : log'[i] = log[i]
  BY <1>2, <1>3, AppendProperties
<1>5. /\ n \in DOMAIN log' /\ n \notin DOMAIN log /\ n \in Nat
      /\ \A i \in DOMAIN log' : i = n \/ i \in DOMAIN log
      /\ \A i \in DOMAIN log : i \in DOMAIN log' /\ log'[i] = log[i]
  <2>1. DOMAIN log = 1 .. Len(log) /\ Len(log) \in Nat
    BY <1>3
  <2>2. DOMAIN log' = 1 .. n
    BY <1>4
  <2> QED BY <1>4, <2>1, <2>2
<1>6. /\ n \in Rows' /\ \A i \in Rows : i \in Rows' /\ log'[i] = log[i] /\ i \in DOMAIN log
      /\ \A i \in Rows' : i = n \/ (i \in Rows /\ log'[i] = log[i])
  BY <1>2, <1>4, <1>5 DEF Rows
<1>7. log'[n].who = r.user /\ log'[n].chat = r.chat /\ log'[n].status = r.status
  BY <1>2, <1>4
<1> PICK k : k = IF r.status \in Answered THEN [r EXCEPT !.at = "logged", !.id = n] ELSE Idle
  OBVIOUS
<1>8. req' = [req EXCEPT ![s] = k]
  BY DEF Log, Stop
<1>9. k.at # "idle" => /\ k.user = r.user /\ k.chat = r.chat /\ k.id = n /\ r.status \in Answered
  BY <1>1 DEF Ending, Idle
<1>10. req'[s] = k /\ \A t \in Slots \ {s} : req'[t] = req[t]
  BY <1>8 DEF IInv, RequestsOK
<1>11. Reliable(k)'
  <2>1. /\ chats[r.chat] # NoChat =>
              /\ chats[r.chat].user = r.user /\ chats[r.chat].is # "old"
              /\ chats[r.chat].is = "purged" => r.user \notin users
        /\ \A i \in Rows : log[i].chat = r.chat => log[i].who = r.user
    BY <1>1 DEF Reliable
  <2> QED BY <1>3, <1>6, <1>7, <1>9, <2>1 DEF Reliable
<1>12. ASSUME NEW j, Reliable(j), Agree(r, j)
       PROVE  Reliable(j)'
  <2>1. j.at # "idle" /\ r.chat = j.chat => r.user = j.user
    BY <1>1, <1>12 DEF Agree
  <2> QED BY <1>3, <1>6, <1>7, <1>12, <2>1 DEF Reliable
<1>13. \A t \in Slots : Reliable(req[t])'
  <2> TAKE t \in Slots
  <2> PICK j : j = req'[t]
    OBVIOUS
  <2>1. Reliable(j)'
    BY <1>10, <1>11, <1>12, RequestKnown
  <2> QED BY <2>1 DEF Reliable
<1>14. \A t, q \in Slots : Agree(req[t], req[q])'
  <2>1. \A t \in Slots : Agree(k, req[t]) /\ Agree(req[t], k)
    BY <1>1, <1>9, RequestKnown DEF Agree
  <2>2. Agree(k, k)
    BY DEF Agree
  <2>3. \A t, q \in Slots : Agree(req'[t], req'[q])
    BY <1>10, <2>1, <2>2, RequestKnown
  <2> QED BY <2>3 DEF Agree
<1>15. TablesOK'
  BY <1>3 DEF ChatInv, TablesOK
<1>16. OwnersOK'
  BY <1>1, <1>3, <1>6, <1>7 DEF ChatInv, OwnersOK, Live, Reliable
<1>17. ErasingOK'
  <2>1. \A u \in Users : erasing[u] # NoRow =>
            \A i \in erasing[u] : i \in DOMAIN log /\ (i \in Rows => log[i].who = u)
    BY DEF ChatInv, ErasingOK
  <2>2. \A i \in DOMAIN log : i \in Rows' => i \in Rows
    BY <1>5, <1>6
  <2> QED BY <1>3, <1>5, <2>1, <2>2 DEF ErasingOK
<1>18. TurnsAreLogged'
  BY <1>3, <1>6 DEF ChatInv, TurnsAreLogged, Live
<1>19. RemovedChatsLeaveNoText'
  BY <1>1, <1>3, <1>6, <1>7 DEF ChatInv, RemovedChatsLeaveNoText, Reliable
<1> QED BY <1>13, <1>14, <1>15, <1>16, <1>17, <1>18, <1>19 DEF ChatInv

(* The turn is added: to the chat as it is, deleted or not, or to a new one of an asker
   who still has an account; a chat that was removed is not made anew. *)
LEMMA TurnGoes ==
    ASSUME IInv, ChatInv, NEW s \in Slots, AddTurn(s), NEW r, r = req[s]
    PROVE  /\ r.user \in users /\ r.user \in Users /\ r.chat \in Chats /\ r.id \in Rows /\ r.id \in Nat
           /\ log[r.id].chat = r.chat /\ log[r.id].who = r.user /\ log[r.id].status \in Answered
           /\ Live(r.chat) \/ chats[r.chat] = NoChat
           /\ Live(r.chat) => chats[r.chat].is \in {"open", "deleted"} /\ chats[r.chat].user = r.user
<1>1. r.at = "logged" /\ (Live(r.chat) \/ r.user \in users)
  BY DEF AddTurn, AccountStands
<1>2. Reliable(r) /\ r.chat \in Chats /\ r.user \in Users /\ r \in Ending
  BY <1>1, RequestKnown, RequestShape DEF IInv
<1>3. chats[r.chat] \in StoredChat \union {NoChat}
  BY <1>2 DEF ChatInv, TablesOK
<1>4. Live(r.chat) => /\ chats[r.chat].user = r.user /\ chats[r.chat].is \in {"open", "deleted"}
                      /\ r.user \in users
  BY <1>1, <1>2, <1>3 DEF Live, Reliable, StoredChat, ChatInv, OwnersOK
<1>5. ~Live(r.chat) => chats[r.chat] = NoChat
  BY <1>1, <1>2 DEF Live, Reliable
<1>6. r.user \in users
  BY <1>1, <1>4
<1>7. /\ r.id \in Rows /\ log[r.id].chat = r.chat /\ log[r.id].who = r.user /\ log[r.id].status \in Answered
      /\ r.id \in Nat
  BY <1>1, <1>2, <1>6 DEF Reliable, Ending
<1> QED BY <1>2, <1>4, <1>5, <1>6, <1>7

(* The chat a turn is added to. *)
LEMMA TurnShape ==
    ASSUME IInv, ChatInv, NEW s \in Slots, AddTurn(s), NEW c, c = req[s].chat
    PROVE  /\ chats' \in [Chats -> StoredChat \union {NoChat}]
           /\ \A d \in Chats : d # c => chats'[d] = chats[d]
           /\ chats'[c] # NoChat /\ chats'[c].user = req[s].user
           /\ chats'[c].is = IF Live(c) THEN chats[c].is ELSE "open"
           /\ chats'[c].turns \subseteq (IF Live(c) THEN chats[c].turns ELSE {}) \union {req[s].id}
<1> PICK r : r = req[s]
  OBVIOUS
<1>1. /\ r.user \in Users /\ c \in Chats /\ r.id \in Nat
      /\ Live(c) \/ chats[c] = NoChat
      /\ Live(c) => chats[c].user = r.user
  BY TurnGoes
<1>2. chats \in [Chats -> StoredChat \union {NoChat}]
  BY DEF ChatInv, TablesOK
<1> PICK new : new = IF Live(c) THEN [chats[c] EXCEPT !.turns = chats[c].turns \union {r.id}]
                     ELSE [user |-> r.user, is |-> "open", turns |-> {r.id}]
  OBVIOUS
<1>3. /\ new \in StoredChat /\ new.user = r.user
      /\ new.is = IF Live(c) THEN chats[c].is ELSE "open"
      /\ new.turns = (IF Live(c) THEN chats[c].turns ELSE {}) \union {r.id}
  <2>1. CASE Live(c)
    <3> PICK b \in StoredChat : b = chats[c]
      BY <1>1, <1>2, <2>1 DEF Live
    <3> PICK ids : ids = b.turns \union {r.id}
      OBVIOUS
    <3>1. ids \in SUBSET Nat
      BY <1>1 DEF StoredChat
    <3>2. new = [b EXCEPT !.turns = ids] /\ b.user = r.user
      BY <1>1, <2>1
    <3>3. new \in StoredChat /\ new.user = b.user /\ new.is = b.is /\ new.turns = ids
      BY <3>1, <3>2 DEF StoredChat
    <3> QED BY <2>1, <3>2, <3>3
  <2>2. CASE ~Live(c)
    <3>1. new = [user |-> r.user, is |-> "open", turns |-> {r.id}]
      BY <2>2
    <3>2. new \in StoredChat
      BY <1>1, <3>1 DEF StoredChat
    <3> QED BY <2>2, <3>1, <3>2
  <2> QED BY <2>1, <2>2
<1>4. chats' = [chats EXCEPT ![c] = new]
  BY DEF AddTurn, TurnAdded
<1>5. new # NoChat
  BY <1>3, NamesAssumption DEF StoredChat
<1>6. /\ chats' \in [Chats -> StoredChat \union {NoChat}] /\ chats'[c] = new
      /\ \A d \in Chats : d # c => chats'[d] = chats[d]
  BY <1>1, <1>2, <1>3, <1>4
<1> QED BY <1>3, <1>5, <1>6

(* What the turn shows is in the log, and was not removed. *)
LEMMA AddTurnWrites ==
    ASSUME IInv, ChatInv, NEW s \in Slots, AddTurn(s)
    PROVE  ChatInv'
<1> PICK r, c : r = req[s] /\ c = r.chat
  OBVIOUS
<1>1. /\ r.user \in users /\ r.user \in Users /\ c \in Chats /\ r.id \in Rows
      /\ log[r.id].chat = c /\ log[r.id].who = r.user /\ log[r.id].status \in Answered
      /\ Live(c) \/ chats[c] = NoChat
      /\ Live(c) => chats[c].is \in {"open", "deleted"} /\ chats[c].user = r.user
  BY TurnGoes
<1>2. /\ chats' \in [Chats -> StoredChat \union {NoChat}]
      /\ \A d \in Chats : d # c => chats'[d] = chats[d]
      /\ chats'[c] # NoChat /\ chats'[c].user = r.user
  BY TurnShape
<1>3. /\ chats'[c].is \in {"open", "deleted"}
      /\ chats'[c].turns \subseteq (IF Live(c) THEN chats[c].turns ELSE {}) \union {r.id}
  BY <1>1, TurnShape
<1>4. UNCHANGED <<users, log, erasing>> /\ Rows' = Rows
  BY DEF AddTurn, Rows
<1> PICK k : k = IF r.stream THEN [r EXCEPT !.at = "stored"] ELSE Idle
  OBVIOUS
<1>5. req' = [req EXCEPT ![s] = k]
  BY DEF AddTurn, Stop
<1>6. r \in Ending /\ r.at = "logged" /\ Reliable(r)
  <2>1. req[s].at = "logged"
    BY DEF AddTurn
  <2> QED BY <2>1, RequestShape, RequestKnown DEF IInv
<1>7. k.at # "logged" /\ (k.at # "idle" => k.user = r.user /\ k.chat = c)
  BY <1>6 DEF Ending, Idle
<1>8. req'[s] = k /\ \A t \in Slots \ {s} : req'[t] = req[t]
  BY <1>5 DEF IInv, RequestsOK
<1>9. ASSUME NEW j, Reliable(j), Agree(r, j), j.at # "idle" => j.chat \in Chats
      PROVE  Reliable(j)'
  <2>1. j.at # "idle" /\ c = j.chat => r.user = j.user
    BY <1>6, <1>9 DEF Agree
  <2>2. j.at # "idle" /\ chats'[j.chat] # NoChat =>
            /\ chats'[j.chat].user = j.user /\ chats'[j.chat].is # "old"
            /\ chats'[j.chat].is = "purged" => j.user \notin users
    BY <1>2, <1>3, <1>9, <2>1 DEF Reliable
  <2> QED BY <1>4, <1>9, <2>2 DEF Reliable
<1>10. Reliable(k)'
  <2>1. \A i \in Rows : log[i].chat = c => log[i].who = r.user
    BY <1>6 DEF Reliable
  <2> QED BY <1>2, <1>3, <1>4, <1>7, <2>1 DEF Reliable
<1>11. \A t \in Slots : Reliable(req[t])'
  <2> TAKE t \in Slots
  <2> PICK j : j = req'[t]
    OBVIOUS
  <2>1. Reliable(j)'
    BY <1>8, <1>9, <1>10, RequestKnown
  <2> QED BY <2>1 DEF Reliable
<1>12. \A t, q \in Slots : Agree(req[t], req[q])'
  <2>1. \A t \in Slots : Agree(k, req[t]) /\ Agree(req[t], k)
    BY <1>6, <1>7, RequestKnown DEF Agree
  <2>2. Agree(k, k)
    BY DEF Agree
  <2>3. \A t, q \in Slots : Agree(req'[t], req'[q])
    BY <1>8, <2>1, <2>2, RequestKnown
  <2> QED BY <2>3 DEF Agree
<1>13. TablesOK' /\ ErasingOK'
  BY <1>2, <1>4 DEF ChatInv, TablesOK, ErasingOK
<1>14. \A i \in DOMAIN log : i \in Rows => log[i].chat \in Chats
  BY DEF IInv, RequestsOK, Row, Rows
<1>15. OwnersOK'
  <2>1. \A i \in Rows : log[i].chat = c => log[i].who = r.user
    BY <1>6 DEF Reliable
  <2>2. \A i \in Rows : i \in DOMAIN log
    BY DEF Rows
  <2>3. \A i \in Rows : chats'[log[i].chat] # NoChat => chats'[log[i].chat].user = log[i].who
    BY <1>2, <1>14, <2>1, <2>2 DEF ChatInv, OwnersOK
  <2>4. \A d \in Chats : Live(d)' => chats'[d].user \in users
    BY <1>1, <1>2 DEF ChatInv, OwnersOK, Live
  <2> QED BY <1>4, <2>3, <2>4 DEF OwnersOK
<1>16. TurnsAreLogged'
  <2>1. \A d \in Chats : \A i : d # c /\ Live(d)' /\ i \in chats'[d].turns =>
            i \in Rows /\ log[i].chat = d /\ log[i].who = chats'[d].user /\ log[i].status \in Answered
    BY <1>2 DEF ChatInv, TurnsAreLogged, Live
  <2>2. \A i : i \in chats'[c].turns =>
            i \in Rows /\ log[i].chat = c /\ log[i].who = chats'[c].user /\ log[i].status \in Answered
    BY <1>1, <1>2, <1>3 DEF ChatInv, TurnsAreLogged
  <2> QED BY <1>4, <2>1, <2>2 DEF TurnsAreLogged
<1>17. RemovedChatsLeaveNoText'
  <2>1. \A i \in Rows : i \in DOMAIN log
    BY DEF Rows
  <2> QED BY <1>2, <1>3, <1>4, <1>14, <2>1 DEF ChatInv, RemovedChatsLeaveNoText
<1> QED BY <1>11, <1>12, <1>13, <1>15, <1>16, <1>17 DEF ChatInv

(* The server starts anew: what it was answering is forgotten, what it wrote stays. *)
LEMMA RestartForgets ==
    ASSUME IInv, ChatInv, Restart
    PROVE  ChatInv'
<1>1. UNCHANGED <<users, chats, log, erasing>> /\ Rows' = Rows
  BY DEF Restart, Rows
<1>2. \A s \in Slots : req'[s].at = "idle"
  BY DEF Restart, Idle
<1>3. \A s \in Slots : Reliable(req[s])'
  BY <1>2 DEF Reliable
<1>4. \A s, t \in Slots : Agree(req[s], req[t])'
  BY <1>2 DEF Agree
<1>5. TablesOK' /\ OwnersOK' /\ ErasingOK'
  BY <1>1 DEF ChatInv, TablesOK, OwnersOK, ErasingOK, Live
<1>6. TurnsAreLogged' /\ RemovedChatsLeaveNoText'
  BY <1>1 DEF ChatInv, TurnsAreLogged, RemovedChatsLeaveNoText, Live
<1> QED BY <1>3, <1>4, <1>5, <1>6 DEF ChatInv

(* Time, the cleanup, a deleted chat and a deleted account only take things away: rows
   lose their text or go, with the account they are of; a chat is shown less; and one
   goes for good with its account, or when it is old and its texts are blank. *)
LEMMA TablesShrink ==
    ASSUME IInv, ChatInv, UNCHANGED req, users' \subseteq users, TablesOK',
           DOMAIN log' = DOMAIN log,
           \A i \in Rows' : /\ i \in Rows /\ log'[i].who = log[i].who /\ log'[i].chat = log[i].chat
                            /\ log'[i].status = log[i].status /\ (log'[i].text => log[i].text),
           \A i \in Rows : i \notin Rows' => log[i].who \notin users',
           \A u \in Users : erasing'[u] # NoRow => erasing'[u] = erasing[u],
           \A c \in Chats :
              /\ chats'[c] = NoChat <=> chats[c] = NoChat
              /\ chats[c] # NoChat => chats'[c].user = chats[c].user
              /\ Live(c)' => /\ Live(c) /\ chats'[c].turns = chats[c].turns
                             /\ chats[c].user \in users => chats[c].user \in users'
              /\ chats[c] # NoChat /\ chats'[c].is = "old" => chats[c].is = "old" \/ UnderWay = {}
              /\ chats[c] # NoChat /\ chats'[c].is = "purged" =>
                    \/ chats[c].is = "purged" \/ chats[c].user \notin users'
                    \/ chats[c].is = "old" /\ \A i \in Rows' : log'[i].chat = c => ~log'[i].text
    PROVE  ChatInv'
<1>1. \A i \in Rows : i \in DOMAIN log /\ log[i].chat \in Chats /\ log[i].who \in Users
  BY DEF IInv, RequestsOK, Row, Rows
<1>2. ASSUME NEW k, Reliable(k), k.at # "idle" => k.chat \in Chats /\ UnderWay # {}
      PROVE  Reliable(k)'
  <2>1. k.at # "idle" /\ chats'[k.chat] # NoChat =>
            /\ chats'[k.chat].user = k.user /\ chats'[k.chat].is # "old"
            /\ chats'[k.chat].is = "purged" => k.user \notin users'
    BY <1>2 DEF Reliable
  <2>2. k.at # "idle" => \A i \in Rows' : log'[i].chat = k.chat => log'[i].who = k.user
    BY <1>2 DEF Reliable
  <2>3. k.at = "logged" /\ k.user \in users' =>
            /\ k.id \in Rows' /\ log'[k.id].chat = k.chat /\ log'[k.id].who = k.user
            /\ log'[k.id].status \in Answered
    BY <1>2 DEF Reliable
  <2> QED BY <2>1, <2>2, <2>3 DEF Reliable
<1>3. \A s \in Slots : Reliable(req[s])'
  <2> TAKE s \in Slots
  <2> PICK k : k = req[s]
    OBVIOUS
  <2>1. k.at # "idle" => k.chat \in Chats /\ UnderWay # {}
    BY RequestKnown DEF UnderWay, Busy
  <2>2. Reliable(k)'
    BY <1>2, <2>1, RequestKnown
  <2> QED BY <2>2 DEF Reliable
<1>4. \A s, t \in Slots : Agree(req[s], req[t])'
  BY RequestKnown DEF Agree
<1>5. \A c \in Chats : Live(c)' => chats'[c].user \in users'
  BY DEF ChatInv, OwnersOK, Live
<1>6. OwnersOK'
  <2>1. \A i \in Rows' : chats'[log'[i].chat] # NoChat => chats'[log'[i].chat].user = log'[i].who
    BY <1>1 DEF ChatInv, OwnersOK
  <2> QED BY <1>5, <2>1 DEF OwnersOK
<1>7. ErasingOK'
  BY DEF ChatInv, ErasingOK
<1>8. TurnsAreLogged'
  <2> SUFFICES ASSUME NEW c \in Chats, Live(c)', NEW i \in chats'[c].turns
               PROVE  /\ i \in Rows' /\ log'[i].chat = c /\ log'[i].who = chats'[c].user
                      /\ log'[i].status \in Answered
    BY DEF TurnsAreLogged
  <2>1. i \in Rows /\ log[i].chat = c /\ log[i].who = chats[c].user /\ log[i].status \in Answered
    BY DEF ChatInv, TurnsAreLogged
  <2>2. chats'[c].user = chats[c].user /\ chats'[c].user \in users'
    BY <1>5 DEF Live
  <2> QED BY <2>1, <2>2
<1>9. RemovedChatsLeaveNoText'
  <2> SUFFICES ASSUME NEW i \in Rows', log'[i].who \in users', chats'[log'[i].chat] # NoChat,
                      chats'[log'[i].chat].is = "purged"
               PROVE  ~log'[i].text
    BY DEF RemovedChatsLeaveNoText
  <2>1. i \in Rows /\ log'[i].who = log[i].who /\ log'[i].chat = log[i].chat /\ (log'[i].text => log[i].text)
    OBVIOUS
  <2> PICK c \in Chats : c = log[i].chat
    BY <1>1, <2>1
  <2>2. chats[c] # NoChat /\ chats'[c].is = "purged"
    BY <2>1
  <2>3. chats[c].user = log[i].who
    BY <2>1, <2>2 DEF ChatInv, OwnersOK
  <2>4. CASE chats[c].is = "purged"
    BY <2>1, <2>2, <2>4 DEF ChatInv, RemovedChatsLeaveNoText
  <2>5. CASE chats[c].is # "purged"
    BY <2>1, <2>2, <2>3, <2>5
  <2> QED BY <2>4, <2>5
<1> QED BY <1>3, <1>4, <1>6, <1>7, <1>8, <1>9 DEF ChatInv

(* A chat is there: it is not the mark of none. *)
LEMMA ChatIsThere == \A m \in StoredChat : m # NoChat
BY NamesAssumption DEF StoredChat

(* The user deletes a chat. *)
LEMMA DeleteHides ==
    ASSUME IInv, ChatInv, NEW c \in Chats, Delete(c)
    PROVE  ChatInv'
<1>1. /\ chats[c] # NoChat /\ chats[c].is = "open" /\ chats' = [chats EXCEPT ![c].is = "deleted"]
      /\ UNCHANGED <<users, log, req, erasing>>
  BY DEF Delete
<1>2. chats \in [Chats -> StoredChat \union {NoChat}]
  BY DEF ChatInv, TablesOK
<1> PICK b \in StoredChat : b = chats[c]
  BY <1>1, <1>2
<1>3. chats'[c] = [b EXCEPT !.is = "deleted"] /\ \A d \in Chats : d # c => chats'[d] = chats[d]
  BY <1>1, <1>2
<1>4. /\ chats'[c] \in StoredChat /\ chats'[c] # NoChat /\ chats'[c].user = chats[c].user
      /\ chats'[c].is = "deleted" /\ chats'[c].turns = chats[c].turns
  <2>1. /\ chats'[c] \in StoredChat /\ chats'[c].user = b.user
        /\ chats'[c].is = "deleted" /\ chats'[c].turns = b.turns
    BY <1>3 DEF StoredChat
  <2> QED BY <2>1, ChatIsThere
<1>5. chats' = [d \in Chats |-> chats'[d]]
  BY <1>1, <1>2
<1>6. chats' \in [Chats -> StoredChat \union {NoChat}]
  BY <1>2, <1>3, <1>4, <1>5
<1>7. TablesOK' /\ Rows' = Rows
  BY <1>1, <1>6 DEF ChatInv, TablesOK, Rows
<1>8. \A d \in Chats :
          /\ chats'[d] = NoChat <=> chats[d] = NoChat
          /\ chats[d] # NoChat => chats'[d].user = chats[d].user
          /\ Live(d)' => Live(d) /\ chats'[d].turns = chats[d].turns
          /\ chats[d] # NoChat /\ chats'[d].is = "old" => chats[d].is = "old"
          /\ chats[d] # NoChat /\ chats'[d].is = "purged" => chats[d].is = "purged"
  BY <1>1, <1>3, <1>4 DEF Live
<1>9. UNCHANGED <<users, log, req, erasing>>
  BY <1>1
<1> QED BY <1>7, <1>8, <1>9, TablesShrink

(* The cleanup: old chats are removed and their texts blanked in one transaction. *)
LEMMA PurgeBlanks ==
    ASSUME IInv, ChatInv, Purge
    PROVE  ChatInv'
<1>1. /\ log' = Blanked(Old) /\ UNCHANGED <<users, req, erasing>>
      /\ chats' = [c \in Chats |-> IF c \in Old THEN [chats[c] EXCEPT !.is = "purged", !.turns = {}] ELSE chats[c]]
  BY DEF Purge
<1>2. chats \in [Chats -> StoredChat \union {NoChat}]
  BY DEF ChatInv, TablesOK
<1>3. \A i \in DOMAIN log : log[i] \in Row \union {NoRow}
  BY DEF IInv, RequestsOK
<1>4. DOMAIN log' = DOMAIN log
  BY <1>1 DEF Blanked
<1>5. ASSUME NEW i \in DOMAIN log
      PROVE  /\ log'[i] = NoRow <=> log[i] = NoRow
             /\ log[i] # NoRow => /\ log'[i].who = log[i].who /\ log'[i].chat = log[i].chat
                                  /\ log'[i].status = log[i].status /\ (log'[i].text => log[i].text)
                                  /\ log[i].chat \in Old => ~log'[i].text
  <2>1. CASE log[i] = NoRow
    BY <1>1, <2>1 DEF Blanked
  <2>2. CASE log[i] # NoRow
    <3> PICK b \in Row : b = log[i]
      BY <1>3, <2>2
    <3>1. /\ [b EXCEPT !.text = FALSE] \in Row
          /\ [b EXCEPT !.text = FALSE].who = b.who /\ [b EXCEPT !.text = FALSE].chat = b.chat
          /\ [b EXCEPT !.text = FALSE].status = b.status /\ [b EXCEPT !.text = FALSE].text = FALSE
      BY DEF Row
    <3>2. \/ log'[i] = b /\ log[i].chat \notin Old
          \/ log'[i] = [b EXCEPT !.text = FALSE]
      BY <1>1, <2>2 DEF Blanked
    <3> QED BY <2>2, <3>1, <3>2, NamesAssumption
  <2> QED BY <2>1, <2>2
<1>6. Rows' = Rows
  BY <1>4, <1>5 DEF Rows
<1>7. \A i \in Rows' : /\ i \in Rows /\ log'[i].who = log[i].who /\ log'[i].chat = log[i].chat
                       /\ log'[i].status = log[i].status /\ (log'[i].text => log[i].text)
                       /\ log[i].chat \in Old => ~log'[i].text
  BY <1>5, <1>6 DEF Rows
<1>8. ASSUME NEW c \in Chats
      PROVE  /\ chats'[c] \in StoredChat \union {NoChat}
             /\ chats'[c] = NoChat <=> chats[c] = NoChat
             /\ chats[c] # NoChat => chats'[c].user = chats[c].user
             /\ Live(c)' => Live(c) /\ chats'[c].turns = chats[c].turns
             /\ chats[c] # NoChat /\ chats'[c].is = "old" => chats[c].is = "old"
             /\ chats[c] # NoChat /\ chats'[c].is = "purged" =>
                    chats[c].is = "purged" \/ (chats[c].is = "old" /\ c \in Old)
  <2>1. CASE c \in Old
    <3>1. chats[c] # NoChat /\ chats[c].is = "old"
      BY <2>1 DEF Old
    <3> PICK b \in StoredChat : b = chats[c]
      BY <1>2, <3>1
    <3>2. chats'[c] = [b EXCEPT !.is = "purged", !.turns = {}]
      BY <1>1, <2>1
    <3>3. chats'[c] \in StoredChat /\ chats'[c].user = b.user /\ chats'[c].is = "purged"
      BY <3>2 DEF StoredChat
    <3>4. chats'[c] # NoChat
      BY <3>3, ChatIsThere
    <3> QED BY <2>1, <3>1, <3>3, <3>4 DEF Live
  <2>2. CASE c \notin Old
    <3>1. chats'[c] = chats[c]
      BY <1>1, <2>2
    <3> QED BY <1>2, <3>1 DEF Live
  <2> QED BY <2>1, <2>2
<1>9. \A c \in Chats : c \in Old => \A i \in Rows' : log'[i].chat = c => ~log'[i].text
  BY <1>7
<1>10. chats' = [c \in Chats |-> chats'[c]]
  BY <1>1
<1>11. chats' \in [Chats -> StoredChat \union {NoChat}]
  BY <1>8, <1>10
<1>12. TablesOK'
  BY <1>1, <1>11 DEF ChatInv, TablesOK
<1>13. UNCHANGED <<users, req, erasing>>
  BY <1>1
<1>14. \A i \in Rows' : /\ i \in Rows /\ log'[i].who = log[i].who /\ log'[i].chat = log[i].chat
                        /\ log'[i].status = log[i].status /\ (log'[i].text => log[i].text)
  BY <1>7
<1>15. \A c \in Chats :
          /\ chats'[c] = NoChat <=> chats[c] = NoChat
          /\ chats[c] # NoChat => chats'[c].user = chats[c].user
          /\ Live(c)' => Live(c) /\ chats'[c].turns = chats[c].turns
          /\ chats[c] # NoChat /\ chats'[c].is = "old" => chats[c].is = "old"
          /\ chats[c] # NoChat /\ chats'[c].is = "purged" =>
                    \/ chats[c].is = "purged"
                    \/ chats[c].is = "old" /\ \A i \in Rows' : log'[i].chat = c => ~log'[i].text
  BY <1>8, <1>9
<1> QED BY <1>4, <1>6, <1>12, <1>13, <1>14, <1>15, TablesShrink

(* An account is deleted: its rows of the log, found before, and its chats. *)
LEMMA AccountGoes ==
    ASSUME IInv, ChatInv, NEW u \in Users, DeleteAccountCommit(u)
    PROVE  ChatInv'
<1>1. /\ erasing[u] # NoRow /\ users' = users \ {u} /\ UNCHANGED req
      /\ log' = [i \in DOMAIN log |-> IF i \in erasing[u] THEN NoRow ELSE log[i]]
      /\ chats' = [c \in Chats |-> IF OwnChat(c, u) THEN [chats[c] EXCEPT !.is = "purged", !.turns = {}] ELSE chats[c]]
      /\ erasing' = [erasing EXCEPT ![u] = NoRow]
  BY DEF DeleteAccountCommit
<1>2. /\ chats \in [Chats -> StoredChat \union {NoChat}]
      /\ erasing \in [Users -> (SUBSET Nat) \union {NoRow}]
  BY DEF ChatInv, TablesOK
<1>3. \A i \in erasing[u] : i \in Rows => log[i].who = u
  BY <1>1 DEF ChatInv, ErasingOK
<1>4. DOMAIN log' = DOMAIN log
  BY <1>1
<1>5. /\ \A i \in Rows' : i \in Rows /\ log'[i] = log[i]
      /\ \A i \in Rows : i \notin Rows' => log[i].who \notin users'
  BY <1>1, <1>3 DEF Rows
<1>6. ASSUME NEW c \in Chats
      PROVE  /\ chats'[c] \in StoredChat \union {NoChat}
             /\ chats'[c] = NoChat <=> chats[c] = NoChat
             /\ chats[c] # NoChat => chats'[c].user = chats[c].user
             /\ Live(c)' => /\ Live(c) /\ chats'[c].turns = chats[c].turns
                            /\ chats[c].user \in users => chats[c].user \in users'
             /\ chats[c] # NoChat /\ chats'[c].is = "old" => chats[c].is = "old"
             /\ chats[c] # NoChat /\ chats'[c].is = "purged" =>
                    chats[c].is = "purged" \/ chats[c].user \notin users'
  <2>1. CASE OwnChat(c, u)
    <3>1. chats[c] # NoChat /\ chats[c].user = u
      BY <2>1 DEF OwnChat, Live
    <3> PICK b \in StoredChat : b = chats[c]
      BY <1>2, <3>1
    <3>2. chats'[c] = [b EXCEPT !.is = "purged", !.turns = {}]
      BY <1>1, <2>1
    <3>3. chats'[c] \in StoredChat /\ chats'[c] # NoChat /\ chats'[c].is = "purged" /\ chats'[c].user = u
      <4>1. chats'[c] \in StoredChat /\ chats'[c].user = b.user /\ chats'[c].is = "purged"
        BY <3>2 DEF StoredChat
      <4> QED BY <3>1, <4>1, ChatIsThere
    <3> QED BY <1>1, <3>1, <3>3 DEF Live
  <2>2. CASE ~OwnChat(c, u)
    <3>1. chats'[c] = chats[c]
      BY <1>1, <2>2
    <3> QED BY <1>1, <1>2, <2>2, <3>1 DEF Live, OwnChat
  <2> QED BY <2>1, <2>2
<1>7. chats' = [c \in Chats |-> chats'[c]]
  BY <1>1
<1>8. chats' \in [Chats -> StoredChat \union {NoChat}]
  BY <1>6, <1>7
<1>9. erasing' \in [Users -> (SUBSET Nat) \union {NoRow}]
      /\ \A v \in Users : erasing'[v] # NoRow => erasing'[v] = erasing[v]
  BY <1>1, <1>2
<1>10. TablesOK'
  BY <1>8, <1>9 DEF TablesOK
<1>11. users' \subseteq users /\ UNCHANGED req
  BY <1>1
<1> QED BY <1>4, <1>5, <1>6, <1>9, <1>10, <1>11, TablesShrink

(* Minutes, days and months pass. *)
LEMMA TimePasses ==
    ASSUME IInv, ChatInv, Minute \/ Midnight \/ Month
    PROVE  ChatInv'
<1>1. chats \in [Chats -> StoredChat \union {NoChat}]
  BY DEF ChatInv, TablesOK
<1>2. \A i \in DOMAIN log : log[i] \in Row \union {NoRow}
  BY DEF IInv, RequestsOK
<1>3. PICK from \in SUBSET (0..3), to \in 0..3 : log' = Aged(from, to)
  <2>1. CASE Minute
    BY <2>1 DEF Minute
  <2>2. CASE Midnight
    BY <2>2 DEF Midnight
  <2>3. CASE Month
    BY <2>3 DEF Month
  <2> QED BY <2>1, <2>2, <2>3
<1>4. UNCHANGED <<users, req, erasing>>
  BY DEF Minute, Midnight, Month
<1>5. DOMAIN log' = DOMAIN log
  BY <1>3 DEF Aged
<1>6. ASSUME NEW i \in DOMAIN log
      PROVE  /\ log'[i] = NoRow <=> log[i] = NoRow
             /\ log[i] # NoRow => /\ log'[i].who = log[i].who /\ log'[i].chat = log[i].chat
                                  /\ log'[i].status = log[i].status /\ (log'[i].text => log[i].text)
  <2>1. CASE log[i] = NoRow
    BY <1>3, <2>1 DEF Aged
  <2>2. CASE log[i] # NoRow
    <3> PICK b \in Row : b = log[i]
      BY <1>2, <2>2
    <3>1. /\ [b EXCEPT !.age = to] \in Row
          /\ [b EXCEPT !.age = to].who = b.who /\ [b EXCEPT !.age = to].chat = b.chat
          /\ [b EXCEPT !.age = to].status = b.status /\ [b EXCEPT !.age = to].text = b.text
      BY DEF Row
    <3>2. log'[i] = b \/ log'[i] = [b EXCEPT !.age = to]
      BY <1>3, <2>2 DEF Aged
    <3> QED BY <2>2, <3>1, <3>2, NamesAssumption
  <2> QED BY <2>1, <2>2
<1>7. Rows' = Rows
  BY <1>5, <1>6 DEF Rows
<1>8. \A i \in Rows' : /\ i \in Rows /\ log'[i].who = log[i].who /\ log'[i].chat = log[i].chat
                       /\ log'[i].status = log[i].status /\ (log'[i].text => log[i].text)
  BY <1>6, <1>7 DEF Rows
<1>9. \/ chats' = chats
      \/ /\ UnderWay = {}
         /\ chats' = [c \in Chats |-> IF chats[c] # NoChat /\ chats[c].is = "deleted"
                                      THEN [chats[c] EXCEPT !.is = "old"] ELSE chats[c]]
  BY DEF Minute, Midnight, Month
<1>10. ASSUME NEW c \in Chats
       PROVE  /\ chats'[c] \in StoredChat \union {NoChat}
              /\ chats'[c] = NoChat <=> chats[c] = NoChat
              /\ chats[c] # NoChat => chats'[c].user = chats[c].user
              /\ Live(c)' => Live(c) /\ chats'[c].turns = chats[c].turns
              /\ chats[c] # NoChat /\ chats'[c].is = "old" => chats[c].is = "old" \/ UnderWay = {}
              /\ chats[c] # NoChat /\ chats'[c].is = "purged" => chats[c].is = "purged"
  <2>1. CASE chats'[c] = chats[c]
    BY <1>1, <2>1 DEF Live
  <2>2. CASE chats'[c] # chats[c]
    <3>1. /\ UnderWay = {} /\ chats[c] # NoChat /\ chats[c].is = "deleted"
          /\ chats'[c] = [chats[c] EXCEPT !.is = "old"]
      BY <1>9, <2>2
    <3> PICK b \in StoredChat : b = chats[c]
      BY <1>1, <3>1
    <3>2. chats'[c] = [b EXCEPT !.is = "old"]
      BY <3>1
    <3>3. /\ chats'[c] \in StoredChat /\ chats'[c] # NoChat /\ chats'[c].is = "old"
          /\ chats'[c].user = chats[c].user /\ chats'[c].turns = chats[c].turns
      <4>1. /\ chats'[c] \in StoredChat /\ chats'[c].is = "old"
            /\ chats'[c].user = b.user /\ chats'[c].turns = b.turns
        BY <3>2 DEF StoredChat
      <4> QED BY <4>1, ChatIsThere
    <3> QED BY <3>1, <3>3 DEF Live
  <2> QED BY <2>1, <2>2
<1>11. chats' = [c \in Chats |-> chats'[c]]
  BY <1>1, <1>9
<1>12. chats' \in [Chats -> StoredChat \union {NoChat}]
  BY <1>10, <1>11
<1>13. TablesOK'
  BY <1>4, <1>12 DEF ChatInv, TablesOK
<1>14. users' \subseteq users /\ UNCHANGED <<req, erasing>>
       /\ \A c \in Chats : chats[c].user \in users => chats[c].user \in users'
  BY <1>4
<1> QED BY <1>5, <1>7, <1>8, <1>10, <1>13, <1>14, TablesShrink

(* A deletion of an account notes the rows it will remove: its own. *)
LEMMA DeletionNotes ==
    ASSUME IInv, ChatInv, NEW u \in Users, DeleteAccount(u)
    PROVE  ChatInv'
<1>1. UNCHANGED <<users, chats, log, req>> /\ Rows' = Rows /\ erasing' = [erasing EXCEPT ![u] = RowsOf(u)]
  BY DEF DeleteAccount, Rows
<1>2. erasing \in [Users -> (SUBSET Nat) \union {NoRow}] /\ DOMAIN log \subseteq Nat
  <2>1. log \in Seq(Row \union {NoRow})
    BY DEF IInv, RequestsOK
  <2> QED BY <2>1 DEF ChatInv, TablesOK
<1> PICK mine : mine = RowsOf(u)
  OBVIOUS
<1>3. mine \in SUBSET Nat /\ \A i \in mine : i \in DOMAIN log /\ i \in Rows /\ log[i].who = u
  <2>1. \A i \in Rows : i \in DOMAIN log
    BY DEF Rows
  <2>2. \A i \in mine : i \in Rows /\ (log[i].who = u \/ OwnChat(log[i].chat, u))
    BY DEF RowsOf
  <2>3. \A i \in Rows : OwnChat(log[i].chat, u) => log[i].who = u
    BY DEF OwnChat, Live, ChatInv, OwnersOK
  <2> QED BY <1>2, <2>1, <2>2, <2>3
<1>4. /\ erasing' \in [Users -> (SUBSET Nat) \union {NoRow}]
      /\ erasing'[u] = mine /\ \A v \in Users : v # u => erasing'[v] = erasing[v]
  BY <1>1, <1>2, <1>3
<1>5. TablesOK' /\ ErasingOK'
  BY <1>1, <1>3, <1>4 DEF ChatInv, TablesOK, ErasingOK
<1>6. OwnersOK' /\ TurnsAreLogged' /\ RemovedChatsLeaveNoText'
  BY <1>1 DEF ChatInv, OwnersOK, TurnsAreLogged, RemovedChatsLeaveNoText, Live
<1>7. \A s \in Slots : Reliable(req[s])'
  BY <1>1, RequestKnown DEF Reliable
<1>8. \A s, t \in Slots : Agree(req[s], req[t])'
  BY <1>1, RequestKnown DEF Agree
<1> QED BY <1>5, <1>6, <1>7, <1>8 DEF ChatInv

(* The steps of a question between its admission and its end. *)
LEMMA ProgressKeepsChats ==
    ASSUME IInv, ChatInv, NEW s \in Slots, Progress(s)
    PROVE  ChatInv'
<1> PICK r : r = req[s]
  OBVIOUS
<1>1. CASE Count(s)
  <2> PICK k : k = [r EXCEPT !.at = "counted", !.free = CountsAllow(r.user)]
    OBVIOUS
  <2>1. r \in Asking /\ r.at = "asked"
    BY <1>1, RequestShape DEF IInv, Count
  <2>2. k.at = "counted" /\ k.user = r.user /\ k.chat = r.chat
    BY <2>1 DEF Asking
  <2>3. req' = [req EXCEPT ![s] = k] /\ UNCHANGED <<users, chats, log, erasing>>
    BY <1>1 DEF Count
  <2> QED BY <2>1, <2>2, <2>3, RequestGoesOn
<1>2. CASE Refuse(s)
  BY <1>2, RequestEnds DEF Refuse
<1>3. CASE AdmitNew(s) \/ AdmitFollowUp(s) \/ BeginFollowUp(s)
  <2>1. r \in Asking /\ r.at # "idle"
    BY <1>3, RequestShape DEF IInv, AdmitNew, AdmitFollowUp, BeginFollowUp
  <2>2. PICK at \in {"admitted", "answering"} :
            req' = [req EXCEPT ![s].at = at] /\ UNCHANGED <<users, chats, log, erasing>>
    BY <1>3 DEF AdmitNew, AdmitFollowUp, BeginFollowUp
  <2> PICK k : k = [r EXCEPT !.at = at]
    OBVIOUS
  <2>3. k.at = at /\ k.user = r.user /\ k.chat = r.chat
    BY <2>1 DEF Asking
  <2>4. req' = [req EXCEPT ![s] = k]
    BY <2>2
  <2>5. k.at # "logged" /\ req[s].at # "idle" /\ k.user = req[s].user /\ k.chat = req[s].chat
    BY <2>1, <2>3
  <2>6. UNCHANGED <<users, chats, log, erasing>>
    BY <2>2
  <2> QED BY <2>4, <2>5, <2>6, RequestGoesOn
<1>4. ASSUME NEW status \in Statuses, Answer(s, status)
      PROVE  ChatInv'
  <2> PICK k : k = [at |-> "answered", user |-> r.user, chat |-> r.chat, new |-> r.new,
                    stream |-> r.stream, status |-> status, id |-> 0]
    OBVIOUS
  <2>1. r.at = "answering" /\ req' = [req EXCEPT ![s] = k] /\ UNCHANGED <<users, chats, log, erasing>>
    BY <1>4 DEF Answer
  <2>2. k.at # "logged" /\ req[s].at # "idle" /\ k.user = req[s].user /\ k.chat = req[s].chat
    BY <2>1
  <2>3. req' = [req EXCEPT ![s] = k] /\ UNCHANGED <<users, chats, log, erasing>>
    BY <2>1
  <2> QED BY <2>2, <2>3, RequestGoesOn
<1>5. CASE Log(s)
  BY <1>5, LogWrites
<1>6. CASE AddTurn(s)
  BY <1>6, AddTurnWrites
<1>7. CASE EndStream(s)
  BY <1>7, RequestEnds DEF EndStream, Stop
<1>8. CASE Break(s)
  BY <1>8, RequestEnds DEF Break, Stop
<1> QED BY <1>1, <1>2, <1>3, <1>4, <1>5, <1>6, <1>7, <1>8 DEF Progress

(* Whatever step is taken, the invariant of the chats stays. *)
LEMMA ChatStep == IInv /\ ChatInv /\ [Next]_vars => ChatInv'
<1> SUFFICES ASSUME IInv, ChatInv, [Next]_vars
             PROVE  ChatInv'
  OBVIOUS
<1>1. CASE UNCHANGED vars
  <2>1. UNCHANGED <<users, chats, log, req, erasing>> /\ Rows' = Rows
    BY <1>1 DEF vars, Rows
  <2>2. TablesOK' /\ OwnersOK' /\ ErasingOK' /\ TurnsAreLogged' /\ RemovedChatsLeaveNoText'
    BY <2>1 DEF ChatInv, TablesOK, OwnersOK, ErasingOK, TurnsAreLogged, RemovedChatsLeaveNoText, Live
  <2>3. \A s \in Slots : Reliable(req[s])'
    BY <2>1, RequestKnown DEF Reliable
  <2>4. \A s, t \in Slots : Agree(req[s], req[t])'
    BY <2>1, RequestKnown DEF Agree
  <2> QED BY <2>2, <2>3, <2>4 DEF ChatInv
<1> QED BY <1>1, AskFinds, ProgressKeepsChats, RestartForgets, DeleteHides, PurgeBlanks, DeletionNotes,
           AccountGoes, TimePasses DEF Next

(* There are no chats and no questions at first. *)
LEMMA ChatStart == Init => ChatInv
<1> SUFFICES ASSUME Init
             PROVE  ChatInv
  OBVIOUS
<1>1. Rows = {}
  BY EmptySeq DEF Init, Rows
<1>2. TablesOK /\ \A c \in Chats : chats[c] = NoChat
  BY DEF Init, TablesOK
<1>3. OwnersOK /\ TurnsAreLogged /\ RemovedChatsLeaveNoText
  BY <1>1, <1>2 DEF OwnersOK, TurnsAreLogged, RemovedChatsLeaveNoText, Live
<1>4. ErasingOK
  BY DEF Init, ErasingOK
<1>5. \A s \in Slots : req[s].at = "idle"
  BY DEF Init, Idle
<1>6. (\A s \in Slots : Reliable(req[s])) /\ \A s, t \in Slots : Agree(req[s], req[t])
  BY <1>5 DEF Reliable, Agree
<1> QED BY <1>2, <1>3, <1>4, <1>6 DEF ChatInv

(* What a chat shows was logged of it, for the same asker, and a removed chat leaves no
   text in the log: whatever is asked, deleted, cleaned up or broken off meanwhile
   (chat_history.py add_turn, purge; auth_service.py delete_account). *)
THEOREM ChatsShowWhatIsLogged == Spec => []ChatsHold
<1>1. ChatInv => ChatsHold
  BY DEF ChatInv, ChatsHold
<1> QED BY <1>1, InitiallyInv, Inductive, ChatStart, ChatStep, PTL DEF Spec

\* What a step may never do to a chat.
FadesOnly ==
    \A c \in Chats : chats[c] # NoChat =>
        /\ chats'[c] # NoChat
        /\ Rank[chats[c].is] <= Rank[chats'[c].is]
        /\ chats'[c].user = chats[c].user

(* The order of what a chat may be. *)
LEMMA Ranks ==
    /\ Rank["open"] = 0 /\ Rank["deleted"] = 1 /\ Rank["old"] = 2 /\ Rank["purged"] = 3
    /\ \A b \in StoredChat : Rank[b.is] \in 0..3
<1>1. Rank["open"] = 0 /\ Rank["deleted"] = 1 /\ Rank["old"] = 2 /\ Rank["purged"] = 3
  BY DEF Rank
<1> QED BY <1>1 DEF StoredChat

\* A chat stays what it is, or is further gone.
Faded(b, m) ==
    m = b \/ \E to \in {"deleted", "old", "purged"} :
        /\ m = [b EXCEPT !.is = to] \/ m = [b EXCEPT !.is = to, !.turns = {}]
        /\ Rank[b.is] <= Rank[to]

(* Such a chat is its user's, and not the mark of none. *)
LEMMA OneFades ==
    ASSUME NEW b \in StoredChat, NEW m, Faded(b, m)
    PROVE  m # NoChat /\ Rank[b.is] <= Rank[m.is] /\ m.user = b.user
<1>1. CASE m = b
  BY <1>1, Ranks, ChatIsThere
<1>2. CASE \E to \in {"deleted", "old", "purged"} :
              /\ m = [b EXCEPT !.is = to] \/ m = [b EXCEPT !.is = to, !.turns = {}]
              /\ Rank[b.is] <= Rank[to]
  <2> PICK to \in {"deleted", "old", "purged"} :
              /\ m = [b EXCEPT !.is = to] \/ m = [b EXCEPT !.is = to, !.turns = {}]
              /\ Rank[b.is] <= Rank[to]
    BY <1>2
  <2>1. m \in StoredChat /\ m.is = to /\ m.user = b.user
    BY DEF StoredChat
  <2> QED BY <2>1, ChatIsThere
<1> QED BY <1>1, <1>2 DEF Faded

(* A deleted chat never shows again, although answers still under way are added to it,
   and one that was removed is not made anew by them: the foreign key stops it
   (chat_history.py delete, purge, add_turn; auth_service.py delete_account). *)
THEOREM DeletedChatsStayDeleted == Spec => DeletedStaysDeleted
<1>1. IInv /\ ChatInv /\ [Next]_vars => [FadesOnly]_chats
  <2> SUFFICES ASSUME IInv, ChatInv, [Next]_vars, chats' # chats, NEW c \in Chats, chats[c] # NoChat
               PROVE  /\ chats'[c] # NoChat
                      /\ Rank[chats[c].is] <= Rank[chats'[c].is]
                      /\ chats'[c].user = chats[c].user
    BY DEF FadesOnly
  <2>1. chats \in [Chats -> StoredChat \union {NoChat}]
    BY DEF ChatInv, TablesOK
  <2> PICK b \in StoredChat : b = chats[c]
    BY <2>1
  <2> PICK m : m = chats'[c]
    OBVIOUS
  <2>2. ASSUME NEW s \in Slots, AddTurn(s)
        PROVE  /\ m # NoChat /\ Rank[b.is] <= Rank[m.is] /\ m.user = b.user
    <3>1. CASE c = req[s].chat
      <4>1. Live(c)
        BY <2>2, <3>1, TurnGoes
      <4>2. m # NoChat /\ m.is = b.is /\ m.user = b.user
        BY <2>2, <3>1, <4>1, TurnShape, TurnGoes
      <4> QED BY <4>2, Ranks
    <3>2. CASE c # req[s].chat
      <4>1. m = b
        BY <2>2, <3>2, TurnShape
      <4> QED BY <4>1, OneFades DEF Faded
    <3> QED BY <3>1, <3>2
  <2>3. ASSUME NEW d \in Chats, Delete(d)
        PROVE  m = b \/ (m = [b EXCEPT !.is = "deleted"] /\ b.is = "open")
    <3>1. chats' = [chats EXCEPT ![d].is = "deleted"] /\ chats[d].is = "open"
      BY <2>3 DEF Delete
    <3> QED BY <2>1, <3>1
  <2>4. ASSUME Purge
        PROVE  m = b \/ (m = [b EXCEPT !.is = "purged", !.turns = {}])
    BY <2>4 DEF Purge
  <2>5. ASSUME NEW u \in Users, DeleteAccountCommit(u)
        PROVE  m = b \/ (m = [b EXCEPT !.is = "purged", !.turns = {}])
    BY <2>5 DEF DeleteAccountCommit
  <2>6. ASSUME Month
        PROVE  m = b \/ (m = [b EXCEPT !.is = "old"] /\ b.is = "deleted")
    BY <2>6 DEF Month
  <2>7. \/ \E s \in Slots : AddTurn(s)
        \/ \E d \in Chats : Delete(d)
        \/ Purge \/ Month
        \/ \E u \in Users : DeleteAccountCommit(u)
    BY DEF Next, Progress, Ask, Count, Refuse, AdmitNew, AdmitFollowUp, BeginFollowUp, Answer, Log, EndStream,
           Break, Restart, DeleteAccount, Minute, Midnight, vars
  <2>8. m # NoChat /\ Rank[b.is] <= Rank[m.is] /\ m.user = b.user
    <3>1. CASE \E s \in Slots : AddTurn(s)
      BY <2>2, <3>1
    <3>2. Faded(b, m) => m # NoChat /\ Rank[b.is] <= Rank[m.is] /\ m.user = b.user
      BY OneFades
    <3>3. CASE \E d \in Chats : Delete(d)
      <4>1. m = b \/ (m = [b EXCEPT !.is = "deleted"] /\ Rank[b.is] <= Rank["deleted"])
        BY <2>3, <3>3, Ranks
      <4> QED BY <3>2, <4>1 DEF Faded
    <3>4. CASE Purge \/ \E u \in Users : DeleteAccountCommit(u)
      <4>1. m = b \/ (m = [b EXCEPT !.is = "purged", !.turns = {}] /\ Rank[b.is] <= Rank["purged"])
        BY <2>4, <2>5, <3>4, Ranks
      <4> QED BY <3>2, <4>1 DEF Faded
    <3>5. CASE Month
      <4>1. m = b \/ (m = [b EXCEPT !.is = "old"] /\ Rank[b.is] <= Rank["old"])
        BY <2>6, <3>5, Ranks
      <4> QED BY <3>2, <4>1 DEF Faded
    <3> QED BY <2>7, <3>1, <3>3, <3>4, <3>5
  <2> QED BY <2>8
<1>2. [FadesOnly]_chats <=> [\A c \in Chats : chats[c] # NoChat =>
        /\ chats'[c] # NoChat
        /\ Rank[chats[c].is] <= Rank[chats'[c].is]
        /\ chats'[c].user = chats[c].user]_chats
  BY DEF FadesOnly
<1> QED BY <1>1, <1>2, InitiallyInv, Inductive, ChatStart, ChatStep, PTL DEF Spec, DeletedStaysDeleted
=============================================================================
