---------------------------- MODULE AuthSessions -----------------------------
(***************************************************************************)
(* Sign-in of one email address (app/services/auth_service.py): codes sent *)
(* by email, sign-ins of devices, refresh tokens that are replaced on      *)
(* every use, sign-out and deletion of the account.  Requests run at the   *)
(* same time, each a transaction of several statements (READ COMMITTED)    *)
(* that may wait for the rows another one has locked, and may be rolled    *)
(* back at any time.                                                       *)
(*                                                                         *)
(* Codes, sign-ins and tokens are numbered in the order they are made; the *)
(* number of a token stands for its hash.                                  *)
(* Access tokens, which live and end with their sign-in, and the limits    *)
(* per network address are left out.                                       *)
(***************************************************************************)
EXTENDS Naturals, Sequences, FiniteSets

CONSTANTS Requests,    \* requests that may be under way at the same time
          Devices, NoDevice,
          Review,      \* the code of the review account, which no email brings
          Wrong,       \* a code nobody sent
          MaxTries,    \* MAX_WRONG_TRIES
          HourLimit,   \* CODES_PER_EMAIL_HOUR
          MaxCodes,    \* bound: codes made
          MaxLogins,   \* bound: sign-ins
          MaxTokens    \* bound: refresh tokens given out

ASSUME AuthBounds ==
    /\ MaxTries \in Nat \ {0} /\ HourLimit \in Nat \ {0}
    /\ MaxCodes \in Nat /\ MaxLogins \in Nat /\ MaxTokens \in Nat

None == 0              \* no code, no sign-in, no account

ASSUME NamesDiffer == NoDevice \notin Devices /\ Review # Wrong /\ {Review, Wrong} \cap Nat = {}

VARIABLES
    codes,     \* email_codes of the address, in the order of created_at
    account,   \* the id of the address's user, None if there is none
    accounts,  \* how many users the address has had
    logins,    \* auth_sessions
    tokens,    \* refresh tokens given out: their sign-in, and the token each came for
    spent,     \* used_refresh_tokens
    req,       \* request -> where it is and what it has done so far
    replayed   \* sign-ins one of whose spent tokens was presented again (history)

tables == <<codes, account, accounts, logins, tokens, spent>>
vars == <<tables, req, replayed>>

(* The age of a code: within RESEND_AFTER, within CODE_TTL, within the hour, older. *)
New == 0
Old == 3
Expired(code) == code.age >= 2

Code == [state : {"unsaved", "saved", "gone"}, age : New..Old, tries : 0..MaxTries, used : BOOLEAN,
         wrong : Nat]            \* wrong tries answered (history)
Login == [account : Nat, device : Devices, token : Nat,
          state : {"live", "expired", "revoked", "deleted"},
          by : Nat \cup {Review}]   \* the code it was opened with (history)
Token == [login : Nat, from : Nat]

Stages == {"idle", "checked", "mailed", "verify", "right", "user", "login", "save",
           "rotate", "reuse", "logout", "signout", "delete", "codesGone", "cascade"}
Request == [stage : Stages, device : Devices \cup {NoDevice}, given : Nat \cup {Review, Wrong},
            code : Nat \cup {Review}, login : Nat, account : Nat, created : BOOLEAN,
            codes : SUBSET Nat, logins : SUBSET Nat]
Idle == [stage |-> "idle", device |-> NoDevice, given |-> None, code |-> None, login |-> None,
         account |-> None, created |-> FALSE, codes |-> {}, logins |-> {}]

TypeOK ==
    /\ codes \in Seq(Code)
    /\ account \in 0..accounts /\ accounts \in Nat
    /\ logins \in Seq(Login)
    /\ tokens \in Seq(Token)
    /\ spent \subseteq DOMAIN tokens
    /\ req \in [Requests -> Request]
    /\ replayed \subseteq DOMAIN logins

Init ==
    /\ codes = <<>> /\ logins = <<>> /\ tokens = <<>>
    /\ account = None /\ accounts = 0
    /\ spent = {} /\ replayed = {}
    /\ req = [r \in Requests |-> Idle]

-----------------------------------------------------------------------------
(* Locks: the rows another request has locked, and the user row a deletion holds. *)

\* Mutant of CodeIsFree: the code is read without FOR UPDATE.
CodeIsRead(r, i) == TRUE

CodeIsFree(r, i) == \A q \in Requests \ {r} : i \notin req[q].codes

\* Mutant of LoginIsFree: the sign-in is read without FOR UPDATE.
LoginIsRead(r, l) == TRUE

LoginIsFree(r, l) == \A q \in Requests \ {r} : l \notin req[q].logins
UserIsFree(r) == \A q \in Requests \ {r} : req[q].stage # "cascade"

Saved == {i \in DOMAIN codes : codes[i].state = "saved"}
Newest(I) == {i \in I : \A j \in I : j <= i}

Goes(r, stage, to) ==
    /\ req[r].stage = stage
    /\ req' = [req EXCEPT ![r].stage = to]

\* The request ends; with nothing else, it rolled back whatever it had done.
Ends(r) == req' = [req EXCEPT ![r] = Idle]

-----------------------------------------------------------------------------
(* start *)

\* No code in the last minute, not too many in the last hour.
MaySend ==
    /\ \A i \in Saved : codes[i].age # New
    /\ Cardinality({i \in Saved : codes[i].age < Old}) < HourLimit

StartCheck(r) ==
    /\ MaySend
    /\ Goes(r, "idle", "checked")
    /\ UNCHANGED <<tables, replayed>>

\* The code is inserted and the email goes out.
StartMail(r) ==
    /\ req[r].stage = "checked"
    /\ Len(codes) < MaxCodes
    /\ codes' = Append(codes, [state |-> "unsaved", age |-> New, tries |-> 0, used |-> FALSE,
                               wrong |-> 0])
    /\ req' = [req EXCEPT ![r].stage = "mailed", ![r].code = Len(codes) + 1]
    /\ UNCHANGED <<account, accounts, logins, tokens, spent, replayed>>

\* Committed whether the email could be sent or not.
StartCommit(r) ==
    /\ req[r].stage = "mailed"
    /\ codes' = [codes EXCEPT ![req[r].code].state = "saved"]
    /\ Ends(r)
    /\ UNCHANGED <<account, accounts, logins, tokens, spent, replayed>>

-----------------------------------------------------------------------------
(* verify *)

\* The request arrives and picks the newest code, whose row it will lock; the review
\* account's code needs none.
VerifyAsk(r, d, given) ==
    /\ req[r].stage = "idle"
    /\ Len(logins) < MaxLogins /\ Len(tokens) < MaxTokens
    /\ IF given = Review
       THEN req' = [req EXCEPT ![r] = [Idle EXCEPT !.stage = "right", !.device = d,
                                                   !.code = Review]]
       ELSE \E i \in Newest(Saved) :
            req' = [req EXCEPT ![r] = [Idle EXCEPT !.stage = "verify", !.device = d,
                                                   !.given = given, !.code = i]]
    /\ UNCHANGED <<tables, replayed>>

\* Mutant of Locked: one try more.
LockedLate(code) == code.tries > MaxTries

Locked(code) == code.tries >= MaxTries

\* A code that is gone, used, expired or locked: answered, nothing changes.
VerifyRefused(r) ==
    LET i == req[r].code
    IN /\ req[r].stage = "verify"
       /\ CodeIsFree(r, i)
       /\ codes[i].state = "gone" \/ codes[i].used \/ Expired(codes[i]) \/ Locked(codes[i])
       /\ Ends(r)
       /\ UNCHANGED <<tables, replayed>>

Usable(code) == code.state = "saved" /\ ~code.used /\ ~Expired(code) /\ ~Locked(code)

\* A wrong code: one try more, committed.
VerifyWrong(r) ==
    LET i == req[r].code
    IN /\ req[r].stage = "verify"
       /\ CodeIsFree(r, i)
       /\ Usable(codes[i])
       /\ req[r].given # i
       /\ codes' = [codes EXCEPT ![i].tries = @ + 1, ![i].wrong = @ + 1]
       /\ Ends(r)
       /\ UNCHANGED <<account, accounts, logins, tokens, spent, replayed>>

\* The right code: used, and its row locked until the end.
VerifyRight(r) ==
    LET i == req[r].code
    IN /\ req[r].stage = "verify"
       /\ CodeIsFree(r, i)
       /\ Usable(codes[i])
       /\ req[r].given = i
       /\ req' = [req EXCEPT ![r].stage = "right", ![r].codes = {i}]
       /\ UNCHANGED <<tables, replayed>>

\* INSERT ... ON CONFLICT DO NOTHING, which waits for another insert of the address and
\* for a deletion of its user.
InsertUser(r) ==
    /\ req[r].stage = "right"
    /\ \A q \in Requests : ~req[q].created
    /\ UserIsFree(r)
    /\ req' = [req EXCEPT ![r].stage = "user", ![r].created = (account = None),
                          ![r].account = IF account = None THEN accounts + 1 ELSE None]
    /\ UNCHANGED <<tables, replayed>>

\* scalar_one fails when the user was deleted in between.
SelectUser(r) ==
    /\ req[r].stage = "user"
    /\ IF req[r].created \/ account # None
       THEN req' = [req EXCEPT ![r].stage = "login",
                               ![r].account = IF req[r].created THEN @ ELSE account]
       ELSE Ends(r)
    /\ UNCHANGED <<tables, replayed>>

NotRevoked(l) == logins[l].state \in {"live", "expired"}
OnDevice(a, d) == {l \in DOMAIN logins : logins[l].account = a /\ logins[l].device = d /\ NotRevoked(l)}

\* _new_login: earlier sign-ins of the device are revoked.
RevokeEarlier(r) ==
    LET earlier == OnDevice(req[r].account, req[r].device)
    IN /\ req[r].stage = "login"
       /\ \A l \in earlier : LoginIsFree(r, l)
       /\ req' = [req EXCEPT ![r].stage = "save", ![r].logins = earlier]
       /\ UNCHANGED <<tables, replayed>>

\* Mutant of AccountStands: the sign-in's user is not looked up again.
AccountStood(r) == TRUE

\* The foreign key of auth_sessions.
AccountStands(r) == req[r].created \/ req[r].account = account

\* The new sign-in is inserted, which waits for a deletion of its user, and all is committed;
\* or its user is gone, and all is rolled back.
VerifyCommit(r) ==
    /\ req[r].stage = "save"
    /\ UserIsFree(r)
    /\ IF AccountStands(r)
       THEN /\ codes' = [i \in DOMAIN codes |->
                           IF i \in req[r].codes THEN [codes[i] EXCEPT !.used = TRUE] ELSE codes[i]]
            /\ account' = req[r].account
            /\ accounts' = IF req[r].created THEN accounts + 1 ELSE accounts
            /\ tokens' = Append(tokens, [login |-> Len(logins) + 1, from |-> None])
            /\ logins' = Append(
                 [l \in DOMAIN logins |->
                    IF l \in req[r].logins THEN [logins[l] EXCEPT !.state = "revoked"] ELSE logins[l]],
                 [account |-> req[r].account, device |-> req[r].device, token |-> Len(tokens) + 1,
                  state |-> "live", by |-> req[r].code])
       ELSE UNCHANGED <<codes, account, accounts, tokens, logins>>
    /\ Ends(r)
    /\ UNCHANGED <<spent, replayed>>

-----------------------------------------------------------------------------
(* refresh *)

Holder(t) == tokens[t].login
IsCurrent(t) == logins[Holder(t)].token = t /\ logins[Holder(t)].state # "deleted"

\* The token's sign-in is locked if it is good, or looked for among the spent ones.
RefreshAsk(r, t) ==
    /\ req[r].stage = "idle"
    /\ IsCurrent(t) => LoginIsFree(r, Holder(t))
    /\ req' = [req EXCEPT ![r] = [Idle EXCEPT
          !.stage = IF IsCurrent(t) /\ logins[Holder(t)].state = "live" THEN "rotate" ELSE "reuse",
          !.given = t, !.login = Holder(t),
          !.logins = IF IsCurrent(t) THEN {Holder(t)} ELSE {}]]
    /\ UNCHANGED <<tables, replayed>>

\* The token is spent and the sign-in has a new one.
RefreshCommit(r) ==
    LET l == req[r].login
    IN /\ req[r].stage = "rotate"
       /\ Len(tokens) < MaxTokens
       /\ spent' = spent \cup {req[r].given}
       /\ tokens' = Append(tokens, [login |-> l, from |-> req[r].given])
       /\ logins' = [logins EXCEPT ![l].token = Len(tokens) + 1]
       /\ Ends(r)
       /\ UNCHANGED <<codes, account, accounts, replayed>>

\* Mutant of RefreshReuse: a spent token is refused and nothing else.
RefreshReuseForgives(r) ==
    /\ req[r].stage = "reuse"
    /\ replayed' = IF req[r].given \in spent THEN replayed \cup {req[r].login} ELSE replayed
    /\ Ends(r)
    /\ UNCHANGED tables

\* A spent token was copied, or sent again after its answer was lost: its sign-in ends.
RefreshReuse(r) ==
    LET l == req[r].login
    IN /\ req[r].stage = "reuse"
       /\ IF req[r].given \in spent
          THEN /\ LoginIsFree(r, l)
               /\ logins' = [logins EXCEPT ![l].state = IF NotRevoked(l) THEN "revoked" ELSE @]
               /\ replayed' = replayed \cup {l}
          ELSE UNCHANGED <<logins, replayed>>
       /\ Ends(r)
       /\ UNCHANGED <<codes, account, accounts, tokens, spent>>

-----------------------------------------------------------------------------
(* The signed-in caller: logout, sign_out_device, delete_account *)

Call(r, l, what, d) ==
    /\ req[r].stage = "idle"
    /\ logins[l].state = "live"
    /\ req' = [req EXCEPT ![r] = [Idle EXCEPT !.stage = what, !.login = l, !.device = d,
                                              !.account = logins[l].account]]
    /\ UNCHANGED <<tables, replayed>>

\* A sign-in whose row is gone by now is an error.
Logout(r) ==
    LET l == req[r].login
    IN /\ req[r].stage = "logout"
       /\ LoginIsFree(r, l)
       /\ logins' = [logins EXCEPT ![l].state = IF @ = "deleted" THEN @ ELSE "revoked"]
       /\ Ends(r)
       /\ UNCHANGED <<codes, account, accounts, tokens, spent, replayed>>

SignOutDevice(r) ==
    LET there == OnDevice(req[r].account, req[r].device)
    IN /\ req[r].stage = "signout"
       /\ \A l \in there : LoginIsFree(r, l)
       /\ logins' = [l \in DOMAIN logins |->
                       IF l \in there THEN [logins[l] EXCEPT !.state = "revoked"] ELSE logins[l]]
       /\ Ends(r)
       /\ UNCHANGED <<codes, account, accounts, tokens, spent, replayed>>

\* delete_account: the codes, then the user, then by cascade its sign-ins.
DeleteCodes(r) ==
    /\ req[r].stage = "delete"
    /\ \A i \in Saved : CodeIsFree(r, i)
    /\ req' = [req EXCEPT ![r].stage = "codesGone", ![r].codes = Saved]
    /\ UNCHANGED <<tables, replayed>>

DeleteUser(r) ==
    /\ UserIsFree(r)
    /\ Goes(r, "codesGone", "cascade")
    /\ UNCHANGED <<tables, replayed>>

OfAccount(a) == {l \in DOMAIN logins : logins[l].account = a}

DeleteCommit(r) ==
    LET mine == OfAccount(req[r].account)
    IN /\ req[r].stage = "cascade"
       /\ \A l \in mine : LoginIsFree(r, l)
       /\ codes' = [i \in DOMAIN codes |->
                      IF i \in req[r].codes THEN [codes[i] EXCEPT !.state = "gone"] ELSE codes[i]]
       /\ account' = IF account = req[r].account THEN None ELSE account
       /\ logins' = [l \in DOMAIN logins |->
                       IF l \in mine THEN [logins[l] EXCEPT !.state = "deleted"] ELSE logins[l]]
       /\ spent' = {t \in spent : Holder(t) \notin mine}
       /\ Ends(r)
       /\ UNCHANGED <<accounts, tokens, replayed>>

-----------------------------------------------------------------------------
\* An error, a lost connection or a deadlock found by PostgreSQL: rolled back.
RollBack(r) ==
    /\ req[r].stage # "idle"
    /\ codes' = [i \in DOMAIN codes |->
                   IF codes[i].state = "unsaved" /\ req[r].code = i
                   THEN [codes[i] EXCEPT !.state = "gone"] ELSE codes[i]]
    /\ Ends(r)
    /\ UNCHANGED <<account, accounts, logins, tokens, spent, replayed>>

\* Time passes for a code, none younger than those after it; one older than an hour, or
\* removed after a day, is expired either way.
CodeAges(i) ==
    /\ codes[i].age < Old
    /\ \A j \in 1..(i - 1) : codes[j].age > codes[i].age
    /\ codes' = [codes EXCEPT ![i].age = @ + 1]
    /\ UNCHANGED <<account, accounts, logins, tokens, spent, req, replayed>>

\* Half a year without a refresh.
LoginExpires(l) ==
    /\ logins[l].state = "live"
    /\ \A r \in Requests : req[r].stage = "idle"
    /\ logins' = [logins EXCEPT ![l].state = "expired"]
    /\ UNCHANGED <<codes, account, accounts, tokens, spent, req, replayed>>

\* cleanup: sign-ins long over, with their spent tokens.
Cleanup(l) ==
    /\ logins[l].state \in {"expired", "revoked"}
    /\ \A r \in Requests : req[r].stage = "idle"
    /\ logins' = [logins EXCEPT ![l].state = "deleted"]
    /\ spent' = {t \in spent : Holder(t) # l}
    /\ UNCHANGED <<codes, account, accounts, tokens, req, replayed>>

-----------------------------------------------------------------------------
Start(r) == StartCheck(r) \/ StartMail(r) \/ StartCommit(r)

Verify(r) ==
    \/ \E d \in Devices, given \in DOMAIN codes \cup {Review, Wrong} : VerifyAsk(r, d, given)
    \/ VerifyRefused(r) \/ VerifyWrong(r) \/ VerifyRight(r)
    \/ InsertUser(r) \/ SelectUser(r) \/ RevokeEarlier(r) \/ VerifyCommit(r)

Refresh(r) ==
    \/ \E t \in DOMAIN tokens : RefreshAsk(r, t)
    \/ RefreshCommit(r) \/ RefreshReuse(r)

Account(r) ==
    \/ \E l \in DOMAIN logins :
        \/ Call(r, l, "logout", NoDevice) \/ Call(r, l, "delete", NoDevice)
        \/ \E d \in Devices : Call(r, l, "signout", d)
    \/ Logout(r) \/ SignOutDevice(r)
    \/ DeleteCodes(r) \/ DeleteUser(r) \/ DeleteCommit(r)

Next ==
    \/ \E r \in Requests : Start(r) \/ Verify(r) \/ Refresh(r) \/ Account(r) \/ RollBack(r)
    \/ \E i \in DOMAIN codes : CodeAges(i)
    \/ \E l \in DOMAIN logins : LoginExpires(l) \/ Cleanup(l)

Spec == Init /\ [][Next]_vars

-----------------------------------------------------------------------------
(* Properties *)

(* "A right code works once only" (docs/accounts_sync_spec.md): no code opens two
   sign-ins, however many requests carry it at once. *)
CodeWorksOnce ==
    \A l, m \in DOMAIN logins : l # m /\ logins[l].by # Review => logins[l].by # logins[m].by

(* "After 5 wrong tries the code is dead": no more wrong tries are answered, and a code
   that had them opens no sign-in, concurrent tries included. *)
TriesKillACode ==
    /\ \A i \in DOMAIN codes : codes[i].wrong <= MaxTries
    /\ \A l \in DOMAIN logins : logins[l].by # Review => codes[logins[l].by].wrong < MaxTries

(* Rotation: a refresh token is exchanged for one other token at most, so the tokens of a
   sign-in form one chain. *)
TokensFormAChain ==
    \A s, t \in DOMAIN tokens : s # t /\ tokens[s].from # None => tokens[s].from # tokens[t].from

(* "if an already-used refresh token comes back, it has been copied. Revoke the whole login
   session": once a spent token was presented the sign-in is over, whatever other refreshes
   were under way. *)
ReuseEndsLogin == \A l \in replayed : logins[l].state \in {"revoked", "deleted"}

(* The four together: one code, one sign-in; one token, one successor; whatever requests of
   one address interleave (auth_service.py verify, refresh). *)
SignInHolds == CodeWorksOnce /\ TriesKillACode /\ TokensFormAChain /\ ReuseEndsLogin

(* No sign-in gets a new token once it was revoked, expired or deleted, and none comes back
   to life. *)
EndedLoginsStayEnded ==
    [][\A l \in DOMAIN logins :
          logins[l].state # "live" =>
            logins'[l].token = logins[l].token /\ logins'[l].state # "live"]_vars

(* A deleted account leaves no sign-in behind, not even of a verification that was under
   way: every sign-in there is belongs to the address's user. *)
NothingOutlivesTheAccount ==
    \A l \in DOMAIN logins : logins[l].state # "deleted" => logins[l].account = account

=============================================================================
