----------------------------- MODULE AuthProofs ------------------------------
(***************************************************************************)
(* Proofs about sign-in: that a code opens one sign-in and its tries kill  *)
(* it, that refresh tokens form a chain whose reuse ends the sign-in, that *)
(* an ended sign-in stays ended and that none outlives the account; for    *)
(* any number of requests under way at once, devices, codes and tokens.    *)
(***************************************************************************)
EXTENDS AuthSessions, SequenceTheorems, TLAPS

-----------------------------------------------------------------------------
(* The inductive invariant.                                                *)

\* The types of the tables, the requests apart.
TablesTyped ==
    /\ codes \in Seq(Code)
    /\ account \in 0..accounts /\ accounts \in Nat
    /\ logins \in Seq(Login)
    /\ tokens \in Seq(Token)
    /\ spent \subseteq DOMAIN tokens
    /\ replayed \subseteq DOMAIN logins

\* A wrong answer is a try; a code that opened a sign-in is used, and had tries left.
CodesOK ==
    /\ \A i \in DOMAIN codes : codes[i].wrong = codes[i].tries
    /\ \A l \in DOMAIN logins : logins[l].by # Review =>
            /\ logins[l].by \in DOMAIN codes
            /\ codes[logins[l].by].used /\ codes[logins[l].by].wrong < MaxTries
    /\ CodeWorksOnce

\* A sign-in has one of its own tokens, and none that was exchanged already.
LoginsOK ==
    /\ \A l \in DOMAIN logins :
            logins[l].account # None /\ logins[l].token \in DOMAIN tokens /\ Holder(logins[l].token) = l
    /\ \A t \in DOMAIN tokens :
            /\ Holder(t) \in DOMAIN logins /\ tokens[t].from < t
            /\ \A l \in DOMAIN logins : tokens[t].from # logins[l].token
    /\ TokensFormAChain /\ ReuseEndsLogin
    /\ NothingOutlivesTheAccount

Tables == TablesTyped /\ CodesOK /\ LoginsOK

\* What a request has found out is still so: its locks see to it.
Opening == {"right", "user", "login", "save"}
Stands(k) ==
    /\ k.stage \in {"mailed", "verify"} => k.code \in DOMAIN codes
    /\ k.stage \in Opening \union {"verify"} => k.device \in Devices
    /\ k.stage \in Opening /\ k.code # Review =>
            /\ k.code \in DOMAIN codes /\ k.code \in k.codes
            /\ ~codes[k.code].used /\ codes[k.code].wrong < MaxTries
    /\ k.stage \in {"login", "save"} => k.account # None
    /\ k.created => k.stage \in {"user", "login", "save"} /\ account = None /\ k.account = accounts + 1
    /\ k.stage = "save" => \A l \in k.logins : l \in DOMAIN logins /\ logins[l].state # "deleted"
    /\ k.stage = "rotate" =>
            /\ k.login \in k.logins /\ k.login \in DOMAIN logins /\ k.given \in DOMAIN tokens
            /\ logins[k.login].state = "live" /\ logins[k.login].token = k.given
    /\ k.stage \in {"reuse", "logout"} => k.login \in DOMAIN logins

\* Two requests never hold the same row, and never both insert the user.
Apart(j, k) ==
    /\ j.codes \intersect k.codes = {} /\ j.logins \intersect k.logins = {}
    /\ ~(j.created /\ k.created)

AuthInv ==
    /\ Tables
    /\ req \in [Requests -> Request]
    /\ \A r \in Requests : Stands(req[r])
    /\ \A q, r \in Requests : q # r => Apart(req[q], req[r])

-----------------------------------------------------------------------------
(* Lemmas about requests.                                                  *)

(* A request that is over, or has not begun, holds nothing. *)
LEMMA IdleIsFree ==
    /\ Idle \in Request /\ Stands(Idle) /\ Stands(Idle)'
    /\ \A k : Apart(Idle, k) /\ Apart(k, Idle)
<1>1. Idle \in Request
  BY DEF Idle, Request, Stages, None
<1>2. Idle.stage = "idle" /\ Idle.created = FALSE /\ Idle.codes = {} /\ Idle.logins = {}
  BY DEF Idle
<1>3. Stands(Idle) /\ Stands(Idle)'
  BY <1>2 DEF Stands, Opening
<1> QED BY <1>1, <1>2, <1>3 DEF Apart

\* The requests that are under way beside one.
Others(r) == {req[q] : q \in Requests \ {r}}

(* What is known of a request and of the others. *)
LEMMA Known ==
    ASSUME AuthInv, NEW r \in Requests
    PROVE  /\ req[r] \in Request /\ Stands(req[r])
           /\ \A q \in Requests \ {r} :
                req[q] \in Request /\ Stands(req[q]) /\ Apart(req[r], req[q]) /\ Apart(req[q], req[r])
           /\ \A j \in Others(r) :
                j \in Request /\ Stands(j) /\ Apart(req[r], j) /\ Apart(j, req[r])
<1>1. \A q \in Requests : req[q] \in Request /\ Stands(req[q])
  BY DEF AuthInv
<1>2. \A q \in Requests \ {r} : Apart(req[r], req[q]) /\ Apart(req[q], req[r])
  BY DEF AuthInv
<1> QED BY <1>1, <1>2 DEF Others

(* A step of one request: the tables stay right, and what the others found out stands. *)
LEMMA Stepping ==
    ASSUME AuthInv, Tables', NEW r \in Requests, NEW k \in Request,
           req' = [req EXCEPT ![r] = k], Stands(k)',
           \A q \in Requests \ {r} : Apart(k, req[q]) /\ Apart(req[q], k),
           \A j \in Others(r) : Stands(j)'
    PROVE  AuthInv'
<1>1. req \in [Requests -> Request]
  BY DEF AuthInv
<1>2. req' \in [Requests -> Request] /\ req'[r] = k /\ \A q \in Requests \ {r} : req'[q] = req[q]
  BY <1>1
<1>3. \A q \in Requests : Stands(req[q])'
  <2> TAKE q \in Requests
  <2>1. CASE q = r
    <3>1. req'[q] = k
      BY <1>2, <2>1
    <3> QED BY <3>1 DEF Stands
  <2>2. CASE q # r
    <3> PICK j \in Request : j = req[q]
      BY <1>1
    <3>1. req'[q] = j /\ j \in Others(r)
      BY <1>2, <2>2 DEF Others
    <3>2. Stands(j)'
      BY <3>1
    <3> QED BY <3>1, <3>2 DEF Stands
  <2> QED BY <2>1, <2>2
<1>4. \A p, q \in Requests : p # q => Apart(req'[p], req'[q])
  BY <1>2 DEF AuthInv
<1>5. \A p, q \in Requests : p # q => Apart(req[p], req[q])'
  BY <1>4 DEF Apart
<1> QED BY <1>2, <1>3, <1>5 DEF AuthInv

(* A step that changes nothing but the request. *)
LEMMA OnlyRequest ==
    ASSUME AuthInv, UNCHANGED <<tables, replayed>>, NEW r \in Requests, NEW k \in Request,
           req' = [req EXCEPT ![r] = k], Stands(k),
           \A q \in Requests \ {r} : Apart(k, req[q]) /\ Apart(req[q], k)
    PROVE  AuthInv'
<1>1. UNCHANGED <<codes, account, accounts, logins, tokens, spent, replayed>>
  BY DEF tables
<1>2. TablesTyped' /\ CodesOK' /\ LoginsOK'
  BY <1>1 DEF AuthInv, Tables, TablesTyped, CodesOK, CodeWorksOnce, LoginsOK, Holder, TokensFormAChain,
              ReuseEndsLogin, NothingOutlivesTheAccount
<1>3. \A j : Stands(j) => Stands(j)'
  BY <1>1 DEF Stands
<1>4. Stands(k)'
  BY <1>3
<1>5. \A j \in Others(r) : Stands(j)'
  BY <1>3, Known
<1> QED BY <1>2, <1>4, <1>5, Stepping DEF Tables

(* A request that keeps its locks, and inserts no user, stays apart from the others. *)
LEMMA StaysApart ==
    ASSUME AuthInv, NEW r \in Requests, NEW k,
           k.codes = req[r].codes, k.logins = req[r].logins, k.created => req[r].created
    PROVE  \A q \in Requests \ {r} : Apart(k, req[q]) /\ Apart(req[q], k)
BY Known DEF Apart

(* The request ends: its locks are free, and what the others found out stands. *)
LEMMA Ending ==
    ASSUME AuthInv, Tables', NEW r \in Requests, Ends(r),
           \A j \in Others(r) : Stands(j)'
    PROVE  AuthInv'
<1>1. req' = [req EXCEPT ![r] = Idle]
  BY DEF Ends
<1> QED BY <1>1, IdleIsFree, Stepping

(* A request that ends with nothing written. *)
LEMMA EndingAside ==
    ASSUME AuthInv, UNCHANGED <<tables, replayed>>, NEW r \in Requests, Ends(r)
    PROVE  AuthInv'
<1>1. req' = [req EXCEPT ![r] = Idle]
  BY DEF Ends
<1> QED BY <1>1, IdleIsFree, OnlyRequest

-----------------------------------------------------------------------------
(* The steps that only find something out.                                 *)

(* A request that goes on to a stage that asks for nothing. *)
LEMMA GoesOn ==
    ASSUME AuthInv, UNCHANGED <<tables, replayed>>, NEW r \in Requests,
           NEW to \in {"checked", "cascade"}, req[r].stage \in {"idle", "codesGone"},
           req' = [req EXCEPT ![r].stage = to]
    PROVE  AuthInv'
<1> DEFINE j == req[r]
           k == [j EXCEPT !.stage = to]
<1>1. j \in Request /\ Stands(j)
  BY Known
<1>2. req' = [req EXCEPT ![r] = k]
  OBVIOUS
<1>3. k \in Request /\ k.stage = to /\ k.codes = j.codes /\ k.logins = j.logins /\ k.created = j.created
  BY <1>1 DEF Request, Stages
<1>4. ~j.created
  BY <1>1 DEF Stands
<1> HIDE DEF k
<1>5. Stands(k)
  BY <1>3, <1>4 DEF Stands, Opening
<1>6. \A q \in Requests \ {r} : Apart(k, req[q]) /\ Apart(req[q], k)
  BY <1>3, StaysApart
<1> QED BY <1>2, <1>3, <1>5, <1>6, OnlyRequest

(* verify takes the newest code of the address, or needs none. *)
LEMMA VerifyAskKeeps ==
    ASSUME AuthInv, NEW r \in Requests, NEW d \in Devices, NEW given \in DOMAIN codes \cup {Review, Wrong},
           VerifyAsk(r, d, given)
    PROVE  AuthInv'
<1>1. UNCHANGED <<tables, replayed>> /\ DOMAIN codes \subseteq Nat
  <2>1. codes \in Seq(Code)
    BY DEF AuthInv, Tables, TablesTyped
  <2>2. DOMAIN codes \subseteq Nat
    BY <2>1
  <2> QED BY <2>2 DEF VerifyAsk
<1>2. CASE given = Review
  <2> DEFINE k == [Idle EXCEPT !.stage = "right", !.device = d, !.code = Review]
  <2>1. req' = [req EXCEPT ![r] = k]
    BY <1>2 DEF VerifyAsk
  <2>2. k \in Request /\ k.stage = "right" /\ k.device = d /\ k.code = Review /\ k.created = FALSE
        /\ k.codes = {} /\ k.logins = {}
    BY DEF Idle, Request, Stages, None
  <2> HIDE DEF k
  <2>3. Stands(k)
    BY <2>2 DEF Stands, Opening
  <2>4. \A q \in Requests \ {r} : Apart(k, req[q]) /\ Apart(req[q], k)
    BY <2>2 DEF Apart
  <2> QED BY <1>1, <2>1, <2>2, <2>3, <2>4, OnlyRequest
<1>3. CASE given # Review
  <2>1. PICK i \in Newest(Saved) :
            req' = [req EXCEPT ![r] = [Idle EXCEPT !.stage = "verify", !.device = d,
                                                   !.given = given, !.code = i]]
    BY <1>3 DEF VerifyAsk
  <2> DEFINE k == [Idle EXCEPT !.stage = "verify", !.device = d, !.given = given, !.code = i]
  <2>2. i \in DOMAIN codes /\ i \in Nat /\ given \in Nat \cup {Review, Wrong}
    BY <1>1 DEF Newest, Saved
  <2>3. req' = [req EXCEPT ![r] = k]
    BY <2>1
  <2>4. k \in Request /\ k.stage = "verify" /\ k.code = i /\ k.device = d /\ k.created = FALSE
        /\ k.codes = {} /\ k.logins = {}
    BY <2>2 DEF Idle, Request, Stages, None
  <2> HIDE DEF k
  <2>5. Stands(k)
    BY <2>2, <2>4 DEF Stands, Opening
  <2>6. \A q \in Requests \ {r} : Apart(k, req[q]) /\ Apart(req[q], k)
    BY <2>4 DEF Apart
  <2> QED BY <1>1, <2>3, <2>4, <2>5, <2>6, OnlyRequest
<1> QED BY <1>2, <1>3

(* The right code is locked: nobody else opens a sign-in with it. *)
LEMMA VerifyRightKeeps ==
    ASSUME AuthInv, NEW r \in Requests, VerifyRight(r)
    PROVE  AuthInv'
<1> DEFINE j == req[r]
           i == j.code
           k == [j EXCEPT !.stage = "right", !.codes = {i}]
<1>1. j \in Request /\ Stands(j) /\ j.stage = "verify" /\ UNCHANGED <<tables, replayed>>
  BY Known DEF VerifyRight
<1>2. i \in DOMAIN codes /\ i \in Nat /\ codes[i] \in Code
  BY <1>1 DEF Stands, AuthInv, Tables, TablesTyped
<1>3. ~codes[i].used /\ ~(codes[i].tries >= MaxTries) /\ CodeIsFree(r, i)
  BY DEF VerifyRight, Usable, Locked
<1>4. codes[i].wrong < MaxTries
  BY <1>2, <1>3, AuthBounds DEF AuthInv, Tables, CodesOK, Code
<1>5. req' = [req EXCEPT ![r] = k]
  BY DEF VerifyRight
<1>6. j.created = FALSE /\ j.device \in Devices \cup {NoDevice} /\ j.logins \in SUBSET Nat
  BY <1>1 DEF Request, Stands
<1>7. k \in Request /\ k.stage = "right" /\ k.codes = {i} /\ k.logins = j.logins /\ k.created = FALSE
      /\ k.code = i /\ k.device = j.device
  BY <1>1, <1>2, <1>6 DEF Request, Stages
<1> HIDE DEF k
<1>8. Stands(k)
  <2>1. j.device \in Devices
    BY <1>1 DEF Stands
  <2> QED BY <1>2, <1>3, <1>4, <1>7, <2>1 DEF Stands, Opening
<1>9. \A q \in Requests \ {r} : Apart(k, req[q]) /\ Apart(req[q], k)
  BY <1>3, <1>7, Known DEF Apart, CodeIsFree
<1> QED BY <1>1, <1>5, <1>7, <1>8, <1>9, OnlyRequest

(* One insert of the user at a time: who inserts it has seen that there is none. *)
LEMMA InsertUserKeeps ==
    ASSUME AuthInv, NEW r \in Requests, InsertUser(r)
    PROVE  AuthInv'
<1> DEFINE j == req[r]
           k == [j EXCEPT !.stage = "user", !.created = (account = None),
                          !.account = IF account = None THEN accounts + 1 ELSE None]
<1>1. j \in Request /\ Stands(j) /\ j.stage = "right" /\ UNCHANGED <<tables, replayed>>
  BY Known DEF InsertUser
<1>2. req' = [req EXCEPT ![r] = k] /\ \A q \in Requests : ~req[q].created
  BY DEF InsertUser
<1>3. accounts + 1 \in Nat /\ None \in Nat /\ accounts + 1 # None
  BY DEF AuthInv, Tables, TablesTyped, None
<1>4. k \in Request /\ k.stage = "user" /\ k.codes = j.codes /\ k.logins = j.logins
      /\ k.created = (account = None) /\ k.code = j.code /\ k.device = j.device
      /\ k.account = IF account = None THEN accounts + 1 ELSE None
  BY <1>1, <1>3 DEF Request, Stages
<1> HIDE DEF k
<1>5. Stands(k)
  BY <1>1, <1>4 DEF Stands, Opening
<1>6. \A q \in Requests \ {r} : Apart(k, req[q]) /\ Apart(req[q], k)
  BY <1>2, <1>4, Known DEF Apart
<1> QED BY <1>1, <1>2, <1>4, <1>5, <1>6, OnlyRequest

(* The user is there, or has just been inserted; or verify fails. *)
LEMMA SelectUserKeeps ==
    ASSUME AuthInv, NEW r \in Requests, SelectUser(r)
    PROVE  AuthInv'
<1> DEFINE j == req[r]
           k == [j EXCEPT !.stage = "login", !.account = IF j.created THEN j.account ELSE account]
<1>1. j \in Request /\ Stands(j) /\ j.stage = "user" /\ UNCHANGED <<tables, replayed>>
  BY Known DEF SelectUser
<1>2. account \in Nat /\ accounts \in Nat
  BY DEF AuthInv, Tables, TablesTyped
<1>3. CASE j.created \/ account # None
  <2>1. req' = [req EXCEPT ![r] = k]
    BY <1>3 DEF SelectUser
  <2>2. k \in Request /\ k.stage = "login" /\ k.codes = j.codes /\ k.logins = j.logins
        /\ k.created = j.created /\ k.code = j.code /\ k.device = j.device
        /\ k.account = IF j.created THEN j.account ELSE account
    BY <1>1, <1>2 DEF Request, Stages
  <2> HIDE DEF k
  <2>3. k.account # None
    BY <1>1, <1>2, <1>3, <2>2 DEF Stands, None
  <2>4. Stands(k)
    BY <1>1, <2>2, <2>3 DEF Stands, Opening
  <2>5. \A q \in Requests \ {r} : Apart(k, req[q]) /\ Apart(req[q], k)
    BY <2>2, StaysApart
  <2> QED BY <1>1, <2>1, <2>2, <2>4, <2>5, OnlyRequest
<1>4. CASE ~(j.created \/ account # None)
  BY <1>1, <1>4, EndingAside DEF SelectUser
<1> QED BY <1>3, <1>4

(* The earlier sign-ins of the device are locked: none of them can be deleted meanwhile. *)
LEMMA RevokeEarlierKeeps ==
    ASSUME AuthInv, NEW r \in Requests, RevokeEarlier(r)
    PROVE  AuthInv'
<1> DEFINE j == req[r]
           earlier == OnDevice(j.account, j.device)
           k == [j EXCEPT !.stage = "save", !.logins = earlier]
<1>1. j \in Request /\ Stands(j) /\ j.stage = "login" /\ UNCHANGED <<tables, replayed>>
  BY Known DEF RevokeEarlier
<1>2. req' = [req EXCEPT ![r] = k] /\ \A l \in earlier : LoginIsFree(r, l)
  BY DEF RevokeEarlier
<1>3. earlier \in SUBSET Nat /\ \A l \in earlier : l \in DOMAIN logins /\ logins[l].state # "deleted"
  <2>1. logins \in Seq(Login)
    BY DEF AuthInv, Tables, TablesTyped
  <2>2. DOMAIN logins \subseteq Nat
    BY <2>1
  <2> QED BY <2>2 DEF OnDevice, NotRevoked
<1> HIDE DEF earlier
<1>4. k \in Request /\ k.stage = "save" /\ k.codes = j.codes /\ k.logins = earlier
      /\ k.created = j.created /\ k.code = j.code /\ k.device = j.device /\ k.account = j.account
  BY <1>1, <1>3 DEF Request, Stages
<1> HIDE DEF k
<1>5. Stands(k)
  BY <1>1, <1>3, <1>4 DEF Stands, Opening
<1>6. \A q \in Requests \ {r} : Apart(k, req[q]) /\ Apart(req[q], k)
  BY <1>2, <1>4, Known DEF Apart, LoginIsFree
<1> QED BY <1>1, <1>2, <1>4, <1>5, <1>6, OnlyRequest

(* refresh locks the sign-in whose token is presented; a token that is no sign-in's is
   looked for among the spent ones. *)
LEMMA RefreshAskKeeps ==
    ASSUME AuthInv, NEW r \in Requests, NEW t \in DOMAIN tokens, RefreshAsk(r, t)
    PROVE  AuthInv'
<1> DEFINE stage == IF IsCurrent(t) /\ logins[Holder(t)].state = "live" THEN "rotate" ELSE "reuse"
           held == IF IsCurrent(t) THEN {Holder(t)} ELSE {}
           l == Holder(t)
           k == [Idle EXCEPT !.stage = stage, !.given = t, !.login = l, !.logins = held]
<1>1. UNCHANGED <<tables, replayed>> /\ req' = [req EXCEPT ![r] = k]
      /\ (IsCurrent(t) => LoginIsFree(r, l))
  BY DEF RefreshAsk
<1>2. l \in DOMAIN logins /\ l \in Nat /\ t \in Nat
  <2>1. logins \in Seq(Login) /\ tokens \in Seq(Token)
    BY DEF AuthInv, Tables, TablesTyped
  <2>2. DOMAIN logins \subseteq Nat /\ DOMAIN tokens \subseteq Nat
    BY <2>1
  <2> QED BY <2>2 DEF AuthInv, Tables, LoginsOK
<1>3. stage \in {"rotate", "reuse"} /\ held \in SUBSET {l}
      /\ (stage = "rotate" => held = {l} /\ logins[l].token = t /\ logins[l].state = "live")
      /\ (held # {} => LoginIsFree(r, l))
  BY <1>1 DEF IsCurrent
<1> HIDE DEF stage, held, l
<1>4. k \in Request /\ k.stage = stage /\ k.given = t /\ k.login = l /\ k.logins = held
      /\ k.codes = {} /\ k.created = FALSE
  BY <1>2, <1>3 DEF Idle, Request, Stages, None
<1> HIDE DEF k
<1>5. Stands(k)
  BY <1>2, <1>3, <1>4 DEF Stands, Opening
<1>6. \A q \in Requests \ {r} : Apart(k, req[q]) /\ Apart(req[q], k)
  BY <1>3, <1>4 DEF Apart, LoginIsFree
<1> QED BY <1>1, <1>4, <1>5, <1>6, OnlyRequest

(* The signed-in caller is looked up; nothing is locked. *)
LEMMA CallKeeps ==
    ASSUME AuthInv, NEW r \in Requests, NEW l \in DOMAIN logins, NEW what \in {"logout", "signout", "delete"},
           NEW d \in Devices \cup {NoDevice}, Call(r, l, what, d)
    PROVE  AuthInv'
<1> DEFINE a == logins[l].account
           k == [Idle EXCEPT !.stage = what, !.login = l, !.device = d, !.account = a]
<1>1. UNCHANGED <<tables, replayed>> /\ req' = [req EXCEPT ![r] = k]
  BY DEF Call
<1>2. l \in Nat /\ a \in Nat
  <2>1. logins \in Seq(Login)
    BY DEF AuthInv, Tables, TablesTyped
  <2>2. l \in Nat /\ logins[l] \in Login
    BY <2>1
  <2> QED BY <2>2 DEF Login
<1> HIDE DEF a
<1>3. k \in Request /\ k.stage = what /\ k.login = l /\ k.codes = {} /\ k.logins = {} /\ k.created = FALSE
  BY <1>2 DEF Idle, Request, Stages, None
<1> HIDE DEF k
<1>4. Stands(k)
  BY <1>3 DEF Stands, Opening
<1>5. \A q \in Requests \ {r} : Apart(k, req[q]) /\ Apart(req[q], k)
  BY <1>3 DEF Apart
<1> QED BY <1>1, <1>3, <1>4, <1>5, OnlyRequest

(* delete_account locks the codes it removes. *)
LEMMA DeleteCodesKeeps ==
    ASSUME AuthInv, NEW r \in Requests, DeleteCodes(r)
    PROVE  AuthInv'
<1> DEFINE j == req[r]
           all == Saved
           k == [j EXCEPT !.stage = "codesGone", !.codes = all]
<1>1. j \in Request /\ Stands(j) /\ j.stage = "delete" /\ UNCHANGED <<tables, replayed>>
  BY Known DEF DeleteCodes
<1>2. req' = [req EXCEPT ![r] = k] /\ \A i \in all : CodeIsFree(r, i)
  BY DEF DeleteCodes
<1>3. all \in SUBSET Nat
  <2>1. codes \in Seq(Code)
    BY DEF AuthInv, Tables, TablesTyped
  <2>2. DOMAIN codes \subseteq Nat
    BY <2>1
  <2> QED BY <2>2 DEF Saved
<1> HIDE DEF all
<1>4. k \in Request /\ k.stage = "codesGone" /\ k.codes = all /\ k.logins = j.logins /\ k.created = j.created
  BY <1>1, <1>3 DEF Request, Stages
<1> HIDE DEF k
<1>5. Stands(k)
  BY <1>1, <1>4 DEF Stands, Opening
<1>6. \A q \in Requests \ {r} : Apart(k, req[q]) /\ Apart(req[q], k)
  BY <1>2, <1>4, Known DEF Apart, CodeIsFree
<1> QED BY <1>1, <1>2, <1>4, <1>5, <1>6, OnlyRequest

-----------------------------------------------------------------------------
(* The steps that write codes.                                             *)

(* Codes that are new, saved, older, gone or tried: a used one keeps its tries. *)
LEMMA CodesChange ==
    ASSUME AuthInv, UNCHANGED <<account, accounts, logins, tokens, spent, replayed>>,
           codes' \in Seq(Code), DOMAIN codes \subseteq DOMAIN codes',
           \A i \in DOMAIN codes' : codes'[i].wrong = codes'[i].tries,
           \A i \in DOMAIN codes : /\ codes'[i].used = codes[i].used
                                   /\ codes[i].used => codes'[i].wrong = codes[i].wrong
    PROVE  Tables'
<1>1. TablesTyped'
  BY DEF AuthInv, Tables, TablesTyped
<1>2. LoginsOK'
  BY DEF AuthInv, Tables, LoginsOK, Holder, TokensFormAChain, ReuseEndsLogin, NothingOutlivesTheAccount
<1>3. CodeWorksOnce'
  BY DEF AuthInv, Tables, CodesOK, CodeWorksOnce
<1>4. \A l \in DOMAIN logins : logins[l].by # Review =>
            /\ logins[l].by \in DOMAIN codes'
            /\ codes'[logins[l].by].used /\ codes'[logins[l].by].wrong < MaxTries
  BY DEF AuthInv, Tables, CodesOK
<1>5. CodesOK'
  BY <1>3, <1>4 DEF CodesOK
<1> QED BY <1>1, <1>2, <1>5 DEF Tables

(* What a request found out of the codes stands as long as theirs are neither used nor
   tried. *)
LEMMA CodesStand ==
    ASSUME UNCHANGED <<account, accounts, logins, tokens>>, DOMAIN codes \subseteq DOMAIN codes',
           NEW j, Stands(j),
           \A i \in DOMAIN codes : i \in j.codes =>
                codes'[i].used = codes[i].used /\ codes'[i].wrong = codes[i].wrong
    PROVE  Stands(j)'
BY DEF Stands

(* start inserts a code. *)
LEMMA StartMailKeeps ==
    ASSUME AuthInv, NEW r \in Requests, StartMail(r)
    PROVE  AuthInv'
<1> PICK j, n : j = req[r] /\ n = Len(codes) + 1
  OBVIOUS
<1> PICK new : new = [state |-> "unsaved", age |-> New, tries |-> 0, used |-> FALSE, wrong |-> 0]
  OBVIOUS
<1> PICK k : k = [j EXCEPT !.stage = "mailed", !.code = n]
  OBVIOUS
<1>1. j \in Request /\ Stands(j) /\ j.stage = "checked"
      /\ UNCHANGED <<account, accounts, logins, tokens, spent, replayed>>
  BY Known DEF StartMail
<1>2. req' = [req EXCEPT ![r] = k] /\ codes' = Append(codes, new) /\ codes \in Seq(Code)
  BY DEF StartMail, AuthInv, Tables, TablesTyped
<1>3. new \in Code /\ new.wrong = new.tries
  BY AuthBounds DEF Code, New, Old
<1>4. /\ codes' \in Seq(Code) /\ Len(codes') = n /\ n \in Nat /\ codes'[n] = new
      /\ \A i \in 1 .. Len(codes) : codes'[i] = codes[i]
  BY <1>2, <1>3, AppendProperties
<1>5. DOMAIN codes = 1 .. Len(codes) /\ DOMAIN codes' = 1 .. n /\ n \in DOMAIN codes'
      /\ \A i \in DOMAIN codes' : i = n \/ i \in DOMAIN codes
  BY <1>2, <1>4
<1>6. \A i \in DOMAIN codes' : codes'[i].wrong = codes'[i].tries
  BY <1>3, <1>4, <1>5 DEF AuthInv, Tables, CodesOK
<1>7. Tables'
  <2>1. DOMAIN codes \subseteq DOMAIN codes' /\ \A i \in DOMAIN codes : codes'[i] = codes[i]
    BY <1>4, <1>5
  <2> QED BY <1>1, <1>4, <1>6, <2>1, CodesChange
<1>8. k \in Request /\ k.stage = "mailed" /\ k.code = n /\ k.codes = j.codes /\ k.logins = j.logins
      /\ k.created = j.created
  BY <1>1, <1>4 DEF Request, Stages
<1>9. ~k.created
  BY <1>1, <1>8 DEF Stands
<1>10. Stands(k)'
  BY <1>5, <1>8, <1>9 DEF Stands, Opening
<1>11. \A q \in Requests \ {r} : Apart(k, req[q]) /\ Apart(req[q], k)
  BY <1>8, StaysApart
<1>12. \A i \in Others(r) : Stands(i)'
  <2>1. \A i \in DOMAIN codes : codes'[i] = codes[i]
    BY <1>4, <1>5
  <2> QED BY <1>1, <1>5, <2>1, Known, CodesStand
<1> QED BY <1>2, <1>7, <1>8, <1>10, <1>11, <1>12, Stepping

(* A code that is saved, taken back or tried: each row keeps its use. *)
LEMMA CodesRewritten ==
    ASSUME AuthInv, NEW r \in Requests, Ends(r),
           UNCHANGED <<account, accounts, logins, tokens, spent, replayed>>,
           NEW i, DOMAIN codes' = DOMAIN codes, \A m \in DOMAIN codes \ {i} : codes'[m] = codes[m],
           i \in DOMAIN codes =>
                /\ codes'[i] \in Code /\ codes'[i].wrong = codes'[i].tries
                /\ codes'[i].used = codes[i].used
                /\ codes'[i].wrong = codes[i].wrong \/ (~codes[i].used /\ CodeIsFree(r, i)),
           codes' \in Seq(Code)
    PROVE  AuthInv'
<1>1. \A m \in DOMAIN codes' : codes'[m].wrong = codes'[m].tries
  BY DEF AuthInv, Tables, CodesOK
<1>2. \A m \in DOMAIN codes : /\ codes'[m].used = codes[m].used
                              /\ codes[m].used => codes'[m].wrong = codes[m].wrong
  OBVIOUS
<1>3. Tables'
  BY <1>1, <1>2, CodesChange
<1>4. ASSUME NEW j \in Others(r)
      PROVE  Stands(j)'
  <2>1. CodeIsFree(r, i) => i \notin j.codes
    BY DEF CodeIsFree, Others
  <2>2. \A m \in DOMAIN codes : m \in j.codes => codes'[m].used = codes[m].used /\ codes'[m].wrong = codes[m].wrong
    BY <2>1
  <2> QED BY <2>2, Known, CodesStand
<1> QED BY <1>3, <1>4, Ending

(* start commits: the code is there. *)
LEMMA StartCommitKeeps ==
    ASSUME AuthInv, NEW r \in Requests, StartCommit(r)
    PROVE  AuthInv'
<1> PICK i : i = req[r].code
  OBVIOUS
<1>1. i \in DOMAIN codes /\ codes \in Seq(Code)
  BY Known DEF StartCommit, Stands, AuthInv, Tables, TablesTyped
<1>2. codes' = [codes EXCEPT ![i].state = "saved"] /\ Ends(r)
      /\ UNCHANGED <<account, accounts, logins, tokens, spent, replayed>>
  BY DEF StartCommit
<1>3. DOMAIN codes = 1 .. Len(codes) /\ Len(codes) \in Nat /\ codes[i] \in Code
  BY <1>1
<1> DEFINE c == [codes[i] EXCEPT !.state = "saved"]
<1>4. c \in Code /\ c.wrong = codes[i].wrong /\ c.tries = codes[i].tries /\ c.used = codes[i].used
  BY <1>3 DEF Code
<1>5. codes' = [codes EXCEPT ![i] = c]
  BY <1>2
<1> HIDE DEF c
<1>6. codes' \in Seq(Code) /\ DOMAIN codes' = DOMAIN codes /\ codes'[i] = c
      /\ \A m \in DOMAIN codes \ {i} : codes'[m] = codes[m]
  BY <1>1, <1>3, <1>4, <1>5
<1>7. c.wrong = c.tries
  BY <1>1, <1>4 DEF AuthInv, Tables, CodesOK
<1>8. /\ codes'[i] \in Code /\ codes'[i].wrong = codes'[i].tries /\ codes'[i].used = codes[i].used
      /\ codes'[i].wrong = codes[i].wrong \/ (~codes[i].used /\ CodeIsFree(r, i))
  BY <1>2, <1>4, <1>6, <1>7
<1>9. Ends(r) /\ UNCHANGED <<account, accounts, logins, tokens, spent, replayed>>
  BY <1>2
<1> QED BY <1>6, <1>8, <1>9, CodesRewritten

(* A wrong code counts as a try of a code nobody has locked. *)
LEMMA VerifyWrongKeeps ==
    ASSUME AuthInv, NEW r \in Requests, VerifyWrong(r)
    PROVE  AuthInv'
<1> PICK i : i = req[r].code
  OBVIOUS
<1>1. i \in DOMAIN codes /\ codes \in Seq(Code)
  BY Known DEF VerifyWrong, Stands, AuthInv, Tables, TablesTyped
<1>2. codes' = [codes EXCEPT ![i].tries = @ + 1, ![i].wrong = @ + 1] /\ Ends(r)
      /\ UNCHANGED <<account, accounts, logins, tokens, spent, replayed>>
      /\ ~codes[i].used /\ CodeIsFree(r, i) /\ ~(codes[i].tries >= MaxTries)
  BY DEF VerifyWrong, Usable, Locked
<1>3. DOMAIN codes = 1 .. Len(codes) /\ Len(codes) \in Nat /\ codes[i] \in Code
  BY <1>1
<1> DEFINE c == [codes[i] EXCEPT !.tries = @ + 1, !.wrong = @ + 1]
<1>4. c \in Code /\ c.wrong = codes[i].wrong + 1 /\ c.tries = codes[i].tries + 1 /\ c.used = codes[i].used
  <2> PICK a, b : a = codes[i].tries + 1 /\ b = codes[i].wrong + 1
    OBVIOUS
  <2>1. a \in 0 .. MaxTries /\ b \in Nat
    <3>1. codes[i].tries \in 0 .. MaxTries /\ codes[i].wrong \in Nat
      BY <1>3 DEF Code
    <3> QED BY <1>2, <3>1, AuthBounds
  <2>2. c = [codes[i] EXCEPT !.tries = a, !.wrong = b]
    OBVIOUS
  <2> QED BY <1>3, <2>1, <2>2 DEF Code
<1>5. codes' = [codes EXCEPT ![i] = c]
  BY <1>1, <1>2, <1>3
<1> HIDE DEF c
<1>6. codes' \in Seq(Code) /\ DOMAIN codes' = DOMAIN codes /\ codes'[i] = c
      /\ \A m \in DOMAIN codes \ {i} : codes'[m] = codes[m]
  BY <1>1, <1>3, <1>4, <1>5
<1>7. c.wrong = c.tries
  BY <1>1, <1>4 DEF AuthInv, Tables, CodesOK
<1>8. /\ codes'[i] \in Code /\ codes'[i].wrong = codes'[i].tries /\ codes'[i].used = codes[i].used
      /\ codes'[i].wrong = codes[i].wrong \/ (~codes[i].used /\ CodeIsFree(r, i))
  BY <1>2, <1>4, <1>6, <1>7
<1>9. Ends(r) /\ UNCHANGED <<account, accounts, logins, tokens, spent, replayed>>
  BY <1>2
<1> QED BY <1>6, <1>8, <1>9, CodesRewritten

(* A request that is rolled back leaves a code nobody can use. *)
LEMMA RollBackKeeps ==
    ASSUME AuthInv, NEW r \in Requests, RollBack(r)
    PROVE  AuthInv'
<1> PICK i : i = req[r].code
  OBVIOUS
<1>1. codes \in Seq(Code) /\ Ends(r) /\ UNCHANGED <<account, accounts, logins, tokens, spent, replayed>>
  BY DEF RollBack, AuthInv, Tables, TablesTyped
<1>2. codes' = [m \in DOMAIN codes |-> IF codes[m].state = "unsaved" /\ i = m
                                       THEN [codes[m] EXCEPT !.state = "gone"] ELSE codes[m]]
  BY DEF RollBack
<1>3. DOMAIN codes = 1 .. Len(codes) /\ Len(codes) \in Nat /\ \A m \in DOMAIN codes : codes[m] \in Code
  BY <1>1
<1>4. ASSUME NEW m \in DOMAIN codes
      PROVE  /\ [codes[m] EXCEPT !.state = "gone"] \in Code
             /\ [codes[m] EXCEPT !.state = "gone"].wrong = codes[m].wrong
             /\ [codes[m] EXCEPT !.state = "gone"].tries = codes[m].tries
             /\ [codes[m] EXCEPT !.state = "gone"].used = codes[m].used
  BY <1>3 DEF Code
<1>5. \A m \in DOMAIN codes : codes'[m] \in Code /\ codes'[m].wrong = codes[m].wrong
                              /\ codes'[m].tries = codes[m].tries /\ codes'[m].used = codes[m].used
  <2> TAKE m \in DOMAIN codes
  <2>1. codes'[m] = codes[m] \/ codes'[m] = [codes[m] EXCEPT !.state = "gone"]
    BY <1>2
  <2> QED BY <1>3, <1>4, <2>1
<1>6. codes' \in Seq(Code) /\ DOMAIN codes' = DOMAIN codes
  BY <1>2, <1>3, <1>5
<1>7. \A m \in DOMAIN codes \ {i} : codes'[m] = codes[m]
  BY <1>2
<1>8. i \in DOMAIN codes => codes'[i].wrong = codes'[i].tries
  BY <1>5 DEF AuthInv, Tables, CodesOK
<1> QED BY <1>1, <1>5, <1>6, <1>7, <1>8, CodesRewritten

-----------------------------------------------------------------------------
(* The steps that end sign-ins.                                            *)

\* A sign-in keeps whose it is, its token and its code.
SameLogin(a, b) == a.account = b.account /\ a.token = b.token /\ a.by = b.by

(* Sign-ins that are revoked, expired or deleted, an account that goes with them, and
   codes that go too. *)
LEMMA LoginsEnd ==
    ASSUME AuthInv, UNCHANGED <<accounts, tokens>>,
           codes' \in Seq(Code), DOMAIN codes' = DOMAIN codes,
           \A i \in DOMAIN codes : /\ codes'[i].used = codes[i].used /\ codes'[i].wrong = codes[i].wrong
                                   /\ codes'[i].tries = codes[i].tries,
           logins' \in Seq(Login), DOMAIN logins' = DOMAIN logins,
           \A l \in DOMAIN logins :
                /\ SameLogin(logins'[l], logins[l])
                /\ logins'[l].state # "deleted" =>
                        logins[l].state # "deleted" /\ (logins[l].account = account => account' = account),
           account' \in {account, None}, spent' \subseteq spent, replayed' \subseteq DOMAIN logins,
           \A l \in replayed' : logins'[l].state \in {"revoked", "deleted"}
    PROVE  Tables'
<1>1. TablesTyped'
  BY DEF AuthInv, Tables, TablesTyped, None
<1>2. CodesOK'
  <2>1. \A i \in DOMAIN codes : codes'[i].wrong = codes'[i].tries
    BY DEF AuthInv, Tables, CodesOK
  <2>2. \A l \in DOMAIN logins : logins'[l].by = logins[l].by
    BY DEF SameLogin
  <2>3. CodeWorksOnce'
    BY <2>2 DEF AuthInv, Tables, CodesOK, CodeWorksOnce
  <2>4. \A l \in DOMAIN logins : logins'[l].by # Review =>
            /\ logins'[l].by \in DOMAIN codes'
            /\ codes'[logins'[l].by].used /\ codes'[logins'[l].by].wrong < MaxTries
    BY <2>2 DEF AuthInv, Tables, CodesOK
  <2> QED BY <2>1, <2>3, <2>4 DEF CodesOK
<1>3. LoginsOK'
  <2>1. \A l \in DOMAIN logins : logins'[l].account = logins[l].account /\ logins'[l].token = logins[l].token
    BY DEF SameLogin
  <2>2. \A t \in DOMAIN tokens : Holder(t)' = Holder(t)
    BY DEF Holder
  <2>3. \A l \in DOMAIN logins :
            logins'[l].account # None /\ logins'[l].token \in DOMAIN tokens /\ tokens[logins'[l].token].login = l
    BY <2>1 DEF AuthInv, Tables, LoginsOK, Holder
  <2>4. \A t \in DOMAIN tokens :
            /\ tokens[t].login \in DOMAIN logins /\ tokens[t].from < t
            /\ \A l \in DOMAIN logins : tokens[t].from # logins'[l].token
    BY <2>1 DEF AuthInv, Tables, LoginsOK, Holder
  <2>5. TokensFormAChain'
    BY DEF AuthInv, Tables, LoginsOK, TokensFormAChain
  <2>6. NothingOutlivesTheAccount'
    BY <2>1 DEF AuthInv, Tables, LoginsOK, NothingOutlivesTheAccount
  <2>7. ReuseEndsLogin'
    BY DEF ReuseEndsLogin
  <2> QED BY <2>3, <2>4, <2>5, <2>6, <2>7 DEF LoginsOK, Holder
<1> QED BY <1>1, <1>2, <1>3 DEF Tables

(* What a request found out of the sign-ins stands as long as theirs are not ended. *)
LEMMA LoginsStand ==
    ASSUME UNCHANGED <<accounts, tokens>>, DOMAIN codes' = DOMAIN codes, DOMAIN logins' = DOMAIN logins,
           account' \in {account, None}, NEW j, Stands(j),
           \A i \in DOMAIN codes : codes'[i].used = codes[i].used /\ codes'[i].wrong = codes[i].wrong,
           \A l \in DOMAIN logins : l \in j.logins =>
                logins'[l].state = logins[l].state /\ logins'[l].token = logins[l].token
    PROVE  Stands(j)'
BY DEF Stands

(* A request that ends sign-ins which no other request has locked. *)
LEMMA LoginsRewritten ==
    ASSUME AuthInv, NEW r \in Requests, Ends(r),
           UNCHANGED <<codes, account, accounts, tokens, spent>>, replayed' \subseteq DOMAIN logins,
           logins' \in Seq(Login), DOMAIN logins' = DOMAIN logins,
           \A l \in DOMAIN logins :
                logins'[l] = logins[l] \/ /\ SameLogin(logins'[l], logins[l])
                                          /\ logins'[l].state = "revoked" /\ logins[l].state # "deleted"
                                          /\ LoginIsFree(r, l),
           \A l \in replayed' : l \in replayed \/ logins'[l].state \in {"revoked", "deleted"}
    PROVE  AuthInv'
<1>1. \A l \in DOMAIN logins :
                /\ SameLogin(logins'[l], logins[l])
                /\ logins'[l].state # "deleted" => logins[l].state # "deleted"
  BY DEF SameLogin
<1>2. \A l \in replayed' : logins'[l].state \in {"revoked", "deleted"}
  <2> TAKE l \in replayed'
  <2>1. CASE l \in replayed
    <3>1. l \in DOMAIN logins /\ logins[l].state \in {"revoked", "deleted"}
      BY <2>1 DEF AuthInv, Tables, TablesTyped, LoginsOK, ReuseEndsLogin
    <3> QED BY <3>1
  <2>2. CASE l \notin replayed
    BY <2>2
  <2> QED BY <2>1, <2>2
<1>3. codes \in Seq(Code)
  BY DEF AuthInv, Tables, TablesTyped
<1>4. Tables'
  BY <1>1, <1>2, <1>3, LoginsEnd
<1>5. ASSUME NEW j \in Others(r)
      PROVE  Stands(j)'
  <2>1. \A l \in j.logins : ~LoginIsFree(r, l)
    BY DEF LoginIsFree, Others
  <2>2. \A l \in DOMAIN logins : l \in j.logins =>
            logins'[l].state = logins[l].state /\ logins'[l].token = logins[l].token
    BY <2>1
  <2> QED BY <2>2, Known, LoginsStand
<1> QED BY <1>4, <1>5, Ending

(* A revoked sign-in is as it was, but for its state. *)
LEMMA RevokedLogin ==
    ASSUME NEW a \in Login, NEW s \in {"live", "expired", "revoked", "deleted"}
    PROVE  [a EXCEPT !.state = s] \in Login /\ SameLogin([a EXCEPT !.state = s], a)
           /\ [a EXCEPT !.state = s].state = s
BY DEF Login, SameLogin

(* A spent token that comes back ends its sign-in (refresh, a copied token). *)
LEMMA RefreshReuseKeeps ==
    ASSUME AuthInv, NEW r \in Requests, RefreshReuse(r)
    PROVE  AuthInv'
<1> PICK l : l = req[r].login
  OBVIOUS
<1>1. l \in DOMAIN logins /\ logins \in Seq(Login) /\ replayed \subseteq DOMAIN logins
  BY Known DEF RefreshReuse, Stands, AuthInv, Tables, TablesTyped
<1>2. Ends(r) /\ UNCHANGED <<codes, account, accounts, tokens, spent>>
  BY DEF RefreshReuse
<1>3. CASE req[r].given \notin spent
  <2>1. UNCHANGED <<tables, replayed>>
    BY <1>2, <1>3 DEF RefreshReuse, tables
  <2> QED BY <1>2, <2>1, EndingAside
<1>4. CASE req[r].given \in spent
  <2>1. LoginIsFree(r, l) /\ replayed' = replayed \cup {l}
        /\ logins' = [logins EXCEPT ![l].state = IF NotRevoked(l) THEN "revoked" ELSE logins[l].state]
    BY <1>4 DEF RefreshReuse
  <2>2. DOMAIN logins = 1 .. Len(logins) /\ Len(logins) \in Nat /\ logins[l] \in Login
    BY <1>1
  <2>3. logins[l].state \in {"live", "expired", "revoked", "deleted"}
    BY <2>2 DEF Login
  <2>4. CASE NotRevoked(l)
    <3> PICK a : a = [logins[l] EXCEPT !.state = "revoked"]
      OBVIOUS
    <3>1. a \in Login /\ SameLogin(a, logins[l]) /\ a.state = "revoked"
      BY <2>2, RevokedLogin
    <3>2. logins' = [logins EXCEPT ![l] = a]
      BY <1>1, <2>1, <2>4
    <3>3. logins' \in Seq(Login) /\ DOMAIN logins' = DOMAIN logins /\ logins'[l] = a
          /\ \A m \in DOMAIN logins \ {l} : logins'[m] = logins[m]
      BY <1>1, <2>2, <3>1, <3>2
    <3>4. logins[l].state # "deleted"
      BY <2>4 DEF NotRevoked
    <3>5. \A m \in DOMAIN logins :
                logins'[m] = logins[m] \/ /\ SameLogin(logins'[m], logins[m])
                                          /\ logins'[m].state = "revoked" /\ logins[m].state # "deleted"
                                          /\ LoginIsFree(r, m)
      BY <2>1, <3>1, <3>3, <3>4
    <3>6. replayed' \subseteq DOMAIN logins
          /\ \A m \in replayed' : m \in replayed \/ logins'[m].state \in {"revoked", "deleted"}
      BY <1>1, <2>1, <3>1, <3>3
    <3> QED BY <1>2, <3>3, <3>5, <3>6, LoginsRewritten
  <2>5. CASE ~NotRevoked(l)
    <3>1. logins' = logins
      <4> PICK a \in Login : a = logins[l]
        BY <2>2
      <4>1. a = [a EXCEPT !.state = a.state]
        BY DEF Login
      <4>2. logins' = [logins EXCEPT ![l] = [a EXCEPT !.state = a.state]]
        BY <2>1, <2>5
      <4>3. logins' = [logins EXCEPT ![l] = a]
        BY <4>1, <4>2
      <4> QED BY <1>1, <2>2, <4>3
    <3>2. logins[l].state \in {"revoked", "deleted"}
      BY <2>3, <2>5 DEF NotRevoked
    <3>3. replayed' \subseteq DOMAIN logins
          /\ \A m \in replayed' : m \in replayed \/ logins'[m].state \in {"revoked", "deleted"}
      BY <1>1, <2>1, <3>1, <3>2
    <3> QED BY <1>1, <1>2, <3>1, <3>3, LoginsRewritten
  <2> QED BY <2>4, <2>5
<1> QED BY <1>3, <1>4

(* logout ends the caller's sign-in, unless its row is gone. *)
LEMMA LogoutKeeps ==
    ASSUME AuthInv, NEW r \in Requests, Logout(r)
    PROVE  AuthInv'
<1> PICK l : l = req[r].login
  OBVIOUS
<1>1. l \in DOMAIN logins /\ logins \in Seq(Login) /\ replayed \subseteq DOMAIN logins
  BY Known DEF Logout, Stands, AuthInv, Tables, TablesTyped
<1>2. Ends(r) /\ UNCHANGED <<codes, account, accounts, tokens, spent, replayed>> /\ LoginIsFree(r, l)
  BY DEF Logout
<1>3. logins' = [logins EXCEPT ![l].state = IF @ = "deleted" THEN @ ELSE "revoked"]
  BY DEF Logout
<1>4. DOMAIN logins = 1 .. Len(logins) /\ Len(logins) \in Nat /\ logins[l] \in Login
  BY <1>1
<1> PICK s : s = IF logins[l].state = "deleted" THEN "deleted" ELSE "revoked"
  OBVIOUS
<1> PICK a : a = [logins[l] EXCEPT !.state = s]
  OBVIOUS
<1>5. a \in Login /\ SameLogin(a, logins[l]) /\ a.state = s
  BY <1>4, RevokedLogin
<1>6. logins' = [logins EXCEPT ![l] = a]
  BY <1>1, <1>3
<1>7. logins' \in Seq(Login) /\ DOMAIN logins' = DOMAIN logins /\ logins'[l] = a
      /\ \A m \in DOMAIN logins \ {l} : logins'[m] = logins[m]
  BY <1>1, <1>4, <1>5, <1>6
<1>8. logins[l].state = "deleted" => a = logins[l]
  BY <1>4 DEF Login
<1>9. \A m \in DOMAIN logins :
                logins'[m] = logins[m] \/ /\ SameLogin(logins'[m], logins[m])
                                          /\ logins'[m].state = "revoked" /\ logins[m].state # "deleted"
                                          /\ LoginIsFree(r, m)
  BY <1>2, <1>5, <1>7, <1>8
<1>10. replayed' \subseteq DOMAIN logins /\ \A m \in replayed' : m \in replayed
  BY <1>1, <1>2
<1> QED BY <1>2, <1>7, <1>9, <1>10, LoginsRewritten

(* sign_out_device ends every sign-in of the device. *)
LEMMA SignOutKeeps ==
    ASSUME AuthInv, NEW r \in Requests, SignOutDevice(r)
    PROVE  AuthInv'
<1> DEFINE there == OnDevice(req[r].account, req[r].device)
<1>1. logins \in Seq(Login) /\ replayed \subseteq DOMAIN logins
  BY DEF AuthInv, Tables, TablesTyped
<1>2. Ends(r) /\ UNCHANGED <<codes, account, accounts, tokens, spent, replayed>>
      /\ \A l \in there : LoginIsFree(r, l)
  BY DEF SignOutDevice
<1>3. logins' = [l \in DOMAIN logins |->
                    IF l \in there THEN [logins[l] EXCEPT !.state = "revoked"] ELSE logins[l]]
  BY DEF SignOutDevice
<1>4. \A l \in there : logins[l].state # "deleted"
  BY DEF OnDevice, NotRevoked
<1> HIDE DEF there
<1>5. DOMAIN logins = 1 .. Len(logins) /\ Len(logins) \in Nat /\ \A l \in DOMAIN logins : logins[l] \in Login
  BY <1>1
<1>6. \A l \in DOMAIN logins : /\ logins'[l] \in Login
                               /\ \/ logins'[l] = logins[l]
                                  \/ /\ SameLogin(logins'[l], logins[l])
                                     /\ logins'[l].state = "revoked" /\ logins[l].state # "deleted"
                                     /\ LoginIsFree(r, l)
  <2> TAKE l \in DOMAIN logins
  <2>1. CASE l \in there
    <3>1. logins'[l] = [logins[l] EXCEPT !.state = "revoked"]
      BY <1>3, <2>1
    <3>2. logins'[l] \in Login /\ SameLogin(logins'[l], logins[l]) /\ logins'[l].state = "revoked"
      <4> PICK a \in Login : a = logins[l]
        BY <1>5
      <4>1. [a EXCEPT !.state = "revoked"] \in Login /\ SameLogin([a EXCEPT !.state = "revoked"], a)
            /\ [a EXCEPT !.state = "revoked"].state = "revoked"
        BY RevokedLogin
      <4> QED BY <3>1, <4>1
    <3> QED BY <1>2, <1>4, <2>1, <3>2
  <2>2. CASE l \notin there
    BY <1>3, <1>5, <2>2
  <2> QED BY <2>1, <2>2
<1>7. logins' \in Seq(Login) /\ DOMAIN logins' = DOMAIN logins
  BY <1>3, <1>5, <1>6
<1> QED BY <1>1, <1>2, <1>6, <1>7, LoginsRewritten

(* delete_account removes the codes it has locked, the user, and by cascade the user's
   sign-ins, each of them free or its own. *)
LEMMA DeleteKeeps ==
    ASSUME AuthInv, NEW r \in Requests, DeleteCommit(r)
    PROVE  AuthInv'
<1> DEFINE mine == OfAccount(req[r].account)
<1>1. logins \in Seq(Login) /\ codes \in Seq(Code) /\ replayed \subseteq DOMAIN logins
  BY DEF AuthInv, Tables, TablesTyped
<1>2. Ends(r) /\ UNCHANGED <<accounts, tokens, replayed>> /\ \A l \in mine : LoginIsFree(r, l)
  BY DEF DeleteCommit
<1>3. /\ codes' = [i \in DOMAIN codes |->
                      IF i \in req[r].codes THEN [codes[i] EXCEPT !.state = "gone"] ELSE codes[i]]
      /\ logins' = [l \in DOMAIN logins |->
                      IF l \in mine THEN [logins[l] EXCEPT !.state = "deleted"] ELSE logins[l]]
      /\ account' = IF account = req[r].account THEN None ELSE account
      /\ spent' \subseteq spent
  BY DEF DeleteCommit
<1>4. \A l \in DOMAIN logins : l \notin mine => logins[l].account # req[r].account
  BY DEF OfAccount
<1> HIDE DEF mine
<1>5. /\ DOMAIN logins = 1 .. Len(logins) /\ Len(logins) \in Nat /\ \A l \in DOMAIN logins : logins[l] \in Login
      /\ DOMAIN codes = 1 .. Len(codes) /\ Len(codes) \in Nat /\ \A i \in DOMAIN codes : codes[i] \in Code
  BY <1>1
<1>6. \A i \in DOMAIN codes : codes'[i] \in Code /\ codes'[i].used = codes[i].used
                              /\ codes'[i].wrong = codes[i].wrong /\ codes'[i].tries = codes[i].tries
  <2> TAKE i \in DOMAIN codes
  <2> PICK c \in Code : c = codes[i]
    BY <1>5
  <2>1. codes'[i] = c \/ codes'[i] = [c EXCEPT !.state = "gone"]
    BY <1>3
  <2> QED BY <2>1 DEF Code
<1>7. \A l \in DOMAIN logins :
            /\ logins'[l] \in Login /\ SameLogin(logins'[l], logins[l])
            /\ l \in mine => logins'[l].state = "deleted"
            /\ l \notin mine => logins'[l] = logins[l]
  <2> TAKE l \in DOMAIN logins
  <2> PICK a \in Login : a = logins[l]
    BY <1>5
  <2>1. [a EXCEPT !.state = "deleted"] \in Login /\ SameLogin([a EXCEPT !.state = "deleted"], a)
        /\ [a EXCEPT !.state = "deleted"].state = "deleted" /\ SameLogin(a, a)
    BY RevokedLogin DEF SameLogin
  <2>2. logins'[l] = IF l \in mine THEN [a EXCEPT !.state = "deleted"] ELSE a
    BY <1>3
  <2> QED BY <2>1, <2>2
<1>8. codes' \in Seq(Code) /\ DOMAIN codes' = DOMAIN codes
  BY <1>3, <1>5, <1>6
<1>9. logins' \in Seq(Login) /\ DOMAIN logins' = DOMAIN logins
  BY <1>3, <1>5, <1>7
<1>10. \A l \in DOMAIN logins : logins'[l].state # "deleted" =>
            logins[l].state # "deleted" /\ (logins[l].account = account => account' = account)
  BY <1>3, <1>4, <1>7
<1>11. \A l \in replayed' : logins'[l].state \in {"revoked", "deleted"}
  <2>1. \A l \in replayed : l \in DOMAIN logins /\ logins[l].state \in {"revoked", "deleted"}
    BY <1>1 DEF AuthInv, Tables, LoginsOK, ReuseEndsLogin
  <2> QED BY <1>2, <1>7, <2>1
<1>12. account' \in {account, None}
  BY <1>3
<1>13. replayed' \subseteq DOMAIN logins
  BY <1>1, <1>2
<1>14. Tables'
  <2>1. \A i \in DOMAIN codes : codes'[i].used = codes[i].used /\ codes'[i].wrong = codes[i].wrong
                                /\ codes'[i].tries = codes[i].tries
    BY <1>6
  <2>2. \A l \in DOMAIN logins :
                /\ SameLogin(logins'[l], logins[l])
                /\ logins'[l].state # "deleted" =>
                        logins[l].state # "deleted" /\ (logins[l].account = account => account' = account)
    BY <1>7, <1>10
  <2>3. UNCHANGED <<accounts, tokens>> /\ spent' \subseteq spent
    BY <1>2, <1>3
  <2> QED BY <1>8, <1>9, <1>11, <1>12, <1>13, <2>1, <2>2, <2>3, LoginsEnd
<1>15. ASSUME NEW j \in Others(r)
       PROVE  Stands(j)'
  <2>1. \A l \in j.logins : l \notin mine
    BY <1>2 DEF LoginIsFree, Others
  <2>2. \A l \in DOMAIN logins : l \in j.logins =>
            logins'[l].state = logins[l].state /\ logins'[l].token = logins[l].token
    BY <1>7, <2>1
  <2>3. \A i \in DOMAIN codes : codes'[i].used = codes[i].used /\ codes'[i].wrong = codes[i].wrong
    BY <1>6
  <2>4. Stands(j) /\ UNCHANGED <<accounts, tokens>>
    BY <1>2, Known
  <2> QED BY <1>8, <1>9, <1>12, <2>2, <2>3, <2>4, LoginsStand
<1> QED BY <1>2, <1>14, <1>15, Ending

(* refresh: the sign-in's token is spent, and the one it is exchanged for is the newest of
   all. *)
LEMMA RefreshCommitKeeps ==
    ASSUME AuthInv, NEW r \in Requests, RefreshCommit(r)
    PROVE  AuthInv'
<1> PICK l, t, n : l = req[r].login /\ t = req[r].given /\ n = Len(tokens) + 1
  OBVIOUS
<1>1. /\ codes \in Seq(Code) /\ logins \in Seq(Login) /\ tokens \in Seq(Token)
      /\ account \in 0..accounts /\ accounts \in Nat /\ spent \subseteq DOMAIN tokens
      /\ replayed \subseteq DOMAIN logins
  BY DEF AuthInv, Tables, TablesTyped
<1>2. /\ req[r].stage = "rotate" /\ l \in req[r].logins /\ l \in DOMAIN logins /\ t \in DOMAIN tokens
      /\ logins[l].state = "live" /\ logins[l].token = t
  BY Known DEF RefreshCommit, Stands
<1> PICK new : new = [login |-> l, from |-> t]
  OBVIOUS
<1>3. /\ spent' = spent \cup {t} /\ tokens' = Append(tokens, new) /\ Ends(r)
      /\ UNCHANGED <<codes, account, accounts, replayed>>
      /\ logins' = [logins EXCEPT ![l].token = n]
  BY DEF RefreshCommit
<1>4. /\ DOMAIN logins = 1 .. Len(logins) /\ Len(logins) \in Nat /\ \A m \in DOMAIN logins : logins[m] \in Login
      /\ DOMAIN tokens = 1 .. Len(tokens) /\ Len(tokens) \in Nat /\ n \in Nat /\ l \in Nat /\ t \in Nat
      /\ t < n /\ t # None
  BY <1>1, <1>2 DEF None
<1>5. new \in Token /\ new.login = l /\ new.from = t
  BY <1>4 DEF Token
<1>6. /\ tokens' \in Seq(Token) /\ Len(tokens') = n /\ tokens'[n] = new
      /\ \A s \in 1 .. Len(tokens) : tokens'[s] = tokens[s]
  BY <1>1, <1>3, <1>5, AppendProperties
<1>7. /\ DOMAIN tokens' = 1 .. n /\ n \in DOMAIN tokens' /\ n \notin DOMAIN tokens
      /\ \A s \in DOMAIN tokens : s \in DOMAIN tokens' /\ tokens'[s] = tokens[s] /\ s < n /\ s \in Nat
      /\ \A s \in DOMAIN tokens' : s = n \/ s \in DOMAIN tokens
  BY <1>4, <1>6
<1> PICK a : a = [logins[l] EXCEPT !.token = n]
  OBVIOUS
<1>8. /\ a \in Login /\ a.token = n /\ a.account = logins[l].account /\ a.by = logins[l].by
      /\ a.state = logins[l].state
  <2> PICK b \in Login : b = logins[l]
    BY <1>2, <1>4
  <2> QED BY <1>4 DEF Login
<1>9. /\ logins' \in Seq(Login) /\ DOMAIN logins' = DOMAIN logins /\ logins'[l] = a
      /\ \A m \in DOMAIN logins \ {l} : logins'[m] = logins[m]
  <2>1. logins' = [logins EXCEPT ![l] = a]
    BY <1>2, <1>3
  <2>2. logins \in Seq(Login) /\ l \in DOMAIN logins
    BY <1>1, <1>2
  <2>3. a \in Login
    BY <1>8
  <2>4. DOMAIN logins = 1 .. Len(logins) /\ Len(logins) \in Nat
    BY <1>4
  <2> QED BY <2>1, <2>2, <2>3, <2>4
<1>10. \A m \in DOMAIN logins : /\ logins'[m].account = logins[m].account /\ logins'[m].by = logins[m].by
                                /\ logins'[m].state = logins[m].state
                                /\ m # l => logins'[m].token = logins[m].token
  BY <1>8, <1>9
<1>11. logins'[l].token = n
  BY <1>8, <1>9
<1>12. UNCHANGED <<codes, account, accounts, replayed>> /\ spent' = spent \cup {t} /\ Ends(r)
  BY <1>3
<1>13. TablesTyped'
  BY <1>1, <1>2, <1>6, <1>7, <1>9, <1>12 DEF TablesTyped
<1>14. CodesOK'
  <2>1. CodeWorksOnce'
    BY <1>9, <1>10 DEF AuthInv, Tables, CodesOK, CodeWorksOnce
  <2> QED BY <1>9, <1>10, <1>12, <2>1 DEF AuthInv, Tables, CodesOK
<1>15. \A m \in DOMAIN logins : logins[m].account # None /\ logins[m].token \in DOMAIN tokens
                                /\ tokens[logins[m].token].login = m
  BY DEF AuthInv, Tables, LoginsOK, Holder
<1>16. \A s \in DOMAIN tokens : tokens[s].login \in DOMAIN logins /\ tokens[s].from < s
                                /\ \A m \in DOMAIN logins : tokens[s].from # logins[m].token
  BY DEF AuthInv, Tables, LoginsOK, Holder
<1>17. \A s \in DOMAIN tokens : tokens[s].from \in Nat
  <2>1. \A s \in DOMAIN tokens : tokens[s] \in Token
    <3>1. tokens \in Seq(Token)
      BY <1>1
    <3> QED BY <3>1
  <2> QED BY <2>1 DEF Token
<1>18. \A m \in DOMAIN logins : logins'[m].account # None /\ logins'[m].token \in DOMAIN tokens'
                                /\ tokens'[logins'[m].token].login = m
  BY <1>5, <1>6, <1>7, <1>10, <1>11, <1>15
<1>19. \A s \in DOMAIN tokens' : tokens'[s].login \in DOMAIN logins /\ tokens'[s].from < s
                                 /\ \A m \in DOMAIN logins : tokens'[s].from # logins'[m].token
  <2> TAKE s \in DOMAIN tokens'
  <2>1. CASE s = n
    <3>1. tokens'[s].login = l /\ tokens'[s].from = t
      BY <1>5, <1>6, <2>1
    <3>2. \A m \in DOMAIN logins : t # logins'[m].token
      BY <1>2, <1>4, <1>10, <1>11, <1>15
    <3> QED BY <1>2, <1>4, <2>1, <3>1, <3>2
  <2>2. CASE s \in DOMAIN tokens
    <3>1. tokens'[s] = tokens[s] /\ s < n /\ s \in Nat /\ tokens[s].from \in Nat /\ tokens[s].from < s
      BY <1>7, <1>16, <1>17, <2>2
    <3>2. tokens[s].from # n
      BY <1>4, <3>1
    <3>3. \A m \in DOMAIN logins : tokens[s].from # logins'[m].token
      BY <1>10, <1>11, <1>16, <2>2, <3>2
    <3> QED BY <1>16, <2>2, <3>1, <3>3
  <2> QED BY <1>7, <2>1, <2>2
<1>20. TokensFormAChain'
  <2> SUFFICES ASSUME NEW s \in DOMAIN tokens', NEW u \in DOMAIN tokens', s # u, tokens'[s].from # None,
                      tokens'[s].from = tokens'[u].from
               PROVE  FALSE
    BY DEF TokensFormAChain
  <2>1. CASE s \in DOMAIN tokens /\ u \in DOMAIN tokens
    BY <1>7, <2>1 DEF AuthInv, Tables, LoginsOK, TokensFormAChain
  <2>2. CASE s = n /\ u \in DOMAIN tokens
    BY <1>2, <1>5, <1>6, <1>7, <1>16, <2>2
  <2>3. CASE u = n /\ s \in DOMAIN tokens
    BY <1>2, <1>5, <1>6, <1>7, <1>16, <2>3
  <2> QED BY <1>7, <2>1, <2>2, <2>3
<1>21. ReuseEndsLogin' /\ NothingOutlivesTheAccount'
  BY <1>1, <1>9, <1>10, <1>12 DEF AuthInv, Tables, LoginsOK, ReuseEndsLogin, NothingOutlivesTheAccount
<1>22. LoginsOK'
  BY <1>9, <1>18, <1>19, <1>20, <1>21 DEF LoginsOK, Holder
<1>23. ASSUME NEW j \in Others(r)
       PROVE  Stands(j)'
  <2>1. Stands(j) /\ l \notin j.logins
    BY <1>2, Known DEF Apart
  <2> QED BY <1>7, <1>9, <1>10, <1>12, <2>1 DEF Stands
<1> QED BY <1>12, <1>13, <1>14, <1>22, <1>23, Ending DEF Tables

-----------------------------------------------------------------------------
(* The sign-in is opened.                                                  *)

(* The codes of a verification are used; they keep their tries. *)
LEMMA CodesUsed ==
    ASSUME codes \in Seq(Code), NEW S,
           codes' = [i \in DOMAIN codes |->
                        IF i \in S THEN [codes[i] EXCEPT !.used = TRUE] ELSE codes[i]]
    PROVE  /\ codes' \in Seq(Code) /\ DOMAIN codes' = DOMAIN codes
           /\ \A i \in DOMAIN codes :
                /\ codes'[i].wrong = codes[i].wrong /\ codes'[i].tries = codes[i].tries
                /\ codes'[i].used = (codes[i].used \/ i \in S)
<1>1. DOMAIN codes = 1 .. Len(codes) /\ Len(codes) \in Nat /\ \A i \in DOMAIN codes : codes[i] \in Code
  OBVIOUS
<1>2. \A i \in DOMAIN codes :
            /\ codes'[i] \in Code
            /\ codes'[i].wrong = codes[i].wrong /\ codes'[i].tries = codes[i].tries
            /\ codes'[i].used = (codes[i].used \/ i \in S)
  <2> TAKE i \in DOMAIN codes
  <2> PICK c \in Code : c = codes[i]
    BY <1>1
  <2>1. CASE i \in S
    <3>1. codes'[i] = [c EXCEPT !.used = TRUE]
      BY <2>1
    <3> QED BY <2>1, <3>1 DEF Code
  <2>2. CASE i \notin S
    <3>1. codes'[i] = c
      BY <2>2
    <3> QED BY <2>2, <3>1 DEF Code
  <2> QED BY <2>1, <2>2
<1>3. codes' \in Seq(Code) /\ DOMAIN codes' = DOMAIN codes
  <2>1. \A i \in DOMAIN codes : codes'[i] \in Code
    BY <1>2, Zenon
  <2> QED BY <1>1, <2>1
<1> QED BY <1>2, <1>3, Zenon

(* Earlier sign-ins of the device are revoked, and a new one is there. *)
LEMMA LoginOpened ==
    ASSUME logins \in Seq(Login), NEW S, NEW new \in Login,
           logins' = Append([l \in DOMAIN logins |->
                                IF l \in S THEN [logins[l] EXCEPT !.state = "revoked"] ELSE logins[l]], new)
    PROVE  /\ logins' \in Seq(Login) /\ DOMAIN logins = 1 .. Len(logins) /\ Len(logins) \in Nat
           /\ DOMAIN logins' = 1 .. Len(logins) + 1 /\ logins'[Len(logins) + 1] = new
           /\ \A l \in DOMAIN logins :
                /\ SameLogin(logins'[l], logins[l])
                /\ l \in S => logins'[l].state = "revoked"
                /\ l \notin S => logins'[l].state = logins[l].state
<1>1. DOMAIN logins = 1 .. Len(logins) /\ Len(logins) \in Nat /\ \A l \in DOMAIN logins : logins[l] \in Login
  OBVIOUS
<1> PICK old : old = [l \in DOMAIN logins |->
                        IF l \in S THEN [logins[l] EXCEPT !.state = "revoked"] ELSE logins[l]]
  OBVIOUS
<1>2. \A l \in DOMAIN logins :
            /\ old[l] \in Login /\ SameLogin(old[l], logins[l])
            /\ l \in S => old[l].state = "revoked"
            /\ l \notin S => old[l].state = logins[l].state
  <2> TAKE l \in DOMAIN logins
  <2> PICK a \in Login : a = logins[l]
    BY <1>1
  <2>1. CASE l \in S
    <3>1. old[l] = [a EXCEPT !.state = "revoked"]
      BY <2>1
    <3> QED BY <2>1, <3>1, RevokedLogin
  <2>2. CASE l \notin S
    <3>1. old[l] = a
      BY <2>2
    <3> QED BY <2>2, <3>1 DEF SameLogin
  <2> QED BY <2>1, <2>2
<1>3. old \in Seq(Login) /\ Len(old) = Len(logins) /\ DOMAIN old = DOMAIN logins
  BY <1>1, <1>2
<1>4. logins' = Append(old, new)
  OBVIOUS
<1>5. /\ logins' \in Seq(Login) /\ Len(logins') = Len(old) + 1 /\ logins'[Len(old) + 1] = new
      /\ \A l \in 1 .. Len(old) : logins'[l] = old[l]
  BY <1>3, <1>4, AppendProperties
<1>6. DOMAIN logins' = 1 .. Len(logins')
  BY <1>5
<1>7. DOMAIN logins' = 1 .. Len(logins) + 1 /\ logins'[Len(logins) + 1] = new
      /\ \A l \in DOMAIN logins : logins'[l] = old[l]
  BY <1>1, <1>3, <1>5, <1>6
<1> QED BY <1>1, <1>2, <1>5, <1>7

(* verify commits: its codes are used, the device's earlier sign-ins revoked, and the new
   one has the newest token; or the user is gone, and nothing changes. *)
LEMMA VerifyCommitKeeps ==
    ASSUME AuthInv, NEW r \in Requests, VerifyCommit(r)
    PROVE  AuthInv'
<1> PICK k, n, t : k = req[r] /\ n = Len(logins) + 1 /\ t = Len(tokens) + 1
  OBVIOUS
<1>1. CASE ~AccountStands(r)
  <2>1. UNCHANGED <<tables, replayed>> /\ Ends(r)
    BY <1>1 DEF VerifyCommit, tables
  <2> QED BY <2>1, EndingAside
<1>2. CASE AccountStands(r)
  <2>1. /\ codes \in Seq(Code) /\ logins \in Seq(Login) /\ tokens \in Seq(Token)
        /\ account \in 0..accounts /\ accounts \in Nat /\ spent \subseteq DOMAIN tokens
        /\ replayed \subseteq DOMAIN logins
    BY DEF AuthInv, Tables, TablesTyped
  <2>2. /\ k \in Request /\ k.stage = "save" /\ Stands(k)
        /\ k.created \/ k.account = account
    BY <1>2, Known DEF VerifyCommit, AccountStands
  <2>3. /\ k.device \in Devices /\ k.account # None /\ k.account \in Nat /\ k.code \in Nat \cup {Review}
        /\ k.code # Review => /\ k.code \in DOMAIN codes /\ k.code \in k.codes
                              /\ ~codes[k.code].used /\ codes[k.code].wrong < MaxTries
        /\ k.created => account = None /\ k.account = accounts + 1
        /\ \A l \in k.logins : l \in DOMAIN logins /\ logins[l].state # "deleted"
    BY <2>2 DEF Stands, Opening, Request
  <2> PICK new, first : /\ first = [login |-> n, from |-> None]
                        /\ new = [account |-> k.account, device |-> k.device, token |-> t,
                                  state |-> "live", by |-> k.code]
    OBVIOUS
  <2>4. /\ codes' = [i \in DOMAIN codes |->
                        IF i \in k.codes THEN [codes[i] EXCEPT !.used = TRUE] ELSE codes[i]]
        /\ logins' = Append([l \in DOMAIN logins |->
                        IF l \in k.logins THEN [logins[l] EXCEPT !.state = "revoked"] ELSE logins[l]], new)
        /\ tokens' = Append(tokens, first)
    BY <1>2 DEF VerifyCommit
  <2>5. /\ account' = k.account /\ accounts' = IF k.created THEN accounts + 1 ELSE accounts
        /\ UNCHANGED <<spent, replayed>> /\ Ends(r)
    BY <1>2 DEF VerifyCommit
  <2>6. n \in Nat /\ t \in Nat /\ new \in Login /\ first \in Token
    BY <2>1, <2>3 DEF Login, Token, None
  <2>7. /\ codes' \in Seq(Code) /\ DOMAIN codes' = DOMAIN codes
        /\ \A i \in DOMAIN codes :
                /\ codes'[i].wrong = codes[i].wrong /\ codes'[i].tries = codes[i].tries
                /\ codes'[i].used = (codes[i].used \/ i \in k.codes)
    BY <2>1, <2>4, CodesUsed
  <2>8. /\ logins' \in Seq(Login) /\ DOMAIN logins = 1 .. Len(logins) /\ Len(logins) \in Nat
        /\ DOMAIN logins' = 1 .. n /\ logins'[n] = new
        /\ \A l \in DOMAIN logins :
                /\ SameLogin(logins'[l], logins[l])
                /\ l \in k.logins => logins'[l].state = "revoked"
                /\ l \notin k.logins => logins'[l].state = logins[l].state
    BY <2>1, <2>4, <2>6, LoginOpened
  <2>9. /\ tokens' \in Seq(Token) /\ Len(tokens') = t /\ tokens'[t] = first
        /\ \A s \in 1 .. Len(tokens) : tokens'[s] = tokens[s]
    BY <2>1, <2>4, <2>6, AppendProperties
  <2>10. /\ DOMAIN tokens' = 1 .. t /\ t \in DOMAIN tokens' /\ t \notin DOMAIN tokens
         /\ \A s \in DOMAIN tokens : s \in DOMAIN tokens' /\ tokens'[s] = tokens[s] /\ s < t /\ s \in Nat
         /\ \A s \in DOMAIN tokens' : s = t \/ s \in DOMAIN tokens
    <3>1. tokens \in Seq(Token)
      BY <2>1
    <3>2. DOMAIN tokens = 1 .. Len(tokens) /\ Len(tokens) \in Nat
      BY <3>1
    <3>3. DOMAIN tokens' = 1 .. t
      BY <2>9
    <3>4. \A s \in DOMAIN tokens : tokens'[s] = tokens[s]
      BY <2>9, <3>2
    <3> QED BY <3>2, <3>3, <3>4
  <2>11. /\ n \in DOMAIN logins' /\ n \notin DOMAIN logins
         /\ \A l \in DOMAIN logins : l \in DOMAIN logins'
         /\ \A l \in DOMAIN logins' : l = n \/ l \in DOMAIN logins
    BY <2>8
  <2>12. /\ new.account = k.account /\ new.token = t /\ new.by = k.code /\ new.state = "live"
         /\ first.login = n /\ first.from = None
    OBVIOUS
  <2>13. \A l \in DOMAIN logins : /\ logins'[l].account = logins[l].account
                                  /\ logins'[l].token = logins[l].token /\ logins'[l].by = logins[l].by
    BY <2>8 DEF SameLogin
  <2>14. \A l \in DOMAIN logins : /\ l \in k.logins => logins'[l].state = "revoked"
                                  /\ l \notin k.logins => logins'[l].state = logins[l].state
    BY <2>8
  <2>15. \A i \in DOMAIN codes : codes'[i].wrong = codes[i].wrong /\ codes'[i].tries = codes[i].tries
    BY <2>7
  <2>16. \A i \in DOMAIN codes : (codes[i].used \/ i \in k.codes) => codes'[i].used
    BY <2>7, Zenon
  <2>17. \A i \in DOMAIN codes : i \notin k.codes /\ ~codes[i].used => ~codes'[i].used
    BY <2>7, Zenon
  <2>18. account' \in 0..accounts' /\ accounts' \in Nat
    BY <2>1, <2>2, <2>3, <2>5
  <2>19. TablesTyped'
    <3>1. spent' \subseteq DOMAIN tokens'
      BY <2>1, <2>5, <2>10
    <3>2. replayed' \subseteq DOMAIN logins'
      BY <2>1, <2>5, <2>11
    <3> QED BY <2>7, <2>8, <2>9, <2>18, <3>1, <3>2 DEF TablesTyped
  <2>20. CodesOK'
    <3>1. \A i \in DOMAIN codes' : codes'[i].wrong = codes'[i].tries
      BY <2>7, <2>15 DEF AuthInv, Tables, CodesOK
    <3>2. \A l \in DOMAIN logins : logins[l].by # Review =>
                /\ logins[l].by \in DOMAIN codes
                /\ codes[logins[l].by].used /\ codes[logins[l].by].wrong < MaxTries
      BY DEF AuthInv, Tables, CodesOK
    <3>3. \A l \in DOMAIN logins' : logins'[l].by # Review =>
                /\ logins'[l].by \in DOMAIN codes'
                /\ codes'[logins'[l].by].used /\ codes'[logins'[l].by].wrong < MaxTries
      <4> TAKE l \in DOMAIN logins'
      <4> HAVE logins'[l].by # Review
      <4>0. DOMAIN codes' = DOMAIN codes
        BY <2>7
      <4>1. CASE l = n
        <5>1. logins'[l].by = k.code
          BY <2>8, <2>12, <4>1
        <5> QED BY <2>3, <2>15, <2>16, <4>0, <5>1
      <4>2. CASE l \in DOMAIN logins
        BY <2>13, <2>15, <2>16, <3>2, <4>0, <4>2
      <4> QED BY <2>11, <4>1, <4>2
    <3>4. \A l, m \in DOMAIN logins' : l # m /\ logins'[l].by # Review => logins'[l].by # logins'[m].by
      <4> TAKE l, m \in DOMAIN logins'
      <4> HAVE l # m /\ logins'[l].by # Review
      <4>0. logins'[n].by = k.code
        BY <2>8, <2>12
      <4>1. CASE l \in DOMAIN logins /\ m \in DOMAIN logins
        <5>1. \A a, b \in DOMAIN logins : a # b /\ logins[a].by # Review => logins[a].by # logins[b].by
          BY DEF AuthInv, Tables, CodesOK, CodeWorksOnce
        <5> QED BY <2>13, <4>1, <5>1
      <4>2. CASE l = n /\ m \in DOMAIN logins
        BY <2>3, <2>13, <3>2, <4>0, <4>2
      <4>3. CASE m = n /\ l \in DOMAIN logins
        BY <2>3, <2>13, <3>2, <4>0, <4>3
      <4> QED BY <2>11, <4>1, <4>2, <4>3
    <3> QED BY <3>1, <3>3, <3>4 DEF CodesOK, CodeWorksOnce
  <2>21. LoginsOK'
    <3>1. \A m \in DOMAIN logins : logins[m].account # None /\ logins[m].token \in DOMAIN tokens
                                   /\ tokens[logins[m].token].login = m
      BY DEF AuthInv, Tables, LoginsOK, Holder
    <3>2. \A s \in DOMAIN tokens : tokens[s].login \in DOMAIN logins /\ tokens[s].from < s
                                   /\ \A m \in DOMAIN logins : tokens[s].from # logins[m].token
      BY DEF AuthInv, Tables, LoginsOK, Holder
    <3>3. \A s \in DOMAIN tokens : tokens[s].from \in Nat
      <4>1. \A s \in DOMAIN tokens : tokens[s] \in Token
        <5>1. tokens \in Seq(Token)
          BY <2>1
        <5> QED BY <5>1
      <4> QED BY <4>1 DEF Token
    <3>4. logins'[n].token = t /\ logins'[n].account = k.account
      BY <2>8, <2>12
    <3>5. \A m \in DOMAIN logins' : logins'[m].account # None /\ logins'[m].token \in DOMAIN tokens'
                                    /\ tokens'[logins'[m].token].login = m
      <4> TAKE m \in DOMAIN logins'
      <4>1. CASE m = n
        BY <2>3, <2>9, <2>10, <2>12, <3>4, <4>1
      <4>2. CASE m \in DOMAIN logins
        BY <2>10, <2>13, <3>1, <4>2
      <4> QED BY <2>11, <4>1, <4>2
    <3>6. \A s \in DOMAIN tokens' : tokens'[s].login \in DOMAIN logins' /\ tokens'[s].from < s
                                    /\ \A m \in DOMAIN logins' : tokens'[s].from # logins'[m].token
      <4> TAKE s \in DOMAIN tokens'
      <4>1. CASE s = t
        <5>1. tokens'[s].login = n /\ tokens'[s].from = 0 /\ 0 < s
          BY <2>1, <2>9, <2>12, <4>1 DEF None
        <5>2. \A m \in DOMAIN logins' : logins'[m].token # 0
          BY <2>6, <2>10, <3>5
        <5> QED BY <2>11, <5>1, <5>2
      <4>2. CASE s \in DOMAIN tokens
        <5>1. tokens'[s] = tokens[s] /\ s < t /\ s \in Nat /\ tokens[s].from \in Nat /\ tokens[s].from < s
          BY <2>10, <3>2, <3>3, <4>2
        <5>2. tokens[s].from # t
          BY <2>6, <5>1
        <5>3. \A m \in DOMAIN logins' : tokens[s].from # logins'[m].token
          BY <2>11, <2>13, <3>2, <3>4, <4>2, <5>2
        <5> QED BY <2>11, <3>2, <4>2, <5>1, <5>3
      <4> QED BY <2>10, <4>1, <4>2
    <3>7. TokensFormAChain'
      <4> SUFFICES ASSUME NEW s \in DOMAIN tokens', NEW u \in DOMAIN tokens', s # u, tokens'[s].from # None,
                          tokens'[s].from = tokens'[u].from
                   PROVE  FALSE
        BY DEF TokensFormAChain
      <4>1. tokens'[t].from = None
        BY <2>9, <2>12
      <4>2. s \in DOMAIN tokens /\ u \in DOMAIN tokens
        BY <2>10, <4>1
      <4>3. tokens[s].from # None /\ tokens[s].from = tokens[u].from
        BY <2>10, <4>2
      <4> QED BY <4>2, <4>3 DEF AuthInv, Tables, LoginsOK, TokensFormAChain
    <3>8. ReuseEndsLogin'
      <4>1. \A l \in replayed : l \in DOMAIN logins /\ logins[l].state \in {"revoked", "deleted"}
        BY <2>1 DEF AuthInv, Tables, LoginsOK, ReuseEndsLogin
      <4>2. \A l \in replayed : logins'[l].state \in {"revoked", "deleted"}
        BY <2>14, <4>1
      <4> QED BY <2>5, <4>2 DEF ReuseEndsLogin
    <3>9. NothingOutlivesTheAccount'
      <4> SUFFICES ASSUME NEW l \in DOMAIN logins', logins'[l].state # "deleted"
                   PROVE  logins'[l].account = account'
        BY DEF NothingOutlivesTheAccount
      <4>1. CASE l = n
        BY <2>5, <3>4, <4>1
      <4>2. CASE l \in DOMAIN logins
        <5>1. logins[l].state # "deleted"
          BY <2>3, <2>14, <4>2
        <5>2. logins[l].account = account
          BY <4>2, <5>1 DEF AuthInv, Tables, LoginsOK, NothingOutlivesTheAccount
        <5> QED BY <2>2, <2>3, <2>5, <2>13, <3>1, <4>2, <5>2
      <4> QED BY <2>11, <4>1, <4>2
    <3> QED BY <3>5, <3>6, <3>7, <3>8, <3>9 DEF LoginsOK, Holder
  <2>22. ASSUME NEW j \in Others(r)
         PROVE  Stands(j)'
    <3>1. Stands(j) /\ j.codes \intersect k.codes = {} /\ j.logins \intersect k.logins = {}
          /\ ~(j.created /\ k.created)
      BY Known DEF Apart
    <3>2. ~j.created
      BY <2>2, <2>3, <3>1 DEF Stands
    <3>3. j.stage \in {"mailed", "verify"} => j.code \in DOMAIN codes'
      BY <2>7, <3>1 DEF Stands
    <3>4. j.stage \in Opening /\ j.code # Review =>
            /\ j.code \in DOMAIN codes' /\ j.code \in j.codes
            /\ ~codes'[j.code].used /\ codes'[j.code].wrong < MaxTries
      <4> HAVE j.stage \in Opening /\ j.code # Review
      <4>1. j.code \in DOMAIN codes /\ j.code \in j.codes /\ ~codes[j.code].used /\ codes[j.code].wrong < MaxTries
        BY <3>1 DEF Stands
      <4>2. j.code \notin k.codes
        BY <3>1, <4>1
      <4>3. DOMAIN codes' = DOMAIN codes
        BY <2>7
      <4> QED BY <2>15, <2>17, <4>1, <4>2, <4>3
    <3>5. \A l \in j.logins : l \notin k.logins
      BY <3>1
    <3>6. j.stage = "save" => \A l \in j.logins : l \in DOMAIN logins' /\ logins'[l].state # "deleted"
      BY <2>11, <2>14, <3>1, <3>5 DEF Stands
    <3>7. j.stage = "rotate" =>
            /\ j.login \in j.logins /\ j.login \in DOMAIN logins' /\ j.given \in DOMAIN tokens'
            /\ logins'[j.login].state = "live" /\ logins'[j.login].token = j.given
      BY <2>10, <2>11, <2>13, <2>14, <3>1, <3>5 DEF Stands
    <3>8. j.stage \in {"reuse", "logout"} => j.login \in DOMAIN logins'
      BY <2>11, <3>1 DEF Stands
    <3>9. /\ j.stage \in Opening \union {"verify"} => j.device \in Devices
          /\ j.stage \in {"login", "save"} => j.account # None
      BY <3>1 DEF Stands
    <3> QED BY <3>2, <3>3, <3>4, <3>6, <3>7, <3>8, <3>9 DEF Stands
  <2> QED BY <2>5, <2>19, <2>20, <2>21, <2>22, Ending DEF Tables
<1> QED BY <1>1, <1>2

-----------------------------------------------------------------------------
(* Time passes.                                                            *)

(* A code grows older: nothing else of it changes. *)
LEMMA CodeAgesKeeps ==
    ASSUME AuthInv, NEW i \in DOMAIN codes, CodeAges(i)
    PROVE  AuthInv'
<1>1. codes \in Seq(Code) /\ UNCHANGED <<account, accounts, logins, tokens, spent, req, replayed>>
  BY DEF CodeAges, AuthInv, Tables, TablesTyped
<1>2. DOMAIN codes = 1 .. Len(codes) /\ Len(codes) \in Nat /\ codes[i] \in Code
  BY <1>1
<1> PICK a : a = codes[i].age + 1
  OBVIOUS
<1>3. a \in New..Old
  BY <1>2 DEF CodeAges, Code, New, Old
<1> PICK c : c = [codes[i] EXCEPT !.age = a]
  OBVIOUS
<1>4. c \in Code /\ c.wrong = codes[i].wrong /\ c.tries = codes[i].tries /\ c.used = codes[i].used
  BY <1>2, <1>3 DEF Code
<1>5. codes' = [codes EXCEPT ![i] = c]
  BY <1>1, <1>2 DEF CodeAges
<1>6. codes' \in Seq(Code) /\ DOMAIN codes' = DOMAIN codes /\ codes'[i] = c
      /\ \A m \in DOMAIN codes \ {i} : codes'[m] = codes[m]
  BY <1>1, <1>2, <1>4, <1>5
<1>7. \A m \in DOMAIN codes : /\ codes'[m].wrong = codes[m].wrong /\ codes'[m].used = codes[m].used
                              /\ codes'[m].tries = codes[m].tries
  BY <1>4, <1>6
<1>8. \A m \in DOMAIN codes : codes'[m].wrong = codes'[m].tries
  BY <1>7 DEF AuthInv, Tables, CodesOK
<1>9. Tables'
  <2>1. UNCHANGED <<account, accounts, logins, tokens, spent, replayed>>
    BY <1>1
  <2> QED BY <1>6, <1>7, <1>8, <2>1, CodesChange
<1>10. ASSUME NEW r \in Requests
       PROVE  Stands(req[r])'
  <2> PICK j : j = req[r]
    OBVIOUS
  <2>1. Stands(j)'
    <3>1. UNCHANGED <<account, accounts, logins, tokens>> /\ Stands(j)
      BY <1>1, Known
    <3> QED BY <1>6, <1>7, <3>1, CodesStand
  <2>2. req'[r] = j
    BY <1>1
  <2> QED BY <2>1, <2>2 DEF Stands
<1> QED BY <1>1, <1>9, <1>10 DEF AuthInv, Apart

(* A sign-in that expires, or is cleaned away, while no request is under way. *)
LEMMA LoginOver ==
    ASSUME AuthInv, NEW l \in DOMAIN logins, NEW s \in {"expired", "deleted"},
           logins' = [logins EXCEPT ![l].state = s],
           UNCHANGED <<codes, account, accounts, tokens, req, replayed>>, spent' \subseteq spent,
           l \in replayed => s = "deleted", logins[l].state # "deleted",
           \A r \in Requests : req[r].stage = "idle"
    PROVE  AuthInv'
<1>1. codes \in Seq(Code) /\ logins \in Seq(Login) /\ replayed \subseteq DOMAIN logins
  BY DEF AuthInv, Tables, TablesTyped
<1>2. DOMAIN logins = 1 .. Len(logins) /\ Len(logins) \in Nat /\ logins[l] \in Login
  BY <1>1
<1> PICK a : a = [logins[l] EXCEPT !.state = s]
  OBVIOUS
<1>3. a \in Login /\ SameLogin(a, logins[l]) /\ a.state = s
  <2> PICK b \in Login : b = logins[l]
    BY <1>2
  <2>1. [b EXCEPT !.state = s] \in Login /\ SameLogin([b EXCEPT !.state = s], b)
        /\ [b EXCEPT !.state = s].state = s
    <3>1. s \in {"live", "expired", "revoked", "deleted"}
      OBVIOUS
    <3> QED BY <3>1 DEF Login, SameLogin
  <2> QED BY <2>1
<1>4. logins' = [logins EXCEPT ![l] = a]
  OBVIOUS
<1>5. logins' \in Seq(Login) /\ DOMAIN logins' = DOMAIN logins /\ logins'[l] = a
      /\ \A m \in DOMAIN logins \ {l} : logins'[m] = logins[m]
  <2>1. logins \in Seq(Login) /\ a \in Login
    BY <1>1, <1>3
  <2> QED BY <1>2, <1>4, <2>1
<1>6. \A m \in DOMAIN logins :
            /\ SameLogin(logins'[m], logins[m])
            /\ logins'[m].state # "deleted" => logins[m].state # "deleted"
  BY <1>3, <1>5 DEF SameLogin
<1>7. \A m \in replayed : logins'[m].state \in {"revoked", "deleted"}
  <2>1. \A m \in replayed : m \in DOMAIN logins /\ logins[m].state \in {"revoked", "deleted"}
    BY <1>1 DEF AuthInv, Tables, LoginsOK, ReuseEndsLogin
  <2> QED BY <1>3, <1>5, <2>1
<1>8. Tables'
  BY <1>1, <1>5, <1>6, <1>7, LoginsEnd
<1>9. \A r \in Requests : Stands(req[r])'
  <2> TAKE r \in Requests
  <2>1. req'[r].stage = "idle" /\ ~req'[r].created
    BY Known DEF Stands
  <2> QED BY <2>1 DEF Stands, Opening
<1> QED BY <1>8, <1>9 DEF AuthInv, Apart

(* A sign-in that was not refreshed for half a year. *)
LEMMA LoginExpiresKeeps ==
    ASSUME AuthInv, NEW l \in DOMAIN logins, LoginExpires(l)
    PROVE  AuthInv'
<1>1. l \notin replayed
  BY DEF LoginExpires, AuthInv, Tables, LoginsOK, ReuseEndsLogin
<1>2. /\ logins[l].state = "live" /\ \A r \in Requests : req[r].stage = "idle"
      /\ logins' = [logins EXCEPT ![l].state = "expired"]
      /\ UNCHANGED <<codes, account, accounts, tokens, spent, req, replayed>>
  BY DEF LoginExpires
<1> QED BY <1>1, <1>2, LoginOver

(* cleanup removes a sign-in that is long over, with its spent tokens. *)
LEMMA CleanupKeeps ==
    ASSUME AuthInv, NEW l \in DOMAIN logins, Cleanup(l)
    PROVE  AuthInv'
<1>1. /\ logins[l].state \in {"expired", "revoked"} /\ \A r \in Requests : req[r].stage = "idle"
      /\ logins' = [logins EXCEPT ![l].state = "deleted"]
      /\ UNCHANGED <<codes, account, accounts, tokens, req, replayed>>
      /\ spent' \subseteq spent
  BY DEF Cleanup
<1> QED BY <1>1, LoginOver

-----------------------------------------------------------------------------
(* Every step.                                                             *)

(* Nobody has signed in yet. *)
LEMMA StartsSound == Init => AuthInv
<1> SUFFICES ASSUME Init
             PROVE  AuthInv
  OBVIOUS
<1>1. /\ codes = <<>> /\ logins = <<>> /\ tokens = <<>> /\ account = None /\ accounts = 0
      /\ spent = {} /\ replayed = {} /\ req = [r \in Requests |-> Idle]
  BY DEF Init
<1>2. DOMAIN codes = {} /\ DOMAIN logins = {} /\ DOMAIN tokens = {}
  BY <1>1
<1>3. TablesTyped
  BY <1>1 DEF TablesTyped, None
<1>4. CodesOK
  BY <1>2 DEF CodesOK, CodeWorksOnce
<1>5. LoginsOK
  BY <1>1, <1>2 DEF LoginsOK, TokensFormAChain, ReuseEndsLogin, NothingOutlivesTheAccount
<1>6. \A r \in Requests : req[r] = Idle
  BY <1>1
<1>7. req \in [Requests -> Request] /\ \A r \in Requests : Stands(req[r])
  BY <1>1, <1>6, IdleIsFree
<1>8. \A q, r \in Requests : Apart(req[q], req[r])
  BY <1>6, IdleIsFree
<1> QED BY <1>3, <1>4, <1>5, <1>7, <1>8 DEF AuthInv, Tables

(* Whatever step is taken, the invariant stays. *)
LEMMA AuthStep == AuthInv /\ [Next]_vars => AuthInv'
<1> SUFFICES ASSUME AuthInv, [Next]_vars
             PROVE  AuthInv'
  OBVIOUS
<1>1. ASSUME NEW r \in Requests, Start(r)
      PROVE  AuthInv'
  <2>1. CASE StartCheck(r)
    BY <2>1, GoesOn DEF StartCheck, Goes
  <2> QED BY <1>1, <2>1, StartMailKeeps, StartCommitKeeps DEF Start
<1>2. ASSUME NEW r \in Requests, Verify(r)
      PROVE  AuthInv'
  <2>1. CASE VerifyRefused(r)
    BY <2>1, EndingAside DEF VerifyRefused
  <2> QED BY <1>2, <2>1, VerifyAskKeeps, VerifyWrongKeeps, VerifyRightKeeps, InsertUserKeeps, SelectUserKeeps,
             RevokeEarlierKeeps, VerifyCommitKeeps DEF Verify
<1>3. ASSUME NEW r \in Requests, Refresh(r)
      PROVE  AuthInv'
  BY <1>3, RefreshAskKeeps, RefreshCommitKeeps, RefreshReuseKeeps DEF Refresh
<1>4. ASSUME NEW r \in Requests, Account(r)
      PROVE  AuthInv'
  <2>1. CASE DeleteUser(r)
    BY <2>1, GoesOn DEF DeleteUser, Goes
  <2>2. ASSUME NEW l \in DOMAIN logins,
               \/ Call(r, l, "logout", NoDevice) \/ Call(r, l, "delete", NoDevice)
               \/ \E d \in Devices : Call(r, l, "signout", d)
        PROVE  AuthInv'
    BY <2>2, CallKeeps
  <2> QED BY <1>4, <2>1, <2>2, LogoutKeeps, SignOutKeeps, DeleteCodesKeeps, DeleteKeeps DEF Account
<1>5. ASSUME UNCHANGED vars
      PROVE  AuthInv'
  <2>1. UNCHANGED <<codes, account, accounts, logins, tokens, spent, req, replayed>>
    BY <1>5 DEF vars, tables
  <2>2. Tables'
    BY <2>1 DEF AuthInv, Tables, TablesTyped, CodesOK, CodeWorksOnce, LoginsOK, Holder, TokensFormAChain,
                ReuseEndsLogin, NothingOutlivesTheAccount
  <2>3. \A r \in Requests : Stands(req[r])'
    <3> TAKE r \in Requests
    <3> PICK j : j = req[r]
      OBVIOUS
    <3>1. Stands(j)'
      BY <2>1, Known DEF Stands
    <3> QED BY <2>1, <3>1 DEF Stands
  <2> QED BY <2>1, <2>2, <2>3 DEF AuthInv, Apart
<1> QED BY <1>1, <1>2, <1>3, <1>4, <1>5, RollBackKeeps, CodeAgesKeeps, LoginExpiresKeeps, CleanupKeeps DEF Next

-----------------------------------------------------------------------------
(* The theorems.                                                           *)

(* The rows of every table are of their types, and a request knows what its stage needs. *)
LEMMA AuthInvIsKept == Spec => []AuthInv
BY StartsSound, AuthStep, PTL DEF Spec

(* One code opens one sign-in, the fifth wrong try kills it, a refresh token is exchanged
   once and a spent one that comes back ends the sign-in, however the requests of an
   address interleave (auth_service.py verify, refresh). *)
THEOREM OneCodeOneSignIn == Spec => []SignInHolds
<1>1. AuthInv => SignInHolds
  <2> SUFFICES ASSUME AuthInv
               PROVE  SignInHolds
    OBVIOUS
  <2>1. CodeWorksOnce /\ TokensFormAChain /\ ReuseEndsLogin
    BY DEF AuthInv, Tables, CodesOK, LoginsOK
  <2>2. \A i \in DOMAIN codes : codes[i] \in Code /\ codes[i].wrong = codes[i].tries
    BY DEF AuthInv, Tables, TablesTyped, CodesOK
  <2>3. \A i \in DOMAIN codes : codes[i].tries <= MaxTries
    BY <2>2, AuthBounds DEF Code
  <2>4. TriesKillACode
    BY <2>2, <2>3 DEF TriesKillACode, AuthInv, Tables, CodesOK
  <2> QED BY <2>1, <2>4 DEF SignInHolds
<1> QED BY <1>1, AuthInvIsKept, PTL

(* A deleted account leaves no sign-in behind, not even of a verification that was under
   way (auth_service.py delete_account, _new_login). *)
THEOREM NoSignInOutlivesItsAccount == Spec => []NothingOutlivesTheAccount
<1>1. AuthInv => NothingOutlivesTheAccount
  BY DEF AuthInv, Tables, LoginsOK
<1> QED BY <1>1, AuthInvIsKept, PTL

\* What a step may never do to a sign-in that has ended.
EndsForGood ==
    \A l \in DOMAIN logins :
        logins[l].state # "live" => logins'[l].token = logins[l].token /\ logins'[l].state # "live"

(* One sign-in gets another state: it is not live. *)
LEMMA OneEnds ==
    ASSUME logins \in Seq(Login), NEW l \in DOMAIN logins, NEW s \in {"expired", "revoked", "deleted"},
           logins' = [logins EXCEPT ![l].state = s]
    PROVE  EndsForGood
<1> PICK a \in Login : a = logins[l]
  OBVIOUS
<1>1. logins' = [logins EXCEPT ![l] = [a EXCEPT !.state = s]]
  OBVIOUS
<1>2. [a EXCEPT !.state = s].token = a.token /\ [a EXCEPT !.state = s].state = s
  BY DEF Login
<1> PICK b : b = [a EXCEPT !.state = s]
  OBVIOUS
<1>3. logins' = [logins EXCEPT ![l] = b] /\ b.token = logins[l].token /\ b.state = s
  BY <1>1, <1>2
<1> QED BY <1>3 DEF EndsForGood

(* Some sign-ins get another state: they are not live. *)
LEMMA ManyEnd ==
    ASSUME logins \in Seq(Login), NEW S, NEW s \in {"expired", "revoked", "deleted"},
           logins' = [l \in DOMAIN logins |->
                        IF l \in S THEN [logins[l] EXCEPT !.state = s] ELSE logins[l]]
    PROVE  EndsForGood
<1> SUFFICES ASSUME NEW l \in DOMAIN logins, logins[l].state # "live"
             PROVE  logins'[l].token = logins[l].token /\ logins'[l].state # "live"
  BY DEF EndsForGood
<1> PICK a \in Login : a = logins[l]
  OBVIOUS
<1>1. [a EXCEPT !.state = s].token = a.token /\ [a EXCEPT !.state = s].state = s
  BY DEF Login
<1>2. logins'[l] = a \/ logins'[l] = [a EXCEPT !.state = s]
  OBVIOUS
<1> QED BY <1>1, <1>2

(* No sign-in gets a new token once it was revoked, expired or deleted, and none comes back
   to life: refresh looks at the row it has locked (auth_service.py refresh, verify,
   logout, sign_out_device, delete_account, cleanup). *)
THEOREM EndedSignInsStayEnded == Spec => EndedLoginsStayEnded
<1>1. AuthInv /\ [Next]_vars => [EndsForGood]_vars
  <2> SUFFICES ASSUME AuthInv, Next
               PROVE  EndsForGood
    OBVIOUS
  <2>1. /\ logins \in Seq(Login) /\ DOMAIN logins = 1 .. Len(logins) /\ Len(logins) \in Nat
        /\ \A r \in Requests : req[r].stage \in {"rotate", "reuse", "logout"} => req[r].login \in DOMAIN logins
    <3>1. logins \in Seq(Login)
      BY DEF AuthInv, Tables, TablesTyped
    <3> QED BY <3>1, Known DEF Stands
  <2>2. UNCHANGED logins => EndsForGood
    BY DEF EndsForGood
  <2>3. ASSUME NEW r \in Requests, VerifyCommit(r)
        PROVE  EndsForGood
    <3>1. CASE ~AccountStands(r)
      BY <2>2, <2>3, <3>1 DEF VerifyCommit
    <3>2. CASE AccountStands(r)
      <4> PICK old : old = [l \in DOMAIN logins |->
                              IF l \in req[r].logins THEN [logins[l] EXCEPT !.state = "revoked"] ELSE logins[l]]
        OBVIOUS
      <4> PICK new : new = [account |-> req[r].account, device |-> req[r].device, token |-> Len(tokens) + 1,
                            state |-> "live", by |-> req[r].code]
        OBVIOUS
      <4>1. logins' = Append(old, new)
        BY <2>3, <3>2 DEF VerifyCommit
      <4>2. \A l \in DOMAIN logins : logins'[l] = old[l]
        <5>1. DOMAIN old = DOMAIN logins
          OBVIOUS
        <5>2. old \in Seq({old[l] : l \in DOMAIN logins} \union {new}) /\ Len(old) = Len(logins)
          BY <2>1, <5>1
        <5> QED BY <2>1, <4>1, <5>2, AppendProperties
      <4>3. ASSUME NEW l \in DOMAIN logins, logins[l].state # "live"
            PROVE  logins'[l].token = logins[l].token /\ logins'[l].state # "live"
        <5> PICK a \in Login : a = logins[l]
          BY <2>1
        <5>1. logins'[l] = a \/ logins'[l] = [a EXCEPT !.state = "revoked"]
          BY <4>2
        <5>2. [a EXCEPT !.state = "revoked"].token = a.token /\ [a EXCEPT !.state = "revoked"].state = "revoked"
          BY DEF Login
        <5> QED BY <4>3, <5>1, <5>2
      <4> QED BY <4>3 DEF EndsForGood
    <3> QED BY <3>1, <3>2
  <2>4. ASSUME NEW r \in Requests, RefreshCommit(r)
        PROVE  EndsForGood
    <3> PICK l, n : l = req[r].login /\ n = Len(tokens) + 1
      OBVIOUS
    <3>1. l \in DOMAIN logins /\ logins[l].state = "live" /\ logins' = [logins EXCEPT ![l].token = n]
      BY <2>4, Known DEF RefreshCommit, Stands
    <3>2. \A m \in DOMAIN logins : m # l => logins'[m] = logins[m]
      BY <3>1
    <3> QED BY <3>1, <3>2 DEF EndsForGood
  <2>5. ASSUME NEW r \in Requests, RefreshReuse(r)
        PROVE  EndsForGood
    <3> PICK l : l = req[r].login
      OBVIOUS
    <3>1. l \in DOMAIN logins
      BY <2>1, <2>5 DEF RefreshReuse
    <3>2. \/ UNCHANGED logins
          \/ logins' = [logins EXCEPT ![l].state = IF NotRevoked(l) THEN "revoked" ELSE logins[l].state]
      BY <2>5, <3>1 DEF RefreshReuse
    <3>3. CASE NotRevoked(l) /\ ~UNCHANGED logins
      <4>1. logins' = [logins EXCEPT ![l].state = "revoked"]
        BY <3>2, <3>3
      <4> QED BY <2>1, <3>1, <4>1, OneEnds
    <3>4. CASE ~NotRevoked(l) /\ ~UNCHANGED logins
      <4> PICK s : s = logins[l].state
        OBVIOUS
      <4>1. s \in {"expired", "revoked", "deleted"}
        <5>1. logins[l] \in Login
          BY <2>1, <3>1
        <5> QED BY <3>4, <5>1 DEF NotRevoked, Login
      <4>2. logins' = [logins EXCEPT ![l].state = s]
        BY <3>2, <3>4
      <4> QED BY <2>1, <3>1, <4>1, <4>2, OneEnds
    <3> QED BY <2>2, <3>3, <3>4
  <2>6. ASSUME NEW r \in Requests, Logout(r)
        PROVE  EndsForGood
    <3> PICK l, s : l = req[r].login /\ s = IF logins[l].state = "deleted" THEN "deleted" ELSE "revoked"
      OBVIOUS
    <3>1. l \in DOMAIN logins
      BY <2>1, <2>6 DEF Logout
    <3>2. logins' = [logins EXCEPT ![l].state = s]
      BY <2>6, <3>1 DEF Logout
    <3> QED BY <2>1, <3>1, <3>2, OneEnds
  <2>7. ASSUME NEW r \in Requests, SignOutDevice(r)
        PROVE  EndsForGood
    BY <2>1, <2>7, ManyEnd DEF SignOutDevice
  <2>8. ASSUME NEW r \in Requests, DeleteCommit(r)
        PROVE  EndsForGood
    BY <2>1, <2>8, ManyEnd DEF DeleteCommit
  <2>9. ASSUME NEW r \in Requests, Start(r) \/ RollBack(r)
        PROVE  UNCHANGED logins
    BY <2>9 DEF Start, StartCheck, StartMail, StartCommit, RollBack, tables
  <2>10. ASSUME NEW r \in Requests, Verify(r), ~VerifyCommit(r)
         PROVE  UNCHANGED logins
    BY <2>10 DEF Verify, VerifyAsk, VerifyRefused, VerifyWrong, VerifyRight, InsertUser, SelectUser,
                 RevokeEarlier, tables
  <2>11. ASSUME NEW r \in Requests, Refresh(r), ~RefreshCommit(r), ~RefreshReuse(r)
         PROVE  UNCHANGED logins
    BY <2>11 DEF Refresh, RefreshAsk, tables
  <2>12. ASSUME NEW r \in Requests, Account(r), ~Logout(r), ~SignOutDevice(r), ~DeleteCommit(r)
         PROVE  UNCHANGED logins
    BY <2>12 DEF Account, Call, DeleteCodes, DeleteUser, tables
  <2>13. ASSUME NEW i \in DOMAIN codes, CodeAges(i)
         PROVE  UNCHANGED logins
    BY <2>13 DEF CodeAges
  <2>14. ASSUME NEW l \in DOMAIN logins, LoginExpires(l) \/ Cleanup(l)
         PROVE  EndsForGood
    <3>1. \/ logins' = [logins EXCEPT ![l].state = "expired"]
          \/ logins' = [logins EXCEPT ![l].state = "deleted"]
      BY <2>14 DEF LoginExpires, Cleanup
    <3> QED BY <2>1, <3>1, OneEnds
  <2> QED BY <2>2, <2>3, <2>4, <2>5, <2>6, <2>7, <2>8, <2>9, <2>10, <2>11, <2>12, <2>13, <2>14 DEF Next
<1> QED BY <1>1, AuthInvIsKept, PTL DEF Spec, EndedLoginsStayEnded, EndsForGood
=============================================================================
