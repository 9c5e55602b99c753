---------------------------- MODULE WebLoginProofs ----------------------------
(***************************************************************************)
(* That every step of a login keeps LoginInvariant, for any users, logins, *)
(* browsers and requests. GoogleCallsProofs puts the lemmas together with  *)
(* those about the turns that run beside the logins.                       *)
(***************************************************************************)
EXTENDS WebLogin, TLAPS

(* Accounts and grants once there are never taken back: a grant that was   *)
(* exchanged stays so, or is revoked. A user is only taken back when the   *)
(* transaction is.                                                         *)
GrantsKept ==
    /\ \A l \in Logins : grant[l] # "none" => grant'[l] # "none" /\ account'[l] = account[l]
    /\ \A l \in Logins : grant[l] \in {"alive", "revoked"} => grant'[l] \in {"alive", "revoked"}
UsersKept == \A u \in Requests : users[u] # None => users'[u] = users[u]
Kept == GrantsKept /\ UsersKept

(* A request never goes back before what it has written.                   *)
Moves(q) ==
    /\ req[q].step \in AfterInsert => req'[q].step \in AfterInsert
    /\ req[q].step \in AfterSession =>
           /\ req'[q].step \in AfterSession
           /\ req'[q].step # "failed" => req[q].step # "failed" /\ req'[q].user = req[q].user
           /\ req'[q].login # None => req'[q].login = req[q].login

LEMMA RequestFields ==
  ASSUME NEW q \in Request
  PROVE  /\ q.step \in Steps /\ q.login \in Logins \cup {None} /\ q.email \in Emails \cup {None}
         /\ q.user \in Requests \cup {None} /\ q.token \in Token \cup {None}
         /\ q.token # None => q.token.grant \in Logins
BY DEF Request, Token

LEMMA RequestOf ==
  ASSUME NEW step \in Steps, NEW login \in Logins \cup {None}, NEW email \in Emails \cup {None},
         NEW user \in Requests \cup {None}, NEW token \in Token \cup {None}
  PROVE  [step |-> step, login |-> login, email |-> email, user |-> user, token |-> token] \in Request
BY DEF Request

LEMMA DatabaseFields ==
  ASSUME NEW d \in Database
  PROVE  /\ d.users \in [Requests -> Emails \cup {None}]
         /\ d.session \in [Requests -> Session \cup {None}]
         /\ d.tokens \in [Requests -> Token \cup {None}]
         /\ d.newest \in [Requests -> Grant \cup {None}]
BY DEF Database

LEMMA DatabaseOf ==
  ASSUME NEW u \in [Requests -> Emails \cup {None}], NEW s \in [Requests -> Session \cup {None}],
         NEW t \in [Requests -> Token \cup {None}], NEW n \in [Requests -> Grant \cup {None}]
  PROVE  [users |-> u, session |-> s, tokens |-> t, newest |-> n] \in Database
BY DEF Database

LEMMA SeenFields ==
  /\ Seen.users = users /\ Seen.session = session /\ Seen.tokens = tokens /\ Seen.newest = newest
BY DEF Seen

(* The types of the parts of LoginTypeOK.                                  *)
LEMMA TableTypes ==
  ASSUME LoginTypeOK
  PROVE  /\ users \in [Requests -> Emails \cup {None}]
         /\ session \in [Requests -> Session \cup {None}]
         /\ tokens \in [Requests -> Token \cup {None}]
         /\ newest \in [Requests -> Grant \cup {None}]
         /\ disk.users \in [Requests -> Emails \cup {None}]
         /\ disk.session \in [Requests -> Session \cup {None}]
         /\ disk.tokens \in [Requests -> Token \cup {None}]
         /\ disk.newest \in [Requests -> Grant \cup {None}]
BY SeenFields, DatabaseFields DEF LoginTypeOK

-----------------------------------------------------------------------------
(* Consistent, of tables, requests, grants and accounts at any time.       *)
Coherent(d, rq, gr, ac) ==
    /\ \A u, v \in Requests : d.users[u] = d.users[v] /\ d.users[u] # None => u = v
    /\ \A u \in Requests : d.users[u] # None => rq[u].step \in AfterInsert
    /\ \A u \in Requests : d.tokens[u] # None =>
          /\ d.users[u] # None /\ ac[d.tokens[u].grant] = d.users[u]
          /\ gr[d.tokens[u].grant] \in {"alive", "revoked"}
          /\ d.newest[u] # None
    /\ \A u \in Requests : d.newest[u] # None /\ d.newest[u].fate = "kept" =>
          /\ d.tokens[u] # None
          /\ d.tokens[u].grant = d.newest[u].grant
          /\ d.tokens[u].refresh = d.newest[u].refresh
    /\ \A s \in Requests : d.session[s] # None =>
          /\ rq[s].step \in AfterSession
          /\ rq[s].step # "failed" => d.session[s].user = rq[s].user
          /\ d.users[d.session[s].user] # None
          /\ rq[s].login # None => d.users[d.session[s].user] = ac[rq[s].login]

LEMMA CoherentNow ==
  /\ Consistent(Seen) <=> Coherent(Seen, req, grant, account)
  /\ Consistent(disk) <=> Coherent(disk, req, grant, account)
BY DEF Consistent, Coherent

LEMMA CoherentThen ==
  /\ Consistent(Seen)' <=> Coherent(Seen', req', grant', account')
  /\ Consistent(disk)' <=> Coherent(disk', req', grant', account')
BY DEF Consistent, Coherent

(* What is coherent stays so while no request goes back.                   *)
LEMMA CoherentStays ==
  ASSUME NEW d \in Database, Coherent(d, req, grant, account), GrantsKept, LoginTypeOK,
         \A q \in Requests : Moves(q), \A q \in Requests : RequestInHand(q)
  PROVE  Coherent(d, req', grant', account')
<1>1. \A u \in Requests : d.tokens[u] # None => d.tokens[u].grant \in Logins
  BY DatabaseFields DEF Token
<1>2. \A u \in Requests : d.users[u] # None => req'[u].step \in AfterInsert
  BY DEF Coherent, Moves
<1>3. \A u \in Requests : d.tokens[u] # None =>
          /\ d.users[u] # None /\ account'[d.tokens[u].grant] = d.users[u]
          /\ grant'[d.tokens[u].grant] \in {"alive", "revoked"}
          /\ d.newest[u] # None
  BY <1>1 DEF Coherent, GrantsKept
<1>4. ASSUME NEW s \in Requests, d.session[s] # None
      PROVE  /\ req'[s].step \in AfterSession
             /\ req'[s].step # "failed" => d.session[s].user = req'[s].user
             /\ d.users[d.session[s].user] # None
             /\ req'[s].login # None => d.users[d.session[s].user] = account'[req'[s].login]
  <2>1. /\ req[s].step \in AfterSession /\ d.users[d.session[s].user] # None
        /\ req[s].step # "failed" => d.session[s].user = req[s].user
        /\ req[s].login # None => d.users[d.session[s].user] = account[req[s].login]
    BY <1>4 DEF Coherent
  <2>2. Moves(s) /\ RequestInHand(s)
    OBVIOUS
  <2>3. req'[s].login # None =>
            req'[s].login = req[s].login /\ req[s].login \in Logins /\ grant[req[s].login] # "none"
    BY <2>1, <2>2, RequestFields DEF Moves, RequestInHand, LoginTypeOK
  <2> QED
    BY <2>1, <2>2, <2>3 DEF Moves, GrantsKept
<1> QED
  BY <1>2, <1>3, <1>4 DEF Coherent

(* A request that has not moved still fits what the others made of the     *)
(* tables.                                                                 *)
LEMMA OthersInHand ==
  ASSUME LoginTypeOK, GrantsKept, NEW q \in Requests, RequestInHand(q), req'[q] = req[q],
         users'[q] \in {users[q], None},
         req[q].user # None => /\ users'[req[q].user] \in {users[req[q].user], None}
                               /\ Moves(req[q].user)
  PROVE  RequestInHand(q)'
<1>1. req[q] \in Request
  BY DEF LoginTypeOK
<1>2. /\ req[q].login \in Logins \cup {None}
      /\ req[q].user \in Requests \cup {None} /\ req[q].token \in Token \cup {None}
      /\ req[q].token # None => req[q].token.grant \in Logins
  BY <1>1, RequestFields
<1> DEFINE x == req[q]
<1>3. req'[q] = x
  OBVIOUS
<1>4. x.login # None => /\ grant'[x.login] # "none" /\ account'[x.login] = account[x.login]
                        /\ grant[x.login] \in {"alive", "revoked"} =>
                               grant'[x.login] \in {"alive", "revoked"}
  BY <1>2 DEF RequestInHand, GrantsKept
<1>5. x.token # None => x.login # None
  BY <1>2, NoneAssumption DEF RequestInHand
<1>6. x.user # None => req'[x.user].step \in AfterInsert
  BY DEF RequestInHand, Moves
<1>7. QED
  BY <1>3, <1>4, <1>5, <1>6 DEF RequestInHand

(* The parts of the invariant that are about the tables and the requests.  *)
LEMMA PartsTogether ==
  ASSUME LoginTypeOK', \A q \in Requests : RequestInHand(q)', GrantsBelong',
         Coherent(Seen', req', grant', account'), Coherent(disk', req', grant', account'),
         Ahead', Leaving', LogoutIsFinal'
  PROVE  LoginInvariant'
BY CoherentThen DEF LoginInvariant

(* No statement is executed; perhaps the transaction is committed.         *)
LEMMA NothingWritten ==
  ASSUME LoginInvariant, UNCHANGED tables, disk' \in {disk, Seen}, GrantsKept,
         \A q \in Requests : Moves(q)
  PROVE  /\ Seen' = Seen /\ Ahead' /\ disk' \in Database
         /\ Coherent(Seen', req', grant', account') /\ Coherent(disk', req', grant', account')
<1>1. Seen' = Seen
  BY DEF Seen, tables
<1>2. /\ Seen \in Database /\ disk \in Database /\ LoginTypeOK
      /\ \A q \in Requests : RequestInHand(q)
      /\ Coherent(Seen, req, grant, account) /\ Coherent(disk, req, grant, account)
  BY CoherentNow DEF LoginInvariant, LoginTypeOK
<1>3. Coherent(Seen, req', grant', account') /\ Coherent(disk, req', grant', account')
  BY <1>2, CoherentStays
<1>4. users' = users /\ newest' = newest
  BY DEF tables
<1>5. Ahead'
  <2>1. CASE disk' = disk
    BY <1>4, <2>1 DEF LoginInvariant, Ahead
  <2>2. CASE disk' = Seen
    BY <1>4, <2>2, SeenFields DEF Ahead
  <2> QED
    BY <2>1, <2>2
<1> QED
  BY <1>1, <1>2, <1>3, <1>5

(* The steps of one request that execute no statement.                     *)
LEMMA RequestStep ==
  ASSUME LoginInvariant, NEW r \in Requests,
         UNCHANGED <<clock, mode, tables, returned, account>>, disk' \in {disk, Seen},
         GrantsKept, grant' \in [Logins -> {"none", "code", "alive", "revoked"}],
         \A l \in Logins : grant'[l] = "none" <=> grant[l] = "none",
         cookie' \in [Browsers -> Logins \cup {None}],
         req' = [req EXCEPT ![r] = req'[r]], req'[r] \in Request, RequestInHand(r)', Moves(r),
         req'[r].step # "leaving",
         req'[r].step = "left" => req[r].step = "leaving" /\ disk' = Seen
  PROVE  LoginInvariant' /\ Kept
<1>1. \A q \in Requests \ {r} : req'[q] = req[q]
  BY DEF LoginInvariant, LoginTypeOK
<1>2. \A q \in Requests : Moves(q)
  BY <1>1 DEF Moves
<1>3. users' = users /\ session' = session
  BY DEF tables
<1>4. \A q \in Requests : RequestInHand(q)'
  <2> SUFFICES ASSUME NEW q \in Requests, q # r PROVE RequestInHand(q)'
    OBVIOUS
  <2>1. req[q].user # None => req[q].user \in Requests
    BY RequestFields DEF LoginInvariant, LoginTypeOK
  <2>2. QED
    BY <1>1, <1>2, <1>3, <2>1, OthersInHand DEF LoginInvariant
<1>5. /\ Seen' = Seen /\ Ahead' /\ disk' \in Database
      /\ Coherent(Seen', req', grant', account') /\ Coherent(disk', req', grant', account')
  BY <1>2, NothingWritten
<1>6. LoginTypeOK'
  BY <1>5 DEF LoginInvariant, LoginTypeOK
<1>7. GrantsBelong'
  BY DEF LoginInvariant, GrantsBelong
<1>8. Leaving'
  BY <1>1, <1>3 DEF LoginInvariant, Leaving
<1>9. LogoutIsFinal'
  <2> SUFFICES ASSUME NEW s \in Requests \ returned, req'[s].step = "left"
               PROVE  session[s] = None /\ disk'.session[s] = None
    BY <1>3 DEF LogoutIsFinal
  <2>1. CASE s = r
    <3>1. disk' = Seen /\ session[r] = None
      BY <2>1 DEF LoginInvariant, Leaving
    <3>2. QED
      BY <2>1, <3>1, SeenFields
  <2>2. CASE s # r
    <3>1. session[s] = None /\ disk.session[s] = None
      BY <1>1, <2>2 DEF LoginInvariant, LogoutIsFinal
    <3>2. QED
      BY <3>1, SeenFields
  <2> QED
    BY <2>1, <2>2
<1> QED
  BY <1>3, <1>4, <1>5, <1>6, <1>7, <1>8, <1>9, PartsTogether DEF Kept, UsersKept

LEMMA FailedFields ==
  /\ Failed \in Request /\ Failed.step = "failed" /\ Failed.login = None
  /\ Failed.email = None /\ Failed.user = None /\ Failed.token = None
<1>1. Failed = [step |-> "failed", login |-> None, email |-> None, user |-> None, token |-> None]
  BY DEF Failed, Idle
<1>2. QED
  BY <1>1, RequestOf, "failed" \in Steps DEF Steps

(* A request that fails has nothing in hand.                               *)
LEMMA FailedRequest ==
  ASSUME LoginInvariant, NEW r \in Requests,
         UNCHANGED <<clock, mode, tables, returned, account>>, disk' \in {disk, Seen},
         GrantsKept, grant' \in [Logins -> {"none", "code", "alive", "revoked"}],
         \A l \in Logins : grant'[l] = "none" <=> grant[l] = "none",
         UNCHANGED cookie, Fail(r)
  PROVE  LoginInvariant' /\ Kept
<1>1. req \in [Requests -> Request] /\ cookie \in [Browsers -> Logins \cup {None}]
  BY DEF LoginInvariant, LoginTypeOK
<1>2. req' = [req EXCEPT ![r] = Failed] /\ req'[r] = Failed
  BY <1>1 DEF Fail
<1>3. RequestInHand(r)' /\ Moves(r)
  BY <1>2, FailedFields DEF RequestInHand, Moves, AfterInsert, AfterSession, WithCookie
<1>4. req' = [req EXCEPT ![r] = req'[r]]
  BY <1>2
<1>5. QED
  BY <1>1, <1>2, <1>3, <1>4, FailedFields, RequestStep

-----------------------------------------------------------------------------
LEMMA LoginInitInvariant == LoginInit => LoginInvariant
<1> SUFFICES ASSUME LoginInit PROVE LoginInvariant
  OBVIOUS
<1>1. Idle = [step |-> "idle", login |-> None, email |-> None, user |-> None, token |-> None]
  BY DEF Idle
<1>2. Idle \in Request
  BY <1>1, RequestOf, "idle" \in Steps DEF Steps
<1>3. Seen \in Database
  BY DatabaseOf DEF LoginInit, Seen
<1>4. LoginTypeOK
  BY <1>2, <1>3, TimesAssumption DEF LoginInit, LoginTypeOK
<1>5. \A r \in Requests : RequestInHand(r)
  BY <1>1 DEF LoginInit, RequestInHand, WithCookie
<1>6. \A r \in Requests : /\ Seen.users[r] = None /\ Seen.session[r] = None
                          /\ Seen.tokens[r] = None /\ Seen.newest[r] = None
                          /\ req[r].step = "idle"
  BY <1>1, SeenFields DEF LoginInit
<1>7. Consistent(Seen) /\ disk = Seen
  BY <1>6 DEF Consistent, LoginInit
<1>8. GrantsBelong /\ Ahead /\ Leaving /\ LogoutIsFinal
  BY <1>6, <1>7 DEF LoginInit, GrantsBelong, Ahead, Leaving, LogoutIsFinal
<1>9. QED
  BY <1>4, <1>5, <1>7, <1>8 DEF LoginInvariant

(* The steps outside the requests: only grants and accounts change.        *)
LEMMA GoogleStep ==
  ASSUME LoginInvariant, UNCHANGED <<clock, mode, tables, disk, returned, req>>, GrantsKept,
         grant' \in [Logins -> {"none", "code", "alive", "revoked"}],
         account' \in [Logins -> Emails \cup {None}],
         cookie' \in [Browsers -> Logins \cup {None}], GrantsBelong'
  PROVE  LoginInvariant' /\ Kept
<1>1. \A q \in Requests : Moves(q)
  BY DEF Moves
<1>2. users' = users /\ session' = session
  BY DEF tables
<1>3. ASSUME NEW q \in Requests PROVE RequestInHand(q)'
  <2>1. req[q].user # None => req[q].user \in Requests
    BY RequestFields DEF LoginInvariant, LoginTypeOK
  <2>2. QED
    BY <1>1, <1>2, <2>1, OthersInHand DEF LoginInvariant
<1>4. /\ Seen' = Seen /\ Ahead' /\ disk' \in Database
      /\ Coherent(Seen', req', grant', account') /\ Coherent(disk', req', grant', account')
  BY <1>1, NothingWritten
<1>5. LoginTypeOK'
  BY <1>4 DEF LoginInvariant, LoginTypeOK
<1>6. Leaving' /\ LogoutIsFinal'
  BY <1>2 DEF LoginInvariant, Leaving, LogoutIsFinal
<1>7. QED
  BY <1>2, <1>3, <1>4, <1>5, <1>6, PartsTogether DEF Kept, UsersKept

LEMMA LoginStarted ==
  ASSUME LoginInvariant, NEW l \in Logins, NEW e \in Emails, Login(l, e)
  PROVE  LoginInvariant' /\ Kept
<1>1. /\ grant \in [Logins -> {"none", "code", "alive", "revoked"}]
      /\ account \in [Logins -> Emails \cup {None}] /\ cookie \in [Browsers -> Logins \cup {None}]
      /\ GrantsBelong
  BY DEF LoginInvariant, LoginTypeOK
<1>2. /\ grant[l] = "none" /\ grant' = [grant EXCEPT ![l] = "code"]
      /\ account' = [account EXCEPT ![l] = e] /\ cookie' = [cookie EXCEPT ![BrowserOf[l]] = l]
      /\ UNCHANGED <<clock, mode, tables, disk, returned, req>>
  BY DEF Login
<1>3. GrantsKept
  BY <1>1, <1>2 DEF GrantsKept, tables
<1>4. GrantsBelong'
  BY <1>1, <1>2, NoneAssumption DEF GrantsBelong
<1>5. QED
  BY <1>1, <1>2, <1>3, <1>4, GoogleStep, BrowserAssumption

LEMMA GrantRevoked ==
  ASSUME LoginInvariant, NEW e \in Emails, Revoke(e)
  PROVE  LoginInvariant' /\ Kept
<1>1. /\ grant \in [Logins -> {"none", "code", "alive", "revoked"}]
      /\ account \in [Logins -> Emails \cup {None}] /\ cookie \in [Browsers -> Logins \cup {None}]
      /\ GrantsBelong
  BY DEF LoginInvariant, LoginTypeOK
<1>2. /\ grant' = [l \in Logins |-> IF account[l] = e /\ grant[l] = "alive"
                                    THEN "revoked" ELSE grant[l]]
      /\ UNCHANGED <<clock, mode, tables, disk, returned, account, cookie, req>>
  BY DEF Revoke
<1>3. GrantsKept /\ GrantsBelong'
  BY <1>1, <1>2 DEF GrantsKept, tables, GrantsBelong
<1>4. QED
  BY <1>1, <1>2, <1>3, GoogleStep

-----------------------------------------------------------------------------
(* A request on its way to the user's row.                                 *)
LEMMA EarlyStep ==
  ASSUME LoginInvariant, NEW r \in Requests,
         UNCHANGED <<clock, mode, tables, disk, returned, account, cookie>>,
         GrantsKept, grant' \in [Logins -> {"none", "code", "alive", "revoked"}],
         \A l \in Logins : grant'[l] = "none" <=> grant[l] = "none",
         req' = [req EXCEPT ![r] = req'[r]], req'[r] \in Request, RequestInHand(r)',
         req[r].step \in {"idle", "exchange", "userinfo", "lookup"},
         req'[r].step \in {"exchange", "userinfo", "lookup", "insert", "save", "session"}
  PROVE  LoginInvariant' /\ Kept
<1>1. Moves(r)
  BY DEF Moves, AfterInsert, AfterSession, WithCookie
<1>2. cookie' \in [Browsers -> Logins \cup {None}]
  BY DEF LoginInvariant, LoginTypeOK
<1>3. QED
  BY <1>1, <1>2, RequestStep

LEMMA CallbackKeeps ==
  ASSUME LoginInvariant, NEW r \in Requests, NEW l \in Logins, Callback(r, l)
  PROVE  LoginInvariant' /\ Kept
<1>1. /\ req \in [Requests -> Request] /\ cookie \in [Browsers -> Logins \cup {None}]
      /\ grant \in [Logins -> {"none", "code", "alive", "revoked"}]
  BY DEF LoginInvariant, LoginTypeOK
<1>2. /\ req[r] = Idle /\ grant[l] # "none" /\ UNCHANGED <<clock, mode, tables, disk, returned, google, cookie>>
      /\ Fail(r) \/ req' = [req EXCEPT ![r].step = "exchange", ![r].login = l]
  BY DEF Callback
<1>3. GrantsKept /\ RequestInHand(r)
  BY <1>2 DEF GrantsKept, tables, google, LoginInvariant
<1>4. req[r] = [step |-> "idle", login |-> None, email |-> None, user |-> None, token |-> None]
  BY <1>2 DEF Idle
<1>5. CASE Fail(r)
  BY <1>1, <1>2, <1>3, <1>4, <1>5, FailedRequest DEF google
<1>6. CASE req' = [req EXCEPT ![r].step = "exchange", ![r].login = l]
  <2>1. req'[r] = [step |-> "exchange", login |-> l, email |-> None, user |-> None, token |-> None]
    <3>1. req'[r] = [Idle EXCEPT !.step = "exchange", !.login = l]
      BY <1>1, <1>2, <1>6
    <3>2. QED
      BY <3>1 DEF Idle
  <2>2. req'[r] \in Request
    BY <2>1, RequestOf, "exchange" \in Steps DEF Steps
  <2>3. RequestInHand(r)'
    BY <1>2, <1>3, <1>4, <2>1, NoneAssumption DEF RequestInHand, WithCookie, tables, google
  <2>4. req' = [req EXCEPT ![r] = req'[r]]
    BY <1>1, <1>6
  <2>5. req[r].step = "idle" /\ req'[r].step = "exchange"
    BY <1>4, <2>1
  <2>6. QED
    BY <1>1, <1>2, <1>3, <2>2, <2>3, <2>4, <2>5, EarlyStep DEF google
<1>7. QED
  BY <1>2, <1>3, <1>5, <1>6

LEMMA ExchangeKeeps ==
  ASSUME LoginInvariant, NEW r \in Requests, Exchange(r)
  PROVE  LoginInvariant' /\ Kept
<1> DEFINE l == req[r].login
<1>1. /\ req \in [Requests -> Request] /\ cookie \in [Browsers -> Logins \cup {None}]
      /\ grant \in [Logins -> {"none", "code", "alive", "revoked"}] /\ clock \in Nat
      /\ RequestInHand(r) /\ GrantsBelong
  BY DEF LoginInvariant, LoginTypeOK
<1>2. /\ req[r].step = "exchange" /\ UNCHANGED <<clock, mode, tables, disk, returned, account, cookie>>
      /\ grant' = grant \/ (grant[l] = "code" /\ grant' = [grant EXCEPT ![l] = "alive"])
  BY DEF Exchange
<1>3. req[r] \in Request /\ l \in Logins /\ req[r].token = None
  BY <1>1, <1>2, RequestFields DEF RequestInHand
<1>4. /\ GrantsKept /\ grant' \in [Logins -> {"none", "code", "alive", "revoked"}]
      /\ \A m \in Logins : grant'[m] = "none" <=> grant[m] = "none"
  BY <1>1, <1>2, <1>3 DEF GrantsKept, tables
<1>5. CASE Fail(r)
  BY <1>1, <1>2, <1>4, <1>5, FailedRequest
<1>6. CASE \E refresh \in BOOLEAN :
               /\ req' = [req EXCEPT ![r].step = "userinfo",
                                     ![r].token = [grant |-> l, refresh |-> refresh,
                                                   expires |-> clock + TokenLife]]
               /\ grant[l] = "code" /\ grant' = [grant EXCEPT ![l] = "alive"]
  <2>1. PICK refresh \in BOOLEAN :
               /\ req' = [req EXCEPT ![r].step = "userinfo",
                                     ![r].token = [grant |-> l, refresh |-> refresh,
                                                   expires |-> clock + TokenLife]]
               /\ grant' = [grant EXCEPT ![l] = "alive"]
    BY <1>6
  <2> DEFINE t == [grant |-> l, refresh |-> refresh, expires |-> clock + TokenLife]
  <2>2. t \in Token /\ t.grant = l
    BY <1>1, <1>3, TimesAssumption DEF Token
  <2>3. req' = [req EXCEPT ![r].step = "userinfo", ![r].token = t] /\ grant'[l] = "alive"
    BY <1>1, <1>3, <2>1
  <2> HIDE DEF t
  <2>4. req'[r] = [req[r] EXCEPT !.step = "userinfo", !.token = t]
    BY <1>1, <2>3
  <2>5. /\ req'[r] \in Request /\ req'[r].step = "userinfo" /\ req'[r].token = t
        /\ req'[r].login = l /\ req'[r].user = req[r].user /\ req'[r].email = req[r].email
    BY <1>3, <2>2, <2>4 DEF Request, Steps
  <2>6. RequestInHand(r)'
    BY <1>1, <1>2, <1>3, <2>2, <2>3, <2>5, NoneAssumption DEF RequestInHand, WithCookie, tables
  <2>7. req' = [req EXCEPT ![r] = req'[r]]
    BY <1>1, <2>3
  <2>8. QED
    BY <1>1, <1>2, <1>4, <2>5, <2>6, <2>7, EarlyStep
<1>7. Fail(r) \/ \E refresh \in BOOLEAN :
               /\ req' = [req EXCEPT ![r].step = "userinfo",
                                     ![r].token = [grant |-> l, refresh |-> refresh,
                                                   expires |-> clock + TokenLife]]
               /\ grant[l] = "code" /\ grant' = [grant EXCEPT ![l] = "alive"]
  BY DEF Exchange
<1>8. QED
  BY <1>4, <1>5, <1>6, <1>7

(* The email is that of the account whose grant the request exchanged.     *)
LEMMA UserInfoKeeps ==
  ASSUME LoginInvariant, NEW r \in Requests, UserInfo(r)
  PROVE  LoginInvariant' /\ Kept
<1> DEFINE l == req[r].login
<1>1. /\ req \in [Requests -> Request] /\ cookie \in [Browsers -> Logins \cup {None}]
      /\ grant \in [Logins -> {"none", "code", "alive", "revoked"}]
      /\ account \in [Logins -> Emails \cup {None}] /\ RequestInHand(r) /\ GrantsBelong
  BY DEF LoginInvariant, LoginTypeOK
<1>2. /\ req[r].step = "userinfo" /\ UNCHANGED <<clock, mode, tables, disk, returned, google, cookie>>
      /\ Fail(r) \/ req' = [req EXCEPT ![r].step = "lookup", ![r].email = account[l]]
  BY DEF UserInfo
<1>3. req[r] \in Request /\ l \in Logins /\ account[l] \in Emails
  BY <1>1, <1>2, RequestFields DEF RequestInHand, GrantsBelong
<1>4. GrantsKept
  BY <1>2 DEF GrantsKept, tables, google
<1>5. CASE Fail(r)
  BY <1>1, <1>2, <1>4, <1>5, FailedRequest DEF google
<1>6. CASE req' = [req EXCEPT ![r].step = "lookup", ![r].email = account[l]]
  <2>1. req'[r] = [req[r] EXCEPT !.step = "lookup", !.email = account[l]]
    BY <1>1, <1>6
  <2>2. /\ req'[r] \in Request /\ req'[r].step = "lookup" /\ req'[r].token = req[r].token
        /\ req'[r].login = l /\ req'[r].user = req[r].user /\ req'[r].email = account[l]
    BY <1>3, <2>1 DEF Request, Steps
  <2>3. RequestInHand(r)'
    BY <1>1, <1>2, <1>3, <2>2, NoneAssumption DEF RequestInHand, WithCookie, tables, google
  <2>4. req' = [req EXCEPT ![r] = req'[r]]
    BY <1>1, <1>6
  <2>5. QED
    BY <1>1, <1>2, <1>4, <2>2, <2>3, <2>4, EarlyStep DEF google
<1>7. QED
  BY <1>2, <1>4, <1>5, <1>6

LEMMA DevLoginKeeps ==
  ASSUME LoginInvariant, NEW r \in Requests, NEW e \in Emails, DevLogin(r, e)
  PROVE  LoginInvariant' /\ Kept
<1>1. /\ req \in [Requests -> Request] /\ cookie \in [Browsers -> Logins \cup {None}]
      /\ grant \in [Logins -> {"none", "code", "alive", "revoked"}] /\ RequestInHand(r)
  BY DEF LoginInvariant, LoginTypeOK
<1>2. /\ req[r] = Idle /\ UNCHANGED <<clock, mode, tables, disk, returned, google, cookie>>
      /\ req' = [req EXCEPT ![r].step = "lookup", ![r].email = e]
  BY DEF DevLogin
<1>3. GrantsKept
  BY <1>2 DEF GrantsKept, tables, google
<1>4. req[r] = [step |-> "idle", login |-> None, email |-> None, user |-> None, token |-> None]
  BY <1>2 DEF Idle
<1>5. req'[r] = [step |-> "lookup", login |-> None, email |-> e, user |-> None, token |-> None]
  <2>1. req'[r] = [Idle EXCEPT !.step = "lookup", !.email = e]
    BY <1>1, <1>2
  <2>2. QED
    BY <2>1 DEF Idle
<1>6. req'[r] \in Request
  BY <1>5, RequestOf, "lookup" \in Steps DEF Steps
<1>7. RequestInHand(r)'
  BY <1>1, <1>2, <1>4, <1>5, NoneAssumption DEF RequestInHand, WithCookie, tables, google
<1>8. req' = [req EXCEPT ![r] = req'[r]]
  BY <1>1, <1>2
<1>9. req[r].step = "idle" /\ req'[r].step = "lookup"
  BY <1>4, <1>5
<1>10. QED
  BY <1>1, <1>2, <1>3, <1>6, <1>7, <1>8, <1>9, EarlyStep DEF google

-----------------------------------------------------------------------------
(* _upsert_user has found the user, or read back the one it inserted: the  *)
(* session, or the save of the token, is for the account the request       *)
(* speaks of.                                                              *)
LEMMA UserFoundInHand ==
  ASSUME LoginInvariant, NEW r \in Requests, NEW u \in Requests,
         req[r].step \in {"lookup", "inserted"}, UserFound(r, u),
         users[u] = req[r].email, UNCHANGED <<users, google>>
  PROVE  /\ req' = [req EXCEPT ![r] = req'[r]] /\ req'[r] \in Request /\ RequestInHand(r)'
         /\ req'[r].step \in {"save", "session"}
<1> DEFINE next == IF req[r].token = None THEN "session" ELSE "save"
<1>1. req \in [Requests -> Request] /\ RequestInHand(r) /\ next \in {"session", "save"}
  BY DEF LoginInvariant, LoginTypeOK
<1>2. req[r] \in Request
  BY <1>1
<1>3. req' = [req EXCEPT ![r].user = u, ![r].email = None, ![r].step = next]
  BY DEF UserFound
<1>4. next = "session" <=> req[r].token = None
  OBVIOUS
<1> HIDE DEF next
<1>5. req'[r] = [req[r] EXCEPT !.user = u, !.email = None, !.step = next]
  BY <1>1, <1>3
<1>6. /\ req'[r] \in Request /\ req'[r].step = next /\ req'[r].token = req[r].token
      /\ req'[r].login = req[r].login /\ req'[r].user = u /\ req'[r].email = None
  BY <1>1, <1>2, <1>5 DEF Request, Steps
<1>7. u # None /\ req[r].email # None
  BY <1>1, NoneAssumption DEF RequestInHand
<1>8. req[u].step \in AfterInsert
  BY <1>7, CoherentNow, SeenFields DEF LoginInvariant, Coherent
<1>9. req'[u].step \in AfterInsert
  <2>1. CASE u = r
    BY <1>1, <1>6, <2>1 DEF AfterInsert
  <2>2. CASE u # r
    BY <1>1, <1>3, <1>8, <2>2
  <2> QED
    BY <2>1, <2>2
<1>10. req[r].login # None => users[u] = account[req[r].login]
  BY <1>1 DEF RequestInHand
<1>11. req[r].login # None => grant[req[r].login] # "none"
  BY <1>1 DEF RequestInHand
<1>12. req[r].token # None =>
           req[r].token.grant = req[r].login /\ grant[req[r].login] \in {"alive", "revoked"}
  BY <1>1 DEF RequestInHand
<1>13. /\ users' = users /\ grant' = grant /\ account' = account
  BY DEF google
<1>14. RequestInHand(r)'
  BY <1>1, <1>4, <1>6, <1>7, <1>9, <1>10, <1>11, <1>12, <1>13 DEF RequestInHand, WithCookie
<1>15. QED
  BY <1>1, <1>3, <1>6, <1>14

LEMMA LookupKeeps ==
  ASSUME LoginInvariant, NEW r \in Requests, Lookup(r)
  PROVE  LoginInvariant' /\ Kept
<1>1. /\ req \in [Requests -> Request] /\ cookie \in [Browsers -> Logins \cup {None}]
      /\ grant \in [Logins -> {"none", "code", "alive", "revoked"}] /\ RequestInHand(r)
  BY DEF LoginInvariant, LoginTypeOK
<1>2. /\ req[r].step = "lookup"
      /\ UNCHANGED <<clock, mode, tables, disk, returned, google, cookie>>
      /\ \/ req' = [req EXCEPT ![r].step = "insert"]
         \/ \E u \in UsersWith(req[r].email) : UserFound(r, u)
  BY DEF Lookup
<1>3. GrantsKept
  BY <1>2 DEF GrantsKept, google
<1>4. CASE req' = [req EXCEPT ![r].step = "insert"]
  <2>1. req[r] \in Request /\ req'[r] = [req[r] EXCEPT !.step = "insert"]
    BY <1>1, <1>4
  <2>2. /\ req'[r] \in Request /\ req'[r].step = "insert" /\ req'[r].token = req[r].token
        /\ req'[r].login = req[r].login /\ req'[r].user = req[r].user
        /\ req'[r].email = req[r].email
    BY <2>1 DEF Request, Steps
  <2>3. RequestInHand(r)'
    BY <1>1, <1>2, <2>2 DEF RequestInHand, WithCookie, google
  <2>4. req' = [req EXCEPT ![r] = req'[r]]
    BY <1>1, <1>4
  <2>5. QED
    BY <1>1, <1>2, <1>3, <2>2, <2>3, <2>4, EarlyStep DEF google
<1>5. CASE \E u \in UsersWith(req[r].email) : UserFound(r, u)
  <2>1. PICK u \in UsersWith(req[r].email) : UserFound(r, u)
    BY <1>5
  <2>2. u \in Requests /\ users[u] = req[r].email
    BY <2>1 DEF UsersWith
  <2>3. UNCHANGED <<users, google>>
    BY <1>2 DEF tables
  <2>4. /\ req' = [req EXCEPT ![r] = req'[r]] /\ req'[r] \in Request /\ RequestInHand(r)'
        /\ req'[r].step \in {"save", "session"}
    BY <1>2, <2>1, <2>2, <2>3, UserFoundInHand
  <2>5. QED
    BY <1>1, <1>2, <1>3, <2>4, EarlyStep DEF google
<1>6. QED
  BY <1>2, <1>4, <1>5

(* A request that has tried its INSERT and moves on, committing perhaps.   *)
LEMMA UserInsertedKeeps ==
  ASSUME LoginInvariant, NEW r \in Requests, UserInserted(r)
  PROVE  LoginInvariant' /\ Kept
<1>1. /\ req \in [Requests -> Request] /\ cookie \in [Browsers -> Logins \cup {None}]
      /\ grant \in [Logins -> {"none", "code", "alive", "revoked"}] /\ RequestInHand(r)
  BY DEF LoginInvariant, LoginTypeOK
<1>2. /\ req[r].step = "inserted" /\ disk' = Seen
      /\ UNCHANGED <<clock, mode, tables, returned, google, cookie>>
      /\ IF users[r] = None THEN Fail(r) ELSE UserFound(r, r)
  BY DEF UserInserted, Commit
<1>3. GrantsKept /\ account' = account /\ grant' = grant
  BY <1>2 DEF GrantsKept, google
<1>4. CASE Fail(r)
  BY <1>1, <1>2, <1>3, <1>4, FailedRequest
<1>5. CASE users[r] # None /\ UserFound(r, r)
  <2>1. users[r] = req[r].email /\ UNCHANGED <<users, google>>
    BY <1>1, <1>2, <1>5 DEF RequestInHand, tables
  <2>2. /\ req' = [req EXCEPT ![r] = req'[r]] /\ req'[r] \in Request /\ RequestInHand(r)'
        /\ req'[r].step \in {"save", "session"}
    BY <1>2, <1>5, <2>1, UserFoundInHand
  <2>3. Moves(r)
    BY <1>2, <2>2 DEF Moves, AfterInsert, AfterSession, WithCookie
  <2>4. QED
    BY <1>1, <1>2, <1>3, <2>2, <2>3, RequestStep
<1>6. QED
  BY <1>2, <1>4, <1>5

-----------------------------------------------------------------------------
(* The steps of one request that execute a statement. A user is only       *)
(* inserted by a request nobody has found a user of.                       *)
LEMMA WriteStep ==
  ASSUME LoginInvariant, NEW r \in Requests, UNCHANGED <<clock, mode, disk, google, cookie>>,
         req' = [req EXCEPT ![r] = req'[r]], req'[r] \in Request, RequestInHand(r)', Moves(r),
         Seen' \in Database, Coherent(Seen', req', grant', account'),
         UsersKept, users' = users \/ req[r].step \notin AfterInsert,
         \A q \in Requests \ {r} : users'[q] = users[q] /\ session'[q] = session[q],
         \A u \in Requests : newest[u] # None => newest'[u] # None,
         returned' \subseteq Requests, returned \subseteq returned' \cup {r},
         req'[r].step = "leaving" => session'[r] = None, req'[r].step # "left"
  PROVE  LoginInvariant' /\ Kept
<1>1. \A q \in Requests \ {r} : req'[q] = req[q]
  BY DEF LoginInvariant, LoginTypeOK
<1>2. \A q \in Requests : Moves(q)
  BY <1>1 DEF Moves
<1>3. GrantsKept
  BY DEF GrantsKept, google
<1>4. \A q \in Requests : RequestInHand(q)'
  <2> SUFFICES ASSUME NEW q \in Requests, q # r PROVE RequestInHand(q)'
    OBVIOUS
  <2>1. RequestInHand(q) /\ LoginTypeOK
    BY DEF LoginInvariant
  <2>2. req[q].user # None => req[q].user \in Requests /\ req[req[q].user].step \in AfterInsert
    BY <2>1, RequestFields DEF LoginTypeOK, RequestInHand
  <2>3. req[q].user # None => users'[req[q].user] = users[req[q].user]
    BY <2>2
  <2>4. QED
    BY <1>1, <1>2, <1>3, <2>1, <2>2, <2>3, OthersInHand
<1>5. Coherent(disk', req', grant', account')
  <2>1. /\ disk \in Database /\ LoginTypeOK /\ Coherent(disk, req, grant, account)
        /\ \A q \in Requests : RequestInHand(q)
    BY CoherentNow DEF LoginInvariant, LoginTypeOK
  <2>2. Coherent(disk, req', grant', account')
    BY <1>2, <1>3, <2>1, CoherentStays
  <2>3. QED
    BY <2>2
<1>6. LoginTypeOK'
  BY DEF LoginInvariant, LoginTypeOK, google
<1>7. GrantsBelong'
  BY DEF LoginInvariant, GrantsBelong, google
<1>8. Ahead'
  BY DEF LoginInvariant, Ahead, UsersKept
<1>9. Leaving'
  BY <1>1 DEF LoginInvariant, Leaving
<1>10. LogoutIsFinal'
  BY <1>1 DEF LoginInvariant, LogoutIsFinal
<1>11. QED
  BY <1>3, <1>4, <1>5, <1>6, <1>7, <1>8, <1>9, <1>10, PartsTogether DEF Kept

(* What is seen stays of the database and coherent; then a row is added.   *)
LEMMA SeenStays ==
  ASSUME LoginInvariant, NEW r \in Requests, UNCHANGED google,
         \A q \in Requests \ {r} : req'[q] = req[q], Moves(r)
  PROVE  Coherent(Seen, req', grant', account')
<1>1. \A q \in Requests : Moves(q)
  BY DEF Moves
<1>2. GrantsKept
  BY DEF GrantsKept, google
<1>3. /\ Seen \in Database /\ LoginTypeOK /\ Coherent(Seen, req, grant, account)
      /\ \A q \in Requests : RequestInHand(q)
  BY CoherentNow DEF LoginInvariant, LoginTypeOK
<1>4. QED
  BY <1>1, <1>2, <1>3, CoherentStays

LEMMA SeenFieldsThen ==
  /\ Seen'.users = users' /\ Seen'.session = session'
  /\ Seen'.tokens = tokens' /\ Seen'.newest = newest'
BY DEF Seen

LEMMA SeenTypeThen ==
  ASSUME users' \in [Requests -> Emails \cup {None}], session' \in [Requests -> Session \cup {None}],
         tokens' \in [Requests -> Token \cup {None}], newest' \in [Requests -> Grant \cup {None}]
  PROVE  Seen' \in Database
<1>1. Seen' = [users |-> users', session |-> session', tokens |-> tokens', newest |-> newest']
  BY DEF Seen
<1>2. QED
  BY <1>1, DatabaseOf

(* An error response to a statement that was refused.                      *)
LEMMA RefusedKeeps ==
  ASSUME LoginInvariant, NEW r \in Requests,
         UNCHANGED <<clock, mode, tables, disk, returned, google, cookie>>, Fail(r)
  PROVE  LoginInvariant' /\ Kept
<1>1. GrantsKept /\ account' = account /\ grant' = grant
  BY DEF GrantsKept, google
<1>2. grant \in [Logins -> {"none", "code", "alive", "revoked"}]
  BY DEF LoginInvariant, LoginTypeOK
<1>3. QED
  BY <1>1, <1>2, FailedRequest

(* The INSERT of a first login: the unique email admits one of them.       *)
LEMMA InsertKeeps ==
  ASSUME LoginInvariant, NEW r \in Requests, Insert(r)
  PROVE  LoginInvariant' /\ Kept
<1>1. /\ req \in [Requests -> Request] /\ RequestInHand(r)
      /\ grant \in [Logins -> {"none", "code", "alive", "revoked"}]
  BY DEF LoginInvariant, LoginTypeOK
<1>2. /\ req[r].step = "insert"
      /\ UNCHANGED <<clock, mode, session, tokens, newest, disk, returned, google, cookie>>
      /\ \/ Fail(r) /\ UNCHANGED users
         \/ /\ UsersWith(req[r].email) = {} /\ users' = [users EXCEPT ![r] = req[r].email]
            /\ req' = [req EXCEPT ![r].step = "inserted"]
  BY DEF Insert
<1>3. CASE Fail(r) /\ UNCHANGED users
  BY <1>2, <1>3, RefusedKeeps DEF tables
<1>4. CASE /\ UsersWith(req[r].email) = {} /\ users' = [users EXCEPT ![r] = req[r].email]
           /\ req' = [req EXCEPT ![r].step = "inserted"]
  <2>1. req[r].step \notin AfterInsert
    BY <1>2 DEF AfterInsert, AfterSession, WithCookie
  <2>2. /\ users[r] = None /\ tokens[r] = None /\ Coherent(Seen, req, grant, account)
        /\ \A s \in Requests : session[s] # None => session[s].user # r
    <3>1. Coherent(Seen, req, grant, account)
      BY CoherentNow DEF LoginInvariant
    <3>2. users[r] = None
      BY <2>1, <3>1, SeenFields DEF Coherent
    <3>3. QED
      BY <3>1, <3>2, SeenFields DEF Coherent
  <2>3. users \in [Requests -> Emails \cup {None}]
    BY TableTypes DEF LoginInvariant
  <2>4. users'[r] = req[r].email /\ \A q \in Requests \ {r} : users'[q] = users[q]
    BY <1>4, <2>3
  <2>5. req'[r] = [req[r] EXCEPT !.step = "inserted"]
    BY <1>1, <1>4
  <2>6. /\ req'[r] \in Request /\ req'[r].step = "inserted" /\ req'[r].token = req[r].token
        /\ req'[r].login = req[r].login /\ req'[r].user = req[r].user
        /\ req'[r].email = req[r].email
    BY <1>1, <2>5 DEF Request, Steps
  <2>7. req' = [req EXCEPT ![r] = req'[r]]
    BY <1>1, <1>4
  <2>8. Moves(r)
    BY <2>1, <2>6 DEF Moves, AfterInsert, AfterSession
  <2>9. RequestInHand(r)'
    BY <1>1, <1>2, <2>4, <2>6 DEF RequestInHand, WithCookie, google
  <2>10. Seen' \in Database
    <3>1. req[r].email \in Emails \cup {None}
      BY <1>1, RequestFields
    <3>2. users' \in [Requests -> Emails \cup {None}]
      BY <1>4, <2>3, <3>1
    <3>3. QED
      BY <1>2, <3>2, TableTypes, SeenTypeThen DEF LoginInvariant
  <2>11. Coherent(Seen', req', grant', account')
    <3>1. Coherent(Seen, req', grant', account')
      BY <1>1, <1>2, <1>4, <2>8, SeenStays
    <3>2. /\ \A s \in Requests : session[s] # None => session[s].user \in Requests
          /\ session' = session /\ tokens' = tokens /\ newest' = newest
      BY <1>2, TableTypes DEF LoginInvariant, Session
    <3>3. \A u, v \in Requests : users'[u] = users'[v] /\ users'[u] # None => u = v
      BY <1>4, <2>4, <3>1, SeenFields DEF Coherent, UsersWith
    <3>4. \A u \in Requests : users'[u] # None => req'[u].step \in AfterInsert
      BY <2>4, <2>6, <3>1, SeenFields DEF Coherent, AfterInsert
    <3>5. \A u \in Requests : tokens[u] # None => users'[u] = users[u]
      BY <2>2, <2>4
    <3>6. \A s \in Requests : session[s] # None =>
              users'[session[s].user] = users[session[s].user]
      BY <2>2, <2>4, <3>2
    <3>7. QED
      BY <3>1, <3>2, <3>3, <3>4, <3>5, <3>6, SeenFields, SeenFieldsThen DEF Coherent
  <2>12. UsersKept
    BY <2>2, <2>4 DEF UsersKept
  <2>13. returned \subseteq Requests
    BY DEF LoginInvariant, LoginTypeOK
  <2>14. QED
    BY <1>2, <2>1, <2>4, <2>6, <2>7, <2>8, <2>9, <2>10, <2>11, <2>12, <2>13, WriteStep
<1>5. QED
  BY <1>2, <1>3, <1>4

(* The callback's token is of the account whose user the request found.    *)
LEMMA SaveGrantKeeps ==
  ASSUME LoginInvariant, NEW r \in Requests, NEW fate \in {"kept", "raced"}, SaveGrant(r, fate)
  PROVE  /\ LoginInvariant' /\ Kept /\ UNCHANGED <<clock, mode, users, session, disk, google>>
         /\ \/ UNCHANGED <<tokens, newest>>
            \/ /\ req[r].user \in Requests /\ req[r].token \in Token
               /\ tokens' = [tokens EXCEPT ![req[r].user] = req[r].token]
               /\ newest' = [newest EXCEPT ![req[r].user] =
                      [grant |-> req[r].token.grant, refresh |-> req[r].token.refresh,
                       fate |-> fate]]
<1> DEFINE u == req[r].user
           t == req[r].token
           g == [grant |-> t.grant, refresh |-> t.refresh, fate |-> fate]
<1>1. /\ req \in [Requests -> Request] /\ RequestInHand(r)
      /\ tokens \in [Requests -> Token \cup {None}] /\ newest \in [Requests -> Grant \cup {None}]
  BY TableTypes DEF LoginInvariant, LoginTypeOK
<1>2. /\ req[r].step = "save"
      /\ UNCHANGED <<clock, mode, users, session, disk, returned, google, cookie>>
      /\ \/ Fail(r) /\ UNCHANGED <<tokens, newest>>
         \/ /\ users[u] # None /\ tokens' = [tokens EXCEPT ![u] = t]
            /\ newest' = [newest EXCEPT ![u] = g]
            /\ req' = [req EXCEPT ![r].step = "saved", ![r].token = None]
  BY DEF SaveGrant
<1>3. CASE Fail(r) /\ UNCHANGED <<tokens, newest>>
  BY <1>2, <1>3, RefusedKeeps DEF tables
<1>4. CASE /\ users[u] # None /\ tokens' = [tokens EXCEPT ![u] = t]
           /\ newest' = [newest EXCEPT ![u] = g]
           /\ req' = [req EXCEPT ![r].step = "saved", ![r].token = None]
  <2>1. u \in Requests /\ t \in Token /\ req[r].login \in Logins \cup {None}
    BY <1>1, <1>2, RequestFields DEF RequestInHand, WithCookie
  <2>2. /\ t.grant \in Logins /\ t.grant = req[r].login /\ grant[t.grant] \in {"alive", "revoked"}
        /\ users[u] = account[t.grant]
    BY <1>1, <1>2, <1>4, <2>1, NoRecordAssumption, NoneAssumption
    DEF RequestInHand, Token, WithCookie
  <2>3. g \in Grant
    BY <2>1 DEF Token, Grant
  <2>4. g.grant = t.grant /\ g.refresh = t.refresh
    OBVIOUS
  <2> HIDE DEF g
  <2>5. req'[r] = [req[r] EXCEPT !.step = "saved", !.token = None]
    BY <1>1, <1>4
  <2>6. /\ req'[r] \in Request /\ req'[r].step = "saved" /\ req'[r].token = None
        /\ req'[r].login = req[r].login /\ req'[r].user = u /\ req'[r].email = req[r].email
    <3>1. req[r] \in Request
      BY <1>1
    <3>2. QED
      BY <2>5, <3>1 DEF Request, Steps
  <2>7. req' = [req EXCEPT ![r] = req'[r]]
    BY <1>1, <1>4
  <2> HIDE DEF u, t
  <2>8. Moves(r)
    BY <1>2, <2>6 DEF Moves, AfterInsert, AfterSession, WithCookie
  <2>9. req'[u].step \in AfterInsert
    BY <1>1, <1>2, <1>4, <2>1, <2>6, <2>7 DEF RequestInHand, AfterInsert, WithCookie, u
  <2>10. RequestInHand(r)'
    BY <1>1, <1>2, <2>1, <2>2, <2>6, <2>9, NoneAssumption
    DEF RequestInHand, google, WithCookie
  <2>11. \A v \in Requests : /\ tokens'[v] = (IF v = u THEN t ELSE tokens[v])
                             /\ newest'[v] = (IF v = u THEN g ELSE newest[v])
    BY <1>1, <1>4
  <2>12. t # None /\ g # None
    BY <2>1, <2>3, NoRecordAssumption
  <2>13. Seen' \in Database
    <3>1. tokens' \in [Requests -> Token \cup {None}] /\ newest' \in [Requests -> Grant \cup {None}]
      BY <1>1, <1>4, <2>1, <2>3
    <3>2. QED
      BY <1>2, <3>1, TableTypes, SeenTypeThen DEF LoginInvariant
  <2>14. Coherent(Seen', req', grant', account')
    <3>1. Coherent(Seen, req', grant', account')
      BY <1>1, <1>2, <2>7, <2>8, SeenStays
    <3>2. /\ users' = users /\ session' = session /\ grant' = grant /\ account' = account
      BY <1>2 DEF google
    <3>3. \A v \in Requests : tokens'[v] # None =>
              /\ users'[v] # None /\ account'[tokens'[v].grant] = users'[v]
              /\ grant'[tokens'[v].grant] \in {"alive", "revoked"}
              /\ newest'[v] # None
      BY <1>4, <2>2, <2>11, <2>12, <3>1, <3>2, SeenFields DEF Coherent
    <3>4. \A v \in Requests : newest'[v] # None /\ newest'[v].fate = "kept" =>
              /\ tokens'[v] # None
              /\ tokens'[v].grant = newest'[v].grant
              /\ tokens'[v].refresh = newest'[v].refresh
      BY <2>4, <2>11, <2>12, <3>1, SeenFields DEF Coherent
    <3>5. QED
      BY <3>1, <3>2, <3>3, <3>4, SeenFields, SeenFieldsThen DEF Coherent
  <2>15. returned \subseteq Requests /\ UsersKept /\ users' = users /\ session' = session
    BY <1>2 DEF LoginInvariant, LoginTypeOK, UsersKept
  <2>16. \A v \in Requests : newest[v] # None => newest'[v] # None
    BY <2>11, <2>12
  <2>17. LoginInvariant' /\ Kept
    BY <1>2, <2>6, <2>7, <2>8, <2>10, <2>13, <2>14, <2>15, <2>16, WriteStep
  <2>18. QED
    BY <1>2, <1>4, <2>1, <2>17 DEF u, t, g
<1>5. QED
  BY <1>2, <1>3, <1>4

(* The commits: of the token, of the session row, and of a logout.         *)
LEMMA CommitStep ==
  ASSUME LoginInvariant, NEW r \in Requests, NEW step \in {"session", "done", "left"},
         UNCHANGED <<clock, mode, tables, returned, google>>, disk' = Seen,
         cookie' \in [Browsers -> Logins \cup {None}],
         req' = [req EXCEPT ![r].step = step],
         \/ req[r].step = "saved" /\ step = "session"
         \/ req[r].step = "opened" /\ step = "done"
         \/ req[r].step = "leaving" /\ step = "left"
  PROVE  LoginInvariant' /\ Kept
<1>1. /\ req \in [Requests -> Request] /\ RequestInHand(r)
      /\ grant \in [Logins -> {"none", "code", "alive", "revoked"}]
  BY DEF LoginInvariant, LoginTypeOK
<1>2. GrantsKept /\ account' = account /\ grant' = grant /\ users' = users
  BY DEF GrantsKept, google, tables
<1>3. req'[r] = [req[r] EXCEPT !.step = step] /\ req' = [req EXCEPT ![r] = req'[r]]
  BY <1>1
<1>4. /\ req'[r] \in Request /\ req'[r].step = step /\ req'[r].token = req[r].token
      /\ req'[r].login = req[r].login /\ req'[r].user = req[r].user
      /\ req'[r].email = req[r].email
  BY <1>1, <1>3 DEF Request, Steps
<1>5. Moves(r)
  BY <1>4 DEF Moves, AfterInsert, AfterSession, WithCookie
<1>6. req[r].user # None => req'[req[r].user].step \in AfterInsert
  BY <1>1, <1>3, <1>4, RequestFields DEF RequestInHand, AfterInsert, AfterSession, WithCookie
<1>7. RequestInHand(r)'
  BY <1>1, <1>2, <1>4, <1>6 DEF RequestInHand, WithCookie
<1>8. QED
  BY <1>1, <1>2, <1>3, <1>4, <1>5, <1>7, RequestStep

LEMMA GrantSavedKeeps ==
  ASSUME LoginInvariant, NEW r \in Requests, GrantSaved(r)
  PROVE  LoginInvariant' /\ Kept
<1>1. cookie \in [Browsers -> Logins \cup {None}]
  BY DEF LoginInvariant, LoginTypeOK
<1>2. QED
  BY <1>1, CommitStep DEF GrantSaved, Commit

LEMMA SessionOpenedKeeps ==
  ASSUME LoginInvariant, NEW r \in Requests, SessionOpened(r)
  PROVE  LoginInvariant' /\ Kept
<1>1. cookie \in [Browsers -> Logins \cup {None}]
  BY DEF LoginInvariant, LoginTypeOK
<1>2. cookie' \in [Browsers -> Logins \cup {None}]
  BY <1>1 DEF SessionOpened
<1>3. QED
  BY <1>2, CommitStep DEF SessionOpened, Commit

LEMMA LoggedOutKeeps ==
  ASSUME LoginInvariant, NEW r \in Requests, LoggedOut(r)
  PROVE  LoginInvariant' /\ Kept
<1>1. cookie \in [Browsers -> Logins \cup {None}]
  BY DEF LoginInvariant, LoginTypeOK
<1>2. QED
  BY <1>1, CommitStep DEF LoggedOut, Commit

LEMMA NewSessionKeeps ==
  ASSUME LoginInvariant, NEW r \in Requests, NewSession(r)
  PROVE  LoginInvariant' /\ Kept
<1> DEFINE row == [user |-> req[r].user, expires |-> clock + SessionTTL]
<1>1. /\ req \in [Requests -> Request] /\ RequestInHand(r) /\ clock \in Nat
      /\ session \in [Requests -> Session \cup {None}]
  BY TableTypes DEF LoginInvariant, LoginTypeOK
<1>2. /\ req[r].step = "session"
      /\ UNCHANGED <<clock, mode, users, tokens, newest, disk, returned, google, cookie>>
      /\ \/ Fail(r) /\ UNCHANGED session
         \/ /\ users[req[r].user] # None /\ session' = [session EXCEPT ![r] = row]
            /\ req' = [req EXCEPT ![r].step = "opened"]
  BY DEF NewSession
<1>3. CASE Fail(r) /\ UNCHANGED session
  BY <1>2, <1>3, RefusedKeeps DEF tables
<1>4. CASE /\ users[req[r].user] # None /\ session' = [session EXCEPT ![r] = row]
           /\ req' = [req EXCEPT ![r].step = "opened"]
  <2>1. req[r] \in Request /\ req'[r] = [req[r] EXCEPT !.step = "opened"]
    BY <1>1, <1>4
  <2>2. /\ req'[r] \in Request /\ req'[r].step = "opened" /\ req'[r].token = req[r].token
        /\ req'[r].login = req[r].login /\ req'[r].user = req[r].user
        /\ req'[r].email = req[r].email
    BY <2>1 DEF Request, Steps
  <2>3. req[r].user \in Requests /\ row \in Session /\ row.user = req[r].user
    BY <1>1, <1>2, <2>1, RequestFields, TimesAssumption DEF RequestInHand, Session
  <2>4. req' = [req EXCEPT ![r] = req'[r]]
    BY <1>1, <1>4
  <2> HIDE DEF row
  <2>5. session'[r] = row /\ \A q \in Requests \ {r} : session'[q] = session[q]
    BY <1>1, <1>4
  <2>6. Moves(r)
    BY <1>2, <2>2 DEF Moves, AfterInsert, AfterSession, WithCookie
  <2>7. req'[req[r].user].step \in AfterInsert
    BY <1>1, <1>2, <2>2, <2>3, <2>4, NoneAssumption
    DEF RequestInHand, AfterInsert, AfterSession, WithCookie
  <2>8. RequestInHand(r)'
    BY <1>1, <1>2, <2>2, <2>7 DEF RequestInHand, WithCookie, google
  <2>9. Seen' \in Database
    <3>1. session' \in [Requests -> Session \cup {None}]
      BY <1>1, <1>4, <2>3
    <3>2. QED
      BY <1>2, <3>1, TableTypes, SeenTypeThen DEF LoginInvariant
  <2>10. Coherent(Seen', req', grant', account')
    <3>1. Coherent(Seen, req', grant', account')
      BY <1>1, <1>2, <2>4, <2>6, SeenStays
    <3>2. /\ users' = users /\ tokens' = tokens /\ newest' = newest /\ account' = account
      BY <1>2 DEF google
    <3>3. /\ req'[r].step \in AfterSession /\ row.user = req'[r].user /\ users[row.user] # None
          /\ req'[r].login # None => users[row.user] = account[req'[r].login]
      BY <1>1, <1>2, <1>4, <2>2, <2>3, NoneAssumption DEF RequestInHand, AfterSession
    <3>4. \A s \in Requests : session'[s] # None =>
              /\ req'[s].step \in AfterSession
              /\ req'[s].step # "failed" => session'[s].user = req'[s].user
              /\ users'[session'[s].user] # None
              /\ req'[s].login # None => users'[session'[s].user] = account'[req'[s].login]
      BY <2>5, <3>1, <3>2, <3>3, SeenFields DEF Coherent
    <3>5. QED
      BY <3>1, <3>2, <3>4, SeenFields, SeenFieldsThen DEF Coherent
  <2>11. returned \subseteq Requests /\ UsersKept /\ users' = users /\ newest' = newest
    BY <1>2 DEF LoginInvariant, LoginTypeOK, UsersKept
  <2>12. QED
    BY <1>2, <2>2, <2>4, <2>5, <2>6, <2>8, <2>9, <2>10, <2>11, WriteStep
<1>5. QED
  BY <1>2, <1>3, <1>4

(* The DELETE of a logout. The request that created the session has        *)
(* nothing else to do.                                                     *)
LEMMA LogoutKeeps ==
  ASSUME LoginInvariant, NEW s \in Requests, Logout(s)
  PROVE  LoginInvariant' /\ Kept
<1>1. /\ req \in [Requests -> Request] /\ RequestInHand(s)
      /\ session \in [Requests -> Session \cup {None}] /\ returned \subseteq Requests
  BY TableTypes DEF LoginInvariant, LoginTypeOK
<1>2. /\ req[s].step \in {"done", "left"} /\ session' = [session EXCEPT ![s] = None]
      /\ returned' = returned \ {s} /\ req' = [req EXCEPT ![s].step = "leaving"]
      /\ UNCHANGED <<clock, mode, users, tokens, newest, disk, google, cookie>>
  BY DEF Logout
<1>3. req[s] \in Request /\ req'[s] = [req[s] EXCEPT !.step = "leaving"]
  BY <1>1, <1>2
<1>4. /\ req'[s] \in Request /\ req'[s].step = "leaving" /\ req'[s].token = req[s].token
      /\ req'[s].login = req[s].login /\ req'[s].user = req[s].user
      /\ req'[s].email = req[s].email
  BY <1>3 DEF Request, Steps
<1>5. req' = [req EXCEPT ![s] = req'[s]]
  BY <1>1, <1>2
<1>6. session'[s] = None /\ \A q \in Requests \ {s} : session'[q] = session[q]
  BY <1>1, <1>2
<1>7. Moves(s)
  BY <1>2, <1>4 DEF Moves, AfterInsert, AfterSession, WithCookie
<1>8. req[s].user \in Requests /\ req'[req[s].user].step \in AfterInsert
  BY <1>1, <1>2, <1>3, <1>4, <1>5, RequestFields
  DEF RequestInHand, AfterInsert, AfterSession, WithCookie
<1>9. RequestInHand(s)'
  BY <1>1, <1>2, <1>4, <1>8 DEF RequestInHand, WithCookie, google
<1>10. Seen' \in Database
  <2>1. session' \in [Requests -> Session \cup {None}]
    BY <1>1, <1>2
  <2>2. QED
    BY <1>2, <2>1, TableTypes, SeenTypeThen DEF LoginInvariant
<1>11. Coherent(Seen', req', grant', account')
  <2>1. Coherent(Seen, req', grant', account')
    BY <1>1, <1>2, <1>5, <1>7, SeenStays
  <2>2. users' = users /\ tokens' = tokens /\ newest' = newest
    BY <1>2
  <2>3. QED
    BY <1>6, <2>1, <2>2, SeenFields, SeenFieldsThen DEF Coherent
<1>12. UsersKept /\ returned' \subseteq Requests /\ returned \subseteq returned' \cup {s}
  BY <1>1, <1>2 DEF UsersKept
<1>13. QED
  BY <1>2, <1>4, <1>5, <1>6, <1>7, <1>9, <1>10, <1>11, <1>12, WriteStep

LEMMA LoginStepKeeps ==
  ASSUME LoginInvariant, LoginStep
  PROVE  LoginInvariant' /\ Kept
<1>1. CASE \E e \in Emails : Revoke(e) \/ \E l \in Logins : Login(l, e)
  BY <1>1, GrantRevoked, LoginStarted
<1>2. ASSUME NEW r \in Requests,
             \/ \E l \in Logins : Callback(r, l)
             \/ \E e \in Emails : DevLogin(r, e)
             \/ Exchange(r) \/ UserInfo(r) \/ Lookup(r) \/ Insert(r) \/ UserInserted(r)
             \/ GrantSaved(r) \/ NewSession(r) \/ SessionOpened(r)
             \/ Logout(r) \/ LoggedOut(r)
      PROVE  LoginInvariant' /\ Kept
  BY <1>2, CallbackKeeps, DevLoginKeeps, ExchangeKeeps, UserInfoKeeps, LookupKeeps, InsertKeeps,
     UserInsertedKeeps, GrantSavedKeeps, NewSessionKeeps, SessionOpenedKeeps, LogoutKeeps,
     LoggedOutKeeps
<1>3. QED
  BY <1>1, <1>2 DEF LoginStep

(* No login step but SaveGrant touches the tokens.                         *)
LEMMA LoginStepSpares ==
  ASSUME LoginStep
  PROVE  UNCHANGED <<clock, mode, tokens, newest>>
BY DEF LoginStep, Revoke, Login, Callback, DevLogin, Exchange, UserInfo, Lookup, Insert,
   UserInserted, GrantSaved, NewSession, SessionOpened, Logout, LoggedOut, Commit, tables

-----------------------------------------------------------------------------
(* The steps beside the requests that execute no statement.                *)
LEMMA QuietStep ==
  ASSUME LoginInvariant, UNCHANGED <<mode, tables, returned, google, cookie, req>>,
         clock' \in 0..MaxTime, disk' \in {disk, Seen}
  PROVE  LoginInvariant' /\ Kept
<1>1. \A q \in Requests : Moves(q)
  BY DEF Moves
<1>2. users' = users /\ session' = session /\ GrantsKept
  BY DEF tables, google, GrantsKept
<1>3. ASSUME NEW q \in Requests PROVE RequestInHand(q)'
  <2>1. req[q].user # None => req[q].user \in Requests
    BY RequestFields DEF LoginInvariant, LoginTypeOK
  <2>2. QED
    BY <1>1, <1>2, <2>1, OthersInHand DEF LoginInvariant
<1>4. /\ Seen' = Seen /\ Ahead' /\ disk' \in Database
      /\ Coherent(Seen', req', grant', account') /\ Coherent(disk', req', grant', account')
  BY <1>1, <1>2, NothingWritten
<1>5. LoginTypeOK'
  BY <1>4 DEF LoginInvariant, LoginTypeOK, google
<1>6. Leaving' /\ GrantsBelong'
  BY <1>2 DEF LoginInvariant, Leaving, GrantsBelong, google
<1>7. LogoutIsFinal'
  <2> SUFFICES ASSUME NEW s \in Requests \ returned, req[s].step = "left"
               PROVE  session[s] = None /\ disk'.session[s] = None
    BY <1>2 DEF LogoutIsFinal
  <2>1. session[s] = None /\ disk.session[s] = None
    BY DEF LoginInvariant, LogoutIsFinal
  <2> QED
    BY <2>1, SeenFields
<1>8. QED
  BY <1>2, <1>3, <1>4, <1>5, <1>6, <1>7, PartsTogether DEF Kept, UsersKept, tables

LEMMA TickKeeps ==
  ASSUME LoginInvariant, Tick
  PROVE  LoginInvariant' /\ Kept /\ clock' = clock + 1
         /\ UNCHANGED <<mode, tables, disk, google>>
<1>1. /\ clock < MaxTime /\ clock' = clock + 1
      /\ UNCHANGED <<mode, tables, disk, returned, google, cookie, req>>
  BY DEF Tick
<1>2. clock' \in 0..MaxTime
  BY <1>1, TimesAssumption DEF LoginInvariant, LoginTypeOK
<1>3. QED
  BY <1>1, <1>2, QuietStep

LEMMA TurnCommitsKeeps ==
  ASSUME LoginInvariant, TurnCommits
  PROVE  LoginInvariant' /\ Kept /\ UNCHANGED <<clock, mode, tables, google>>
<1>1. disk' = Seen /\ UNCHANGED <<clock, mode, tables, returned, google, cookie, req>>
  BY DEF TurnCommits, Commit
<1>2. clock' \in 0..MaxTime
  BY <1>1 DEF LoginInvariant, LoginTypeOK
<1>3. QED
  BY <1>1, <1>2, QuietStep

LEMMA LoginsStay ==
  ASSUME LoginInvariant, UNCHANGED loginVars
  PROVE  LoginInvariant' /\ Kept
<1>1. clock' \in 0..MaxTime
  BY DEF LoginInvariant, LoginTypeOK, loginVars
<1>2. QED
  BY <1>1, QuietStep DEF loginVars

(* With the tables back at the disk, the user of a request is there as     *)
(* before or is gone.                                                      *)
LEMMA BackToDisk ==
  ASSUME LoginInvariant, users' = disk.users, UNCHANGED google,
         \A q \in Requests : Moves(q), NEW q \in Requests, req'[q] = req[q]
  PROVE  RequestInHand(q)'
<1>1. \A u \in Requests : users'[u] \in {users[u], None}
  BY DEF LoginInvariant, Ahead
<1>2. GrantsKept
  BY DEF GrantsKept, google
<1>3. req[q].user # None => req[q].user \in Requests
  BY RequestFields DEF LoginInvariant, LoginTypeOK
<1>4. QED
  BY <1>1, <1>2, <1>3, OthersInHand DEF LoginInvariant

(* The rollback: grants that are lost by it are marked in the history.     *)
LEMMA UpsertFailsKeeps ==
  ASSUME LoginInvariant, UpsertFails
  PROVE  LoginInvariant' /\ UNCHANGED <<clock, mode, google>>
<1>1. /\ users' = disk.users /\ session' = disk.session /\ tokens' = disk.tokens
      /\ newest' = [u \in Requests |-> IF tokens[u] = disk.tokens[u] THEN newest[u]
                                       ELSE [newest[u] EXCEPT !.fate = "undone"]]
      /\ returned' = returned \cup {s \in Requests : req[s].step = "leaving"
                                                   /\ disk.session[s] # None}
      /\ UNCHANGED <<clock, mode, disk, google, cookie, req>>
  BY DEF UpsertFails
<1>2. \A q \in Requests : Moves(q)
  BY <1>1 DEF Moves
<1>3. \A q \in Requests : RequestInHand(q)'
  BY <1>1, <1>2, BackToDisk
<1>4. /\ Coherent(Seen, req, grant, account) /\ Coherent(disk, req, grant, account)
      /\ req' = req /\ grant' = grant /\ account' = account /\ disk' = disk
  BY <1>1, CoherentNow DEF LoginInvariant, google
<1>5. \A u \in Requests :
          /\ tokens[u] # None => newest[u] # None
          /\ disk.tokens[u] # None => newest[u] # None
  BY <1>4, SeenFields DEF Coherent, LoginInvariant, Ahead
<1>6. ASSUME NEW u \in Requests
      PROVE  /\ newest'[u] \in Grant \cup {None}
             /\ newest[u] # None => newest'[u] # None
             /\ newest'[u] # None /\ newest'[u].fate = "kept" =>
                    newest'[u] = newest[u] /\ tokens[u] = disk.tokens[u]
  <2>1. newest[u] \in Grant \cup {None}
    BY TableTypes DEF LoginInvariant
  <2>2. CASE tokens[u] = disk.tokens[u]
    BY <1>1, <2>1, <2>2
  <2>3. CASE tokens[u] # disk.tokens[u]
    <3>1. newest[u] \in Grant /\ newest'[u] = [newest[u] EXCEPT !.fate = "undone"]
      BY <1>1, <1>5, <2>1, <2>3
    <3>2. newest'[u] \in Grant /\ newest'[u].fate = "undone"
      BY <3>1 DEF Grant
    <3>3. QED
      BY <3>2, NoRecordAssumption
  <2>4. QED
    BY <2>2, <2>3
<1>7. LoginTypeOK'
  <2>1. newest' \in [Requests -> Grant \cup {None}]
    BY <1>1, <1>6
  <2>2. Seen' \in Database
    BY <1>1, <2>1, TableTypes, SeenTypeThen DEF LoginInvariant
  <2>3. QED
    BY <1>1, <2>2 DEF LoginInvariant, LoginTypeOK, google
<1>8. Coherent(Seen', req', grant', account')
  <2>1. \A u \in Requests : disk.tokens[u] # None => newest'[u] # None
    BY <1>5, <1>6
  <2>2. \A u \in Requests : newest'[u] # None /\ newest'[u].fate = "kept" =>
            /\ tokens'[u] # None
            /\ tokens'[u].grant = newest'[u].grant
            /\ tokens'[u].refresh = newest'[u].refresh
    BY <1>1, <1>4, <1>6, SeenFields DEF Coherent
  <2>3. QED
    BY <1>1, <1>4, <2>1, <2>2, SeenFieldsThen DEF Coherent
<1>9. GrantsBelong'
  BY <1>1 DEF LoginInvariant, GrantsBelong, google
<1>10. Ahead'
  BY <1>1, <1>6 DEF LoginInvariant, Ahead
<1>11. Leaving'
  BY <1>1 DEF Leaving
<1>12. LogoutIsFinal'
  BY <1>1 DEF LoginInvariant, LogoutIsFinal
<1>13. QED
  BY <1>1, <1>3, <1>4, <1>7, <1>8, <1>9, <1>10, <1>11, <1>12, PartsTogether

(* A restart keeps the disk and fails the requests that were under way;    *)
(* whoever was logging out still has the cookie.                           *)
LEMMA RestartKeeps ==
  ASSUME LoginInvariant, Restart
  PROVE  LoginInvariant' /\ UNCHANGED <<clock, google>>
<1>1. /\ mode' \in Modes /\ users' = disk.users /\ session' = disk.session
      /\ tokens' = disk.tokens /\ newest' = disk.newest
      /\ req' = [r \in Requests |->
                   IF req[r].step \in {"idle", "done", "left"} THEN req[r]
                   ELSE IF req[r].step = "leaving" THEN [req[r] EXCEPT !.step = "done"]
                   ELSE Failed]
      /\ UNCHANGED <<clock, disk, returned, google, cookie>>
  BY DEF Restart
<1>2. req \in [Requests -> Request] /\ LoginTypeOK /\ disk \in Database
  BY DEF LoginInvariant, LoginTypeOK
<1>3. ASSUME NEW q \in Requests, req[q].step = "leaving"
      PROVE  /\ req'[q] \in Request /\ req'[q].step = "done" /\ req'[q].token = req[q].token
             /\ req'[q].login = req[q].login /\ req'[q].user = req[q].user
             /\ req'[q].email = req[q].email
  <2>1. req[q] \in Request /\ req'[q] = [req[q] EXCEPT !.step = "done"]
    BY <1>1, <1>2, <1>3
  <2>2. QED
    BY <2>1 DEF Request, Steps
<1>4. ASSUME NEW q \in Requests PROVE req'[q] \in Request /\ Moves(q)
  <2>1. CASE req[q].step \in {"idle", "done", "left"}
    BY <1>1, <1>2, <2>1 DEF Moves
  <2>2. CASE req[q].step = "leaving"
    BY <1>3, <2>2 DEF Moves, AfterInsert, AfterSession, WithCookie
  <2>3. CASE req[q].step \notin {"idle", "done", "left", "leaving"}
    <3>1. req'[q] = Failed
      BY <1>1, <2>3
    <3>2. QED
      BY <3>1, FailedFields DEF Moves, AfterInsert, AfterSession
  <2>4. QED
    BY <2>1, <2>2, <2>3
<1>5. GrantsKept /\ grant' = grant /\ account' = account
  BY <1>1 DEF GrantsKept, google
<1>6. ASSUME NEW q \in Requests PROVE RequestInHand(q)'
  <2>1. CASE req[q].step \in {"idle", "done", "left"}
    <3>1. req'[q] = req[q]
      BY <1>1, <2>1
    <3>2. QED
      BY <1>1, <1>4, <3>1, BackToDisk
  <2>2. CASE req[q].step = "leaving"
    <3>1. RequestInHand(q) /\ req[q].user \in Requests /\ Moves(req[q].user)
      BY <1>2, <1>4, <2>2, RequestFields DEF LoginInvariant, RequestInHand, WithCookie
    <3>2. users'[req[q].user] \in {users[req[q].user], None}
      BY <1>1, <3>1 DEF LoginInvariant, Ahead
    <3>3. req'[req[q].user].step \in AfterInsert
      BY <2>2, <3>1 DEF RequestInHand, Moves, WithCookie
    <3>4. QED
      BY <1>3, <1>5, <2>2, <3>1, <3>2, <3>3 DEF RequestInHand, WithCookie
  <2>3. CASE req[q].step \notin {"idle", "done", "left", "leaving"}
    <3>1. req'[q] = Failed
      BY <1>1, <2>3
    <3>2. QED
      BY <3>1, FailedFields DEF RequestInHand, WithCookie
  <2>4. QED
    BY <2>1, <2>2, <2>3
<1>7. LoginTypeOK'
  <2>1. Seen' \in Database
    BY <1>1, TableTypes, SeenTypeThen DEF LoginInvariant
  <2>2. req' \in [Requests -> Request]
    BY <1>1, <1>4
  <2>3. QED
    BY <1>1, <2>1, <2>2 DEF LoginInvariant, LoginTypeOK, google
<1>8. Coherent(disk, req', grant', account')
  BY <1>2, <1>4, <1>5, CoherentNow, CoherentStays DEF LoginInvariant
<1>9. Coherent(Seen', req', grant', account') /\ Coherent(disk', req', grant', account')
  BY <1>1, <1>8, SeenFieldsThen DEF Coherent
<1>10. GrantsBelong' /\ Ahead'
  BY <1>1 DEF LoginInvariant, GrantsBelong, Ahead, google
<1>11. \A q \in Requests : /\ req'[q].step # "leaving"
                           /\ req'[q].step = "left" => req[q].step = "left"
  BY <1>1, <1>3, FailedFields
<1>12. Leaving' /\ LogoutIsFinal'
  BY <1>1, <1>11 DEF LoginInvariant, Leaving, LogoutIsFinal
<1>13. QED
  BY <1>1, <1>6, <1>7, <1>9, <1>10, <1>12, PartsTogether

(* A token that is saved again, refreshed, and committed for its user.     *)
LEMMA RefreshedTokenKeeps ==
  ASSUME LoginInvariant, NEW u \in Requests, NEW t \in Token,
         tokens' = [tokens EXCEPT ![u] = t], disk' = Seen', tokens[u] # None,
         grant[t.grant] \in {"alive", "revoked"}, users[u] # None, account[t.grant] = users[u],
         newest[u].fate = "kept" => t.grant = tokens[u].grant /\ t.refresh = tokens[u].refresh,
         UNCHANGED <<clock, mode, users, session, newest, returned, google, cookie, req>>
  PROVE  LoginInvariant' /\ Kept
<1>1. Kept
  BY DEF Kept, GrantsKept, UsersKept, google
<1>2. \A q \in Requests : RequestInHand(q)'
  <2>1. \A q \in Requests : Moves(q)
    BY DEF Moves
  <2>2. ASSUME NEW q \in Requests PROVE req[q].user # None => req[q].user \in Requests
    BY RequestFields DEF LoginInvariant, LoginTypeOK
  <2>3. QED
    BY <1>1, <2>1, <2>2, OthersInHand DEF LoginInvariant, Kept
<1>3. t # None
  BY NoRecordAssumption
<1>4. \A v \in Requests : tokens'[v] = (IF v = u THEN t ELSE tokens[v])
  BY TableTypes DEF LoginInvariant
<1>5. LoginTypeOK'
  <2>1. tokens' \in [Requests -> Token \cup {None}]
    BY TableTypes DEF LoginInvariant
  <2>2. Seen' \in Database
    BY <2>1, TableTypes, SeenTypeThen DEF LoginInvariant
  <2>3. QED
    BY <2>2 DEF LoginInvariant, LoginTypeOK, google
<1>6. Coherent(Seen, req, grant, account) /\ grant' = grant /\ account' = account
  BY CoherentNow DEF LoginInvariant, google
<1>7. Coherent(Seen', req', grant', account')
  <2>1. \A v \in Requests : tokens'[v] # None =>
            /\ users[v] # None /\ account[tokens'[v].grant] = users[v]
            /\ grant[tokens'[v].grant] \in {"alive", "revoked"}
            /\ newest[v] # None
    BY <1>4, <1>6, SeenFields DEF Coherent
  <2>2. \A v \in Requests : newest[v] # None /\ newest[v].fate = "kept" =>
            /\ tokens'[v] # None
            /\ tokens'[v].grant = newest[v].grant
            /\ tokens'[v].refresh = newest[v].refresh
    BY <1>3, <1>4, <1>6, SeenFields DEF Coherent
  <2>3. QED
    BY <1>6, <2>1, <2>2, SeenFields, SeenFieldsThen DEF Coherent
<1>8. Coherent(disk', req', grant', account')
  BY <1>7
<1>9. GrantsBelong' /\ Leaving'
  BY DEF LoginInvariant, GrantsBelong, Leaving, google
<1>10. Ahead' /\ LogoutIsFinal'
  BY SeenFieldsThen DEF LoginInvariant, Ahead, LogoutIsFinal
<1>11. QED
  BY <1>1, <1>2, <1>5, <1>7, <1>8, <1>9, <1>10, PartsTogether
=============================================================================
