------------------------------ MODULE WebLogin ------------------------------
(***************************************************************************)
(* Logins and sessions of the web application: /auth/login, the OAuth      *)
(* callback, the development login and the logout. They run on threadpool  *)
(* threads without ctx.lock, so any of their steps interleave. They share  *)
(* one database connection with the turns: a method of Store that writes   *)
(* executes its statement and commits in two steps, and what any thread    *)
(* does to the open transaction in between, it does to all of them.        *)
(***************************************************************************)
EXTENDS Naturals

CONSTANTS
    Emails,
    Logins,      \* visits of /auth/login: each has its own state and grant
    Browsers,
    BrowserOf,   \* BrowserOf[l]: the browser that login l was started in
    Requests,    \* callbacks and development logins
    Modes,       \* values of CALENDAI_PROVIDER the process is run with
    SessionTTL,  \* SESSION_TTL
    TokenLife,   \* expires_in of the access tokens
    MaxTime,     \* bound on the clock
    None

ASSUME BrowserAssumption == BrowserOf \in [Logins -> Browsers]
ASSUME ModesAssumption == Modes \subseteq {"google", "fake"}
ASSUME TimesAssumption == SessionTTL \in Nat /\ TokenLife \in Nat /\ MaxTime \in Nat
ASSUME NoneAssumption == None \notin Emails \cup Logins \cup Requests

\* users, session, tokens and newest are what the connection sees.
VARIABLES
    clock,
    mode,     \* CALENDAI_PROVIDER of the running process
    users,    \* users[r]: the email of the user whose id request r made
    session,  \* session[r]: the row of the session token request r made
    tokens,   \* tokens[u]: the oauth_tokens row of user u, decrypted
    newest,   \* history: the grant that a callback last saved for user u,
              \* whether it came with a refresh token, and its fate
    disk,     \* the same four as they were last committed
    returned, \* history: logouts whose DELETE was rolled back
    grant,    \* grant[l]: what Google knows of the grant of login l
    account,  \* account[l]: the Google account that consented
    cookie,   \* cookie[b]: the state cookie of browser b
    req       \* req[r]: how far request r has come, and its local variables

tables == <<users, session, tokens, newest>>
google == <<grant, account>>
loginVars == <<clock, mode, tables, disk, returned, google, cookie, req>>

(* A payload of the token endpoint. refresh: whether it has a refresh      *)
(* token; all refresh tokens of a login stand and fall with its grant.     *)
Token == [grant: Logins, refresh: BOOLEAN, expires: Nat]
Grant == [grant: Logins, refresh: BOOLEAN, fate: {"kept", "raced", "undone"}]
Session == [user: Requests, expires: Nat]
Steps == {"idle", "exchange", "userinfo", "lookup", "insert", "inserted", "save", "saved",
          "session", "opened", "done", "leaving", "left", "failed"}
Request == [step: Steps, login: Logins \cup {None}, email: Emails \cup {None},
            user: Requests \cup {None}, token: Token \cup {None}]

(* The steps of a request once the browser has its session cookie.         *)
WithCookie == {"done", "leaving", "left"}

Idle == [step |-> "idle", login |-> None, email |-> None, user |-> None, token |-> None]

ASSUME NoRecordAssumption == None \notin Token \cup Grant \cup Session

Seen == [users |-> users, session |-> session, tokens |-> tokens, newest |-> newest]

LoginInit ==
    /\ clock = 0
    /\ mode \in Modes
    /\ users = [r \in Requests |-> None]
    /\ session = [r \in Requests |-> None]
    /\ tokens = [r \in Requests |-> None]
    /\ newest = [r \in Requests |-> None]
    /\ disk = Seen
    /\ returned = {}
    /\ grant = [l \in Logins |-> "none"]
    /\ account = [l \in Logins |-> None]
    /\ cookie = [b \in Browsers |-> None]
    /\ req = [r \in Requests |-> Idle]

-----------------------------------------------------------------------------
(* /auth/login: a fresh state goes into the URL and the state cookie. At   *)
(* Google the user picks an account and consents, or nothing comes of it.  *)
Login(l, e) ==
    /\ grant[l] = "none"
    /\ grant' = [grant EXCEPT ![l] = "code"]
    /\ account' = [account EXCEPT ![l] = e]
    /\ cookie' = [cookie EXCEPT ![BrowserOf[l]] = l]
    /\ UNCHANGED <<clock, mode, tables, disk, returned, req>>

(* The user takes back what was granted for an account.                    *)
Revoke(e) ==
    /\ \E l \in Logins : account[l] = e /\ grant[l] = "alive"
    /\ grant' = [l \in Logins |-> IF account[l] = e /\ grant[l] = "alive"
                                  THEN "revoked" ELSE grant[l]]
    /\ UNCHANGED <<clock, mode, tables, disk, returned, account, cookie, req>>

(* A request ends with an error response; what it wrote before stays.      *)
Failed == [Idle EXCEPT !.step = "failed"]
Fail(r) == req' = [req EXCEPT ![r] = Failed]

(* The browser is sent back with code and state, perhaps more than once.   *)
(* The cookie is that of the login started last in this browser.           *)
Callback(r, l) ==
    /\ req[r] = Idle
    /\ grant[l] # "none"
    /\ IF cookie[BrowserOf[l]] = l
       THEN req' = [req EXCEPT ![r].step = "exchange", ![r].login = l]
       ELSE Fail(r)
    /\ UNCHANGED <<clock, mode, tables, disk, returned, google, cookie>>

(* exchange_code: a code is good for one exchange, whose reply may be lost. *)
Exchange(r) ==
    LET l == req[r].login IN
    /\ req[r].step = "exchange"
    /\ \/ Fail(r) /\ UNCHANGED grant
       \/ /\ grant[l] = "code"
          /\ grant' = [grant EXCEPT ![l] = "alive"]
          /\ \/ Fail(r)
             \/ \E refresh \in BOOLEAN :
                   req' = [req EXCEPT
                             ![r].step = "userinfo",
                             ![r].token = [grant |-> l, refresh |-> refresh,
                                           expires |-> clock + TokenLife]]
    /\ UNCHANGED <<clock, mode, tables, disk, returned, account, cookie>>

(* Fault: the email is that of the login the browser started last.         *)
UserInfoOfCookie(r) ==
    LET l == IF cookie[BrowserOf[req[r].login]] = None
             THEN req[r].login ELSE cookie[BrowserOf[req[r].login]] IN
    /\ req[r].step = "userinfo"
    /\ account[l] # None
    /\ req' = [req EXCEPT ![r].step = "lookup", ![r].email = account[l]]
    /\ UNCHANGED <<clock, mode, tables, disk, returned, google, cookie>>

(* fetch_user_email: fails for unverified addresses too.                   *)
UserInfo(r) ==
    LET l == req[r].login IN
    /\ req[r].step = "userinfo"
    /\ \/ Fail(r)
       \/ /\ grant[l] = "alive"
          /\ req' = [req EXCEPT ![r].step = "lookup", ![r].email = account[l]]
    /\ UNCHANGED <<clock, mode, tables, disk, returned, google, cookie>>

DevLogin(r, e) ==
    /\ mode = "fake"
    /\ req[r] = Idle
    /\ req' = [req EXCEPT ![r].step = "lookup", ![r].email = e]
    /\ UNCHANGED <<clock, mode, tables, disk, returned, google, cookie>>

UsersWith(e) == {u \in Requests : users[u] = e}

(* Only the callback has a token to save.                                  *)
UserFound(r, u) ==
    req' = [req EXCEPT ![r].user = u, ![r].email = None,
                       ![r].step = IF req[r].token = None THEN "session" ELSE "save"]

(* _upsert_user: get_user_by_email, then upsert_user with a fresh id. Its  *)
(* ON CONFLICT(id) does not cover the unique email: the INSERT raises.     *)
Lookup(r) ==
    /\ req[r].step = "lookup"
    /\ IF UsersWith(req[r].email) = {}
       THEN req' = [req EXCEPT ![r].step = "insert"]
       ELSE \E u \in UsersWith(req[r].email) : UserFound(r, u)
    /\ UNCHANGED <<clock, mode, tables, disk, returned, google, cookie>>

(* conn.commit(): everything the connection has written is on disk.        *)
Commit == disk' = Seen /\ UNCHANGED tables

(* Fault: the email is not unique.                                         *)
InsertAnyway(r) ==
    /\ req[r].step = "insert"
    /\ users' = [users EXCEPT ![r] = req[r].email]
    /\ req' = [req EXCEPT ![r].step = "inserted"]
    /\ UNCHANGED <<clock, mode, session, tokens, newest, disk, returned, google, cookie>>

Insert(r) ==
    /\ req[r].step = "insert"
    /\ IF UsersWith(req[r].email) = {}
       THEN /\ users' = [users EXCEPT ![r] = req[r].email]
            /\ req' = [req EXCEPT ![r].step = "inserted"]
       ELSE Fail(r) /\ UNCHANGED users
    /\ UNCHANGED <<clock, mode, session, tokens, newest, disk, returned, google, cookie>>

(* The commit of upsert_user, and get_user: nobody if the row is gone.     *)
UserInserted(r) ==
    /\ req[r].step = "inserted"
    /\ Commit
    /\ IF users[r] = None THEN Fail(r) ELSE UserFound(r, r)
    /\ UNCHANGED <<clock, mode, returned, google, cookie>>

(* save_oauth_token of the callback, whose foreign key is the user.        *)
SaveGrant(r, fate) ==
    LET q == req[r] IN
    /\ q.step = "save"
    /\ IF users[q.user] = None
       THEN Fail(r) /\ UNCHANGED <<tokens, newest>>
       ELSE /\ tokens' = [tokens EXCEPT ![q.user] = q.token]
            /\ newest' = [newest EXCEPT ![q.user] =
                   [grant |-> q.token.grant, refresh |-> q.token.refresh, fate |-> fate]]
            /\ req' = [req EXCEPT ![r].step = "saved", ![r].token = None]
    /\ UNCHANGED <<clock, mode, users, session, disk, returned, google, cookie>>

GrantSaved(r) ==
    /\ req[r].step = "saved"
    /\ Commit
    /\ req' = [req EXCEPT ![r].step = "session"]
    /\ UNCHANGED <<clock, mode, returned, google, cookie>>

(* _new_session: create_session, whose foreign key is the user.            *)
NewSession(r) ==
    /\ req[r].step = "session"
    /\ IF users[req[r].user] = None
       THEN Fail(r) /\ UNCHANGED session
       ELSE /\ session' = [session EXCEPT
                             ![r] = [user |-> req[r].user, expires |-> clock + SessionTTL]]
            /\ req' = [req EXCEPT ![r].step = "opened"]
    /\ UNCHANGED <<clock, mode, users, tokens, newest, disk, returned, google, cookie>>

(* Its commit and the response; the callback's deletes the state cookie.   *)
SessionOpened(r) ==
    /\ req[r].step = "opened"
    /\ Commit
    /\ req' = [req EXCEPT ![r].step = "done"]
    /\ cookie' = IF req[r].login = None THEN cookie
                 ELSE [cookie EXCEPT ![BrowserOf[req[r].login]] = None]
    /\ UNCHANGED <<clock, mode, returned, google>>

(* delete_session, perhaps more than once, and its commit.                 *)
Logout(s) ==
    /\ req[s].step \in {"done", "left"}
    /\ session' = [session EXCEPT ![s] = None]
    /\ returned' = returned \ {s}
    /\ req' = [req EXCEPT ![s].step = "leaving"]
    /\ UNCHANGED <<clock, mode, users, tokens, newest, disk, google, cookie>>

(* Fault: the DELETE is not committed.                                     *)
AnsweredUncommitted(s) ==
    /\ req[s].step = "leaving"
    /\ req' = [req EXCEPT ![s].step = "left"]
    /\ UNCHANGED <<clock, mode, tables, disk, returned, google, cookie>>

LoggedOut(s) ==
    /\ req[s].step = "leaving"
    /\ Commit
    /\ req' = [req EXCEPT ![s].step = "left"]
    /\ UNCHANGED <<clock, mode, returned, google, cookie>>

(* get_session_user finds a user: the boundary counts as expired.          *)
Live(s) == session[s] # None /\ session[s].expires > clock

(* A statement of upsert_fact fails in a turn: `with self._conn` rolls     *)
(* back what all threads have executed and nobody has committed.           *)
UpsertFails ==
    /\ disk # Seen
    /\ users' = disk.users
    /\ session' = disk.session
    /\ tokens' = disk.tokens
    /\ newest' = [u \in Requests |-> IF tokens[u] = disk.tokens[u] THEN newest[u]
                                     ELSE [newest[u] EXCEPT !.fate = "undone"]]
    /\ returned' = returned \cup {s \in Requests : req[s].step = "leaving"
                                                 /\ disk.session[s] # None}
    /\ UNCHANGED <<clock, mode, disk, google, cookie, req>>

(* A turn commits what it wrote, and all the rest with it.                 *)
TurnCommits ==
    /\ disk # Seen
    /\ Commit
    /\ UNCHANGED <<clock, mode, returned, google, cookie, req>>

Tick ==
    /\ clock < MaxTime
    /\ clock' = clock + 1
    /\ UNCHANGED <<mode, tables, disk, returned, google, cookie, req>>

(* The process dies and is started again, perhaps for the other provider.  *)
(* The browser of a logout that was not answered still has its cookie.     *)
Restart ==
    /\ mode' \in Modes
    /\ users' = disk.users
    /\ session' = disk.session
    /\ tokens' = disk.tokens
    /\ newest' = disk.newest
    /\ req' = [r \in Requests |->
                 IF req[r].step \in {"idle", "done", "left"} THEN req[r]
                 ELSE IF req[r].step = "leaving" THEN [req[r] EXCEPT !.step = "done"]
                 ELSE Failed]
    /\ UNCHANGED <<clock, disk, returned, google, cookie>>

(* Every step of a login except the save of its grant.                     *)
LoginStep ==
    \/ \E e \in Emails : Revoke(e) \/ \E l \in Logins : Login(l, e)
    \/ \E r \in Requests :
          \/ \E l \in Logins : Callback(r, l)
          \/ \E e \in Emails : DevLogin(r, e)
          \/ Exchange(r) \/ UserInfo(r) \/ Lookup(r) \/ Insert(r) \/ UserInserted(r)
          \/ GrantSaved(r) \/ NewSession(r) \/ SessionOpened(r)
          \/ Logout(r) \/ LoggedOut(r)

-----------------------------------------------------------------------------
Database == [users: [Requests -> Emails \cup {None}],
             session: [Requests -> Session \cup {None}],
             tokens: [Requests -> Token \cup {None}],
             newest: [Requests -> Grant \cup {None}]]

LoginTypeOK ==
    /\ clock \in 0..MaxTime
    /\ mode \in Modes
    /\ Seen \in Database
    /\ disk \in Database
    /\ returned \subseteq Requests
    /\ grant \in [Logins -> {"none", "code", "alive", "revoked"}]
    /\ account \in [Logins -> Emails \cup {None}]
    /\ cookie \in [Browsers -> Logins \cup {None}]
    /\ req \in [Requests -> Request]

(* However two first logins with the same email interleave, the email has  *)
(* one user (_upsert_user looks before it inserts).                        *)
OneUserPerEmail ==
    \A u, v \in Requests : users[u] = users[v] /\ users[u] # None => u = v

(* Through concurrent, repeated and failing callbacks, what is stored for  *)
(* a user was granted by the account of that user: the oauth_tokens row,   *)
(* and the sessions a callback created.                                    *)
StoredForOwnAccount ==
    /\ \A u \in Requests :
          tokens[u] # None => users[u] # None /\ account[tokens[u].grant] = users[u]
    /\ \A s \in Requests :
          session[s] # None /\ req[s].login # None =>
              users[session[s].user] = account[req[s].login]

(* A session whose logout was answered is dead, now and after any restart, *)
(* unless a failing upsert of another thread rolled the DELETE back before *)
(* the logout committed it. delete_session has no such exception: "the     *)
(* token is dead even if the cookie survives".                             *)
LogoutIsFinal ==
    \A s \in Requests \ returned :
        req[s].step = "left" => session[s] = None /\ disk.session[s] = None

(* The steps of a request that has tried its INSERT, or its session row.   *)
AfterSession == {"opened", "failed"} \cup WithCookie
AfterInsert == {"inserted", "save", "saved", "session"} \cup AfterSession

(* What these properties rest on: the rows of the tables, seen or on disk, *)
(* belong together, and to the requests that wrote them.                   *)
Consistent(d) ==
    /\ \A u, v \in Requests : d.users[u] = d.users[v] /\ d.users[u] # None => u = v
    /\ \A u \in Requests : d.users[u] # None => req[u].step \in AfterInsert
    /\ \A u \in Requests : d.tokens[u] # None =>
          /\ d.users[u] # None /\ account[d.tokens[u].grant] = d.users[u]
          /\ grant[d.tokens[u].grant] \in {"alive", "revoked"}
          /\ d.newest[u] # None
    /\ \A u \in Requests : d.newest[u] # None /\ d.newest[u].fate = "kept" =>
          /\ d.tokens[u] # None
          /\ d.tokens[u].grant = d.newest[u].grant
          /\ d.tokens[u].refresh = d.newest[u].refresh
    /\ \A s \in Requests : d.session[s] # None =>
          /\ req[s].step \in AfterSession
          /\ req[s].step # "failed" => d.session[s].user = req[s].user
          /\ d.users[d.session[s].user] # None
          /\ req[s].login # None => d.users[d.session[s].user] = account[req[s].login]

(* What the connection sees has grown out of what is on disk.              *)
Ahead ==
    \A u \in Requests :
        /\ disk.users[u] # None => users[u] = disk.users[u]
        /\ disk.newest[u] # None => newest[u] # None

(* What the local variables of a request say of the tables and of Google,  *)
(* however long the request took; its user may have been rolled back.      *)
RequestInHand(r) ==
    LET q == req[r] IN
    /\ q.login # None => grant[q.login] # "none"
    /\ q.step \in {"exchange", "userinfo"} => q.login # None
    /\ q.token # None =>
           /\ q.step \in {"userinfo", "lookup", "insert", "inserted", "save"}
           /\ q.token.grant = q.login
           /\ grant[q.login] \in {"alive", "revoked"}
    /\ q.step = "save" => q.token # None
    /\ q.step \in {"lookup", "insert", "inserted"} =>
           q.email # None /\ (q.login # None => q.email = account[q.login])
    /\ q.step = "inserted" => users[r] \in {None, q.email}
    /\ q.step \in {"save", "saved", "session", "opened"} \cup WithCookie <=> q.user # None
    /\ q.user # None =>
           /\ req[q.user].step \in AfterInsert
           /\ q.login # None => users[q.user] \in {None, account[q.login]}

(* A grant belongs to an account.                                          *)
GrantsBelong == \A l \in Logins : grant[l] # "none" => account[l] # None

(* While a logout is under way its session is gone, or was brought back.   *)
Leaving == \A s \in Requests \ returned : req[s].step = "leaving" => session[s] = None

LoginInvariant ==
    /\ LoginTypeOK
    /\ \A r \in Requests : RequestInHand(r)
    /\ GrantsBelong
    /\ Consistent(Seen) /\ Consistent(disk)
    /\ Ahead
    /\ Leaving
    /\ LogoutIsFinal
=============================================================================
