------------------------------- MODULE Sessions ------------------------------
(***************************************************************************)
(* Signing in and out: the sessions of AuthService (apps/api/src/modules/  *)
(* auth/service.ts), the hooks that guard every request (app/plugins/      *)
(* auth.ts, server.ts), the auth routes, and the browser's side of them    *)
(* (apps/web: api-client, SessionProvider, AuthForm).                      *)
(*                                                                         *)
(* A tab has one request under way at a time; the tabs of a browser share  *)
(* its cookie.  A cookie and a CSRF token are what they are good for: the  *)
(* session they name (tokens.ts binds both to it by HMAC).  A request that *)
(* is refused changes nothing on the server from then on, so the browser   *)
(* learns of it in the same step.                                          *)
(***************************************************************************)
EXTENDS Integers, FiniteSets

CONSTANTS
  Tabs, Browsers,   \* pages that are open, and the cookie jars they share
  Mailboxes,        \* email addresses, up to the case of their letters
  Spellings,        \* the addresses that are typed in
  MaxUsers,         \* bound: user rows
  MaxSessions,      \* bound: session rows ever created
  MaxClicks         \* bound: requests that users start

None == 0
UserId == 1..MaxUsers
SessionId == 1..MaxSessions
Email == [box : Mailboxes, shouted : BOOLEAN]
NoEmail == [box |-> "none", shouted |-> FALSE]

ASSUME SessionsAssumption ==
  /\ MaxUsers \in Nat \ {0} /\ MaxSessions \in Nat \ {0} /\ MaxClicks \in Nat
  /\ "none" \notin Mailboxes /\ Spellings \subseteq Email

VARIABLES
  users,        \* the users table: the email of each row
  deactivated,  \* rows with deactivatedAt set
  sessions,     \* the sessions table: the user of each row that has not expired
  issued,       \* session ids generated so far
  touching,     \* updates of lastSeenAt nobody waits for
  revoked,      \* history: sessions ended by logout or logout-all
  browser,      \* the browser of each tab
  cookie,       \* the session cookie of each browser
  shown,        \* SessionProvider's state in each tab
  req,          \* the request of each tab
  clicks        \* requests started by users so far

db == <<users, deactivated, sessions, issued, touching, revoked>>
pages == <<browser, cookie, shown>>
sessionVars == <<db, pages, req, clicks>>

Shown == [user : UserId \cup {None}, csrf : SessionId \cup {None}]
signedOut == [user |-> None, csrf |-> None]
Op == {"register", "login", "logout", "logoutAll", "session", "write"}
Request ==
  [op : Op \cup {"none"}, email : Email \cup {NoEmail},
   step : {"idle", "preHandler", "handler", "insert", "createSession", "reply"},
   sid : SessionId \cup {None},   \* the cookie sent, or the cookie of the answer
   as : UserId \cup {None}]       \* request.user, or whom register() and login() are about
idle == [op |-> "none", email |-> NoEmail, step |-> "idle", sid |-> None, as |-> None]

SessionsTypeOK ==
  /\ users \in [UserId -> Email \cup {NoEmail}]
  /\ deactivated \subseteq UserId
  /\ sessions \in [SessionId -> UserId \cup {None}]
  /\ issued \in 0..MaxSessions
  /\ touching \subseteq SessionId /\ revoked \subseteq SessionId
  /\ browser \in [Tabs -> Browsers]
  /\ cookie \in [Browsers -> SessionId \cup {None}]
  /\ shown \in [Tabs -> Shown] /\ req \in [Tabs -> Request] /\ clicks \in 0..MaxClicks

SessionsInit ==
  /\ users = [u \in UserId |-> NoEmail] /\ deactivated = {}
  /\ sessions = [s \in SessionId |-> None] /\ issued = 0
  /\ touching = {} /\ revoked = {}
  /\ browser \in [Tabs -> Browsers]
  /\ cookie = [b \in Browsers |-> None]
  /\ shown = [t \in Tabs |-> signedOut] /\ req = [t \in Tabs |-> idle] /\ clicks = 0

-----------------------------------------------------------------------------
(* The browser                                                               *)

Goes(t, next) == req' = [req EXCEPT ![t] = next]

(* apiRequest(): the browser sends the cookie it has now.                    *)
apiRequest(t, op, email, jar) ==
  [idle EXCEPT !.op = op, !.email = email, !.step = "preHandler", !.sid = jar[browser[t]]]

(* AuthForm submits, SessionProvider refreshes or signs out, or a component  *)
(* makes a write; the last need somebody signed in.                          *)
submit(t, op, email) ==
  /\ req[t].step = "idle" /\ clicks < MaxClicks /\ clicks' = clicks + 1
  /\ op \in {"register", "login"} <=> email # NoEmail
  /\ op \in {"write", "logout", "logoutAll"} => shown[t].user # None
  /\ Goes(t, apiRequest(t, op, email, cookie))
  /\ UNCHANGED <<db, pages>>

(* An error of any kind reaches the tab: refresh() shows nobody then, and    *)
(* signOut() shows nobody whatever the answer was.                           *)
refused(t) ==
  /\ Goes(t, idle)
  /\ shown' = [shown EXCEPT ![t] =
       IF req[t].op \in {"session", "logout", "logoutAll"} THEN signedOut ELSE @]
  /\ UNCHANGED <<browser, cookie>>

(* The answer arrives: its cookie is set, or cleared; AuthForm goes on to    *)
(* refresh(), which shows what /auth/session says.                           *)
receive(t) ==
  /\ req[t].step = "reply"
  /\ LET r == req[t] IN
       /\ cookie' = IF r.op \in {"register", "login"} THEN [cookie EXCEPT ![browser[t]] = r.sid]
                    ELSE IF r.op \in {"logout", "logoutAll"}
                    THEN [cookie EXCEPT ![browser[t]] = None] ELSE cookie
       /\ shown' = [shown EXCEPT ![t] =
            IF r.op \in {"logout", "logoutAll"} THEN signedOut
            ELSE IF r.op = "session"
            THEN [user |-> r.as, csrf |-> IF r.as = None THEN None ELSE r.sid] ELSE @]
       /\ Goes(t, IF r.op \in {"register", "login"}
                  THEN apiRequest(t, "session", NoEmail, cookie') ELSE idle)
  /\ UNCHANGED <<db, browser>>

(* The request or its answer is lost, a limit is exceeded (globalRateLimit() *)
(* or the route's own), or a statement fails.                                *)
fails(t) ==
  /\ req[t].step # "idle"
  /\ refused(t)
  /\ UNCHANGED db

-----------------------------------------------------------------------------
(* The hooks                                                                 *)

(* resolveSession(): the row and its user, in one query.                     *)
resolveSession(s) ==
  IF s = None THEN None ELSE IF sessions[s] \in deactivated THEN None ELSE sessions[s]

(* The preHandler of registerAuth(); lastSeenAt is refreshed, if it is due,  *)
(* by a statement that the request does not wait for.  Registering and       *)
(* signing in do not look at the user; GET /auth/session answers with it and *)
(* a token for the session, or with nobody.                                  *)
registerAuth(t) ==
  /\ req[t].step = "preHandler"
  /\ LET u == resolveSession(req[t].sid) IN
       /\ Goes(t, [req[t] EXCEPT !.step = IF req[t].op = "session" THEN "reply" ELSE "handler",
                     !.as = IF req[t].op \in {"register", "login"} THEN None ELSE u])
       /\ \/ UNCHANGED touching
          \/ u # None /\ touching' = touching \cup {req[t].sid}
  /\ UNCHANGED <<users, deactivated, sessions, issued, revoked, pages>>

(* Mutant: the refresh of lastSeenAt is an upsert.                           *)
touchUpserts(s) ==
  /\ s \in touching
  /\ touching' = touching \ {s}
  /\ sessions' = [sessions EXCEPT ![s] = IF @ = None THEN 1 ELSE @]
  /\ UNCHANGED <<users, deactivated, issued, revoked, pages, req>>

(* The UPDATE matches the row or, if it is gone by now, nothing.             *)
touch(s) ==
  /\ s \in touching
  /\ touching' = touching \ {s}
  /\ UNCHANGED <<users, deactivated, sessions, issued, revoked, pages, req>>

handling(t, op) == req[t].step = "handler" /\ req[t].op = op

requireAuth(t) == req[t].as # None

(* tokens.ts: a token verifies for the session it was made for and no other. *)
verifyCsrfToken(token, session) == token # None /\ token = session

(* Mutant: a token of any session will do.                                   *)
requireCsrfAny(t) == req[t].as = None \/ shown[t].csrf # None

(* requireCsrf(): the tab's token must be the one of the cookie's session.   *)
requireCsrf(t) == req[t].as = None \/ verifyCsrfToken(shown[t].csrf, req[t].sid)

-----------------------------------------------------------------------------
(* The routes                                                                *)

(* Mutant: the address is used as it was typed.                              *)
normalisedNot(email) == email

(* register() and login() use the trimmed address in lower case.             *)
normalised(email) == [box |-> email.box, shouted |-> FALSE]

holders(email) == {u \in UserId : users[u] = normalised(email)}

(* register(): the check for an account with that address.                   *)
registerChecks(t) ==
  /\ handling(t, "register")
  /\ \/ holders(req[t].email) # {} /\ refused(t)
     \/ /\ holders(req[t].email) = {}
        /\ Goes(t, [req[t] EXCEPT !.step = "insert"]) /\ UNCHANGED pages
  /\ UNCHANGED db

(* register(): the INSERT, after the hash; users_email_idx is unique.        *)
registerInserts(t) ==
  /\ req[t].step = "insert"
  /\ \/ holders(req[t].email) # {} /\ refused(t) /\ UNCHANGED users
     \/ /\ holders(req[t].email) = {}
        /\ \E u \in UserId :
             /\ users[u] = NoEmail /\ \A v \in 1..(u - 1) : users[v] # NoEmail
             /\ users' = [users EXCEPT ![u] = normalised(req[t].email)]
             /\ Goes(t, [req[t] EXCEPT !.step = "createSession", !.as = u, !.email = NoEmail])
        /\ UNCHANGED pages
  /\ UNCHANGED <<deactivated, sessions, issued, touching, revoked>>

(* login(): the account is read; without one, or with a deactivated one, a   *)
(* decoy is verified and the answer is 401, as it is for a wrong password.   *)
(* For the right one a weak hash is replaced and lastLoginAt set, by         *)
(* statements that do not look at the account again.                         *)
login(t) ==
  /\ handling(t, "login")
  /\ \/ refused(t)
     \/ \E u \in holders(req[t].email) \ deactivated :
          /\ Goes(t, [req[t] EXCEPT !.step = "createSession", !.as = u, !.email = NoEmail])
          /\ UNCHANGED pages
  /\ UNCHANGED db

(* createSession(): a fresh id, its row, and the cookie that names it.       *)
createSession(t) ==
  /\ req[t].step = "createSession"
  /\ issued < MaxSessions
  /\ issued' = issued + 1
  /\ sessions' = [sessions EXCEPT ![issued'] = req[t].as]
  /\ Goes(t, [req[t] EXCEPT !.step = "reply", !.sid = issued'])
  /\ UNCHANGED <<users, deactivated, touching, revoked, pages>>

Revokes(ss) ==
  /\ sessions' = [s \in SessionId |-> IF s \in ss THEN None ELSE sessions[s]]
  /\ revoked' = revoked \cup ss

(* POST /auth/logout: whatever session the cookie names is deleted.          *)
logout(t) ==
  /\ handling(t, "logout")
  /\ Revokes({req[t].sid} \ {None})
  /\ Goes(t, [req[t] EXCEPT !.step = "reply"])
  /\ UNCHANGED <<users, deactivated, issued, touching, pages>>

(* POST /auth/logout-all: all sessions of the user are deleted.              *)
logoutAll(t) ==
  /\ handling(t, "logoutAll")
  /\ \/ ~requireAuth(t) /\ refused(t) /\ UNCHANGED <<sessions, revoked>>
     \/ /\ requireAuth(t)
        /\ Revokes({s \in SessionId : sessions[s] = req[t].as})
        /\ Goes(t, [req[t] EXCEPT !.step = "reply"]) /\ UNCHANGED pages
  /\ UNCHANGED <<users, deactivated, issued, touching>>

(* A write route: requireAuth, then requireCsrf, then the change itself.     *)
writes(t) ==
  /\ handling(t, "write")
  /\ \/ ~(requireAuth(t) /\ requireCsrf(t)) /\ refused(t)
     \/ /\ requireAuth(t) /\ requireCsrf(t)
        /\ Goes(t, [req[t] EXCEPT !.step = "reply"]) /\ UNCHANGED pages
  /\ UNCHANGED db

-----------------------------------------------------------------------------
(* An operator sets deactivatedAt in the database; no code of src/ does.     *)
deactivate(u) ==
  /\ users[u] # NoEmail /\ u \notin deactivated
  /\ deactivated' = deactivated \cup {u}
  /\ UNCHANGED <<users, sessions, issued, touching, revoked, pages, req>>

(* SESSION_TTL_SECONDS go by: no query returns the row any more, and         *)
(* purgeExpiredSessions() may delete it.                                     *)
lapse(s) ==
  /\ sessions[s] # None
  /\ sessions' = [sessions EXCEPT ![s] = None]
  /\ UNCHANGED <<users, deactivated, issued, touching, revoked, pages, req>>

serve(t) ==
  \/ receive(t) \/ fails(t) \/ registerAuth(t)
  \/ registerChecks(t) \/ registerInserts(t) \/ login(t)
  \/ createSession(t) \/ logout(t) \/ logoutAll(t) \/ writes(t)

SessionsNext ==
  \/ \E t \in Tabs :
       \/ \E op \in Op, e \in Spellings \cup {NoEmail} : submit(t, op, e)
       \/ UNCHANGED clicks /\ serve(t)
  \/ \E s \in SessionId : UNCHANGED clicks /\ (touch(s) \/ lapse(s))
  \/ \E u \in UserId : UNCHANGED clicks /\ deactivate(u)

-----------------------------------------------------------------------------
(* Properties                                                                *)

(* "Logout and 'revoke all devices' must take effect immediately"            *)
(* (auth/service.ts:6-9): a revoked session has no row, ever again, whatever *)
(* was under way when it was revoked.                                        *)
RevokedStaysRevoked == \A s \in revoked : sessions[s] = None

(* The token that guards writes is bound to a session (tokens.ts:72-73), so  *)
(* a tab never writes in the name of somebody else than it shows, although   *)
(* other tabs of the browser sign in and out under it.                       *)
ActsAsShown ==
  \A t \in Tabs : req[t].op = "write" /\ req[t].step = "reply" =>
    req[t].as = shown[t].user

(* However registrations overlap and addresses are spelled, an address has   *)
(* one account (auth/service.ts:69-77, schema/users.ts:37).                  *)
OneAccountPerAddress ==
  \A u, v \in UserId :
    users[u] # NoEmail /\ users[u].box = users[v].box => u = v
==============================================================================
