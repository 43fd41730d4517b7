---------------------------- MODULE AccountsProofs ----------------------------
(***************************************************************************)
(* Safety of what signed-in users do to the API, for any number of users,  *)
(* tabs, requests and rows.  Every component is proved by itself; the      *)
(* composition lets one of them move at a time.                            *)
(***************************************************************************)
EXTENDS MCAccounts, FiniteSetTheorems, TLAPS

(* A step of the composition is a step of each component, or leaves it be.   *)
LEMMA ComponentSteps ==
  ASSUME [AccountsNext]_<<sessionVars, limitVars, reviewVars, moderationVars, libraryVars, subject>>
  PROVE  /\ [SessionsNext]_sessionVars /\ [RateLimitNext]_limitVars /\ [ReviewsNext]_reviewVars
         /\ [ModerationNext]_moderationVars /\ [LibraryNext]_libraryVars /\ UNCHANGED subject
  BY DEF AccountsNext, RestStays

-----------------------------------------------------------------------------
(* Sessions                                                                  *)

(* Ids are generated once: nothing names, and nothing has ended, a session   *)
(* that is yet to be created.                                                *)
IdsIssued ==
  /\ \A s \in SessionId : s > issued => sessions[s] = None /\ s \notin revoked
  /\ \A b \in Browsers : cookie[b] =< issued
  /\ \A t \in Tabs : req[t].sid =< issued /\ shown[t].csrf =< issued

(* Addresses are stored in lower case.                                       *)
StoredNormalised == \A u \in UserId : ~users[u].shouted

(* The requests that registerAuth() resolves a user for.                     *)
resolves(r) == r.op \notin {"register", "login"} /\ r.step \in {"handler", "reply"} /\ r.as # None

(* Whose session an id is never changes, so a user that was resolved for a   *)
(* cookie and a user that is shown with a token can be compared through it.  *)
Owned(owner) ==
  /\ \A s \in SessionId : sessions[s] # None => sessions[s] = owner[s]
  /\ \A t \in Tabs : resolves(req[t]) => req[t].sid # None /\ req[t].as = owner[req[t].sid]
  /\ \A t \in Tabs : shown[t].csrf # None => shown[t].user = owner[shown[t].csrf]

OwnerExists == \E owner \in [SessionId -> UserId \cup {None}] : Owned(owner)

SessionsInv ==
  /\ SessionsTypeOK /\ IdsIssued /\ RevokedStaysRevoked
  /\ StoredNormalised /\ OneAccountPerAddress
  /\ OwnerExists /\ ActsAsShown

(* The invariant holds at first.                                             *)
LEMMA SessionsStart == SessionsInit => SessionsInv
<1> SUFFICES ASSUME SessionsInit PROVE SessionsInv
  OBVIOUS
<1> USE SessionsAssumption DEF SessionsAssumption, SessionsInit, None
<1>1. idle \in Request /\ signedOut \in Shown /\ idle.sid = 0 /\ idle.as = 0 /\ idle.op = "none"
  BY DEF idle, Request, NoEmail, signedOut, Shown
<1>2. SessionsTypeOK
  BY <1>1 DEF SessionsTypeOK, NoEmail
<1>3. IdsIssued /\ RevokedStaysRevoked
  BY <1>1 DEF IdsIssued, RevokedStaysRevoked, signedOut
<1>4. StoredNormalised /\ OneAccountPerAddress
  BY DEF StoredNormalised, OneAccountPerAddress, NoEmail
<1>5. Owned(sessions)
  BY <1>1 DEF Owned, resolves, signedOut
<1>6. OwnerExists
  BY <1>2, <1>5 DEF OwnerExists, SessionsTypeOK
<1>7. ActsAsShown
  BY <1>1 DEF ActsAsShown
<1> QED
  BY <1>2, <1>3, <1>4, <1>6, <1>7 DEF SessionsInv

(* The facts about types that the steps need.                                *)
LEMMA SessionTypes ==
  /\ idle \in Request /\ idle.sid = None /\ idle.as = None /\ idle.step = "idle" /\ idle.op = "none"
  /\ signedOut \in Shown /\ signedOut.csrf = None /\ signedOut.user = None
  /\ ~resolves(idle)
  BY DEF idle, Request, NoEmail, signedOut, Shown, None, resolves

(* A step of one tab's request that leaves accounts and sessions alone: the  *)
(* request and what the tab shows go on naming sessions by their owners.     *)
LEMMA TabOK ==
  ASSUME SessionsInv, NEW t \in Tabs, NEW r \in Request, NEW s \in Shown,
         req' = [req EXCEPT ![t] = r], shown' = [shown EXCEPT ![t] = s],
         UNCHANGED <<users, deactivated, sessions, issued, revoked, browser>>,
         touching' \subseteq SessionId, clicks' \in 0..MaxClicks,
         cookie' \in [Browsers -> SessionId \cup {None}], \A b \in Browsers : cookie'[b] =< issued,
         r.sid =< issued, s.csrf =< issued,
         \A owner \in [SessionId -> UserId \cup {None}] : Owned(owner) =>
           /\ resolves(r) => r.sid # None /\ r.as = owner[r.sid]
           /\ s.csrf # None => s.user = owner[s.csrf],
         r.op = "write" /\ r.step = "reply" => r.as = s.user
  PROVE  SessionsInv'
<1> USE DEF SessionsInv
<1>1. /\ req \in [Tabs -> Request] /\ shown \in [Tabs -> Shown]
      /\ req'[t] = r /\ shown'[t] = s
      /\ \A v \in Tabs \ {t} : req'[v] = req[v] /\ shown'[v] = shown[v]
  BY DEF SessionsTypeOK
<1>2. SessionsTypeOK'
  BY <1>1 DEF SessionsTypeOK
<1>3. IdsIssued' /\ RevokedStaysRevoked'
  BY <1>1 DEF IdsIssued, RevokedStaysRevoked
<1>4. StoredNormalised' /\ OneAccountPerAddress'
  BY DEF StoredNormalised, OneAccountPerAddress
<1>5. OwnerExists'
  <2>1. PICK owner \in [SessionId -> UserId \cup {None}] : Owned(owner)
    BY DEF OwnerExists
  <2>2. Owned(owner)'
    BY <1>1, <2>1 DEF Owned, resolves
  <2> QED
    BY <2>2 DEF OwnerExists
<1>6. ActsAsShown'
  BY <1>1 DEF ActsAsShown
<1> QED
  BY <1>2, <1>3, <1>4, <1>5, <1>6

(* A request that is refused leaves the tab showing what it did, or nobody.  *)
LEMMA RefusedOK ==
  ASSUME SessionsInv, NEW t \in Tabs, refused(t), UNCHANGED clicks,
         UNCHANGED <<users, deactivated, sessions, issued, revoked>>, touching' \subseteq SessionId
  PROVE  SessionsInv'
<1> DEFINE s == IF req[t].op \in {"session", "logout", "logoutAll"} THEN signedOut ELSE shown[t]
<1>1. SessionsTypeOK /\ IdsIssued
  BY DEF SessionsInv
<1>2. req' = [req EXCEPT ![t] = idle] /\ shown' = [shown EXCEPT ![t] = s] /\ UNCHANGED <<browser, cookie>>
  BY DEF refused, Goes
<1>3. s \in Shown /\ s.csrf =< issued /\ idle.sid =< issued
  BY <1>1, SessionTypes DEF SessionsTypeOK, IdsIssued, None
<1>4. ASSUME NEW owner \in [SessionId -> UserId \cup {None}], Owned(owner)
      PROVE  s.csrf # None => s.user = owner[s.csrf]
  BY <1>4, SessionTypes DEF Owned
<1>5. /\ clicks' \in 0..MaxClicks /\ cookie' \in [Browsers -> SessionId \cup {None}]
      /\ \A b \in Browsers : cookie'[b] =< issued
  BY <1>1, <1>2 DEF SessionsTypeOK, IdsIssued
<1> HIDE DEF s
<1> QED
  BY <1>2, <1>3, <1>4, <1>5, SessionTypes, TabOK

(* A request goes on, and the page stays as it is.                           *)
LEMMA GoesOK ==
  ASSUME SessionsInv, NEW t \in Tabs, NEW r \in Request, Goes(t, r), UNCHANGED pages,
         UNCHANGED <<users, deactivated, sessions, issued, revoked>>, touching' \subseteq SessionId,
         clicks' \in 0..MaxClicks, r.sid =< issued,
         \A owner \in [SessionId -> UserId \cup {None}] : Owned(owner) =>
           (resolves(r) => r.sid # None /\ r.as = owner[r.sid]),
         r.op = "write" /\ r.step = "reply" => r.as = shown[t].user
  PROVE  SessionsInv'
<1>1. SessionsTypeOK /\ IdsIssued
  BY DEF SessionsInv
<1>2. req' = [req EXCEPT ![t] = r] /\ shown' = [shown EXCEPT ![t] = shown[t]] /\ UNCHANGED <<browser, cookie>>
  BY <1>1 DEF Goes, pages, SessionsTypeOK
<1>3. shown[t] \in Shown /\ shown[t].csrf =< issued
  BY <1>1 DEF SessionsTypeOK, IdsIssued
<1>4. ASSUME NEW owner \in [SessionId -> UserId \cup {None}], Owned(owner)
      PROVE  shown[t].csrf # None => shown[t].user = owner[shown[t].csrf]
  BY <1>4 DEF Owned
<1>5. cookie' \in [Browsers -> SessionId \cup {None}] /\ \A b \in Browsers : cookie'[b] =< issued
  BY <1>1, <1>2 DEF SessionsTypeOK, IdsIssued
<1> QED
  BY <1>2, <1>3, <1>4, <1>5, TabOK

(* Steps of a request that change no table but, perhaps, lastSeenAt.         *)
LEMMA BrowserOK ==
  ASSUME SessionsInv, NEW t \in Tabs,
         \/ \E op \in Op, e \in Spellings \cup {NoEmail} : submit(t, op, e)
         \/ UNCHANGED clicks /\ (receive(t) \/ fails(t) \/ registerAuth(t))
  PROVE  SessionsInv'
<1>1. SessionsTypeOK /\ IdsIssued
  BY DEF SessionsInv
<1>2. /\ req[t] \in Request /\ shown[t] \in Shown /\ browser[t] \in Browsers
      /\ issued \in Nat /\ req[t].sid =< issued
      /\ cookie \in [Browsers -> SessionId \cup {None}] /\ \A b \in Browsers : cookie[b] =< issued
      /\ touching \subseteq SessionId /\ clicks \in 0..MaxClicks
  BY <1>1 DEF SessionsTypeOK, IdsIssued
<1>3. ASSUME NEW jar \in [Browsers -> SessionId \cup {None}], NEW op \in Op, NEW e \in Email \cup {NoEmail},
             jar[browser[t]] =< issued
      PROVE  /\ apiRequest(t, op, e, jar) \in Request /\ ~resolves(apiRequest(t, op, e, jar))
             /\ apiRequest(t, op, e, jar).sid =< issued
             /\ apiRequest(t, op, e, jar).step = "preHandler"
  BY <1>2, <1>3 DEF apiRequest, idle, Request, resolves, None
<1>4. ASSUME NEW op \in Op, NEW e \in Spellings \cup {NoEmail}, submit(t, op, e) PROVE SessionsInv'
  <2>1. e \in Email \cup {NoEmail}
    BY SessionsAssumption DEF SessionsAssumption
  <2>2. clicks' \in 0..MaxClicks
    BY <1>2, <1>4, SessionsAssumption DEF submit, SessionsAssumption
  <2>3. /\ apiRequest(t, op, e, cookie) \in Request /\ ~resolves(apiRequest(t, op, e, cookie))
        /\ apiRequest(t, op, e, cookie).sid =< issued
        /\ apiRequest(t, op, e, cookie).step = "preHandler"
    BY <1>2, <1>3, <2>1
  <2> QED
    BY <1>2, <1>4, <2>2, <2>3, GoesOK DEF submit, db
<1>5. CASE UNCHANGED clicks /\ receive(t)
  <2> DEFINE r == req[t]
             s == IF r.op \in {"logout", "logoutAll"} THEN signedOut
                  ELSE IF r.op = "session"
                  THEN [user |-> r.as, csrf |-> IF r.as = None THEN None ELSE r.sid] ELSE shown[t]
             q == IF r.op \in {"register", "login"} THEN apiRequest(t, "session", NoEmail, cookie') ELSE idle
  <2>1. /\ r.step = "reply" /\ req' = [req EXCEPT ![t] = q] /\ shown' = [shown EXCEPT ![t] = s]
        /\ UNCHANGED <<users, deactivated, sessions, issued, touching, revoked, browser>>
    BY <1>5 DEF receive, Goes, db
  <2>2. /\ cookie' \in [Browsers -> SessionId \cup {None}] /\ \A b \in Browsers : cookie'[b] =< issued
    BY <1>2, <1>5 DEF receive, Request, None
  <2>3. q \in Request /\ ~resolves(q) /\ q.sid =< issued /\ q.step # "reply"
    BY <1>2, <1>3, <2>2, SessionTypes DEF Op, None
  <2>4. s \in Shown /\ s.csrf =< issued
    <3>1. shown[t].csrf =< issued
      BY <1>1 DEF IdsIssued
    <3> QED
      BY <1>2, <3>1, SessionTypes DEF Shown, Request, None
  <2>5. ASSUME NEW owner \in [SessionId -> UserId \cup {None}], Owned(owner)
        PROVE  s.csrf # None => s.user = owner[s.csrf]
    BY <2>1, <2>5, SessionTypes DEF Owned, resolves
  <2> HIDE DEF s, q
  <2> QED
    BY <1>2, <1>5, <2>1, <2>2, <2>3, <2>4, <2>5, TabOK
<1>6. CASE UNCHANGED clicks /\ fails(t)
  BY <1>2, <1>6, RefusedOK DEF fails, db
<1>7. CASE UNCHANGED clicks /\ registerAuth(t)
  <2> DEFINE u == resolveSession(req[t].sid)
             r == [req[t] EXCEPT !.step = IF req[t].op = "session" THEN "reply" ELSE "handler",
                                 !.as = IF req[t].op \in {"register", "login"} THEN None ELSE u]
  <2>1. /\ u \in UserId \cup {None}
        /\ u # None => req[t].sid \in SessionId /\ u = sessions[req[t].sid]
    BY <1>1, <1>2 DEF resolveSession, SessionsTypeOK, Request, None
  <2> HIDE DEF u
  <2>2. r \in Request /\ r.sid = req[t].sid /\ r.op = req[t].op
    BY <1>2, <2>1 DEF Request
  <2>3. /\ r.as # None => r.as = u
        /\ r.step = "reply" => r.op = "session"
    BY <1>2, <2>1 DEF Request
  <2>4. Goes(t, r) /\ UNCHANGED <<users, deactivated, sessions, issued, revoked, pages>>
        /\ touching' \subseteq SessionId
    BY <1>2, <1>7, <2>1 DEF registerAuth, u
  <2>5. ASSUME NEW owner \in [SessionId -> UserId \cup {None}], Owned(owner)
        PROVE  resolves(r) => r.sid # None /\ r.as = owner[r.sid]
    BY <2>1, <2>2, <2>3, <2>5 DEF Owned, resolves, None, SessionId
  <2> HIDE DEF r
  <2> QED
    BY <1>2, <1>7, <2>2, <2>3, <2>4, <2>5, GoesOK
<1> QED
  BY <1>4, <1>5, <1>6, <1>7

(* Rows of the sessions table go away, for good if they are revoked.         *)
LEMMA RowsGoOK ==
  ASSUME SessionsInv, UNCHANGED <<users, issued, pages, clicks>>,
         deactivated' \subseteq UserId, touching' \subseteq SessionId,
         sessions' \in [SessionId -> UserId \cup {None}],
         \A s \in SessionId : sessions'[s] = sessions[s] \/ sessions'[s] = None,
         revoked' \subseteq SessionId,
         \A s \in revoked' \ revoked : sessions'[s] = None /\ s =< issued,
         req' \in [Tabs -> Request],
         \A t \in Tabs : \/ req'[t] = req[t]
                         \/ /\ req'[t].sid = req[t].sid /\ req'[t].op # "write"
                            /\ req'[t].as = req[t].as /\ (resolves(req[t]') => resolves(req[t]))
  PROVE  SessionsInv'
<1> USE DEF SessionsInv
<1>1. SessionsTypeOK'
  BY DEF SessionsTypeOK, pages
<1>2. IdsIssued'
  <2>1. issued \in Nat /\ \A s \in SessionId : s \in Nat
    BY DEF SessionsTypeOK, SessionId
  <2>2. \A s \in SessionId : s > issued => sessions'[s] = None /\ s \notin revoked'
    BY <2>1 DEF IdsIssued
  <2>3. \A t \in Tabs : req'[t].sid =< issued
    BY DEF IdsIssued
  <2> QED
    BY <2>2, <2>3 DEF IdsIssued, pages
<1>3. RevokedStaysRevoked'
  BY DEF RevokedStaysRevoked, SessionsTypeOK
<1>4. StoredNormalised' /\ OneAccountPerAddress'
  BY DEF StoredNormalised, OneAccountPerAddress
<1>5. OwnerExists'
  <2>1. PICK owner \in [SessionId -> UserId \cup {None}] : Owned(owner)
    BY DEF OwnerExists
  <2>2. Owned(owner)'
    BY <2>1 DEF Owned, resolves, pages
  <2> QED
    BY <2>2 DEF OwnerExists
<1>6. ActsAsShown'
  BY DEF ActsAsShown, pages
<1> QED
  BY <1>1, <1>2, <1>3, <1>4, <1>5, <1>6

(* Sessions end: by logout, logout-all or expiry.  Others are touched, and   *)
(* accounts deactivated.                                                     *)
LEMMA EndSessionOK ==
  ASSUME SessionsInv, UNCHANGED clicks,
         \/ \E t \in Tabs : logout(t) \/ logoutAll(t)
         \/ \E s \in SessionId : touch(s) \/ lapse(s)
         \/ \E u \in UserId : deactivate(u)
  PROVE  SessionsInv'
<1>1. SessionsTypeOK /\ IdsIssued
  BY DEF SessionsInv
<1>2. /\ sessions \in [SessionId -> UserId \cup {None}] /\ req \in [Tabs -> Request]
      /\ touching \subseteq SessionId /\ revoked \subseteq SessionId /\ deactivated \subseteq UserId
      /\ issued \in Nat
  BY <1>1 DEF SessionsTypeOK
<1>3. ASSUME NEW t \in Tabs, logout(t) \/ (logoutAll(t) /\ requireAuth(t)) PROVE SessionsInv'
  <2>1. PICK ss \in SUBSET SessionId : Revokes(ss) /\ \A s \in ss : s =< issued
    <3>1. CASE logout(t)
      <4>1. {req[t].sid} \ {None} \subseteq SessionId /\ \A s \in {req[t].sid} \ {None} : s =< issued
        BY <1>1, <1>2 DEF IdsIssued, Request
      <4> QED
        BY <3>1, <4>1 DEF logout
    <3>2. CASE logoutAll(t) /\ requireAuth(t)
      <4>1. \A s \in {v \in SessionId : sessions[v] = req[t].as} : s =< issued
        BY <1>1, <1>2, <3>2 DEF IdsIssued, requireAuth, SessionId
      <4> QED
        BY <3>2, <4>1 DEF logoutAll
    <3> QED
      BY <1>3, <3>1, <3>2
  <2>2. /\ sessions' \in [SessionId -> UserId \cup {None}] /\ revoked' \subseteq SessionId
        /\ \A s \in SessionId : sessions'[s] = sessions[s] \/ sessions'[s] = None
        /\ \A s \in revoked' \ revoked : sessions'[s] = None /\ s =< issued
    BY <1>2, <2>1 DEF Revokes
  <2>3. /\ Goes(t, [req[t] EXCEPT !.step = "reply"]) /\ UNCHANGED <<users, deactivated, issued, touching, pages>>
        /\ req[t].step = "handler" /\ req[t].op \in {"logout", "logoutAll"}
    BY <1>3 DEF logout, logoutAll, handling
  <2>4. /\ req'[t] = [req[t] EXCEPT !.step = "reply"] /\ req'[t] \in Request
        /\ \A v \in Tabs \ {t} : req'[v] = req[v]
        /\ req' \in [Tabs -> Request]
    BY <1>2, <2>3 DEF Goes, Request
  <2>5. /\ req'[t].sid = req[t].sid /\ req'[t].op # "write" /\ req'[t].as = req[t].as
        /\ resolves(req[t]') => resolves(req[t])
    BY <1>2, <2>3, <2>4 DEF Request, resolves
  <2> QED
    BY <1>2, <1>3, <2>2, <2>3, <2>4, <2>5, RowsGoOK
<1>4. ASSUME NEW t \in Tabs, logoutAll(t), ~requireAuth(t) PROVE SessionsInv'
  BY <1>2, <1>4, RefusedOK DEF logoutAll
<1>5. ASSUME NEW s \in SessionId, touch(s) \/ lapse(s) PROVE SessionsInv'
  <2>1. /\ sessions' \in [SessionId -> UserId \cup {None}]
        /\ \A v \in SessionId : sessions'[v] = sessions[v] \/ sessions'[v] = None
        /\ touching' \subseteq SessionId
        /\ UNCHANGED <<users, deactivated, issued, revoked, pages, req>>
    BY <1>2, <1>5 DEF touch, lapse
  <2> QED
    BY <1>2, <2>1, RowsGoOK
<1>6. ASSUME NEW u \in UserId, deactivate(u) PROVE SessionsInv'
  <2>1. deactivated' \subseteq UserId /\ UNCHANGED <<users, sessions, issued, touching, revoked, pages, req>>
    BY <1>2, <1>6 DEF deactivate
  <2> QED
    BY <1>2, <2>1, RowsGoOK
<1> QED
  BY <1>3, <1>4, <1>5, <1>6

(* The handlers that read, and those that write a row.                       *)
LEMMA HandlerOK ==
  ASSUME SessionsInv, UNCHANGED clicks, NEW t \in Tabs,
         registerChecks(t) \/ login(t) \/ writes(t)
  PROVE  SessionsInv'
<1>1. SessionsTypeOK /\ IdsIssued
  BY DEF SessionsInv
<1>2. /\ req[t] \in Request /\ req[t].sid =< issued
      /\ touching \subseteq SessionId /\ clicks \in 0..MaxClicks
  BY <1>1 DEF SessionsTypeOK, IdsIssued
<1>3. CASE refused(t)
  BY <1>2, <1>3, RefusedOK DEF registerChecks, login, writes, db
<1>4. CASE ~refused(t) /\ registerChecks(t)
  <2> DEFINE r == [req[t] EXCEPT !.step = "insert"]
  <2>1. r \in Request /\ r.sid = req[t].sid /\ ~resolves(r) /\ r.step = "insert"
    BY <1>2 DEF Request, resolves
  <2>2. Goes(t, r) /\ UNCHANGED pages /\ UNCHANGED db
    BY <1>4 DEF registerChecks
  <2> HIDE DEF r
  <2> QED
    BY <1>2, <2>1, <2>2, GoesOK DEF db
<1>5. CASE ~refused(t) /\ login(t)
  <2>1. PICK u \in UserId : /\ Goes(t, [req[t] EXCEPT !.step = "createSession", !.as = u, !.email = NoEmail])
                            /\ UNCHANGED pages /\ UNCHANGED db
    BY <1>5 DEF login, holders
  <2> DEFINE r == [req[t] EXCEPT !.step = "createSession", !.as = u, !.email = NoEmail]
  <2>2. r \in Request /\ r.sid = req[t].sid /\ ~resolves(r) /\ r.step = "createSession"
    BY <1>2 DEF Request, resolves
  <2> HIDE DEF r
  <2> QED
    BY <1>2, <2>1, <2>2, GoesOK DEF db, r
<1>6. CASE ~refused(t) /\ writes(t)
  <2> DEFINE r == [req[t] EXCEPT !.step = "reply"]
  <2>1. /\ r \in Request /\ r.sid = req[t].sid /\ r.as = req[t].as /\ r.step = "reply"
        /\ r.op = req[t].op
    BY <1>2 DEF Request
  <2>2. Goes(t, r) /\ UNCHANGED pages /\ UNCHANGED db /\ requireAuth(t) /\ requireCsrf(t)
        /\ req[t].step = "handler" /\ req[t].op = "write"
    BY <1>6 DEF writes, handling
  <2>3. resolves(req[t]) /\ shown[t].csrf # None /\ shown[t].csrf = req[t].sid
    BY <2>2 DEF resolves, requireAuth, requireCsrf, verifyCsrfToken
  <2>4. ASSUME NEW owner \in [SessionId -> UserId \cup {None}], Owned(owner)
        PROVE  r.sid # None /\ r.as = owner[r.sid] /\ r.as = shown[t].user
    BY <2>1, <2>3, <2>4 DEF Owned
  <2>5. r.as = shown[t].user
    BY <2>4 DEF SessionsInv, OwnerExists
  <2> HIDE DEF r
  <2> QED
    BY <1>2, <2>1, <2>2, <2>4, <2>5, GoesOK DEF db
<1> QED
  BY <1>3, <1>4, <1>5, <1>6

(* Addresses are pairs, and normalising one clears its second half.          *)
LEMMA EmailForms ==
  ASSUME NEW e \in Email \cup {NoEmail}
  PROVE  /\ e \in [box : Mailboxes \cup {"none"}, shouted : BOOLEAN]
         /\ normalised(e) = [box |-> e.box, shouted |-> FALSE]
         /\ normalised(e) \in Email \cup {NoEmail}
<1>1. CASE e \in Email
  <2>1. e = [box |-> e.box, shouted |-> e.shouted] /\ e.box \in Mailboxes /\ e.shouted \in BOOLEAN
    BY <1>1 DEF Email
  <2>2. normalised(e) = [box |-> e.box, shouted |-> FALSE]
    BY <2>1 DEF normalised
  <2>3. normalised(e) \in Email
    BY <2>1, <2>2 DEF Email
  <2>4. e \in [box : Mailboxes \cup {"none"}, shouted : BOOLEAN]
    BY <2>1
  <2> QED
    BY <2>2, <2>3, <2>4
<1>2. CASE e = NoEmail
  <2>1. normalised(e) = e /\ e.box = "none" /\ e = [box |-> "none", shouted |-> FALSE]
    BY <1>2 DEF NoEmail, normalised
  <2>2. e \in [box : Mailboxes \cup {"none"}, shouted : BOOLEAN]
    BY <2>1
  <2> QED
    BY <2>1, <2>2
<1> QED
  BY <1>1, <1>2

(* An account is inserted unless its normalised address has one.             *)
LEMMA InsertOK ==
  ASSUME SessionsInv, UNCHANGED clicks, NEW t \in Tabs, registerInserts(t)
  PROVE  SessionsInv'
<1>1. SessionsTypeOK /\ IdsIssued
  BY DEF SessionsInv
<1>2. /\ req[t] \in Request /\ req[t].sid =< issued /\ req \in [Tabs -> Request]
      /\ touching \subseteq SessionId /\ users \in [UserId -> Email \cup {NoEmail}]
      /\ req[t].email \in Email \cup {NoEmail}
  BY <1>1 DEF SessionsTypeOK, IdsIssued, Request
<1>3. CASE refused(t) /\ UNCHANGED users
  BY <1>2, <1>3, RefusedOK DEF registerInserts
<1>4. CASE ~(refused(t) /\ UNCHANGED users)
  <2> DEFINE e == normalised(req[t].email)
  <2>1. PICK u \in UserId :
          /\ users[u] = NoEmail /\ users' = [users EXCEPT ![u] = e]
          /\ Goes(t, [req[t] EXCEPT !.step = "createSession", !.as = u, !.email = NoEmail])
          /\ holders(req[t].email) = {}
          /\ UNCHANGED <<deactivated, sessions, issued, touching, revoked, pages>>
    BY <1>4 DEF registerInserts
  <2> DEFINE r == [req[t] EXCEPT !.step = "createSession", !.as = u, !.email = NoEmail]
  <2>2. r \in Request /\ r.sid = req[t].sid /\ ~resolves(r) /\ r.step = "createSession"
    BY <1>2 DEF Request, resolves
  <2>3. req'[t] = r /\ \A v \in Tabs \ {t} : req'[v] = req[v]
    BY <1>2, <2>1 DEF Goes
  <2>4. req' \in [Tabs -> Request]
    BY <1>2, <2>1, <2>2 DEF Goes
  <2>5. /\ e \in Email \cup {NoEmail} /\ ~e.shouted /\ \A v \in UserId : users[v] # e
    BY <1>2, <2>1, EmailForms DEF holders
  <2> HIDE DEF r, e
  <2>6. SessionsTypeOK'
    BY <1>1, <2>1, <2>4, <2>5 DEF SessionsTypeOK, pages
  <2>7. IdsIssued' /\ RevokedStaysRevoked'
    BY <2>1, <2>2, <2>3 DEF SessionsInv, IdsIssued, RevokedStaysRevoked, pages
  <2>8. StoredNormalised'
    BY <1>2, <2>1, <2>5 DEF SessionsInv, StoredNormalised
  <2>9. OneAccountPerAddress'
    <3>1. \A v \in UserId \ {u} : users'[v] = users[v] /\ users[v].box # e.box
      <4>1. ASSUME NEW v \in UserId \ {u}, users[v].box = e.box PROVE FALSE
        <5>1. ~users[v].shouted /\ users[v] # e
          BY <2>5 DEF SessionsInv, StoredNormalised
        <5>2. users[v] \in [box : Mailboxes \cup {"none"}, shouted : BOOLEAN]
              /\ e \in [box : Mailboxes \cup {"none"}, shouted : BOOLEAN]
          BY <1>2, <2>5, EmailForms
        <5> QED
          BY <2>5, <4>1, <5>1, <5>2
      <4> QED
        BY <1>2, <2>1, <4>1
    <3>2. users'[u] = e
      BY <1>2, <2>1
    <3> QED
      BY <3>1, <3>2 DEF SessionsInv, OneAccountPerAddress
  <2>10. OwnerExists'
    <3>1. PICK owner \in [SessionId -> UserId \cup {None}] : Owned(owner)
      BY DEF SessionsInv, OwnerExists
    <3>2. Owned(owner)'
      BY <2>1, <2>2, <2>3, <3>1 DEF Owned, resolves, pages
    <3> QED
      BY <3>2 DEF OwnerExists
  <2>11. ActsAsShown'
    BY <2>1, <2>2, <2>3 DEF SessionsInv, ActsAsShown, pages
  <2> QED
    BY <2>6, <2>7, <2>8, <2>9, <2>10, <2>11 DEF SessionsInv
<1> QED
  BY <1>3, <1>4

(* The requests that create a session.                                       *)
Creating ==
  \A t \in Tabs : req[t].step \in {"insert", "createSession"} => req[t].op \in {"register", "login"}

(* Sessions are made for those who register or sign in.                      *)
LEMMA CreatingOK ==
  /\ SessionsInit => Creating
  /\ SessionsTypeOK /\ Creating /\ [SessionsNext]_sessionVars => Creating'
<1>1. SessionsInit => Creating
  BY SessionTypes DEF SessionsInit, Creating
<1>2. ASSUME SessionsTypeOK, Creating, UNCHANGED req PROVE Creating'
  BY <1>2 DEF Creating
<1>3. ASSUME SessionsTypeOK, Creating, NEW t \in Tabs, NEW r, Goes(t, r),
             r.step \in {"insert", "createSession"} => r.op \in {"register", "login"}
      PROVE  Creating'
  BY <1>3 DEF Creating, Goes, SessionsTypeOK
<1>4. ASSUME SessionsTypeOK, Creating, NEW t \in Tabs, serve(t) PROVE Creating'
  <2>1. req[t] \in Request
    BY <1>4 DEF SessionsTypeOK
  <2>2. CASE refused(t)
    BY <1>3, <1>4, <2>2, SessionTypes DEF refused
  <2>3. CASE receive(t)
    <3> DEFINE q == IF req[t].op \in {"register", "login"}
                    THEN apiRequest(t, "session", NoEmail, cookie') ELSE idle
    <3>1. q.step \notin {"insert", "createSession"}
      BY SessionTypes DEF apiRequest, idle
    <3>2. Goes(t, q)
      BY <2>3 DEF receive
    <3> QED
      BY <1>3, <1>4, <3>1, <3>2
  <2>4. CASE registerAuth(t)
    <3> DEFINE q == [req[t] EXCEPT !.step = IF req[t].op = "session" THEN "reply" ELSE "handler",
                       !.as = IF req[t].op \in {"register", "login"} THEN None ELSE resolveSession(req[t].sid)]
    <3>1. q.step \notin {"insert", "createSession"}
      BY <2>1 DEF Request
    <3>2. Goes(t, q)
      BY <2>4 DEF registerAuth
    <3> QED
      BY <1>3, <1>4, <3>1, <3>2
  <2>5. ASSUME NEW u, Goes(t, [req[t] EXCEPT !.step = "createSession", !.as = u, !.email = NoEmail]),
               req[t].op \in {"register", "login"}
        PROVE  Creating'
    <3>1. [req[t] EXCEPT !.step = "createSession", !.as = u, !.email = NoEmail].op = req[t].op
      BY <2>1 DEF Request
    <3> QED
      BY <1>3, <1>4, <2>5, <3>1
  <2>6. CASE ~refused(t) /\ registerChecks(t)
    <3>1. [req[t] EXCEPT !.step = "insert"].op = req[t].op
      BY <2>1 DEF Request
    <3> QED
      BY <1>3, <1>4, <2>6, <3>1 DEF registerChecks, handling
  <2>7. CASE ~refused(t) /\ login(t)
    BY <2>5, <2>7 DEF login, handling
  <2>8. CASE ~refused(t) /\ registerInserts(t)
    BY <1>4, <2>5, <2>8 DEF registerInserts, Creating
  <2>9. CASE ~refused(t) /\ (logout(t) \/ logoutAll(t) \/ writes(t))
    <3>1. [req[t] EXCEPT !.step = "reply"].step = "reply"
      BY <2>1 DEF Request
    <3> QED
      BY <1>3, <1>4, <2>9, <3>1 DEF logout, logoutAll, writes
  <2>10. CASE createSession(t)
    <3>1. [req[t] EXCEPT !.step = "reply", !.sid = issued'].step = "reply"
      BY <2>1 DEF Request
    <3> QED
      BY <1>3, <1>4, <2>10, <3>1 DEF createSession
  <2> QED
    BY <1>4, <2>2, <2>3, <2>4, <2>6, <2>7, <2>8, <2>9, <2>10 DEF serve, fails
<1>5. ASSUME SessionsTypeOK, Creating, NEW t \in Tabs, NEW op \in Op, NEW e, submit(t, op, e) PROVE Creating'
  <2>1. apiRequest(t, op, e, cookie).step = "preHandler"
    BY DEF apiRequest, idle
  <2> QED
    BY <1>3, <1>5, <2>1 DEF submit
<1> QED
  BY <1>1, <1>2, <1>4, <1>5 DEF SessionsNext, sessionVars, touch, lapse, deactivate

(* A session gets an id that nothing has named yet, so its owner can be      *)
(* whoever it is made for.                                                   *)
LEMMA CreateSessionOK ==
  ASSUME SessionsInv, Creating, UNCHANGED clicks, NEW t \in Tabs, createSession(t)
  PROVE  SessionsInv'
<1>1. SessionsTypeOK /\ IdsIssued
  BY DEF SessionsInv
<1>2. PICK n \in Int : n = issued + 1
  BY <1>1 DEF SessionsTypeOK
<1>3. n \in SessionId /\ issued' = n /\ sessions[n] = None /\ n \notin revoked
  BY <1>1, <1>2, SessionsAssumption
     DEF SessionsTypeOK, IdsIssued, createSession, SessionsAssumption, SessionId
<1>4. req[t] \in Request /\ req \in [Tabs -> Request] /\ sessions \in [SessionId -> UserId \cup {None}]
  BY <1>1 DEF SessionsTypeOK
<1> DEFINE r == [req[t] EXCEPT !.step = "reply", !.sid = n]
<1>5. /\ sessions' = [sessions EXCEPT ![n] = req[t].as] /\ req' = [req EXCEPT ![t] = r]
      /\ UNCHANGED <<users, deactivated, touching, revoked, pages>> /\ req[t].step = "createSession"
  BY <1>3 DEF createSession, Goes
<1>6. /\ r \in Request /\ r.sid = n /\ r.as = req[t].as /\ r.op = req[t].op /\ r.step = "reply"
      /\ req[t].as \in UserId \cup {None}
  BY <1>3, <1>4 DEF Request
<1> HIDE DEF r
<1>7. req'[t] = r /\ \A v \in Tabs \ {t} : req'[v] = req[v]
  BY <1>4, <1>5
<1>8. sessions'[n] = req[t].as /\ \A s \in SessionId \ {n} : sessions'[s] = sessions[s]
  BY <1>3, <1>4, <1>5
<1>9. SessionsTypeOK'
  <2>1. issued' \in 0..MaxSessions
    BY <1>3, SessionsAssumption DEF SessionId, SessionsAssumption
  <2> QED
    BY <1>1, <1>4, <1>5, <1>6, <2>1 DEF SessionsTypeOK, pages
<1>10. IdsIssued'
  <2>1. \A s \in SessionId : s > n => s > issued /\ s # n
    BY <1>1, <1>2 DEF SessionsTypeOK, SessionId
  <2>2. \A s \in SessionId \cup {None} : s =< issued => s =< n
    BY <1>1, <1>2 DEF SessionsTypeOK, SessionId, None
  <2>3. \A v \in Tabs : req'[v].sid =< n /\ shown[v].csrf =< n
    <3>1. \A v \in Tabs : req[v].sid =< n /\ shown[v].csrf =< n
      BY <1>1, <2>2 DEF SessionsTypeOK, IdsIssued, Request, Shown
    <3>2. n =< n
      BY <1>2
    <3> QED
      BY <1>6, <1>7, <3>1, <3>2
  <2>4. \A b \in Browsers : cookie[b] =< n
    BY <1>1, <2>2 DEF SessionsTypeOK, IdsIssued
  <2> QED
    BY <1>1, <1>3, <1>5, <1>8, <2>1, <2>3, <2>4 DEF IdsIssued, pages
<1>11. RevokedStaysRevoked'
  BY <1>1, <1>3, <1>5, <1>8 DEF SessionsInv, RevokedStaysRevoked, SessionsTypeOK
<1>12. StoredNormalised' /\ OneAccountPerAddress'
  BY <1>5 DEF SessionsInv, StoredNormalised, OneAccountPerAddress
<1>13. req[t].op \in {"register", "login"}
  BY DEF Creating, createSession
<1>14. OwnerExists'
  <2>1. PICK owner \in [SessionId -> UserId \cup {None}] : Owned(owner)
    BY DEF SessionsInv, OwnerExists
  <2> DEFINE heirs == [owner EXCEPT ![n] = req[t].as]
  <2>2. heirs \in [SessionId -> UserId \cup {None}]
    BY <1>3, <1>6
  <2>3. \A s \in SessionId : s =< issued => s # n /\ heirs[s] = owner[s]
    BY <1>1, <1>2, <2>1 DEF SessionsTypeOK, SessionId
  <2>4. heirs[n] = req[t].as
    BY <1>3, <2>1
  <2> HIDE DEF heirs
  <2>5. \A s \in SessionId : sessions'[s] # None => sessions'[s] = heirs[s]
    <3> SUFFICES ASSUME NEW s \in SessionId, sessions'[s] # None PROVE sessions'[s] = heirs[s]
      OBVIOUS
    <3>1. CASE s = n
      BY <1>8, <2>4, <3>1
    <3>2. CASE s # n
      <4>1. s =< issued
        BY <1>1, <1>8, <3>2 DEF IdsIssued, SessionsTypeOK, SessionId
      <4> QED
        BY <1>8, <2>1, <2>3, <3>2, <4>1 DEF Owned
    <3> QED
      BY <3>1, <3>2
  <2>6. \A v \in Tabs : resolves(req'[v]) => req'[v].sid # None /\ req'[v].as = heirs[req'[v].sid]
    <3>1. ~resolves(req'[t])
      BY <1>6, <1>7, <1>13 DEF resolves
    <3>2. ASSUME NEW v \in Tabs \ {t}, resolves(req[v])
          PROVE  req[v].sid # None /\ req[v].as = heirs[req[v].sid]
      <4>1. req[v].sid # None /\ req[v].as = owner[req[v].sid]
        BY <2>1, <3>2 DEF Owned
      <4>2. req[v].sid \in SessionId /\ req[v].sid =< issued
        BY <1>1, <1>4, <4>1 DEF IdsIssued, Request
      <4> QED
        BY <2>3, <4>1, <4>2
    <3> QED
      BY <1>7, <3>1, <3>2
  <2>7. \A v \in Tabs : shown[v].csrf # None => shown[v].user = heirs[shown[v].csrf]
    <3>1. \A v \in Tabs : shown[v].csrf \in SessionId \cup {None} /\ shown[v].csrf =< issued
      BY <1>1 DEF IdsIssued, SessionsTypeOK, Shown
    <3> QED
      BY <2>1, <2>3, <3>1 DEF Owned
  <2>8. PICK o \in [SessionId -> UserId \cup {None}] : o = heirs
    BY <2>2
  <2>9. Owned(o)'
    BY <1>5, <2>5, <2>6, <2>7, <2>8 DEF Owned, pages, resolves
  <2> QED
    BY <2>9 DEF OwnerExists
<1>15. ActsAsShown'
  BY <1>5, <1>6, <1>7, <1>13 DEF SessionsInv, ActsAsShown, pages
<1> QED
  BY <1>9, <1>10, <1>11, <1>12, <1>14, <1>15 DEF SessionsInv

(* Every step keeps the invariant.                                           *)
LEMMA NextSessions == SessionsInv /\ Creating /\ [SessionsNext]_sessionVars => SessionsInv'
<1> SUFFICES ASSUME SessionsInv, Creating, [SessionsNext]_sessionVars PROVE SessionsInv'
  OBVIOUS
<1>1. CASE UNCHANGED sessionVars
  <2>1. /\ UNCHANGED <<users, deactivated, sessions, issued, touching, revoked>>
        /\ UNCHANGED <<browser, cookie, shown, req, clicks>>
    BY <1>1 DEF sessionVars, db, pages
  <2>2. SessionsTypeOK' /\ IdsIssued' /\ RevokedStaysRevoked' /\ StoredNormalised'
    BY <2>1 DEF SessionsInv, SessionsTypeOK, IdsIssued, RevokedStaysRevoked, StoredNormalised
  <2>3. OneAccountPerAddress' /\ ActsAsShown'
    BY <2>1 DEF SessionsInv, OneAccountPerAddress, ActsAsShown
  <2>4. OwnerExists'
    BY <2>1 DEF SessionsInv, OwnerExists, Owned, resolves
  <2> QED
    BY <2>2, <2>3, <2>4 DEF SessionsInv
<1>2. ASSUME NEW t \in Tabs, UNCHANGED clicks, serve(t) PROVE SessionsInv'
  BY <1>2, BrowserOK, HandlerOK, InsertOK, CreateSessionOK, EndSessionOK DEF serve
<1>3. ASSUME NEW t \in Tabs, NEW op \in Op, NEW e \in Spellings \cup {NoEmail}, submit(t, op, e)
      PROVE  SessionsInv'
  BY <1>3, BrowserOK
<1>4. ASSUME UNCHANGED clicks, \/ \E s \in SessionId : touch(s) \/ lapse(s)
                               \/ \E u \in UserId : deactivate(u)
      PROVE  SessionsInv'
  BY <1>4, EndSessionOK
<1> QED
  BY <1>1, <1>2, <1>3, <1>4 DEF SessionsNext

(* The invariants of signing in and out hold in every state of the           *)
(* composition.                                                              *)
LEMMA SessionsAlways == AccountsSpec => [](SessionsInv /\ Creating)
<1>1. AccountsInit => SessionsInv /\ Creating
  BY SessionsStart, CreatingOK DEF AccountsInit
<1>2. ASSUME SessionsInv /\ Creating,
             [AccountsNext]_<<sessionVars, limitVars, reviewVars, moderationVars, libraryVars, subject>>
      PROVE  (SessionsInv /\ Creating)'
  <2>1. [SessionsNext]_sessionVars
    BY <1>2, ComponentSteps
  <2>2. SessionsTypeOK
    BY <1>2 DEF SessionsInv
  <2>3. SessionsInv'
    BY <1>2, <2>1, NextSessions
  <2>4. Creating'
    BY <1>2, <2>1, <2>2, CreatingOK
  <2> QED
    BY <2>3, <2>4
<1> QED
  BY <1>1, <1>2, PTL DEF AccountsSpec

(* For any number of tabs, browsers, users and sessions, the tables of users *)
(* and sessions are sound: a session that logout or logout-all ended never   *)
(* gets a row again, whatever was under way when it was ended, and an        *)
(* address has one account however it is spelled (auth/service.ts).          *)
THEOREM AccountsAreSound == AccountsSpec => []AccountsSound
<1>1. SessionsInv => AccountsSound
  BY DEF SessionsInv, AccountsSound
<1> QED
  BY <1>1, SessionsAlways, PTL

(* For any number of tabs that share a cookie, no tab writes in the name of  *)
(* anybody but the user it shows, because the token is bound to a session    *)
(* (tokens.ts, app/plugins/auth.ts).                                         *)
THEOREM TabsActAsShown == AccountsSpec => []ActsAsShown
<1>1. SessionsInv => ActsAsShown
  BY DEF SessionsInv
<1> QED
  BY <1>1, SessionsAlways, PTL

-----------------------------------------------------------------------------
(* Reviews                                                                   *)

Call ==
  [step : Step, user : Users \cup {"nobody"}, id : ReviewId \cup {0},
   value : Stars \cup {0} \cup [Stars -> Nat]]

(* What a call carries at each of its steps, of n ids generated so far.      *)
fits(x, n) ==
  /\ x.id =< n
  /\ x.step = "insert" => x.user \in Users /\ x.value \in Stars
  /\ x.step = "update" => x.id \in ReviewId /\ x.value \in Stars
  /\ x.step = "delete" => x.id \in ReviewId
  /\ x.step = "increment" => x.id \in ReviewId /\ x.user \in Users
  /\ x.step = "store" => x.value \in [Stars -> Nat]

CallsFit == calls \in [Calls -> Call] /\ \A c \in Calls : fits(calls[c], created)

(* Ids are never used again, and votes go with their review.                 *)
RowsMatch ==
  /\ \A r \in ReviewId : r > created => reviews[r] = NoReview
  /\ \A v \in votes : v[1] \in posted

(* A call that has yet to count a vote is the only one to count it, as long  *)
(* as the review is there.                                                   *)
VotesAlive ==
  /\ \A c \in Calls : At(c, "increment") /\ calls[c].id \in posted =>
       <<calls[c].id, calls[c].user>> \in votes \ uncounted
  /\ \A c, d \in Calls :
       /\ At(c, "increment") /\ At(d, "increment") /\ calls[c].id \in posted
       /\ calls[c].id = calls[d].id /\ calls[c].user = calls[d].user
       => c = d

RowsInv ==
  /\ ReviewsTypeOK /\ CallsFit /\ RowsMatch /\ IsFiniteSet(votes) /\ VotesAlive /\ VotesCounted

votesOn(r) == {v \in votes : v[1] = r}
uncountedOn(r) == {v \in uncounted : v[1] = r}

(* What the steps need to know of the tables.                                *)
LEMMA ReviewFacts ==
  ASSUME RowsInv
  PROVE  /\ reviews \in [ReviewId -> [user : Users, stars : Stars, helpful : Nat] \cup {NoReview}]
         /\ created \in 0..MaxReviews /\ calls \in [Calls -> Call]
         /\ votes \subseteq ReviewId \X Users /\ uncounted \subseteq votes
         /\ posted \subseteq ReviewId /\ \A r \in posted : r =< created
         /\ \A r \in ReviewId : r \in posted <=> reviews[r] # NoReview
         /\ \A r \in posted : reviews[r] \in [user : Users, stars : Stars, helpful : Nat]
         /\ \A c \in Calls : calls[c] \in Call /\ fits(calls[c], created)
         /\ IsFiniteSet(votes) /\ IsFiniteSet(uncounted)
         /\ \A r : IsFiniteSet(votesOn(r)) /\ IsFiniteSet(uncountedOn(r)) /\ IsFiniteSet(pending(r))
<1>1. /\ reviews \in [ReviewId -> [user : Users, stars : Stars, helpful : Nat] \cup {NoReview}]
      /\ created \in 0..MaxReviews /\ calls \in [Calls -> Call]
      /\ votes \subseteq ReviewId \X Users /\ uncounted \subseteq votes
      /\ \A c \in Calls : calls[c] \in Call /\ fits(calls[c], created)
      /\ IsFiniteSet(votes)
  BY DEF RowsInv, ReviewsTypeOK, CallsFit
<1>2. /\ posted \subseteq ReviewId /\ \A r \in ReviewId : r \in posted <=> reviews[r] # NoReview
      /\ \A r \in posted : reviews[r] \in [user : Users, stars : Stars, helpful : Nat]
  BY <1>1 DEF posted
<1>3. \A r \in posted : r =< created
  BY <1>1, <1>2 DEF RowsInv, RowsMatch, ReviewId
<1>4. IsFiniteSet(uncounted) /\ IsFiniteSet(Calls)
  BY <1>1, FS_Subset, ReviewsAssumption DEF ReviewsAssumption
<1>5. ASSUME NEW r PROVE IsFiniteSet(votesOn(r)) /\ IsFiniteSet(uncountedOn(r)) /\ IsFiniteSet(pending(r))
  <2>1. votesOn(r) \subseteq votes /\ uncountedOn(r) \subseteq uncounted /\ pending(r) \subseteq Calls
    BY DEF votesOn, uncountedOn, pending
  <2> QED
    BY <1>1, <1>4, <2>1, FS_Subset
<1> QED
  BY <1>1, <1>2, <1>3, <1>4, <1>5

(* The tables are sound at first.                                            *)
LEMMA RowsStart == ReviewsInit => RowsInv
<1> SUFFICES ASSUME ReviewsInit PROVE RowsInv
  OBVIOUS
<1>1. noCall \in Call /\ noCall.step = "idle" /\ noCall.id = 0 /\ fits(noCall, 0)
  BY DEF noCall, Call, Step, fits
<1>2. posted = {} /\ created = 0 /\ votes = {} /\ uncounted = {} /\ \A c \in Calls : calls[c] = noCall
  BY DEF ReviewsInit, posted
<1>3. ReviewsTypeOK
  <2>1. summary \in [Stars -> Nat \cup {-1}]
    BY DEF ReviewsInit, NotCached
  <2>2. created \in 0..MaxReviews
    BY <1>2, ReviewsAssumption DEF ReviewsAssumption
  <2>3. \A c \in Calls : calls[c].step \in Step /\ calls[c].id \in ReviewId \cup {0}
    BY <1>1, <1>2 DEF Step
  <2> QED
    BY <1>2, <2>1, <2>2, <2>3 DEF ReviewsInit, ReviewsTypeOK
<1>4. CallsFit /\ RowsMatch /\ VotesAlive
  BY <1>1, <1>2 DEF ReviewsInit, CallsFit, RowsMatch, VotesAlive, At
<1>5. IsFiniteSet(votes)
  BY <1>2, FS_EmptySet
<1>6. VotesCounted
  BY <1>2 DEF VotesCounted
<1> QED
  BY <1>3, <1>4, <1>5, <1>6 DEF RowsInv

(* A step of a call that is not about a vote, and changes no row.            *)
LEMMA QuietOK ==
  ASSUME RowsInv, NEW c \in Calls, NEW x \in Call, calls' = [calls EXCEPT ![c] = x],
         fits(x, created), ~At(c, "increment"), x.step # "increment", UNCHANGED reviewing,
         summary' \in [Stars -> Nat \cup {-1}], stale' \in BOOLEAN
  PROVE  RowsInv'
<1>1. UNCHANGED <<reviews, created, votes, uncounted>>
  BY DEF reviewing
<1>2. posted' = posted
  BY <1>1 DEF posted
<1>3. calls'[c] = x /\ \A d \in Calls \ {c} : calls'[d] = calls[d]
  BY ReviewFacts
<1>4. \A r : pending(r)' = pending(r)
  BY <1>3 DEF pending, At
<1>5. ReviewsTypeOK'
  BY <1>1, <1>3, ReviewFacts DEF RowsInv, ReviewsTypeOK, Call
<1>6. CallsFit' /\ RowsMatch' /\ VotesAlive'
  BY <1>1, <1>2, <1>3, ReviewFacts DEF RowsInv, CallsFit, RowsMatch, VotesAlive, At
<1>7. VotesCounted'
  BY <1>1, <1>2, <1>4 DEF RowsInv, VotesCounted
<1> QED
  BY <1>1, <1>5, <1>6, <1>7 DEF RowsInv

(* A review is inserted under a new id: it has no votes, and nobody is about *)
(* to count one.                                                             *)
LEMMA ReviewInsertOK ==
  ASSUME RowsInv, NEW c \in Calls, At(c, "insert"), unique(calls[c].user), created < MaxReviews,
         created' = created + 1,
         reviews' = [reviews EXCEPT ![created'] =
             [user |-> calls[c].user, stars |-> calls[c].value, helpful |-> 0]],
         Invalidating(c), UNCHANGED <<votes, uncounted, summary, stale>>
  PROVE  RowsInv'
<1> DEFINE x == [noCall EXCEPT !.step = "invalidate"]
<1>1. x \in Call /\ x.step = "invalidate" /\ x.id = 0
  BY DEF noCall, Call, Step
<1>2. calls'[c] = x /\ \A d \in Calls \ {c} : calls'[d] = calls[d]
  BY ReviewFacts DEF Invalidating
<1>3. PICK n \in ReviewId : n = created + 1
  BY ReviewFacts, ReviewsAssumption DEF ReviewId, ReviewsAssumption
<1>4. PICK w \in [user : Users, stars : Stars, helpful : Nat] :
        w = [user |-> calls[c].user, stars |-> calls[c].value, helpful |-> 0]
  BY ReviewFacts DEF fits, At
<1>5. w.user = calls[c].user /\ w.helpful = 0 /\ w # NoReview
  BY <1>4, ReviewsAssumption DEF NoReview, ReviewsAssumption
<1>6. /\ reviews'[n] = w /\ \A r \in ReviewId \ {n} : reviews'[r] = reviews[r]
      /\ reviews' \in [ReviewId -> [user : Users, stars : Stars, helpful : Nat] \cup {NoReview}]
  BY <1>3, <1>4, ReviewFacts
<1>7. n \notin posted /\ posted' = posted \cup {n}
  BY <1>3, <1>5, <1>6, ReviewFacts DEF posted, ReviewId
<1>8. \A r : pending(r)' = pending(r)
  <2>1. ~At(c, "increment") /\ ~At(c, "increment")'
    BY <1>1, <1>2 DEF At
  <2>2. \A d \in Calls \ {c} : (At(d, "increment")' <=> At(d, "increment")) /\ calls'[d].id = calls[d].id
    BY <1>2 DEF At
  <2> QED
    BY <2>1, <2>2, Zenon DEF pending
<1>9. pending(n) = {} /\ votesOn(n) = {} /\ uncountedOn(n) = {}
  BY <1>3, <1>7, ReviewFacts DEF pending, fits, At, votesOn, uncountedOn, RowsInv, RowsMatch, ReviewId, Call
<1>10. ReviewsTypeOK'
  <2>1. created' \in 0..MaxReviews
    BY ReviewFacts, ReviewsAssumption DEF ReviewsAssumption
  <2>2. \A d \in Calls : calls'[d].step \in Step /\ calls'[d].id \in ReviewId \cup {0}
    BY <1>1, <1>2, ReviewFacts DEF Call
  <2> QED
    BY <1>6, <2>1, <2>2, ReviewFacts DEF RowsInv, ReviewsTypeOK
<1>11. CallsFit'
  <2>1. calls' \in [Calls -> Call]
    BY <1>1, ReviewFacts DEF Invalidating
  <2>2. ASSUME NEW d \in Calls PROVE fits(calls'[d], created')
    <3>1. fits(x, created')
      BY <1>1, ReviewFacts DEF fits
    <3>2. d # c => fits(calls[d], created')
      BY ReviewFacts DEF fits, Call, ReviewId
    <3> QED
      BY <1>2, <3>1, <3>2
  <2> QED
    BY <2>1, <2>2 DEF CallsFit
<1>12. RowsMatch'
  BY <1>3, <1>6, <1>7, ReviewFacts DEF RowsInv, RowsMatch, ReviewId
<1>13. \A d \in Calls : At(d, "increment")' => d # c /\ At(d, "increment") /\ calls[d].id # n
  BY <1>1, <1>2, <1>9 DEF At, pending
<1>14. VotesAlive'
  BY <1>2, <1>7, <1>13 DEF RowsInv, VotesAlive, At
<1>15. VotesCounted'
  <2>1. \A r \in posted : reviews'[r] = reviews[r] /\ reviews[r].user # w.user
    BY <1>5, <1>6, <1>7, ReviewFacts DEF unique, reviewsOf
  <2>2. \A r, s \in posted' : reviews'[r].user = reviews'[s].user => r = s
    BY <1>6, <1>7, <2>1 DEF RowsInv, VotesCounted
  <2>3. ASSUME NEW r \in posted
        PROVE  reviews'[r].helpful + Cardinality(pending(r)') + Cardinality(uncountedOn(r)')
               = Cardinality(votesOn(r)')
    BY <1>8, <2>1 DEF RowsInv, VotesCounted, votesOn, uncountedOn
  <2>4. reviews'[n].helpful + Cardinality(pending(n)') + Cardinality(uncountedOn(n)')
        = Cardinality(votesOn(n)')
    <3>1. Cardinality({}) = 0
      BY FS_EmptySet
    <3>2. pending(n)' = {} /\ uncountedOn(n)' = {} /\ votesOn(n)' = {}
      BY <1>8, <1>9 DEF votesOn, uncountedOn
    <3> QED
      BY <1>5, <1>6, <3>1, <3>2
  <2>5. \A r \in posted' :
          reviews'[r].helpful + Cardinality(pending(r)') + Cardinality(uncountedOn(r)')
          = Cardinality(votesOn(r)')
    BY <1>7, <2>3, <2>4, Zenon
  <2> QED
    BY <2>2, <2>5, Zenon DEF VotesCounted, votesOn, uncountedOn
<1> QED
  BY <1>10, <1>11, <1>12, <1>14, <1>15, ReviewFacts DEF RowsInv

(* New stars for a review.                                                   *)
LEMMA ReviewUpdateOK ==
  ASSUME RowsInv, NEW c \in Calls, At(c, "update"), calls[c].id \in posted,
         reviews' = [reviews EXCEPT ![calls[c].id].stars = calls[c].value],
         Invalidating(c), UNCHANGED <<created, votes, uncounted, summary, stale>>
  PROVE  RowsInv'
<1> DEFINE x == [noCall EXCEPT !.step = "invalidate"]
<1>1. x \in Call /\ x.step = "invalidate" /\ x.id = 0
  BY DEF noCall, Call, Step
<1>2. calls'[c] = x /\ \A d \in Calls \ {c} : calls'[d] = calls[d]
  BY ReviewFacts DEF Invalidating
<1>3. PICK n \in posted : n = calls[c].id
  OBVIOUS
<1>4. calls[c].value \in Stars /\ n \in ReviewId
  BY <1>3, ReviewFacts DEF fits, At
<1>5. /\ reviews'[n] \in [user : Users, stars : Stars, helpful : Nat]
      /\ reviews'[n].user = reviews[n].user /\ reviews'[n].helpful = reviews[n].helpful
      /\ \A r \in ReviewId \ {n} : reviews'[r] = reviews[r]
  BY <1>3, <1>4, ReviewFacts
<1>6. reviews' \in [ReviewId -> [user : Users, stars : Stars, helpful : Nat] \cup {NoReview}]
  BY <1>3, <1>4, <1>5, ReviewFacts
<1>7. reviews'[n] # NoReview
  BY <1>5, ReviewsAssumption DEF NoReview, ReviewsAssumption
<1>8. posted' = posted
  BY <1>3, <1>4, <1>5, <1>7, ReviewFacts DEF posted
<1>9. \A r : pending(r)' = pending(r)
  BY <1>1, <1>2 DEF pending, At
<1>10. ReviewsTypeOK'
  BY <1>1, <1>2, <1>6, ReviewFacts DEF RowsInv, ReviewsTypeOK, Call
<1>11. CallsFit'
  <2>1. calls' \in [Calls -> Call]
    BY <1>1, ReviewFacts DEF Invalidating
  <2>2. fits(x, created)
    BY <1>1, ReviewFacts DEF fits
  <2> QED
    BY <1>2, <2>1, <2>2, ReviewFacts DEF CallsFit
<1>12. RowsMatch'
  BY <1>3, <1>4, <1>5, <1>8, ReviewFacts DEF RowsInv, RowsMatch, ReviewId
<1>13. VotesAlive'
  <2>1. \A d \in Calls : At(d, "increment")' => d # c /\ At(d, "increment")
    BY <1>1, <1>2 DEF At
  <2> QED
    BY <1>2, <1>8, <2>1 DEF RowsInv, VotesAlive, At
<1>14. VotesCounted'
  <2>1. \A r \in posted : reviews'[r].user = reviews[r].user /\ reviews'[r].helpful = reviews[r].helpful
    BY <1>5, ReviewFacts
  <2>2. \A r, s \in posted' : reviews'[r].user = reviews'[s].user => r = s
    BY <1>8, <2>1 DEF RowsInv, VotesCounted
  <2>3. ASSUME NEW r \in posted
        PROVE  reviews'[r].helpful + Cardinality(pending(r)') + Cardinality(uncountedOn(r)')
               = Cardinality(votesOn(r)')
    BY <1>9, <2>1 DEF RowsInv, VotesCounted, votesOn, uncountedOn
  <2> QED
    BY <1>8, <2>2, <2>3 DEF VotesCounted, votesOn, uncountedOn
<1> QED
  BY <1>10, <1>11, <1>12, <1>13, <1>14, ReviewFacts DEF RowsInv

(* A review goes, and its votes with it; whoever was about to count one of   *)
(* them finds no row to update.                                              *)
LEMMA ReviewDeleteOK ==
  ASSUME RowsInv, NEW c \in Calls, removeDeletes(c)
  PROVE  RowsInv'
<1> DEFINE x == [noCall EXCEPT !.step = "invalidate"]
<1>1. x \in Call /\ x.step = "invalidate" /\ x.id = 0
  BY DEF noCall, Call, Step
<1>2. calls'[c] = x /\ \A d \in Calls \ {c} : calls'[d] = calls[d]
  BY ReviewFacts DEF removeDeletes, Invalidating
<1>3. PICK n \in ReviewId : n = calls[c].id
  BY ReviewFacts DEF removeDeletes, fits, At
<1>4. /\ reviews'[n] = NoReview /\ \A r \in ReviewId \ {n} : reviews'[r] = reviews[r]
      /\ reviews' \in [ReviewId -> [user : Users, stars : Stars, helpful : Nat] \cup {NoReview}]
      /\ votes' = {v \in votes : v[1] # n} /\ uncounted' = {v \in uncounted : v[1] # n}
      /\ UNCHANGED <<created, summary, stale>>
  BY <1>3, ReviewFacts DEF removeDeletes
<1>5. posted' = posted \ {n}
  BY <1>3, <1>4, ReviewFacts DEF posted
<1>6. \A r : pending(r)' = pending(r)
  BY <1>1, <1>2 DEF pending, At, removeDeletes
<1>7. ReviewsTypeOK'
  BY <1>1, <1>2, <1>4, ReviewFacts DEF RowsInv, ReviewsTypeOK, Call
<1>8. CallsFit'
  <2>1. calls' \in [Calls -> Call]
    BY <1>1, ReviewFacts DEF removeDeletes, Invalidating
  <2>2. fits(x, created)
    BY <1>1, ReviewFacts DEF fits
  <2> QED
    BY <1>2, <1>4, <2>1, <2>2, ReviewFacts DEF CallsFit
<1>9. RowsMatch'
  BY <1>3, <1>4, <1>5, ReviewFacts DEF RowsInv, RowsMatch, ReviewId
<1>10. VotesAlive'
  <2>1. \A d \in Calls : At(d, "increment")' => d # c /\ At(d, "increment")
    BY <1>1, <1>2 DEF At
  <2>2. ASSUME NEW d \in Calls, At(d, "increment"), calls[d].id \in posted \ {n}
        PROVE  <<calls[d].id, calls[d].user>> \in votes' \ uncounted'
    <3>1. <<calls[d].id, calls[d].user>> \in votes \ uncounted
      BY <2>2 DEF RowsInv, VotesAlive
    <3> QED
      BY <1>4, <2>2, <3>1
  <2> QED
    BY <1>2, <1>5, <2>1, <2>2 DEF RowsInv, VotesAlive, At
<1>11. VotesCounted'
  <2>1. \A r, s \in posted' : reviews'[r].user = reviews'[s].user => r = s
    <3>1. \A r \in posted' : r \in posted /\ reviews'[r] = reviews[r]
      BY <1>4, <1>5, ReviewFacts
    <3> QED
      BY <3>1 DEF RowsInv, VotesCounted
  <2>2. ASSUME NEW r \in posted \ {n}
        PROVE  reviews'[r].helpful + Cardinality(pending(r)') + Cardinality(uncountedOn(r)')
               = Cardinality(votesOn(r)')
    <3>1. votesOn(r)' = votesOn(r) /\ uncountedOn(r)' = uncountedOn(r)
      BY <1>4, <2>2 DEF votesOn, uncountedOn
    <3>2. reviews'[r] = reviews[r]
      BY <1>4, <2>2, ReviewFacts
    <3> QED
      BY <1>6, <3>1, <3>2 DEF RowsInv, VotesCounted, votesOn, uncountedOn
  <2> QED
    BY <1>5, <2>1, <2>2 DEF VotesCounted, votesOn, uncountedOn
<1>12. IsFiniteSet(votes')
  BY <1>4, ReviewFacts, FS_Subset
<1> QED
  BY <1>7, <1>8, <1>9, <1>10, <1>11, <1>12 DEF RowsInv

(* A vote is inserted, and has yet to be counted.                            *)
LEMMA VoteInsertOK ==
  ASSUME RowsInv, NEW c \in Calls, NEW u \in Users, NEW id \in ReviewId, voteInserts(c, u, id)
  PROVE  RowsInv'
<1> DEFINE x == [step |-> "increment", user |-> u, id |-> id, value |-> 0]
<1>1. x \in Call /\ x.step = "increment" /\ x.id = id /\ x.user = u
  BY DEF Call, Step
<1>2. calls' = [calls EXCEPT ![c] = x] /\ ~At(c, "increment")
  BY DEF voteInserts, Starts, At
<1> HIDE DEF x
<1>3. calls'[c] = x /\ \A d \in Calls \ {c} : calls'[d] = calls[d]
  BY <1>2, ReviewFacts
<1>4. /\ id \in posted /\ <<id, u>> \notin votes /\ votes' = votes \cup {<<id, u>>}
      /\ UNCHANGED <<reviews, created, uncounted, summary, stale>>
  BY DEF voteInserts
<1>5. posted' = posted
  BY <1>4 DEF posted
<1>6. ReviewsTypeOK'
  BY <1>1, <1>3, <1>4, ReviewFacts DEF RowsInv, ReviewsTypeOK, Call
<1>7. CallsFit'
  <2>1. calls' \in [Calls -> Call]
    BY <1>1, <1>2, ReviewFacts
  <2>2. fits(x, created)
    BY <1>1, <1>4, ReviewFacts DEF fits
  <2> QED
    BY <1>3, <1>4, <2>1, <2>2, ReviewFacts DEF CallsFit
<1>8. RowsMatch'
  BY <1>4, <1>5 DEF RowsInv, RowsMatch
<1>9. VotesAlive'
  <2>1. ASSUME NEW d \in Calls, d # c, At(d, "increment"), calls[d].id = id PROVE calls[d].user # u
    <3>1. <<calls[d].id, calls[d].user>> \in votes
      BY <1>4, <2>1 DEF RowsInv, VotesAlive
    <3> QED
      BY <1>4, <2>1, <3>1
  <2>2. <<id, u>> \in votes' \ uncounted'
    BY <1>4, ReviewFacts
  <2>3. \A d \in Calls : At(d, "increment")' => d = c \/ At(d, "increment")
    BY <1>3 DEF At
  <2>4. ASSUME NEW d \in Calls, At(d, "increment")', calls'[d].id \in posted
        PROVE  <<calls'[d].id, calls'[d].user>> \in votes' \ uncounted'
    BY <1>1, <1>3, <1>4, <2>2, <2>3, <2>4 DEF RowsInv, VotesAlive
  <2>5. ASSUME NEW d \in Calls, NEW e \in Calls, At(d, "increment")', At(e, "increment")',
               calls'[d].id \in posted, calls'[d].id = calls'[e].id, calls'[d].user = calls'[e].user
        PROVE  d = e
    BY <1>1, <1>3, <2>1, <2>3, <2>5 DEF RowsInv, VotesAlive
  <2> QED
    BY <1>5, <2>4, <2>5 DEF VotesAlive
<1>10. VotesCounted'
  <2>1. ASSUME NEW r \in posted
        PROVE  reviews'[r].helpful + Cardinality(pending(r)') + Cardinality(uncountedOn(r)')
               = Cardinality(votesOn(r)')
    <3>1. reviews'[r] = reviews[r] /\ uncountedOn(r)' = uncountedOn(r)
      BY <1>4 DEF uncountedOn
    <3>2. CASE r # id
      <4>1. votesOn(r)' = votesOn(r) /\ pending(r)' = pending(r)
        BY <1>1, <1>2, <1>3, <1>4, <3>2 DEF votesOn, pending, At
      <4> QED
        BY <3>1, <4>1 DEF RowsInv, VotesCounted, votesOn, uncountedOn
    <3>3. CASE r = id
      <4>1. votesOn(r)' = votesOn(r) \cup {<<id, u>>} /\ <<id, u>> \notin votesOn(r)
        BY <1>4, <3>3 DEF votesOn
      <4>2. pending(r)' = pending(r) \cup {c} /\ c \notin pending(r)
        BY <1>1, <1>2, <1>3, <3>3 DEF pending, At
      <4>3. Cardinality(votesOn(r)') = Cardinality(votesOn(r)) + 1
        BY <4>1, FS_AddElement, ReviewFacts
      <4>4. Cardinality(pending(r)') = Cardinality(pending(r)) + 1
        BY <4>2, FS_AddElement, ReviewFacts
      <4>5. /\ Cardinality(votesOn(r)) \in Nat /\ Cardinality(pending(r)) \in Nat
            /\ Cardinality(uncountedOn(r)) \in Nat /\ reviews[r].helpful \in Nat
        BY FS_CardinalityType, ReviewFacts
      <4>6. reviews[r].helpful + Cardinality(pending(r)) + Cardinality(uncountedOn(r))
            = Cardinality(votesOn(r))
        BY DEF RowsInv, VotesCounted, votesOn, uncountedOn
      <4> QED
        BY <3>1, <4>3, <4>4, <4>5, <4>6
    <3> QED
      BY <3>2, <3>3
  <2>2. \A r, s \in posted' : reviews'[r].user = reviews'[s].user => r = s
    BY <1>4, <1>5 DEF RowsInv, VotesCounted
  <2> QED
    BY <1>5, <2>1, <2>2 DEF VotesCounted, votesOn, uncountedOn
<1>11. IsFiniteSet(votes')
  BY <1>4, ReviewFacts, FS_AddElement
<1> QED
  BY <1>6, <1>7, <1>8, <1>9, <1>10, <1>11 DEF RowsInv

(* The second statement of a vote runs, or fails.                            *)
LEMMA VoteEndOK ==
  ASSUME RowsInv, NEW c \in Calls, At(c, "increment"), voteIncrements(c) \/ fail(c)
  PROVE  RowsInv'
<1>1. noCall \in Call /\ noCall.step = "idle" /\ noCall.id = 0 /\ fits(noCall, created)
  BY ReviewFacts DEF noCall, Call, Step, fits
<1>2. calls' = [calls EXCEPT ![c] = noCall] /\ UNCHANGED <<created, votes, summary>>
  BY DEF voteIncrements, fail, Done
<1>3. calls'[c] = noCall /\ \A d \in Calls \ {c} : calls'[d] = calls[d]
  BY <1>2, ReviewFacts
<1>4. \A d \in Calls : At(d, "increment")' => d # c /\ At(d, "increment")
  BY <1>1, <1>3 DEF At
<1>5. PICK n \in ReviewId, u \in Users : n = calls[c].id /\ u = calls[c].user
  BY ReviewFacts DEF fits, At
<1>6. CallsFit'
  BY <1>1, <1>2, <1>3, ReviewFacts DEF CallsFit
<1>7. c \in pending(n) /\ pending(n)' = pending(n) \ {c} /\ \A r : r # n => pending(r)' = pending(r)
  BY <1>1, <1>3, <1>5 DEF pending, At
<1>8. stale' \in BOOLEAN
  BY DEF RowsInv, ReviewsTypeOK, voteIncrements, fail
<1>9. Cardinality(pending(n)') = Cardinality(pending(n)) - 1
  BY <1>7, FS_RemoveElement, ReviewFacts
<1>10. \A r \in posted : /\ Cardinality(votesOn(r)) \in Nat /\ Cardinality(pending(r)) \in Nat
                          /\ Cardinality(uncountedOn(r)) \in Nat /\ reviews[r].helpful \in Nat
  BY FS_CardinalityType, ReviewFacts
<1>11. \A r \in posted : reviews[r].helpful + Cardinality(pending(r)) + Cardinality(uncountedOn(r))
                          = Cardinality(votesOn(r))
  BY DEF RowsInv, VotesCounted, votesOn, uncountedOn
<1>12. ASSUME posted' = posted, uncounted' \subseteq votes,
              reviews' \in [ReviewId -> [user : Users, stars : Stars, helpful : Nat] \cup {NoReview}],
              \A r \in ReviewId : r \notin posted => reviews'[r] = reviews[r],
              \A r \in posted : reviews'[r].user = reviews[r].user,
              \A v \in uncounted' \ uncounted : v = <<n, u>>,
              \A r \in posted : r # n => reviews'[r].helpful = reviews[r].helpful,
              n \in posted => reviews'[n].helpful + Cardinality(uncountedOn(n)')
                             = reviews[n].helpful + Cardinality(uncountedOn(n)) + 1,
              n \in posted => reviews'[n].helpful \in Nat /\ Cardinality(uncountedOn(n)') \in Nat,
              \A r : r # n => uncountedOn(r)' = uncountedOn(r)
       PROVE  RowsInv'
  <2>1. ReviewsTypeOK'
    BY <1>1, <1>2, <1>3, <1>8, <1>12, ReviewFacts DEF RowsInv, ReviewsTypeOK, Call
  <2>2. RowsMatch'
    BY <1>2, <1>12, ReviewFacts DEF RowsInv, RowsMatch, ReviewId
  <2>3. VotesAlive'
    <3>1. ASSUME NEW d \in Calls, At(d, "increment")', calls'[d].id \in posted
          PROVE  <<calls'[d].id, calls'[d].user>> \in votes' \ uncounted'
      <4>1. /\ d # c /\ calls'[d] = calls[d] /\ <<calls[d].id, calls[d].user>> \in votes \ uncounted
            /\ ~(calls[d].id = n /\ calls[d].user = u)
        BY <1>3, <1>4, <1>5, <3>1 DEF RowsInv, VotesAlive
      <4> QED
        BY <1>2, <1>12, <4>1
    <3>2. ASSUME NEW d \in Calls, NEW e \in Calls, At(d, "increment")', At(e, "increment")',
                 calls'[d].id \in posted, calls'[d].id = calls'[e].id, calls'[d].user = calls'[e].user
          PROVE  d = e
      BY <1>3, <1>4, <3>2 DEF RowsInv, VotesAlive
    <3> QED
      BY <1>12, <3>1, <3>2 DEF VotesAlive
  <2>4. VotesCounted'
    <3>1. \A r, s \in posted' : reviews'[r].user = reviews'[s].user => r = s
      BY <1>12 DEF RowsInv, VotesCounted
    <3>2. \A r : votesOn(r)' = votesOn(r)
      BY <1>2 DEF votesOn
    <3>3. ASSUME NEW r \in posted
          PROVE  reviews'[r].helpful + Cardinality(pending(r)') + Cardinality(uncountedOn(r)')
                 = Cardinality(votesOn(r)')
      <4>1. CASE r # n
        <5>1. /\ pending(r)' = pending(r) /\ uncountedOn(r)' = uncountedOn(r)
              /\ votesOn(r)' = votesOn(r) /\ reviews'[r].helpful = reviews[r].helpful
          BY <1>7, <1>12, <3>2, <4>1
        <5> QED
          BY <1>11, <5>1
      <4>2. CASE r = n
        <5>1. /\ reviews[r].helpful + Cardinality(pending(r)) + Cardinality(uncountedOn(r))
                 = Cardinality(votesOn(r))
              /\ reviews'[r].helpful + Cardinality(uncountedOn(r)')
                 = reviews[r].helpful + Cardinality(uncountedOn(r)) + 1
              /\ Cardinality(pending(r)') = Cardinality(pending(r)) - 1 /\ votesOn(r)' = votesOn(r)
          BY <1>9, <1>11, <1>12, <3>2, <4>2
        <5>2. /\ Cardinality(pending(r)) \in Nat /\ Cardinality(uncountedOn(r)) \in Nat
              /\ reviews[r].helpful \in Nat /\ reviews'[r].helpful \in Nat
              /\ Cardinality(uncountedOn(r)') \in Nat
          BY <1>10, <1>12, <4>2
        <5> QED
          BY <5>1, <5>2
      <4> QED
        BY <4>1, <4>2
    <3> QED
      BY <1>12, <3>1, <3>3 DEF VotesCounted, votesOn, uncountedOn
  <2> QED
    BY <1>2, <1>6, <2>1, <2>2, <2>3, <2>4 DEF RowsInv
<1>13. CASE voteIncrements(c)
  <2>1. UNCHANGED uncounted /\ \A r : uncountedOn(r)' = uncountedOn(r)
    BY <1>13 DEF voteIncrements, uncountedOn
  <2>2. CASE n \in posted
    <3>1. reviews' = [reviews EXCEPT ![n].helpful = @ + 1]
      BY <1>5, <1>13, <2>2 DEF voteIncrements
    <3>2. /\ reviews'[n] \in [user : Users, stars : Stars, helpful : Nat]
          /\ reviews'[n].user = reviews[n].user /\ reviews'[n].helpful = reviews[n].helpful + 1
          /\ \A r \in ReviewId \ {n} : reviews'[r] = reviews[r]
      BY <2>2, <3>1, ReviewFacts
    <3>3. reviews' \in [ReviewId -> [user : Users, stars : Stars, helpful : Nat] \cup {NoReview}]
      BY <2>2, <3>1, <3>2, ReviewFacts
    <3>4. reviews'[n] # NoReview
      BY <3>2, ReviewsAssumption DEF NoReview, ReviewsAssumption
    <3>5. posted' = posted
      BY <2>2, <3>2, <3>4, ReviewFacts DEF posted
    <3>6. reviews'[n].helpful + Cardinality(uncountedOn(n)')
          = reviews[n].helpful + Cardinality(uncountedOn(n)) + 1
      BY <1>10, <2>1, <2>2, <3>2
    <3> QED
      BY <1>10, <1>12, <2>1, <2>2, <3>2, <3>3, <3>5, <3>6, ReviewFacts
  <2>3. CASE n \notin posted
    <3>1. UNCHANGED reviews
      BY <1>5, <1>13, <2>3 DEF voteIncrements
    <3>2. posted' = posted
      BY <3>1 DEF posted
    <3> QED
      BY <1>12, <2>1, <2>3, <3>1, <3>2, ReviewFacts
  <2> QED
    BY <2>2, <2>3
<1>14. CASE fail(c)
  <2>1. UNCHANGED reviews /\ posted' = posted /\ uncounted' = uncounted \cup ({<<n, u>>} \cap votes)
    BY <1>5, <1>14 DEF fail, posted
  <2>2. \A r : r # n => uncountedOn(r)' = uncountedOn(r)
    BY <2>1 DEF uncountedOn
  <2>3. n \in posted => /\ Cardinality(uncountedOn(n)') = Cardinality(uncountedOn(n)) + 1
                        /\ Cardinality(uncountedOn(n)') \in Nat
    <3> SUFFICES ASSUME n \in posted PROVE Cardinality(uncountedOn(n)') = Cardinality(uncountedOn(n)) + 1
      BY <1>10
    <3>1. <<n, u>> \in votes \ uncounted
      BY <1>5 DEF RowsInv, VotesAlive
    <3>2. uncountedOn(n)' = uncountedOn(n) \cup {<<n, u>>} /\ <<n, u>> \notin uncountedOn(n)
      BY <2>1, <3>1 DEF uncountedOn
    <3> QED
      BY <3>2, FS_AddElement, ReviewFacts
  <2>4. n \in posted => reviews'[n].helpful + Cardinality(uncountedOn(n)')
                        = reviews[n].helpful + Cardinality(uncountedOn(n)) + 1
    BY <1>10, <2>1, <2>3
  <2>5. uncounted' \subseteq votes /\ \A v \in uncounted' \ uncounted : v = <<n, u>>
    BY <2>1, ReviewFacts
  <2>6. n \in posted => reviews'[n].helpful \in Nat
    BY <1>10, <2>1
  <2> QED
    BY <1>12, <2>1, <2>2, <2>3, <2>4, <2>5, <2>6, ReviewFacts
<1> QED
  BY <1>13, <1>14

(* Steps that are not about a vote.                                          *)
LEMMA ReviewStepOK ==
  ASSUME RowsInv, NEW c \in Calls,
         \/ \E u \in Users, stars \in Stars :
              \/ createChecks(c, u, stars)
              \/ \E id \in 1..created : requireOwn(c, u, id, stars)
         \/ \E u \in Users, id \in 1..created : removeReads(c, u, id)
         \/ createInserts(c) \/ update(c)
         \/ invalidate(c) \/ summaryLoads(c) \/ summaryStores(c)
         \/ (fail(c) /\ ~At(c, "increment"))
  PROVE  RowsInv'
<1>1. /\ summary \in [Stars -> Nat \cup {-1}] /\ stale \in BOOLEAN /\ 1..created \subseteq ReviewId
      /\ created \in Nat
  BY ReviewFacts, ReviewsAssumption DEF RowsInv, ReviewsTypeOK, ReviewId, ReviewsAssumption
<1>2. noCall \in Call /\ noCall.step = "idle" /\ fits(noCall, created)
  BY <1>1 DEF noCall, Call, Step, fits
<1>3. NotCached \in [Stars -> Nat \cup {-1}]
  BY DEF NotCached
<1>4. ASSUME NEW step \in Step \ {"increment"}, NEW u \in Users \cup {"nobody"}, NEW id \in ReviewId \cup {0},
             NEW value \in Stars \cup {0} \cup [Stars -> Nat], Starts(c, step, u, id, value),
             fits([step |-> step, user |-> u, id |-> id, value |-> value], created),
             UNCHANGED <<reviewing, summary, stale>>
      PROVE  RowsInv'
  <2> DEFINE x == [step |-> step, user |-> u, id |-> id, value |-> value]
  <2>1. x \in Call /\ x.step # "increment" /\ calls' = [calls EXCEPT ![c] = x] /\ ~At(c, "increment")
    BY <1>4 DEF Call, Starts, At
  <2> HIDE DEF x
  <2> QED
    BY <1>1, <1>4, <2>1, QuietOK DEF x
<1>5. ASSUME Done(c), ~At(c, "increment"), UNCHANGED reviewing,
             summary' \in [Stars -> Nat \cup {-1}], stale' \in BOOLEAN
      PROVE  RowsInv'
  BY <1>2, <1>5, QuietOK DEF Done
<1>6. ASSUME NEW u \in Users, NEW stars \in Stars, createChecks(c, u, stars) PROVE RowsInv'
  <2>1. fits([step |-> "insert", user |-> u, id |-> 0, value |-> stars], created)
    BY <1>1 DEF fits
  <2> QED
    BY <1>4, <1>6, <2>1 DEF createChecks, Step
<1>7. ASSUME NEW u \in Users, NEW stars \in Stars, NEW id \in 1..created, requireOwn(c, u, id, stars)
      PROVE  RowsInv'
  <2>1. fits([step |-> "update", user |-> "nobody", id |-> id, value |-> stars], created)
    BY <1>1 DEF fits
  <2> QED
    BY <1>1, <1>4, <1>7, <2>1 DEF requireOwn, Step
<1>8. ASSUME NEW u \in Users, NEW id \in 1..created, removeReads(c, u, id) PROVE RowsInv'
  <2>1. fits([step |-> "delete", user |-> "nobody", id |-> id, value |-> 0], created)
    BY <1>1 DEF fits
  <2> QED
    BY <1>1, <1>4, <1>8, <2>1 DEF removeReads, Step
<1>9. CASE createInserts(c)
  <2>1. CASE unique(calls[c].user) /\ created < MaxReviews /\ Invalidating(c) /\ ~UNCHANGED created
    BY <1>9, <2>1, ReviewInsertOK DEF createInserts
  <2>2. CASE Done(c) /\ UNCHANGED <<reviews, created>>
    BY <1>1, <1>5, <1>9, <2>2 DEF createInserts, At, reviewing
  <2>3. created + 1 # created
    BY <1>1
  <2> QED
    BY <1>9, <2>1, <2>2, <2>3 DEF createInserts
<1>10. CASE update(c)
  <2>1. CASE calls[c].id \in posted
    BY <1>10, <2>1, ReviewUpdateOK DEF update
  <2>2. CASE calls[c].id \notin posted
    <3> DEFINE x == [noCall EXCEPT !.step = "invalidate"]
    <3>1. x \in Call /\ x.step = "invalidate" /\ fits(x, created)
      BY <1>1, <1>2 DEF noCall, Call, Step, fits
    <3>2. calls' = [calls EXCEPT ![c] = x] /\ ~At(c, "increment") /\ UNCHANGED <<reviewing, summary, stale>>
      BY <1>10, <2>2 DEF update, At, Invalidating, reviewing
    <3> HIDE DEF x
    <3> QED
      BY <1>1, <3>1, <3>2, QuietOK
  <2> QED
    BY <2>1, <2>2
<1>11. CASE invalidate(c)
  BY <1>3, <1>5, <1>11 DEF invalidate, At
<1>12. CASE summaryLoads(c)
  <2>1. distribution \in [Stars -> Nat]
    <3>1. ASSUME NEW s \in Stars PROVE Cardinality({r \in posted : reviews[r].stars = s}) \in Nat
      <4>1. {r \in posted : reviews[r].stars = s} \subseteq 1..MaxReviews
        BY ReviewFacts DEF ReviewId
      <4>2. IsFiniteSet(1..MaxReviews)
        BY FS_Interval, ReviewsAssumption DEF ReviewsAssumption
      <4> QED
        BY <4>1, <4>2, FS_Subset, FS_CardinalityType
    <3> QED
      BY <3>1 DEF distribution
  <2>2. fits([step |-> "store", user |-> "nobody", id |-> 0, value |-> distribution], created)
    BY <1>1, <2>1 DEF fits
  <2> QED
    BY <1>4, <1>12, <2>1, <2>2 DEF summaryLoads, Step
<1>13. CASE summaryStores(c)
  <2>1. calls[c].value \in [Stars -> Nat \cup {-1}]
    BY <1>13, ReviewFacts DEF summaryStores, At, fits
  <2> QED
    BY <1>5, <1>13, <2>1 DEF summaryStores, At
<1>14. CASE fail(c) /\ ~At(c, "increment")
  BY <1>1, <1>5, <1>14 DEF fail, reviewing
<1> QED
  BY <1>6, <1>7, <1>8, <1>9, <1>10, <1>11, <1>12, <1>13, <1>14

(* Every step keeps the tables sound.                                        *)
LEMMA NextRows == RowsInv /\ [ReviewsNext]_reviewVars => RowsInv'
<1> SUFFICES ASSUME RowsInv, [ReviewsNext]_reviewVars PROVE RowsInv'
  OBVIOUS
<1>1. CASE UNCHANGED reviewing /\ UNCHANGED calls /\ summary' \in [Stars -> Nat \cup {-1}] /\ stale' \in BOOLEAN
  <2>1. UNCHANGED <<reviews, created, votes, uncounted, calls>>
    BY <1>1 DEF reviewing
  <2>2. posted' = posted /\ \A r : pending(r)' = pending(r)
    BY <2>1 DEF posted, pending, At
  <2> QED
    BY <1>1, <2>1, <2>2 DEF RowsInv, ReviewsTypeOK, CallsFit, RowsMatch, VotesAlive, VotesCounted, At
<1>2. CASE UNCHANGED reviewVars \/ summaryExpires
  <2>1. NotCached \in [Stars -> Nat \cup {-1}]
    BY DEF NotCached
  <2> QED
    BY <1>1, <1>2, <2>1 DEF reviewVars, summaryExpires, RowsInv, ReviewsTypeOK, reviewing
<1>3. ASSUME NEW c \in Calls, NEW u \in Users, NEW id \in 1..created, voteInserts(c, u, id) PROVE RowsInv'
  <2>1. id \in ReviewId
    BY <1>3, ReviewFacts DEF voteInserts
  <2> QED
    BY <1>3, <2>1, VoteInsertOK
<1>4. ASSUME NEW c \in Calls, removeDeletes(c) \/ voteIncrements(c) \/ (fail(c) /\ At(c, "increment"))
      PROVE  RowsInv'
  BY <1>4, ReviewDeleteOK, VoteEndOK DEF voteIncrements
<1> QED
  BY <1>2, <1>3, <1>4, ReviewStepOK DEF ReviewsNext

(* The cached summary: a change of the rows it counts is followed by an      *)
(* invalidation, or marks it as stale.                                       *)
LEMMA NextSummary ==
  RowsInv /\ SummaryTrue /\ [ReviewsNext]_reviewVars => SummaryTrue'
<1> SUFFICES ASSUME RowsInv, SummaryTrue, [ReviewsNext]_reviewVars PROVE SummaryTrue'
  OBVIOUS
<1>1. ASSUME UNCHANGED reviews PROVE distribution' = distribution
  BY <1>1 DEF distribution, posted
<1>2. ASSUME NEW c \in Calls, Invalidating(c) PROVE SummaryTrue'
  <2>1. calls'[c].step = "invalidate"
    BY <1>2, ReviewFacts DEF Invalidating, noCall
  <2> QED
    BY <2>1 DEF SummaryTrue, At
<1>3. ASSUME NEW c \in Calls, NEW x, calls' = [calls EXCEPT ![c] = x], ~At(c, "invalidate"),
             UNCHANGED <<summary, stale>>, distribution' = distribution
      PROVE  SummaryTrue'
  <2>1. \A d \in Calls : At(d, "invalidate") => At(d, "invalidate")'
    BY <1>3, ReviewFacts DEF At
  <2> QED
    BY <1>3, <2>1 DEF SummaryTrue
<1>4. CASE UNCHANGED reviewVars
  BY <1>1, <1>4 DEF reviewVars, SummaryTrue, At
<1>5. CASE summaryExpires
  BY <1>5 DEF summaryExpires, SummaryTrue
<1>6. ASSUME NEW c \in Calls, createInserts(c) \/ update(c) \/ removeDeletes(c) PROVE SummaryTrue'
  <2>1. CASE Invalidating(c)
    BY <1>2, <2>1
  <2>2. CASE ~Invalidating(c)
    BY <1>1, <1>3, <1>6, <2>2 DEF createInserts, update, removeDeletes, Done, At
  <2> QED
    BY <2>1, <2>2
<1>7. ASSUME NEW c \in Calls, NEW u \in Users, NEW stars \in Stars,
             createChecks(c, u, stars) \/ \E id \in 1..created : requireOwn(c, u, id, stars)
      PROVE  SummaryTrue'
  BY <1>1, <1>3, <1>7 DEF createChecks, requireOwn, Starts, At, reviewing
<1>8. ASSUME NEW c \in Calls, NEW u \in Users, NEW id \in 1..created,
             removeReads(c, u, id) \/ voteInserts(c, u, id)
      PROVE  SummaryTrue'
  BY <1>1, <1>3, <1>8 DEF removeReads, voteInserts, Starts, At, reviewing
<1>9. ASSUME NEW c \in Calls, voteIncrements(c) PROVE SummaryTrue'
  <2>1. distribution' = distribution
    <3>1. CASE calls[c].id \notin posted
      BY <1>1, <1>9, <3>1 DEF voteIncrements
    <3>2. CASE calls[c].id \in posted
      <4>1. PICK n \in posted : n = calls[c].id /\ n \in ReviewId
        BY <3>2, ReviewFacts
      <4>2. reviews' = [reviews EXCEPT ![n].helpful = @ + 1]
        BY <1>9, <4>1 DEF voteIncrements
      <4>3. /\ reviews'[n].user = reviews[n].user /\ reviews'[n].stars = reviews[n].stars
            /\ reviews[n].user \in Users /\ \A r \in ReviewId \ {n} : reviews'[r] = reviews[r]
        BY <4>1, <4>2, ReviewFacts
      <4>4. posted' = posted
        <5>1. reviews'[n] # NoReview
          BY <4>3, ReviewsAssumption DEF NoReview, ReviewsAssumption
        <5> QED
          BY <4>1, <4>3, <5>1, ReviewFacts DEF posted
      <4>5. \A r \in posted : reviews'[r].stars = reviews[r].stars
        BY <4>3, ReviewFacts
      <4>6. ASSUME NEW s \in Stars
            PROVE  {r \in posted' : reviews'[r].stars = s} = {r \in posted : reviews[r].stars = s}
        BY <4>4, <4>5
      <4> QED
        BY <4>6 DEF distribution
    <3> QED
      BY <3>1, <3>2
  <2> QED
    BY <1>3, <1>9, <2>1 DEF voteIncrements, Done, At
<1>10. ASSUME NEW c \in Calls, invalidate(c) PROVE SummaryTrue'
  BY <1>10 DEF invalidate, SummaryTrue
<1>11. ASSUME NEW c \in Calls, summaryLoads(c) PROVE SummaryTrue'
  BY <1>11 DEF summaryLoads, SummaryTrue
<1>12. ASSUME NEW c \in Calls, summaryStores(c) PROVE SummaryTrue'
  <2>1. distribution' = distribution
    BY <1>1, <1>12 DEF summaryStores, reviewing
  <2>2. summary' = calls[c].value /\ stale' = (calls[c].value # distribution)
    BY <1>12 DEF summaryStores
  <2> QED
    BY <2>1, <2>2 DEF SummaryTrue
<1>13. ASSUME NEW c \in Calls, fail(c) PROVE SummaryTrue'
  <2>1. CASE At(c, "invalidate")
    BY <1>1, <1>13, <2>1 DEF fail, SummaryTrue
  <2>2. CASE ~At(c, "invalidate")
    <3>1. stale' = stale
      BY <1>13, <2>2 DEF fail, RowsInv, ReviewsTypeOK
    <3> QED
      BY <1>1, <1>3, <1>13, <2>2, <3>1 DEF fail, Done
  <2> QED
    BY <2>1, <2>2
<1> QED
  BY <1>4, <1>5, <1>6, <1>7, <1>8, <1>9, <1>10, <1>11, <1>12, <1>13 DEF ReviewsNext

(* For any number of users, reviews and requests that overlap statement by   *)
(* statement and may fail between two: a user has one review of the API; a   *)
(* review's counter is the number of users who voted for it, short of the    *)
(* votes yet to be counted or whose count failed; and the summary that is    *)
(* served counts the reviews there are, unless it is about to be invalidated *)
(* or a writer failed or overtook its load (reviews/service.ts).             *)
THEOREM ReviewsAreSound == AccountsSpec => []ReviewsSound
<1>1. AccountsInit => RowsInv /\ SummaryTrue
  BY RowsStart DEF AccountsInit, ReviewsInit, SummaryTrue
<1>2. ASSUME RowsInv /\ SummaryTrue,
             [AccountsNext]_<<sessionVars, limitVars, reviewVars, moderationVars, libraryVars, subject>>
      PROVE  (RowsInv /\ SummaryTrue)'
  <2>1. [ReviewsNext]_reviewVars
    BY <1>2, ComponentSteps
  <2> QED
    BY <1>2, <2>1, NextRows, NextSummary
<1>3. RowsInv /\ SummaryTrue => ReviewsSound
  BY DEF RowsInv, ReviewsSound
<1> QED
  BY <1>1, <1>2, <1>3, PTL DEF AccountsSpec

-----------------------------------------------------------------------------
(* Moderation                                                                *)

Entry == [from : Statuses, to : Statuses] \cup {job}
Action ==
  [step : {"none", "select", "update", "add", "audit"},
   from : Statuses \cup {"none", "job"}, to : Statuses \cup {"none", "job"}]

(* A change of the status that was made and has no entry yet.                *)
untold(r) == at(r, "audit") /\ request[r].from # "job"

(* What a request carries at each of its steps.                              *)
ActionsFit ==
  /\ request \in [Requests -> Action] /\ auditLog \in Seq(Entry) /\ jobs =< changes
  /\ \A r \in Requests :
       /\ at(r, "select") => request[r].to \in Statuses
       /\ at(r, "update") \/ untold(r) => request[r].from \in Statuses /\ request[r].to \in Statuses
       /\ at(r, "audit") /\ ~untold(r) => request[r].to = "job"

(* The last change of the status that is in the log.                         *)
lastTold(k) == auditLog[k] # job /\ \A i \in (k + 1)..Len(auditLog) : auditLog[i] = job

(* One change at a time, and the log is one change behind at most.           *)
Chained ==
  /\ \A q, r \in Requests : (at(q, "update") \/ untold(q)) /\ (at(r, "update") \/ untold(r)) => q = r
  /\ \A r \in Requests : at(r, "update") => request[r].from = status
  /\ \A r \in Requests : untold(r) => request[r].to = status
  /\ \A k \in DOMAIN auditLog : lastTold(k) =>
       /\ (\A r \in Requests : ~untold(r)) => auditLog[k].to = status
       /\ \A r \in Requests : untold(r) => auditLog[k].to = request[r].from

auditing == {r \in Requests : at(r, "audit")}

ModerationInv ==
  /\ ModerationTypeOK /\ ActionsFit /\ AuditTells
  /\ ~overlapped /\ unaudited = 0 => Chained

(* The invariant holds at first.                                             *)
LEMMA ModerationStart == ModerationInit => ModerationInv
<1> SUFFICES ASSUME ModerationInit PROVE ModerationInv
  OBVIOUS
<1>1. noRequest \in Action /\ noRequest.step = "none"
  BY DEF noRequest, Action
<1>2. \A r \in Requests : request[r] = noRequest /\ ~at(r, "audit") /\ ~at(r, "update") /\ ~at(r, "select")
  BY <1>1 DEF ModerationInit, at
<1>3. auditLog \in Seq(Entry) /\ Len(auditLog) = 0 /\ DOMAIN auditLog = {}
  BY DEF ModerationInit
<1>4. ModerationTypeOK
  <2>1. jobs \in 0..MaxAudits /\ changes \in 0..MaxAudits /\ unaudited \in 0..MaxAudits
    BY ModerationAssumption DEF ModerationInit, ModerationAssumption
  <2>2. overlapped \in BOOLEAN /\ status \in Statuses
    BY DEF ModerationInit
  <2>3. \A r \in Requests : request[r].step \in {"none", "select", "update", "add", "audit"}
    BY <1>1, <1>2
  <2> QED
    BY <1>3, <2>1, <2>2, <2>3 DEF ModerationTypeOK
<1>5. ActionsFit
  BY <1>1, <1>2 DEF ModerationInit, ActionsFit, untold
<1>6. Chained
  BY <1>2, <1>3 DEF ModerationInit, Chained, untold
<1>7. AuditTells
  <2>1. auditing = {} /\ Cardinality(auditing) = 0
    BY <1>2, FS_EmptySet DEF auditing
  <2> QED
    <3>1. Len(auditLog) = 0 /\ unaudited = 0 /\ changes = 0
      BY <1>3 DEF ModerationInit
    <3>2. Len(auditLog) + unaudited = changes - Cardinality(auditing)
      BY <2>1, <3>1
    <3>3. \A k, l \in DOMAIN auditLog : follows(k, l) => auditLog[k].to = auditLog[l].from
      BY <1>3
    <3> QED
      BY <3>2, <3>3 DEF AuditTells, auditing
<1> QED
  BY <1>4, <1>5, <1>6, <1>7 DEF ModerationInv

(* Types that the steps need.                                                *)
LEMMA ModerationFacts ==
  ASSUME ModerationInv
  PROVE  /\ status \in Statuses /\ jobs \in Nat /\ changes \in 0..MaxAudits /\ unaudited \in Nat
         /\ auditLog \in Seq(Entry) /\ overlapped \in BOOLEAN /\ request \in [Requests -> Action]
         /\ MaxAudits \in Nat /\ IsFiniteSet(auditing) /\ Cardinality(auditing) \in Nat
         /\ Len(auditLog) \in Nat /\ Len(auditLog) + unaudited + Cardinality(auditing) = changes
<1>1. /\ status \in Statuses /\ jobs \in Nat /\ changes \in 0..MaxAudits /\ unaudited \in Nat
      /\ auditLog \in Seq(Entry) /\ overlapped \in BOOLEAN /\ request \in [Requests -> Action]
      /\ MaxAudits \in Nat /\ Len(auditLog) \in Nat
  BY ModerationAssumption DEF ModerationInv, ModerationTypeOK, ActionsFit, ModerationAssumption
<1>2. IsFiniteSet(auditing) /\ Cardinality(auditing) \in Nat
  BY FS_Subset, FS_CardinalityType, ModerationAssumption DEF auditing, ModerationAssumption
<1>3. Len(auditLog) + unaudited = changes - Cardinality(auditing)
  BY DEF ModerationInv, AuditTells, auditing
<1> QED
  BY <1>1, <1>2, <1>3

(* Steps up to the change itself, and failures before it.                    *)
LEMMA BeforeChangeOK ==
  ASSUME ModerationInv, NEW r \in Requests, NEW x \in Action, becomes(r, x), ~at(r, "audit"),
         UNCHANGED <<status, jobs, auditLog, changes, unaudited>>, overlapped' \in BOOLEAN,
         overlapped => overlapped',
         \/ x.step \in {"none", "add"} \/ (x.step = "select" /\ x.to \in Statuses)
         \/ /\ x.step = "update" /\ x.from = status /\ x.to \in Statuses
            /\ ~overlapped' => \A q \in Requests : ~at(q, "update") /\ ~at(q, "audit")
  PROVE  ModerationInv'
<1>1. request'[r] = x /\ (\A q \in Requests \ {r} : request'[q] = request[q]) /\ request' \in [Requests -> Action]
  BY ModerationFacts DEF becomes
<1>2. /\ \A q \in Requests : (at(q, "audit")' <=> at(q, "audit")) /\ (untold(q)' <=> untold(q))
      /\ \A q \in Requests : at(q, "audit") => q # r
      /\ \A q \in Requests \ {r} : at(q, "update")' <=> at(q, "update")
  BY <1>1 DEF at, untold
<1>3. ModerationTypeOK'
  BY <1>1 DEF ModerationInv, ModerationTypeOK, Action
<1>4. ActionsFit'
  <2>1. ActionsFit
    BY DEF ModerationInv
  <2>2. ASSUME NEW q \in Requests \ {r}
        PROVE  /\ at(q, "select")' => request'[q].to \in Statuses
               /\ at(q, "update")' \/ untold(q)' => request'[q].from \in Statuses /\ request'[q].to \in Statuses
               /\ at(q, "audit")' /\ ~untold(q)' => request'[q].to = "job"
    BY <1>1, <2>1 DEF ActionsFit, at, untold
  <2>3. /\ at(r, "select")' => request'[r].to \in Statuses
        /\ at(r, "update")' \/ untold(r)' => request'[r].from \in Statuses /\ request'[r].to \in Statuses
        /\ ~at(r, "audit")'
    BY <1>1, ModerationFacts DEF at, untold
  <2> QED
    BY <1>1, <2>1, <2>2, <2>3 DEF ActionsFit
<1>5. AuditTells'
  <2>1. {q \in Requests : at(q, "audit")}' = {q \in Requests : at(q, "audit")}
    BY <1>2
  <2>2. AuditTells /\ (~overlapped' => ~overlapped)
    BY DEF ModerationInv
  <2>3. \A k, l : follows(k, l)' <=> follows(k, l)
    BY DEF follows
  <2> QED
    BY <2>1, <2>2, <2>3 DEF AuditTells
<1>6. ASSUME ~overlapped', unaudited' = 0 PROVE Chained'
  <2>1. Chained
    BY <1>6 DEF ModerationInv
  <2>2. at(r, "update")' => request'[r].from = status /\ \A q \in Requests : ~untold(q) /\ ~at(q, "update")
    BY <1>1, <1>6 DEF at, untold
  <2>3. \A q, p \in Requests : (at(q, "update")' \/ untold(q)') /\ (at(p, "update")' \/ untold(p)') => q = p
    BY <1>2, <2>1, <2>2 DEF Chained
  <2>4. \A q \in Requests : at(q, "update")' => request'[q].from = status'
    BY <1>1, <1>2, <2>1, <2>2 DEF Chained
  <2>5. \A q \in Requests : untold(q)' => untold(q) /\ request'[q] = request[q]
    BY <1>1, <1>2 DEF untold
  <2>6. \A q \in Requests : untold(q)' => request'[q].to = status'
    BY <2>1, <2>5 DEF Chained
  <2>7. ASSUME NEW k \in DOMAIN auditLog, lastTold(k)
        PROVE  /\ (\A q \in Requests : ~untold(q)') => auditLog[k].to = status
               /\ \A q \in Requests : untold(q)' => auditLog[k].to = request'[q].from
    BY <1>2, <2>1, <2>5, <2>7 DEF Chained
  <2> QED
    BY <2>3, <2>4, <2>6, <2>7 DEF Chained, lastTold
<1> QED
  BY <1>3, <1>4, <1>5, <1>6 DEF ModerationInv

(* The change itself: of the status, or a job for the worker.                *)
LEMMA ChangeOK ==
  ASSUME ModerationInv, NEW r \in Requests, updateStatus(r) \/ addJob(r)
  PROVE  ModerationInv'
<1>1. PICK x \in Action :
        /\ request' = [request EXCEPT ![r] = x] /\ x.step = "audit"
        /\ \/ /\ at(r, "update") /\ x.from = request[r].from /\ x.to = request[r].to /\ x.from # "job"
              /\ x.from \in Statuses /\ x.to \in Statuses /\ status' = x.to /\ jobs' = jobs
           \/ at(r, "add") /\ x.from = "job" /\ x.to = "job" /\ status' = status /\ jobs' = jobs + 1
  <2>1. CASE updateStatus(r)
    <3>1. request[r] \in Action /\ request[r].from \in Statuses /\ request[r].to \in Statuses
      BY <2>1, ModerationFacts DEF updateStatus, ModerationInv, ActionsFit
    <3>2. /\ [request[r] EXCEPT !.step = "audit"] \in Action
          /\ [request[r] EXCEPT !.step = "audit"].step = "audit"
          /\ [request[r] EXCEPT !.step = "audit"].from = request[r].from
          /\ [request[r] EXCEPT !.step = "audit"].to = request[r].to
      BY <3>1 DEF Action
    <3> QED
      BY <2>1, <3>1, <3>2, ModerationAssumption DEF updateStatus, becomes, ModerationAssumption
  <2>2. CASE addJob(r)
    <3>1. [step |-> "audit", from |-> "job", to |-> "job"] \in Action
      BY DEF Action
    <3> QED
      BY <2>2, <3>1 DEF addJob, becomes
  <2> QED
    BY <2>1, <2>2
<1>2. /\ changes' = changes + 1 /\ changes < MaxAudits /\ UNCHANGED <<auditLog, unaudited, overlapped>>
      /\ status' \in Statuses
  BY <1>1, ModerationFacts DEF updateStatus, addJob
<1>3. request'[r] = x /\ (\A q \in Requests \ {r} : request'[q] = request[q]) /\ request' \in [Requests -> Action]
  BY <1>1, ModerationFacts
<1>4. ModerationTypeOK'
  <2>1. jobs' \in 0..MaxAudits /\ changes' \in 0..MaxAudits /\ jobs' =< changes'
    BY <1>1, <1>2, ModerationFacts DEF ModerationInv, ActionsFit
  <2>2. \A q \in Requests : request'[q].step \in {"none", "select", "update", "add", "audit"}
    BY <1>3 DEF Action
  <2> QED
    BY <1>2, <2>1, <2>2 DEF ModerationInv, ModerationTypeOK
<1>5. ActionsFit'
  <2>1. jobs' =< changes'
    BY <1>1, <1>2, ModerationFacts DEF ModerationInv, ActionsFit
  <2>2. ASSUME NEW q \in Requests \ {r}
        PROVE  /\ at(q, "select")' => request'[q].to \in Statuses
               /\ at(q, "update")' \/ untold(q)' => request'[q].from \in Statuses /\ request'[q].to \in Statuses
               /\ at(q, "audit")' /\ ~untold(q)' => request'[q].to = "job"
    BY <1>3 DEF ModerationInv, ActionsFit, at, untold
  <2>3. /\ ~at(r, "select")' /\ ~at(r, "update")'
        /\ untold(r)' => request'[r].from \in Statuses /\ request'[r].to \in Statuses
        /\ ~untold(r)' => request'[r].to = "job"
    BY <1>1, <1>3 DEF at, untold
  <2> QED
    BY <1>2, <1>3, <2>1, <2>2, <2>3 DEF ModerationInv, ActionsFit
<1>6. AuditTells'
  <2>1. auditing' = auditing \cup {r} /\ r \notin auditing
    BY <1>1, <1>3 DEF auditing, at
  <2>2. Cardinality(auditing') = Cardinality(auditing) + 1
    BY <2>1, FS_AddElement, ModerationFacts
  <2>3. Len(auditLog)' + unaudited' = changes' - Cardinality(auditing')
    BY <1>2, <2>2, ModerationFacts
  <2> QED
    BY <1>2, <2>3 DEF ModerationInv, AuditTells, auditing, follows
<1>7. ASSUME ~overlapped', unaudited' = 0 PROVE Chained'
  <2>1. Chained
    BY <1>2, <1>7 DEF ModerationInv
  <2>2. CASE at(r, "add")
    <3>1. /\ \A q \in Requests : untold(q)' <=> untold(q)
          /\ \A q \in Requests : at(q, "update")' <=> at(q, "update")
          /\ \A q \in Requests : at(q, "update") \/ untold(q) => request'[q] = request[q]
          /\ status' = status
      BY <1>1, <1>3, <2>2 DEF at, untold
    <3> QED
      BY <1>2, <2>1, <3>1 DEF Chained, lastTold
  <2>3. CASE at(r, "update")
    <3>1. /\ \A q \in Requests : untold(q)' <=> q = r
          /\ \A q \in Requests : ~at(q, "update")'
          /\ \A q \in Requests : ~untold(q)
      BY <1>1, <1>3, <2>1, <2>3 DEF Chained, at, untold
    <3>2. request'[r].to = status' /\ request'[r].from = status
      BY <1>1, <1>3, <2>1, <2>3 DEF Chained, at
    <3>3. \A k \in DOMAIN auditLog : lastTold(k) => auditLog[k].to = status
      BY <2>1, <3>1 DEF Chained
    <3> QED
      BY <1>2, <3>1, <3>2, <3>3 DEF Chained, lastTold
  <2> QED
    BY <1>1, <2>2, <2>3
<1> QED
  BY <1>4, <1>5, <1>6, <1>7 DEF ModerationInv

(* The entry is written, or cannot be.                                       *)
LEMMA AuditOK ==
  ASSUME ModerationInv, NEW r \in Requests, at(r, "audit"), audit(r) \/ rejects(r)
  PROVE  ModerationInv'
<1>1. noRequest \in Action /\ noRequest.step = "none"
  BY DEF noRequest, Action
<1>2. /\ request' = [request EXCEPT ![r] = noRequest]
      /\ UNCHANGED <<status, jobs, changes, overlapped>>
  BY DEF audit, rejects, becomes
<1>3. /\ request'[r] = noRequest /\ \A q \in Requests \ {r} : request'[q] = request[q]
      /\ request' \in [Requests -> Action]
  BY <1>1, <1>2, ModerationFacts
<1>4. auditing' = auditing \ {r} /\ r \in auditing
  BY <1>1, <1>3 DEF auditing, at
<1>5. Cardinality(auditing') = Cardinality(auditing) - 1 /\ Cardinality(auditing') \in Nat
  <2>1. IsFiniteSet(auditing') /\ Cardinality(auditing') = Cardinality(auditing) - 1
    BY <1>4, FS_RemoveElement, ModerationFacts
  <2> QED
    BY <2>1, FS_CardinalityType
<1>6. PICK e \in Entry : /\ e = [from |-> request[r].from, to |-> request[r].to]
                         /\ untold(r) <=> e # job
  <2>1. request[r].from \in Statuses \cup {"none", "job"}
    BY ModerationFacts DEF Action
  <2>2. CASE untold(r)
    <3>1. request[r].from \in Statuses /\ request[r].to \in Statuses
      BY <2>2 DEF ModerationInv, ActionsFit
    <3>2. [from |-> request[r].from, to |-> request[r].to] # job
      BY <3>1, ModerationAssumption DEF job, ModerationAssumption
    <3> QED
      BY <2>2, <3>1, <3>2 DEF Entry
  <2>3. CASE ~untold(r)
    BY <2>3 DEF ModerationInv, ActionsFit, untold, job, Entry
  <2> QED
    BY <2>2, <2>3
<1>7. auditLog' \in Seq(Entry) /\ Len(auditLog') + unaudited' = Len(auditLog) + unaudited + 1
      /\ unaudited' \in Nat
  <2>1. CASE audit(r)
    BY <1>6, <2>1, ModerationFacts DEF audit
  <2>2. CASE rejects(r)
    <3>1. auditLog' = auditLog /\ unaudited' = unaudited + 1
      BY <2>2 DEF rejects
    <3> QED
      BY <3>1, ModerationFacts
  <2> QED
    BY <2>1, <2>2
<1>8. ModerationTypeOK'
  <2>1. Len(auditLog') \in Nat /\ \A k \in DOMAIN auditLog' : auditLog'[k] \in Entry
    BY <1>7
  <2>2. unaudited' \in 0..MaxAudits
    BY <1>5, <1>7, <2>1, ModerationFacts
  <2>3. \A q \in Requests : request'[q].step \in {"none", "select", "update", "add", "audit"}
    BY <1>3 DEF Action
  <2> QED
    BY <1>2, <2>1, <2>2, <2>3 DEF ModerationInv, ModerationTypeOK, Entry
<1>9. ActionsFit'
  BY <1>1, <1>2, <1>3, <1>7 DEF ModerationInv, ActionsFit, at, untold
<1>10. Len(auditLog)' + unaudited' = changes' - Cardinality(auditing')
  BY <1>2, <1>5, <1>7, ModerationFacts
<1>11. CASE unaudited' # 0
  BY <1>8, <1>9, <1>10, <1>11 DEF ModerationInv, AuditTells, auditing
<1>12. CASE overlapped'
  BY <1>8, <1>9, <1>10, <1>12 DEF ModerationInv, AuditTells, auditing
<1>13. CASE unaudited' = 0 /\ ~overlapped'
  <2>1. /\ audit(r) /\ auditLog' = Append(auditLog, e) /\ unaudited = 0 /\ ~overlapped
    BY <1>2, <1>6, <1>13, ModerationFacts DEF audit, rejects
  <2>2. PICK n \in Nat : n = Len(auditLog)
    BY ModerationFacts
  <2>3. /\ Len(auditLog') = n + 1 /\ DOMAIN auditLog' = 1..(n + 1) /\ DOMAIN auditLog = 1..n
        /\ auditLog'[n + 1] = e /\ \A k \in 1..n : auditLog'[k] = auditLog[k]
    BY <2>1, <2>2, ModerationFacts
  <2>4. Chained /\ \A k, l \in 1..n : follows(k, l) => auditLog[k].to = auditLog[l].from
    BY <2>1, <2>3 DEF ModerationInv, AuditTells
  <2>5. \A k \in 1..n : lastTold(k) <=>
          auditLog'[k] # job /\ \A i \in (k + 1)..n : auditLog'[i] = job
    BY <2>2, <2>3 DEF lastTold
  <2>6. \A q \in Requests : untold(q)' => untold(q) /\ q # r /\ request'[q] = request[q]
    BY <1>1, <1>3 DEF untold, at
  <2>7. \A q \in Requests : at(q, "update")' => at(q, "update") /\ request'[q] = request[q]
    BY <1>1, <1>3 DEF at
  <2>8. untold(r) => e.from = request[r].from /\ e.to = status /\ \A q \in Requests : ~untold(q)'
    BY <1>6, <2>4, <2>6 DEF Chained
  <2>9. AuditTells'
    <3>1. ASSUME NEW k \in 1..(n + 1), NEW l \in 1..(n + 1), follows(k, l)'
          PROVE  auditLog'[k].to = auditLog'[l].from
      <4>1. k < l /\ k \in 1..n /\ auditLog'[k] # job /\ auditLog'[l] # job
            /\ \A i \in (k + 1)..(l - 1) : auditLog'[i] = job
        BY <2>2, <3>1 DEF follows
      <4>2. CASE l \in 1..n
        <5>1. follows(k, l)
          BY <2>3, <4>1, <4>2 DEF follows
        <5> QED
          BY <2>3, <2>4, <4>1, <4>2, <5>1
      <4>3. CASE l = n + 1
        <5>1. lastTold(k) /\ untold(r)
          BY <1>6, <2>2, <2>3, <2>5, <4>1, <4>3
        <5> QED
          BY <2>3, <2>4, <2>8, <4>1, <4>3, <5>1 DEF Chained
      <4> QED
        BY <2>2, <4>2, <4>3
    <3> QED
      BY <1>10, <2>3, <3>1 DEF AuditTells, auditing
  <2>10. Chained'
    <3>1. \A q, p \in Requests : (at(q, "update")' \/ untold(q)') /\ (at(p, "update")' \/ untold(p)') => q = p
      BY <2>4, <2>6, <2>7 DEF Chained
    <3>2. \A q \in Requests : at(q, "update")' => request'[q].from = status'
      BY <1>2, <2>4, <2>7 DEF Chained
    <3>3. \A q \in Requests : untold(q)' => request'[q].to = status'
      BY <1>2, <2>4, <2>6 DEF Chained
    <3>4. ASSUME NEW k \in 1..(n + 1), lastTold(k)'
          PROVE  /\ (\A q \in Requests : ~untold(q)') => auditLog'[k].to = status
                 /\ \A q \in Requests : untold(q)' => auditLog'[k].to = request'[q].from
      <4>1. auditLog'[k] # job /\ \A i \in (k + 1)..(n + 1) : auditLog'[i] = job
        BY <2>3, <3>4 DEF lastTold
      <4>2. CASE k = n + 1
        BY <1>6, <2>3, <2>8, <4>1, <4>2
      <4>3. CASE k \in 1..n
        <5>1. e = job /\ lastTold(k) /\ ~untold(r)
          BY <1>6, <2>2, <2>3, <2>5, <4>1, <4>3
        <5>2. \A q \in Requests : untold(q) => untold(q)'
          BY <1>3, <5>1 DEF untold, at
        <5> QED
          BY <2>3, <2>4, <2>6, <4>3, <5>1, <5>2 DEF Chained
      <4> QED
        BY <2>2, <4>2, <4>3
    <3> QED
      BY <1>2, <2>3, <3>1, <3>2, <3>3, <3>4 DEF Chained
  <2> QED
    BY <1>8, <1>9, <2>9, <2>10 DEF ModerationInv
<1> QED
  BY <1>11, <1>12, <1>13

(* Every step keeps the invariant.                                           *)
LEMMA NextModeration == ModerationInv /\ [ModerationNext]_moderationVars => ModerationInv'
<1> SUFFICES ASSUME ModerationInv, [ModerationNext]_moderationVars PROVE ModerationInv'
  OBVIOUS
<1>1. CASE UNCHANGED moderationVars
  BY <1>1 DEF moderationVars, ModerationInv, ModerationTypeOK, ActionsFit, AuditTells, Chained,
              at, untold, follows, lastTold
<1>2. ASSUME NEW r \in Requests, NEW role \in Roles, NEW to \in Statuses \cup {"job"},
             requireRole(r, role, to)
      PROVE  ModerationInv'
  <2>1. CASE to \in Statuses
    <3>1. [step |-> "select", from |-> "none", to |-> to] \in Action
      BY <2>1 DEF Action
    <3> QED
      BY <1>2, <2>1, <3>1, BeforeChangeOK, ModerationFacts DEF requireRole, at
  <2>2. CASE to \notin Statuses
    <3>1. [step |-> "add", from |-> "none", to |-> "none"] \in Action
      BY DEF Action
    <3> QED
      BY <1>2, <2>2, <3>1, BeforeChangeOK, ModerationFacts DEF requireRole, at
  <2> QED
    BY <2>1, <2>2
<1>3. ASSUME NEW r \in Requests, selectStatus(r) PROVE ModerationInv'
  <2> DEFINE x == [request[r] EXCEPT !.step = "update", !.from = status]
  <2>1. request[r] \in Action /\ request[r].to \in Statuses
    BY <1>3, ModerationFacts DEF selectStatus, ModerationInv, ActionsFit
  <2>2. x \in Action /\ x.step = "update" /\ x.from = status /\ x.to \in Statuses
    BY <2>1, ModerationFacts DEF Action
  <2>3. becomes(r, x) /\ ~at(r, "audit") /\ UNCHANGED <<status, jobs, auditLog, changes, unaudited>>
    BY <1>3 DEF selectStatus, at
  <2>4. /\ overlapped' \in BOOLEAN /\ (overlapped => overlapped')
        /\ ~overlapped' => \A q \in Requests : ~at(q, "update") /\ ~at(q, "audit")
    BY <1>3 DEF selectStatus
  <2> HIDE DEF x
  <2> QED
    BY <2>2, <2>3, <2>4, BeforeChangeOK
<1>4. ASSUME NEW r \in Requests, ~at(r, "audit"), rejects(r) PROVE ModerationInv'
  <2>1. noRequest \in Action /\ noRequest.step = "none"
    BY DEF noRequest, Action
  <2> QED
    BY <1>4, <2>1, BeforeChangeOK, ModerationFacts DEF rejects
<1> QED
  BY <1>1, <1>2, <1>3, <1>4, ChangeOK, AuditOK DEF ModerationNext, audit

(* For any number of staff, requests and statuses: every privileged action   *)
(* that took effect has one entry in the audit log, unless its entry is      *)
(* about to be written or failed; and unless changes overlap, or an entry    *)
(* failed, each change begins where the one before it in the log ended       *)
(* (admin/service.ts).                                                       *)
THEOREM ModerationIsSound == AccountsSpec => []ModerationSound
<1>1. AccountsInit => ModerationInv
  BY ModerationStart DEF AccountsInit
<1>2. ASSUME ModerationInv,
             [AccountsNext]_<<sessionVars, limitVars, reviewVars, moderationVars, libraryVars, subject>>
      PROVE  ModerationInv'
  BY <1>2, ComponentSteps, NextModeration
<1>3. ModerationInv => ModerationSound
  BY DEF ModerationInv, ModerationSound
<1> QED
  BY <1>1, <1>2, <1>3, PTL DEF AccountsSpec

-----------------------------------------------------------------------------
(* Library                                                                   *)

(* What a click may carry along: a suffix, a list, or an API.                *)
Carried == (0..(MaxCollections + 1)) \cup (SUBSET CollectionId) \cup Apis

Click ==
  [op : Ops \cup {"none"}, step : {"none", "first", "second", "refresh", "answer"},
   id : 0..MaxCollections, arg : Carried]

(* What a click carries at each of its steps, of n ids generated so far.  A  *)
(* suffix beyond the bound is found only when all below it are taken.        *)
clickFits(x, n) ==
  /\ x.op = "none" <=> x.step = "none"
  /\ x.op \in {"favorite", "unfavorite"} => x.step \in {"first", "answer"}
  /\ x.op \in {"create", "remove"} => x.step \in {"first", "second", "answer"}
  /\ x.op = "create" /\ x.step = "second" =>
       x.arg \in 1..(MaxCollections + 1) /\ (x.arg = MaxCollections + 1 => n = MaxCollections)
  /\ x.op = "create" /\ x.step = "answer" => x.id \in CollectionId
  /\ x.op = "remove" => x.id \in CollectionId /\ x.arg \in SUBSET CollectionId
  /\ x.op \in {"addItem", "removeItem"} => x.id \in CollectionId /\ x.arg \in Apis

ClicksFit == clickState \in [Clicks -> Click] /\ \A c \in Clicks : clickFits(clickState[c], made)

(* A collection that is not there has no items, and counts none.             *)
ItemsKept ==
  /\ kept \subseteq 1..made
  /\ \A x \in items : x[1] \in kept
  /\ \A i \in CollectionId \ kept : itemCount[i] = 0

ShelfInv == LibraryTypeOK /\ ClicksFit /\ ItemsKept /\ CountMatches

itemsIn(i) == {x \in items : x[1] = i}

(* What the steps need to know of the tables.                                *)
LEMMA ShelfFacts ==
  ASSUME ShelfInv
  PROVE  /\ favorite \in BOOLEAN /\ heart \in BOOLEAN /\ MaxCollections \in Nat
         /\ slugs \in [CollectionId -> 0..MaxCollections] /\ made \in 0..MaxCollections
         /\ items \subseteq CollectionId \X Apis /\ itemCount \in [CollectionId -> 0..Cardinality(Apis)]
         /\ listed \subseteq CollectionId /\ clickState \in [Clicks -> Click]
         /\ \A c \in Clicks : clickState[c] \in Click /\ clickFits(clickState[c], made)
         /\ miscounted \subseteq CollectionId /\ clean \subseteq {"heart", "list"}
         /\ kept \subseteq CollectionId /\ \A i \in CollectionId : i \in kept <=> slugs[i] # 0
  BY LibraryAssumption DEF ShelfInv, LibraryTypeOK, ClicksFit, LibraryAssumption, kept

(* A collection has no more items than there are APIs.                       *)
LEMMA ItemsBounded ==
  ASSUME items \subseteq CollectionId \X Apis, NEW i
  PROVE  Cardinality(itemsIn(i)) \in 0..Cardinality(Apis)
<1> DEFINE f == [x \in itemsIn(i) |-> x[2]]
<1>1. \A x \in itemsIn(i) : x = <<i, x[2]>> /\ x[2] \in Apis
  BY DEF itemsIn
<1>2. f \in Injection(itemsIn(i), Apis)
  BY <1>1 DEF Injection, IsInjective
<1>3. IsFiniteSet(itemsIn(i)) /\ Cardinality(itemsIn(i)) <= Cardinality(Apis)
  BY <1>2, FS_Injection, LibraryAssumption DEF LibraryAssumption
<1>4. Cardinality(itemsIn(i)) \in Nat /\ Cardinality(Apis) \in Nat
  BY <1>3, FS_CardinalityType, LibraryAssumption DEF LibraryAssumption
<1> QED
  BY <1>3, <1>4

(* uniqueSlug() finds a suffix within the bound unless every id is used up.  *)
LEMMA SuffixesSuffice ==
  ASSUME ShelfInv, \A k \in 1..MaxCollections : k \in {slugs[i] : i \in kept}
  PROVE  made = MaxCollections
<1> DEFINE f == [i \in kept |-> slugs[i]]
<1>1. f \in Surjection(kept, 1..MaxCollections)
  <2>1. \A i \in kept : slugs[i] \in 1..MaxCollections
    BY ShelfFacts
  <2>2. \A k \in 1..MaxCollections : \E i \in kept : slugs[i] = k
    OBVIOUS
  <2> QED
    BY <2>1, <2>2 DEF Surjection
<1>2. /\ made \in Nat /\ MaxCollections \in Nat /\ made =< MaxCollections
      /\ IsFiniteSet(1..made) /\ Cardinality(1..made) = made
      /\ Cardinality(1..MaxCollections) = MaxCollections
  <2>1. made \in Nat /\ MaxCollections \in Nat /\ made =< MaxCollections
    BY ShelfFacts
  <2>2. ASSUME NEW n \in Nat PROVE IsFiniteSet(1..n) /\ Cardinality(1..n) = n
    <3>1. IsFiniteSet(1..n) /\ Cardinality(1..n) = IF 1 > n THEN 0 ELSE n - 1 + 1
      BY FS_Interval
    <3> QED
      BY <3>1
  <2> QED
    BY <2>1, <2>2
<1>3. kept \in SUBSET (1..made)
  BY DEF ShelfInv, ItemsKept
<1>4. IsFiniteSet(kept) /\ Cardinality(kept) <= made
  <2>1. IsFiniteSet(kept) /\ Cardinality(kept) <= Cardinality(1..made)
    BY <1>2, <1>3, FS_Subset
  <2> QED
    BY <1>2, <2>1
<1>5. MaxCollections <= Cardinality(kept)
  BY <1>1, <1>2, <1>4, FS_Surjection
<1>6. Cardinality(kept) \in Nat
  BY <1>4, FS_CardinalityType
<1> QED
  BY <1>2, <1>4, <1>5, <1>6

(* The tables are sound at first.                                            *)
LEMMA ShelfStart == LibraryInit => ShelfInv
<1> SUFFICES ASSUME LibraryInit PROVE ShelfInv
  OBVIOUS
<1>1. noClick \in Click /\ clickFits(noClick, 0) /\ noClick.op = "none" /\ noClick.id = 0
  BY LibraryAssumption DEF noClick, Click, Carried, clickFits, LibraryAssumption
<1>2. kept = {} /\ items = {} /\ made = 0 /\ \A c \in Clicks : clickState[c] = noClick
  BY DEF LibraryInit, kept
<1>3. LibraryTypeOK
  <2>1. Cardinality(Apis) \in Nat
    BY FS_CardinalityType, LibraryAssumption DEF LibraryAssumption
  <2>2. itemCount \in [CollectionId -> 0..Cardinality(Apis)]
    BY <2>1 DEF LibraryInit
  <2>3. slugs \in [CollectionId -> 0..MaxCollections] /\ made \in 0..MaxCollections
    BY LibraryAssumption DEF LibraryInit, LibraryAssumption
  <2>4. heart \in BOOLEAN /\ favorite \in BOOLEAN
    BY DEF LibraryInit
  <2>5. \A c \in Clicks : clickState[c].op \in Ops \cup {"none"} /\ clickState[c].id \in 0..MaxCollections
    BY <1>1, <1>2, LibraryAssumption DEF LibraryAssumption
  <2> QED
    BY <1>2, <2>2, <2>3, <2>4, <2>5 DEF LibraryInit, LibraryTypeOK
<1>4. ClicksFit
  BY <1>1, <1>2 DEF LibraryInit, ClicksFit
<1>5. ItemsKept
  BY <1>2 DEF LibraryInit, ItemsKept
<1>6. CountMatches
  BY <1>2 DEF CountMatches
<1> QED
  BY <1>3, <1>4, <1>5, <1>6 DEF ShelfInv

(* Steps that change no collection, and no click that has yet to refresh a   *)
(* count.                                                                    *)
LEMMA ShelfStays ==
  ASSUME ShelfInv, UNCHANGED <<slugs, made, items, itemCount, miscounted>>,
         favorite' \in BOOLEAN, heart' \in BOOLEAN,
         listed' \subseteq CollectionId, clean' \subseteq {"heart", "list"},
         clickState' \in [Clicks -> Click], \A c \in Clicks : clickFits(clickState'[c], made),
         \A c \in Clicks : clickState[c].step = "refresh" => clickState'[c] = clickState[c]
  PROVE  ShelfInv'
<1>1. kept' = kept
  BY DEF kept
<1>2. LibraryTypeOK'
  BY DEF ShelfInv, LibraryTypeOK, Click
<1>3. ClicksFit' /\ ItemsKept'
  BY <1>1 DEF ShelfInv, ClicksFit, ItemsKept
<1>4. CountMatches'
  <2>1. ASSUME NEW i \in kept \ miscounted, \A c \in Clicks : clickState'[c].step # "refresh" \/ clickState'[c].id # i
        PROVE  itemCount[i] = Cardinality({x \in items : x[1] = i})
    <3>1. \A c \in Clicks : clickState[c].step # "refresh" \/ clickState[c].id # i
      BY <2>1
    <3> QED
      BY <3>1 DEF ShelfInv, CountMatches
  <2>2. \A i, j \in kept : slugs[i] = slugs[j] => i = j
    BY DEF ShelfInv, CountMatches
  <2> QED
    BY <1>1, <2>1, <2>2 DEF CountMatches
<1> QED
  BY <1>2, <1>3, <1>4 DEF ShelfInv

(* The same for one click.                                                   *)
LEMMA ClickMoves ==
  ASSUME ShelfInv, UNCHANGED <<slugs, made, items, itemCount, miscounted>>,
         favorite' \in BOOLEAN, heart' \in BOOLEAN,
         listed' \subseteq CollectionId, clean' \subseteq {"heart", "list"},
         NEW c \in Clicks, NEW x \in Click, clickState' = [clickState EXCEPT ![c] = x],
         clickFits(x, made), clickState[c].step # "refresh"
  PROVE  ShelfInv'
<1>1. /\ clickState' \in [Clicks -> Click] /\ clickState'[c] = x
      /\ \A d \in Clicks \ {c} : clickState'[d] = clickState[d]
  BY ShelfFacts
<1> QED
  BY <1>1, ShelfStays, ShelfFacts

(* A collection is created under a new id.                                   *)
LEMMA CollectionInsertOK ==
  ASSUME ShelfInv, NEW c \in Clicks, insertsCollection(c), made' # made
  PROVE  ShelfInv'
<1>1. /\ slugFree(clickState[c].arg) /\ made < MaxCollections /\ made' = made + 1
      /\ slugs' = [slugs EXCEPT ![made'] = clickState[c].arg]
      /\ clickState' = [clickState EXCEPT ![c].step = "answer", ![c].id = made']
      /\ UNCHANGED <<heart, listed, favorite, items, itemCount, miscounted, clean>>
      /\ clickState[c].op = "create" /\ clickState[c].step = "second"
  BY DEF insertsCollection
<1>2. PICK n \in CollectionId : n = made + 1
  BY <1>1, ShelfFacts DEF CollectionId
<1>3. PICK m \in 1..MaxCollections : m = clickState[c].arg
  BY <1>1, ShelfFacts DEF clickFits
<1>4. PICK x \in Click : /\ x = [clickState[c] EXCEPT !.step = "answer", !.id = n]
                         /\ x.op = "create" /\ x.step = "answer" /\ x.id = n
  <2> DEFINE y == [clickState[c] EXCEPT !.step = "answer", !.id = n]
  <2>1. clickState[c] \in Click /\ n \in 0..MaxCollections
    BY <1>2, ShelfFacts DEF CollectionId
  <2>2. y \in Click /\ y.op = "create" /\ y.step = "answer" /\ y.id = n
    BY <1>1, <2>1 DEF Click
  <2> QED
    BY <2>2
<1>5. /\ clickState' \in [Clicks -> Click] /\ clickState'[c] = x
      /\ \A d \in Clicks \ {c} : clickState'[d] = clickState[d]
  BY <1>1, <1>2, <1>4, ShelfFacts
<1>6. /\ slugs' \in [CollectionId -> 0..MaxCollections] /\ slugs'[n] = m
      /\ \A i \in CollectionId \ {n} : slugs'[i] = slugs[i]
  BY <1>1, <1>2, <1>3, ShelfFacts
<1>7. n \notin kept /\ kept' = kept \cup {n}
  <2>1. n \notin kept
    BY <1>2, ShelfFacts DEF ShelfInv, ItemsKept
  <2>2. \A i \in CollectionId : slugs'[i] # 0 <=> i \in kept \/ i = n
    BY <1>3, <1>6, ShelfFacts
  <2> QED
    BY <1>2, <2>1, <2>2, ShelfFacts DEF kept
<1>8. LibraryTypeOK'
  <2>1. made' \in 0..MaxCollections
    BY <1>1, ShelfFacts
  <2>2. \A d \in Clicks : clickState'[d].op \in Ops \cup {"none"} /\ clickState'[d].id \in 0..MaxCollections
    BY <1>5 DEF Click
  <2> QED
    BY <1>1, <1>6, <2>1, <2>2 DEF ShelfInv, LibraryTypeOK
<1>9. ClicksFit'
  <2>1. ASSUME NEW d \in Clicks \ {c} PROVE clickFits(clickState'[d], made')
    <3>1. clickFits(clickState[d], made) /\ made # MaxCollections
      BY <1>1, ShelfFacts
    <3> QED
      BY <1>5, <3>1 DEF clickFits
  <2>2. clickFits(clickState'[c], made')
    BY <1>4, <1>5 DEF clickFits
  <2> QED
    BY <1>5, <2>1, <2>2 DEF ClicksFit
<1>10. ItemsKept'
  <2>1. kept' \subseteq 1..made'
    BY <1>1, <1>2, <1>7, ShelfFacts DEF ShelfInv, ItemsKept
  <2> QED
    BY <1>1, <1>7, <2>1 DEF ShelfInv, ItemsKept
<1>11. CountMatches'
  <2>1. ASSUME NEW i \in kept \ miscounted, \A d \in Clicks : clickState'[d].step # "refresh" \/ clickState'[d].id # i
        PROVE  itemCount[i] = Cardinality({y \in items : y[1] = i})
    <3>1. \A d \in Clicks : clickState[d].step # "refresh" \/ clickState[d].id # i
      BY <1>1, <1>5, <2>1
    <3> QED
      BY <3>1 DEF ShelfInv, CountMatches
  <2>2. itemCount[n] = Cardinality({y \in items : y[1] = n})
    <3>1. {y \in items : y[1] = n} = {} /\ itemCount[n] = 0
      BY <1>7 DEF ShelfInv, ItemsKept
    <3> QED
      BY <3>1, FS_EmptySet
  <2>3. \A i, j \in kept' : slugs'[i] = slugs'[j] => i = j
    <3>1. \A i \in kept : slugs'[i] = slugs[i] /\ slugs[i] # m
      BY <1>1, <1>3, <1>6, <1>7, ShelfFacts DEF slugFree
    <3> QED
      BY <1>6, <1>7, <3>1 DEF ShelfInv, CountMatches
  <2>4. ASSUME NEW i \in kept' \ miscounted',
               \A d \in Clicks : clickState'[d].step # "refresh" \/ clickState'[d].id # i
        PROVE  itemCount'[i] = Cardinality({y \in items' : y[1] = i})
    <3>1. i = n \/ i \in kept \ miscounted
      BY <1>1, <1>7
    <3> QED
      BY <1>1, <2>1, <2>2, <2>4, <3>1
  <2> QED
    BY <2>3, <2>4, Zenon DEF CountMatches
<1> QED
  BY <1>8, <1>9, <1>10, <1>11 DEF ShelfInv

(* A click goes on while the rows of one collection change.                  *)
LEMMA StepsFit ==
  ASSUME ShelfInv, NEW c \in Clicks, NEW step \in {"refresh", "answer"},
         clickState' = [clickState EXCEPT ![c].step = step],
         \/ clickState[c].op \in {"addItem", "removeItem"}
         \/ clickState[c].op = "remove" /\ step = "answer"
  PROVE  /\ clickState' \in [Clicks -> Click] /\ \A d \in Clicks : clickFits(clickState'[d], made)
         /\ clickState'[c].step = step /\ clickState'[c].id = clickState[c].id
         /\ clickState'[c].op = clickState[c].op /\ clickState'[c].arg = clickState[c].arg
         /\ \A d \in Clicks \ {c} : clickState'[d] = clickState[d]
<1>1. PICK x \in Click : /\ x = [clickState[c] EXCEPT !.step = step]
                         /\ x.step = step /\ x.id = clickState[c].id /\ x.op = clickState[c].op
                         /\ x.arg = clickState[c].arg
  <2> DEFINE y == [clickState[c] EXCEPT !.step = step]
  <2>1. clickState[c] \in Click
    BY ShelfFacts
  <2>2. /\ y \in Click /\ y.step = step /\ y.id = clickState[c].id /\ y.op = clickState[c].op
        /\ y.arg = clickState[c].arg
    BY <2>1 DEF Click
  <2> QED
    BY <2>2
<1>2. /\ clickState' \in [Clicks -> Click] /\ clickState'[c] = x
      /\ \A d \in Clicks \ {c} : clickState'[d] = clickState[d]
  BY <1>1, ShelfFacts
<1>3. clickFits(x, made)
  <2>1. clickFits(clickState[c], made)
    BY ShelfFacts
  <2> QED
    BY <1>1, <2>1 DEF clickFits
<1> QED
  BY <1>1, <1>2, <1>3, ShelfFacts

(* A collection goes, and its items with it.                                 *)
LEMMA CollectionDeleteOK ==
  ASSUME ShelfInv, NEW c \in Clicks, deletesCollection(c)
  PROVE  ShelfInv'
<1>1. PICK n \in CollectionId : n = clickState[c].id
  BY ShelfFacts DEF deletesCollection, clickFits
<1>2. /\ slugs' = [slugs EXCEPT ![n] = 0] /\ items' = {x \in items : x[1] # n}
      /\ itemCount' = [itemCount EXCEPT ![n] = 0] /\ miscounted' = miscounted \ {n}
      /\ clickState' = [clickState EXCEPT ![c].step = "answer"]
      /\ UNCHANGED <<favorite, made, heart, listed, clean>>
      /\ clickState[c].op = "remove" /\ clickState[c].step = "second"
  BY <1>1 DEF deletesCollection, Advances, Page
<1>3. /\ clickState' \in [Clicks -> Click] /\ \A d \in Clicks : clickFits(clickState'[d], made)
      /\ clickState'[c].step = "answer"
      /\ \A d \in Clicks \ {c} : clickState'[d] = clickState[d]
  BY <1>2, StepsFit
<1>4. /\ slugs' \in [CollectionId -> 0..MaxCollections] /\ slugs'[n] = 0
      /\ \A i \in CollectionId \ {n} : slugs'[i] = slugs[i]
  BY <1>2, ShelfFacts
<1>5. kept' = kept \ {n}
  BY <1>4, ShelfFacts DEF kept
<1>6. /\ itemCount' \in [CollectionId -> 0..Cardinality(Apis)] /\ itemCount'[n] = 0
      /\ \A i \in CollectionId \ {n} : itemCount'[i] = itemCount[i]
  <2>1. Cardinality(Apis) \in Nat
    BY FS_CardinalityType, LibraryAssumption DEF LibraryAssumption
  <2> QED
    BY <1>2, <2>1, ShelfFacts
<1>7. LibraryTypeOK'
  BY <1>2, <1>3, <1>4, <1>6 DEF ShelfInv, LibraryTypeOK, Click
<1>8. ClicksFit'
  BY <1>2, <1>3 DEF ClicksFit
<1>9. ItemsKept'
  BY <1>2, <1>5, <1>6 DEF ShelfInv, ItemsKept
<1>10. CountMatches'
  <2>1. ASSUME NEW i \in kept \ miscounted, i # n,
               \A d \in Clicks : clickState'[d].step # "refresh" \/ clickState'[d].id # i
        PROVE  itemCount'[i] = Cardinality({y \in items' : y[1] = i})
    <3>1. \A d \in Clicks : clickState[d].step # "refresh" \/ clickState[d].id # i
      BY <1>2, <1>3, <2>1
    <3>2. {y \in items' : y[1] = i} = {y \in items : y[1] = i} /\ itemCount'[i] = itemCount[i]
      BY <1>2, <1>6, <2>1, ShelfFacts
    <3> QED
      BY <3>1, <3>2 DEF ShelfInv, CountMatches
  <2>2. \A i, j \in kept' : slugs'[i] = slugs'[j] => i = j
    <3>1. \A i \in kept' : i \in kept /\ slugs'[i] = slugs[i]
      BY <1>4, <1>5, ShelfFacts
    <3> QED
      BY <3>1 DEF ShelfInv, CountMatches
  <2> QED
    BY <1>2, <1>5, <2>1, <2>2 DEF CountMatches
<1> QED
  BY <1>7, <1>8, <1>9, <1>10 DEF ShelfInv

(* An item comes or goes: its collection's count is to be refreshed.         *)
LEMMA ItemOK ==
  ASSUME ShelfInv, NEW c \in Clicks, changeItem(c), ~Refused(c)
  PROVE  ShelfInv'
<1>1. PICK n \in CollectionId, a \in Apis : n = clickState[c].id /\ a = clickState[c].arg
  BY ShelfFacts DEF changeItem, clickFits
<1>2. /\ clickState[c].op = "removeItem" \/ n \in kept
      /\ items' = IF clickState[c].op = "addItem" THEN items \cup {<<n, a>>} ELSE items \ {<<n, a>>}
      /\ clickState' = [clickState EXCEPT ![c].step = "refresh"]
      /\ UNCHANGED <<heart, listed, favorite, slugs, made, itemCount, miscounted, clean>>
      /\ clickState[c].op \in {"addItem", "removeItem"} /\ clickState[c].step = "second"
  BY <1>1 DEF changeItem, Advances
<1>3. /\ clickState' \in [Clicks -> Click] /\ \A d \in Clicks : clickFits(clickState'[d], made)
      /\ clickState'[c].step = "refresh" /\ clickState'[c].id = n
      /\ \A d \in Clicks \ {c} : clickState'[d] = clickState[d]
  BY <1>1, <1>2, StepsFit
<1>4. kept' = kept
  BY <1>2 DEF kept
<1>5. items' \subseteq CollectionId \X Apis /\ \A x \in items' : x[1] \in kept
  BY <1>2, ShelfFacts DEF ShelfInv, ItemsKept
<1>6. LibraryTypeOK' /\ ClicksFit' /\ ItemsKept'
  BY <1>2, <1>3, <1>4, <1>5 DEF ShelfInv, LibraryTypeOK, ClicksFit, ItemsKept, Click
<1>7. CountMatches'
  <2>1. ASSUME NEW i \in kept \ miscounted,
               \A d \in Clicks : clickState'[d].step # "refresh" \/ clickState'[d].id # i
        PROVE  itemCount[i] = Cardinality({y \in items' : y[1] = i})
    <3>1. i # n /\ \A d \in Clicks : clickState[d].step # "refresh" \/ clickState[d].id # i
      BY <1>2, <1>3, <2>1
    <3>2. {y \in items' : y[1] = i} = {y \in items : y[1] = i}
      BY <1>2, <3>1
    <3> QED
      BY <3>1, <3>2 DEF ShelfInv, CountMatches
  <2>2. \A i, j \in kept : slugs[i] = slugs[j] => i = j
    BY DEF ShelfInv, CountMatches
  <2> QED
    BY <1>2, <1>4, <2>1, <2>2 DEF CountMatches
<1> QED
  BY <1>6, <1>7 DEF ShelfInv

(* The count is refreshed, or that fails.                                    *)
LEMMA RefreshOK ==
  ASSUME ShelfInv, NEW c \in Clicks, clickState[c].step = "refresh", refreshCount(c) \/ refuse(c)
  PROVE  ShelfInv'
<1>1. PICK n \in CollectionId : n = clickState[c].id /\ clickState[c].op \in {"addItem", "removeItem"}
  <2>1. clickFits(clickState[c], made) /\ clickState[c].op \in Ops \cup {"none"}
    BY ShelfFacts DEF Click
  <2> QED
    BY <2>1 DEF clickFits, Ops
<1>2. noClick \in Click /\ clickFits(noClick, made) /\ noClick.step = "none"
  BY ShelfFacts DEF noClick, Click, Carried, clickFits
<1>3. /\ clickState' \in [Clicks -> Click] /\ \A d \in Clicks : clickFits(clickState'[d], made)
      /\ \A d \in Clicks \ {c} : clickState'[d] = clickState[d]
  <2>1. CASE refreshCount(c)
    BY <1>1, <2>1, StepsFit DEF refreshCount, Advances
  <2>2. CASE refuse(c)
    BY <1>2, <2>2, ShelfFacts DEF refuse, Refused
  <2> QED
    BY <2>1, <2>2
<1>4. /\ UNCHANGED <<favorite, slugs, made, items, heart, listed, clean>> /\ kept' = kept
  <2>1. CASE refreshCount(c)
    BY <2>1 DEF refreshCount, Page, kept
  <2>2. CASE refuse(c)
    BY <1>1, <2>2 DEF refuse, Refused, rollback, part, kept
  <2> QED
    BY <2>1, <2>2
<1>5. /\ itemCount' \in [CollectionId -> 0..Cardinality(Apis)] /\ miscounted' \subseteq CollectionId
      /\ \A i \in CollectionId \ {n} : itemCount'[i] = itemCount[i] /\ (i \in miscounted' <=> i \in miscounted)
      /\ n \notin kept => itemCount'[n] = itemCount[n]
      /\ n \in kept => n \in miscounted' \/ itemCount'[n] = Cardinality(itemsIn(n))
  <2>1. Cardinality(itemsIn(n)) \in 0..Cardinality(Apis)
    BY ItemsBounded, ShelfFacts
  <2>2. CASE refreshCount(c)
    BY <1>1, <2>1, <2>2, ShelfFacts DEF refreshCount, recounted, itemsIn
  <2>3. CASE refuse(c)
    BY <1>1, <2>3, ShelfFacts DEF refuse
  <2> QED
    BY <2>2, <2>3
<1>6. LibraryTypeOK' /\ ClicksFit'
  BY <1>3, <1>4, <1>5 DEF ShelfInv, LibraryTypeOK, ClicksFit, Click
<1>7. ItemsKept'
  BY <1>4, <1>5 DEF ShelfInv, ItemsKept
<1>8. CountMatches'
  <2>1. ASSUME NEW i \in kept, i \notin miscounted', i # n,
               \A d \in Clicks : clickState'[d].step # "refresh" \/ clickState'[d].id # i
        PROVE  itemCount'[i] = Cardinality({y \in items : y[1] = i})
    <3>1. \A d \in Clicks : clickState[d].step # "refresh" \/ clickState[d].id # i
      BY <1>1, <1>3, <2>1
    <3>2. itemCount'[i] = itemCount[i] /\ i \notin miscounted
      BY <1>5, <2>1, ShelfFacts
    <3> QED
      BY <2>1, <3>1, <3>2 DEF ShelfInv, CountMatches
  <2>2. n \in kept /\ n \notin miscounted' => itemCount'[n] = Cardinality({y \in items : y[1] = n})
    BY <1>5 DEF itemsIn
  <2>3. \A i, j \in kept : slugs[i] = slugs[j] => i = j
    BY DEF ShelfInv, CountMatches
  <2> QED
    BY <1>4, <2>1, <2>2, <2>3 DEF CountMatches
<1> QED
  BY <1>6, <1>7, <1>8 DEF ShelfInv

(* What toggle() does to the clicks.                                         *)
LEMMA ToggleFacts ==
  ASSUME ShelfInv, NEW c \in Clicks, toggle(c)
  PROVE  /\ clickState' \in [Clicks -> Click]
         /\ \A d \in Clicks : clickFits(clickState'[d], made)
         /\ clickState'[c].op = (IF heart THEN "unfavorite" ELSE "favorite")
         /\ clickState'[c].step = "first" /\ clickState'[c].arg = (IF busy("heart") THEN 0 ELSE 1)
         /\ \A d \in Clicks \ {c} : IF part(clickState[d].op) = "heart"
                                     THEN /\ clickState'[d].op = clickState[d].op
                                          /\ clickState'[d].step = clickState[d].step
                                          /\ clickState'[d].arg = 0
                                     ELSE clickState'[d] = clickState[d]
<1> DEFINE x == [op |-> IF heart THEN "unfavorite" ELSE "favorite", step |-> "first",
                 id |-> 0, arg |-> IF busy("heart") THEN 0 ELSE 1]
<1>1. PICK n \in Nat : n = MaxCollections
  BY ShelfFacts
<1>2. x \in Click /\ clickFits(x, made)
  <2>1. {0, 1} \subseteq Carried /\ 0 \in 0..MaxCollections
    BY <1>1 DEF Carried
  <2> QED
    BY <2>1 DEF Click, Ops, clickFits
<1>3. ASSUME NEW d \in Clicks \ {c}, part(clickState[d].op) = "heart"
      PROVE  /\ [clickState[d] EXCEPT !.arg = 0] \in Click
             /\ clickFits([clickState[d] EXCEPT !.arg = 0], made)
             /\ [clickState[d] EXCEPT !.arg = 0].op = clickState[d].op
             /\ [clickState[d] EXCEPT !.arg = 0].step = clickState[d].step
             /\ [clickState[d] EXCEPT !.arg = 0].arg = 0
  <2>1. clickState[d] \in Click /\ clickFits(clickState[d], made) /\ 0 \in Carried
    BY <1>1, ShelfFacts DEF Carried
  <2>2. clickState[d].op \in {"favorite", "unfavorite"}
    BY <1>3 DEF part
  <2>3. /\ [clickState[d] EXCEPT !.arg = 0] \in Click
        /\ [clickState[d] EXCEPT !.arg = 0].op = clickState[d].op
        /\ [clickState[d] EXCEPT !.arg = 0].step = clickState[d].step
        /\ [clickState[d] EXCEPT !.arg = 0].arg = 0
    BY <2>1 DEF Click
  <2> QED
    BY <2>1, <2>2, <2>3 DEF clickFits
<1>4. /\ clickState' = [d \in Clicks |->
            IF d = c THEN x ELSE IF part(clickState[d].op) = "heart" THEN [clickState[d] EXCEPT !.arg = 0]
                                 ELSE clickState[d]]
  BY DEF toggle
<1>5. clickState'[c] = x /\ clickState'[c].op = (IF heart THEN "unfavorite" ELSE "favorite")
      /\ clickState'[c].step = "first" /\ clickState'[c].arg = (IF busy("heart") THEN 0 ELSE 1)
  BY <1>4
<1> HIDE DEF x
<1>6. \A d \in Clicks \ {c} : clickState'[d] =
        IF part(clickState[d].op) = "heart" THEN [clickState[d] EXCEPT !.arg = 0] ELSE clickState[d]
  BY <1>4
<1>7. ASSUME NEW d \in Clicks PROVE clickState'[d] \in Click /\ clickFits(clickState'[d], made)
  <2>1. CASE d = c
    BY <1>2, <1>5, <2>1
  <2>2. CASE d # c /\ part(clickState[d].op) = "heart"
    <3>1. clickState'[d] = [clickState[d] EXCEPT !.arg = 0]
      BY <1>6, <2>2
    <3>2. [clickState[d] EXCEPT !.arg = 0] \in Click /\ clickFits([clickState[d] EXCEPT !.arg = 0], made)
      BY <1>3, <2>2, Zenon
    <3> QED
      BY <3>1, <3>2, Zenon
  <2>3. CASE d # c /\ part(clickState[d].op) # "heart"
    <3>1. clickState'[d] = clickState[d]
      BY <1>6, <2>3
    <3>2. clickState[d] \in Click /\ clickFits(clickState[d], made)
      BY ShelfFacts
    <3> QED
      BY <3>1, <3>2, Zenon
  <2> QED
    BY <2>1, <2>2, <2>3
<1>8. clickState' \in [Clicks -> Click]
  BY <1>4, <1>7
<1> QED
  BY <1>3, <1>5, <1>6, <1>7, <1>8

(* A request is refused before it changed a row.                             *)
LEMMA RefusedFits ==
  ASSUME ShelfInv, NEW c \in Clicks, Refused(c)
  PROVE  /\ heart' \in BOOLEAN /\ listed' \subseteq CollectionId
         /\ noClick \in Click /\ clickFits(noClick, made) /\ noClick.op = "none"
         /\ clickState' = [clickState EXCEPT ![c] = noClick]
         /\ clickState'[c] = noClick /\ \A d \in Clicks \ {c} : clickState'[d] = clickState[d]
<1>1. noClick \in Click /\ clickFits(noClick, made) /\ noClick.op = "none"
  BY ShelfFacts DEF noClick, Click, Carried, clickFits
<1>2. heart' \in BOOLEAN
  BY ShelfFacts DEF Refused, rollback
<1>3. listed' \subseteq CollectionId
  BY ShelfFacts DEF Refused, rollback, clickFits
<1> QED
  BY <1>1, <1>2, <1>3, ShelfFacts DEF Refused

(* Every step keeps the tables sound.                                        *)
LEMMA NextShelf == ShelfInv /\ [LibraryNext]_libraryVars => ShelfInv'
<1> SUFFICES ASSUME ShelfInv, [LibraryNext]_libraryVars PROVE ShelfInv'
  OBVIOUS
<1> USE DEF tables, Page
<1>1. CASE UNCHANGED libraryVars
  BY <1>1, ShelfStays, ShelfFacts DEF libraryVars
<1>2. CASE reload
  BY <1>2, ShelfStays, ShelfFacts DEF reload
<1>3. ASSUME NEW p PROVE disturbs(p) \subseteq {"heart", "list"}
  BY ShelfFacts DEF disturbs
<1>4. ASSUME NEW c \in Clicks, toggle(c) PROVE ShelfInv'
  <2>1. /\ UNCHANGED <<favorite, slugs, made, items, itemCount, miscounted, listed>>
        /\ heart' \in BOOLEAN /\ clean' \subseteq {"heart", "list"}
    BY <1>3, <1>4 DEF toggle
  <2>2. ASSUME NEW d \in Clicks, clickState[d].step = "refresh" PROVE clickState'[d] = clickState[d]
    <3>1. clickState[d].op \notin {"favorite", "unfavorite", "none"}
      BY <2>2, ShelfFacts DEF clickFits
    <3> QED
      BY <1>4, <3>1, ToggleFacts DEF part, toggle
  <2> QED
    BY <1>4, <2>1, <2>2, ShelfStays, ShelfFacts, ToggleFacts
<1>5. ASSUME NEW c \in Clicks, NEW op \in Ops, NEW id \in 0..MaxCollections, NEW arg \in Carried,
             Send(c, op, id, arg), clickFits([op |-> op, step |-> "first", id |-> id, arg |-> arg], made),
             UNCHANGED heart, listed' \subseteq CollectionId, clean' \subseteq {"heart", "list"}
      PROVE  ShelfInv'
  <2> DEFINE x == [op |-> op, step |-> "first", id |-> id, arg |-> arg]
  <2>1. x \in Click
    BY DEF Click
  <2>2. clickState[c].step # "refresh"
    BY <1>5, ShelfFacts DEF Send, clickFits
  <2>3. clickState' = [clickState EXCEPT ![c] = x] /\ clickFits(x, made)
        /\ UNCHANGED <<favorite, slugs, made, items, itemCount, miscounted>>
    BY <1>5 DEF Send
  <2> HIDE DEF x
  <2> QED
    BY <1>5, <2>1, <2>2, <2>3, ClickMoves, ShelfFacts
<1>6. ASSUME NEW c \in Clicks, createClick(c) PROVE ShelfInv'
  <2>1. 0 \in 0..MaxCollections /\ 0 \in Carried
    BY ShelfFacts DEF Carried
  <2>2. clickFits([op |-> "create", step |-> "first", id |-> 0, arg |-> 0], made)
    BY DEF clickFits
  <2> QED
    BY <1>3, <1>5, <1>6, <2>1, <2>2, ShelfFacts DEF createClick, Ops
<1>7. ASSUME NEW c \in Clicks, NEW id \in listed, removeClick(c, id) PROVE ShelfInv'
  <2>1. id \in CollectionId /\ id \in 0..MaxCollections /\ listed \in Carried /\ listed \in SUBSET CollectionId
    BY ShelfFacts DEF Carried, CollectionId
  <2>2. clickFits([op |-> "remove", step |-> "first", id |-> id, arg |-> listed], made)
    BY <2>1 DEF clickFits
  <2> QED
    BY <1>3, <1>5, <1>7, <2>1, <2>2, ShelfFacts DEF removeClick, Ops
<1>8. ASSUME NEW c \in Clicks, NEW op \in Ops, NEW id \in 1..made, NEW a \in Apis, itemRequest(c, op, id, a)
      PROVE  ShelfInv'
  <2>1. id \in CollectionId /\ id \in 0..MaxCollections /\ a \in Carried
    BY ShelfFacts DEF Carried, CollectionId
  <2>2. clickFits([op |-> op, step |-> "first", id |-> id, arg |-> a], made)
    BY <1>8, <2>1 DEF clickFits, itemRequest
  <2> QED
    BY <1>5, <1>8, <2>1, <2>2, ShelfFacts DEF itemRequest
<1>9. ASSUME NEW c \in Clicks, changeFavorite(c) PROVE ShelfInv'
  <2> DEFINE x == [clickState[c] EXCEPT !.step = "answer"]
  <2>1. clickState[c] \in Click /\ clickFits(clickState[c], made)
    BY ShelfFacts
  <2>2. x \in Click /\ x.op = clickState[c].op /\ x.step = "answer"
    BY <2>1 DEF Click
  <2>3. clickFits(x, made) /\ clickState' = [clickState EXCEPT ![c] = x] /\ clickState[c].step # "refresh"
        /\ favorite' \in BOOLEAN /\ UNCHANGED <<slugs, made, items, itemCount, miscounted, heart, listed, clean>>
    BY <1>9, <2>1, <2>2 DEF changeFavorite, clickFits, Advances
  <2> HIDE DEF x
  <2> QED
    BY <2>2, <2>3, ClickMoves, ShelfFacts
<1>10. ASSUME NEW c \in Clicks, uniqueSlug(c) PROVE ShelfInv'
  <2>1. PICK n \in 1..(MaxCollections + 1) :
          /\ \A k \in 1..(n - 1) : k \in {slugs[i] : i \in kept}
          /\ clickState' = [clickState EXCEPT ![c].step = "second", ![c].arg = n]
    BY <1>10 DEF uniqueSlug
  <2> DEFINE x == [clickState[c] EXCEPT !.step = "second", !.arg = n]
  <2>2. clickState[c] \in Click /\ clickFits(clickState[c], made) /\ n \in Carried
    BY ShelfFacts DEF Carried
  <2>3. x \in Click /\ x.op = clickState[c].op /\ x.step = "second" /\ x.arg = n
    BY <2>2 DEF Click
  <2>4. n = MaxCollections + 1 => made = MaxCollections
    BY <2>1, SuffixesSuffice, ShelfFacts
  <2>5. clickFits(x, made) /\ clickState' = [clickState EXCEPT ![c] = x] /\ clickState[c].step # "refresh"
        /\ UNCHANGED <<favorite, slugs, made, items, itemCount, miscounted, heart, listed, clean>>
    BY <1>10, <2>1, <2>2, <2>3, <2>4 DEF uniqueSlug, clickFits
  <2> HIDE DEF x
  <2> QED
    BY <2>3, <2>5, ClickMoves, ShelfFacts
<1>11. ASSUME NEW c \in Clicks, Refused(c), clickState[c].step # "refresh", UNCHANGED tables, clean' \subseteq clean
       PROVE  ShelfInv'
  BY <1>11, RefusedFits, ClickMoves, ShelfFacts
<1>12. ASSUME NEW c \in Clicks, insertsCollection(c) PROVE ShelfInv'
  <2>1. CASE made' # made
    BY <1>12, <2>1, CollectionInsertOK
  <2>2. CASE made' = made
    <3>1. made + 1 # made
      BY ShelfFacts
    <3>2. /\ Refused(c) /\ UNCHANGED <<slugs, made, favorite, items, itemCount, miscounted, clean>>
          /\ clickState[c].step = "second"
      BY <1>12, <2>2, <3>1 DEF insertsCollection
    <3> QED
      BY <1>11, <3>2
  <2> QED
    BY <2>1, <2>2
<1>13. ASSUME NEW c \in Clicks, assertOwner(c), ~Refused(c) PROVE ShelfInv'
  <2> DEFINE x == [clickState[c] EXCEPT !.step = "second"]
  <2>1. clickState[c] \in Click /\ clickFits(clickState[c], made)
    BY ShelfFacts
  <2>2. x \in Click /\ x.op = clickState[c].op /\ x.step = "second" /\ x.id = clickState[c].id
        /\ x.arg = clickState[c].arg
    BY <2>1 DEF Click
  <2>3. clickFits(x, made) /\ clickState' = [clickState EXCEPT ![c] = x] /\ clickState[c].step # "refresh"
        /\ UNCHANGED <<favorite, slugs, made, items, itemCount, miscounted, heart, listed, clean>>
    BY <1>13, <2>1, <2>2 DEF assertOwner, clickFits, Advances
  <2> HIDE DEF x
  <2> QED
    BY <2>2, <2>3, ClickMoves, ShelfFacts
<1>14. ASSUME NEW c \in Clicks, answer(c) PROVE ShelfInv'
  <2>1. noClick \in Click /\ clickFits(noClick, made)
    BY ShelfFacts DEF noClick, Click, Carried, clickFits
  <2>2. listed' \subseteq CollectionId /\ clean' \subseteq {"heart", "list"}
    BY <1>14, ShelfFacts DEF answer, clickFits
  <2> QED
    BY <1>14, <2>1, <2>2, ClickMoves, ShelfFacts DEF answer
<1>15. ASSUME NEW c \in Clicks, refuse(c) \/ loseAnswer(c) PROVE ShelfInv'
  <2>1. CASE clickState[c].step = "refresh"
    BY <1>15, <2>1, RefreshOK DEF loseAnswer
  <2>2. CASE clickState[c].step # "refresh"
    BY <1>11, <1>15, <2>2 DEF refuse, loseAnswer
  <2> QED
    BY <2>1, <2>2
<1>16. ASSUME NEW c \in Clicks, assertOwner(c) \/ changeItem(c), Refused(c) PROVE ShelfInv'
  <2>1. CASE assertOwner(c)
    BY <1>11, <1>16, <2>1 DEF assertOwner
  <2>2. CASE changeItem(c)
    <3>1. clickState'[c].op = "none" /\ clickState[c].op \in {"addItem", "removeItem"}
      BY <1>16, <2>2, RefusedFits DEF changeItem
    <3>2. ~Advances(c, "refresh")
      BY <3>1, StepsFit DEF Advances
    <3>3. /\ UNCHANGED <<items, favorite, slugs, made, itemCount, miscounted, clean>>
          /\ clickState[c].step = "second"
      BY <2>2, <3>2 DEF changeItem
    <3> QED
      BY <1>11, <1>16, <3>3
  <2> QED
    BY <1>16, <2>1, <2>2
<1> QED
  BY <1>1, <1>2, <1>4, <1>6, <1>7, <1>8, <1>9, <1>10, <1>12, <1>13, <1>14, <1>15, <1>16,
     CollectionDeleteOK, ItemOK, RefreshOK DEF LibraryNext, refreshCount

(* The clicks on the heart, and those that change the list.                  *)
onHeart(c) == clickState[c].op \in {"favorite", "unfavorite"}
onList(c) == clickState[c].op \in {"create", "remove"}

(* A click that had the heart to itself knows what it shows, and what the    *)
(* row is once it has been changed; so does every click on a clean heart.    *)
HeartTracked ==
  /\ \A c, d \in Clicks : onHeart(c) /\ onHeart(d) /\ clickState[c].arg = 1 => c = d
  /\ \A c \in Clicks : onHeart(c) /\ clickState[c].arg = 1 =>
       /\ heart <=> clickState[c].op = "favorite"
       /\ clickState[c].step = "answer" => (favorite <=> heart)
  /\ "heart" \in clean =>
       /\ \A c \in Clicks : onHeart(c) =>
            clickState[c].arg = 1 /\ (clickState[c].step = "first" => (favorite <=> ~heart))
       /\ (\A c \in Clicks : ~onHeart(c)) => (favorite <=> heart)

(* Steps that are not about the heart.                                       *)
LEMMA HeartStays ==
  ASSUME HeartTracked, UNCHANGED <<favorite, heart>>, "heart" \in clean' => "heart" \in clean,
         \A c \in Clicks : onHeart(c) => clickState'[c] = clickState[c],
         \A c \in Clicks : ~onHeart(c) => clickState'[c].op \notin {"favorite", "unfavorite"}
  PROVE  HeartTracked'
<1>1. \A c \in Clicks : onHeart(c)' <=> onHeart(c)
  BY DEF onHeart
<1>2. \A c, d \in Clicks : onHeart(c)' /\ onHeart(d)' /\ clickState'[c].arg = 1 => c = d
  BY <1>1 DEF HeartTracked
<1>3. \A c \in Clicks : onHeart(c)' /\ clickState'[c].arg = 1 =>
        /\ heart' <=> clickState'[c].op = "favorite"
        /\ clickState'[c].step = "answer" => (favorite' <=> heart')
  BY <1>1 DEF HeartTracked
<1>4. "heart" \in clean' =>
        /\ \A c \in Clicks : onHeart(c)' =>
             clickState'[c].arg = 1 /\ (clickState'[c].step = "first" => (favorite' <=> ~heart'))
        /\ (\A c \in Clicks : ~onHeart(c)') => (favorite' <=> heart')
  BY <1>1 DEF HeartTracked
<1> QED
  BY <1>2, <1>3, <1>4 DEF HeartTracked

(* A click on the heart, its request, and what becomes of it.                *)
LEMMA HeartOK ==
  ASSUME ShelfInv, HeartTracked, NEW c \in Clicks,
         \/ toggle(c) \/ changeFavorite(c)
         \/ onHeart(c) /\ (answer(c) \/ refuse(c) \/ loseAnswer(c))
  PROVE  HeartTracked'
<1>1. CASE toggle(c)
  <2>1. /\ ~onHeart(c) /\ onHeart(c)' /\ clickState'[c].step = "first"
        /\ clickState'[c].op = (IF heart THEN "unfavorite" ELSE "favorite")
        /\ clickState'[c].arg = (IF busy("heart") THEN 0 ELSE 1)
    BY <1>1, ToggleFacts DEF toggle, onHeart
  <2>2. \A d \in Clicks \ {c} : /\ onHeart(d)' <=> onHeart(d)
                                /\ onHeart(d) => clickState'[d].arg = 0
    BY <1>1, ToggleFacts DEF onHeart, part
  <2>3. busy("heart") <=> \E d \in Clicks \ {c} : onHeart(d)
    BY <2>1 DEF busy, part, onHeart
  <2>4. favorite' = favorite /\ heart' = ~heart /\ clean' = disturbs("heart")
        /\ heart \in BOOLEAN /\ favorite \in BOOLEAN
    BY <1>1, ShelfFacts DEF toggle, tables
  <2>5. heart' <=> clickState'[c].op = "favorite"
    BY <2>1, <2>4
  <2>6. CASE busy("heart")
    <3>1. "heart" \notin clean' /\ \A d \in Clicks : onHeart(d)' => clickState'[d].arg = 0
      BY <2>1, <2>2, <2>4, <2>6 DEF disturbs
    <3> QED
      BY <3>1 DEF HeartTracked
  <2>7. CASE ~busy("heart")
    <3>1. \A d \in Clicks : (onHeart(d)' <=> d = c) /\ ~onHeart(d)
      BY <2>1, <2>2, <2>3, <2>7
    <3>2. "heart" \in clean' => (favorite' <=> ~heart')
      BY <2>4, <2>7, <3>1 DEF disturbs, HeartTracked
    <3> QED
      BY <2>1, <2>5, <2>7, <3>1, <3>2 DEF HeartTracked
  <2> QED
    BY <2>6, <2>7
<1>2. CASE changeFavorite(c)
  <2>1. /\ onHeart(c) /\ clickState[c].step = "first" /\ (favorite' <=> clickState[c].op = "favorite")
        /\ UNCHANGED <<heart, clean>>
    BY <1>2 DEF changeFavorite, onHeart, Page
  <2>2. clickState[c] \in Click
    BY ShelfFacts
  <2>3. /\ clickState'[c].op = clickState[c].op /\ clickState'[c].step = "answer"
        /\ clickState'[c].arg = clickState[c].arg
        /\ \A d \in Clicks \ {c} : clickState'[d] = clickState[d]
    BY <1>2, <2>2, ShelfFacts DEF changeFavorite, Advances, Click
  <2>4. \A d \in Clicks : /\ onHeart(d)' <=> onHeart(d) 
                          /\ clickState'[d].arg = clickState[d].arg
                          /\ clickState'[d].op = clickState[d].op
    BY <2>3 DEF onHeart
  <2>5. \A d, e \in Clicks : onHeart(d)' /\ onHeart(e)' /\ clickState'[d].arg = 1 => d = e
    BY <2>4 DEF HeartTracked
  <2>6. ASSUME NEW d \in Clicks, onHeart(d)', clickState'[d].arg = 1
        PROVE  d = c /\ (heart' <=> clickState'[d].op = "favorite") /\ (favorite' <=> heart')
    <3>1. d = c /\ (heart <=> clickState[d].op = "favorite")
      BY <2>1, <2>4, <2>6 DEF HeartTracked
    <3> QED
      BY <2>1, <2>3, <3>1
  <2>7. ASSUME "heart" \in clean'
        PROVE  /\ \A d \in Clicks : onHeart(d)' => clickState'[d].arg = 1 /\ clickState'[d].step # "first"
               /\ onHeart(c)'
    <3>1. \A d \in Clicks : onHeart(d)' => clickState'[d].arg = 1
      BY <2>1, <2>4, <2>7 DEF HeartTracked
    <3> QED
      BY <2>1, <2>3, <2>4, <2>6, <3>1
  <2> QED
    BY <2>5, <2>6, <2>7 DEF HeartTracked
<1>3. CASE onHeart(c) /\ (answer(c) \/ refuse(c) \/ loseAnswer(c))
  <2>1. clickState'[c] = noClick /\ \A d \in Clicks \ {c} : clickState'[d] = clickState[d]
    BY <1>3, ShelfFacts DEF answer, refuse, loseAnswer, Refused
  <2>2. /\ ~onHeart(c)' /\ \A d \in Clicks \ {c} : onHeart(d)' <=> onHeart(d)
        /\ favorite' = favorite
    BY <1>3, <2>1 DEF onHeart, noClick, answer, refuse, loseAnswer, tables
  <2>3. CASE clickState[c].arg = 1
    <3>1. \A d \in Clicks : ~onHeart(d)'
      BY <1>3, <2>2, <2>3 DEF HeartTracked
    <3>2. "heart" \in clean' => (favorite' <=> heart')
      <4>1. CASE answer(c)
        BY <1>3, <2>2, <2>3, <4>1 DEF answer, HeartTracked
      <4>2. CASE refuse(c)
        <5>1. clickState[c].step = "first" /\ part(clickState[c].op) = "heart"
          BY <1>3, <4>2, ShelfFacts DEF refuse, clickFits, onHeart, part
        <5>2. (heart' <=> clickState[c].op = "unfavorite") /\ clean' = clean
          BY <4>2, <5>1 DEF refuse, Refused, rollback
        <5>3. (heart <=> clickState[c].op = "favorite") /\ ("heart" \in clean => (favorite <=> ~heart))
          BY <1>3, <2>3, <5>1 DEF HeartTracked
        <5>4. clickState[c].op = "unfavorite" <=> clickState[c].op # "favorite"
          BY <1>3 DEF onHeart
        <5> QED
          BY <2>2, <5>2, <5>3, <5>4
      <4>3. CASE loseAnswer(c)
        BY <1>3, <4>3 DEF loseAnswer, onPage, part, onHeart
      <4> QED
        BY <1>3, <4>1, <4>2, <4>3
    <3> QED
      BY <3>1, <3>2 DEF HeartTracked
  <2>4. CASE clickState[c].arg # 1
    <3>1. "heart" \notin clean /\ "heart" \notin clean'
      BY <1>3, <2>4 DEF HeartTracked, answer, refuse, loseAnswer
    <3>2. \A d \in Clicks : onHeart(d)' => clickState'[d].arg # 1
      BY <1>3, <2>1, <2>2, <2>4 DEF HeartTracked
    <3> QED
      BY <3>1, <3>2 DEF HeartTracked
  <2> QED
    BY <2>3, <2>4
<1> QED
  BY <1>1, <1>2, <1>3

(* A click on a clean list has it to itself, and knows the rows from it.     *)
ListTracked ==
  "list" \in clean =>
    /\ \A c, d \in Clicks : onList(c) /\ onList(d) => c = d
    /\ (\A c \in Clicks : ~onList(c)) => listed = kept
    /\ \A c \in Clicks : clickState[c].op = "create" =>
         IF clickState[c].step = "answer" THEN kept = listed \cup {clickState[c].id} ELSE listed = kept
    /\ \A c \in Clicks : clickState[c].op = "remove" =>
         IF clickState[c].step = "answer" THEN listed = kept
         ELSE clickState[c].arg = kept /\ listed = kept \ {clickState[c].id}

(* Steps that are not about the list.                                        *)
LEMMA ListStays ==
  ASSUME ListTracked, UNCHANGED <<slugs, listed>>, "list" \in clean' => "list" \in clean,
         \A c \in Clicks : onList(c) => clickState'[c] = clickState[c],
         \A c \in Clicks : ~onList(c) => clickState'[c].op \notin {"create", "remove"}
  PROVE  ListTracked'
<1>1. \A c \in Clicks : onList(c)' <=> onList(c)
  BY DEF onList
<1>2. \A c \in Clicks : clickState'[c].op \in {"create", "remove"} => clickState'[c] = clickState[c]
  BY DEF onList
<1>3. kept' = kept
  BY DEF kept
<1>4. SUFFICES ASSUME "list" \in clean, "list" \in clean' PROVE ListTracked'
  BY DEF ListTracked
<1>5. /\ \A c, d \in Clicks : onList(c)' /\ onList(d)' => c = d
      /\ (\A c \in Clicks : ~onList(c)') => listed' = kept'
  BY <1>1, <1>3, <1>4 DEF ListTracked
<1>6. \A c \in Clicks : clickState'[c].op = "create" =>
        IF clickState'[c].step = "answer" THEN kept' = listed' \cup {clickState'[c].id} ELSE listed' = kept'
  BY <1>2, <1>3, <1>4 DEF ListTracked
<1>7. \A c \in Clicks : clickState'[c].op = "remove" =>
        IF clickState'[c].step = "answer" THEN listed' = kept'
        ELSE clickState'[c].arg = kept' /\ listed' = kept' \ {clickState'[c].id}
  BY <1>2, <1>3, <1>4 DEF ListTracked
<1> QED
  BY <1>5, <1>6, <1>7 DEF ListTracked

(* A click that changes the list is made.                                    *)
LEMMA ListClickOK ==
  ASSUME ShelfInv, ListTracked, NEW c \in Clicks,
         createClick(c) \/ \E id \in listed : removeClick(c, id)
  PROVE  ListTracked'
<1>1. /\ clickState[c].op = "none" /\ UNCHANGED slugs /\ clean' = disturbs("list")
      /\ clickState'[c].op \in {"create", "remove"} /\ clickState'[c].step = "first"
      /\ \A d \in Clicks \ {c} : clickState'[d] = clickState[d]
  BY ShelfFacts DEF createClick, removeClick, Send, tables
<1>2. kept' = kept
  BY <1>1 DEF kept
<1>3. SUFFICES ASSUME "list" \in clean' PROVE ListTracked'
  BY DEF ListTracked
<1>4. "list" \in clean /\ \A d \in Clicks : ~onList(d)
  BY <1>1, <1>3 DEF disturbs, busy, onList, part
<1>5. listed = kept
  BY <1>4 DEF ListTracked
<1>6. \A d \in Clicks : onList(d)' <=> d = c
  BY <1>1, <1>4 DEF onList
<1>7. \A d \in Clicks : clickState'[d].op \in {"create", "remove"} => d = c
  BY <1>6 DEF onList
<1>8. CASE createClick(c)
  <2>1. clickState'[c].op = "create" /\ listed' = listed
    BY <1>8, ShelfFacts DEF createClick, Send
  <2> QED
    BY <1>1, <1>2, <1>5, <1>6, <1>7, <2>1 DEF ListTracked
<1>9. ASSUME NEW id \in listed, removeClick(c, id) PROVE ListTracked'
  <2>1. /\ clickState'[c].op = "remove" /\ clickState'[c].id = id /\ clickState'[c].arg = listed
        /\ listed' = listed \ {id}
    BY <1>9, ShelfFacts DEF removeClick, Send
  <2> QED
    BY <1>1, <1>2, <1>5, <1>6, <1>7, <2>1 DEF ListTracked
<1> QED
  BY <1>8, <1>9

(* A request about the list goes on.                                         *)
LEMMA ListGoesOn ==
  ASSUME ShelfInv, ListTracked, NEW c \in Clicks, onList(c), ~Refused(c),
         uniqueSlug(c) \/ insertsCollection(c) \/ assertOwner(c) \/ deletesCollection(c)
  PROVE  ListTracked'
<1> USE DEF tables, Page
<1>1. SUFFICES ASSUME "list" \in clean' PROVE ListTracked'
  BY DEF ListTracked
<1>2. clean' = clean /\ listed' = listed /\ clickState[c].step \in {"first", "second"}
  BY DEF uniqueSlug, insertsCollection, assertOwner, deletesCollection
<1>3. clickState[c] \in Click
  BY ShelfFacts
<1>4. clickState'[c].op = clickState[c].op /\ \A d \in Clicks \ {c} : clickState'[d] = clickState[d]
  BY <1>3, ShelfFacts DEF uniqueSlug, insertsCollection, assertOwner, deletesCollection, Advances, Click
<1>5. \A d \in Clicks : (onList(d) <=> d = c) /\ (onList(d)' <=> d = c)
  BY <1>1, <1>2, <1>4 DEF ListTracked, onList
<1>6. \A d \in Clicks : clickState'[d].op \in {"create", "remove"} => d = c
  BY <1>5 DEF onList
<1>7. CASE clickState[c].op = "create"
  <2>1. listed = kept
    BY <1>1, <1>2, <1>7 DEF ListTracked
  <2>2. CASE uniqueSlug(c)
    <3>1. clickState'[c].step = "second" /\ kept' = kept
      <4>1. PICK n : clickState' = [clickState EXCEPT ![c].step = "second", ![c].arg = n]
        BY <2>2 DEF uniqueSlug
      <4>2. UNCHANGED slugs
        BY <2>2 DEF uniqueSlug
      <4> QED
        BY <1>3, <4>1, <4>2, ShelfFacts DEF Click, kept
    <3> QED
      BY <1>2, <1>4, <1>5, <1>6, <1>7, <2>1, <3>1 DEF ListTracked
  <2>3. CASE insertsCollection(c)
    <3>1. /\ made' = made + 1 /\ made < MaxCollections /\ slugs' = [slugs EXCEPT ![made'] = clickState[c].arg]
          /\ clickState' = [clickState EXCEPT ![c].step = "answer", ![c].id = made']
          /\ clickState[c].step = "second"
      BY <2>3 DEF insertsCollection
    <3>2. clickState'[c].step = "answer" /\ clickState'[c].id = made'
      BY <1>3, <3>1, ShelfFacts DEF Click
    <3>3. made' \in CollectionId /\ clickState[c].arg # 0
      BY <1>7, <3>1, ShelfFacts DEF CollectionId, clickFits
    <3>4. kept' = kept \cup {made'}
      BY <3>1, <3>3, ShelfFacts DEF kept
    <3> QED
      BY <1>2, <1>4, <1>5, <1>6, <1>7, <2>1, <3>2, <3>4 DEF ListTracked
  <2> QED
    BY <1>7, <2>2, <2>3 DEF assertOwner, deletesCollection
<1>8. CASE clickState[c].op = "remove"
  <2>1. clickState[c].arg = kept /\ listed = kept \ {clickState[c].id} /\ clickState[c].id \in CollectionId
    BY <1>1, <1>2, <1>8, ShelfFacts DEF ListTracked, clickFits
  <2>2. CASE assertOwner(c)
    <3>1. clickState'[c].step = "second" /\ clickState'[c].id = clickState[c].id
          /\ clickState'[c].arg = clickState[c].arg /\ kept' = kept
      BY <1>3, <2>2, ShelfFacts DEF assertOwner, Advances, Click, kept
    <3> QED
      BY <1>2, <1>4, <1>5, <1>6, <1>8, <2>1, <3>1 DEF ListTracked
  <2>3. CASE deletesCollection(c)
    <3>1. clickState'[c].step = "answer"
      BY <1>3, <2>3, ShelfFacts DEF deletesCollection, Advances, Click
    <3>2. kept' = kept \ {clickState[c].id}
      BY <2>1, <2>3, ShelfFacts DEF deletesCollection, kept
    <3> QED
      BY <1>2, <1>4, <1>5, <1>6, <1>8, <2>1, <3>1, <3>2 DEF ListTracked
  <2> QED
    BY <1>8, <2>2, <2>3 DEF uniqueSlug, insertsCollection
<1> QED
  BY <1>7, <1>8 DEF onList

(* A request about the list ends.                                            *)
LEMMA ListEndOK ==
  ASSUME ShelfInv, ListTracked, NEW c \in Clicks, onList(c), UNCHANGED slugs,
         \/ answer(c) \/ loseAnswer(c)
         \/ Refused(c) /\ clickState[c].step \in {"first", "second"} /\ UNCHANGED clean
  PROVE  ListTracked'
<1>1. SUFFICES ASSUME "list" \in clean' PROVE ListTracked'
  BY DEF ListTracked
<1>2. ~loseAnswer(c) /\ "list" \in clean
  BY <1>1 DEF loseAnswer, answer, onPage, part, onList
<1>3. clickState'[c] = noClick /\ \A d \in Clicks \ {c} : clickState'[d] = clickState[d]
  BY <1>2, ShelfFacts DEF answer, Refused
<1>4. kept' = kept
  BY DEF kept
<1>5. \A d \in Clicks : clickState'[d].op \notin {"create", "remove"}
  BY <1>2, <1>3 DEF ListTracked, onList, noClick
<1>6. listed' = kept
  <2>1. CASE clickState[c].op = "create"
    BY <1>2, <2>1 DEF ListTracked, answer, Refused, rollback
  <2>2. CASE clickState[c].op = "remove"
    BY <1>2, <2>2 DEF ListTracked, answer, Refused, rollback
  <2> QED
    BY <2>1, <2>2 DEF onList
<1> QED
  BY <1>4, <1>5, <1>6 DEF ListTracked, onList

(* How a click moves on the way through the services.                        *)
LEMMA ServiceSteps ==
  ASSUME ShelfInv, NEW c \in Clicks,
         \/ uniqueSlug(c) \/ insertsCollection(c) \/ assertOwner(c)
         \/ deletesCollection(c) \/ changeItem(c) \/ refreshCount(c)
  PROVE  /\ favorite' = favorite /\ clean' = clean /\ \A d \in Clicks \ {c} : clickState'[d] = clickState[d]
         /\ Refused(c) \/ (clickState'[c].op = clickState[c].op /\ UNCHANGED <<heart, listed>>)
         /\ clickState[c].op \notin {"favorite", "unfavorite", "none"}
         /\ \/ clickState[c].op \in {"create", "remove"}
            \/ clickState[c].op \in {"addItem", "removeItem"} /\ UNCHANGED slugs
<1> USE DEF tables, Page
<1>1. /\ clickState \in [Clicks -> Click] /\ clickState[c] \in Click /\ clickFits(clickState[c], made)
      /\ clickState[c].op \in Ops \cup {"none"}
  BY ShelfFacts DEF Click
<1>2. favorite' = favorite /\ clean' = clean
  BY DEF uniqueSlug, insertsCollection, assertOwner, deletesCollection, changeItem, refreshCount
<1>3. /\ clickState[c].op \notin {"favorite", "unfavorite", "none"}
      /\ \/ clickState[c].op \in {"create", "remove"}
         \/ clickState[c].op \in {"addItem", "removeItem"} /\ UNCHANGED slugs
  BY <1>1 DEF uniqueSlug, insertsCollection, assertOwner, deletesCollection, changeItem, refreshCount,
              clickFits, Ops
<1>4. CASE Refused(c)
  BY <1>2, <1>3, <1>4, RefusedFits
<1>5. CASE ~Refused(c)
  <2>1. UNCHANGED <<heart, listed>>
    BY <1>5 DEF uniqueSlug, insertsCollection, assertOwner, deletesCollection, changeItem, refreshCount
  <2>2. clickState'[c].op = clickState[c].op /\ \A d \in Clicks \ {c} : clickState'[d] = clickState[d]
    <3>1. ASSUME NEW step, clickState' = [clickState EXCEPT ![c].step = step]
          PROVE  clickState'[c].op = clickState[c].op /\ \A d \in Clicks \ {c} : clickState'[d] = clickState[d]
      BY <1>1, <3>1 DEF Click
    <3>2. CASE uniqueSlug(c)
      <4>1. PICK n : clickState' = [clickState EXCEPT ![c].step = "second", ![c].arg = n]
        BY <3>2 DEF uniqueSlug
      <4> QED
        BY <1>1, <4>1 DEF Click
    <3>3. CASE insertsCollection(c)
      <4>1. clickState' = [clickState EXCEPT ![c].step = "answer", ![c].id = made']
        BY <1>5, <3>3 DEF insertsCollection
      <4> QED
        BY <1>1, <4>1 DEF Click
    <3> QED
      BY <1>5, <3>1, <3>2, <3>3 DEF assertOwner, deletesCollection, changeItem, refreshCount, Advances
  <2> QED
    BY <1>2, <1>3, <2>1, <2>2
<1> QED
  BY <1>4, <1>5

(* Every step keeps track of the heart.                                      *)
LEMMA NextHeart == ShelfInv /\ HeartTracked /\ [LibraryNext]_libraryVars => HeartTracked'
<1> SUFFICES ASSUME ShelfInv, HeartTracked, [LibraryNext]_libraryVars PROVE HeartTracked'
  OBVIOUS
<1> USE DEF tables, Page
<1>1. ASSUME NEW c \in Clicks, ~onHeart(c), \A d \in Clicks \ {c} : clickState'[d] = clickState[d],
             clickState'[c].op \notin {"favorite", "unfavorite"}, UNCHANGED <<favorite, heart>>,
             "heart" \in clean' => "heart" \in clean
      PROVE  HeartTracked'
  <2>1. \A d \in Clicks : onHeart(d) => clickState'[d] = clickState[d]
    BY <1>1
  <2>2. \A d \in Clicks : ~onHeart(d) => clickState'[d].op \notin {"favorite", "unfavorite"}
    BY <1>1 DEF onHeart
  <2> QED
    BY <1>1, <2>1, <2>2, HeartStays
<1>2. CASE UNCHANGED libraryVars
  BY <1>2, HeartStays DEF libraryVars, onHeart
<1>3. CASE reload
  BY <1>3 DEF reload, HeartTracked, onHeart
<1>4. ASSUME NEW c \in Clicks, NEW op \in {"create", "remove", "addItem", "removeItem"}, NEW id, NEW arg,
             Send(c, op, id, arg), UNCHANGED heart, clean' \subseteq clean
      PROVE  HeartTracked'
  <2>1. /\ ~onHeart(c) /\ clickState'[c].op = op /\ UNCHANGED favorite
        /\ \A d \in Clicks \ {c} : clickState'[d] = clickState[d]
    BY <1>4, ShelfFacts DEF Send, onHeart
  <2> QED
    BY <1>1, <1>4, <2>1
<1>5. ASSUME NEW c \in Clicks, createClick(c) PROVE HeartTracked'
  BY <1>4, <1>5 DEF createClick, disturbs
<1>6. ASSUME NEW c \in Clicks, NEW id \in listed, removeClick(c, id) PROVE HeartTracked'
  BY <1>4, <1>6 DEF removeClick, disturbs
<1>7. ASSUME NEW c \in Clicks, NEW op \in Ops, NEW id \in 1..made, NEW a \in Apis, itemRequest(c, op, id, a)
      PROVE  HeartTracked'
  BY <1>4, <1>7 DEF itemRequest
<1>8. ASSUME NEW c \in Clicks, ~onHeart(c), Refused(c), UNCHANGED favorite, clean' \subseteq clean
      PROVE  HeartTracked'
  <2>1. UNCHANGED heart
    BY <1>8 DEF Refused, rollback, part, onHeart
  <2> QED
    BY <1>1, <1>8, <2>1, RefusedFits
<1>9. ASSUME NEW c \in Clicks,
             \/ uniqueSlug(c) \/ insertsCollection(c) \/ assertOwner(c)
             \/ deletesCollection(c) \/ changeItem(c) \/ refreshCount(c)
      PROVE  HeartTracked'
  <2>1. /\ favorite' = favorite /\ clean' = clean /\ ~onHeart(c)
        /\ \A d \in Clicks \ {c} : clickState'[d] = clickState[d]
        /\ Refused(c) \/ (clickState'[c].op = clickState[c].op /\ UNCHANGED <<heart, listed>>)
    BY <1>9, ServiceSteps DEF onHeart
  <2> QED
    BY <1>1, <1>8, <2>1 DEF onHeart
<1>10. ASSUME NEW c \in Clicks, ~onHeart(c), answer(c) PROVE HeartTracked'
  <2>1. /\ clickState'[c] = noClick /\ \A d \in Clicks \ {c} : clickState'[d] = clickState[d]
        /\ UNCHANGED <<favorite, heart>>
    BY <1>10, ShelfFacts DEF answer
  <2>2. clean' = clean /\ noClick.op = "none"
    BY <1>10 DEF answer, part, onHeart, noClick
  <2> QED
    BY <1>1, <1>10, <2>1, <2>2
<1>11. ASSUME NEW c \in Clicks, ~onHeart(c), refuse(c) \/ loseAnswer(c) PROVE HeartTracked'
  BY <1>8, <1>11 DEF refuse, loseAnswer
<1> QED
  BY <1>2, <1>3, <1>5, <1>6, <1>7, <1>9, <1>10, <1>11, HeartOK DEF LibraryNext

(* Every step keeps track of the list.                                       *)
LEMMA NextList == ShelfInv /\ ListTracked /\ [LibraryNext]_libraryVars => ListTracked'
<1> SUFFICES ASSUME ShelfInv, ListTracked, [LibraryNext]_libraryVars PROVE ListTracked'
  OBVIOUS
<1> USE DEF tables, Page
<1>1. ASSUME NEW c \in Clicks, ~onList(c), \A d \in Clicks \ {c} : clickState'[d] = clickState[d],
             clickState'[c].op \notin {"create", "remove"}, UNCHANGED <<slugs, listed>>,
             "list" \in clean' => "list" \in clean
      PROVE  ListTracked'
  <2>1. \A d \in Clicks : onList(d) => clickState'[d] = clickState[d]
    BY <1>1
  <2>2. \A d \in Clicks : ~onList(d) => clickState'[d].op \notin {"create", "remove"}
    BY <1>1 DEF onList
  <2> QED
    BY <1>1, <2>1, <2>2, ListStays
<1>2. CASE UNCHANGED libraryVars
  BY <1>2, ListStays DEF libraryVars, onList
<1>3. CASE reload
  BY <1>3 DEF reload, ListTracked, onList, kept
<1>4. ASSUME NEW c \in Clicks, toggle(c) PROVE ListTracked'
  <2>1. \A d \in Clicks : onList(d) => clickState'[d] = clickState[d]
    BY <1>4, ToggleFacts DEF toggle, onList, part
  <2>2. \A d \in Clicks : ~onList(d) => clickState'[d].op \notin {"create", "remove"}
    BY <1>4, ToggleFacts DEF onList
  <2>3. UNCHANGED <<slugs, listed>> /\ clean' \subseteq clean
    BY <1>4 DEF toggle, disturbs
  <2> QED
    BY <2>1, <2>2, <2>3, ListStays
<1>5. ASSUME NEW c \in Clicks, NEW op \in Ops, NEW id \in 1..made, NEW a \in Apis, itemRequest(c, op, id, a)
      PROVE  ListTracked'
  <2>1. /\ ~onList(c) /\ clickState'[c].op = op /\ op \in {"addItem", "removeItem"}
        /\ UNCHANGED <<slugs, listed, clean>> /\ \A d \in Clicks \ {c} : clickState'[d] = clickState[d]
    BY <1>5, ShelfFacts DEF itemRequest, Send, onList
  <2> QED
    BY <1>1, <2>1
<1>6. ASSUME NEW c \in Clicks, changeFavorite(c) PROVE ListTracked'
  <2>1. clickState[c] \in Click
    BY ShelfFacts
  <2>2. /\ clickState'[c].op = clickState[c].op /\ ~onList(c) /\ UNCHANGED <<slugs, listed, clean>>
        /\ \A d \in Clicks \ {c} : clickState'[d] = clickState[d]
    BY <1>6, <2>1, ShelfFacts DEF changeFavorite, Advances, Click, onList
  <2> QED
    BY <1>1, <2>2 DEF onList
<1>7. ASSUME NEW c \in Clicks, ~onList(c), Refused(c), UNCHANGED slugs, clean' \subseteq clean
      PROVE  ListTracked'
  <2>1. UNCHANGED listed
    BY <1>7 DEF Refused, rollback, onList
  <2> QED
    BY <1>1, <1>7, <2>1, RefusedFits
<1>8. ASSUME NEW c \in Clicks, onList(c), Refused(c),
             \/ uniqueSlug(c) \/ insertsCollection(c) \/ assertOwner(c) \/ deletesCollection(c)
      PROVE  ListTracked'
  <2>1. clickState'[c].op = "none" /\ clickState[c] \in Click /\ clickState \in [Clicks -> Click]
    BY <1>8, RefusedFits, ShelfFacts
  <2>2. ASSUME NEW step, NEW id, clickState' = [clickState EXCEPT ![c].step = step, ![c].id = id] PROVE FALSE
    BY <1>8, <2>1, <2>2 DEF Click, onList
  <2>3. ASSUME NEW step, NEW n, clickState' = [clickState EXCEPT ![c].step = step, ![c].arg = n] PROVE FALSE
    BY <1>8, <2>1, <2>3 DEF Click, onList
  <2>4. ASSUME NEW step, clickState' = [clickState EXCEPT ![c].step = step] PROVE FALSE
    BY <1>8, <2>1, <2>4 DEF Click, onList
  <2>5. UNCHANGED <<slugs, clean>> /\ clickState[c].step \in {"first", "second"}
    BY <1>8, <2>2, <2>3, <2>4 DEF uniqueSlug, insertsCollection, assertOwner, deletesCollection, Advances
  <2> QED
    BY <1>8, <2>5, ListEndOK
<1>9. ASSUME NEW c \in Clicks,
             \/ uniqueSlug(c) \/ insertsCollection(c) \/ assertOwner(c)
             \/ deletesCollection(c) \/ changeItem(c) \/ refreshCount(c)
      PROVE  ListTracked'
  <2>1. CASE onList(c)
    <3>1. ~changeItem(c) /\ ~refreshCount(c)
      BY <2>1, ShelfFacts DEF changeItem, refreshCount, onList, clickFits
    <3> QED
      BY <1>8, <1>9, <2>1, <3>1, ListGoesOn
  <2>2. CASE ~onList(c)
    <3>1. /\ clean' = clean /\ UNCHANGED slugs /\ \A d \in Clicks \ {c} : clickState'[d] = clickState[d]
          /\ Refused(c) \/ (clickState'[c].op = clickState[c].op /\ UNCHANGED <<heart, listed>>)
      BY <1>9, <2>2, ServiceSteps DEF onList
    <3> QED
      BY <1>1, <1>7, <2>2, <3>1 DEF onList
  <2> QED
    BY <2>1, <2>2
<1>10. ASSUME NEW c \in Clicks, answer(c) \/ loseAnswer(c) PROVE ListTracked'
  <2>1. CASE onList(c)
    BY <1>10, <2>1, ListEndOK DEF answer, loseAnswer
  <2>2. CASE ~onList(c) /\ answer(c)
    <3>1. /\ clickState'[c] = noClick /\ \A d \in Clicks \ {c} : clickState'[d] = clickState[d]
          /\ UNCHANGED slugs
      BY <2>2, ShelfFacts DEF answer
    <3>2. listed' = listed /\ ("list" \in clean' => "list" \in clean) /\ noClick.op = "none"
      BY <2>2 DEF answer, onList, noClick
    <3> QED
      BY <1>1, <2>2, <3>1, <3>2
  <2>3. CASE ~onList(c) /\ loseAnswer(c)
    BY <1>7, <2>3 DEF loseAnswer
  <2> QED
    BY <1>10, <2>1, <2>2, <2>3
<1>11. ASSUME NEW c \in Clicks, refuse(c) PROVE ListTracked'
  <2>1. CASE onList(c)
    <3>1. clickState[c].step \in {"first", "second"}
      BY <1>11, <2>1, ShelfFacts DEF refuse, onList, clickFits
    <3> QED
      BY <1>11, <2>1, <3>1, ListEndOK DEF refuse
  <2>2. CASE ~onList(c)
    BY <1>7, <1>11, <2>2 DEF refuse
  <2> QED
    BY <2>1, <2>2
<1> QED
  BY <1>2, <1>3, <1>4, <1>5, <1>6, <1>9, <1>10, <1>11, ListClickOK DEF LibraryNext

(* For any number of clicks that overlap, are refused or lose their answers, *)
(* and any number of APIs and collections: at rest the page shows what the   *)
(* database holds unless clicks on the same part overlapped or an answer was *)
(* lost; a collection's count is right when no request has yet to refresh    *)
(* it, and none failed to; and slugs are unique (FavoriteButton.tsx,         *)
(* CollectionsManager.tsx, collection-service.ts).                           *)
THEOREM LibraryIsSound == AccountsSpec => []LibrarySound
<1> DEFINE Inv == ShelfInv /\ HeartTracked /\ ListTracked
<1>1. AccountsInit => Inv
  <2> SUFFICES ASSUME LibraryInit PROVE HeartTracked /\ ListTracked
    BY ShelfStart DEF AccountsInit
  <2>1. \A c \in Clicks : clickState[c].op = "none"
    BY DEF LibraryInit, noClick
  <2>2. kept = {} /\ listed = {} /\ heart = favorite
    BY DEF LibraryInit, kept
  <2> QED
    BY <2>1, <2>2 DEF HeartTracked, ListTracked, onHeart, onList
<1>2. ASSUME Inv,
             [AccountsNext]_<<sessionVars, limitVars, reviewVars, moderationVars, libraryVars, subject>>
      PROVE  Inv'
  BY <1>2, ComponentSteps, NextShelf, NextHeart, NextList
<1>3. Inv => LibrarySound
  <2> SUFFICES ASSUME Inv PROVE LibraryTypeOK /\ CountMatches /\ PageShowsTruth
    BY DEF LibrarySound
  <2>1. \A c \in Clicks : (onHeart(c) => busy("heart")) /\ (onList(c) => busy("list"))
    BY DEF onHeart, onList, busy, part
  <2>2. heart \in BOOLEAN /\ favorite \in BOOLEAN
    BY ShelfFacts
  <2>3. "heart" \in clean /\ ~busy("heart") => heart = favorite
    BY <2>1, <2>2 DEF HeartTracked
  <2>4. "list" \in clean /\ ~busy("list") => listed = kept
    BY <2>1 DEF ListTracked
  <2> QED
    BY <2>3, <2>4 DEF ShelfInv, PageShowsTruth
<1> QED
  BY <1>1, <1>2, <1>3, PTL DEF AccountsSpec

-----------------------------------------------------------------------------
(* Rate limits                                                               *)

(* Arithmetic of a rate.                                                     *)
LEMMA Rates ==
  ASSUME NEW r \in Nat, NEW a \in Nat, NEW b \in Nat, a =< b
  PROVE  r * a \in Nat /\ r * (a + 1) = r * a + r /\ r * a =< r * b
  OBVIOUS

(* The quotient of retryAfter(), rounded up, is enough.                      *)
LEMMA RoundedUp ==
  ASSUME NEW r \in Nat \ {0}, NEW m \in Nat \ {0}
  PROVE  (m + r - 1) \div r \in Nat /\ r * ((m + r - 1) \div r) >= m
  OBVIOUS

(* A bucket that was used, of a limiter with k times the policy's numbers.   *)
Used(k) == [units : 0..(k * capacity), at : 0..MaxTime, used : 0..MaxTime]

(* What a bucket holds once it is refilled.                                  *)
worth(bucket, k, now) ==
  IF bucket = NoBucket THEN k * capacity
  ELSE AtMost(bucket.units + k * Limit * Max0(now - bucket.at), k * capacity)

(* The bucket the history is about.                                          *)
Held ==
  IF watched = InRedis THEN shared
  ELSE IF watched[1] = "local" THEN local[watched[2]] ELSE own[watched[2]]

(* A bucket is last updated no later than it is used.                        *)
inOrder(bucket) == bucket = NoBucket \/ (bucket.at =< bucket.used /\ bucket.used =< clock)

InOrder ==
  /\ inOrder(shared)
  /\ \A i \in Instances : inOrder(local[i]) /\ inOrder(own[i]) /\ sent[i] =< clock

(* The bucket never holds more than were it refilled eagerly.                *)
Covered == worth(Held, scale(watched), clock) =< credit

(* Until the client was told to come back, the bucket gains a token.         *)
Told ==
  hint = Never \/ Held = NoBucket
    \/ (hint >= Held.at /\ Held.units + scale(watched) * Limit * (hint - Held.at) >= cost)

LimitsInv == RateLimitTypeOK /\ InOrder /\ Covered /\ Told

(* Numbers.                                                                  *)
LEMMA LimitNumbers ==
  /\ cost \in Nat \ {0} /\ capacity \in Nat /\ cost =< capacity
  /\ \A b \in Buckets : scale(b) \in {1, 2} /\ full(b) = scale(b) * capacity
  /\ \A k \in {1, 2} : /\ k * capacity \in Nat /\ cost =< k * capacity
                       /\ k * Limit \in Nat \ {0}
                       /\ Bucket(k * capacity) = Used(k) \cup {NoBucket}
                       /\ NoBucket \notin Used(k)
<1>1. cost \in Nat \ {0} /\ capacity \in Nat /\ cost =< capacity
  BY RateLimitAssumption DEF cost, capacity, RateLimitAssumption
<1>2. \A b \in Buckets : scale(b) \in {1, 2} /\ full(b) = scale(b) * capacity
  BY DEF scale, full
<1>3. ASSUME NEW k \in {1, 2}
      PROVE  /\ k * capacity \in Nat /\ cost =< k * capacity /\ k * Limit \in Nat \ {0}
             /\ Bucket(k * capacity) = Used(k) \cup {NoBucket} /\ NoBucket \notin Used(k)
  <2>1. k * capacity \in Nat /\ cost =< k * capacity
    BY <1>1
  <2>2. k * Limit \in Nat \ {0}
    BY RateLimitAssumption DEF RateLimitAssumption
  <2>3. NoBucket \notin Used(k)
    BY DEF NoBucket, Used, Never
  <2> QED
    BY <2>1, <2>2, <2>3 DEF Bucket, Used
<1> QED
  BY <1>1, <1>2, <1>3

(* refill() keeps the bucket within its size, and yields its worth.          *)
LEMMA RefillFits ==
  ASSUME NEW k \in {1, 2}, NEW b \in Used(k) \cup {NoBucket}, NEW now \in 0..MaxTime,
         clock \in 0..MaxTime
  PROVE  /\ worth(b, k, now) \in 0..(k * capacity)
         /\ refill(b, k, now) = [units |-> worth(b, k, now), at |-> now, used |-> clock]
         /\ b = NoBucket => worth(b, k, now) = k * capacity
         /\ b # NoBucket /\ b.at =< now =>
              worth(b, k, now) = AtMost(b.units + (k * Limit) * (now - b.at), k * capacity)
<1>1. CASE b = NoBucket
  BY <1>1, LimitNumbers DEF worth, refill
<1>2. CASE b # NoBucket
  <2> DEFINE d == Max0(now - b.at)
             u == AtMost(b.units + k * Limit * d, k * capacity)
  <2>1. b.units \in 0..(k * capacity) /\ b.at \in 0..MaxTime
    BY <1>2 DEF Used
  <2>2. d \in Nat /\ (b.at =< now => d = now - b.at)
    BY <2>1, RateLimitAssumption DEF Max0, RateLimitAssumption
  <2>3. k * Limit * d \in Nat
    BY <2>2, LimitNumbers, Rates
  <2>4. u \in 0..(k * capacity)
    BY <2>1, <2>3, LimitNumbers DEF AtMost
  <2>5. refill(b, k, now) = [units |-> u, at |-> now, used |-> clock]
    BY <1>2 DEF refill
  <2>6. worth(b, k, now) = u
    BY <1>2 DEF worth
  <2> QED
    BY <1>2, <2>2, <2>4, <2>5, <2>6
<1> QED
  BY <1>1, <1>2

(* What a bucket holds only grows with time.                                 *)
LEMMA WorthGrows ==
  ASSUME NEW k \in {1, 2}, NEW b \in Used(k) \cup {NoBucket}, NEW now \in 0..MaxTime,
         NEW then \in 0..MaxTime, now =< then
  PROVE  worth(b, k, now) =< worth(b, k, then)
<1>1. CASE b = NoBucket
  BY <1>1, LimitNumbers DEF worth
<1>2. CASE b # NoBucket
  <2>1. b.units \in 0..(k * capacity) /\ b.at \in 0..MaxTime
    BY <1>2 DEF Used
  <2>2. PICK d, e \in Nat : d = Max0(now - b.at) /\ e = Max0(then - b.at) /\ d =< e
    BY <2>1, RateLimitAssumption DEF Max0, RateLimitAssumption
  <2>3. PICK r \in Nat : r = k * Limit
    BY LimitNumbers
  <2>4. r * d \in Nat /\ r * d =< r * e /\ r * e \in Nat
    BY <2>2, <2>3, Rates
  <2>5. /\ worth(b, k, now) = AtMost(b.units + r * d, k * capacity)
        /\ worth(b, k, then) = AtMost(b.units + r * e, k * capacity)
    BY <1>2, <2>2, <2>3 DEF worth
  <2> QED
    BY <2>1, <2>4, <2>5, LimitNumbers DEF AtMost
<1> QED
  BY <1>1, <1>2

(* consume() takes a token if there is one, and nothing otherwise.           *)
LEMMA ConsumeFits ==
  ASSUME NEW k \in {1, 2}, NEW b \in Used(k) \cup {NoBucket}, NEW now \in 0..MaxTime,
         clock \in 0..MaxTime
  PROVE  LET c == consume(b, k, now)
             w == worth(b, k, now) IN
         /\ allowed(b, k, now) <=> w >= cost
         /\ c = [units |-> IF w >= cost THEN w - cost ELSE w, at |-> now, used |-> clock]
         /\ c \in Used(k) /\ c # NoBucket
<1> DEFINE w == worth(b, k, now)
           c == consume(b, k, now)
<1>1. w \in 0..(k * capacity) /\ refill(b, k, now) = [units |-> w, at |-> now, used |-> clock]
  BY RefillFits
<1>2. allowed(b, k, now) <=> w >= cost
  BY <1>1 DEF allowed
<1> HIDE DEF w
<1>3. c = [units |-> IF w >= cost THEN w - cost ELSE w, at |-> now, used |-> clock]
  BY <1>1, <1>2 DEF consume
<1>4. c \in Used(k)
  BY <1>1, <1>3, LimitNumbers DEF Used
<1> QED
  BY <1>2, <1>3, <1>4, LimitNumbers DEF w

(* The bucket that is watched, by LimitsInv.                                 *)
LEMMA HeldFacts ==
  ASSUME LimitsInv
  PROVE  /\ clock \in 0..MaxTime /\ scale(watched) \in {1, 2} /\ full(watched) = scale(watched) * capacity
         /\ Held \in Used(scale(watched)) \cup {NoBucket} /\ inOrder(Held)
         /\ credit \in Int /\ credit =< full(watched) /\ hint \in Nat \cup {Never}
<1>1. /\ clock \in 0..MaxTime /\ watched \in Buckets
      /\ credit \in Int /\ credit =< full(watched) /\ hint \in Nat \cup {Never}
  BY RateLimitAssumption DEF LimitsInv, RateLimitTypeOK, RateLimitAssumption
<1>2. /\ shared \in Used(1) \cup {NoBucket} /\ inOrder(shared)
      /\ \A i \in Instances : /\ local[i] \in Used(2) \cup {NoBucket} /\ inOrder(local[i])
                              /\ own[i] \in Used(1) \cup {NoBucket} /\ inOrder(own[i])
  <2>1. Bucket(capacity) = Used(1) \cup {NoBucket} /\ Bucket(2 * capacity) = Used(2) \cup {NoBucket}
    BY LimitNumbers DEF Bucket, Used
  <2> QED
    BY <2>1 DEF LimitsInv, RateLimitTypeOK, InOrder
<1>3. CASE watched = InRedis
  BY <1>1, <1>2, <1>3, LimitNumbers DEF Held, scale, InRedis
<1>4. CASE \E i \in Instances : watched = <<"local", i>>
  BY <1>1, <1>2, <1>4, LimitNumbers DEF Held, scale, InRedis
<1>5. CASE \E i \in Instances : watched = <<"own", i>>
  BY <1>1, <1>2, <1>5, LimitNumbers DEF Held, scale, InRedis
<1> QED
  BY <1>1, <1>3, <1>4, <1>5 DEF Buckets

(* What a step leaves of the history.                                        *)
HistoryKept ==
  /\ Covered' /\ Told' /\ credit' \in Int /\ credit' =< full(watched') /\ hint' \in Nat \cup {Never}

(* A step that is not about the bucket.                                      *)
LEMMA ElsewhereOK ==
  ASSUME LimitsInv, UNCHANGED <<clock, watched, credit, hint>>, Held' = Held
  PROVE  HistoryKept
<1>1. Covered' /\ Told'
  BY DEF LimitsInv, Covered, Told
<1> QED
  BY <1>1, HeldFacts DEF HistoryKept

(* A decision, with the time of the caller, whose answer arrives or not.     *)
LEMMA DecisionOK ==
  ASSUME LimitsInv, NEW now \in 0..clock, UNCHANGED <<clock, watched>>,
         Held' = consume(Held, scale(watched), now),
         Decides(watched, Held, now) \/ (Charged(0, now) /\ hint' = Never)
  PROVE  HistoryKept
<1> DEFINE k == scale(watched)
           w == worth(Held, k, now)
           r == k * Limit
<1>1. /\ k \in {1, 2} /\ now \in 0..MaxTime /\ clock \in 0..MaxTime
      /\ Held \in Used(k) \cup {NoBucket} /\ full(watched) = k * capacity
  BY HeldFacts, RateLimitAssumption DEF RateLimitAssumption
<1>2. /\ w \in 0..(k * capacity) /\ k * capacity \in Nat /\ r \in Nat \ {0} /\ cost \in Nat \ {0}
      /\ credit \in Int /\ credit =< k * capacity
  BY <1>1, RefillFits, LimitNumbers, HeldFacts
<1>3. /\ allowed(Held, k, now) <=> w >= cost
      /\ refill(Held, k, now).units = w
      /\ Held' = [units |-> IF w >= cost THEN w - cost ELSE w, at |-> now, used |-> clock]
      /\ Held' \in Used(k) /\ Held' # NoBucket
  BY <1>1, ConsumeFits, RefillFits
<1>4. PICK c \in {0, cost} : /\ c = cost => w >= cost
                            /\ credit' = AtMost(credit - c + r * (clock - now), k * capacity)
  <2>1. CASE Charged(0, now)
    <3>1. 0 # cost
      BY <1>2
    <3>2. credit' = AtMost(credit - 0 + r * (clock - now), k * capacity)
      BY <1>1, <2>1 DEF Charged
    <3> QED
      BY <3>1, <3>2
  <2>2. CASE Charged(cost, now) /\ w >= cost
    BY <1>1, <2>2, Zenon DEF Charged
  <2> QED
    BY <1>3, <2>1, <2>2 DEF Decides
<1> DEFINE g == r * (clock - now)
<1>5. Covered' /\ credit' \in Int /\ credit' =< full(watched')
  <2>1. g \in Nat /\ clock - now \in Nat
    <3>1. PICK d \in Nat : d = clock - now
      BY <1>1
    <3> QED
      BY <1>2, <3>1, Rates
  <2>2. w =< credit
    <3>1. worth(Held, k, clock) =< credit /\ worth(Held, k, clock) \in 0..(k * capacity)
      BY <1>1, RefillFits DEF LimitsInv, Covered
    <3>2. w =< worth(Held, k, clock)
      BY <1>1, WorthGrows
    <3> QED
      BY <1>2, <3>1, <3>2
  <2>3. worth(Held', k, clock) = AtMost(Held'.units + g, k * capacity)
    <3>1. Held'.at = now /\ now =< clock
      BY <1>1, <1>3
    <3> QED
      BY <1>1, <1>3, <3>1, RefillFits
  <2> HIDE DEF g, w
  <2>4. Held'.units =< credit - c /\ Held'.units \in Nat /\ c \in Nat
    BY <1>2, <1>3, <1>4, <2>2
  <2>5. AtMost(Held'.units + g, k * capacity) =< AtMost(credit - c + g, k * capacity)
    BY <1>2, <2>1, <2>4 DEF AtMost
  <2>6. credit' = AtMost(credit - c + g, k * capacity)
    BY <1>4 DEF g
  <2>7. credit' \in Int /\ credit' =< k * capacity
    BY <1>2, <2>1, <2>4, <2>6 DEF AtMost
  <2> QED
    BY <1>1, <2>3, <2>5, <2>6, <2>7 DEF Covered
<1>6. Told' /\ hint' \in Nat \cup {Never}
  <2>1. CASE hint' = Never
    BY <2>1 DEF Told
  <2>2. CASE hint' # Never
    <3> DEFINE m == cost - w
               q == (m + r - 1) \div r
    <3>1. w < cost /\ hint' = clock + q
      BY <1>2, <1>3, <2>2 DEF Decides, retryAfter
    <3>2. m \in Nat \ {0}
      BY <1>2, <3>1
    <3>3. q \in Nat /\ r * q >= m
      BY <1>2, <3>2, RoundedUp
    <3> HIDE DEF q, r
    <3>4. hint' \in Nat /\ hint' >= now /\ q =< hint' - now /\ hint' - now \in Nat
      BY <1>1, <3>1, <3>3, RateLimitAssumption DEF RateLimitAssumption
    <3>5. r * q =< r * (hint' - now) /\ r * q \in Nat /\ r * (hint' - now) \in Nat
      <4>1. PICK e \in Nat : e = hint' - now
        BY <3>4
      <4>2. r \in Nat /\ q \in Nat /\ q =< e
        BY <1>2, <3>3, <3>4, <4>1
      <4>3. r * q =< r * e /\ r * q \in Nat
        BY <4>2, Rates
      <4>4. r * e \in Nat
        BY <4>2, Rates
      <4> QED
        BY <4>1, <4>3, <4>4
    <3>6. Held'.units = w /\ Held'.at = now
      BY <1>2, <1>3, <3>1
    <3>7. Held'.units + r * (hint' - Held'.at) >= cost
      BY <1>2, <3>3, <3>5, <3>6
    <3>8. Held'.units + scale(watched') * Limit * (hint' - Held'.at) >= cost
      BY <3>7 DEF r
    <3> QED
      BY <3>4, <3>6, <3>8 DEF Told, cost
  <2> QED
    BY <2>1, <2>2
<1> QED
  BY <1>5, <1>6 DEF HistoryKept

(* A bucket that would be full by now may be forgotten.                      *)
LEMMA ForgottenOK ==
  ASSUME LimitsInv, UNCHANGED <<clock, watched, credit, hint>>, Held' = NoBucket,
         worth(Held, scale(watched), clock) = full(watched)
  PROVE  HistoryKept
<1>1. worth(Held', scale(watched'), clock') = full(watched)
  BY HeldFacts, RefillFits
<1> QED
  BY <1>1, HeldFacts DEF HistoryKept, LimitsInv, Covered, Told

(* Time is worth as much to the bucket as to the history.                    *)
LEMMA TickOK ==
  ASSUME LimitsInv, tick
  PROVE  HistoryKept
<1> DEFINE k == scale(watched)
           r == k * Limit
<1>1. /\ k \in {1, 2} /\ clock \in 0..MaxTime /\ clock + 1 \in 0..MaxTime /\ clock' = clock + 1
      /\ Held \in Used(k) \cup {NoBucket} /\ full(watched) = k * capacity /\ inOrder(Held)
      /\ k * capacity \in Nat /\ r \in Nat \ {0}
  BY HeldFacts, LimitNumbers, RateLimitAssumption DEF RateLimitAssumption, tick
<1>2. UNCHANGED <<watched, hint>> /\ Held' = Held
  BY DEF tick, Held
<1>3. credit' = AtMost(credit + r, k * capacity) /\ credit \in Int /\ credit =< k * capacity
  BY <1>1, HeldFacts DEF tick
<1>4. credit' \in Int /\ credit' =< full(watched')
  BY <1>1, <1>2, <1>3 DEF AtMost
<1>5. Told' /\ hint' \in Nat \cup {Never}
  BY <1>2, HeldFacts DEF Told, LimitsInv
<1>6. worth(Held', scale(watched'), clock') =< credit'
  <2>1. worth(Held, k, clock) =< credit
    BY DEF LimitsInv, Covered
  <2>2. worth(Held', scale(watched'), clock') = worth(Held, k, clock')
    BY <1>1, <1>2
  <2>3. CASE Held = NoBucket
    BY <1>1, <1>3, <2>1, <2>2, <2>3, RefillFits DEF AtMost
  <2>4. CASE Held # NoBucket
    <3> DEFINE d == clock - Held.at
    <3>1. /\ Held.units \in Nat /\ Held.at \in Nat /\ d \in Nat
          /\ d + 1 = clock' - Held.at /\ Held.at =< clock
      BY <1>1, <2>4, RateLimitAssumption DEF Used, inOrder, RateLimitAssumption
    <3>2. /\ worth(Held, k, clock) = AtMost(Held.units + r * d, k * capacity)
          /\ worth(Held, k, clock') = AtMost(Held.units + r * (d + 1), k * capacity)
      <4>1. worth(Held, k, clock) = AtMost(Held.units + (k * Limit) * (clock - Held.at), k * capacity)
        BY <1>1, <2>4, <3>1, RefillFits
      <4>2. Held.at =< clock' /\ clock' \in 0..MaxTime
        BY <1>1, <3>1
      <4>3. worth(Held, k, clock')
              = AtMost(Held.units + (k * Limit) * (clock' - Held.at), k * capacity)
        BY <1>1, <2>4, <4>2, RefillFits
      <4> QED
        BY <3>1, <4>1, <4>3
    <3> HIDE DEF d, r
    <3>3. r * d \in Nat /\ r * (d + 1) = r * d + r
      BY <1>1, <3>1, Rates
    <3> QED
      BY <1>1, <1>3, <2>1, <2>2, <3>1, <3>2, <3>3 DEF AtMost
  <2> QED
    BY <2>3, <2>4
<1> QED
  BY <1>4, <1>5, <1>6 DEF HistoryKept, Covered

(* The tables of buckets, by LimitsInv.                                      *)
LEMMA BucketFacts ==
  ASSUME LimitsInv
  PROVE  /\ Bucket(capacity) = Used(1) \cup {NoBucket} /\ Bucket(2 * capacity) = Used(2) \cup {NoBucket}
         /\ shared \in Used(1) \cup {NoBucket} /\ inOrder(shared)
         /\ local \in [Instances -> Used(2) \cup {NoBucket}]
         /\ own \in [Instances -> Used(1) \cup {NoBucket}]
         /\ sent \in [Instances -> 0..MaxTime \cup {Never}]
         /\ \A i \in Instances : inOrder(local[i]) /\ inOrder(own[i]) /\ sent[i] =< clock
         /\ clock \in 0..MaxTime /\ watched \in Buckets /\ distributed \in BOOLEAN
         /\ clock \in MaxSkew..MaxTime /\ behind \in [Instances -> 0..MaxSkew]
<1>1. Bucket(capacity) = Used(1) \cup {NoBucket} /\ Bucket(2 * capacity) = Used(2) \cup {NoBucket}
  BY LimitNumbers DEF Bucket, Used
<1>2. clock \in MaxSkew..MaxTime /\ clock \in 0..MaxTime
  BY RateLimitAssumption DEF LimitsInv, RateLimitTypeOK, RateLimitAssumption
<1> QED
  BY <1>1, <1>2 DEF LimitsInv, RateLimitTypeOK, InOrder

(* What is left to show of a step that leaves the clock alone.               *)
LEMMA TablesOK ==
  ASSUME LimitsInv, HistoryKept, UNCHANGED <<distributed, clock, behind, watched>>,
         shared' \in Used(1) \cup {NoBucket}, inOrder(shared'),
         local' \in [Instances -> Used(2) \cup {NoBucket}],
         own' \in [Instances -> Used(1) \cup {NoBucket}],
         \A i \in Instances : inOrder(local'[i]) /\ inOrder(own'[i]),
         sent' \in [Instances -> 0..MaxTime \cup {Never}], \A i \in Instances : sent'[i] =< clock
  PROVE  LimitsInv'
<1>1. RateLimitTypeOK'
  BY BucketFacts DEF RateLimitTypeOK, HistoryKept
<1>2. InOrder'
  BY DEF InOrder, inOrder
<1> QED
  BY <1>1, <1>2 DEF LimitsInv, HistoryKept

(* A decision leaves the bucket in order.                                    *)
LEMMA ConsumeOrder ==
  ASSUME NEW k \in {1, 2}, NEW b \in Used(k) \cup {NoBucket}, NEW now \in 0..MaxTime,
         clock \in 0..MaxTime, now =< clock
  PROVE  consume(b, k, now) \in Used(k) /\ inOrder(consume(b, k, now))
  BY ConsumeFits DEF inOrder

(* The instance's own bucket decides.                                        *)
LEMMA OwnDecides ==
  ASSUME LimitsInv, NEW i \in Instances, checkOwn(i), UNCHANGED <<clock, watched, local>>,
         watched = InRedis => shared' = shared
  PROVE  /\ HistoryKept /\ own' \in [Instances -> Used(1) \cup {NoBucket}]
         /\ \A j \in Instances : inOrder(own'[j])
<1>1. own' = [own EXCEPT ![i] = consume(own[i], 1, clock)] /\ Decides(<<"own", i>>, own[i], clock)
  BY DEF checkOwn
<1>2. consume(own[i], 1, clock) \in Used(1) /\ inOrder(consume(own[i], 1, clock))
  <2>1. own[i] \in Used(1) \cup {NoBucket} /\ clock \in 0..MaxTime /\ clock =< clock
    BY BucketFacts
  <2> QED
    BY <2>1, ConsumeOrder
<1>3. own' \in [Instances -> Used(1) \cup {NoBucket}] /\ \A j \in Instances : inOrder(own'[j])
  BY <1>1, <1>2, BucketFacts
<1>4. CASE watched = <<"own", i>>
  <2>1. Held = own[i] /\ Held' = own'[i] /\ scale(watched) = 1
    BY <1>4 DEF Held, scale, InRedis
  <2>2. Held' = consume(Held, scale(watched), clock) /\ Decides(watched, Held, clock)
    BY <1>1, <1>4, <2>1, BucketFacts
  <2>3. clock \in 0..clock
    BY BucketFacts
  <2> QED
    BY <1>3, <2>2, <2>3, DecisionOK
<1>5. CASE watched # <<"own", i>>
  <2>1. UNCHANGED <<credit, hint>>
    BY <1>1, <1>5 DEF Decides
  <2>2. Held' = Held
    <3>1. watched = InRedis \/ \E j \in Instances : watched = <<"local", j>> \/ watched = <<"own", j>>
      BY BucketFacts DEF Buckets
    <3> QED
      BY <1>1, <1>5, <3>1, BucketFacts DEF Held
  <2> QED
    BY <1>3, <2>1, <2>2, ElsewhereOK
<1> QED
  BY <1>4, <1>5

(* check() keeps the limits.                                                 *)
LEMMA CheckOK ==
  ASSUME LimitsInv, NEW i \in Instances, check(i)
  PROVE  LimitsInv'
<1>1. UNCHANGED <<distributed, clock, behind, shared, watched>>
  BY DEF check
<1>2. CASE ~distributed /\ checkOwn(i) /\ UNCHANGED <<local, sent>>
  BY <1>1, <1>2, OwnDecides, BucketFacts, TablesOK
<1>3. CASE /\ local' = [local EXCEPT ![i] = consume(local[i], 2, clock)]
           /\ Decides(<<"local", i>>, local[i], clock)
           /\ sent' = [sent EXCEPT ![i] = IF allowed(local[i], 2, clock) THEN clock - behind[i] ELSE Never]
           /\ UNCHANGED own
  <2>1. consume(local[i], 2, clock) \in Used(2) /\ inOrder(consume(local[i], 2, clock))
    <3>1. local[i] \in Used(2) \cup {NoBucket} /\ clock \in 0..MaxTime /\ clock =< clock
      BY BucketFacts
    <3> QED
      BY <3>1, ConsumeOrder
  <2>2. /\ local' \in [Instances -> Used(2) \cup {NoBucket}]
        /\ \A j \in Instances : inOrder(local'[j])
    BY <1>3, <2>1, BucketFacts
  <2>3. /\ sent' \in [Instances -> 0..MaxTime \cup {Never}]
        /\ \A j \in Instances : sent'[j] =< clock
    <3>1. behind[i] \in 0..MaxSkew /\ clock \in MaxSkew..MaxTime
      BY BucketFacts
    <3>2. PICK n \in 0..MaxTime : n = clock - behind[i] /\ n =< clock
      BY <3>1, RateLimitAssumption DEF RateLimitAssumption
    <3>3. Never \in 0..MaxTime \cup {Never} /\ Never =< clock
      BY BucketFacts DEF Never
    <3> QED
      BY <1>3, <3>2, <3>3, BucketFacts
  <2>4. CASE watched = <<"local", i>>
    <3>1. Held = local[i] /\ Held' = local'[i] /\ scale(watched) = 2
      BY <1>1, <2>4 DEF Held, scale, InRedis
    <3>2. Held' = consume(Held, scale(watched), clock) /\ Decides(watched, Held, clock)
      BY <1>3, <2>4, <3>1, BucketFacts
    <3>3. clock \in 0..clock
      BY BucketFacts
    <3>4. HistoryKept
      BY <1>1, <3>2, <3>3, DecisionOK
    <3> QED
      BY <1>1, <1>3, <2>2, <2>3, <3>4, BucketFacts, TablesOK
  <2>5. CASE watched # <<"local", i>>
    <3>1. UNCHANGED <<credit, hint>>
      BY <1>3, <2>5 DEF Decides
    <3>2. Held' = Held
      <4>1. watched = InRedis \/ \E j \in Instances : watched = <<"local", j>> \/ watched = <<"own", j>>
        BY BucketFacts DEF Buckets
      <4> QED
        BY <1>1, <1>3, <2>5, <4>1, BucketFacts DEF Held
    <3>3. HistoryKept
      BY <1>1, <3>1, <3>2, ElsewhereOK
    <3> QED
      BY <1>1, <1>3, <2>2, <2>3, <3>3, BucketFacts, TablesOK
  <2> QED
    BY <2>4, <2>5
<1> QED
  BY <1>2, <1>3 DEF check

(* The script keeps them, whether its reply arrives or is lost.              *)
LEMMA ScriptOK ==
  ASSUME LimitsInv, NEW i \in Instances, NEW lost \in BOOLEAN, runScript(i, lost)
  PROVE  LimitsInv'
<1>1. /\ UNCHANGED <<distributed, clock, behind, local, watched>> /\ sent[i] # Never
      /\ shared' = consume(shared, 1, sent[i]) /\ sent' = [sent EXCEPT ![i] = Never]
  BY DEF runScript
<1>2. sent[i] \in 0..MaxTime /\ sent[i] =< clock /\ sent[i] \in 0..clock
  BY <1>1, BucketFacts
<1>3. shared' \in Used(1) /\ inOrder(shared')
  BY <1>1, <1>2, BucketFacts, ConsumeOrder
<1>4. /\ sent' \in [Instances -> 0..MaxTime \cup {Never}]
      /\ \A j \in Instances : sent'[j] =< clock
  BY <1>1, BucketFacts DEF Never
<1>5. /\ own' \in [Instances -> Used(1) \cup {NoBucket}] /\ HistoryKept
      /\ \A j \in Instances : inOrder(own'[j])
  <2>1. CASE watched = InRedis
    <3>1. Held = shared /\ Held' = shared' /\ scale(watched) = 1
      BY <1>1, <2>1 DEF Held, scale, InRedis
    <3>3. Decides(watched, Held, sent[i]) \/ (Charged(0, sent[i]) /\ hint' = Never)
      BY <2>1, <3>1 DEF runScript
    <3>4. HistoryKept
      BY <1>1, <1>2, <3>1, <3>3, DecisionOK
    <3>5. consume(own[i], 1, clock) \in Used(1) /\ inOrder(consume(own[i], 1, clock))
      <4>1. own[i] \in Used(1) \cup {NoBucket} /\ clock \in 0..MaxTime /\ clock =< clock
        BY BucketFacts
      <4> QED
        BY <4>1, ConsumeOrder
    <3>6. own' = own \/ own' = [own EXCEPT ![i] = consume(own[i], 1, clock)]
      BY <2>1 DEF runScript
    <3> QED
      BY <3>4, <3>5, <3>6, BucketFacts
  <2>2. CASE watched # InRedis /\ checkOwn(i)
    BY <1>1, <2>2, OwnDecides
  <2>3. CASE watched # InRedis /\ Decides(InRedis, shared, sent[i]) /\ UNCHANGED own
    <3>1. UNCHANGED <<credit, hint>>
      BY <2>3 DEF Decides
    <3>2. Held' = Held
      BY <1>1, <2>3 DEF Held
    <3> QED
      BY <1>1, <2>3, <3>1, <3>2, ElsewhereOK, BucketFacts
  <2> QED
    BY <2>1, <2>2, <2>3 DEF runScript
<1> QED
  BY <1>1, <1>3, <1>4, <1>5, BucketFacts, TablesOK

(* A call that does not reach Redis keeps them.                              *)
LEMMA FailureOK ==
  ASSUME LimitsInv, NEW i \in Instances, redisFails(i)
  PROVE  LimitsInv'
<1>1. /\ UNCHANGED <<distributed, clock, behind, shared, local, watched>> /\ checkOwn(i)
      /\ sent' = [sent EXCEPT ![i] = Never]
  BY DEF redisFails
<1>2. /\ sent' \in [Instances -> 0..MaxTime \cup {Never}]
      /\ \A j \in Instances : sent'[j] =< clock
  BY <1>1, BucketFacts DEF Never
<1> QED
  BY <1>1, <1>2, OwnDecides, BucketFacts, TablesOK

(* Two windows suffice to fill the shared bucket.                            *)
LEMMA ExpireOK ==
  ASSUME LimitsInv, expire
  PROVE  LimitsInv'
<1>1. /\ UNCHANGED <<distributed, clock, behind, local, own, sent, watched, credit, hint>>
      /\ shared # NoBucket /\ clock - shared.used >= 2 * Window /\ shared' = NoBucket
  BY DEF expire
<1>2. HistoryKept
  <2>1. CASE watched # InRedis
    <3>1. Held' = Held
      BY <1>1, <2>1 DEF Held
    <3> QED
      BY <1>1, <3>1, ElsewhereOK
  <2>2. CASE watched = InRedis
    <3>1. Held = shared /\ Held' = shared' /\ scale(watched) = 1 /\ full(watched) = capacity
      BY <1>1, <2>2, LimitNumbers DEF Held, scale, full, InRedis
    <3> DEFINE d == clock - shared.at
    <3>2. shared.units \in 0..capacity /\ shared.at \in Nat /\ shared.at =< clock /\ d \in Nat /\ d >= 2 * Window
      BY <1>1, BucketFacts, LimitNumbers, RateLimitAssumption DEF Used, inOrder, RateLimitAssumption
    <3>3. worth(shared, 1, clock) = AtMost(shared.units + (1 * Limit) * (clock - shared.at), 1 * capacity)
      BY <1>1, <3>2, BucketFacts, RefillFits
    <3>4. Limit * d >= capacity /\ Limit * d \in Nat
      <4>1. Limit \in Nat /\ Window \in Nat /\ Burst \in Nat /\ 2 * Window \in Nat /\ Burst =< 2 * Limit
        BY RateLimitAssumption DEF RateLimitAssumption
      <4>2. Limit * (2 * Window) =< Limit * d /\ Limit * d \in Nat
        <5> HIDE DEF d
        <5> QED BY <3>2, <4>1, Rates
      <4>3. Window * Burst =< Window * (2 * Limit)
        BY <4>1, Rates
      <4>4. Limit * (2 * Window) = Window * (2 * Limit) /\ Burst * Window = Window * Burst
        BY <4>1
      <4>5. Window * (2 * Limit) \in Nat /\ Window * Burst \in Nat
        BY <4>1
      <4> HIDE DEF d
      <4> QED
        BY <4>2, <4>3, <4>4, <4>5 DEF capacity
    <3>5. worth(shared, 1, clock) = capacity
      BY <3>2, <3>3, <3>4, LimitNumbers, RateLimitAssumption DEF AtMost, RateLimitAssumption
    <3> QED
      BY <1>1, <3>1, <3>5, ForgottenOK
  <2> QED
    BY <2>1, <2>2
<1>3. inOrder(shared')
  BY <1>1 DEF inOrder
<1> QED
  BY <1>1, <1>2, <1>3, BucketFacts, TablesOK

(* A bucket that prune() drops would be full.                                *)
LEMMA PrunableIsFull ==
  ASSUME NEW k \in {1, 2}, NEW b \in Used(k) \cup {NoBucket}, inOrder(b), prunable(b),
         clock \in 0..MaxTime
  PROVE  worth(b, k, clock) = k * capacity
<1> DEFINE d == clock - b.at
<1>1. /\ b # NoBucket /\ b.units \in 0..(k * capacity) /\ b.at \in Nat /\ b.at =< clock /\ d \in Nat
      /\ d * Limit > capacity
  BY LimitNumbers, RateLimitAssumption DEF Used, inOrder, prunable, RateLimitAssumption
<1>2. worth(b, k, clock) = AtMost(b.units + (k * Limit) * (clock - b.at), k * capacity)
  BY <1>1, RefillFits
<1>3. (k * Limit) * d >= k * capacity /\ (k * Limit) * d \in Nat
  <2>1. Limit * d \in Nat /\ Limit * d = d * Limit
    BY <1>1, RateLimitAssumption DEF RateLimitAssumption
  <2>2. (k * Limit) * d = k * (Limit * d)
    BY <1>1, RateLimitAssumption DEF RateLimitAssumption
  <2> HIDE DEF d
  <2> QED
    BY <1>1, <2>1, <2>2, LimitNumbers
<1> QED
  BY <1>1, <1>2, <1>3, LimitNumbers DEF AtMost

(* prune() keeps the limits.                                                 *)
LEMMA PruneOK ==
  ASSUME LimitsInv, NEW i \in Instances, prune(i)
  PROVE  LimitsInv'
<1>1. /\ UNCHANGED <<distributed, clock, behind, shared, sent, watched, credit, hint>>
      /\ local' = [local EXCEPT ![i] = IF prunable(@) THEN NoBucket ELSE @]
      /\ own' = [own EXCEPT ![i] = IF prunable(@) THEN NoBucket ELSE @]
  BY DEF prune
<1>2. inOrder(NoBucket)
  BY DEF inOrder
<1>3. /\ local' \in [Instances -> Used(2) \cup {NoBucket}] /\ own' \in [Instances -> Used(1) \cup {NoBucket}]
      /\ \A j \in Instances : inOrder(local'[j]) /\ inOrder(own'[j])
  BY <1>1, <1>2, BucketFacts
<1>4. Held' = Held \/ (Held' = NoBucket /\ prunable(Held))
  <2>1. watched = InRedis \/ \E j \in Instances : watched = <<"local", j>> \/ watched = <<"own", j>>
    BY BucketFacts DEF Buckets
  <2> QED
    BY <1>1, <2>1, BucketFacts DEF Held
<1>5. HistoryKept
  <2>1. CASE Held' = Held
    BY <1>1, <2>1, ElsewhereOK
  <2>2. CASE Held' = NoBucket /\ prunable(Held)
    BY <1>1, <2>2, HeldFacts, PrunableIsFull, ForgottenOK
  <2> QED
    BY <1>4, <2>1, <2>2
<1> QED
  BY <1>1, <1>3, <1>5, BucketFacts, TablesOK

(* The start keeps the limits.                                               *)
LEMMA LimitsStart == RateLimitInit => LimitsInv
<1> SUFFICES ASSUME RateLimitInit PROVE LimitsInv
  OBVIOUS
<1>1. full(watched) = scale(watched) * capacity /\ full(watched) \in Nat
  BY LimitNumbers DEF RateLimitInit
<1>2. RateLimitTypeOK
  <2>1. clock \in 0..MaxTime /\ sent \in [Instances -> 0..MaxTime \cup {Never}]
    BY RateLimitAssumption DEF RateLimitInit, RateLimitAssumption
  <2>2. /\ shared \in Bucket(capacity) /\ local \in [Instances -> Bucket(2 * capacity)]
        /\ own \in [Instances -> Bucket(capacity)]
    BY DEF RateLimitInit, Bucket
  <2>3. credit \in Int /\ credit =< full(watched)
    BY <1>1 DEF RateLimitInit
  <2> QED
    BY <2>1, <2>2, <2>3 DEF RateLimitInit, RateLimitTypeOK
<1>3. InOrder
  BY RateLimitAssumption DEF RateLimitInit, InOrder, inOrder, Never, RateLimitAssumption
<1>4. Held = NoBucket
  BY DEF RateLimitInit, Held, Buckets
<1> QED
  BY <1>1, <1>2, <1>3, <1>4 DEF RateLimitInit, LimitsInv, Covered, Told, worth

(* The limiters keep them.                                                   *)
LEMMA NextLimits == LimitsInv /\ [RateLimitNext]_limitVars => LimitsInv'
<1> SUFFICES ASSUME LimitsInv, [RateLimitNext]_limitVars PROVE LimitsInv'
  OBVIOUS
<1>1. CASE tick
  <2>1. HistoryKept
    BY <1>1, TickOK
  <2>2. clock' = clock + 1 /\ clock' \in MaxSkew..MaxTime /\ clock' \in 0..MaxTime
    <3>1. clock \in 0..MaxTime /\ clock \in MaxSkew..MaxTime /\ clock < MaxTime /\ clock' = clock + 1
      BY <1>1, BucketFacts DEF tick
    <3> QED
      BY <3>1, RateLimitAssumption DEF RateLimitAssumption
  <2>3. RateLimitTypeOK'
    BY <1>1, <2>1, <2>2, BucketFacts DEF tick, LimitsInv, RateLimitTypeOK, HistoryKept
  <2>4. InOrder'
    <3>1. ASSUME NEW k \in {1, 2}, NEW b \in Used(k) \cup {NoBucket}, inOrder(b)
          PROVE  b = NoBucket \/ (b.at =< b.used /\ b.used =< clock')
      BY <2>2, <3>1, BucketFacts, RateLimitAssumption DEF inOrder, Used, RateLimitAssumption
    <3>2. \A i \in Instances : sent[i] =< clock'
      BY <2>2, BucketFacts DEF Never
    <3> QED
      BY <1>1, <3>1, <3>2, BucketFacts DEF tick, InOrder, inOrder
  <2> QED
    BY <2>1, <2>3, <2>4 DEF LimitsInv, HistoryKept
<1>2. CASE UNCHANGED limitVars
  BY <1>2 DEF limitVars, LimitsInv, RateLimitTypeOK, InOrder, inOrder, Covered, Told, Held
<1> QED
  BY <1>1, <1>2, CheckOK, ScriptOK, FailureOK, ExpireOK, PruneOK DEF RateLimitNext

(* For any policy, any number of instances with clocks that differ, script   *)
(* calls that are late, lost or fail, and buckets that are forgotten: no     *)
(* stretch of time sees more requests allowed than burst and rate permit,    *)
(* plus, of the shared bucket, what the rate is worth for the time its       *)
(* scripts were late; and a refused client that comes back when it was told  *)
(* to finds a token (token-bucket.ts, rate-limiter.ts).                      *)
THEOREM LimitsAreKept == AccountsSpec => []LimitsHold
<1>1. AccountsInit => LimitsInv
  BY LimitsStart DEF AccountsInit
<1>2. LimitsInv /\ [AccountsNext]_<<sessionVars, limitVars, reviewVars, moderationVars,
                                    libraryVars, subject>> => LimitsInv'
  BY ComponentSteps, NextLimits
<1>3. LimitsInv => LimitsHold
  <2> SUFFICES ASSUME LimitsInv PROVE RateLimitTypeOK /\ LimitHolds /\ RetryAfterHonest
    BY DEF LimitsHold
  <2> DEFINE k == scale(watched)
             w == worth(Held, k, clock)
  <2>1. w \in 0..(k * capacity) /\ k * capacity \in Nat /\ cost \in Nat /\ cost =< k * capacity
    BY HeldFacts, RefillFits, LimitNumbers
  <2>2. LimitHolds
    BY <2>1, HeldFacts DEF LimitsInv, Covered, LimitHolds
  <2>3. ASSUME hint # Never, NEW now \in hint..clock PROVE allowed(Held, k, now)
    <3> DEFINE v == worth(Held, k, now)
    <3>1. hint \in Nat /\ now \in 0..MaxTime /\ now \in Nat /\ hint =< now /\ now =< clock
      BY <2>3, HeldFacts, RateLimitAssumption DEF RateLimitAssumption
    <3>2. CASE Held = NoBucket
      BY <2>1, <3>1, <3>2, HeldFacts, RefillFits, ConsumeFits
    <3>3. CASE Held # NoBucket
      <4> DEFINE r == k * Limit
                 d == now - Held.at
                 e == hint - Held.at
      <4>1. hint >= Held.at /\ Held.units + r * e >= cost
        BY <2>3, <3>3 DEF LimitsInv, Told
      <4>2. Held.units \in Nat /\ Held.at \in Nat /\ Held.at =< now /\ d \in Nat /\ e \in Nat /\ e =< d
        BY <3>1, <3>3, <4>1, HeldFacts DEF Used, Never
      <4>3. v = AtMost(Held.units + r * d, k * capacity)
        BY <3>1, <3>3, <4>2, HeldFacts, RefillFits
      <4>4. r \in Nat
        BY HeldFacts, LimitNumbers
      <4>5. allowed(Held, k, now) <=> v >= cost
        BY <3>1, HeldFacts, ConsumeFits
      <4> HIDE DEF r, d, e, v
      <4>6. r * e =< r * d /\ r * e \in Nat /\ r * d \in Nat
        BY <4>2, <4>4, Rates
      <4> QED
        BY <2>1, <4>1, <4>2, <4>3, <4>5, <4>6 DEF AtMost
    <3> QED
      BY <3>2, <3>3
  <2>4. RetryAfterHonest
    BY <2>3 DEF RetryAfterHonest, Held
  <2> QED
    BY <2>2, <2>4 DEF LimitsInv
<1> QED
  BY <1>1, <1>2, <1>3, PTL DEF AccountsSpec
==============================================================================
