--------------------------- MODULE CatalogueProofs ----------------------------
(***************************************************************************)
(* What moves in the runs of MCCatalogue, for any value of the constants:  *)
(* the lease lock, the pages, the work that is retried, mapped or seeded,  *)
(* the search and the comparison, the ring of outcomes, the walk through   *)
(* the pages, the daily history, the inverted index, the reliability       *)
(* score, the slugs of an import and the rate windows.                     *)
(***************************************************************************)
EXTENDS MCCatalogue, FiniteSetTheorems, SequenceTheorems, WellFoundedInduction, TLAPS

(* A lease in force belongs to a run at work and is the one in the store.    *)
GrantBacked ==
  \A h \in Runs : granted[h] > 0 => phase[h] = "running" /\ holder = h /\ granted[h] =< lease

(* A punctually renewed run holds the lock, and its lease is what the time   *)
(* since its last renewal has left of it.                                    *)
RunningHolds ==
  \A h \in punctual : /\ h \in Renewing
                      /\ phase[h] = "running" /\ holder = h
                      /\ lease = Ttl - RenewEvery + renewIn[h] /\ lease > 0

IInv == TypeOK /\ GrantBacked /\ RunningHolds

(* Nobody holds the lock at first.                                           *)
LEMMA InitOK == Init => IInv
  BY LockAssumption DEF Init, IInv, TypeOK, GrantBacked, RunningHolds, LockAssumption

(* While a punctual task runs nobody else finds the lock vacant, and its     *)
(* token is the one in the store.                                            *)
LEMMA NotVacant ==
  ASSUME IInv, NEW h \in punctual
  PROVE  ~vacant /\ owns(h)
  BY LockAssumption DEF IInv, TypeOK, RunningHolds, vacant, owns, LockAssumption

(* Every step preserves the invariant.                                       *)
LEMMA NextOK == IInv /\ [Next]_vars => IInv'
<1> SUFFICES ASSUME IInv, [Next]_vars PROVE IInv'
  OBVIOUS
<1>0. UNCHANGED redis
  BY DEF Next, vars
<1> USE <1>0, LockAssumption DEF LockAssumption
<1>1. ASSUME NEW h \in Runs, acquire(h) PROVE IInv'
  <2>1. TypeOK'
    BY <1>1 DEF acquire, IInv, TypeOK
  <2>2. GrantBacked'
    BY <1>1 DEF acquire, vacant, IInv, TypeOK, GrantBacked
  <2>3. RunningHolds'
    <3>1. punctual = {}
      BY <1>1, NotVacant DEF acquire
    <3> QED
      BY <1>1, <3>1 DEF acquire, IInv, TypeOK, RunningHolds
  <2> QED
    BY <2>1, <2>2, <2>3 DEF IInv
<1>2. ASSUME NEW h \in Runs, acquireReplyLost(h) PROVE IInv'
  BY <1>2 DEF acquireReplyLost, vacant, IInv, TypeOK, GrantBacked, RunningHolds
<1>3. ASSUME NEW h \in Runs, extend(h) PROVE IInv'
  <2>1. CASE owns(h)
    <3>1. TypeOK'
      BY <1>3, <2>1 DEF extend, IInv, TypeOK
    <3>2. GrantBacked'
      BY <1>3, <2>1 DEF extend, owns, IInv, TypeOK, GrantBacked
    <3>3. RunningHolds'
      BY <1>3, <2>1 DEF extend, owns, IInv, TypeOK, RunningHolds
    <3> QED
      BY <3>1, <3>2, <3>3 DEF IInv
  <2>2. CASE ~owns(h)
    <3>1. h \notin punctual
      BY <1>3, <2>2, NotVacant DEF extend
    <3> QED
      BY <1>3, <2>2, <3>1 DEF extend, IInv, TypeOK, GrantBacked, RunningHolds
  <2> QED
    BY <2>1, <2>2
<1>4. ASSUME NEW h \in Runs, extendFails(h) PROVE IInv'
  BY <1>4 DEF extendFails, IInv, TypeOK, GrantBacked, RunningHolds
<1>5. ASSUME NEW h \in Runs, taskEnds(h) PROVE IInv'
  BY <1>5 DEF taskEnds, IInv, TypeOK, GrantBacked, RunningHolds
<1>6. ASSUME NEW h \in Runs, release(h) PROVE IInv'
  <2>1. TypeOK'
    BY <1>6 DEF release, IInv, TypeOK
  <2>2. CASE owns(h)
    <3>1. granted[h] = 0
      BY <1>6, <2>2 DEF release, IInv, TypeOK, GrantBacked
    <3> QED
      BY <1>6, <2>1, <2>2, <3>1
         DEF release, owns, IInv, TypeOK, GrantBacked, RunningHolds
  <2>3. CASE ~owns(h)
    BY <1>6, <2>1, <2>3 DEF release, IInv, TypeOK, GrantBacked, RunningHolds
  <2> QED
    BY <2>2, <2>3
<1>7. ASSUME NEW h \in Runs, releaseFails(h) PROVE IInv'
  BY <1>7 DEF releaseFails, IInv, TypeOK, GrantBacked, RunningHolds
<1>8. ASSUME NEW h \in Runs, crash(h) PROVE IInv'
  BY <1>8 DEF crash, IInv, TypeOK, GrantBacked, RunningHolds
<1>9. CASE prune
  <2>1. TypeOK' /\ GrantBacked'
    BY <1>9 DEF prune, IInv, TypeOK, GrantBacked
  <2>2. RunningHolds'
    BY <1>9, NotVacant DEF prune, vacant, IInv, RunningHolds
  <2> QED
    BY <2>1, <2>2 DEF IInv
<1>10. CASE elapse
  <2>1. TypeOK'
    BY <1>10 DEF elapse, CountDown, IInv, TypeOK
  <2>2. GrantBacked'
    BY <1>10 DEF elapse, CountDown, IInv, TypeOK, GrantBacked
  <2>3. RunningHolds'
    <3> SUFFICES ASSUME NEW h \in punctual'
                 PROVE  /\ h \in Renewing /\ phase'[h] = "running" /\ holder' = h
                        /\ lease' = Ttl - RenewEvery + renewIn'[h] /\ lease' > 0
      BY DEF RunningHolds
    <3>1. h \in punctual /\ h \in Runs /\ RenewEvery - renewIn'[h] < Ttl
      BY <1>10 DEF elapse, IInv, TypeOK
    <3>2. phase[h] = "running" /\ holder = h /\ lease = Ttl - RenewEvery + renewIn[h] /\ lease > 0
      BY <3>1 DEF IInv, RunningHolds
    <3>3. h \in Renewing
      BY <3>1 DEF IInv, RunningHolds
    <3>4. renewIn'[h] = renewIn[h] - 1 /\ renewIn[h] \in Int
      BY <1>10, <3>1, <3>2, <3>3 DEF elapse, IInv, TypeOK
    <3> QED
      BY <1>10, <3>1, <3>2, <3>3, <3>4 DEF elapse, CountDown, IInv, TypeOK
  <2> QED
    BY <2>1, <2>2, <2>3 DEF IInv
<1>11. CASE UNCHANGED vars
  BY <1>11 DEF vars, IInv, TypeOK, GrantBacked, RunningHolds
<1> QED
  BY <1>1, <1>2, <1>3, <1>4, <1>5, <1>6, <1>7, <1>8, <1>9, <1>10, <1>11 DEF Next

(* The store, the phases and the countdowns keep their types, no two leases  *)
(* are in force at once, whatever is lost or late, and withRenewingLock()    *)
(* excludes: a task renewed in time holds the lock for as long as it runs,   *)
(* for any lease, period and lag (lock.ts).                                  *)
THEOREM LocksAlwaysExclude == Spec => []LocksExclude
<1>1. Spec => []IInv
  BY InitOK, NextOK, PTL DEF Spec
<1>2. IInv => LeaseExclusion
  BY DEF IInv, GrantBacked, LeaseExclusion
<1>3. IInv => RenewedExclusion
  BY DEF IInv, RunningHolds, RenewedExclusion
<1>4. IInv => LocksExclude
  BY <1>2, <1>3 DEF IInv, LocksExclude
<1> QED
  BY <1>1, <1>4, PTL

(* No step of anybody else takes an unexpired lock from a run that is at     *)
(* work: what the token check of RELEASE_SCRIPT is for (lock.ts:45-50).      *)
THEOREM LocksAreKept == Spec => HeldUntilExpiry
<1> DEFINE kept == \A h \in Runs :
             phase[h] = "running" /\ phase'[h] = "running" /\ holder = h /\ lease > 0
               => holder' = h
<1>1. Spec => []IInv
  BY InitOK, NextOK, PTL DEF Spec
<1>2. ASSUME IInv, Next PROVE kept
  <2>1. ASSUME NEW h \in Runs, acquire(h) \/ acquireReplyLost(h) PROVE kept
    BY <2>1, LockAssumption DEF acquire, acquireReplyLost, vacant, LockAssumption
  <2>2. ASSUME NEW h \in Runs, release(h) PROVE kept
    BY <1>2, <2>2 DEF release, owns, IInv, TypeOK
  <2>3. ASSUME NEW h \in Runs,
               extend(h) \/ extendFails(h) \/ taskEnds(h) \/ releaseFails(h) \/ crash(h)
        PROVE  kept
    BY <2>3 DEF extend, extendFails, taskEnds, releaseFails, crash
  <2>4. CASE prune \/ elapse
    BY <2>4 DEF prune, elapse
  <2> QED
    BY <1>2, <2>1, <2>2, <2>3, <2>4 DEF Next
<1>3. IInv /\ [Next]_vars => [kept]_vars
  BY <1>2
<1>4. Spec => [][kept]_vars
  BY <1>1, <1>3, PTL DEF Spec
<1> QED
  BY <1>4 DEF HeldUntilExpiry

-----------------------------------------------------------------------------
(* Several components in one specification                                   *)

(* A component moves only while it is the subject.                           *)
LEMMA OwnSteps ==
  ASSUME SubjectNext
  PROVE  /\ subject' = subject
         /\ subject = "tabs" => tabsNext
         /\ subject = "generate" => generateNext
         /\ subject = "palette" => paletteNext
         /\ subject = "toasts" => toastNext
         /\ subject = "assistant" => assistantNext
         /\ subject = "copying" => copyNext
         /\ subject = "retry" => retryNext
         /\ subject = "map" => mapNext
         /\ subject = "seed" => seedNext
         /\ subject = "discovery" => discoveryNext
         /\ subject = "verdicts" => verdictsNext
<1>1. subject' = subject
  BY DEF SubjectNext, RestStays
<1>2. StructuresNext \/ ServicesNext
  BY DEF SubjectNext
<1>3. StructuresNext => subject \in Structures
  BY DEF StructuresNext, Structures
<1>4. \A s \in Structures : s \notin {"tabs", "generate", "palette", "toasts", "assistant", "copying",
                                      "retry", "map", "seed", "discovery", "verdicts"}
  BY DEF Structures
<1>5. ServicesNext =>
        /\ subject = "tabs" => tabsNext
        /\ subject = "generate" => generateNext
        /\ subject = "palette" => paletteNext
        /\ subject = "toasts" => toastNext
        /\ subject = "assistant" => assistantNext
        /\ subject = "copying" => copyNext
        /\ subject = "retry" => retryNext
        /\ subject = "map" => mapNext
        /\ subject = "seed" => seedNext
        /\ subject = "discovery" => discoveryNext
        /\ subject = "verdicts" => verdictsNext
  BY DEF ServicesNext
<1> QED
  BY <1>1, <1>2, <1>3, <1>4, <1>5

(* The cache moves only while it is the subject.                             *)
LEMMA StoreSteps ==
  ASSUME [SubjectNext]_allVars
  PROVE  lruNextStep \/ UNCHANGED lruVars
<1>1. CASE SubjectNext
  <2>1. (StructuresNext \/ ServicesNext) /\ (subject = "lru" \/ UNCHANGED lruVars)
    BY <1>1 DEF SubjectNext, RestStays
  <2>2. StructuresNext /\ subject = "lru" => lruNextStep
    BY DEF StructuresNext
  <2>3. ServicesNext => subject # "lru"
    BY DEF ServicesNext
  <2> QED
    BY <2>1, <2>2, <2>3
<1>2. CASE UNCHANGED allVars
  BY <1>2 DEF allVars
<1> QED
  BY <1>1, <1>2

(* The behaviours of the run are behaviours of the cache's store, whose      *)
(* theorem is ListIsRecency of CacheAsideProofs.                             *)
LEMMA StoreAlone == SubjectSpec => LruSpec
<1>1. SubjectInit => lruInit
  BY DEF SubjectInit
<1>2. [SubjectNext]_allVars => [lruNextStep]_lruVars
  BY StoreSteps
<1> QED
  BY <1>1, <1>2, PTL DEF SubjectSpec, LruSpec

-----------------------------------------------------------------------------
(* The tabs with code                                                        *)

(* A request of the tabs that is not cancelled is for the language chosen.   *)
TabInv ==
  /\ fetches \in [Fetches -> [of : Languages \cup {"none"}, cancelled : BOOLEAN]]
  /\ tab \in [language : Languages, code : Languages \cup {"none", "failed"}, loading : BOOLEAN]
  /\ \A f \in Fetches : fetches[f] # noFetch /\ ~fetches[f].cancelled => fetches[f].of = tab.language
  /\ TabShowsItsLanguage

(* The invariant holds at first.                                             *)
LEMMA TabStart == snippetsInit => TabInv
<1> SUFFICES ASSUME snippetsInit PROVE TabInv
  OBVIOUS
<1> DEFINE first == CHOOSE f \in Fetches : TRUE
           r == [of |-> "curl", cancelled |-> FALSE]
<1>1. r \in [of : Languages \cup {"none"}, cancelled : BOOLEAN]
      /\ noFetch \in [of : Languages \cup {"none"}, cancelled : BOOLEAN] /\ r.of = "curl"
  BY DEF Languages, noFetch
<1>2. fetches = [[f \in Fetches |-> noFetch] EXCEPT ![first] = r]
  BY DEF snippetsInit
<1> HIDE DEF first, r
<1>3. fetches \in [Fetches -> [of : Languages \cup {"none"}, cancelled : BOOLEAN]]
      /\ \A f \in Fetches : fetches[f] = noFetch \/ fetches[f] = r
  BY <1>1, <1>2
<1>4. /\ tab \in [language : Languages, code : Languages \cup {"none", "failed"}, loading : BOOLEAN]
      /\ tab.language = "curl" /\ tab.loading
  BY DEF snippetsInit, Languages
<1> QED
  BY <1>1, <1>3, <1>4 DEF TabInv, TabShowsItsLanguage

(* A click or an answer, in whatever order.                                  *)
LEMMA TabStep == TabInv /\ tabsNext => TabInv'
<1> SUFFICES ASSUME TabInv, tabsNext PROVE TabInv'
  OBVIOUS
<1> DEFINE Fetch == [of : Languages \cup {"none"}, cancelled : BOOLEAN]
           Tab == [language : Languages, code : Languages \cup {"none", "failed"}, loading : BOOLEAN]
<1>0. fetches \in [Fetches -> Fetch] /\ tab \in Tab /\ noFetch \in Fetch
  BY DEF TabInv, noFetch
<1>1. ASSUME NEW f \in Fetches, NEW language \in TabLanguages, setLanguage(f, language) PROVE TabInv'
  <2> DEFINE new == [of |-> language, cancelled |-> FALSE]
  <2>1. language \in Languages /\ new \in Fetch /\ new.of = language
    BY DEF TabLanguages
  <2>2. tab' = [tab EXCEPT !.language = language, !.loading = TRUE]
    BY <1>1 DEF setLanguage
  <2>3. tab' \in Tab /\ tab'.language = language /\ tab'.loading
    BY <1>0, <2>1, <2>2
  <2>4. ASSUME NEW g \in Fetches
        PROVE  /\ fetches'[g] \in Fetch
               /\ fetches'[g] # noFetch /\ ~fetches'[g].cancelled => fetches'[g].of = language
    <3>1. CASE g = f
      <4>1. fetches'[g] = new
        BY <1>1, <3>1 DEF setLanguage
      <4> QED
        BY <2>1, <4>1
    <3>2. CASE g # f /\ fetches[g] # noFetch
      <4>1. fetches'[g] = [fetches[g] EXCEPT !.cancelled = TRUE]
        BY <1>1, <3>2 DEF setLanguage
      <4> QED
        BY <1>0, <4>1
    <3>3. CASE g # f /\ fetches[g] = noFetch
      <4>1. fetches'[g] = noFetch
        BY <1>1, <3>3 DEF setLanguage
      <4> QED
        BY <1>0, <4>1
    <3> QED
      BY <3>1, <3>2, <3>3
  <2>5. fetches' = [g \in Fetches |-> fetches'[g]]
    BY <1>1 DEF setLanguage
  <2>6. fetches' \in [Fetches -> Fetch]
    BY <2>4, <2>5
  <2> QED
    BY <2>3, <2>4, <2>6 DEF TabInv, TabShowsItsLanguage
<1>2. ASSUME NEW f \in Fetches, NEW code, fetches[f] # noFetch, arrive(f, code),
             code \in {fetches[f].of, "failed"}
      PROVE  TabInv'
  <2>1. fetches' \in [Fetches -> Fetch] /\ fetches'[f] = noFetch
        /\ \A g \in Fetches \ {f} : fetches'[g] = fetches[g]
    BY <1>0, <1>2 DEF arrive
  <2>2. CASE fetches[f].cancelled
    <3>1. tab' = tab
      BY <1>2, <2>2 DEF arrive
    <3> QED
      BY <1>0, <2>1, <3>1 DEF TabInv, TabShowsItsLanguage
  <2>3. CASE ~fetches[f].cancelled
    <3>1. tab' = [tab EXCEPT !.code = code, !.loading = FALSE]
      BY <1>2, <2>3 DEF arrive
    <3>2. code \in {tab.language, "failed"}
      BY <1>2, <2>3 DEF TabInv
    <3>3. tab' \in Tab /\ tab'.language = tab.language /\ tab'.code = code
      BY <1>0, <3>1, <3>2
    <3> QED
      BY <2>1, <3>2, <3>3 DEF TabInv, TabShowsItsLanguage
  <2> QED
    BY <2>2, <2>3
<1> QED
  BY <1>1, <1>2 DEF tabsNext

-----------------------------------------------------------------------------
(* The snippets                                                              *)

(* What was generated is what the generators make of the request.            *)
GeneratedInv ==
  \/ generated = [language |-> "none"]
  \/ \E language \in Languages, r \in Requests :
       generated = [language |-> language, request |-> r, sends |-> generateCode(language, r)]

(* In the languages of the tabs, a credential that the tabs can ask for is   *)
(* put where the request asks for it.                                        *)
LEMMA CredentialKept ==
  ASSUME NEW language \in TabLanguages, NEW r \in Requests, r.auth \in {"bearer", "header", "none"}
  PROVE  generateCode(language, r).credential = r.auth
<1> DEFINE context == buildContext(r)
<1>1. context.auth = r.auth
  BY DEF buildContext
<1>2. context.secretPlacement = IF r.auth = "none" THEN "null" ELSE "header"
  BY DEF buildContext
<1>3. ASSUME NEW placements, "header" \in placements, "null" \notin placements
      PROVE  sends(context, placements).credential = r.auth
  BY <1>1, <1>2, <1>3 DEF sends
<1> HIDE DEF context
<1>4. /\ sends(context, {"header"}).credential = r.auth
      /\ sends(context, {"header", "query"}).credential = r.auth
      /\ sends(context, {"header", "query", "basic"}).credential = r.auth
  BY <1>3
<1>5. curl(context).credential = r.auth
  <2>1. sends(context, {"header", "basic"}).credential = r.auth
    BY <1>3
  <2>2. context.secretPlacement # "query"
    BY <1>2
  <2> QED
    BY <2>1, <2>2 DEF curl, sends
<1>6. generateCode(language, r) \in {curl(context), renderFetch(context), renderPython(context), go(context),
         java(context), csharp(context), php(context), ruby(context), rust(context)}
  <2> HIDE DEF Languages
  <2>1. generateCode(language, r) =
          CASE language = "curl" -> curl(context)
            [] language \in {"javascript-fetch", "typescript-fetch"} -> renderFetch(context)
            [] language = "javascript-axios" -> axios(context)
            [] language \in {"python-requests", "python-httpx"} -> renderPython(context)
            [] language = "go" -> go(context)
            [] language = "java" -> java(context)
            [] language = "csharp" -> csharp(context)
            [] language = "php" -> php(context)
            [] language = "ruby" -> ruby(context)
            [] language = "rust" -> rust(context)
    BY DEF generateCode, context
  <2>2. language \in {"curl", "javascript-fetch", "typescript-fetch", "python-requests", "go", "java",
                      "csharp", "php", "ruby", "rust"}
    BY DEF TabLanguages, Languages
  <2> QED
    BY <2>1, <2>2
<1> QED
  BY <1>4, <1>5, <1>6 DEF renderFetch, renderPython, go, java, csharp, php, ruby, rust

(* Hence the property.                                                       *)
LEMMA GeneratedRight == GeneratedInv => SnippetsAuthenticate
<1> SUFFICES ASSUME GeneratedInv, generated.language \in TabLanguages,
                    NEW authType \in {"apiKey", "oauth2", "none"}, generated.request.auth = tabAuth(authType)
             PROVE  generated.sends.credential = sentByExecutor(generated.request).credential
  BY DEF SnippetsAuthenticate
<1>1. generated # [language |-> "none"]
  BY DEF TabLanguages, Languages
<1>2. PICK language \in Languages, r \in Requests :
        generated = [language |-> language, request |-> r, sends |-> generateCode(language, r)]
  BY <1>1 DEF GeneratedInv
<1>3. language \in TabLanguages /\ generated.request = r /\ generated.sends = generateCode(language, r)
  BY <1>2
<1>4. r.auth \in {"bearer", "header", "none"}
  BY <1>3 DEF tabAuth
<1>5. generateCode(language, r).credential = r.auth
  BY <1>3, <1>4, CredentialKept
<1> QED
  BY <1>3, <1>5 DEF sentByExecutor

(* A snippet is generated.                                                   *)
LEMMA GeneratedStep == generateNext => GeneratedInv'
  BY DEF generateNext, postCode, GeneratedInv

-----------------------------------------------------------------------------
(* The copy button                                                           *)

(* One timer runs while the button says "Copied", and it is as old as the    *)
(* last copy.                                                                *)
CopyInv ==
  /\ copied \in BOOLEAN /\ sinceCopy \in 0..ResetAfter
  /\ copyTimers = IF copied THEN {ResetAfter - sinceCopy} ELSE {}
  /\ CopyAcknowledged

(* A text is copied, refused, or time passes.                                *)
LEMMA CopyStep == CopyInv /\ copyNext => CopyInv'
<1> SUFFICES ASSUME CopyInv, copyNext PROVE CopyInv'
  OBVIOUS
<1> USE PageAssumption DEF PageAssumption, CopyInv, CopyAcknowledged
<1>1. CASE copy \/ denied
  BY <1>1 DEF copy, denied
<1>2. CASE written
  BY <1>2 DEF written
<1>3. CASE copyElapse
  <2>1. copied /\ copyTimers = {ResetAfter - sinceCopy} /\ sinceCopy < ResetAfter
    BY <1>3 DEF copyElapse
  <2>2. sinceCopy' = sinceCopy + 1
    BY <1>3, <2>1 DEF copyElapse
  <2>3. copied' = (copied /\ 1 \notin copyTimers) /\ copyTimers' = {t - 1 : t \in copyTimers} \ {0}
    BY <1>3 DEF copyElapse
  <2>4. {t - 1 : t \in copyTimers} = {ResetAfter - sinceCopy - 1}
    BY <2>1
  <2>5. CASE ResetAfter - sinceCopy = 1
    <3>1. ~copied' /\ copied' \in BOOLEAN
      BY <2>1, <2>3, <2>5
    <3>2. copyTimers' = {}
      BY <2>3, <2>4, <2>5
    <3> QED
      BY <2>2, <2>5, <3>1, <3>2
  <2>6. CASE ResetAfter - sinceCopy # 1
    <3>1. copied' /\ copied' \in BOOLEAN
      BY <2>1, <2>3, <2>6
    <3>2. copyTimers' = {ResetAfter - sinceCopy'}
      BY <2>1, <2>2, <2>3, <2>4, <2>6
    <3> QED
      BY <2>1, <2>2, <2>6, <3>1, <3>2
  <2> QED
    BY <2>5, <2>6
<1> QED
  BY <1>1, <1>2, <1>3 DEF copyNext

-----------------------------------------------------------------------------
(* The notifications                                                         *)

(* Every id was issued.                                                      *)
ToastInv ==
  /\ toasts \in Seq(Nat) /\ nextId \in Nat
  /\ \A i \in DOMAIN toasts : toasts[i] < nextId
  /\ ToastsExpire

(* The stack without one entry, by its positions.                            *)
LEMMA RemoveAtIs ==
  ASSUME NEW s \in Seq(Nat), NEW i \in DOMAIN s
  PROVE  /\ RemoveAt(s, i) \in Seq(Nat) /\ Len(RemoveAt(s, i)) = Len(s) - 1
         /\ \A k \in DOMAIN RemoveAt(s, i) :
              RemoveAt(s, i)[k] = s[IF k < i THEN k ELSE k + 1]
<1> DEFINE a == SubSeq(s, 1, i - 1)
           b == SubSeq(s, i + 1, Len(s))
<1>1. PICK n \in Nat : n = Len(s)
  OBVIOUS
<1>2. i \in 1..n /\ i - 1 \in Int /\ i + 1 \in Int /\ \A k \in 1..n : s[k] \in Nat
  BY <1>1
<1>3. a \in Seq(Nat) /\ Len(a) = i - 1 /\ \A k \in 1..(i - 1) : a[k] = s[k]
  <2>1. \A k \in 1..(i - 1) : s[k] \in Nat
    BY <1>2
  <2>2. a \in Seq(Nat) /\ Len(a) = (IF 1 <= i - 1 THEN i - 1 - 1 + 1 ELSE 0)
        /\ \A k \in 1..(i - 1 - 1 + 1) : a[k] = s[1 + k - 1]
    BY <1>2, <2>1, SubSeqProperties
  <2> HIDE DEF a
  <2>3. \A k \in 1..(i - 1) : 1 + k - 1 = k
    BY <1>2
  <2> QED
    BY <1>2, <2>2, <2>3
<1>4. b \in Seq(Nat) /\ Len(b) = n - i /\ \A k \in 1..(n - i) : b[k] = s[i + k]
  <2>1. \A k \in (i + 1)..n : s[k] \in Nat
    BY <1>2
  <2>2. b \in Seq(Nat) /\ Len(b) = (IF i + 1 <= n THEN n - (i + 1) + 1 ELSE 0)
        /\ \A k \in 1..(n - (i + 1) + 1) : b[k] = s[i + 1 + k - 1]
    <3>1. b = SubSeq(s, i + 1, n)
      BY <1>1
    <3>2. n \in Int /\ i + 1 \in Int
      BY <1>2
    <3> HIDE DEF b
    <3> QED
      BY <2>1, <3>1, <3>2, SubSeqProperties
  <2> HIDE DEF b
  <2>0. i \in 1..n
    BY <1>2
  <2>3. n - (i + 1) + 1 = n - i /\ (i + 1 <= n \/ n - i = 0)
    BY <2>0
  <2>4. Len(b) = n - i
    BY <2>2, <2>3
  <2>5. ASSUME NEW k \in 1..(n - i) PROVE b[k] = s[i + k]
    <3>1. b[k] = s[i + 1 + k - 1]
      BY <2>2, <2>3
    <3>2. i + 1 + k - 1 = i + k
      BY <2>0
    <3> QED
      BY <3>1, <3>2
  <2> QED
    BY <2>2, <2>4, <2>5
<1>5. RemoveAt(s, i) = a \o b
  BY DEF RemoveAt
<1> HIDE DEF a, b
<1>6. /\ a \o b \in Seq(Nat) /\ Len(a \o b) = Len(a) + Len(b)
      /\ \A k \in 1..(Len(a) + Len(b)) : (a \o b)[k] = IF k <= Len(a) THEN a[k] ELSE b[k - Len(a)]
  BY <1>3, <1>4, ConcatProperties
<1>7. Len(a) + Len(b) = n - 1
  BY <1>2, <1>3, <1>4
<1>8. ASSUME NEW k \in 1..(n - 1) PROVE (a \o b)[k] = s[IF k < i THEN k ELSE k + 1]
  <2>1. (a \o b)[k] = IF k <= i - 1 THEN a[k] ELSE b[k - (i - 1)]
    BY <1>3, <1>6, <1>7
  <2>2. CASE k < i
    <3>1. k \in 1..(i - 1) /\ k <= i - 1
      BY <1>2, <2>2
    <3> QED
      BY <1>3, <2>1, <2>2, <3>1
  <2>3. CASE ~(k < i)
    <3>0. i \in 1..n
      BY <1>2
    <3>1. k - (i - 1) \in 1..(n - i) /\ ~(k <= i - 1) /\ i + (k - (i - 1)) = k + 1
      BY <2>3, <3>0
    <3>2. b[k - (i - 1)] = s[i + (k - (i - 1))]
      BY <1>4, <3>1, Zenon
    <3>4. b[k - (i - 1)] = s[k + 1]
      BY <3>1, <3>2, Zenon
    <3> QED
      BY <2>1, <2>3, <3>1, <3>4
  <2> QED
    BY <2>2, <2>3
<1>9. DOMAIN (a \o b) = 1..(n - 1) /\ Len(a \o b) = n - 1
  BY <1>6, <1>7
<1> QED
  BY <1>1, <1>5, <1>6, <1>8, <1>9

(* A notification is raised: the newest stay.                                *)
LEMMA ToastRaised == ToastInv /\ toast => ToastInv'
<1> SUFFICES ASSUME ToastInv, toast PROVE ToastInv'
  OBVIOUS
<1> DEFINE all == Append(toasts, nextId)
           from == IF Len(all) > StackLimit THEN Len(all) - StackLimit + 1 ELSE 1
<1>0. toasts \in Seq(Nat) /\ nextId \in Nat /\ Len(toasts) \in Nat /\ StackLimit \in Nat \ {0}
  BY PageAssumption DEF PageAssumption, ToastInv
<1>1. /\ all \in Seq(Nat) /\ Len(all) = Len(toasts) + 1 /\ all[Len(toasts) + 1] = nextId
      /\ \A k \in 1..Len(toasts) : all[k] = toasts[k]
  BY <1>0
<1>2. \A k \in DOMAIN all : all[k] < nextId + 1 /\ (k < Len(all) => all[k] \in ToSet(toasts) /\ all[k] < nextId)
  BY <1>0, <1>1 DEF ToastInv, ToSet
<1>3. \A i, j \in DOMAIN all : i < j => all[i] < all[j]
  <2> SUFFICES ASSUME NEW i \in DOMAIN all, NEW j \in DOMAIN all, i < j PROVE all[i] < all[j]
    OBVIOUS
  <2>1. CASE j = Len(all)
    BY <1>0, <1>1, <1>2, <2>1
  <2>2. CASE j # Len(all)
    BY <1>0, <1>1, <2>2 DEF ToastInv, ToastsExpire
  <2> QED
    BY <2>1, <2>2
<1>4. toasts' = SubSeq(all, from, Len(all)) /\ nextId' = nextId + 1 /\ toastTimers' = toastTimers \cup {nextId}
  BY DEF toast
<1> HIDE DEF all
<1>5. PICK n \in Nat \ {0} : n = Len(all)
  BY <1>0, <1>1
<1>6. from \in 1..n /\ n - from + 1 =< StackLimit /\ n - from + 1 \in Nat
  BY <1>0, <1>5
<1> HIDE DEF from
<1>7a. toasts' \in Seq(Nat) /\ Len(toasts') = n - from + 1
  BY <1>1, <1>4, <1>5, <1>6, SubSeqProperties
<1>7b. ASSUME NEW k \in DOMAIN toasts'
       PROVE  k \in 1..(n - from + 1) /\ toasts'[k] = all[from + k - 1] /\ from + k - 1 \in DOMAIN all
  <2>1. k \in 1..(n - from + 1)
    BY <1>7a
  <2>2. \A x \in from..n : all[x] \in Nat
    BY <1>1, <1>5, <1>6
  <2>3. \A x \in 1..(n - from + 1) : SubSeq(all, from, n)[x] = all[from + x - 1]
    BY <1>6, <2>2, SubSeqProperties
  <2>4. from + k - 1 \in 1..n
    BY <1>6, <2>1
  <2>5. toasts' = SubSeq(all, from, n)
    BY <1>4, <1>5
  <2>6. DOMAIN all = 1..n
    BY <1>1, <1>5
  <2> QED
    BY <2>1, <2>3, <2>4, <2>5, <2>6
<1>7. \A i \in DOMAIN toasts' : toasts'[i] < nextId' /\ toasts'[i] \in toastTimers'
  <2> SUFFICES ASSUME NEW i \in DOMAIN toasts' PROVE toasts'[i] < nextId' /\ toasts'[i] \in toastTimers'
    OBVIOUS
  <2>1. PICK k \in DOMAIN all : toasts'[i] = all[k]
    BY <1>7b
  <2>2. CASE k = Len(all)
    BY <1>1, <1>2, <1>4, <2>1, <2>2
  <2>3. CASE k # Len(all)
    <3>1. all[k] \in ToSet(toasts)
      BY <1>1, <1>2, <2>3
    <3> QED
      BY <1>2, <1>4, <2>1, <3>1 DEF ToastInv, ToastsExpire
  <2> QED
    BY <2>2, <2>3
<1>8. \A i, j \in DOMAIN toasts' : i < j => toasts'[i] < toasts'[j]
  <2> SUFFICES ASSUME NEW i \in DOMAIN toasts', NEW j \in DOMAIN toasts', i < j
               PROVE  toasts'[i] < toasts'[j]
    OBVIOUS
  <2>1. /\ from + i - 1 \in DOMAIN all /\ from + j - 1 \in DOMAIN all /\ from + i - 1 < from + j - 1
        /\ toasts'[i] = all[from + i - 1] /\ toasts'[j] = all[from + j - 1]
    BY <1>6, <1>7b
  <2> QED
    BY <1>3, <2>1
<1> QED
  BY <1>0, <1>4, <1>6, <1>7a, <1>7, <1>8 DEF ToastInv, ToastsExpire, ToSet

(* One is dismissed, whether it is still shown or not.                       *)
LEMMA ToastDismissed ==
  ASSUME ToastInv, NEW id, dismiss(id)
  PROVE  ToastInv'
<1>0. toasts \in Seq(Nat) /\ nextId' = nextId /\ nextId \in Nat /\ toastTimers' = toastTimers \ {id}
  BY DEF ToastInv, dismiss
<1>1. CASE id \notin ToSet(toasts) /\ toasts' = toasts
  BY <1>0, <1>1 DEF ToastInv, ToastsExpire, ToSet
<1>2. ASSUME NEW i \in DOMAIN toasts, toasts[i] = id, toasts' = RemoveAt(toasts, i)
      PROVE  ToastInv'
  <2> DEFINE pos(k) == IF k < i THEN k ELSE k + 1
  <2>1. /\ toasts' \in Seq(Nat) /\ Len(toasts') = Len(toasts) - 1
        /\ \A k \in DOMAIN toasts' : toasts'[k] = toasts[pos(k)]
    BY <1>0, <1>2, RemoveAtIs
  <2>0. PICK n \in Nat : n = Len(toasts) /\ DOMAIN toasts = 1..n /\ DOMAIN toasts' = 1..(n - 1)
    BY <1>0, <2>1
  <2>2. \A k \in DOMAIN toasts' : pos(k) \in DOMAIN toasts /\ pos(k) # i
    BY <2>0
  <2>3. \A k, l \in DOMAIN toasts' : k < l => pos(k) < pos(l)
    BY <2>0
  <2> HIDE DEF pos
  <2>4. \A k \in DOMAIN toasts : k # i => toasts[k] # id
    BY <1>0, <1>2 DEF ToastInv, ToastsExpire
  <2>5. \A k \in DOMAIN toasts' : toasts'[k] < nextId' /\ toasts'[k] \in toastTimers'
    BY <1>0, <2>1, <2>2, <2>4 DEF ToastInv, ToastsExpire, ToSet
  <2>6. \A k, l \in DOMAIN toasts' : k < l => toasts'[k] < toasts'[l]
    BY <2>1, <2>2, <2>3 DEF ToastInv, ToastsExpire
  <2>7. Len(toasts') =< StackLimit
    BY <1>0, <2>1, PageAssumption DEF ToastInv, ToastsExpire, PageAssumption
  <2> QED
    BY <1>0, <2>1, <2>5, <2>6, <2>7 DEF ToastInv, ToastsExpire, ToSet
<1> QED
  BY <1>1, <1>2 DEF dismiss

-----------------------------------------------------------------------------
(* The palette                                                               *)

PaletteLookups == [of : TypedTexts, cancelled : BOOLEAN]
Suggestions == [of : TypedTexts, rows : Nat]

(* A request whose answer will be shown.                                     *)
running(l) == lookups[l] # noLookup /\ ~lookups[l].cancelled

(* One request at most is not cancelled; it is for the query last debounced, *)
(* and there is one while the rows shown are another's.                      *)
LookupsCurrent ==
  /\ \A l \in Lookups : running(l) => open /\ lookups[l].of = debounced
  /\ \A l, m \in Lookups : running(l) /\ running(m) => l = m
  /\ suggestions.of # "" /\ suggestions.of # debounced => \E l \in Lookups : running(l)

(* The highlighted row is one of those shown, of a closed palette too.       *)
RowInRange == activeIndex \in Nat /\ activeIndex < itemsFor(query, suggestions)

PaletteTypes ==
  /\ open \in BOOLEAN /\ query \in TypedTexts /\ debounced \in TypedTexts
  /\ suggestions \in Suggestions /\ lookups \in [Lookups -> PaletteLookups]
  /\ ~open => query = ""

PaletteInv == PaletteTypes /\ LookupsCurrent /\ RowInRange

(* The number of rows is positive.                                           *)
LEMMA RowsThere ==
  ASSUME NEW text, NEW pane \in Suggestions
  PROVE  itemsFor(text, pane) \in Nat \ {0}
<1>1. pane.rows \in Nat
  BY DEF Suggestions
<1>2. pane.rows + 1 \in Nat \ {0} /\ QuickActions \in Nat \ {0}
  BY <1>1 DEF QuickActions
<1> QED
  BY <1>2 DEF itemsFor

(* The palette is closed at first.                                           *)
LEMMA PaletteStart == pageInit => PaletteInv
<1> SUFFICES ASSUME pageInit PROVE PaletteInv
  OBVIOUS
<1>1. noLookup \in PaletteLookups /\ empty \in Suggestions /\ empty.of = ""
  BY DEF PaletteLookups, Suggestions, noLookup, empty, TypedTexts
<1>2. PaletteTypes
  BY <1>1 DEF pageInit, PaletteTypes, TypedTexts
<1>3. LookupsCurrent
  BY <1>1 DEF pageInit, LookupsCurrent, running
<1>4. activeIndex = 0 /\ itemsFor(query, suggestions) \in Nat \ {0}
  BY <1>1, RowsThere DEF pageInit
<1>5. RowInRange
  BY <1>4 DEF RowInRange
<1> QED
  BY <1>2, <1>3, <1>5 DEF PaletteInv

(* Hence the property.                                                       *)
LEMMA PaletteRight == PaletteInv => NewestWins
<1> SUFFICES ASSUME PaletteInv PROVE NewestWins
  OBVIOUS
<1> DEFINE current == {l \in Lookups : lookups[l] # noLookup /\ ~lookups[l].cancelled}
<1>1. \A l, m \in current : l = m
  BY DEF PaletteInv, LookupsCurrent, running
<1>2. Cardinality(current) <= 1
  <2>1. CASE current = {}
    BY <2>1, FS_EmptySet
  <2>2. CASE current # {}
    <3>1. PICK l : l \in current
      BY <2>2
    <3>2. current = {l}
      BY <1>1, <3>1
    <3> QED
      BY <3>2, FS_Singleton
  <2> QED
    BY <2>1, <2>2
<1>3. suggestions.of # "" /\ suggestions.of # debounced =>
        \E l \in Lookups : lookups[l].of = debounced /\ ~lookups[l].cancelled
  BY DEF PaletteInv, LookupsCurrent, running
<1> QED
  BY <1>2, <1>3 DEF NewestWins, PaletteInv, RowInRange

(* The requests after cancelAll are of their type and none runs.             *)
LEMMA NoneRuns ==
  ASSUME PaletteTypes
  PROVE  /\ cancelAll \in [Lookups -> PaletteLookups]
         /\ \A l \in Lookups : cancelAll[l] = noLookup \/ cancelAll[l].cancelled
<1>1. noLookup \in PaletteLookups
  BY DEF noLookup, PaletteLookups, TypedTexts
<1>2. ASSUME NEW l \in Lookups
      PROVE  /\ cancelAll[l] \in PaletteLookups
             /\ cancelAll[l] = noLookup \/ cancelAll[l].cancelled
  <2>1. lookups[l] \in PaletteLookups
    BY DEF PaletteTypes
  <2>2. [lookups[l] EXCEPT !.cancelled = TRUE] \in PaletteLookups
        /\ [lookups[l] EXCEPT !.cancelled = TRUE].cancelled
    BY <2>1 DEF PaletteLookups
  <2>3. cancelAll[l] = IF lookups[l] = noLookup THEN noLookup ELSE [lookups[l] EXCEPT !.cancelled = TRUE]
    BY DEF cancelAll
  <2> QED
    BY <1>1, <2>2, <2>3
<1>3. cancelAll = [l \in Lookups |-> cancelAll[l]]
  BY DEF cancelAll
<1> QED
  BY <1>2, <1>3

(* The effect leaves the one request for the new query, or no rows at all.   *)
LEMMA EffectCurrent ==
  ASSUME PaletteTypes, suggestEffect(open', debounced'), open' \in BOOLEAN, debounced' \in TypedTexts
  PROVE  /\ lookups' \in [Lookups -> PaletteLookups] /\ LookupsCurrent'
         /\ suggestions' \in Suggestions /\ (suggestions' = suggestions \/ suggestions' = empty)
<1>0. suggestions \in Suggestions /\ empty \in Suggestions
  BY DEF PaletteTypes, Suggestions, empty, TypedTexts
<1>1. CASE open' /\ debounced' \in Queries
  <2> DEFINE new == [of |-> debounced', cancelled |-> FALSE]
  <2>1. PICK l \in Lookups : /\ lookups' = [cancelAll EXCEPT ![l] = new]
                             /\ UNCHANGED suggestions
    BY <1>1 DEF suggestEffect
  <2>2. new \in PaletteLookups /\ new # noLookup /\ ~new.cancelled /\ new.of = debounced'
    BY <1>1, QueryAssumption DEF PaletteLookups, noLookup, TypedTexts, QueryAssumption
  <2> HIDE DEF new
  <2>3. lookups' \in [Lookups -> PaletteLookups] /\ lookups'[l] = new
        /\ \A m \in Lookups \ {l} : lookups'[m] = noLookup \/ lookups'[m].cancelled
    BY <2>1, <2>2, NoneRuns
  <2> QED
    BY <1>0, <1>1, <2>1, <2>2, <2>3 DEF LookupsCurrent, running
<1>2. CASE ~(open' /\ debounced' \in Queries)
  <2>1. lookups' = cancelAll /\ suggestions' = empty
    BY <1>2 DEF suggestEffect
  <2> QED
    BY <1>0, <2>1, NoneRuns DEF LookupsCurrent, running, empty
<1> QED
  BY <1>1, <1>2

(* The effect on the number of rows keeps the highlighted one in range.      *)
LEMMA ActiveInRange ==
  ASSUME PaletteInv, NEW text, NEW pane \in Suggestions
  PROVE  activeAfter(text, pane) \in Nat /\ activeAfter(text, pane) < itemsFor(text, pane)
  BY RowsThere DEF PaletteInv, RowInRange, activeAfter

(* Typing, the timer, opening, closing, moving and answers in any order.     *)
LEMMA PaletteStep == PaletteInv /\ paletteNext => PaletteInv'
<1> SUFFICES ASSUME PaletteInv, paletteNext PROVE PaletteInv'
  OBVIOUS
<1>0. PaletteTypes /\ LookupsCurrent /\ RowInRange
  BY DEF PaletteInv
<1>1. CASE openPalette
  <2>1. ~open /\ open' = TRUE /\ debounced' = debounced /\ query' = query /\ activeIndex' = activeIndex
        /\ suggestEffect(open', debounced')
    BY <1>1 DEF openPalette
  <2>2. lookups' \in [Lookups -> PaletteLookups] /\ LookupsCurrent' /\ suggestions' \in Suggestions
    BY <1>0, <2>1, EffectCurrent DEF PaletteTypes
  <2>3. query = ""
    BY <1>0, <2>1 DEF PaletteTypes
  <2>4. RowInRange'
    BY <1>0, <2>1, <2>3 DEF RowInRange, itemsFor
  <2> QED
    BY <1>0, <2>1, <2>2, <2>4 DEF PaletteInv, PaletteTypes
<1>2. CASE onClose
  <2>1. open' = FALSE /\ debounced' = debounced /\ query' = "" /\ activeIndex' = 0
        /\ suggestEffect(open', debounced')
    BY <1>2 DEF onClose
  <2>2. lookups' \in [Lookups -> PaletteLookups] /\ LookupsCurrent' /\ suggestions' \in Suggestions
    BY <1>0, <2>1, EffectCurrent DEF PaletteTypes
  <2>3. RowInRange'
    <3>1. itemsFor(query', suggestions') \in Nat \ {0}
      BY <2>2, RowsThere
    <3>2. itemsFor(query, suggestions)' = itemsFor(query', suggestions')
      BY DEF itemsFor
    <3>3. activeIndex' = 0
      BY <2>1
    <3>4. \A n \in Nat \ {0} : activeIndex' \in Nat /\ activeIndex' < n
      BY <3>3
    <3> QED
      BY <3>1, <3>2, <3>4 DEF RowInRange
  <2> QED
    BY <1>0, <2>1, <2>2, <2>3 DEF PaletteInv, PaletteTypes, TypedTexts
<1>3. CASE debounceFires
  <2>1. open' = open /\ debounced' = query /\ query' = query
        /\ activeIndex' = activeAfter(query, suggestions')
    BY <1>3 DEF debounceFires
  <2>2. lookups' \in [Lookups -> PaletteLookups] /\ LookupsCurrent' /\ suggestions' \in Suggestions
    <3>1. CASE debounced = query
      <4>1. lookups' = lookups /\ suggestions' = suggestions /\ debounced' = debounced
        BY <1>3, <2>1, <3>1 DEF debounceFires
      <4> QED
        BY <1>0, <2>1, <4>1 DEF PaletteTypes, LookupsCurrent, running
    <3>2. CASE debounced # query
      <4>1. suggestEffect(open', debounced')
        BY <1>3, <2>1, <3>2 DEF debounceFires
      <4> QED
        BY <1>0, <2>1, <4>1, EffectCurrent DEF PaletteTypes
    <3> QED
      BY <3>1, <3>2
  <2>3. RowInRange'
    <3>1. activeAfter(query, suggestions') \in Nat
          /\ activeAfter(query, suggestions') < itemsFor(query, suggestions')
      BY <2>2, ActiveInRange
    <3>2. itemsFor(query, suggestions)' = itemsFor(query, suggestions')
      BY <2>1 DEF itemsFor
    <3> QED
      BY <2>1, <3>1, <3>2 DEF RowInRange
  <2> QED
    BY <1>0, <2>1, <2>2, <2>3 DEF PaletteInv, PaletteTypes
<1>4. ASSUME NEW step \in {1, -1}, arrow(step) PROVE PaletteInv'
  <2> DEFINE count == itemsFor(query, suggestions)
  <2>1. activeIndex' = (activeIndex + step + count) % count
        /\ UNCHANGED <<open, query, debounced, suggestions, lookups>>
    BY <1>4 DEF arrow
  <2>2. count \in Nat \ {0} /\ activeIndex \in Nat
    BY <1>0, RowsThere DEF PaletteTypes, RowInRange
  <2>3. itemsFor(query, suggestions)' = count
    BY <2>1 DEF itemsFor
  <2> HIDE DEF count
  <2>4. activeIndex' \in Nat /\ activeIndex' < count
    BY <2>1, <2>2
  <2> QED
    BY <1>0, <2>1, <2>3, <2>4 DEF PaletteInv, PaletteTypes, LookupsCurrent, RowInRange, running
<1>5. ASSUME NEW text \in TypedTexts, type(text) PROVE PaletteInv'
  <2>1. open /\ query' = text /\ activeIndex' = activeAfter(text, suggestions)
        /\ UNCHANGED <<open, debounced, suggestions, lookups>>
    BY <1>5 DEF type
  <2>2. suggestions \in Suggestions
    BY <1>0 DEF PaletteTypes
  <2>3. activeAfter(text, suggestions) \in Nat /\ activeAfter(text, suggestions) < itemsFor(text, suggestions)
    BY <2>2, ActiveInRange
  <2>4. itemsFor(query, suggestions)' = itemsFor(text, suggestions)
    BY <2>1 DEF itemsFor
  <2> QED
    BY <1>0, <2>1, <2>3, <2>4 DEF PaletteInv, PaletteTypes, LookupsCurrent, RowInRange, running
<1>6. ASSUME NEW l \in Lookups, NEW rows \in 0..MaxSuggestionRows, answer(l, rows) PROVE PaletteInv'
  <2>1. lookups[l] # noLookup /\ lookups' = [lookups EXCEPT ![l] = noLookup]
        /\ activeIndex' = activeAfter(query, suggestions') /\ UNCHANGED <<open, query, debounced>>
    BY <1>6 DEF answer
  <2>2. noLookup \in PaletteLookups
    BY DEF noLookup, PaletteLookups, TypedTexts
  <2>3. lookups' \in [Lookups -> PaletteLookups] /\ lookups'[l] = noLookup
        /\ \A m \in Lookups \ {l} : lookups'[m] = lookups[m]
    BY <1>0, <2>1, <2>2 DEF PaletteTypes
  <2>4. suggestions' \in Suggestions /\ LookupsCurrent'
    <3>1. CASE lookups[l].cancelled
      <4>1. suggestions' = suggestions
        BY <1>6, <3>1 DEF answer
      <4> QED
        BY <1>0, <2>1, <2>3, <3>1, <4>1 DEF PaletteTypes, LookupsCurrent, running
    <3>2. CASE ~lookups[l].cancelled
      <4>1. suggestions' = [of |-> lookups[l].of, rows |-> rows]
        BY <1>6, <3>2 DEF answer
      <4>2. lookups[l] \in PaletteLookups
        BY <1>0 DEF PaletteTypes
      <4>5. rows \in Nat
        BY PageAssumption DEF PageAssumption
      <4>3. suggestions' \in Suggestions
        BY <4>1, <4>2, <4>5 DEF Suggestions, PaletteLookups
      <4>4. suggestions'.of = debounced'
        BY <1>0, <2>1, <3>2, <4>1 DEF LookupsCurrent, running
      <4> QED
        BY <1>0, <2>1, <2>3, <4>3, <4>4 DEF LookupsCurrent, running
    <3> QED
      BY <3>1, <3>2
  <2>5. activeAfter(query, suggestions') \in Nat
        /\ activeAfter(query, suggestions') < itemsFor(query, suggestions')
    BY <2>4, ActiveInRange
  <2>6. itemsFor(query, suggestions)' = itemsFor(query, suggestions')
    BY <2>1 DEF itemsFor
  <2> QED
    BY <1>0, <2>1, <2>3, <2>4, <2>5, <2>6 DEF PaletteInv, PaletteTypes, RowInRange
<1> QED
  BY <1>1, <1>2, <1>3, <1>4, <1>5, <1>6 DEF paletteNext

-----------------------------------------------------------------------------
(* The assistant                                                             *)

(* The questions under way are the last one and those it was sent beside.    *)
AssistantInv ==
  /\ asked \in Nat /\ loading \in BOOLEAN
  /\ asking \subseteq together
  /\ AssistantCurrent

(* Nothing was asked at first.                                               *)
LEMMA PageStart == pageInit => AssistantInv /\ ToastInv /\ CopyInv
<1> SUFFICES ASSUME pageInit PROVE AssistantInv /\ ToastInv /\ CopyInv
  OBVIOUS
<1>1. AssistantInv
  BY DEF pageInit, AssistantInv, AssistantCurrent
<1>2. ToastInv
  <2>0. toasts = <<>> /\ toastTimers = {} /\ nextId = 1
    BY DEF pageInit
  <2>1. toastTimers = {} /\ nextId = 1 /\ toasts \in Seq(Nat) /\ Len(toasts) = 0 /\ DOMAIN toasts = {}
    BY <2>0
  <2> QED
    BY <2>1, PageAssumption DEF ToastInv, ToastsExpire, ToSet, PageAssumption
<1>3. CopyInv
  <2>1. ~copied /\ copied \in BOOLEAN /\ copyTimers = {} /\ sinceCopy = ResetAfter
    BY DEF pageInit
  <2>2. ResetAfter \in Nat \ {0}
    BY PageAssumption DEF PageAssumption
  <2>3. sinceCopy \in 0..ResetAfter /\ ~(sinceCopy < ResetAfter)
    BY <2>1, <2>2
  <2> QED
    BY <2>1, <2>3, Zenon DEF CopyInv, CopyAcknowledged
<1> QED
  BY <1>1, <1>2, <1>3

(* A question is sent, or refused.                                           *)
LEMMA Submitted ==
  ASSUME AssistantInv, ToastInv, NEW text, submit(text)
  PROVE  AssistantInv' /\ ToastInv'
<1>1. CASE text = "short"
  <2>1. toast /\ UNCHANGED <<result, loading, asking, asked, together>>
    BY <1>1 DEF submit
  <2> QED
    BY <2>1, ToastRaised DEF AssistantInv, AssistantCurrent
<1>2. CASE text # "short"
  <2>1. /\ asked' = asked + 1 /\ loading' = TRUE /\ result' = 0
        /\ asking' = asking \cup {asked'} /\ together' = asking' /\ UNCHANGED toastVars
    BY <1>2 DEF submit
  <2>2. AssistantInv'
    BY <2>1 DEF AssistantInv, AssistantCurrent
  <2>3. ToastInv'
    BY <2>1 DEF toastVars, ToastInv, ToastsExpire
  <2> QED
    BY <2>2, <2>3
<1> QED
  BY <1>1, <1>2

(* It is answered, or fails.                                                 *)
LEMMA Settled ==
  ASSUME AssistantInv, ToastInv, NEW i \in asking, questionSettles(i)
  PROVE  AssistantInv' /\ ToastInv'
<1>1. asking' = asking \ {i} /\ loading' = FALSE /\ UNCHANGED <<asked, together>>
      /\ (result' = i \/ result' = result)
  BY DEF questionSettles
<1>2. AssistantInv'
  BY <1>1 DEF AssistantInv, AssistantCurrent
<1>3. CASE toast
  BY <1>3, ToastRaised, <1>2
<1>4. CASE UNCHANGED toastVars
  BY <1>2, <1>4 DEF toastVars, ToastInv, ToastsExpire
<1> QED
  BY <1>3, <1>4 DEF questionSettles

(* Whatever the user does, and whenever the answers come.                    *)
LEMMA AssistantStep == AssistantInv /\ ToastInv /\ assistantNext => AssistantInv' /\ ToastInv'
<1> SUFFICES ASSUME AssistantInv, ToastInv, assistantNext PROVE AssistantInv' /\ ToastInv'
  OBVIOUS
<1>1. CASE edit
  BY <1>1 DEF edit, toastVars, AssistantInv, AssistantCurrent, ToastInv, ToastsExpire
<1>2. CASE pressEnter \/ clickFind
  BY <1>2, Submitted DEF pressEnter, clickFind
<1>3. CASE clickExample
  BY <1>3, Submitted DEF clickExample
<1>4. ASSUME NEW i \in asking, questionSettles(i) PROVE AssistantInv' /\ ToastInv'
  BY <1>4, Settled
<1>5. ASSUME NEW id \in 1..MaxToasts, dismiss(id) PROVE AssistantInv' /\ ToastInv'
  <2>1. ToastInv'
    BY <1>5, ToastDismissed
  <2>2. UNCHANGED assistantVars
    BY <1>5 DEF dismiss
  <2> QED
    BY <2>1, <2>2 DEF assistantVars, AssistantInv, AssistantCurrent
<1> QED
  BY <1>1, <1>2, <1>3, <1>4, <1>5 DEF assistantNext

-----------------------------------------------------------------------------
(* The pages together                                                        *)

PagesInv ==
  /\ subject = "tabs" => TabInv
  /\ subject = "generate" => GeneratedInv
  /\ subject = "palette" => PaletteInv
  /\ subject = "toasts" => ToastInv
  /\ subject = "assistant" => AssistantInv /\ ToastInv
  /\ subject = "copying" => CopyInv

(* Nothing moves in a step that changes nothing.                             *)
LEMMA PagesStutter == PagesInv /\ UNCHANGED allVars => PagesInv'
<1> SUFFICES ASSUME PagesInv, UNCHANGED allVars PROVE PagesInv'
  OBVIOUS
<1>1. UNCHANGED <<subject, snippetVars, pageVars>>
  BY DEF allVars
<1>2. UNCHANGED <<toasts, toastTimers, nextId, result, loading, asking, asked, together,
                  copied, copyTimers, sinceCopy>>
  BY <1>1 DEF pageVars, restOfPage, toastVars, assistantVars, copyVars
<1>3. UNCHANGED <<open, query, debounced, suggestions, activeIndex, lookups>>
  BY <1>1 DEF pageVars, paletteVars
<1>4. UNCHANGED <<fetches, tab, generated>>
  BY <1>1 DEF snippetVars
<1>5. TabInv => TabInv'
  BY <1>4 DEF TabInv, TabShowsItsLanguage
<1>6. GeneratedInv => GeneratedInv'
  BY <1>4 DEF GeneratedInv
<1>7. PaletteInv => PaletteInv'
  BY <1>3 DEF PaletteInv, PaletteTypes, LookupsCurrent, RowInRange, running, itemsFor
<1>8. (ToastInv => ToastInv') /\ (AssistantInv => AssistantInv') /\ (CopyInv => CopyInv')
  BY <1>2 DEF ToastInv, ToastsExpire, AssistantInv, AssistantCurrent, CopyInv, CopyAcknowledged
<1> QED
  BY <1>1, <1>5, <1>6, <1>7, <1>8 DEF PagesInv

(* What the user sees is of the last thing the user did, however timers and  *)
(* answers are delayed, for any number of requests in flight, any stack of   *)
(* notifications and any delay of the copy button; of the assistant, it is   *)
(* the answer to the last question or to one under way when that was sent    *)
(* (CodeTabs.tsx, codegen.ts, CommandPalette.tsx, Toast.tsx, Assistant.tsx,  *)
(* hooks.ts).                                                                *)
THEOREM PagesAreCurrent == SubjectSpec => []PagesCurrent
<1>1. SubjectInit => PagesInv
  <2> SUFFICES ASSUME SubjectInit PROVE PagesInv
    OBVIOUS
  <2>1. snippetsInit /\ pageInit
    BY DEF SubjectInit
  <2>2. GeneratedInv
    BY <2>1 DEF snippetsInit, GeneratedInv
  <2> QED
    BY <2>1, <2>2, TabStart, PaletteStart, PageStart DEF PagesInv
<1>2. PagesInv /\ [SubjectNext]_allVars => PagesInv'
  <2> SUFFICES ASSUME PagesInv, SubjectNext PROVE PagesInv'
    BY PagesStutter
  <2>1. toastNext /\ ToastInv => ToastInv'
    BY ToastRaised, ToastDismissed DEF toastNext
  <2> QED
    BY <2>1, OwnSteps, TabStep, GeneratedStep, PaletteStep, AssistantStep, CopyStep DEF PagesInv
<1>3. PagesInv => PagesCurrent
  BY GeneratedRight, PaletteRight
     DEF PagesInv, PagesCurrent, TabInv, ToastInv, AssistantInv, CopyInv
<1> QED
  BY <1>1, <1>2, <1>3, PTL DEF SubjectSpec

-----------------------------------------------------------------------------
(* Retries                                                                   *)

(* The operation of this attempt is the only one at work, and a retry is due *)
(* only while attempts are left.                                             *)
RetryInv ==
  /\ attempt \in 1..MaxAttempts /\ aborted \in BOOLEAN /\ timedOut \in BOOLEAN
  /\ stage \in {"check", "running", "sleeping", "returned", "threw"}
  /\ working = IF stage = "running" THEN {attempt} ELSE {}
  /\ stage = "sleeping" => attempt < MaxAttempts
  /\ AttemptsAlone

(* The attempt, the timer, the abort and the errors in any order.            *)
LEMMA RetryStep == RetryInv /\ retryNext => RetryInv'
<1> SUFFICES ASSUME RetryInv, retryNext PROVE RetryInv'
  OBVIOUS
<1> DEFINE told == stage = "threw" => \/ reason = "aborted" /\ aborted
                                      \/ reason # "none" /\ (attempt < MaxAttempts => ~isTransientError(reason))
           shape == /\ attempt \in 1..MaxAttempts /\ aborted \in BOOLEAN /\ timedOut \in BOOLEAN
                    /\ stage \in {"check", "running", "sleeping", "returned", "threw"}
                    /\ working = IF stage = "running" THEN {attempt} ELSE {}
                    /\ stage = "sleeping" => attempt < MaxAttempts
<1>0. shape /\ told
  BY DEF RetryInv, AttemptsAlone
<1>1. shape' /\ told' => RetryInv'
  <2> SUFFICES ASSUME shape', told' PROVE RetryInv'
    OBVIOUS
  <2>1. Cardinality(working') <= 1
    <3>1. CASE working' = {}
      BY <3>1, FS_EmptySet
    <3>2. CASE working' = {attempt'}
      BY <3>2, FS_Singleton
    <3> QED
      BY <3>1, <3>2
  <2>2. working' \subseteq {attempt'} /\ attempt' <= MaxAttempts /\ (stage' # "running" => working' = {})
    BY AttemptsAssumption DEF AttemptsAssumption
  <2> QED
    BY <2>1, <2>2 DEF RetryInv, AttemptsAlone
<1>2. CASE begin
  BY <1>0, <1>1, <1>2 DEF begin
<1>3. CASE resolves
  BY <1>0, <1>1, <1>3 DEF resolves
<1>4. CASE wakes
  BY <1>0, <1>1, <1>4, AttemptsAssumption DEF wakes, AttemptsAssumption
<1>5. ASSUME NEW error \in errors, rejects(error) PROVE RetryInv'
  <2>1. PICK failure \in errors : /\ stage = "running" /\ working' = working \ {attempt}
                                  /\ IF attempt = MaxAttempts \/ ~isTransientError(failure)
                                     THEN stage' = "threw" /\ reason' = failure
                                     ELSE stage' = "sleeping" /\ UNCHANGED reason
                                  /\ UNCHANGED <<attempt, timedOut, aborted>>
    BY <1>5 DEF rejects, errors
  <2>2. failure # "none"
    BY DEF errors
  <2>3. shape'
    BY <1>0, <2>1, AttemptsAssumption DEF AttemptsAssumption
  <2>4. told'
    BY <1>0, <2>1, <2>2, AttemptsAssumption DEF AttemptsAssumption
  <2> QED
    BY <1>1, <2>3, <2>4
<1>6. CASE timerFires
  BY <1>0, <1>1, <1>6 DEF timerFires
<1>7. CASE abort
  BY <1>0, <1>1, <1>7 DEF abort
<1> QED
  BY <1>2, <1>3, <1>4, <1>5, <1>6, <1>7 DEF retryNext, retryProgress

-----------------------------------------------------------------------------
(* The bounded map                                                           *)

Indices == 0..(Items - 1)

(* A runner is at an item taken and not settled; every item taken is settled *)
(* or somebody's, and the others are nobody's.                               *)
MapInv ==
  /\ cursor \in Nat /\ runner \in [Runners -> Indices \cup {Free, Done}]
  /\ settled \in [Indices -> Indices \cup {Nothing}]
  /\ \A r \in Runners : runner[r] \in Indices => runner[r] < cursor /\ settled[runner[r]] = Nothing
  /\ \A r \in Runners : runner[r] = Done => Items <= cursor
  /\ \A r, q \in Runners : r # q /\ runner[r] \in Indices => runner[r] # runner[q]
  /\ \A i \in Indices : i < cursor => settled[i] = i \/ \E r \in Runners : runner[r] = i
  /\ \A i \in Indices : cursor <= i => settled[i] = Nothing

(* Nothing is taken at first.                                                *)
LEMMA MapStart == attemptsInit => MapInv /\ RetryInv
<1> SUFFICES ASSUME attemptsInit PROVE MapInv /\ RetryInv
  OBVIOUS
<1>1. \A i \in Indices : i # Free /\ i # Done /\ ~(i < 0)
  BY AttemptsAssumption DEF AttemptsAssumption, Indices, Free, Done
<1>2. MapInv
  BY <1>1 DEF attemptsInit, MapInv, Indices, Free, Done
<1>3. RetryInv
  <2>1. attempt = 1 /\ stage = "check" /\ timedOut \in BOOLEAN /\ working = {} /\ aborted \in BOOLEAN
    BY DEF attemptsInit
  <2>2. Cardinality({}) = 0
    BY FS_EmptySet
  <2> QED
    BY <2>1, <2>2, AttemptsAssumption DEF RetryInv, AttemptsAlone, AttemptsAssumption
<1> QED
  BY <1>2, <1>3

(* Hence the property.                                                       *)
LEMMA MapRight == MapInv => EachItemOnce
<1> SUFFICES ASSUME MapInv PROVE EachItemOnce
  OBVIOUS
<1>1. \A i \in Indices : i # Free /\ i # Done /\ i < Items /\ i \in Int
  BY AttemptsAssumption DEF AttemptsAssumption, Indices, Free, Done
<1>2. DOMAIN settled = Indices /\ cursor \in Nat /\ Items \in Nat
  BY AttemptsAssumption DEF MapInv, AttemptsAssumption
<1>3. \A r, q \in Runners : r # q /\ runner[r] \notin {Free, Done} => runner[r] # runner[q]
  BY DEF MapInv
<1>4. \A r \in Runners, i \in Indices : runner[r] = i => settled[i] = Nothing
  BY DEF MapInv
<1>5. ASSUME \A r \in Runners : runner[r] = Done, NEW i \in Indices PROVE settled[i] = i
  <2>1. 1 \in Runners
    BY <1>1, <1>2, AttemptsAssumption DEF Runners, AttemptsAssumption, Indices
  <2>2. Items <= cursor
    BY <1>5, <2>1 DEF MapInv
  <2>3. i < cursor
    BY <1>1, <1>2, <2>2
  <2>4. ~ \E r \in Runners : runner[r] = i
    BY <1>1, <1>5
  <2> QED
    BY <2>3, <2>4 DEF MapInv
<1> QED
  BY <1>2, <1>3, <1>4, <1>5 DEF EachItemOnce

(* A runner takes an item or settles one.                                    *)
LEMMA MapStep == MapInv /\ mapNext => MapInv'
<1> SUFFICES ASSUME MapInv, NEW r \in Runners, takes(r) \/ settles(r) PROVE MapInv'
  BY DEF mapNext
<1>0. Items \in Nat /\ \A i \in Indices : i # Free /\ i # Done /\ i \in Nat
  BY AttemptsAssumption DEF AttemptsAssumption, Indices, Free, Done
<1>1. CASE takes(r) /\ cursor < Items
  <2>1. cursor \in Indices /\ cursor' = cursor + 1 /\ settled' = settled
        /\ runner' = [runner EXCEPT ![r] = cursor] /\ runner[r] = Free
    <3>1. cursor \in Nat /\ ~(cursor >= Items)
      BY <1>0, <1>1 DEF MapInv
    <3>2. cursor \in Indices
      BY <1>0, <1>1, <3>1 DEF Indices
    <3> QED
      BY <1>1, <3>1, <3>2 DEF takes
  <2>2. runner' \in [Runners -> Indices \cup {Free, Done}] /\ runner'[r] = cursor
        /\ \A q \in Runners \ {r} : runner'[q] = runner[q]
    BY <2>1 DEF MapInv
  <2>3. \A q \in Runners : runner[q] \in Indices => runner[q] < cursor
    BY DEF MapInv
  <2>4. \A q \in Runners : runner'[q] \in Indices => runner'[q] < cursor' /\ settled'[runner'[q]] = Nothing
    <3> SUFFICES ASSUME NEW q \in Runners, runner'[q] \in Indices
                 PROVE  runner'[q] < cursor' /\ settled'[runner'[q]] = Nothing
      OBVIOUS
    <3>1. CASE q = r
      <4>1. settled[cursor] = Nothing /\ cursor < cursor'
        BY <1>0, <2>1 DEF MapInv
      <4> QED
        BY <2>1, <2>2, <3>1, <4>1
    <3>2. CASE q # r
      <4>1. runner[q] < cursor /\ settled[runner[q]] = Nothing /\ runner'[q] = runner[q]
        BY <2>2, <3>2 DEF MapInv
      <4>2. runner[q] < cursor'
        BY <1>0, <2>1, <4>1
      <4> QED
        BY <2>1, <4>1, <4>2
    <3> QED
      BY <3>1, <3>2
  <2>5. \A q, s \in Runners : q # s /\ runner'[q] \in Indices => runner'[q] # runner'[s]
    BY <1>0, <2>1, <2>2, <2>3 DEF MapInv
  <2>6. ASSUME NEW i \in Indices, i < cursor' PROVE settled'[i] = i \/ \E q \in Runners : runner'[q] = i
    <3>1. CASE i = cursor
      BY <2>2, <3>1
    <3>2. CASE i # cursor
      <4>1. i < cursor
        BY <1>0, <2>1, <2>6, <3>2
      <4>2. settled[i] = i \/ \E q \in Runners : runner[q] = i
        BY <4>1 DEF MapInv
      <4> QED
        BY <1>0, <2>1, <2>2, <4>2
    <3> QED
      BY <3>1, <3>2
  <2>7. \A i \in Indices : cursor' <= i => settled'[i] = Nothing
    BY <1>0, <2>1 DEF MapInv
  <2>8. \A q \in Runners : runner'[q] = Done => Items <= cursor'
    BY <1>0, <2>1, <2>2 DEF MapInv
  <2>9. cursor' \in Nat /\ settled' \in [Indices -> Indices \cup {Nothing}]
    BY <2>1 DEF MapInv
  <2> QED
    BY <2>2, <2>4, <2>5, <2>6, <2>7, <2>8, <2>9 DEF MapInv
<1>2. CASE takes(r) /\ ~(cursor < Items)
  <2>1. Items <= cursor /\ cursor' = cursor + 1 /\ settled' = settled
        /\ runner' = [runner EXCEPT ![r] = Done] /\ runner[r] = Free /\ cursor \in Nat /\ cursor' \in Nat
    <3>1. cursor \in Nat
      BY DEF MapInv
    <3>2. cursor >= Items /\ Items <= cursor /\ cursor + 1 \in Nat
      BY <1>0, <1>2, <3>1
    <3> QED
      BY <1>2, <3>1, <3>2 DEF takes
  <2>2. runner' \in [Runners -> Indices \cup {Free, Done}] /\ runner'[r] = Done
        /\ \A q \in Runners \ {r} : runner'[q] = runner[q]
    BY <2>1 DEF MapInv
  <2>3. \A i \in Indices : i < cursor /\ i < cursor' /\ ~(cursor' <= i)
    BY <1>0, <2>1 DEF Indices
  <2>4. \A i \in Indices : settled[i] = i \/ \E q \in Runners : runner'[q] = i
    BY <1>0, <2>1, <2>2, <2>3 DEF MapInv
  <2>5. \A q \in Runners : runner'[q] \in Indices => q # r
    BY <1>0, <2>2
  <2>6. \A q, s \in Runners : q # s /\ runner'[q] \in Indices => runner'[q] # runner'[s]
    BY <1>0, <2>2, <2>5 DEF MapInv
  <2>7. \A q \in Runners : runner'[q] \in Indices => runner'[q] < cursor' /\ settled'[runner'[q]] = Nothing
    BY <2>1, <2>2, <2>3, <2>5 DEF MapInv
  <2>8. Items <= cursor'
    BY <1>0, <2>1
  <2>9. settled' \in [Indices -> Indices \cup {Nothing}]
    BY <2>1 DEF MapInv
  <2> QED
    BY <2>1, <2>2, <2>3, <2>4, <2>6, <2>7, <2>8, <2>9 DEF MapInv
<1>3. CASE settles(r)
  <2>1. PICK i \in Indices : runner[r] = i
    BY <1>3 DEF MapInv, settles
  <2>2. cursor' = cursor /\ settled' = [settled EXCEPT ![i] = i] /\ runner' = [runner EXCEPT ![r] = Free]
    BY <1>3, <2>1 DEF settles
  <2>3. runner' \in [Runners -> Indices \cup {Free, Done}] /\ runner'[r] = Free
        /\ \A q \in Runners \ {r} : runner'[q] = runner[q]
    BY <2>2 DEF MapInv
  <2>4. settled' \in [Indices -> Indices \cup {Nothing}] /\ settled'[i] = i
        /\ \A j \in Indices \ {i} : settled'[j] = settled[j]
    BY <2>2 DEF MapInv
  <2>5. i < cursor /\ cursor \in Nat /\ i \in Nat
    BY <1>0, <2>1 DEF MapInv
  <2>6. \A q \in Runners : runner'[q] \in Indices => q # r /\ runner'[q] # i
    BY <1>0, <2>1, <2>3 DEF MapInv
  <2>7. \A q \in Runners : runner'[q] \in Indices => runner'[q] < cursor' /\ settled'[runner'[q]] = Nothing
    BY <2>2, <2>3, <2>4, <2>6 DEF MapInv
  <2>8. \A q, s \in Runners : q # s /\ runner'[q] \in Indices => runner'[q] # runner'[s]
    BY <1>0, <2>3, <2>6 DEF MapInv
  <2>9. \A j \in Indices : j < cursor' => settled'[j] = j \/ \E q \in Runners : runner'[q] = j
    BY <2>1, <2>2, <2>3, <2>4 DEF MapInv
  <2>10. \A j \in Indices : cursor' <= j => settled'[j] = Nothing
    BY <2>2, <2>4, <2>5 DEF MapInv
  <2>11. \A q \in Runners : runner'[q] = Done => Items <= cursor'
    BY <2>2, <2>3 DEF MapInv, Free, Done
  <2> QED
    BY <2>2, <2>3, <2>4, <2>5, <2>7, <2>8, <2>9, <2>10, <2>11 DEF MapInv
<1> QED
  BY <1>1, <1>2, <1>3

-----------------------------------------------------------------------------
(* The seed                                                                  *)

SeedSteps == {"ready", "category", "api", "mapping", "endpoint", "scheme", "counts", "account", "done", "failed"}

(* All the rows of an API.                                                   *)
ApiSeeded(api) ==
  /\ api \in seedRows /\ <<"endpoint", api>> \in childRows /\ <<"scheme", api>> \in childRows
  /\ CategoryOf[api] \in CategorySet => <<"mapping", api>> \in childRows

(* The catalogue is complete.                                                *)
Complete == catRows = CategorySet /\ \A api \in SeedSet : ApiSeeded(api)

CountsRight == countsOld \/ \A c \in CategorySet : apiCount[c] = countOf(c)

(* What a run that has come to statement n of a step leaves behind it.       *)
Reached(step, n) ==
  /\ step = "category" => n \in 1..Len(SeedCategories) /\ \A k \in 1..(n - 1) : SeedCategories[k] \in catRows
  /\ step \in {"api", "mapping", "endpoint", "scheme"} =>
       catRows = CategorySet /\ n \in 1..Len(SeedApis) /\ \A k \in 1..(n - 1) : ApiSeeded(SeedApis[k])
  /\ step \in {"mapping", "endpoint", "scheme"} => SeedApis[n] \in seedRows
  /\ step \in {"endpoint", "scheme"} /\ CategoryOf[SeedApis[n]] \in CategorySet =>
       <<"mapping", SeedApis[n]>> \in childRows
  /\ step = "scheme" => <<"endpoint", SeedApis[n]>> \in childRows
  /\ step \in {"counts", "account", "done"} => Complete
  /\ step = "account" => n \in 1..2 /\ (n = 2 => "admin" \in userRows)
  /\ step = "done" => userRows = {"admin", "demo"}

Counted(step) == step \in {"account", "done"}
SeedStates == [step : SeedSteps, n : Nat]

SeedTypes ==
  /\ seeding \in [Seeders -> SeedStates]
  /\ catRows \subseteq CategorySet /\ activeRows \subseteq SeedSet /\ hiddenRows \subseteq SeedSet
  /\ userRows \subseteq {"admin", "demo"}
  /\ IsFiniteSet(hiddenRows) /\ hides \in Nat

HiddenKept ==
  Cardinality(hiddenRows) = hides /\ activeRows \cap (hiddenRows \cup slugsTaken) = {}

AllReached ==
  \A q \in Seeders, step \in SeedSteps, n \in Nat : seeding[q] = [step |-> step, n |-> n] => Reached(step, n)

(* A run is past the counts only when the catalogue was complete, so that    *)
(* nothing but a status change makes them old.                               *)
CountsKept ==
  \A q \in Seeders, step \in SeedSteps, n \in Nat :
    seeding[q] = [step |-> step, n |-> n] /\ Counted(step) => CountsRight

SeedInv == SeedTypes /\ HiddenKept /\ AllReached /\ CountsKept

(* No statement takes a row away.                                            *)
Grows ==
  /\ catRows \subseteq catRows' /\ catRows' \subseteq CategorySet
  /\ seedRows \subseteq seedRows' /\ childRows \subseteq childRows'
  /\ userRows \subseteq userRows' /\ userRows' \subseteq {"admin", "demo"}

(* The seed's assumptions, by what the proofs use of them.                   *)
LEMMA SeedSizes ==
  /\ Len(SeedApis) \in Nat \ {0} /\ Len(SeedCategories) \in Nat \ {0}
  /\ \A n \in 1..Len(SeedApis) : SeedApis[n] \in SeedSet
  /\ \A api \in SeedSet : \E n \in 1..Len(SeedApis) : api = SeedApis[n]
  /\ \A n \in 1..Len(SeedCategories) : SeedCategories[n] \in CategorySet
  /\ \A c \in CategorySet : \E n \in 1..Len(SeedCategories) : c = SeedCategories[n]
<1>1. Len(SeedApis) \in Nat \ {0}
  BY SeedAssumption DEF SeedAssumption
<1>2. Len(SeedCategories) \in Nat \ {0}
  BY SeedAssumption DEF SeedAssumption
<1> QED
  BY <1>1, <1>2 DEF SeedSet, CategorySet

(* What an API has, it keeps.                                                *)
LEMMA ApiStays ==
  ASSUME Grows, NEW api, ApiSeeded(api)
  PROVE  ApiSeeded(api)'
<1>1. /\ api \in seedRows' /\ <<"endpoint", api>> \in childRows' /\ <<"scheme", api>> \in childRows'
      /\ CategoryOf[api] \in CategorySet => <<"mapping", api>> \in childRows'
  BY DEF Grows, ApiSeeded
<1> QED
  BY <1>1 DEF ApiSeeded

(* What a run has left behind it stays.                                      *)
LEMMA ReachedStays ==
  ASSUME Grows, NEW step, NEW n, Reached(step, n)
  PROVE  Reached(step, n)'
<1>1. Complete => Complete'
  BY ApiStays DEF Complete, Grows
<1>2. step = "category" => n \in 1..Len(SeedCategories) /\ \A k \in 1..(n - 1) : SeedCategories[k] \in catRows'
  BY DEF Reached, Grows
<1>3. step \in {"api", "mapping", "endpoint", "scheme"} =>
        catRows' = CategorySet /\ n \in 1..Len(SeedApis) /\ \A k \in 1..(n - 1) : ApiSeeded(SeedApis[k])'
  BY ApiStays DEF Reached, Grows
<1>4. /\ step \in {"mapping", "endpoint", "scheme"} => SeedApis[n] \in seedRows'
      /\ step \in {"endpoint", "scheme"} /\ CategoryOf[SeedApis[n]] \in CategorySet =>
           <<"mapping", SeedApis[n]>> \in childRows'
      /\ step = "scheme" => <<"endpoint", SeedApis[n]>> \in childRows'
  BY DEF Reached, Grows
<1>5. /\ step = "account" => n \in 1..2 /\ (n = 2 => "admin" \in userRows')
      /\ step = "done" => userRows' = {"admin", "demo"}
  BY DEF Reached, Grows
<1>6. step \in {"counts", "account", "done"} => Complete'
  BY <1>1 DEF Reached
<1> QED
  BY <1>2, <1>3, <1>4, <1>5, <1>6 DEF Reached

(* A run moves on to where it has left everything behind it that belongs     *)
(* there; the others are where they were.                                    *)
LEMMA RunMoves ==
  ASSUME SeedInv, Grows, NEW p \in Seeders, NEW step \in SeedSteps, NEW n \in Nat, goes(p, step, n),
         Reached(step, n)'
  PROVE  seeding' \in [Seeders -> SeedStates] /\ AllReached'
<1>1. [step |-> step, n |-> n] \in SeedStates
  BY DEF SeedStates
<1>2. /\ seeding' \in [Seeders -> SeedStates] /\ seeding'[p] = [step |-> step, n |-> n]
      /\ \A q \in Seeders \ {p} : seeding'[q] = seeding[q]
  BY <1>1 DEF SeedInv, SeedTypes, goes
<1>3. ASSUME NEW q \in Seeders, NEW s \in SeedSteps, NEW m \in Nat, seeding'[q] = [step |-> s, n |-> m]
      PROVE  Reached(s, m)'
  <2>1. CASE q = p
    <3>1. s = step /\ m = n
      BY <1>2, <1>3, <2>1
    <3> QED
      BY <3>1
  <2>2. CASE q # p
    <3>1. Reached(s, m)
      BY <1>2, <1>3, <2>2 DEF SeedInv, AllReached
    <3> QED
      BY <3>1, ReachedStays
  <2> QED
    BY <2>1, <2>2
<1> QED
  BY <1>2, <1>3 DEF AllReached

(* Nobody moves.                                                             *)
LEMMA NobodyMoves ==
  ASSUME SeedInv, Grows, seeding' = seeding
  PROVE  AllReached'
  BY ReachedStays DEF SeedInv, AllReached

(* A run has counted already: the catalogue is complete and the counts are   *)
(* right.                                                                    *)
LEMMA OnceCounted ==
  ASSUME SeedInv, NEW q \in Seeders, NEW step \in SeedSteps, NEW n \in Nat,
         seeding[q] = [step |-> step, n |-> n], Counted(step)
  PROVE  Complete /\ CountsRight
<1>1. Reached(step, n)
  BY DEF SeedInv, AllReached
<1> QED
  BY <1>1 DEF Reached, Counted, SeedInv, CountsKept

(* Where a step adds nothing to a complete catalogue, the counts stay right, *)
(* and a run that comes to them without counting is none.                    *)
LEMMA CountsStay ==
  ASSUME SeedInv, NEW p \in Seeders, NEW step \in SeedSteps, NEW n \in Nat, goes(p, step, n),
         Counted(step) => \E m \in Nat, s \in SeedSteps : seeding[p] = [step |-> s, n |-> m] /\ Counted(s),
         UNCHANGED <<apiCount, countsOld>>,
         Complete => UNCHANGED <<activeRows, childRows>>
  PROVE  CountsKept'
<1>1. /\ seeding'[p] = [step |-> step, n |-> n]
      /\ \A q \in Seeders \ {p} : seeding'[q] = seeding[q]
  BY DEF SeedInv, SeedTypes, goes
<1>2. Complete /\ CountsRight => CountsRight'
  BY DEF CountsRight, countOf
<1>3. ASSUME NEW q \in Seeders, NEW s \in SeedSteps, NEW m \in Nat, seeding'[q] = [step |-> s, n |-> m],
             Counted(s)
      PROVE  CountsRight'
  <2>1. CASE q = p
    <3>1. s = step
      BY <1>1, <1>3, <2>1
    <3>2. PICK m2 \in Nat, s2 \in SeedSteps : seeding[p] = [step |-> s2, n |-> m2] /\ Counted(s2)
      BY <1>3, <3>1
    <3> QED
      BY <1>2, <3>2, OnceCounted
  <2>2. CASE q # p
    <3>1. seeding[q] = [step |-> s, n |-> m]
      BY <1>1, <1>3, <2>2
    <3> QED
      BY <1>2, <1>3, <3>1, OnceCounted
  <2> QED
    BY <2>1, <2>2
<1> QED
  BY <1>3 DEF CountsKept, Counted

(* Where a run is, and what it has left behind it.                           *)
LEMMA RunAt ==
  ASSUME SeedInv, NEW p \in Seeders
  PROVE  /\ seeding[p].n \in Nat /\ seeding[p].step \in SeedSteps
         /\ seeding[p] = [step |-> seeding[p].step, n |-> seeding[p].n]
         /\ \E s \in SeedSteps, m \in Nat :
              seeding[p] = [step |-> s, n |-> m] /\ s = seeding[p].step /\ m = seeding[p].n /\ Reached(s, m)
<1>1. seeding[p] \in SeedStates
  BY DEF SeedInv, SeedTypes
<1>2. seeding[p].n \in Nat /\ seeding[p].step \in SeedSteps
      /\ seeding[p] = [step |-> seeding[p].step, n |-> seeding[p].n]
  BY <1>1 DEF SeedStates
<1>3. PICK s \in SeedSteps, m \in Nat : s = seeding[p].step /\ m = seeding[p].n
  BY <1>2
<1>4. seeding[p] = [step |-> s, n |-> m]
  BY <1>2, <1>3
<1>5. Reached(s, m)
  BY <1>4 DEF SeedInv, AllReached
<1> QED
  BY <1>2, <1>3, <1>4, <1>5

(* The next turn of a loop over a list, or what follows it.                  *)
LEMMA LoopGoes ==
  ASSUME NEW p, NEW last \in Nat, NEW again, NEW after, loops(p, last, again, after), NEW n \in 1..last,
         seeding[p].n = n
  PROVE  \/ n < last /\ n + 1 \in 1..last /\ goes(p, again, n + 1)
         \/ n = last /\ goes(p, after, 1)
<1>1. n < last \/ n = last
  OBVIOUS
<1>2. n < last => n + 1 \in 1..last
  OBVIOUS
<1> QED
  BY <1>1, <1>2 DEF loops

(* A run begins, or is interrupted.                                          *)
LEMMA SeedStarts ==
  ASSUME SeedInv, NEW p \in Seeders, start(p) \/ interrupt(p)
  PROVE  SeedInv'
<1>1. UNCHANGED <<catRows, activeRows, hiddenRows, childRows, apiCount, userRows, slugsTaken, hides, countsOld>>
  BY DEF start, interrupt, contents, environment
<1>2. PICK step \in {"category", "ready"} : goes(p, step, 1)
  BY DEF start, interrupt
<1>3. Grows
  BY <1>1 DEF Grows, seedRows, SeedInv, SeedTypes
<1>4. step \in SeedSteps /\ ~Counted(step)
  BY DEF SeedSteps, Counted
<1>5. Reached(step, 1)'
  BY SeedSizes DEF Reached
<1>6. seeding' \in [Seeders -> SeedStates] /\ AllReached'
  BY <1>2, <1>3, <1>4, <1>5, RunMoves
<1>7. CountsKept'
  BY <1>1, <1>2, <1>4, CountsStay
<1>8. HiddenKept' /\ SeedTypes'
  BY <1>1, <1>6 DEF SeedInv, HiddenKept, SeedTypes
<1> QED
  BY <1>6, <1>7, <1>8 DEF SeedInv

(* A category is written.                                                    *)
LEMMA SeedCategory ==
  ASSUME SeedInv, NEW p \in Seeders, upsertCategory(p)
  PROVE  SeedInv'
<1>0. /\ at(p, "category") /\ catRows' = catRows \cup {SeedCategories[seeding[p].n]}
      /\ loops(p, Len(SeedCategories), "category", "api")
      /\ UNCHANGED <<activeRows, hiddenRows, childRows, apiCount, userRows, slugsTaken, hides, countsOld>>
  BY DEF upsertCategory, environment
<1>1. PICK n \in Nat : n = seeding[p].n /\ Reached("category", n)
  BY <1>0, RunAt DEF at
<1>2. n \in 1..Len(SeedCategories) /\ \A k \in 1..(n - 1) : SeedCategories[k] \in catRows
  BY <1>1 DEF Reached
<1>3. catRows' = catRows \cup {SeedCategories[n]} /\ catRows' \subseteq CategorySet
  BY <1>0, <1>1, <1>2, SeedSizes DEF SeedInv, SeedTypes
<1>4. Grows
  BY <1>0, <1>3 DEF Grows, seedRows, SeedInv, SeedTypes
<1>5. \A k \in 1..n : SeedCategories[k] \in catRows'
  BY <1>2, <1>3
<1>6. PICK step \in {"category", "api"}, m \in Nat : goes(p, step, m) /\ Reached(step, m)'
  <2>1. Len(SeedCategories) \in Nat
    BY SeedSizes
  <2>2. CASE n < Len(SeedCategories) /\ n + 1 \in 1..Len(SeedCategories) /\ goes(p, "category", n + 1)
    <3>1. Reached("category", n + 1)'
      BY <1>5, <2>2 DEF Reached
    <3> QED
      BY <2>2, <3>1
  <2>3. CASE n = Len(SeedCategories) /\ goes(p, "api", 1)
    <3>1. catRows' = CategorySet
      BY <1>3, <1>5, <2>3, SeedSizes
    <3>2. 1 \in 1..Len(SeedApis) /\ 1..(1 - 1) = {}
      BY SeedSizes
    <3>3. Reached("api", 1)'
      BY <3>1, <3>2 DEF Reached
    <3> QED
      BY <2>3, <3>3
  <2> QED
    BY <1>0, <1>1, <1>2, <2>1, <2>2, <2>3, LoopGoes
<1>7. step \in SeedSteps /\ ~Counted(step)
  BY DEF SeedSteps, Counted
<1>8. seeding' \in [Seeders -> SeedStates] /\ AllReached'
  BY <1>4, <1>6, <1>7, RunMoves
<1>9. CountsKept'
  BY <1>0, <1>6, <1>7, CountsStay
<1>10. HiddenKept' /\ SeedTypes'
  BY <1>0, <1>3, <1>8 DEF SeedInv, HiddenKept, SeedTypes
<1> QED
  BY <1>8, <1>9, <1>10 DEF SeedInv

(* An API is written, or its slug is another's.                              *)
LEMMA SeedApi ==
  ASSUME SeedInv, NEW p \in Seeders, upsertApi(p)
  PROVE  SeedInv'
<1>1. PICK n \in Nat : n = seeding[p].n /\ Reached("api", n)
  BY RunAt DEF at, upsertApi
<1>2. n \in 1..Len(SeedApis) /\ catRows = CategorySet /\ \A k \in 1..(n - 1) : ApiSeeded(SeedApis[k])
  BY <1>1 DEF Reached
<1>3. PICK api \in SeedSet : api = SeedApis[n]
  BY <1>2, SeedSizes
<1>4. UNCHANGED <<catRows, hiddenRows, childRows, apiCount, userRows, slugsTaken, hides, countsOld>>
  BY DEF upsertApi, environment
<1>5. \/ api \in seedRows /\ goes(p, "mapping", n) /\ activeRows' = activeRows
      \/ api \notin seedRows /\ api \notin slugsTaken /\ goes(p, "mapping", n) /\ activeRows' = activeRows \cup {api}
      \/ goes(p, "failed", 1) /\ activeRows' = activeRows
  BY <1>1, <1>3 DEF upsertApi
<1>6. Grows
  BY <1>4, <1>5 DEF Grows, seedRows, SeedInv, SeedTypes
<1>7. PICK step \in {"mapping", "failed"}, m \in Nat : goes(p, step, m) /\ Reached(step, m)'
  <2>1. CASE api \in seedRows' /\ goes(p, "mapping", n)
    <3>1. Reached("api", n)'
      BY <1>1, <1>6, ReachedStays
    <3>2. Reached("mapping", n)'
      BY <1>3, <2>1, <3>1 DEF Reached
    <3> QED
      BY <2>1, <3>2
  <2>2. CASE goes(p, "failed", 1)
    <3>1. Reached("failed", 1)'
      BY DEF Reached
    <3> QED
      BY <2>2, <3>1
  <2>3. (api \in seedRows' /\ goes(p, "mapping", n)) \/ goes(p, "failed", 1)
    BY <1>4, <1>5 DEF seedRows
  <2> QED
    BY <2>1, <2>2, <2>3
<1>8. step \in SeedSteps /\ ~Counted(step)
  BY DEF SeedSteps, Counted
<1>9. seeding' \in [Seeders -> SeedStates] /\ AllReached'
  BY <1>6, <1>7, <1>8, RunMoves
<1>10. Complete => api \in seedRows
  BY DEF Complete, ApiSeeded
<1>11. CountsKept'
  BY <1>4, <1>5, <1>7, <1>8, <1>10, CountsStay
<1>12. HiddenKept' /\ SeedTypes'
  BY <1>4, <1>5, <1>9 DEF SeedInv, HiddenKept, SeedTypes, seedRows
<1> QED
  BY <1>9, <1>11, <1>12 DEF SeedInv

(* A row that hangs on an API is written: to a complete catalogue it adds    *)
(* nothing.                                                                  *)
LEMMA SeedChild ==
  ASSUME SeedInv, NEW p \in Seeders, NEW rows, childRows' = childRows \cup rows,
         UNCHANGED <<catRows, activeRows, hiddenRows, apiCount, userRows, slugsTaken, hides, countsOld>>,
         Complete => rows \subseteq childRows,
         NEW step \in SeedSteps, NEW n \in Nat, goes(p, step, n), ~Counted(step), Reached(step, n)'
  PROVE  SeedInv'
<1>1. Grows
  BY DEF Grows, seedRows, SeedInv, SeedTypes
<1>2. seeding' \in [Seeders -> SeedStates] /\ AllReached'
  BY <1>1, RunMoves
<1>3. Complete => childRows' = childRows
  OBVIOUS
<1>4. CountsKept'
  BY <1>3, CountsStay
<1>5. HiddenKept' /\ SeedTypes'
  BY <1>2 DEF SeedInv, HiddenKept, SeedTypes
<1> QED
  BY <1>2, <1>4, <1>5 DEF SeedInv

(* What the statements between an API and the next one have in common.       *)
LEMMA AtApi ==
  ASSUME SeedInv, NEW p \in Seeders, NEW step \in {"mapping", "endpoint", "scheme"}, at(p, step)
  PROVE  \E n \in 1..Len(SeedApis) :
           n = seeding[p].n /\ n \in Nat /\ Reached(step, n) /\ SeedApis[n] \in SeedSet
<1>1. PICK n \in Nat : n = seeding[p].n /\ Reached(step, n)
  BY RunAt DEF at
<1>2. n \in 1..Len(SeedApis)
  BY <1>1 DEF Reached
<1> QED
  BY <1>1, <1>2, SeedSizes

(* The rows of an API after its own, in their order.                         *)
LEMMA SeedRowsOfApi ==
  ASSUME SeedInv, NEW p \in Seeders, insertMapping(p) \/ insertEndpoint(p) \/ insertAuthScheme(p)
  PROVE  SeedInv'
<1>0. UNCHANGED <<catRows, activeRows, hiddenRows, apiCount, userRows, slugsTaken, hides, countsOld>>
  BY DEF insertMapping, insertEndpoint, insertAuthScheme, environment
<1>1. CASE insertMapping(p)
  <2>1. PICK n \in 1..Len(SeedApis) : n = seeding[p].n /\ n \in Nat /\ Reached("mapping", n) /\ SeedApis[n] \in SeedSet
    BY <1>1, AtApi DEF insertMapping
  <2> DEFINE rows == IF CategoryOf[SeedApis[n]] \in CategorySet THEN {<<"mapping", SeedApis[n]>>} ELSE {}
  <2>2. childRows' = childRows \cup rows /\ goes(p, "endpoint", n)
    BY <1>1, <2>1 DEF insertMapping
  <2>3. Complete => rows \subseteq childRows
    BY <2>1 DEF Complete, ApiSeeded
  <2>4. CategoryOf[SeedApis[n]] \in CategorySet => <<"mapping", SeedApis[n]>> \in childRows'
    BY <2>2
  <2> HIDE DEF rows
  <2>5. Grows
    BY <1>0, <2>2 DEF Grows, seedRows, SeedInv, SeedTypes
  <2>6. Reached("mapping", n)'
    BY <2>1, <2>5, ReachedStays
  <2>7. Reached("endpoint", n)'
    BY <2>4, <2>6 DEF Reached
  <2>8. "endpoint" \in SeedSteps /\ ~Counted("endpoint")
    BY DEF SeedSteps, Counted
  <2> QED
    BY <1>0, <2>1, <2>2, <2>3, <2>7, <2>8, SeedChild
<1>2. CASE insertEndpoint(p)
  <2>1. PICK n \in 1..Len(SeedApis) : n = seeding[p].n /\ n \in Nat /\ Reached("endpoint", n) /\ SeedApis[n] \in SeedSet
    BY <1>2, AtApi DEF insertEndpoint
  <2> DEFINE rows == {<<"endpoint", SeedApis[n]>>}
  <2>2. childRows' = childRows \cup rows /\ goes(p, "scheme", n)
    BY <1>2, <2>1 DEF insertEndpoint
  <2>3. Complete => rows \subseteq childRows
    BY <2>1 DEF Complete, ApiSeeded
  <2>4. <<"endpoint", SeedApis[n]>> \in childRows'
    BY <2>2
  <2> HIDE DEF rows
  <2>5. Grows
    BY <1>0, <2>2 DEF Grows, seedRows, SeedInv, SeedTypes
  <2>6. Reached("endpoint", n)'
    BY <2>1, <2>5, ReachedStays
  <2>7. Reached("scheme", n)'
    BY <2>4, <2>6 DEF Reached
  <2>8. "scheme" \in SeedSteps /\ ~Counted("scheme")
    BY DEF SeedSteps, Counted
  <2> QED
    BY <1>0, <2>1, <2>2, <2>3, <2>7, <2>8, SeedChild
<1>3. CASE insertAuthScheme(p)
  <2>1. PICK n \in 1..Len(SeedApis) : n = seeding[p].n /\ n \in Nat /\ Reached("scheme", n) /\ SeedApis[n] \in SeedSet
    BY <1>3, AtApi DEF insertAuthScheme
  <2> DEFINE rows == {<<"scheme", SeedApis[n]>>}
  <2>2. childRows' = childRows \cup rows /\ loops(p, Len(SeedApis), "api", "counts")
    BY <1>3, <2>1 DEF insertAuthScheme
  <2>3. Complete => rows \subseteq childRows
    BY <2>1 DEF Complete, ApiSeeded
  <2>4. <<"scheme", SeedApis[n]>> \in childRows'
    BY <2>2
  <2> HIDE DEF rows
  <2>5. Grows
    BY <1>0, <2>2 DEF Grows, seedRows, SeedInv, SeedTypes
  <2>6. Reached("scheme", n)'
    BY <2>1, <2>5, ReachedStays
  <2>7. ApiSeeded(SeedApis[n])'
    <3>1. /\ SeedApis[n] \in seedRows' /\ <<"endpoint", SeedApis[n]>> \in childRows'
          /\ CategoryOf[SeedApis[n]] \in CategorySet => <<"mapping", SeedApis[n]>> \in childRows'
      BY <2>6 DEF Reached
    <3> QED
      BY <2>4, <3>1 DEF ApiSeeded
  <2>8. catRows' = CategorySet /\ \A k \in 1..(n - 1) : ApiSeeded(SeedApis[k])'
    BY <2>6 DEF Reached
  <2>9. \A k \in 1..n : ApiSeeded(SeedApis[k])'
    BY <2>7, <2>8
  <2>10. PICK step \in {"api", "counts"}, m \in Nat : goes(p, step, m) /\ Reached(step, m)'
    <3>1. Len(SeedApis) \in Nat
      BY SeedSizes
    <3>2. CASE n < Len(SeedApis) /\ n + 1 \in 1..Len(SeedApis) /\ goes(p, "api", n + 1)
      <4>1. n + 1 - 1 = n
        BY <2>1
      <4>2. Reached("api", n + 1)'
        BY <2>8, <2>9, <3>2, <4>1 DEF Reached
      <4> QED
        BY <3>2, <4>2
    <3>3. CASE n = Len(SeedApis) /\ goes(p, "counts", 1)
      <4>1. \A api \in SeedSet : ApiSeeded(api)'
        BY <2>9, <3>3, SeedSizes
      <4>2. Complete'
        BY <2>8, <4>1 DEF Complete
      <4>3. Reached("counts", 1)'
        BY <4>2 DEF Reached
      <4> QED
        BY <3>3, <4>3
    <3> QED
      BY <2>1, <2>2, <3>1, <3>2, <3>3, LoopGoes
  <2>11. step \in SeedSteps /\ ~Counted(step)
    BY DEF SeedSteps, Counted
  <2> QED
    BY <1>0, <2>2, <2>3, <2>10, <2>11, SeedChild
<1> QED
  BY <1>1, <1>2, <1>3

(* The counts are refreshed over a complete catalogue.                       *)
LEMMA SeedCounts ==
  ASSUME SeedInv, NEW p \in Seeders, refreshCounts(p)
  PROVE  SeedInv'
<1>1. /\ at(p, "counts") /\ goes(p, "account", 1) /\ apiCount' = [c \in CategorySet |-> countOf(c)]
      /\ UNCHANGED <<catRows, activeRows, hiddenRows, childRows, userRows, slugsTaken, hides>>
  BY DEF refreshCounts, environment
<1>2. Grows
  BY <1>1 DEF Grows, seedRows, SeedInv, SeedTypes
<1>3. PICK n \in Nat : Reached("counts", n)
  BY <1>1, RunAt DEF at
<1>4. Reached("counts", n)'
  BY <1>2, <1>3, ReachedStays
<1>5. Reached("account", 1)'
  BY <1>4 DEF Reached
<1>6. seeding' \in [Seeders -> SeedStates] /\ AllReached'
  <2>1. "account" \in SeedSteps
    BY DEF SeedSteps
  <2> QED
    BY <1>1, <1>2, <1>5, <2>1, RunMoves
<1>7. CountsRight'
  BY <1>1 DEF CountsRight, countOf
<1>8. HiddenKept' /\ SeedTypes'
  BY <1>1, <1>6 DEF SeedInv, HiddenKept, SeedTypes
<1> QED
  BY <1>6, <1>7, <1>8 DEF SeedInv, CountsKept

(* An account is written, or found.                                          *)
LEMMA SeedAccount ==
  ASSUME SeedInv, NEW p \in Seeders, insertAccount(p)
  PROVE  SeedInv'
<1>1. /\ at(p, "account") /\ userRows' = userRows \cup {Emails[seeding[p].n]} /\ loops(p, 2, "account", "done")
      /\ UNCHANGED <<catRows, activeRows, hiddenRows, childRows, apiCount, slugsTaken, hides, countsOld>>
  <2>1. Len(Emails) = 2
    BY DEF Emails
  <2> QED
    BY <2>1 DEF insertAccount, environment
<1>2. PICK n \in Nat : n = seeding[p].n /\ seeding[p] = [step |-> "account", n |-> n] /\ Reached("account", n)
  BY <1>1, RunAt DEF at
<1>3. n \in 1..2 /\ Complete /\ (n = 2 => "admin" \in userRows)
  BY <1>2 DEF Reached
<1>4. Emails[1] = "admin" /\ Emails[2] = "demo"
  BY DEF Emails
<1>5. userRows' = userRows \cup {Emails[n]} /\ Emails[n] \in {"admin", "demo"}
  BY <1>1, <1>2, <1>3, <1>4
<1>6. Grows
  BY <1>1, <1>5 DEF Grows, seedRows, SeedInv, SeedTypes
<1>7. Reached("account", n)'
  BY <1>2, <1>6, ReachedStays
<1>8. PICK step \in {"account", "done"}, m \in Nat : goes(p, step, m) /\ Reached(step, m)'
  <2>1. CASE n < 2 /\ goes(p, "account", n + 1)
    <3>1. n = 1 /\ "admin" \in userRows'
      BY <1>3, <1>4, <1>5, <2>1
    <3>2. Reached("account", 2)'
      BY <1>7, <3>1 DEF Reached
    <3> QED
      BY <2>1, <3>1, <3>2
  <2>2. CASE n = 2 /\ goes(p, "done", 1)
    <3>1. "demo" \in userRows' /\ "admin" \in userRows'
      BY <1>3, <1>4, <1>5, <2>2
    <3>2. userRows' = {"admin", "demo"}
      BY <1>5, <3>1 DEF SeedInv, SeedTypes
    <3>3. Reached("done", 1)'
      BY <1>7, <3>2 DEF Reached
    <3> QED
      BY <2>2, <3>3
  <2>3. \/ n < 2 /\ n + 1 \in 1..2 /\ goes(p, "account", n + 1)
        \/ n = 2 /\ goes(p, "done", 1)
    BY <1>1, <1>2, <1>3, LoopGoes
  <2> QED
    BY <2>1, <2>2, <2>3
<1>9. step \in SeedSteps /\ "account" \in SeedSteps /\ Counted("account")
  BY DEF SeedSteps, Counted
<1>10. seeding' \in [Seeders -> SeedStates] /\ AllReached'
  BY <1>6, <1>8, <1>9, RunMoves
<1>11. CountsKept'
  BY <1>1, <1>2, <1>8, <1>9, CountsStay
<1>12. HiddenKept' /\ SeedTypes'
  BY <1>1, <1>5, <1>10 DEF SeedInv, HiddenKept, SeedTypes
<1> QED
  BY <1>10, <1>11, <1>12 DEF SeedInv

(* An administrator hides a row.                                             *)
LEMMA SeedHides ==
  ASSUME SeedInv, NEW api \in SeedSet, hide(api)
  PROVE  SeedInv'
<1>1. /\ api \in activeRows /\ hides' = hides + 1 /\ countsOld'
      /\ activeRows' = activeRows \ {api} /\ hiddenRows' = hiddenRows \cup {api}
      /\ UNCHANGED <<seeding, catRows, childRows, apiCount, userRows, slugsTaken>>
  BY DEF hide
<1>2. Grows
  BY <1>1 DEF Grows, seedRows, SeedInv, SeedTypes
<1>3. AllReached'
  BY <1>1, <1>2, NobodyMoves
<1>4. api \notin hiddenRows
  BY <1>1 DEF SeedInv, HiddenKept
<1>5. IsFiniteSet(hiddenRows') /\ Cardinality(hiddenRows') = Cardinality(hiddenRows) + 1
  BY <1>1, <1>4, FS_AddElement DEF SeedInv, SeedTypes
<1>6. CountsKept'
  BY <1>1 DEF CountsKept, CountsRight
<1>7. HiddenKept'
  BY <1>1, <1>5 DEF SeedInv, HiddenKept
<1>8. SeedTypes'
  BY <1>1, <1>5 DEF SeedInv, SeedTypes
<1> QED
  BY <1>3, <1>6, <1>7, <1>8 DEF SeedInv

(* The counts are refreshed, or another source takes a slug.                 *)
LEMMA SeedBeside ==
  ASSUME SeedInv, reindexSearch \/ \E api \in SeedSet : ingest(api)
  PROVE  SeedInv'
<1>1. /\ UNCHANGED <<seeding, catRows, activeRows, hiddenRows, childRows, userRows, hides>>
  BY DEF reindexSearch, ingest, contents, environment
<1>2. Grows
  BY <1>1 DEF Grows, seedRows, SeedInv, SeedTypes
<1>3. AllReached'
  BY <1>1, <1>2, NobodyMoves
<1>4. SeedTypes'
  BY <1>1 DEF SeedInv, SeedTypes
<1>5. HiddenKept'
  BY <1>1 DEF SeedInv, HiddenKept, reindexSearch, ingest, environment, seedRows
<1>6. CountsKept'
  <2>1. CASE reindexSearch
    BY <2>1 DEF reindexSearch, CountsKept, CountsRight, countOf
  <2>2. ASSUME NEW api \in SeedSet, ingest(api) PROVE CountsKept'
    BY <2>2 DEF ingest, contents, SeedInv, CountsKept, CountsRight, countOf
  <2> QED
    BY <2>1, <2>2
<1> QED
  BY <1>3, <1>4, <1>5, <1>6 DEF SeedInv

(* Every step of the seed, and what happens beside it.                       *)
LEMMA SeedMoves == SeedInv /\ seedNext => SeedInv'
  BY SeedStarts, SeedCategory, SeedApi, SeedRowsOfApi, SeedCounts, SeedAccount, SeedHides, SeedBeside
     DEF seedNext, seedStep

(* Nothing is there at first.                                                *)
LEMMA SeedFirst == seedInit => SeedInv
<1> SUFFICES ASSUME seedInit PROVE SeedInv
  OBVIOUS
<1>1. Ready \in SeedStates /\ seeding = [p \in Seeders |-> Ready]
  BY DEF Ready, SeedStates, SeedSteps, seedInit
<1>2. SeedTypes
  BY <1>1, FS_EmptySet DEF seedInit, SeedTypes
<1>3. HiddenKept
  BY FS_EmptySet DEF seedInit, HiddenKept
<1>4. ASSUME NEW q \in Seeders, NEW step \in SeedSteps, NEW n \in Nat, seeding[q] = [step |-> step, n |-> n]
      PROVE  step = "ready"
  BY <1>1, <1>4 DEF Ready
<1>5. AllReached
  BY <1>4 DEF AllReached, Reached
<1>6. CountsKept
  BY <1>4 DEF CountsKept, Counted
<1> QED
  BY <1>2, <1>3, <1>5, <1>6 DEF SeedInv

(* Hence the property.                                                       *)
LEMMA SeedRight == SeedInv => SeedingRepeatable
<1> SUFFICES ASSUME SeedInv PROVE SeedingRepeatable
  OBVIOUS
<1>1. ASSUME NEW p \in Seeders, at(p, "done")
      PROVE  Complete /\ CountsRight /\ userRows = {"admin", "demo"}
  <2>1. PICK n \in Nat : seeding[p] = [step |-> "done", n |-> n] /\ Reached("done", n)
    BY <1>1, RunAt DEF at
  <2>2. "done" \in SeedSteps /\ Counted("done")
    BY DEF SeedSteps, Counted
  <2> QED
    BY <2>1, <2>2, OnceCounted DEF Reached
<1>2. Complete => seedRows = SeedSet /\ catRows = CategorySet
  BY DEF SeedInv, SeedTypes, Complete, ApiSeeded, seedRows
<1>3. ASSUME Complete, NEW api \in SeedSet
      PROVE  /\ {<<"endpoint", api>>, <<"scheme", api>>} \subseteq childRows
             /\ CategoryOf[api] \in CategorySet => <<"mapping", api>> \in childRows
  BY <1>3 DEF Complete, ApiSeeded
<1> QED
  BY <1>1, <1>2, <1>3 DEF SeedingRepeatable, SeedInv, HiddenKept, CountsRight

-----------------------------------------------------------------------------
(* The work together                                                         *)

WorkInv ==
  /\ subject = "retry" => RetryInv
  /\ subject = "map" => MapInv
  /\ subject = "seed" => SeedInv

(* Nothing moves in a step that changes nothing.                             *)
LEMMA WorkStutter == WorkInv /\ UNCHANGED allVars => WorkInv'
<1> SUFFICES ASSUME WorkInv, UNCHANGED allVars PROVE WorkInv'
  OBVIOUS
<1>1. UNCHANGED <<subject, attemptVars, seedVars>>
  BY DEF allVars
<1>2. UNCHANGED <<attempt, stage, timedOut, working, reason, aborted>>
  BY <1>1 DEF attemptVars, retryVars
<1>3. UNCHANGED <<cursor, runner, settled>>
  BY <1>1 DEF attemptVars, mapVars
<1>4. UNCHANGED <<seeding, catRows, activeRows, hiddenRows, childRows, apiCount, userRows, slugsTaken,
                  hides, countsOld>>
  BY <1>1 DEF seedVars
<1>5. RetryInv => RetryInv'
  BY <1>2 DEF RetryInv, AttemptsAlone
<1>6. MapInv => MapInv'
  BY <1>3 DEF MapInv
<1>7. ASSUME SeedInv PROVE SeedInv'
  <2>1. Grows
    BY <1>4, <1>7 DEF Grows, seedRows, SeedInv, SeedTypes
  <2>2. AllReached'
    BY <1>4, <1>7, <2>1, NobodyMoves
  <2>3. SeedTypes' /\ HiddenKept'
    BY <1>4, <1>7 DEF SeedInv, SeedTypes, HiddenKept
  <2>4. CountsKept'
    BY <1>4, <1>7 DEF SeedInv, CountsKept, CountsRight, countOf
  <2> QED
    BY <2>2, <2>3, <2>4 DEF SeedInv
<1> QED
  BY <1>1, <1>5, <1>6, <1>7 DEF WorkInv

-----------------------------------------------------------------------------
(* Finding an API                                                            *)

RenderSteps == {"start", "counted", "rows", "broaden", "rescue", "rank", "hydrate", "done", "idle"}
RenderStates == [step : RenderSteps, found : Seq(apiIds), total : Int, fixed : BOOLEAN]
FilterSets == [q : SearchTexts \cup {{}}, free : {"", "true"}, auth : {"", "none", "apiKey"}, status : {"", "up"},
               sort : Sorts \cup {""}]

DiscoveryTypes ==
  /\ active \subseteq apiIds /\ up \subseteq apiIds
  /\ url \in [filters : FilterSets, page : Nat \ {0}] /\ render \in RenderStates
  /\ changes \in [all : Nat, since : {0, 1}]

(* What may be shown under the filters of the page.                          *)
eligible == IF isSearch THEN wanted ELSE specificationsFor(listFilters)
anyMatch == \E id \in apiIds : isMatch(id, url.filters)

(* Other ways are tried in a search only, and broadening where it has words. *)
Searching(step) ==
  /\ step = "broaden" => isSearch /\ terms # {}
  /\ step = "rescue" => isSearch

(* What a rendering has found is eligible; on the first page it has found    *)
(* something where there is a match.                                         *)
Found(step, ids) ==
  /\ ids \in Seq(eligible)
  /\ anyMatch /\ url.page = 1 =>
       /\ step \in {"rows", "rank", "hydrate"} => ids # <<>>
       /\ step # "rescue"
       /\ step = "done" => shown # <<>>

DiscoveryInv ==
  /\ DiscoveryTypes
  /\ \A step \in RenderSteps : render.step = step => Searching(step)
  /\ changes.since = 0 =>
       shown \in Seq(eligible)
       /\ \A step \in RenderSteps, ids \in Seq(apiIds) :
            render.step = step /\ render.found = ids => Found(step, ids)

(* The database's answers are of the rows asked for, and are not empty when  *)
(* there are any.                                                            *)
LEMMA AnswerIs ==
  ASSUME NEW S, IsFiniteSet(S), NEW s \in SetToSeqs(S)
  PROVE  s \in Seq(S) /\ Len(s) = Cardinality(S) /\ Len(s) \in Nat /\ (S # {} <=> Len(s) > 0)
<1>1. PICK n \in Nat : n = Cardinality(S)
  BY FS_CardinalityType
<1>2. s \in [1..n -> S]
  BY <1>1 DEF SetToSeqs
<1>3. s \in Seq(S) /\ Len(s) = n
  BY <1>2
<1>4. n = 0 <=> S = {}
  BY <1>1, FS_EmptySet
<1> QED
  BY <1>1, <1>3, <1>4

(* A page is cut from it.                                                    *)
LEMMA CutIs ==
  ASSUME NEW S, NEW s \in Seq(S), NEW m \in Nat \ {0}, NEW n \in Nat, n <= Len(s)
  PROVE  SubSeq(s, m, n) \in Seq(S) /\ (m <= n => Len(SubSeq(s, m, n)) > 0) /\ Len(SubSeq(s, m, n)) <= n
<1>1. \A i \in m..n : s[i] \in S
  OBVIOUS
<1>2. SubSeq(s, m, n) \in Seq(S) /\ Len(SubSeq(s, m, n)) = IF m <= n THEN n - m + 1 ELSE 0
  BY <1>1, SubSeqProperties
<1> QED
  BY <1>2

(* So are the first ones.                                                    *)
LEMMA FirstIs ==
  ASSUME NEW S, NEW s \in Seq(S), NEW n \in Nat \ {0}
  PROVE  /\ firstOf(s, n) \in Seq(S) /\ Len(firstOf(s, n)) \in Nat
         /\ Len(s) > 0 => Len(firstOf(s, n)) > 0
<1>1. PICK k \in Nat : k = (IF Len(s) < n THEN Len(s) ELSE n) /\ k <= Len(s) /\ (Len(s) > 0 => 1 <= k)
  OBVIOUS
<1>2. firstOf(s, n) = SubSeq(s, 1, k)
  BY <1>1 DEF firstOf
<1> QED
  BY <1>1, <1>2, CutIs

(* While neither the filters nor the catalogue change, neither does what may *)
(* be shown.                                                                 *)
LEMMA SameEligible ==
  ASSUME UNCHANGED <<active, up>>, url'.filters = url.filters
  PROVE  eligible' = eligible /\ anyMatch' = anyMatch /\ isSearch' = isSearch /\ terms' = terms
<1>1. isSearch' = isSearch /\ terms' = terms /\ listFilters' = listFilters
  BY DEF isSearch, terms, listFilters
<1>2. ASSUME NEW f PROVE specificationsFor(f)' = specificationsFor(f)
  BY DEF specificationsFor, healthStatusSpecification
<1>3. wanted' = wanted
  BY DEF wanted, specificationsFor, healthStatusSpecification
<1>4. specificationsFor(listFilters)' = specificationsFor(listFilters)
  BY <1>1 DEF specificationsFor, healthStatusSpecification
<1>5. eligible' = eligible
  BY <1>1, <1>3, <1>4 DEF eligible
<1>6. anyMatch' = anyMatch
  BY <1>1 DEF anyMatch, isMatch, specificationsFor, healthStatusSpecification
<1> QED
  BY <1>1, <1>5, <1>6

(* What may be shown is in the catalogue.                                    *)
LEMMA EligibleIs ==
  ASSUME DiscoveryTypes
  PROVE  /\ eligible \subseteq apiIds /\ IsFiniteSet(apiIds)
         /\ \A S \in SUBSET eligible : IsFiniteSet(S)
<1>1. eligible \subseteq active
  BY DEF eligible, wanted, specificationsFor
<1>2. eligible \subseteq apiIds
  BY <1>1 DEF DiscoveryTypes
<1>3. IsFiniteSet(apiIds)
  BY DiscoveryAssumption DEF DiscoveryAssumption, apiIds
<1>4. \A S \in SUBSET apiIds : IsFiniteSet(S)
  BY <1>3, FS_Subset
<1> QED
  BY <1>2, <1>3, <1>4

(* A match may be shown, and has all the words.                              *)
LEMMA MatchIs ==
  ASSUME anyMatch
  PROVE  /\ eligible # {}
         /\ isSearch => terms = {} \/ \E id \in wanted : matchesAll(id, terms)
<1>1. PICK id \in apiIds : isMatch(id, url.filters)
  BY DEF anyMatch
<1>2. id \in eligible
  BY <1>1 DEF isMatch, eligible, wanted, isSearch
<1>3. isSearch => id \in wanted /\ (terms = {} \/ matchesAll(id, terms))
  BY <1>1, <1>2 DEF isMatch, eligible, terms
<1> QED
  BY <1>2, <1>3

(* A step of the rendering that finds what it should.                        *)
LEMMA RenderMoves ==
  ASSUME DiscoveryInv, render' \in RenderStates, UNCHANGED <<active, up, url, shown, changes>>,
         \A step \in RenderSteps : render'.step = step => Searching(step),
         changes.since = 0 =>
           \A step \in RenderSteps, ids \in Seq(apiIds) :
             render'.step = step /\ render'.found = ids => Found(step, ids)
  PROVE  DiscoveryInv'
<1>1. eligible' = eligible /\ anyMatch' = anyMatch /\ isSearch' = isSearch /\ terms' = terms
  BY SameEligible
<1>2. DiscoveryTypes'
  BY DEF DiscoveryInv, DiscoveryTypes
<1>3. ASSUME NEW step, NEW ids, Found(step, ids) PROVE Found(step, ids)'
  BY <1>1, <1>3 DEF Found
<1>4. changes.since = 0 => shown \in Seq(eligible)
  BY DEF DiscoveryInv
<1>5. ASSUME NEW step, Searching(step) PROVE Searching(step)'
  BY <1>1, <1>5 DEF Searching
<1> QED
  BY <1>1, <1>2, <1>3, <1>4, <1>5 DEF DiscoveryInv

(* What a step has found is of the kind.                                     *)
LEMMA RenderedOk ==
  ASSUME DiscoveryTypes, NEW ids \in Seq(eligible), NEW step \in RenderSteps, NEW total \in Int,
         NEW fixed \in BOOLEAN
  PROVE  /\ ids \in Seq(apiIds)
         /\ [render EXCEPT !.found = ids, !.step = step] \in RenderStates
         /\ [render EXCEPT !.found = ids, !.step = step].found = ids
         /\ [render EXCEPT !.found = ids, !.step = step].step = step
         /\ [render EXCEPT !.total = total, !.step = step] \in RenderStates
         /\ [render EXCEPT !.total = total, !.step = step].found = render.found
         /\ [render EXCEPT !.total = total, !.step = step].step = step
         /\ [render EXCEPT !.found = ids, !.total = total, !.fixed = fixed, !.step = step] \in RenderStates
         /\ [render EXCEPT !.found = ids, !.total = total, !.fixed = fixed, !.step = step].found = ids
         /\ [render EXCEPT !.found = ids, !.total = total, !.fixed = fixed, !.step = step].step = step
<1>1. eligible \subseteq apiIds
  BY EligibleIs
<1>2. ids \in Seq(apiIds)
  BY <1>1
<1>3. render \in RenderStates
  BY DEF DiscoveryTypes
<1> QED
  BY <1>2, <1>3 DEF RenderStates

(* What a step of the rendering leaves alone.                                *)
LEMMA RendersIs ==
  ASSUME NEW r, Renders(r)
  PROVE  render' = r /\ UNCHANGED <<active, up, url, shown, changes>>
  BY DEF Renders

(* The list is counted.                                                      *)
LEMMA ListCounted ==
  ASSUME DiscoveryInv, listCounts
  PROVE  DiscoveryInv'
<1>1. /\ render.step \in {"start", "rows"} /\ ~isSearch
      /\ Renders([render EXCEPT !.total = Cardinality(specificationsFor(listFilters)),
                                !.step = IF render.step = "start" THEN "counted" ELSE "hydrate"])
  BY DEF listCounts
<1>2. PICK total \in Int : total = Cardinality(specificationsFor(listFilters))
  <2>1. eligible = specificationsFor(listFilters)
    BY <1>1 DEF eligible
  <2>2. IsFiniteSet(specificationsFor(listFilters))
    BY <2>1, EligibleIs DEF DiscoveryInv
  <2> QED
    BY <2>2, FS_CardinalityType
<1>3. PICK step \in RenderSteps : step = IF render.step = "start" THEN "counted" ELSE "hydrate"
  BY DEF RenderSteps
<1>4. /\ render' = [render EXCEPT !.total = total, !.step = step]
      /\ UNCHANGED <<active, up, url, shown, changes>>
  <2>1. Renders([render EXCEPT !.total = total, !.step = step])
    BY <1>1, <1>2, <1>3
  <2> QED
    BY <2>1, RendersIs
<1>5. render' \in RenderStates /\ render'.found = render.found /\ render'.step = step
  <2>1. DiscoveryTypes /\ <<>> \in Seq(eligible)
    BY DEF DiscoveryInv
  <2> QED
    BY <1>4, <2>1, RenderedOk
<1>6. ASSUME changes.since = 0, NEW ids \in Seq(apiIds), render.found = ids PROVE Found(step, ids)
  <2>1. PICK before \in RenderSteps : before = render.step
    BY <1>1 DEF RenderSteps
  <2>2. Found(before, ids)
    BY <1>6, <2>1 DEF DiscoveryInv
  <2>3. (before = "start" /\ step = "counted") \/ (before = "rows" /\ step = "hydrate")
    BY <1>1, <1>3, <2>1
  <2> QED
    BY <2>2, <2>3 DEF Found
<1>7. Searching(step)
  BY <1>3 DEF Searching
<1> QED
  BY <1>4, <1>5, <1>6, <1>7, RenderMoves

(* A page of the list is read.                                               *)
LEMMA ListRead ==
  ASSUME DiscoveryInv, listRows
  PROVE  DiscoveryInv'
<1>0. DiscoveryTypes
  BY DEF DiscoveryInv
<1>1. PICK s \in SetToSeqs(specificationsFor(listFilters)) :
        Renders([render EXCEPT !.found = SubSeq(s, offset(url.page) + 1,
                                                IF Len(s) < offset(url.page) + PageSize THEN Len(s)
                                                ELSE offset(url.page) + PageSize),
                               !.step = IF render.step = "start" THEN "rows" ELSE "hydrate"])
  BY DEF listRows, ordered
<1>2. ~isSearch /\ eligible = specificationsFor(listFilters)
  BY DEF listRows, eligible
<1>3. s \in Seq(eligible) /\ Len(s) \in Nat /\ (eligible # {} => Len(s) > 0)
  <2>1. IsFiniteSet(eligible)
    BY <1>0, EligibleIs
  <2> QED
    BY <1>1, <1>2, <2>1, AnswerIs
<1>4. PICK from \in Nat : from = offset(url.page) /\ (url.page = 1 => from = 0)
  <2>1. url.page \in Nat \ {0} /\ PageSize \in Nat
    BY <1>0, DiscoveryAssumption DEF DiscoveryTypes, DiscoveryAssumption
  <2>2. \A p \in Nat \ {0} : \A k \in Nat : (p - 1) * k \in Nat /\ (p = 1 => (p - 1) * k = 0)
    OBVIOUS
  <2> QED
    BY <2>1, <2>2 DEF offset
<1>5. PICK n \in Nat : /\ n = (IF Len(s) < from + PageSize THEN Len(s) ELSE from + PageSize)
                       /\ n <= Len(s) /\ (Len(s) > 0 => 1 <= n)
  BY <1>3, <1>4, DiscoveryAssumption DEF DiscoveryAssumption
<1>6. PICK ids \in Seq(eligible) : ids = SubSeq(s, from + 1, n) /\ (from = 0 /\ Len(s) > 0 => Len(ids) > 0)
  <2>1. from + 1 \in Nat \ {0}
    BY <1>4
  <2>2. SubSeq(s, from + 1, n) \in Seq(eligible) /\ (from + 1 <= n => Len(SubSeq(s, from + 1, n)) > 0)
    BY <1>3, <1>5, <2>1, CutIs
  <2>3. from = 0 /\ Len(s) > 0 => from + 1 <= n
    BY <1>5
  <2> QED
    BY <2>2, <2>3
<1>7. PICK step \in {"rows", "hydrate"} : step = IF render.step = "start" THEN "rows" ELSE "hydrate"
  OBVIOUS
<1>8. step \in RenderSteps
  BY <1>7 DEF RenderSteps
<1>9. /\ render' = [render EXCEPT !.found = ids, !.step = step]
      /\ UNCHANGED <<active, up, url, shown, changes>>
  <2>1. Renders([render EXCEPT !.found = ids, !.step = step])
    BY <1>1, <1>4, <1>5, <1>6, <1>7
  <2> QED
    BY <2>1, RendersIs
<1>10. render' \in RenderStates /\ render'.found = ids /\ render'.step = step
  <2>1. 0 \in Int /\ TRUE \in BOOLEAN
    OBVIOUS
  <2> QED
    BY <1>0, <1>8, <1>9, <2>1, RenderedOk
<1>11. anyMatch /\ url.page = 1 => ids # <<>>
  BY <1>3, <1>4, <1>6, MatchIs
<1>12. Found(step, ids)
  BY <1>7, <1>11 DEF Found
<1>13. Searching(step)
  BY <1>7 DEF Searching
<1> QED
  BY <1>9, <1>10, <1>12, <1>13, RenderMoves

(* A query of the search is answered.                                        *)
LEMMA QueryAnswered ==
  ASSUME DiscoveryInv, NEW s, NEW limit \in Nat, Len(s) \in Nat, firstOf(s, limit) \in Seq(eligible),
         NEW step \in RenderSteps, Searching(step), changes.since = 0 => Found(step, firstOf(s, limit)), Reads(s, limit, step)
  PROVE  DiscoveryInv'
<1>1. PICK ids \in Seq(eligible) : ids = firstOf(s, limit)
  OBVIOUS
<1>2. PICK fixed \in BOOLEAN : fixed = (Len(s) =< limit)
  <2>1. (Len(s) =< limit) \in BOOLEAN
    OBVIOUS
  <2> QED
    BY <2>1, Zenon
<1>3. Renders([render EXCEPT !.found = ids, !.fixed = fixed, !.step = step])
  BY <1>1, <1>2 DEF Reads
<1>4. /\ render' = [render EXCEPT !.found = ids, !.fixed = fixed, !.step = step]
      /\ UNCHANGED <<active, up, url, shown, changes>>
  BY <1>3, RendersIs
<1>5. render' \in RenderStates /\ render'.found = ids /\ render'.step = step
  <2>1. render \in RenderStates /\ eligible \subseteq apiIds
    BY EligibleIs DEF DiscoveryInv, DiscoveryTypes
  <2>2. ids \in Seq(apiIds)
    BY <2>1
  <2> QED
    BY <1>4, <2>1, <2>2 DEF RenderStates
<1> QED
  BY <1>1, <1>4, <1>5, RenderMoves

(* An answer of at most so many rows.                                        *)
LEMMA CandidatesAre ==
  ASSUME DiscoveryInv, NEW S \in SUBSET eligible, NEW s \in SetToSeqs(S), NEW limit \in Nat \ {0}
  PROVE  /\ firstOf(s, limit) \in Seq(eligible) /\ s \in Seq(eligible) /\ Len(s) \in Nat
         /\ S # {} => firstOf(s, limit) # <<>> /\ s # <<>> /\ Len(s) # 0
<1>1. IsFiniteSet(S)
  BY EligibleIs DEF DiscoveryInv
<1>2. s \in Seq(S) /\ Len(s) \in Nat /\ (S # {} => Len(s) > 0)
  BY <1>1, AnswerIs
<1>3. s \in Seq(eligible)
  BY <1>2
<1>4. firstOf(s, limit) \in Seq(eligible) /\ (Len(s) > 0 => Len(firstOf(s, limit)) > 0)
  BY <1>3, FirstIs
<1> QED
  BY <1>2, <1>3, <1>4

(* The limits are positive.                                                  *)
LEMMA LimitsAre == CandidateLimit \in Nat \ {0} /\ RescueLimit \in Nat \ {0}
  BY DiscoveryAssumption DEF DiscoveryAssumption

(* The first query: all the words, or the most popular.                      *)
LEMMA CandidatesFound ==
  ASSUME DiscoveryInv, findCandidates
  PROVE  DiscoveryInv'
<1>1. isSearch /\ eligible = wanted
  BY DEF findCandidates, eligible
<1>2. CASE terms = {}
  <2>1. PICK s \in SetToSeqs(wanted) : Reads(s, CandidateLimit, "rank")
    BY <1>2 DEF findCandidates, ordered
  <2>2. /\ firstOf(s, CandidateLimit) \in Seq(eligible) /\ Len(s) \in Nat
        /\ eligible # {} => firstOf(s, CandidateLimit) # <<>>
    BY <1>1, <2>1, CandidatesAre, LimitsAre
  <2>3. Found("rank", firstOf(s, CandidateLimit))
    BY <2>2, MatchIs DEF Found
  <2>4. "rank" \in RenderSteps /\ Searching("rank")
    BY DEF RenderSteps, Searching
  <2> QED
    BY <2>1, <2>2, <2>3, <2>4, QueryAnswered, LimitsAre
<1>3. CASE terms # {}
  <2> DEFINE S == allWords
  <2>1. PICK s \in SetToSeqs(S) :
          Reads(s, CandidateLimit,
                CASE Len(s) < BroadenThreshold /\ Cardinality(terms) > 1 -> "broaden"
                  [] Len(s) = 0 /\ Cardinality(terms) <= 1 -> "rescue"
                  [] OTHER -> "rank")
    BY <1>3 DEF findCandidates, ordered
  <2>2. S \in SUBSET eligible /\ (anyMatch => S # {})
    BY <1>1, <1>3, MatchIs DEF allWords
  <2> HIDE DEF S
  <2>3. PICK ids \in Seq(eligible) :
          ids = firstOf(s, CandidateLimit) /\ (S # {} => ids # <<>> /\ Len(s) # 0) /\ Len(s) \in Nat
    BY <2>1, <2>2, CandidatesAre, LimitsAre
  <2>4. PICK step \in {"broaden", "rescue", "rank"} :
          /\ step = CASE Len(s) < BroadenThreshold /\ Cardinality(terms) > 1 -> "broaden"
                      [] Len(s) = 0 /\ Cardinality(terms) <= 1 -> "rescue"
                      [] OTHER -> "rank"
          /\ step = "rescue" => Len(s) = 0
    OBVIOUS
  <2>5. Found(step, ids)
    BY <1>1, <1>3, <2>2, <2>3, <2>4 DEF Found
  <2>6. step \in RenderSteps /\ Searching(step)
    BY <1>1, <1>3, <2>4 DEF RenderSteps, Searching
  <2>7. Reads(s, CandidateLimit, step)
    BY <2>1, <2>4
  <2> QED
    BY <2>3, <2>5, <2>6, <2>7, QueryAnswered, LimitsAre
<1> QED
  BY <1>2, <1>3

(* Where the rendering is, by what it has found.                             *)
LEMMA RenderAt ==
  ASSUME DiscoveryInv
  PROVE  /\ Searching(render.step) /\ render \in RenderStates
         /\ changes.since = 0 => Found(render.step, render.found)
<1>1. render \in RenderStates
  BY DEF DiscoveryInv, DiscoveryTypes
<1>2. PICK step \in RenderSteps, ids \in Seq(apiIds) : render.step = step /\ render.found = ids
  BY <1>1 DEF RenderStates
<1>3. changes.since = 0 => Found(step, ids)
  BY <1>2 DEF DiscoveryInv
<1>4. Searching(step)
  BY <1>2 DEF DiscoveryInv
<1> QED
  BY <1>1, <1>2, <1>3, <1>4

(* The second query: any of the words.                                       *)
LEMMA Broadened ==
  ASSUME DiscoveryInv, broaden
  PROVE  DiscoveryInv'
<1> DEFINE S == anyWord
<1>1. isSearch /\ terms # {} /\ eligible = wanted
  <2>1. Searching(render.step) /\ render.step = "broaden"
    BY RenderAt DEF broaden
  <2> QED
    BY <2>1 DEF Searching, eligible
<1>2. PICK s \in SetToSeqs(S) : Reads(s, CandidateLimit, IF s = <<>> THEN "rescue" ELSE "rank")
  BY DEF broaden, ordered
<1>3. S \in SUBSET eligible /\ (anyMatch => S # {})
  <2>1. ASSUME NEW id, matchesAll(id, terms) PROVE matchesAny(id, terms)
    BY <1>1, <2>1 DEF matchesAll, matchesAny
  <2> QED
    BY <1>1, <2>1, MatchIs DEF anyWord
<1> HIDE DEF S
<1>4. PICK ids \in Seq(eligible) :
        ids = firstOf(s, CandidateLimit) /\ (S # {} => ids # <<>> /\ s # <<>>) /\ Len(s) \in Nat
  BY <1>2, <1>3, CandidatesAre, LimitsAre
<1>5. PICK step \in {"rescue", "rank"} : step = IF s = <<>> THEN "rescue" ELSE "rank"
  OBVIOUS
<1>6. Found(step, ids)
  BY <1>3, <1>4, <1>5 DEF Found
<1>7. step \in RenderSteps /\ Searching(step)
  BY <1>1, <1>5 DEF RenderSteps, Searching
<1>8. Reads(s, CandidateLimit, step)
  BY <1>2, <1>5
<1> QED
  BY <1>4, <1>6, <1>7, <1>8, QueryAnswered, LimitsAre

(* The third: by name; where it comes to that, nothing matches.              *)
LEMMA Rescued ==
  ASSUME DiscoveryInv, rescue
  PROVE  DiscoveryInv'
<1> DEFINE S == byName
<1>1. isSearch /\ eligible = wanted /\ render.step = "rescue"
  <2>1. Searching(render.step) /\ render.step = "rescue"
    BY RenderAt DEF rescue
  <2> QED
    BY <2>1 DEF Searching, eligible
<1>2. PICK s \in SetToSeqs(S) : Reads(s, RescueLimit, "rank")
  BY DEF rescue, ordered
<1>3. S \in SUBSET eligible
  BY <1>1 DEF byName
<1> HIDE DEF S
<1>4. firstOf(s, RescueLimit) \in Seq(eligible) /\ Len(s) \in Nat
  BY <1>2, <1>3, CandidatesAre, LimitsAre
<1>5. changes.since = 0 => ~(anyMatch /\ url.page = 1)
  BY <1>1, RenderAt DEF Found
<1>6. changes.since = 0 => Found("rank", firstOf(s, RescueLimit))
  BY <1>4, <1>5 DEF Found
<1>7. "rank" \in RenderSteps /\ Searching("rank")
  BY DEF RenderSteps, Searching
<1> QED
  BY <1>2, <1>4, <1>6, <1>7, QueryAnswered, LimitsAre

(* The page of the ranking is of what was found, and its first page has some *)
(* of it.                                                                    *)
LEMMA Ranked ==
  ASSUME DiscoveryInv, rankPage
  PROVE  DiscoveryInv'
<1>0. DiscoveryTypes /\ render \in RenderStates /\ render.step = "rank"
  BY RenderAt DEF DiscoveryInv, rankPage
<1>1. PICK n \in Nat \ {0} : n = IF url.page * PageSize < CandidateLimit THEN url.page * PageSize ELSE CandidateLimit
  <2>1. url.page \in Nat \ {0} /\ PageSize \in Nat \ {0} /\ CandidateLimit \in Nat \ {0}
    BY <1>0, DiscoveryAssumption DEF DiscoveryTypes, DiscoveryAssumption
  <2>2. \A p, k \in Nat \ {0} : p * k \in Nat \ {0}
    OBVIOUS
  <2> QED
    BY <2>1, <2>2
<1>2. PICK from \in Nat : from = offset(url.page) /\ (url.page = 1 => from = 0)
  <2>1. url.page \in Nat \ {0} /\ PageSize \in Nat
    BY <1>0, DiscoveryAssumption DEF DiscoveryTypes, DiscoveryAssumption
  <2>2. \A p \in Nat \ {0} : \A k \in Nat : (p - 1) * k \in Nat /\ (p = 1 => (p - 1) * k = 0)
    OBVIOUS
  <2> QED
    BY <2>1, <2>2 DEF offset
<1>3. PICK s \in SetToSeqs(Range(render.found)) :
        /\ render' = [render EXCEPT !.found = SubSeq(firstOf(s, n), from + 1, Len(firstOf(s, n))),
                                    !.total = Len(render.found), !.step = "hydrate"]
        /\ UNCHANGED <<active, up, url, shown, changes>>
  BY <1>1, <1>2 DEF rankPage, ordered, Renders
<1>4. render.found \in Seq(apiIds) /\ Len(render.found) \in Int
      /\ (changes.since = 0 => render.found \in Seq(eligible))
  BY <1>0, RenderAt DEF RenderStates, Found
<1>5. ASSUME NEW T \in SUBSET apiIds, render.found \in Seq(T)
      PROVE  /\ SubSeq(firstOf(s, n), from + 1, Len(firstOf(s, n))) \in Seq(T)
             /\ from = 0 /\ render.found # <<>> => SubSeq(firstOf(s, n), from + 1, Len(firstOf(s, n))) # <<>>
  <2>1. Range(render.found) \subseteq T /\ (render.found # <<>> => Range(render.found) # {})
    <3>1. PICK fo \in Seq(T) : fo = render.found
      BY <1>5
    <3>2. DOMAIN fo = 1..Len(fo) /\ Len(fo) \in Nat /\ (\A i \in 1..Len(fo) : fo[i] \in T)
      BY <3>1
    <3>3. fo # <<>> => Len(fo) # 0
      BY <3>1
    <3>4. Range(fo) = {fo[i] : i \in 1..Len(fo)}
      BY <3>2 DEF Range
    <3>5. fo # <<>> => fo[1] \in Range(fo)
      <4>1. fo # <<>> => 1 \in 1..Len(fo)
        BY <3>2, <3>3
      <4> QED
        BY <3>4, <4>1
    <3>6. Range(fo) \subseteq T
      BY <3>2, <3>4
    <3>7. fo # <<>> => Range(fo) # {}
      BY <3>5
    <3> QED
      BY <3>1, <3>6, <3>7
  <2>2. IsFiniteSet(Range(render.found))
    <3>1. IsFiniteSet(apiIds)
      BY <1>0, EligibleIs
    <3> QED
      BY <2>1, <3>1, FS_Subset
  <2>3. s \in Seq(Range(render.found)) /\ (Range(render.found) # {} => Len(s) > 0)
    BY <1>3, <2>2, AnswerIs
  <2>4. s \in Seq(T)
    BY <2>1, <2>3
  <2>5. PICK w \in Seq(T) : w = firstOf(s, n) /\ Len(w) \in Nat /\ (Len(s) > 0 => Len(w) > 0)
    BY <1>1, <2>4, FirstIs
  <2>6. SubSeq(w, from + 1, Len(w)) \in Seq(T)
        /\ (from + 1 <= Len(w) => Len(SubSeq(w, from + 1, Len(w))) > 0)
    <3>1. from + 1 \in Nat \ {0} /\ Len(w) <= Len(w)
      BY <1>2, <2>5
    <3> QED
      BY <2>5, <3>1, CutIs
  <2>7. from = 0 /\ render.found # <<>> => Len(SubSeq(w, from + 1, Len(w))) > 0
    BY <2>1, <2>3, <2>5, <2>6
  <2> QED
    BY <2>5, <2>6, <2>7
<1>6. PICK ids \in Seq(apiIds) : ids = SubSeq(firstOf(s, n), from + 1, Len(firstOf(s, n)))
  BY <1>4, <1>5
<1>7. render' \in RenderStates /\ render'.found = ids /\ render'.step = "hydrate"
  <2>1. "hydrate" \in RenderSteps
    BY DEF RenderSteps
  <2> QED
    BY <1>0, <1>3, <1>4, <1>6, <2>1 DEF RenderStates
<1>8. ASSUME changes.since = 0 PROVE Found("hydrate", ids)
  <2>1. eligible \in SUBSET apiIds
    BY <1>0, EligibleIs
  <2>2. ids \in Seq(eligible) /\ (from = 0 /\ render.found # <<>> => ids # <<>>)
    BY <1>4, <1>5, <1>6, <1>8, <2>1
  <2>3. anyMatch /\ url.page = 1 => render.found # <<>>
    BY <1>0, <1>8, RenderAt DEF Found
  <2> QED
    BY <1>2, <2>2, <2>3 DEF Found
<1>9. Searching("hydrate")
  BY DEF Searching
<1> QED
  BY <1>3, <1>7, <1>8, <1>9, RenderMoves

(* The page's rows are shown after those of the pages before.                *)
LEMMA Hydrated ==
  ASSUME DiscoveryInv, hydrate
  PROVE  DiscoveryInv'
<1>1. /\ render.step = "hydrate" /\ render' = [render EXCEPT !.step = "done", !.fixed = @ \/ ~isSearch]
      /\ shown' = shown \o render.found /\ UNCHANGED <<active, up, url, changes>>
  BY DEF hydrate
<1>2. eligible' = eligible /\ anyMatch' = anyMatch /\ isSearch' = isSearch /\ terms' = terms
  BY <1>1, SameEligible
<1>3. render \in RenderStates /\ render.found \in Seq(apiIds)
  BY RenderAt DEF RenderStates
<1>4. render' \in RenderStates /\ render'.step = "done" /\ render'.found = render.found
  <2>1. "done" \in RenderSteps /\ (render.fixed \/ ~isSearch) \in BOOLEAN
    BY DEF RenderSteps
  <2> QED
    BY <1>1, <1>3, <2>1 DEF RenderStates
<1>5. DiscoveryTypes'
  BY <1>1, <1>4 DEF DiscoveryInv, DiscoveryTypes
<1>6. Searching("done")'
  BY DEF Searching
<1>7. ASSUME changes.since = 0
      PROVE  shown' \in Seq(eligible)' /\ Found("done", render.found)'
  <2>1. shown \in Seq(eligible) /\ Found("hydrate", render.found)
    BY <1>1, <1>7, RenderAt DEF DiscoveryInv
  <2>2. PICK ids \in Seq(eligible) : ids = render.found
    BY <2>1 DEF Found
  <2>3. shown \o ids \in Seq(eligible) /\ (ids # <<>> => shown \o ids # <<>>)
    <3>1. Len(shown \o ids) = Len(shown) + Len(ids) /\ Len(shown) \in Nat /\ Len(ids) \in Nat
      BY <2>1, <2>2
    <3>2. ids # <<>> => Len(ids) # 0
      BY <2>2
    <3>3. shown \o ids \in Seq(eligible)
      BY <2>1, <2>2
    <3> QED
      BY <3>1, <3>2, <3>3
  <2>4. anyMatch /\ url.page = 1 => ids # <<>>
    BY <2>1, <2>2 DEF Found
  <2>5. shown' \in Seq(eligible) /\ (anyMatch /\ url.page = 1 => shown' # <<>>)
    BY <1>1, <2>2, <2>3, <2>4
  <2> QED
    BY <1>1, <1>2, <2>2, <2>5 DEF Found
<1> QED
  BY <1>1, <1>4, <1>5, <1>6, <1>7 DEF DiscoveryInv

(* A rendering starts with nothing.                                          *)
LEMMA Started ==
  ASSUME DiscoveryTypes', render' = [idleRender EXCEPT !.step = "start"],
         changes'.since = 0 => shown' \in Seq(eligible')
  PROVE  DiscoveryInv'
<1>1. render'.step = "start" /\ render'.found = <<>>
  BY DEF idleRender
<1>2. Searching("start")' /\ (changes'.since = 0 => Found("start", <<>>)')
  BY DEF Searching, Found
<1> QED
  BY <1>1, <1>2 DEF DiscoveryInv

(* The state a rendering starts in.                                          *)
LEMMA StartIs == [idleRender EXCEPT !.step = "start"] \in RenderStates
<1>1. "start" \in RenderSteps /\ "idle" \in RenderSteps
  BY DEF RenderSteps
<1>2. PICK none : none = <<>> /\ none \in Seq(apiIds)
  <2>1. <<>> \in Seq(apiIds)
    OBVIOUS
  <2> QED
    BY <2>1
<1>3. PICK total \in Int : total = -1
  OBVIOUS
<1>4. idleRender = [step |-> "idle", found |-> none, total |-> total, fixed |-> FALSE]
  BY <1>2, <1>3 DEF idleRender
<1>5. idleRender \in RenderStates
  BY <1>1, <1>2, <1>3, <1>4 DEF RenderStates
<1> QED
  BY <1>1, <1>5 DEF RenderStates

(* The next page.                                                            *)
LEMMA PageTurned ==
  ASSUME DiscoveryInv, nextPage
  PROVE  DiscoveryInv'
<1>1. /\ url' = [url EXCEPT !.page = @ + 1] /\ render' = [idleRender EXCEPT !.step = "start"]
      /\ UNCHANGED <<active, up, shown, changes>>
  BY DEF nextPage
<1>2. url \in [filters : FilterSets, page : Nat \ {0}] /\ (changes.since = 0 => shown \in Seq(eligible))
  BY DEF DiscoveryInv, DiscoveryTypes
<1>3. url' \in [filters : FilterSets, page : Nat \ {0}] /\ url'.filters = url.filters
  BY <1>1, <1>2
<1>4. eligible' = eligible
  BY <1>1, <1>3, SameEligible
<1>5. DiscoveryTypes'
  BY <1>1, <1>3, StartIs DEF DiscoveryInv, DiscoveryTypes
<1> QED
  BY <1>1, <1>2, <1>4, <1>5, Started

(* Other filters: the first page of them.                                    *)
LEMMA FiltersChanged ==
  ASSUME DiscoveryInv, NEW f \in FilterSets, changeFilters(f)
  PROVE  DiscoveryInv'
<1>1. /\ url' = [filters |-> f, page |-> 1] /\ render' = [idleRender EXCEPT !.step = "start"]
      /\ shown' = <<>> /\ changes' = [changes EXCEPT !.since = 0] /\ UNCHANGED <<active, up>>
  BY DEF changeFilters, navigate
<1>2. changes \in [all : Nat, since : {0, 1}]
  BY DEF DiscoveryInv, DiscoveryTypes
<1>3. changes' \in [all : Nat, since : {0, 1}] /\ url' \in [filters : FilterSets, page : Nat \ {0}]
  BY <1>1, <1>2
<1>4. DiscoveryTypes'
  BY <1>1, <1>3, StartIs DEF DiscoveryInv, DiscoveryTypes
<1> QED
  BY <1>1, <1>4, Started

(* Every way to change them keeps them filters.                              *)
LEMMA FiltersAre ==
  ASSUME NEW f \in FilterSets
  PROVE  /\ [f EXCEPT !.free = IF @ = "true" THEN "" ELSE "true"] \in FilterSets
         /\ [f EXCEPT !.status = IF @ = "up" THEN "" ELSE "up"] \in FilterSets
         /\ [noFilters EXCEPT !.q = f.q] \in FilterSets
         /\ \A auth \in {"none", "apiKey"} : [f EXCEPT !.auth = IF @ = auth THEN "" ELSE auth] \in FilterSets
         /\ \A q \in SearchTexts : [f EXCEPT !.q = q] \in FilterSets
         /\ \A sort \in Sorts : [f EXCEPT !.sort = sort] \in FilterSets
         /\ \A k \in {"free", "auth", "status"} : [f EXCEPT ![k] = ""] \in FilterSets
<1>1. /\ [f EXCEPT !.free = IF @ = "true" THEN "" ELSE "true"] \in FilterSets
      /\ [f EXCEPT !.status = IF @ = "up" THEN "" ELSE "up"] \in FilterSets
  BY DEF FilterSets
<1>2. \A auth \in {"none", "apiKey"} : [f EXCEPT !.auth = IF @ = auth THEN "" ELSE auth] \in FilterSets
  BY DEF FilterSets
<1>3. \A q \in SearchTexts : [f EXCEPT !.q = q] \in FilterSets
  BY DEF FilterSets
<1>4. /\ [noFilters EXCEPT !.q = f.q] \in FilterSets
      /\ \A sort \in Sorts : [f EXCEPT !.sort = sort] \in FilterSets
  BY DEF FilterSets, noFilters
<1>5. \A k \in {"free", "auth", "status"} : [f EXCEPT ![k] = ""] \in FilterSets
  BY DEF FilterSets
<1> QED
  BY <1>1, <1>2, <1>3, <1>4, <1>5

(* An API leaves the catalogue, or its health changes.                       *)
LEMMA CatalogueChanged ==
  ASSUME DiscoveryInv, NEW id \in apiIds, changeCatalogue(id)
  PROVE  DiscoveryInv'
<1>1. /\ changes' = [all |-> changes.all + 1, since |-> 1] /\ UNCHANGED <<url, render, shown>>
      /\ active' \in {active, active \ {id}, active \cup {id}} /\ up' \in {up, up \ {id}, up \cup {id}}
  BY DEF changeCatalogue
<1>2. changes \in [all : Nat, since : {0, 1}] /\ active \subseteq apiIds /\ up \subseteq apiIds
  BY DEF DiscoveryInv, DiscoveryTypes
<1>3. changes' \in [all : Nat, since : {0, 1}] /\ changes'.since = 1
  BY <1>1, <1>2
<1>4. active' \subseteq apiIds /\ up' \subseteq apiIds
  BY <1>1, <1>2
<1>5. DiscoveryTypes'
  BY <1>1, <1>3, <1>4 DEF DiscoveryInv, DiscoveryTypes
<1>6. ASSUME NEW step \in RenderSteps, render'.step = step PROVE Searching(step)'
  <2>1. Searching(step)
    BY <1>1, <1>6 DEF DiscoveryInv
  <2> QED
    BY <1>1, <2>1 DEF Searching, isSearch, terms
<1> QED
  BY <1>3, <1>5, <1>6 DEF DiscoveryInv

(* Every step of the pages and of the catalogue.                             *)
LEMMA DiscoveryStep ==
  ASSUME DiscoveryInv, discoveryNext
  PROVE  DiscoveryInv'
<1>1. url.filters \in FilterSets
  BY DEF DiscoveryInv, DiscoveryTypes
<1>2. ASSUME toggleBoolean \/ toggleStatus \/ clearAll PROVE DiscoveryInv'
  <2>1. PICK f \in FilterSets : changeFilters(f)
    BY <1>1, <1>2, FiltersAre DEF toggleBoolean, toggleStatus, clearAll
  <2> QED
    BY <2>1, FiltersChanged
<1>3. ASSUME NEW auth \in {"none", "apiKey"}, toggleValue(auth) PROVE DiscoveryInv'
  <2>1. PICK f \in FilterSets : changeFilters(f)
    BY <1>1, <1>3, FiltersAre DEF toggleValue
  <2> QED
    BY <2>1, FiltersChanged
<1>4. ASSUME NEW q \in SearchTexts, submitText(q) PROVE DiscoveryInv'
  <2>1. PICK f \in FilterSets : changeFilters(f)
    BY <1>1, <1>4, FiltersAre DEF submitText
  <2> QED
    BY <2>1, FiltersChanged
<1>s. ASSUME NEW sort \in Sorts, chooseSort(sort) PROVE DiscoveryInv'
  <2>1. PICK f \in FilterSets : changeFilters(f)
    BY <1>1, <1>s, FiltersAre DEF chooseSort
  <2> QED
    BY <2>1, FiltersChanged
<1>5. ASSUME NEW k \in {"free", "auth", "status"}, remove(k) PROVE DiscoveryInv'
  <2>1. PICK f \in FilterSets : changeFilters(f)
    BY <1>1, <1>5, FiltersAre DEF remove
  <2> QED
    BY <2>1, FiltersChanged
<1> QED
  BY <1>2, <1>3, <1>4, <1>s, <1>5, ListCounted, ListRead, CandidatesFound, Broadened, Rescued, Ranked, Hydrated,
     PageTurned, CatalogueChanged DEF discoveryNext

(* The page opens without filters.                                           *)
LEMMA DiscoveryStarts ==
  ASSUME discoveryInit
  PROVE  DiscoveryInv
<1>1. /\ active = apiIds /\ up \subseteq apiIds /\ url = [filters |-> noFilters, page |-> 1] /\ shown = <<>>
      /\ changes = [all |-> 0, since |-> 0] /\ render = [idleRender EXCEPT !.step = "start"]
  BY DEF discoveryInit
<1>2. noFilters \in FilterSets
  BY DEF noFilters, FilterSets
<1>3. url \in [filters : FilterSets, page : Nat \ {0}] /\ changes \in [all : Nat, since : {0, 1}]
  BY <1>1, <1>2
<1>4. DiscoveryTypes
  BY <1>1, <1>3, StartIs DEF DiscoveryTypes
<1>5. render.step = "start" /\ render.found = <<>>
  BY <1>1 DEF idleRender
<1>6. Searching("start") /\ Found("start", <<>>) /\ shown \in Seq(eligible)
  BY <1>1 DEF Searching, Found
<1> QED
  BY <1>4, <1>5, <1>6 DEF DiscoveryInv

(* Whatever may be shown satisfies the filters chosen, and one the text      *)
(* implies where none was chosen.                                            *)
LEMMA EligibleSatisfies ==
  ASSUME DiscoveryTypes, NEW id \in eligible
  PROVE  /\ url.filters.free # "" => Rows[id].free
         /\ url.filters.auth = "apiKey" => Rows[id].auth = "apiKey"
         /\ url.filters.auth = "none" => Rows[id].auth # "apiKey"
         /\ url.filters.status = "up" => id \in up
         /\ "keyless" \in url.filters.q /\ url.filters.auth = "" => Rows[id].auth # "apiKey"
<1>1. url.filters \in FilterSets
  BY DEF DiscoveryTypes
<1>2. PICK e : /\ id \in specificationsFor(e) /\ e.status = url.filters.status
               /\ (url.filters.free # "" => e.free = TRUE)
               /\ (url.filters.auth # "" => e.auth = url.filters.auth)
               /\ ("keyless" \in url.filters.q /\ url.filters.auth = "" => e.auth = "none")
  <2>1. CASE isSearch
    <3>1. PICK e : e = effectiveFilters(url.filters)
      OBVIOUS
    <3>2. id \in specificationsFor(e)
      BY <2>1, <3>1 DEF eligible, wanted
    <3>3. /\ e.status = url.filters.status
          /\ (url.filters.free # "" => e.free = TRUE)
          /\ (url.filters.auth # "" => e.auth = url.filters.auth)
          /\ ("keyless" \in url.filters.q /\ url.filters.auth = "" => e.auth = "none")
      BY <3>1 DEF effectiveFilters, coerceBoolean, parseQuery
    <3> QED
      BY <3>2, <3>3
  <2>2. CASE ~isSearch
    <3>1. PICK e : e = listFilters
      OBVIOUS
    <3>2. id \in specificationsFor(e) /\ url.filters.q = {}
      BY <2>2, <3>1 DEF eligible, isSearch
    <3>3. /\ e.status = url.filters.status
          /\ (url.filters.free # "" => e.free = TRUE)
          /\ e.auth = url.filters.auth
      BY <3>1 DEF listFilters, coerceBoolean
    <3> QED
      BY <3>2, <3>3
  <2> QED
    BY <2>1, <2>2
<1>3. /\ e.free = TRUE => Rows[id].free
      /\ authTypeSpecification(e.auth, id) /\ healthStatusSpecification(e.status, id)
  BY <1>2 DEF specificationsFor
<1>4. /\ e.auth = "apiKey" => Rows[id].auth = "apiKey"
      /\ e.auth = "none" => Rows[id].auth # "apiKey"
  BY <1>3 DEF authTypeSpecification
<1>5. e.status = "up" => id \in up
  BY <1>3 DEF healthStatusSpecification
<1> QED
  BY <1>2, <1>3, <1>4, <1>5

(* Choices are respected.                                                    *)
LEMMA ChoicesFollow == DiscoveryInv => ChoicesHold
<1> SUFFICES ASSUME DiscoveryInv, render.step = "done", changes.since = 0
             PROVE  /\ \A id \in Range(shown) :
                         /\ url.filters.free # "" => Rows[id].free
                         /\ url.filters.auth = "apiKey" => Rows[id].auth = "apiKey"
                         /\ url.filters.auth = "none" => Rows[id].auth # "apiKey"
                         /\ url.filters.status = "up" => id \in up
                         /\ "keyless" \in url.filters.q /\ url.filters.auth = "" => Rows[id].auth # "apiKey"
                    /\ url.page = 1 /\ anyMatch => shown # <<>>
  BY DEF ChoicesHold, anyMatch
<1>1. shown \in Seq(eligible) /\ Found("done", render.found) /\ DiscoveryTypes
  BY RenderAt DEF DiscoveryInv
<1>2. Range(shown) \subseteq eligible
  <2>1. DOMAIN shown = 1..Len(shown) /\ \A i \in 1..Len(shown) : shown[i] \in eligible
    BY <1>1
  <2> QED
    BY <2>1 DEF Range
<1>3. url.page = 1 /\ anyMatch => shown # <<>>
  BY <1>1 DEF Found
<1> QED
  BY <1>1, <1>2, <1>3, EligibleSatisfies

(* Advice is grounded in any state of the catalogue.                         *)
LEMMA AdviceFollows == DiscoveryTypes => AdviceGrounded
<1>1. ASSUME NEW c \in [free : {"", "yes"}, noAuth : {"", "yes", "no"}, preferredAuth : {"", "apiKey"}],
             NEW q \in SearchTexts, NEW hinted \in {"", "maps"}
      PROVE  /\ \A id \in recommendFrom(c, q, hinted) :
                  /\ id \in active /\ (c.free = "yes" => Rows[id].free)
                  /\ c.noAuth = "yes" => authTypeSpecification("none", id)
                  /\ (c.noAuth = "no" \/ (c.noAuth = "" /\ "keyless" \notin q)) /\ c.preferredAuth # "" =>
                       Rows[id].auth = c.preferredAuth
             /\ recommendFrom(c, q, hinted) = {} => specificationsFor(adviceFilters(c, q)) = {}
  <2>1. PICK f : f = adviceFilters(c, q)
    OBVIOUS
  <2>2. recommendFrom(c, q, hinted) \subseteq specificationsFor(f)
    BY <2>1 DEF recommendFrom
  <2>3. recommendFrom(c, q, hinted) = {} => specificationsFor(f) = {}
    BY <2>1 DEF recommendFrom
  <2>4. /\ c.free = "yes" => f.free
        /\ c.noAuth = "yes" => f.auth = "none"
        /\ c.noAuth = "no" \/ (c.noAuth = "" /\ "keyless" \notin q) => f.auth = c.preferredAuth
    BY <2>1 DEF adviceFilters, parseQuery
  <2>5. ASSUME NEW id \in recommendFrom(c, q, hinted)
        PROVE  id \in active /\ (f.free => Rows[id].free) /\ authTypeSpecification(f.auth, id)
    BY <2>2, <2>5 DEF specificationsFor
  <2>6. \A id : c.preferredAuth = "apiKey" /\ authTypeSpecification(c.preferredAuth, id) => Rows[id].auth = c.preferredAuth
    BY DEF authTypeSpecification
  <2>7. c.preferredAuth # "" => c.preferredAuth = "apiKey"
    OBVIOUS
  <2> QED
    BY <2>1, <2>3, <2>4, <2>5, <2>6, <2>7
<1>2. ASSUME NEW free \in BOOLEAN, NEW auth \in {"", "none", "apiKey"}, NEW f,
             f = [free |-> free, auth |-> auth, status |-> ""]
      PROVE  /\ authFacet(f, "apiKey") = Cardinality(specificationsFor([f EXCEPT !.auth = "apiKey"]))
             /\ auth = "" => healthFacet(f, "up") = Cardinality(specificationsFor([f EXCEPT !.status = "up"]))
  <2>1. {id \in facetBase(f) : Rows[id].auth = "apiKey"} = specificationsFor([f EXCEPT !.auth = "apiKey"])
    BY <1>2 DEF facetBase, specificationsFor, authTypeSpecification, healthStatusSpecification
  <2>2. auth = "" =>
          {id \in facetBase(f) : ("up" = "up") = (id \in up)} = specificationsFor([f EXCEPT !.status = "up"])
    BY <1>2 DEF facetBase, specificationsFor, authTypeSpecification, healthStatusSpecification
  <2> QED
    BY <2>1, <2>2 DEF authFacet, healthFacet
<1> QED
  BY <1>1, <1>2 DEF AdviceGrounded

-----------------------------------------------------------------------------
(* Comparing APIs                                                            *)

(* A set of naturals has a smallest element.                                 *)
LEMMA SmallestOf ==
  ASSUME NEW T \in SUBSET Nat, T # {}
  PROVE  \E x \in T : \A y \in T : x <= y
<1>1. IsWellFoundedOn(OpToRel(<, Nat), Nat)
  BY NatLessThanWellFounded
<1>2. PICK x \in T : \A y \in T : ~(<<y, x>> \in OpToRel(<, Nat))
  BY <1>1, WFMin
<1>3. \A y \in T : ~(y < x)
  BY <1>2 DEF OpToRel
<1> QED
  BY <1>3

(* What holds of 0 and of the successor of each it holds of, holds of all.   *)
LEMMA InductNat ==
  ASSUME NEW T \in SUBSET Nat, 0 \in T, \A n \in T : n + 1 \in T
  PROVE  T = Nat
<1> SUFFICES ASSUME Nat \ T # {} PROVE FALSE
  OBVIOUS
<1>1. PICK x \in Nat \ T : \A y \in Nat \ T : x <= y
  BY SmallestOf
<1>2. x - 1 \in Nat /\ x - 1 \notin Nat \ T
  BY <1>1
<1>3. x - 1 \in T
  BY <1>2
<1>4. (x - 1) + 1 \in T
  BY <1>3
<1> QED
  BY <1>1, <1>4

(* One of a list of scores is the highest.                                   *)
LEMMA HighestOf ==
  ASSUME NEW n \in Nat \ {0}, NEW score \in [1..n -> Int]
  PROVE  \E i \in 1..n : \A j \in 1..n : score[j] <= score[i]
<1> DEFINE T == {k \in Nat : k + 1 <= n => \E i \in 1..(k + 1) : \A j \in 1..(k + 1) : score[j] <= score[i]}
<1>1. 0 \in T
  OBVIOUS
<1>2. ASSUME NEW k \in T, k + 2 <= n
      PROVE  \E i \in 1..(k + 2) : \A j \in 1..(k + 2) : score[j] <= score[i]
  <2>1. PICK i \in 1..(k + 1) : \A j \in 1..(k + 1) : score[j] <= score[i]
    BY <1>2
  <2>2. k + 2 \in 1..n /\ i \in 1..n /\ score[k + 2] \in Int /\ score[i] \in Int
    BY <1>2
  <2>3. \A j \in 1..(k + 2) : j \in 1..(k + 1) \/ j = k + 2
    BY <1>2
  <2>4. CASE score[k + 2] <= score[i]
    <3>1. i \in 1..(k + 2) /\ k \in Nat
      OBVIOUS
    <3>2. \A j \in 1..(k + 2) : score[j] <= score[i]
      BY <2>1, <2>3, <2>4
    <3> QED
      BY <3>1, <3>2
  <2>5. CASE score[i] <= score[k + 2]
    <3>1. \A j \in 1..(k + 1) : score[j] \in Int
      BY <1>2
    <3> QED
      BY <2>1, <2>2, <2>3, <2>5, <3>1
  <2> QED
    BY <2>2, <2>4, <2>5
<1>3. ASSUME NEW k \in T PROVE k + 1 \in T
  <2>1. k \in Nat /\ (k + 1) + 1 = k + 2
    OBVIOUS
  <2>2. k + 2 <= n => \E i \in 1..(k + 2) : \A j \in 1..(k + 2) : score[j] <= score[i]
    <3> HIDE DEF T
    <3> QED
      BY <1>2
  <2> QED
    BY <2>1, <2>2
<1>4. T = Nat
  <2> HIDE DEF T
  <2>1. T \in SUBSET Nat
    BY DEF T
  <2> QED
    BY <1>1, <1>3, <2>1, InductNat
<1>5. n - 1 \in T /\ (n - 1) + 1 = n
  <2> HIDE DEF T
  <2> QED
    BY <1>4
<1> QED
  BY <1>5

(* bestBy() finds the first of the highest.                                  *)
LEMMA BestIs ==
  ASSUME NEW n \in Nat \ {0}, NEW score \in [1..n -> Int]
  PROVE  /\ bestBy(score) \in 1..n
         /\ \A j \in 1..n : score[j] <= score[bestBy(score)]
         /\ \A j \in 1..n : j < bestBy(score) => score[j] < score[bestBy(score)]
<1> DEFINE top == {i \in 1..n : \A j \in 1..n : score[j] <= score[i]}
<1>1. top # {} /\ top \in SUBSET Nat
  BY HighestOf
<1>2. PICK x \in top : \A y \in top : x <= y
  <2> HIDE DEF top
  <2> QED
    BY <1>1, SmallestOf
<1>3. bestBy(score) = CHOOSE i \in top : \A j \in top : i <= j
  BY DEF bestBy
<1>4. bestBy(score) \in top /\ \A j \in top : bestBy(score) <= j
  <2> HIDE DEF top
  <2> QED
    BY <1>2, <1>3
<1>5. ASSUME NEW j \in 1..n, j < bestBy(score) PROVE score[j] < score[bestBy(score)]
  <2>1. bestBy(score) \in 1..n /\ score[j] \in Int /\ score[bestBy(score)] \in Int
    BY <1>4
  <2>2. j \notin top
    <3> HIDE DEF top
    <3> QED
      BY <1>4, <1>5, <2>1
  <2>3. PICK k \in 1..n : ~(score[k] <= score[j])
    BY <2>2
  <2>4. score[k] <= score[bestBy(score)] /\ score[k] \in Int
    BY <1>4, <2>3
  <2> QED
    BY <2>1, <2>3, <2>4
<1> QED
  BY <1>4, <1>5

(* The columns a comparison reads.                                           *)
Apis ==
  [isFree : BOOLEAN, hasFreeTier : BOOLEAN, authType : STRING, https : BOOLEAN,
   cors : {"yes", "no", "unknown"}, status : {"up", "degraded", "unknown", "down"},
   latency : -1..(Infinite - 1), uptime : -1..100, reliability : -1..100, rating : -1..5,
   reviews : Nat, docs : BOOLEAN]

(* What is measured is a number.                                             *)
LEMMA MeasuredIs ==
  ASSUME NEW a \in Apis
  PROVE  a.uptime \in Int /\ a.reliability \in Int /\ a.rating \in Int
  BY DEF Apis

(* So is the score.                                                          *)
LEMMA ScoreIs ==
  ASSUME NEW a \in Apis
  PROVE  comparisonScore(a) \in Int
<1>1. orElse(a.uptime, 50) \in Int /\ orElse(a.reliability, 50) \in Int /\ orElse(a.rating, 3) \in Int
  BY MeasuredIs DEF orElse
<1> QED
  BY <1>1 DEF comparisonScore

(* Better in what is scored is better in the score.                          *)
LEMMA BetterScores ==
  ASSUME NEW a \in Apis, NEW b \in Apis, clearlyBetter(a, b)
  PROVE  comparisonScore(a) > comparisonScore(b)
<1>1. noWorse(a, b)
  BY DEF clearlyBetter
<1>2. /\ (b.isFree => a.isFree) /\ (b.hasFreeTier => a.hasFreeTier)
      /\ (b.https => a.https) /\ (b.docs => a.docs) /\ (b.cors = "yes" => a.cors = "yes")
      /\ (a.authType = "none" \/ a.authType = b.authType)
  BY <1>1 DEF noWorse, Scored
<1>3. /\ a.reliability >= b.reliability /\ a.uptime >= b.uptime /\ a.rating >= b.rating
      /\ a.reliability # Null /\ b.reliability # Null /\ a.uptime # Null /\ b.uptime # Null
      /\ a.rating # Null /\ b.rating # Null
  BY <1>1 DEF noWorse
<1>4. /\ a.reliability \in Int /\ b.reliability \in Int /\ a.uptime \in Int /\ b.uptime \in Int
      /\ a.rating \in Int /\ b.rating \in Int
  BY DEF Apis
<1>5. a.reliability > b.reliability \/ a.uptime > b.uptime \/ a.rating > b.rating \/ (a.docs /\ ~b.docs)
  BY DEF clearlyBetter
<1> DEFINE price(x) == IF x.isFree THEN 2000 ELSE IF x.hasFreeTier THEN 1200 ELSE 0
           access(x) == IF x.authType = "none" THEN 1500 ELSE IF x.authType = "apiKey" THEN 800 ELSE 300
           safe(x) == IF x.https THEN 1000 ELSE 0
           reach(x) == IF x.cors = "yes" THEN 800 ELSE 0
           manual(x) == IF x.docs THEN 500 ELSE 0
<1>6. price(a) >= price(b) /\ price(a) \in Int /\ price(b) \in Int
  BY <1>2
<1>7. access(a) >= access(b) /\ access(a) \in Int /\ access(b) \in Int
  BY <1>2
<1>8. safe(a) >= safe(b) /\ safe(a) \in Int /\ safe(b) \in Int
  BY <1>2
<1>9. reach(a) >= reach(b) /\ reach(a) \in Int /\ reach(b) \in Int
  BY <1>2
<1>10. manual(a) >= manual(b) /\ manual(a) \in Int /\ manual(b) \in Int /\ (a.docs /\ ~b.docs => manual(a) > manual(b))
  BY <1>2
<1>11. /\ comparisonScore(a) = price(a) + access(a) + safe(a) + reach(a)
                               + 20 * a.reliability + 12 * a.uptime + 200 * a.rating + manual(a)
       /\ comparisonScore(b) = price(b) + access(b) + safe(b) + reach(b)
                               + 20 * b.reliability + 12 * b.uptime + 200 * b.rating + manual(b)
  BY <1>3 DEF comparisonScore, orElse
<1> HIDE DEF price, access, safe, reach, manual
<1> QED
  BY <1>3, <1>4, <1>5, <1>6, <1>7, <1>8, <1>9, <1>10, <1>11

(* The ranks of the health.                                                  *)
LEMMA RankIs ==
  ASSUME NEW a \in Apis
  PROVE  healthRank(a.status) \in Int
<1>1. a.status \in {"up", "degraded", "unknown", "down"}
  BY DEF Apis
<1>2. /\ healthRank("up") = 3 /\ healthRank("degraded") = 2 /\ healthRank("unknown") = 1
      /\ healthRank("down") = 0
  BY DEF healthRank
<1> QED
  BY <1>1, <1>2

(* The verdict agrees with the rows.                                         *)
LEMMA VerdictRight ==
  ASSUME table \in Seq(Contenders)
  PROVE  VerdictMatchesTable
<1> SUFFICES ASSUME Len(table) >= 2 PROVE VerdictMatchesTable
  BY DEF VerdictMatchesTable
<1>1. PICK n \in Nat \ {0} : n = Len(table) /\ DOMAIN table = 1..n /\ \A i \in 1..n : table[i] \in Apis
  <2>1. Contenders \subseteq Apis
    BY VerdictAssumption DEF VerdictAssumption, Apis
  <2> QED
    BY <2>1
<1>2. PICK w : w = winnerIndex(table)
  OBVIOUS
<1>3. w \in 1..n /\ \A i \in 1..n : ~clearlyBetter(table[i], table[w])
  <2> DEFINE score == [i \in 1..n |-> comparisonScore(table[i])]
  <2>1. score \in [1..n -> Int]
    BY <1>1, ScoreIs
  <2>2. w = bestBy(score)
    BY <1>1, <1>2 DEF winnerIndex
  <2>3. w \in 1..n /\ \A j \in 1..n : score[j] <= score[w]
    <3> HIDE DEF score
    <3> QED
      BY <2>1, <2>2, BestIs
  <2>4. ASSUME NEW i \in 1..n, clearlyBetter(table[i], table[w]) PROVE FALSE
    <3>1. comparisonScore(table[i]) > comparisonScore(table[w])
      BY <1>1, <2>3, <2>4, BetterScores
    <3>2. comparisonScore(table[i]) <= comparisonScore(table[w])
      BY <2>3
    <3>3. comparisonScore(table[i]) \in Int /\ comparisonScore(table[w]) \in Int
      BY <1>1, <2>3, ScoreIs
    <3> QED
      BY <3>1, <3>2, <3>3
  <2> QED
    BY <2>3, <2>4
<1>4. PICK u \in 1..n : /\ u = rowsOf(table).uptime
                        /\ \A i \in 1..n : /\ table[i].uptime =< table[u].uptime
                                           /\ (i < u => table[i].uptime < table[u].uptime)
  <2> DEFINE score == [i \in 1..n |-> table[i].uptime]
  <2>1. score \in [1..n -> Int]
    BY <1>1, MeasuredIs
  <2>2. rowsOf(table).uptime = bestBy(score)
    BY <1>1 DEF rowsOf
  <2>3. /\ bestBy(score) \in 1..n /\ (\A j \in 1..n : score[j] <= score[bestBy(score)])
        /\ (\A j \in 1..n : j < bestBy(score) => score[j] < score[bestBy(score)])
    <3> HIDE DEF score
    <3> QED
      BY <2>1, BestIs
  <2> QED
    BY <2>2, <2>3
<1>5. PICK h \in 1..n : /\ h = rowsOf(table).status
                        /\ \A i \in 1..n : healthRank(table[i].status) =< healthRank(table[h].status)
  <2> DEFINE score == [i \in 1..n |-> healthRank(table[i].status)]
  <2>1. score \in [1..n -> Int]
    BY <1>1, RankIs
  <2>2. rowsOf(table).status = bestBy(score)
    BY <1>1 DEF rowsOf
  <2>3. bestBy(score) \in 1..n /\ (\A j \in 1..n : score[j] <= score[bestBy(score)])
    <3> HIDE DEF score
    <3> QED
      BY <2>1, BestIs
  <2> QED
    BY <2>2, <2>3
<1>6. ASSUME rowsOf(table).free = Null, NEW i \in 1..n PROVE ~table[i].isFree
  <2> DEFINE holds == [j \in 1..n |-> table[j].isFree]
             score == [j \in 1..n |-> IF holds[j] THEN 1 ELSE 0]
  <2>1. score \in [1..n -> Int] /\ DOMAIN holds = 1..n
    OBVIOUS
  <2>2. rowsOf(table).free = booleanRow(holds)
    BY <1>1 DEF rowsOf
  <2>3. bestBy(score) \in 1..n
    <3> HIDE DEF score
    <3> QED
      BY <2>1, BestIs
  <2>4. (\E j \in 1..n : holds[j]) => booleanRow(holds) = bestBy(score)
    <3> HIDE DEF holds
    <3> QED
      BY <2>1 DEF booleanRow
  <2>5. ~\E j \in 1..n : holds[j]
    <3> HIDE DEF holds, score
    <3> QED
      BY <1>6, <2>2, <2>3, <2>4 DEF Null
  <2> QED
    BY <2>5
<1>7. ASSUME NEW l, l = rowsOf(table).latency, l # Null, NEW i \in 1..n, table[i].latency # Null
      PROVE  table[l].latency # Null /\ table[l].latency =< table[i].latency
  <2> DEFINE score == [j \in 1..n |-> IF table[j].latency = Null THEN -Infinite ELSE -table[j].latency]
  <2>1. \A j \in 1..n : table[j].latency \in -1..(Infinite - 1)
    BY <1>1 DEF Apis
  <2>2. Infinite \in Nat /\ score \in [1..n -> Int]
    <3>1. Infinite \in Nat
      BY SMT DEF Infinite
    <3> QED
      BY <2>1, <3>1
  <2>3. l = bestBy(score)
    <3>1. l = latencyRow(table)
      BY <1>7 DEF rowsOf
    <3> QED
      BY <1>1, <1>7, <3>1 DEF latencyRow
  <2>4. l \in 1..n /\ score[i] <= score[l]
    <3> HIDE DEF score
    <3> QED
      BY <2>2, <2>3, BestIs
  <2>5. score[i] = -table[i].latency /\ score[i] > -Infinite
    BY <1>7, <2>1, <2>2
  <2>6. table[l].latency # Null /\ score[l] = -table[l].latency
    BY <2>1, <2>2, <2>4, <2>5
  <2> QED
    BY <2>1, <2>4, <2>5, <2>6
<1>8. PICK rows : rows = rowsOf(table)
  OBVIOUS
<1>9. ASSUME NEW i \in DOMAIN table
      PROVE  /\ ~clearlyBetter(table[i], table[w])
             /\ table[i].uptime =< table[rows.uptime].uptime
             /\ (i < rows.uptime => table[i].uptime < table[rows.uptime].uptime)
             /\ (rows.latency # Null /\ table[i].latency # Null =>
                  /\ table[rows.latency].latency # Null
                  /\ table[rows.latency].latency =< table[i].latency)
             /\ (rows.free = Null => ~table[i].isFree)
             /\ healthRank(table[i].status) =< healthRank(table[rows.status].status)
  BY <1>1, <1>3, <1>4, <1>5, <1>6, <1>7, <1>8
<1> QED
  BY <1>2, <1>8, <1>9 DEF VerdictMatchesTable

(* What a reason or a caveat can state.                                      *)
FactNames ==
  {"free", "freeTier", "noAuth", "authNamed", "https", "cors", "operational", "uptime", "rated", "docs",
   "noFreeTier", "oauthFlow", "key", "noHttps", "noCors", "failing", "slow", "notMonitored", "noDocs"}

(* Lists of facts.                                                           *)
Facts == Seq(FactNames)

(* A list with one.                                                          *)
LEMMA OneIs ==
  ASSUME NEW fact \in FactNames
  PROVE  <<fact>> \in Facts /\ Len(<<fact>>) = 1 /\ <<fact>>[1] = fact /\ ToSet(<<fact>>) = {fact}
<1>1. <<fact>> \in Facts /\ Len(<<fact>>) = 1 /\ <<fact>>[1] = fact /\ DOMAIN <<fact>> = 1..1
  BY DEF Facts
<1> QED
  BY <1>1 DEF ToSet

(* A list without facts.                                                     *)
LEMMA NoneIs == <<>> \in Facts /\ Len(<<>>) = 0 /\ ToSet(<<>>) = {}
  BY DEF Facts, ToSet

(* Two that are joined.                                                      *)
LEMMA JoinIs ==
  ASSUME NEW s \in Facts, NEW t \in Facts
  PROVE  /\ s \o t \in Facts /\ Len(s \o t) = Len(s) + Len(t)
         /\ ToSet(s \o t) = ToSet(s) \cup ToSet(t)
         /\ (\A i \in 1..Len(s) : (s \o t)[i] = s[i])
         /\ (Len(t) > 0 => (s \o t)[Len(s) + 1] = t[1])
<1>1. PICK m \in Nat, n \in Nat : m = Len(s) /\ n = Len(t)
  BY DEF Facts
<1>2. /\ DOMAIN s = 1..m /\ DOMAIN t = 1..n /\ DOMAIN (s \o t) = 1..(m + n)
      /\ s \o t \in Facts /\ Len(s \o t) = m + n
      /\ (\A i \in 1..m : (s \o t)[i] = s[i])
      /\ (\A i \in 1..n : (s \o t)[m + i] = t[i])
  BY <1>1 DEF Facts
<1>3. ToSet(s) \cup ToSet(t) \subseteq ToSet(s \o t)
  <2>1. \A i \in 1..m : s[i] \in ToSet(s \o t)
    BY <1>1, <1>2 DEF ToSet
  <2>2. \A i \in 1..n : t[i] \in ToSet(s \o t)
    <3>1. \A i \in 1..n : m + i \in 1..(m + n)
      BY <1>1
    <3> QED
      BY <1>2, <3>1 DEF ToSet
  <2> QED
    BY <1>2, <2>1, <2>2 DEF ToSet
<1>4. ToSet(s \o t) \subseteq ToSet(s) \cup ToSet(t)
  <2>1. ASSUME NEW k \in 1..(m + n) PROVE (s \o t)[k] \in ToSet(s) \cup ToSet(t)
    <3>1. CASE k <= m
      BY <1>1, <1>2, <3>1 DEF ToSet
    <3>2. CASE k > m
      <4>1. k - m \in 1..n /\ m + (k - m) = k
        BY <1>1, <3>2
      <4>2. (s \o t)[k] = t[k - m]
        BY <1>2, <4>1
      <4> QED
        BY <1>2, <4>1, <4>2 DEF ToSet
    <3>3. k <= m \/ k > m
      BY <1>1
    <3> QED
      BY <3>1, <3>2, <3>3
  <2> QED
    BY <1>2, <2>1 DEF ToSet
<1>5. n > 0 => (s \o t)[m + 1] = t[1]
  BY <1>1, <1>2
<1> QED
  BY <1>1, <1>2, <1>3, <1>4, <1>5

(* One that is cut.                                                          *)
LEMMA CutFacts ==
  ASSUME NEW s \in Facts, NEW n \in Nat
  PROVE  /\ ToSet(atMost(n, s)) \subseteq ToSet(s)
         /\ (\A i \in 1..n : i <= Len(s) => s[i] \in ToSet(atMost(n, s)))
         /\ (n <= Len(s) => ToSet(atMost(n, s)) = {s[i] : i \in 1..n})
<1>0. PICK l \in Nat : l = Len(s) /\ DOMAIN s = 1..l
  BY DEF Facts
<1>1. PICK k \in Nat : k = (IF l < n THEN l ELSE n)
  BY <1>0
<1>2. atMost(n, s) = SubSeq(s, 1, k)
  BY <1>0, <1>1 DEF atMost
<1>3. k <= l /\ k <= n /\ (n <= l => k = n)
  BY <1>0, <1>1
<1>4. ToSet(atMost(n, s)) = {s[i] : i \in 1..k}
  <2>1. /\ DOMAIN SubSeq(s, 1, k) = 1..k
        /\ \A i \in 1..k : SubSeq(s, 1, k)[i] = s[i]
    BY <1>0, <1>1, <1>3 DEF Facts
  <2> QED
    BY <1>2, <2>1 DEF ToSet
<1>5. ToSet(s) = {s[i] : i \in 1..l}
  BY <1>0 DEF ToSet
<1>6. \A i \in 1..k : i \in 1..l
  BY <1>0, <1>1, <1>3
<1>7. \A i \in 1..n : i <= l => i \in 1..k
  BY <1>0, <1>1
<1> QED
  BY <1>0, <1>3, <1>4, <1>5, <1>6, <1>7

(* What is praised is so.                                                    *)
LEMMA PraiseIs ==
  ASSUME NEW api \in Apis
  PROVE  \A fact \in ToSet(buildReasons(api)) :
           /\ (fact = "free" => api.isFree) /\ (fact = "freeTier" => api.hasFreeTier)
           /\ (fact = "noAuth" => api.authType = "none") /\ (fact = "https" => api.https)
           /\ (fact = "cors" => api.cors = "yes") /\ (fact = "operational" => api.status = "up")
           /\ (fact = "docs" => api.docs)
<1> DEFINE a1 == IF api.isFree THEN <<"free">> ELSE only(api.hasFreeTier, "freeTier")
           a2 == <<IF api.authType = "none" THEN "noAuth" ELSE "authNamed">>
           a3 == only(api.https, "https")
           a4 == only(api.cors = "yes", "cors")
           a5 == only(api.status = "up", "operational")
           a6 == only(api.uptime >= 99, "uptime")
           a7 == only(api.rating # Null /\ api.reviews >= 3, "rated")
           a8 == only(api.docs, "docs")
           b2 == a1 \o a2
           b3 == b2 \o a3
           b4 == b3 \o a4
           b5 == b4 \o a5
           b6 == b5 \o a6
           b7 == b6 \o a7
           b8 == b7 \o a8
<1>0. buildReasons(api) = atMost(5, b8)
  BY DEF buildReasons
<1>2. a1 \in Facts /\ ToSet(a1) = (IF api.isFree THEN {"free"} ELSE IF api.hasFreeTier THEN {"freeTier"} ELSE {})
  <2>1. "free" \in FactNames /\ "freeTier" \in FactNames
    BY DEF FactNames
  <2> QED
    BY <2>1, OneIs, NoneIs DEF only
<1>3. a2 \in Facts /\ ToSet(a2) = {IF api.authType = "none" THEN "noAuth" ELSE "authNamed"}
  <2>1. "noAuth" \in FactNames /\ "authNamed" \in FactNames
    BY DEF FactNames
  <2> QED
    BY <2>1, OneIs
<1>4. a3 \in Facts /\ ToSet(a3) \subseteq {"https"} /\ ("https" \in ToSet(a3) => api.https)
  <2>1. "https" \in FactNames
    BY DEF FactNames
  <2> QED
    BY <2>1, OneIs, NoneIs DEF only
<1>5. a4 \in Facts /\ ToSet(a4) \subseteq {"cors"} /\ ("cors" \in ToSet(a4) => api.cors = "yes")
  <2>1. "cors" \in FactNames
    BY DEF FactNames
  <2> QED
    BY <2>1, OneIs, NoneIs DEF only
<1>6. a5 \in Facts /\ ToSet(a5) \subseteq {"operational"} /\ ("operational" \in ToSet(a5) => api.status = "up")
  <2>1. "operational" \in FactNames
    BY DEF FactNames
  <2> QED
    BY <2>1, OneIs, NoneIs DEF only
<1>7. a6 \in Facts /\ ToSet(a6) \subseteq {"uptime"} /\ ("uptime" \in ToSet(a6) => api.uptime >= 99)
  <2>1. "uptime" \in FactNames
    BY DEF FactNames
  <2> QED
    BY <2>1, OneIs, NoneIs DEF only
<1>8. a7 \in Facts /\ ToSet(a7) \subseteq {"rated"} /\ ("rated" \in ToSet(a7) => api.rating # Null /\ api.reviews >= 3)
  <2>1. "rated" \in FactNames
    BY DEF FactNames
  <2> QED
    BY <2>1, OneIs, NoneIs DEF only
<1>9. a8 \in Facts /\ ToSet(a8) \subseteq {"docs"} /\ ("docs" \in ToSet(a8) => api.docs)
  <2>1. "docs" \in FactNames
    BY DEF FactNames
  <2> QED
    BY <2>1, OneIs, NoneIs DEF only
<1> HIDE DEF a1, a2, a3, a4, a5, a6, a7, a8
<1>10. b2 \in Facts /\ ToSet(b2) = ToSet(a1) \cup ToSet(a2)
  BY <1>2, <1>3, JoinIs
<1>11. b3 \in Facts /\ ToSet(b3) = ToSet(b2) \cup ToSet(a3)
  BY <1>4, <1>10, JoinIs
<1>12. b4 \in Facts /\ ToSet(b4) = ToSet(b3) \cup ToSet(a4)
  BY <1>5, <1>11, JoinIs
<1>13. b5 \in Facts /\ ToSet(b5) = ToSet(b4) \cup ToSet(a5)
  BY <1>6, <1>12, JoinIs
<1>14. b6 \in Facts /\ ToSet(b6) = ToSet(b5) \cup ToSet(a6)
  BY <1>7, <1>13, JoinIs
<1>15. b7 \in Facts /\ ToSet(b7) = ToSet(b6) \cup ToSet(a7)
  BY <1>8, <1>14, JoinIs
<1>16. b8 \in Facts /\ ToSet(b8) = ToSet(b7) \cup ToSet(a8)
  BY <1>9, <1>15, JoinIs
<1> HIDE DEF b2, b3, b4, b5, b6, b7, b8
<1>17. ToSet(buildReasons(api)) \subseteq ToSet(b8)
  BY <1>0, <1>16, CutFacts
<1>18. ToSet(b8) = ToSet(a1) \cup ToSet(a2) \cup ToSet(a3) \cup ToSet(a4) \cup ToSet(a5) \cup ToSet(a6)
                   \cup ToSet(a7) \cup ToSet(a8)
  BY <1>10, <1>11, <1>12, <1>13, <1>14, <1>15, <1>16
<1> QED
  BY <1>2, <1>3, <1>4, <1>5, <1>6, <1>7, <1>8, <1>9, <1>17, <1>18

(* Four different facts.                                                     *)
LEMMA FourAre ==
  ASSUME NEW a, NEW b, NEW c, NEW d, a # b, a # c, a # d, b # c, b # d, c # d
  PROVE  Cardinality({a, b, c, d}) = 4
<1>1. IsFiniteSet({a}) /\ Cardinality({a}) = 1
  BY FS_Singleton
<1>2. {a} \cup {b} = {a, b} /\ {a, b} \cup {c} = {a, b, c} /\ {a, b, c} \cup {d} = {a, b, c, d}
  OBVIOUS
<1>3. IsFiniteSet({a, b}) /\ Cardinality({a, b}) = 2
  <2>1. b \notin {a}
    OBVIOUS
  <2> QED
    BY <1>1, <1>2, <2>1, FS_AddElement
<1>4. IsFiniteSet({a, b, c}) /\ Cardinality({a, b, c}) = 3
  <2>1. c \notin {a, b}
    OBVIOUS
  <2> QED
    BY <1>2, <1>3, <2>1, FS_AddElement
<1>5. d \notin {a, b, c}
  OBVIOUS
<1> QED
  BY <1>2, <1>4, <1>5, FS_AddElement

(* What is warned of is so; what is not praised is warned of, or four other  *)
(* things are.                                                               *)
LEMMA WarningIs ==
  ASSUME NEW api \in Apis
  PROVE  /\ \A fact \in ToSet(buildCaveats(api)) :
              /\ (fact = "noFreeTier" => ~api.isFree /\ ~api.hasFreeTier)
              /\ (fact = "oauthFlow" => api.authType = "oauth2") /\ (fact = "key" => api.authType = "apiKey")
              /\ (fact = "noHttps" => ~api.https) /\ (fact = "noCors" => api.cors = "no")
              /\ (fact = "failing" => api.status = "down") /\ (fact = "noDocs" => ~api.docs)
         /\ (api.status = "down" =>
               "failing" \in ToSet(buildCaveats(api)) \/ Cardinality(ToSet(buildCaveats(api))) = 4)
         /\ (~api.https => "noHttps" \in ToSet(buildCaveats(api)))
<1> DEFINE a1 == only(~api.isFree /\ ~api.hasFreeTier, "noFreeTier")
           a2 == only(api.authType = "oauth2", "oauthFlow")
           a3 == only(api.authType = "apiKey", "key")
           a4 == only(~api.https, "noHttps")
           a5 == only(api.cors = "no", "noCors")
           a6 == IF api.status = "down" THEN <<"failing">>
                 ELSE IF api.status = "degraded" THEN <<"slow">>
                 ELSE only(api.status = "unknown", "notMonitored")
           a7 == only(~api.docs, "noDocs")
           b2 == a1 \o a2
           b3 == b2 \o a3
           b4 == b3 \o a4
           b5 == b4 \o a5
           b6 == b5 \o a6
           b7 == b6 \o a7
           warning == ToSet(buildCaveats(api))
<1>0. warning = ToSet(atMost(4, b7))
  BY DEF buildCaveats
<1>1. /\ a1 \in Facts /\ Len(a1) \in 0..1
      /\ (~api.isFree /\ ~api.hasFreeTier => Len(a1) = 1 /\ a1[1] = "noFreeTier" /\ ToSet(a1) = {"noFreeTier"})
      /\ (~(~api.isFree /\ ~api.hasFreeTier) => Len(a1) = 0 /\ ToSet(a1) = {})
  <2>1. "noFreeTier" \in FactNames
    BY DEF FactNames
  <2>2. CASE ~api.isFree /\ ~api.hasFreeTier
    <3>1. a1 = <<"noFreeTier">>
      BY <2>2 DEF only
    <3> QED
      BY <2>1, <2>2, <3>1, OneIs
  <2>3. CASE ~(~api.isFree /\ ~api.hasFreeTier)
    <3>1. a1 = <<>>
      BY <2>3 DEF only
    <3> QED
      BY <2>3, <3>1, NoneIs
  <2> QED
    BY <2>2, <2>3
<1>2. /\ a2 \in Facts /\ Len(a2) \in 0..1
      /\ (api.authType = "oauth2" => Len(a2) = 1 /\ a2[1] = "oauthFlow" /\ ToSet(a2) = {"oauthFlow"})
      /\ (~(api.authType = "oauth2") => Len(a2) = 0 /\ ToSet(a2) = {})
  <2>1. "oauthFlow" \in FactNames
    BY DEF FactNames
  <2>2. CASE api.authType = "oauth2"
    <3>1. a2 = <<"oauthFlow">>
      BY <2>2 DEF only
    <3> QED
      BY <2>1, <2>2, <3>1, OneIs
  <2>3. CASE ~(api.authType = "oauth2")
    <3>1. a2 = <<>>
      BY <2>3 DEF only
    <3> QED
      BY <2>3, <3>1, NoneIs
  <2> QED
    BY <2>2, <2>3
<1>3. /\ a3 \in Facts /\ Len(a3) \in 0..1
      /\ (api.authType = "apiKey" => Len(a3) = 1 /\ a3[1] = "key" /\ ToSet(a3) = {"key"})
      /\ (~(api.authType = "apiKey") => Len(a3) = 0 /\ ToSet(a3) = {})
  <2>1. "key" \in FactNames
    BY DEF FactNames
  <2>2. CASE api.authType = "apiKey"
    <3>1. a3 = <<"key">>
      BY <2>2 DEF only
    <3> QED
      BY <2>1, <2>2, <3>1, OneIs
  <2>3. CASE ~(api.authType = "apiKey")
    <3>1. a3 = <<>>
      BY <2>3 DEF only
    <3> QED
      BY <2>3, <3>1, NoneIs
  <2> QED
    BY <2>2, <2>3
<1>4. /\ a4 \in Facts /\ Len(a4) \in 0..1
      /\ (~api.https => Len(a4) = 1 /\ a4[1] = "noHttps" /\ ToSet(a4) = {"noHttps"})
      /\ (api.https => Len(a4) = 0 /\ ToSet(a4) = {})
  <2>1. "noHttps" \in FactNames
    BY DEF FactNames
  <2>2. CASE ~api.https
    <3>1. a4 = <<"noHttps">>
      BY <2>2 DEF only
    <3> QED
      BY <2>1, <2>2, <3>1, OneIs
  <2>3. CASE api.https
    <3>1. a4 = <<>>
      BY <2>3 DEF only
    <3> QED
      BY <2>3, <3>1, NoneIs
  <2> QED
    BY <2>2, <2>3
<1>5. /\ a5 \in Facts /\ Len(a5) \in 0..1
      /\ (api.cors = "no" => Len(a5) = 1 /\ a5[1] = "noCors" /\ ToSet(a5) = {"noCors"})
      /\ (~(api.cors = "no") => Len(a5) = 0 /\ ToSet(a5) = {})
  <2>1. "noCors" \in FactNames
    BY DEF FactNames
  <2>2. CASE api.cors = "no"
    <3>1. a5 = <<"noCors">>
      BY <2>2 DEF only
    <3> QED
      BY <2>1, <2>2, <3>1, OneIs
  <2>3. CASE ~(api.cors = "no")
    <3>1. a5 = <<>>
      BY <2>3 DEF only
    <3> QED
      BY <2>3, <3>1, NoneIs
  <2> QED
    BY <2>2, <2>3
<1>6. /\ a6 \in Facts /\ Len(a6) \in Nat /\ ("failing" \in ToSet(a6) => api.status = "down")
      /\ (api.status = "down" => Len(a6) = 1 /\ a6[1] = "failing")
      /\ ToSet(a6) \subseteq {"failing", "slow", "notMonitored"}
  <2>1. "failing" \in FactNames /\ "slow" \in FactNames /\ "notMonitored" \in FactNames
    BY DEF FactNames
  <2> QED
    BY <2>1, OneIs, NoneIs DEF only
<1>7. /\ a7 \in Facts /\ Len(a7) \in 0..1
      /\ (~api.docs => Len(a7) = 1 /\ a7[1] = "noDocs" /\ ToSet(a7) = {"noDocs"})
      /\ (api.docs => Len(a7) = 0 /\ ToSet(a7) = {})
  <2>1. "noDocs" \in FactNames
    BY DEF FactNames
  <2>2. CASE ~api.docs
    <3>1. a7 = <<"noDocs">>
      BY <2>2 DEF only
    <3> QED
      BY <2>1, <2>2, <3>1, OneIs
  <2>3. CASE api.docs
    <3>1. a7 = <<>>
      BY <2>3 DEF only
    <3> QED
      BY <2>3, <3>1, NoneIs
  <2> QED
    BY <2>2, <2>3
<1> HIDE DEF a1, a2, a3, a4, a5, a6, a7, warning
<1>8. /\ b2 \in Facts /\ Len(b2) = Len(a1) + Len(a2) /\ ToSet(b2) = ToSet(a1) \cup ToSet(a2)
      /\ (\A i \in 1..Len(a1) : b2[i] = a1[i]) /\ (Len(a2) > 0 => b2[Len(a1) + 1] = a2[1])
  BY <1>1, <1>2, JoinIs
<1>9. /\ b3 \in Facts /\ Len(b3) = Len(b2) + Len(a3) /\ ToSet(b3) = ToSet(b2) \cup ToSet(a3)
      /\ (\A i \in 1..Len(b2) : b3[i] = b2[i]) /\ (Len(a3) > 0 => b3[Len(b2) + 1] = a3[1])
  BY <1>3, <1>8, JoinIs
<1>10. /\ b4 \in Facts /\ Len(b4) = Len(b3) + Len(a4) /\ ToSet(b4) = ToSet(b3) \cup ToSet(a4)
      /\ (\A i \in 1..Len(b3) : b4[i] = b3[i]) /\ (Len(a4) > 0 => b4[Len(b3) + 1] = a4[1])
  BY <1>4, <1>9, JoinIs
<1>11. /\ b5 \in Facts /\ Len(b5) = Len(b4) + Len(a5) /\ ToSet(b5) = ToSet(b4) \cup ToSet(a5)
      /\ (\A i \in 1..Len(b4) : b5[i] = b4[i]) /\ (Len(a5) > 0 => b5[Len(b4) + 1] = a5[1])
  BY <1>5, <1>10, JoinIs
<1>12. /\ b6 \in Facts /\ Len(b6) = Len(b5) + Len(a6) /\ ToSet(b6) = ToSet(b5) \cup ToSet(a6)
      /\ (\A i \in 1..Len(b5) : b6[i] = b5[i]) /\ (Len(a6) > 0 => b6[Len(b5) + 1] = a6[1])
  BY <1>6, <1>11, JoinIs
<1>13. /\ b7 \in Facts /\ Len(b7) = Len(b6) + Len(a7) /\ ToSet(b7) = ToSet(b6) \cup ToSet(a7)
      /\ (\A i \in 1..Len(b6) : b7[i] = b6[i]) /\ (Len(a7) > 0 => b7[Len(b6) + 1] = a7[1])
  BY <1>7, <1>12, JoinIs
<1> HIDE DEF b2, b3, b4, b5, b6, b7
<1>14. ASSUME NEW fact \in warning
       PROVE  /\ (fact = "noFreeTier" => ~api.isFree /\ ~api.hasFreeTier)
              /\ (fact = "oauthFlow" => api.authType = "oauth2") /\ (fact = "key" => api.authType = "apiKey")
              /\ (fact = "noHttps" => ~api.https) /\ (fact = "noCors" => api.cors = "no")
              /\ (fact = "failing" => api.status = "down") /\ (fact = "noDocs" => ~api.docs)
  <2>1. fact \in ToSet(b7)
    BY <1>0, <1>13, <1>14, CutFacts
  <2>2. fact \in ToSet(a1) \cup ToSet(a2) \cup ToSet(a3) \cup ToSet(a4) \cup ToSet(a5) \cup ToSet(a6) \cup ToSet(a7)
    BY <1>8, <1>9, <1>10, <1>11, <1>12, <1>13, <2>1
  <2> QED
    BY <1>1, <1>2, <1>3, <1>4, <1>5, <1>6, <1>7, <2>2
<1>15. PICK n1, n2, n3, n4, n5 :
         /\ n1 \in {0, 1} /\ n2 \in {0, 1} /\ n3 \in {0, 1} /\ n4 \in {0, 1} /\ n5 \in {0, 1}
         /\ n1 = Len(a1) /\ n2 = Len(a2) /\ n3 = Len(a3) /\ n4 = Len(a4) /\ n5 = Len(a5)
         /\ (n2 = 0 \/ n3 = 0)
  <2>1. api.authType # "oauth2" \/ api.authType # "apiKey"
    OBVIOUS
  <2>2. Len(a2) = 0 \/ Len(a3) = 0
    BY <1>2, <1>3, <2>1
  <2>3. Len(a1) \in {0, 1} /\ Len(a2) \in {0, 1} /\ Len(a3) \in {0, 1} /\ Len(a4) \in {0, 1} /\ Len(a5) \in {0, 1}
    BY <1>1, <1>2, <1>3, <1>4, <1>5
  <2> QED
    BY <2>2, <2>3
<1>16. PICK k3, k5 :
         /\ k3 \in 0..2 /\ k5 \in 0..4 /\ (k5 = 4 => n1 = 1 /\ (n2 = 1 \/ n3 = 1) /\ n4 = 1 /\ n5 = 1)
         /\ k3 = Len(b3) /\ k3 + n4 = Len(b4) /\ k5 = Len(b5) /\ k5 = k3 + n4 + n5
  <2>1. Len(b3) = n1 + n2 + n3
    BY <1>8, <1>9, <1>15
  <2>2. Len(b4) = Len(b3) + n4 /\ Len(b5) = Len(b4) + n5
    BY <1>10, <1>11, <1>15
  <2>3. ASSUME NEW x1 \in {0, 1}, NEW x2 \in {0, 1}, NEW x3 \in {0, 1}, NEW x4 \in {0, 1}, NEW x5 \in {0, 1},
               x2 = 0 \/ x3 = 0
        PROVE  /\ x1 + x2 + x3 \in 0..2 /\ (x1 + x2 + x3) + x4 + x5 \in 0..4
               /\ ((x1 + x2 + x3) + x4 + x5 = 4 => x1 = 1 /\ (x2 = 1 \/ x3 = 1) /\ x4 = 1 /\ x5 = 1)
    BY <2>3
  <2>4. /\ n1 \in {0, 1} /\ n2 \in {0, 1} /\ n3 \in {0, 1} /\ n4 \in {0, 1} /\ n5 \in {0, 1}
        /\ (n2 = 0 \/ n3 = 0)
    BY <1>15, Zenon
  <2>5. /\ n1 + n2 + n3 \in 0..2 /\ (n1 + n2 + n3) + n4 + n5 \in 0..4
        /\ ((n1 + n2 + n3) + n4 + n5 = 4 => n1 = 1 /\ (n2 = 1 \/ n3 = 1) /\ n4 = 1 /\ n5 = 1)
    BY <2>3, <2>4
  <2>6. Len(b4) = (n1 + n2 + n3) + n4 /\ Len(b5) = (n1 + n2 + n3) + n4 + n5
    BY <2>1, <2>2
  <2> QED
    BY <2>1, <2>5, <2>6
<1>17. ASSUME ~api.https PROVE "noHttps" \in warning
  <2>1. Len(b4) = k3 + 1 /\ b4[k3 + 1] = "noHttps"
    <3>1. n4 = 1 /\ Len(a4) > 0 /\ a4[1] = "noHttps"
      BY <1>4, <1>15, <1>17
    <3> QED
      BY <1>10, <1>16, <3>1
  <2>2. Len(b5) >= k3 + 1 /\ b5[k3 + 1] = "noHttps" /\ k3 + 1 \in 1..k5
    <3>1. k3 + 1 \in 1..Len(b4) /\ k3 + 1 \in 1..k5
      BY <1>15, <1>16, <2>1
    <3> QED
      BY <1>11, <1>16, <2>1, <3>1
  <2>3. Len(b6) >= k5 /\ b6[k3 + 1] = "noHttps"
    BY <1>6, <1>12, <1>16, <2>2
  <2>4. Len(b7) >= k3 + 1 /\ b7[k3 + 1] = "noHttps" /\ k3 + 1 \in 1..4
    <3>1. Len(b6) \in Nat /\ Len(b6) >= k5 /\ Len(a7) \in Nat
      BY <1>6, <1>7, <1>12, <1>16
    <3>2. k3 + 1 \in 1..Len(b6) /\ k3 + 1 \in 1..4
      BY <1>16, <2>2, <3>1
    <3> QED
      BY <1>13, <2>3, <3>1, <3>2
  <2>5. "noHttps" \in ToSet(atMost(4, b7))
    BY <1>13, <2>4, CutFacts
  <2> QED
    BY <1>0, <2>5
<1>18. ASSUME api.status = "down" PROVE "failing" \in warning \/ Cardinality(warning) = 4
  <2>1. Len(b6) = k5 + 1 /\ b6[k5 + 1] = "failing" /\ \A i \in 1..k5 : b6[i] = b5[i]
    <3>1. Len(a6) = 1 /\ a6[1] = "failing" /\ k5 = Len(b5)
      BY <1>6, <1>16, <1>18
    <3>2. Len(a6) > 0
      BY <3>1
    <3> QED
      BY <1>12, <3>1, <3>2
  <2>2. Len(b7) >= k5 + 1 /\ b7[k5 + 1] = "failing" /\ \A i \in 1..k5 : b7[i] = b5[i]
    <3>1. \A i \in 1..(k5 + 1) : b7[i] = b6[i]
      BY <1>13, <2>1
    <3>2. k5 + 1 \in 1..(k5 + 1) /\ \A i \in 1..k5 : i \in 1..(k5 + 1)
      BY <1>16
    <3>3. Len(b7) >= k5 + 1
      <4>1. Len(a7) \in Nat /\ k5 \in Nat /\ Len(b7) = (k5 + 1) + Len(a7)
        BY <1>7, <1>13, <1>16, <2>1
      <4> QED
        BY <4>1
    <3> QED
      BY <2>1, <3>1, <3>2, <3>3
  <2>3. CASE k5 < 4
    <3>1. k5 + 1 \in 1..4
      BY <1>16, <2>3
    <3>2. "failing" \in warning
      BY <1>0, <1>13, <2>2, <3>1, CutFacts
    <3> QED
      BY <3>2
  <2>4. CASE k5 = 4
    <3>1. warning = {b7[i] : i \in 1..4}
      <4>1. 4 <= Len(b7) /\ 4 \in Nat
        <5>1. Len(a7) \in Nat /\ Len(b7) = 5 + Len(a7)
          BY <1>7, <1>13, <2>1, <2>4
        <5> QED
          BY <5>1
      <4> QED
        BY <1>0, <1>13, <4>1, CutFacts
    <3>2. warning = {b5[i] : i \in 1..4}
      BY <2>2, <2>4, <3>1
    <3>3. DOMAIN b5 = 1..4
      BY <1>11, <1>16, <2>4 DEF Facts
    <3>4. warning = ToSet(b5)
      BY <3>2, <3>3 DEF ToSet
    <3>5. ToSet(b5) = ToSet(a1) \cup ToSet(a2) \cup ToSet(a3) \cup ToSet(a4) \cup ToSet(a5)
      BY <1>8, <1>9, <1>10, <1>11
    <3>6. /\ ~api.isFree /\ ~api.hasFreeTier /\ ~api.https /\ api.cors = "no"
          /\ (api.authType = "oauth2" \/ api.authType = "apiKey")
      <4>1. n1 = 1 /\ (n2 = 1 \/ n3 = 1) /\ n4 = 1 /\ n5 = 1
        BY <1>16, <2>4
      <4> QED
        BY <1>1, <1>2, <1>3, <1>4, <1>5, <1>15, <4>1
    <3>7. CASE api.authType = "oauth2"
      <4>1. warning = {"noFreeTier", "oauthFlow", "noHttps", "noCors"}
        BY <1>1, <1>2, <1>3, <1>4, <1>5, <3>4, <3>5, <3>6, <3>7
      <4>2. Cardinality({"noFreeTier", "oauthFlow", "noHttps", "noCors"}) = 4
        BY FourAre
      <4> QED
        BY <4>1, <4>2
    <3>8. CASE api.authType = "apiKey"
      <4>1. warning = {"noFreeTier", "key", "noHttps", "noCors"}
        BY <1>1, <1>2, <1>3, <1>4, <1>5, <3>4, <3>5, <3>6, <3>8
      <4>2. Cardinality({"noFreeTier", "key", "noHttps", "noCors"}) = 4
        BY FourAre
      <4> QED
        BY <4>1, <4>2
    <3> QED
      BY <3>6, <3>7, <3>8
  <2> QED
    BY <1>16, <2>3, <2>4
<1> QED
  BY <1>14, <1>17, <1>18 DEF warning

(* Praise and warning do not contradict each other.                          *)
LEMMA ReasonsRight ==
  ASSUME table \in Seq(Contenders)
  PROVE  ReasonsAndCaveatsAgree
<1> SUFFICES ASSUME NEW i \in DOMAIN table, NEW api, api = table[i], NEW praise, praise = ToSet(buildReasons(api)),
                    NEW warning, warning = ToSet(buildCaveats(api))
             PROVE  /\ \A c \in {<<"free", "noFreeTier">>, <<"freeTier", "noFreeTier">>, <<"noAuth", "key">>,
                                 <<"noAuth", "oauthFlow">>, <<"https", "noHttps">>, <<"cors", "noCors">>,
                                 <<"operational", "failing">>, <<"docs", "noDocs">>} :
                         ~(c[1] \in praise /\ c[2] \in warning)
                    /\ (api.status = "down" => "failing" \in warning \/ Cardinality(warning) = 4)
                    /\ (~api.https => "noHttps" \in warning)
  BY DEF ReasonsAndCaveatsAgree
<1>1. api \in Apis
  <2>1. Contenders \subseteq Apis
    BY VerdictAssumption DEF VerdictAssumption, Apis
  <2> QED
    BY <2>1
<1>2. /\ (api.status = "down" => "failing" \in warning \/ Cardinality(warning) = 4)
      /\ (~api.https => "noHttps" \in warning)
  BY <1>1, WarningIs
<1>3. /\ ("free" \in praise => api.isFree) /\ ("freeTier" \in praise => api.hasFreeTier)
      /\ ("noAuth" \in praise => api.authType = "none") /\ ("https" \in praise => api.https)
      /\ ("cors" \in praise => api.cors = "yes") /\ ("operational" \in praise => api.status = "up")
      /\ ("docs" \in praise => api.docs)
  BY <1>1, PraiseIs
<1>4. /\ ("noFreeTier" \in warning => ~api.isFree /\ ~api.hasFreeTier)
      /\ ("oauthFlow" \in warning => api.authType = "oauth2") /\ ("key" \in warning => api.authType = "apiKey")
      /\ ("noHttps" \in warning => ~api.https) /\ ("noCors" \in warning => api.cors = "no")
      /\ ("failing" \in warning => api.status = "down") /\ ("noDocs" \in warning => ~api.docs)
  BY <1>1, WarningIs
<1>5. /\ ~("free" \in praise /\ "noFreeTier" \in warning) /\ ~("freeTier" \in praise /\ "noFreeTier" \in warning)
      /\ ~("noAuth" \in praise /\ "key" \in warning) /\ ~("noAuth" \in praise /\ "oauthFlow" \in warning)
      /\ ~("https" \in praise /\ "noHttps" \in warning) /\ ~("cors" \in praise /\ "noCors" \in warning)
      /\ ~("operational" \in praise /\ "failing" \in warning) /\ ~("docs" \in praise /\ "noDocs" \in warning)
  BY <1>3, <1>4
<1>6. ASSUME NEW c \in {<<"free", "noFreeTier">>, <<"freeTier", "noFreeTier">>, <<"noAuth", "key">>,
                         <<"noAuth", "oauthFlow">>, <<"https", "noHttps">>, <<"cors", "noCors">>,
                         <<"operational", "failing">>, <<"docs", "noDocs">>}
      PROVE  ~(c[1] \in praise /\ c[2] \in warning)
  BY <1>5
<1> QED
  BY <1>2, <1>6

-----------------------------------------------------------------------------
(* Choices and verdicts together                                             *)

ChoicesInv ==
  /\ subject = "discovery" => DiscoveryInv
  /\ subject = "verdicts" => table \in Seq(Contenders)

(* Where nothing moves, nothing is lost.                                     *)
LEMMA DiscoveryStays ==
  ASSUME DiscoveryInv, UNCHANGED discoveryVars
  PROVE  DiscoveryInv'
<1>1. UNCHANGED <<active, up, url, render, shown, changes>>
  BY DEF discoveryVars
<1>2. render' \in RenderStates
  BY <1>1 DEF DiscoveryInv, DiscoveryTypes
<1>3. \A step \in RenderSteps : render'.step = step => Searching(step)
  BY <1>1 DEF DiscoveryInv
<1>4. changes.since = 0 =>
        \A step \in RenderSteps, ids \in Seq(apiIds) :
          render'.step = step /\ render'.found = ids => Found(step, ids)
  BY <1>1 DEF DiscoveryInv
<1> QED
  BY <1>1, <1>2, <1>3, <1>4, RenderMoves

(* As above.                                                                 *)
LEMMA ChoicesStutter ==
  ASSUME ChoicesInv, UNCHANGED allVars
  PROVE  ChoicesInv'
<1>1. UNCHANGED discoveryVars /\ UNCHANGED verdictVars /\ UNCHANGED subject
  BY DEF allVars
<1>2. UNCHANGED table
  BY <1>1 DEF verdictVars
<1> QED
  BY <1>1, <1>2, DiscoveryStays DEF ChoicesInv

(* Whatever users choose and type, and whatever the catalogue does           *)
(* meanwhile, what a page shows satisfies the filters chosen, on every path  *)
(* of the search, and a search with a match shows something; recommendations *)
(* satisfy the constraints and facets count what they filter, for any        *)
(* catalogue and page size (search/service.ts); the winner of a comparison   *)
(* and the best of each row are the best of the table, and no praise         *)
(* contradicts a warning, for any APIs (recommendations/service.ts).         *)
THEOREM ChoicesAreRespected == SubjectSpec => []ChoicesRespected
<1>1. SubjectInit => ChoicesInv
  <2>1. verdictInit => table \in Seq(Contenders)
    BY DEF verdictInit
  <2> QED
    BY <2>1, DiscoveryStarts DEF SubjectInit, ChoicesInv
<1>2. ChoicesInv /\ [SubjectNext]_allVars => ChoicesInv'
  <2>1. ASSUME verdictsNext, table \in Seq(Contenders) PROVE table' \in Seq(Contenders)
    BY <2>1 DEF verdictsNext, addContender
  <2> QED
    BY <2>1, ChoicesStutter, OwnSteps, DiscoveryStep DEF ChoicesInv
<1>3. ChoicesInv => ChoicesRespected
  <2>1. DiscoveryInv => DiscoveryTypes
    BY DEF DiscoveryInv
  <2> QED
    BY <2>1, ChoicesFollow, AdviceFollows, VerdictRight, ReasonsRight DEF ChoicesInv, ChoicesRespected
<1> QED
  BY <1>1, <1>2, <1>3, PTL DEF SubjectSpec

-----------------------------------------------------------------------------
(* The ring of outcomes                                                      *)

(* A positive multiple of m is at least m, a negative one at most -m.        *)
LEMMA Multiples ==
  ASSUME NEW k \in Int, NEW m \in Nat \ {0}
  PROVE  (k >= 1 => k * m >= m) /\ (k <= -1 => k * m <= -m)
  OBVIOUS

(* Division with remainder.                                                  *)
LEMMA Remainder ==
  ASSUME NEW x \in Int, NEW m \in Nat \ {0}
  PROVE  x % m \in 0..(m - 1) /\ \E q \in Int : x = q * m + (x % m)
<1>1. x % m \in 0..(m - 1)
  OBVIOUS
<1>2. x = (x \div m) * m + (x % m)
  OBVIOUS
<1>3. x \div m \in Int
  OBVIOUS
<1> QED
  BY <1>1, <1>2, <1>3

(* The remainder is the only number below m that differs by a multiple of m. *)
LEMMA RemainderIs ==
  ASSUME NEW q \in Int, NEW m \in Nat \ {0}, NEW r \in 0..(m - 1)
  PROVE  (q * m + r) % m = r
<1> DEFINE x == q * m + r
<1>0. x \in Int
  OBVIOUS
<1>1. PICK p \in Int : x = p * m + (x % m) /\ x % m \in 0..(m - 1)
  BY <1>0, Remainder
<1>2. (p - q) * m = r - (x % m)
  BY <1>1
<1>3. ~(p - q >= 1) /\ ~(p - q <= -1)
  <2>1. p - q >= 1 => (p - q) * m >= m
    BY Multiples
  <2>2. p - q <= -1 => (p - q) * m <= -m
    BY Multiples
  <2> QED
    BY <1>1, <1>2, <2>1, <2>2
<1>4. p = q
  BY <1>3
<1> QED
  BY <1>1, <1>4

(* The slot of the bucket a periods ago, seen from slot s.                   *)
Back(s, a) == IF a <= s THEN s - a ELSE s - a + BucketCount

(* Both ways in which the ring finds a slot arrive at that one.              *)
LEMMA BackIs ==
  ASSUME NEW i \in Nat, NEW a \in Slots
  PROVE  /\ i % BucketCount \in Slots
         /\ Back(i % BucketCount, a) \in Slots
         /\ ((i % BucketCount) - a + BucketCount) % BucketCount = Back(i % BucketCount, a)
         /\ (i - a + BucketCount * (1 + a)) % BucketCount = Back(i % BucketCount, a)
<1> DEFINE m == BucketCount
           s == i % m
           b == Back(s, a)
<1>1. m \in Nat \ {0} /\ Slots = 0..(m - 1) /\ a \in 0..(m - 1)
  BY RingAssumption DEF RingAssumption, Slots
<1> HIDE DEF m
<1>a. i \in Int
  OBVIOUS
<1>b. s \in 0..(m - 1) /\ \E q \in Int : i = q * m + s
  BY <1>1, <1>a, Remainder
<1>2. PICK q \in Int : i = q * m + s /\ s \in 0..(m - 1)
  BY <1>b
<1> HIDE DEF s
<1>3. b \in 0..(m - 1) /\ (s - a + m = b \/ s - a + m = m + b)
  BY <1>1, <1>2 DEF Back, m
<1> HIDE DEF b
<1>4. (0 * m + b) % m = b /\ (1 * m + b) % m = b
  BY <1>1, <1>3, RemainderIs
<1>5. (s - a + m) % m = b
  <2>1. 0 * m + b = b /\ 1 * m + b = m + b
    BY <1>1, <1>3
  <2> QED
    BY <1>3, <1>4, <2>1
<1>6. i - a + m * (1 + a) = (q + a) * m + (s - a + m)
  BY <1>1, <1>2
<1>7. \/ i - a + m * (1 + a) = (q + a) * m + b
      \/ i - a + m * (1 + a) = (q + a + 1) * m + b
  BY <1>1, <1>2, <1>3, <1>6
<1>8. ((q + a) * m + b) % m = b /\ ((q + a + 1) * m + b) % m = b
  <2>1. q + a \in Int /\ q + a + 1 \in Int
    BY <1>1
  <2> QED
    BY <1>1, <1>3, <2>1, RemainderIs
<1>9. (i - a + m * (1 + a)) % m = b
  BY <1>7, <1>8
<1> QED
  BY <1>1, <1>2, <1>3, <1>5, <1>9 DEF m, s, b

(* One period later everything is one slot further back.                     *)
LEMMA NextSlot ==
  ASSUME NEW i \in Nat, NEW a \in Slots, a # 0
  PROVE  a - 1 \in Slots /\ Back((i + 1) % BucketCount, a) = Back(i % BucketCount, a - 1)
<1> DEFINE m == BucketCount
           s == i % m
<1>1. m \in Nat \ {0} /\ Slots = 0..(m - 1) /\ a \in 0..(m - 1)
  BY RingAssumption DEF RingAssumption, Slots
<1> HIDE DEF m
<1>a. i \in Int
  OBVIOUS
<1>b. s \in 0..(m - 1) /\ \E q \in Int : i = q * m + s
  BY <1>1, <1>a, Remainder
<1>2. PICK q \in Int : i = q * m + s /\ s \in 0..(m - 1)
  BY <1>b
<1> HIDE DEF s
<1>3. CASE s + 1 = m
  <2>1. (q + 1) \in Int /\ i + 1 = (q + 1) * m + 0 /\ 0 \in 0..(m - 1)
    BY <1>1, <1>2, <1>3
  <2>2. (i + 1) % m = 0
    BY <1>1, <2>1, RemainderIs
  <2> QED
    BY <1>1, <1>2, <1>3, <2>2 DEF Back, m, s
<1>4. CASE s + 1 # m
  <2>1. i + 1 = q * m + (s + 1) /\ s + 1 \in 0..(m - 1)
    BY <1>1, <1>2, <1>4
  <2>2. (i + 1) % m = s + 1
    BY <1>1, <2>1, RemainderIs
  <2> QED
    BY <1>1, <1>2, <1>4, <2>2 DEF Back, m, s
<1> QED
  BY <1>3, <1>4

(* Different ages have different slots.                                      *)
LEMMA BackApart ==
  ASSUME NEW s \in Slots, NEW a \in Slots, NEW b \in Slots, Back(s, a) = Back(s, b)
  PROVE  a = b
  BY RingAssumption DEF RingAssumption, Slots, Back

(* Counts are counted and the window was looked at no later than now.        *)
RingInv ==
  /\ successes \in [Slots -> Nat] /\ failures \in [Slots -> Nat]
  /\ index \in Nat
  /\ lastBucketIndex \in Int /\ -1 <= lastBucketIndex /\ lastBucketIndex <= index

(* How many of the youngest buckets hold nothing: the ones begun since the   *)
(* window was last looked at.                                                *)
Idle(i, last) == IF last = -1 THEN BucketCount ELSE i - last

(* The clock is in one of the slots.                                         *)
LEMMA SlotIn ==
  ASSUME NEW i \in Nat
  PROVE  i % BucketCount \in Slots
  BY RingAssumption, Remainder DEF RingAssumption, Slots

(* The slots that rotate() clears are those of the idle buckets.             *)
LEMMA SkippedIs ==
  ASSUME RingInv, NEW a \in Slots
  PROVE  Back(slot, a) \in skipped <=> a < Idle(index, lastBucketIndex)
<1> DEFINE e == Idle(index, lastBucketIndex)
           k == Least(e, BucketCount)
<1>1. BucketCount \in Nat \ {0} /\ Slots = 0..(BucketCount - 1)
  BY RingAssumption DEF RingAssumption, Slots
<1>a. index \in Nat /\ e \in Nat
  BY <1>1 DEF RingInv, Idle
<1>2. index \in Nat /\ e \in Nat /\ slot \in Slots
  BY <1>a, SlotIn DEF slot
<1>3. skipped = {(slot - i + BucketCount) % BucketCount : i \in 0..(k - 1)}
  BY DEF skipped, Idle
<1> HIDE DEF e
<1>4. k \in Nat /\ k <= BucketCount /\ (a < k <=> a < e)
  BY <1>1, <1>2 DEF Least
<1> HIDE DEF k
<1>5. ASSUME NEW i \in 0..(k - 1)
      PROVE  i \in Slots /\ (slot - i + BucketCount) % BucketCount = Back(slot, i)
  <2>1. i \in Slots
    BY <1>1, <1>4
  <2> QED
    BY <1>2, <2>1, BackIs DEF slot
<1>6. ASSUME a < k PROVE Back(slot, a) \in skipped
  <2>1. a \in 0..(k - 1)
    BY <1>1, <1>4, <1>6
  <2> QED
    BY <1>3, <1>5, <2>1
<1>7. ASSUME Back(slot, a) \in skipped PROVE a < k
  <2>1. PICK i \in 0..(k - 1) : Back(slot, a) = Back(slot, i) /\ i \in Slots
    BY <1>3, <1>5, <1>7
  <2>2. a = i
    BY <1>2, <2>1, BackApart
  <2> QED
    BY <1>1, <1>4, <2>1, <2>2
<1> QED
  BY <1>4, <1>6, <1>7 DEF e

(* What a snapshot would find at each age.                                   *)
LEMMA FoundAt ==
  ASSUME RingInv, NEW f \in [Slots -> Nat]
  PROVE  /\ slot \in Slots
         /\ ByAge(f) \in [Slots -> Nat] /\ Rotated(f) \in [Slots -> Nat]
         /\ \A a \in Slots : /\ Back(slot, a) \in Slots
                             /\ ByAge(f)[a] = Rotated(f)[Back(slot, a)]
                             /\ ByAge(f)[a] = IF a < Idle(index, lastBucketIndex) THEN 0
                                                                       ELSE f[Back(slot, a)]
<1>1. index \in Nat
  BY DEF RingInv
<1>2. slot \in Slots
  BY <1>1, SlotIn DEF slot
<1>3. Rotated(f) \in [Slots -> Nat]
  BY DEF Rotated
<1>4. ASSUME NEW a \in Slots
      PROVE  /\ Back(slot, a) \in Slots
             /\ (index - a + BucketCount * (1 + a)) % BucketCount = Back(slot, a)
  BY <1>1, BackIs DEF slot
<1>5. ASSUME NEW a \in Slots
      PROVE  /\ ByAge(f)[a] = Rotated(f)[Back(slot, a)]
             /\ ByAge(f)[a] = IF Back(slot, a) \in skipped THEN 0 ELSE f[Back(slot, a)]
  BY <1>4 DEF ByAge, Rotated
<1>6. ByAge(f) \in [Slots -> Nat]
  <2>1. ByAge(f) = [a \in Slots |-> Rotated(f)[Back(slot, a)]]
    BY <1>4 DEF ByAge
  <2> QED
    BY <1>3, <1>4, <2>1
<1>7. ASSUME NEW a \in Slots
      PROVE  Back(slot, a) \in skipped <=> a < Idle(index, lastBucketIndex)
  BY SkippedIs
<1> QED
  BY <1>2, <1>3, <1>4, <1>5, <1>6, <1>7

(* The ring starts empty.                                                    *)
LEMMA RingStart == ringInit => RingInv
  BY DEF ringInit, RingInv

(* Every operation keeps the counts counted.                                 *)
LEMMA RingKept ==
  ASSUME RingInv, ringNext
  PROVE  RingInv'
<1>1. index \in Nat /\ slot \in Slots
  BY FoundAt DEF RingInv
<1>2. Rotated(successes) \in [Slots -> Nat] /\ Rotated(failures) \in [Slots -> Nat]
  BY FoundAt DEF RingInv
<1>3. ASSUME NEW f \in [Slots -> Nat] PROVE [f EXCEPT ![slot] = @ + 1] \in [Slots -> Nat]
  BY <1>1
<1>4. ASSUME NEW good \in BOOLEAN, recordOutcome(good) PROVE RingInv'
  <2>1. successes' \in [Slots -> Nat]
    BY <1>2, <1>3, <1>4, Zenon DEF recordOutcome
  <2>2. failures' \in [Slots -> Nat]
    BY <1>2, <1>3, <1>4, Zenon DEF recordOutcome
  <2>3. index' = index /\ lastBucketIndex' = index
    BY <1>4 DEF recordOutcome
  <2> QED
    BY <1>1, <2>1, <2>2, <2>3 DEF RingInv
<1>5. CASE snapshot
  BY <1>1, <1>2, <1>5 DEF snapshot, RingInv
<1>6. CASE reset
  BY <1>1, <1>6 DEF reset, RingInv
<1>7. CASE ringElapses
  BY <1>7 DEF ringElapses, RingInv
<1> QED
  BY <1>4, <1>5, <1>6, <1>7 DEF ringNext

(* The ages of the ring are the ages of the window.                          *)
LEMMA SameAges == Abstract!Ages = Slots
  BY DEF Abstract!Ages, Slots

(* What a snapshot would find, as a function of what the ring holds.         *)
InRing(f, i, last) ==
  [a \in Slots |-> IF a < Idle(i, last) THEN 0 ELSE f[Back(i % BucketCount, a)]]

(* The refinement mapping in those terms.                                    *)
LEMMA FoundNow ==
  RingInv => /\ ByAge(successes) = InRing(successes, index, lastBucketIndex)
             /\ ByAge(failures) = InRing(failures, index, lastBucketIndex)
<1> SUFFICES ASSUME RingInv
             PROVE  /\ ByAge(successes) = InRing(successes, index, lastBucketIndex)
                    /\ ByAge(failures) = InRing(failures, index, lastBucketIndex)
  OBVIOUS
<1>1. ASSUME NEW f \in [Slots -> Nat] PROVE ByAge(f) = InRing(f, index, lastBucketIndex)
  BY FoundAt DEF InRing, slot
<1> QED
  BY <1>1 DEF RingInv

(* And in the next state.                                                    *)
LEMMA FoundNext ==
  RingInv' => /\ ByAge(successes)' = InRing(successes', index', lastBucketIndex')
              /\ ByAge(failures)' = InRing(failures', index', lastBucketIndex')
<1>1. (RingInv => /\ ByAge(successes) = InRing(successes, index, lastBucketIndex)
                  /\ ByAge(failures) = InRing(failures, index, lastBucketIndex))'
  BY FoundNow, PTL
<1> QED
  BY <1>1

(* Right after rotate() every slot counts, and what is added to the current  *)
(* slot is added to the current period.                                      *)
LEMMA FoundRotated ==
  ASSUME RingInv, NEW f \in [Slots -> Nat]
  PROVE  /\ InRing(Rotated(f), index, index) = ByAge(f)
         /\ InRing([Rotated(f) EXCEPT ![slot] = @ + 1], index, index) = [ByAge(f) EXCEPT ![0] = @ + 1]
<1> DEFINE r == Rotated(f)
           b == ByAge(f)
<1>1. /\ slot \in Slots /\ b \in [Slots -> Nat] /\ r \in [Slots -> Nat]
      /\ \A a \in Slots : Back(slot, a) \in Slots /\ b[a] = r[Back(slot, a)]
  BY FoundAt
<1> HIDE DEF r, b
<1>2. /\ 0 \in Slots /\ Back(slot, 0) = slot /\ \A a \in Slots : ~(a < 0)
      /\ Idle(index, index) = 0 /\ index % BucketCount = slot
  BY <1>1, RingAssumption DEF RingAssumption, RingInv, Slots, Back, Idle, slot
<1>3. ASSUME NEW g PROVE InRing(g, index, index) = [a \in Slots |-> g[Back(slot, a)]]
  BY <1>2 DEF InRing
<1>4. InRing(r, index, index) = b
  <2>1. b = [a \in Slots |-> r[Back(slot, a)]]
    BY <1>1
  <2> QED
    BY <1>3, <2>1
<1>5. ASSUME NEW a \in Slots, a # 0 PROVE Back(slot, a) # slot
  BY <1>1, <1>2, <1>5, BackApart
<1>6. InRing([r EXCEPT ![slot] = @ + 1], index, index) = [b EXCEPT ![0] = @ + 1]
  <2> DEFINE g == [r EXCEPT ![slot] = @ + 1]
             c == [b EXCEPT ![0] = @ + 1]
  <2>1. ASSUME NEW a \in Slots PROVE g[Back(slot, a)] = c[a]
    BY <1>1, <1>2, <1>5
  <2>2. c = [a \in Slots |-> c[a]]
    BY <1>1
  <2> HIDE DEF g, c
  <2>3. InRing(g, index, index) = [a \in Slots |-> c[a]]
    BY <1>3, <2>1
  <2> QED
    BY <2>2, <2>3 DEF g, c
<1> QED
  BY <1>4, <1>6 DEF r, b

(* recordOutcome() adds one outcome of the current period.                   *)
LEMMA RecordIsRecord ==
  ASSUME RingInv, RingInv', NEW good \in BOOLEAN, recordOutcome(good)
  PROVE  /\ ByAge(successes)' = IF good THEN [ByAge(successes) EXCEPT ![0] = @ + 1] ELSE ByAge(successes)
         /\ ByAge(failures)' = IF good THEN ByAge(failures) ELSE [ByAge(failures) EXCEPT ![0] = @ + 1]
<1>1. index' = index /\ lastBucketIndex' = index
  BY DEF recordOutcome
<1>2. /\ ByAge(successes)' = InRing(successes', index, index)
      /\ ByAge(failures)' = InRing(failures', index, index)
  BY <1>1, FoundNext
<1>3. ASSUME NEW f \in [Slots -> Nat]
      PROVE  /\ InRing(Rotated(f), index, index) = ByAge(f)
             /\ InRing([Rotated(f) EXCEPT ![slot] = @ + 1], index, index) = [ByAge(f) EXCEPT ![0] = @ + 1]
  BY FoundRotated
<1>4. successes \in [Slots -> Nat] /\ failures \in [Slots -> Nat]
  BY DEF RingInv
<1>5. CASE good
  <2>1. successes' = [Rotated(successes) EXCEPT ![slot] = @ + 1] /\ failures' = Rotated(failures)
    BY <1>5 DEF recordOutcome
  <2> QED
    BY <1>2, <1>3, <1>4, <1>5, <2>1, Zenon
<1>6. CASE ~good
  <2>1. successes' = Rotated(successes) /\ failures' = [Rotated(failures) EXCEPT ![slot] = @ + 1]
    BY <1>6 DEF recordOutcome
  <2> QED
    BY <1>2, <1>3, <1>4, <1>6, <2>1, Zenon
<1> QED
  BY <1>5, <1>6

(* Looking at the window changes nothing of what it holds.                   *)
LEMMA SnapshotIsStutter ==
  ASSUME RingInv, RingInv', snapshot
  PROVE  ByAge(successes)' = ByAge(successes) /\ ByAge(failures)' = ByAge(failures)
<1>1. /\ index' = index /\ lastBucketIndex' = index
      /\ successes' = Rotated(successes) /\ failures' = Rotated(failures)
  BY DEF snapshot
<1>2. /\ ByAge(successes)' = InRing(Rotated(successes), index, index)
      /\ ByAge(failures)' = InRing(Rotated(failures), index, index)
  BY <1>1, FoundNext
<1>3. successes \in [Slots -> Nat] /\ failures \in [Slots -> Nat]
  BY DEF RingInv
<1> QED
  BY <1>2, <1>3, FoundRotated

(* A ring nobody has looked at since it was made is an empty window.         *)
LEMMA FoundNone ==
  ASSUME NEW f, NEW i
  PROVE  InRing(f, i, -1) = [a \in Slots |-> 0]
<1>1. \A a \in Slots : a < Idle(i, -1)
  BY RingAssumption DEF RingAssumption, Idle, Slots
<1> QED
  BY <1>1 DEF InRing

(* When a period ends, everything is one period older.                       *)
LEMMA ElapseIsElapse ==
  ASSUME RingInv, RingInv', ringElapses
  PROVE  /\ ByAge(successes)' = Abstract!Older(ByAge(successes))
         /\ ByAge(failures)' = Abstract!Older(ByAge(failures))
<1>1. /\ index' = index + 1 /\ lastBucketIndex' = lastBucketIndex
      /\ successes' = successes /\ failures' = failures /\ index \in Nat
      /\ lastBucketIndex \in Int /\ -1 <= lastBucketIndex /\ lastBucketIndex <= index
  BY DEF ringElapses, RingInv
<1>2. /\ ByAge(successes)' = InRing(successes, index + 1, lastBucketIndex)
      /\ ByAge(failures)' = InRing(failures, index + 1, lastBucketIndex)
  BY <1>1, FoundNext
<1>3. ASSUME NEW f
      PROVE  InRing(f, index + 1, lastBucketIndex) = Abstract!Older(InRing(f, index, lastBucketIndex))
  <2> DEFINE old == InRing(f, index, lastBucketIndex)
             new == InRing(f, index + 1, lastBucketIndex)
  <2>1. ASSUME NEW a \in Slots PROVE new[a] = IF a = 0 THEN 0 ELSE old[a - 1]
    <3>1. CASE a = 0
      <4>1. 0 < Idle(index + 1, lastBucketIndex)
        BY <1>1, RingAssumption DEF RingAssumption, Idle
      <4> QED
        BY <3>1, <4>1 DEF InRing
    <3>2. CASE a # 0
      <4>1. a - 1 \in Slots /\ Back((index + 1) % BucketCount, a) = Back(index % BucketCount, a - 1)
        BY <1>1, <3>2, NextSlot
      <4>2. a < Idle(index + 1, lastBucketIndex) <=> a - 1 < Idle(index, lastBucketIndex)
        BY <1>1, RingAssumption DEF RingAssumption, Idle, Slots
      <4>3. new[a] = IF a < Idle(index + 1, lastBucketIndex) THEN 0
                                                  ELSE f[Back((index + 1) % BucketCount, a)]
        BY DEF InRing
      <4>4. old[a - 1] = IF a - 1 < Idle(index, lastBucketIndex) THEN 0
                                                  ELSE f[Back(index % BucketCount, a - 1)]
        BY <4>1 DEF InRing
      <4> QED
        BY <3>2, <4>1, <4>2, <4>3, <4>4
    <3> QED
      BY <3>1, <3>2
  <2>2. new = [a \in Slots |-> new[a]]
    BY DEF InRing
  <2> HIDE DEF new, old
  <2>3. new = [a \in Slots |-> IF a = 0 THEN 0 ELSE old[a - 1]]
    BY <2>1, <2>2
  <2> QED
    BY <2>3, SameAges DEF Abstract!Older, new, old
<1> QED
  BY <1>2, <1>3, FoundNow

(* What the ring does, the window does.                                      *)
LEMMA RingImplements ==
  ASSUME RingInv, RingInv', ringNext
  PROVE  [Abstract!Next]_[good |-> ByAge(successes), bad |-> ByAge(failures)]
<1> DEFINE w == [good |-> ByAge(successes), bad |-> ByAge(failures)]
<1>1. ASSUME NEW good \in BOOLEAN, recordOutcome(good) PROVE Abstract!record
  <2>1. /\ ByAge(successes)' = IF good THEN [ByAge(successes) EXCEPT ![0] = @ + 1] ELSE ByAge(successes)
        /\ ByAge(failures)' = IF good THEN ByAge(failures) ELSE [ByAge(failures) EXCEPT ![0] = @ + 1]
    BY <1>1, RecordIsRecord
  <2>2. w' = Abstract!Recorded(w, good)
    BY <2>1 DEF Abstract!Recorded
  <2> QED
    BY <2>2 DEF Abstract!record
<1>2. CASE snapshot
  BY <1>2, SnapshotIsStutter
<1>3. CASE reset
  <2>1. lastBucketIndex' = -1
    BY <1>3 DEF reset
  <2>2. ByAge(successes)' = [a \in Slots |-> 0] /\ ByAge(failures)' = [a \in Slots |-> 0]
    BY <2>1, FoundNext, FoundNone
  <2> QED
    BY <2>2, SameAges DEF Abstract!Next, Abstract!reset, Abstract!NoOutcomes
<1>4. CASE ringElapses
  <2>1. /\ ByAge(successes)' = Abstract!Older(ByAge(successes))
        /\ ByAge(failures)' = Abstract!Older(ByAge(failures))
    BY <1>4, ElapseIsElapse
  <2> QED
    BY <2>1 DEF Abstract!Next, Abstract!elapse, Abstract!Elapsed
<1> QED
  BY <1>1, <1>2, <1>3, <1>4 DEF ringNext, Abstract!Next

(* The empty ring is the empty window.                                       *)
LEMMA RingStartsEmpty == ringInit => Abstract!Init
<1> SUFFICES ASSUME ringInit PROVE Abstract!Init
  OBVIOUS
<1>1. RingInv /\ lastBucketIndex = -1
  BY RingStart DEF ringInit
<1>2. ByAge(successes) = [a \in Slots |-> 0] /\ ByAge(failures) = [a \in Slots |-> 0]
  BY <1>1, FoundNow, FoundNone
<1> QED
  BY <1>2, SameAges DEF Abstract!Init, Abstract!NoOutcomes

(* The window's ring moves only while it is the subject.                     *)
LEMMA RingSteps ==
  ASSUME [SubjectNext]_allVars
  PROVE  ringNext \/ UNCHANGED ringVars
<1>1. CASE SubjectNext
  <2>1. (StructuresNext \/ ServicesNext) /\ (subject = "outcomes" \/ UNCHANGED ringVars)
    BY <1>1 DEF SubjectNext, RestStays
  <2>2. StructuresNext /\ subject = "outcomes" => ringNext
    BY DEF StructuresNext
  <2>3. ServicesNext => subject # "outcomes"
    BY DEF ServicesNext
  <2> QED
    BY <2>1, <2>2, <2>3
<1>2. CASE UNCHANGED allVars
  BY <1>2 DEF allVars
<1> QED
  BY <1>1, <1>2

(* The ring of lazily cleared slots is the window by age the circuit breaker *)
(* is written against, for any number of buckets: however long it was left   *)
(* alone, a snapshot finds the outcomes of the last BucketCount periods and  *)
(* no others (sliding-window.ts:212-246).                                    *)
THEOREM RingIsWindow == SubjectSpec => ImplementsWindow
<1> DEFINE w == [good |-> ByAge(successes), bad |-> ByAge(failures)]
<1>1. SubjectInit => RingInv /\ Abstract!Init
  BY RingStart, RingStartsEmpty DEF SubjectInit
<1>2. RingInv /\ [SubjectNext]_allVars => RingInv' /\ [Abstract!Next]_w
  <2> SUFFICES ASSUME RingInv, [SubjectNext]_allVars PROVE RingInv' /\ [Abstract!Next]_w
    OBVIOUS
  <2>1. CASE ringNext
    BY <2>1, RingKept, RingImplements
  <2>2. CASE UNCHANGED ringVars
    <3>1. RingInv'
      BY <2>2 DEF ringVars, RingInv
    <3>2. ByAge(successes)' = ByAge(successes) /\ ByAge(failures)' = ByAge(failures)
      BY <2>2, <3>1, FoundNow, FoundNext DEF ringVars
    <3> QED
      BY <3>1, <3>2
  <2> QED
    BY <2>1, <2>2, RingSteps
<1> QED
  BY <1>1, <1>2, PTL DEF SubjectSpec, ImplementsWindow, Abstract!Spec
-----------------------------------------------------------------------------
(* Walking the pages                                                         *)

poolLimit == IF terms # {} /\ rescues THEN RescueLimit ELSE CandidateLimit
poolRanks == {textRank(x, terms) : x \in pool}
scores == [id \in pool |-> scoreOf(id)]

(* No query is cut.                                                          *)
uncut == isSearch => Cardinality(pool) <= poolLimit

Rankings == {s \in SetToSeqs(pool) : \A i \in 1..(Len(s) - 1) : scores[s[i]] >= scores[s[i + 1]]}
PageOf(s, page) ==
  SubSeq(s, offset(page) + 1, IF Len(s) < offset(page) + PageSize THEN Len(s) ELSE offset(page) + PageSize)

(* The first n of the pool, each where some ranking has it: rows that tie    *)
(* may change places between two pages.                                      *)
Placed(ids, n) ==
  /\ Len(ids) = IF Cardinality(pool) < n THEN Cardinality(pool) ELSE n
  /\ \A i \in 1..Len(ids) : \E s \in Rankings : ids[i] = s[i]

(* Where no query is cut, the pages so far are placed, and the next one is   *)
(* a page of a ranking.                                                      *)
WalkAt(step, ids, total, fixed) ==
  /\ uncut => Placed(shown, (IF step = "done" THEN url.page ELSE url.page - 1) * PageSize)
  /\ step \in {"counted", "hydrate", "done"} /\ uncut => total = Cardinality(pool)
  /\ step \in {"rows", "hydrate"} /\ uncut => \E s \in Rankings : ids = PageOf(s, url.page)
  /\ step = "broaden" => isSearch /\ terms # {} /\ broadens
  /\ step = "rescue" => isSearch /\ terms # {} /\ rescues
  /\ step = "rank" => isSearch /\ (fixed => uncut) /\ (uncut => ids \in SetToSeqs(pool))
  /\ step \in {"hydrate", "done"} => (fixed => uncut)

WalkInv == changes.since = 0 => WalkAt(render.step, render.found, render.total, render.fixed)

(* An answer holds every row once.                                           *)
LEMMA AnswerHolds ==
  ASSUME NEW S, IsFiniteSet(S), NEW s \in SetToSeqs(S)
  PROVE  /\ \A i, j \in 1..Len(s) : i # j => s[i] # s[j]
         /\ \A x \in S : \E i \in 1..Len(s) : s[i] = x
         /\ Range(s) = S
<1>1. PICK n \in Nat : n = Cardinality(S)
  BY FS_CardinalityType
<1>2. s \in [1..n -> S] /\ \A i, j \in 1..n : i # j => s[i] # s[j]
  BY <1>1 DEF SetToSeqs
<1>3. Len(s) = n /\ DOMAIN s = 1..n
  BY <1>2
<1>4. s \in Injection(1..n, S)
  BY <1>2 DEF Injection, IsInjective
<1>5. IsFiniteSet(1..n) /\ Cardinality(1..n) = n
  <2>1. Cardinality(1..n) = (IF 1 > n THEN 0 ELSE n - 1 + 1) /\ IsFiniteSet(1..n)
    BY FS_Interval
  <2> QED
    BY <2>1
<1>6. s \in Surjection(1..n, S)
  BY <1>1, <1>4, <1>5, FS_Injection
<1>7. \A x \in S : \E i \in 1..n : s[i] = x
  BY <1>6 DEF Surjection
<1>8. Range(s) = S
  BY <1>2, <1>3, <1>7 DEF Range
<1> QED
  BY <1>2, <1>3, <1>7, <1>8

(* What is in order step by step is in order throughout.                     *)
LEMMA InOrder ==
  ASSUME NEW n \in Nat, NEW k \in [1..n -> Int], \A i \in 1..(n - 1) : k[i] >= k[i + 1],
         NEW i \in 1..n, NEW j \in 1..n, i < j
  PROVE  k[i] >= k[j]
<1> DEFINE T == {d \in Nat : i + d =< n => k[i] >= k[i + d]}
<1>1. 0 \in T
  OBVIOUS
<1>2. ASSUME NEW d \in T PROVE d + 1 \in T
  <2>1. SUFFICES ASSUME i + (d + 1) =< n PROVE k[i] >= k[i + (d + 1)]
    OBVIOUS
  <2>2. i + d \in 1..(n - 1) /\ i + d + 1 = i + (d + 1) /\ i + d =< n
    BY <2>1
  <2>3. k[i] >= k[i + d] /\ k[i + d] >= k[i + (d + 1)]
    BY <2>2
  <2>4. k[i] \in Int /\ k[i + d] \in Int /\ k[i + (d + 1)] \in Int
    BY <2>1, <2>2
  <2> QED
    BY <2>3, <2>4
<1>3. T = Nat
  <2>1. T \in SUBSET Nat
    OBVIOUS
  <2> HIDE DEF T
  <2> QED
    BY <1>1, <1>2, <2>1, InductNat
<1>4. j - i \in T /\ i + (j - i) = j
  <2>1. j - i \in Nat /\ i + (j - i) = j
    OBVIOUS
  <2> HIDE DEF T
  <2> QED
    BY <1>3, <2>1
<1> QED
  BY <1>4

(* A row that ties with no other has one place: after the better ones.       *)
LEMMA UniquePlace ==
  ASSUME NEW S, IsFiniteSet(S), NEW weigh \in [S -> Int],
         NEW s \in SetToSeqs(S), \A i \in 1..(Len(s) - 1) : weigh[s[i]] >= weigh[s[i + 1]],
         NEW p \in 1..Len(s), \A y \in S \ {s[p]} : weigh[y] # weigh[s[p]]
  PROVE  p = Cardinality({y \in S : weigh[y] > weigh[s[p]]}) + 1
<1>1. PICK n \in Nat : n = Len(s)
  BY AnswerIs
<1>2. s \in [1..n -> S] /\ p \in 1..n
  BY <1>1, AnswerIs
<1>3. \A i, j \in 1..n : i # j => s[i] # s[j]
  BY <1>1, AnswerHolds
<1>4. \A x \in S : \E i \in 1..n : s[i] = x
  BY <1>1, AnswerHolds
<1> DEFINE k == [l \in 1..n |-> weigh[s[l]]]
<1>5. k \in [1..n -> Int] /\ \A l \in 1..n : k[l] = weigh[s[l]]
  BY <1>2
<1>6. ASSUME NEW l \in 1..(n - 1) PROVE k[l] >= k[l + 1]
  <2>1. l \in 1..n /\ l + 1 \in 1..n /\ weigh[s[l]] >= weigh[s[l + 1]]
    BY <1>1
  <2> QED
    BY <2>1
<1> HIDE DEF k
<1> DEFINE A == {y \in S : weigh[y] > weigh[s[p]]}
<1>7. ASSUME NEW i \in 1..n PROVE s[i] \in A <=> i < p
  <2>1. k[i] \in Int /\ k[p] \in Int /\ k[i] = weigh[s[i]] /\ k[p] = weigh[s[p]] /\ s[i] \in S
    BY <1>2, <1>5
  <2>2. i # p => k[i] # k[p]
    BY <1>2, <1>3, <2>1
  <2>3. i < p => k[i] >= k[p]
    BY <1>2, <1>5, <1>6, InOrder
  <2>4. p < i => k[p] >= k[i]
    BY <1>2, <1>5, <1>6, InOrder
  <2>5. k[i] > k[p] <=> i < p
    BY <1>2, <2>1, <2>2, <2>3, <2>4
  <2> QED
    BY <2>1, <2>5
<1> HIDE DEF A
<1> DEFINE f == [i \in 1..(p - 1) |-> s[i]]
<1>8. f \in Bijection(1..(p - 1), A)
  <2>1. \A i \in 1..(p - 1) : i \in 1..n /\ i < p
    BY <1>2
  <2>2. f \in [1..(p - 1) -> A]
    BY <1>7, <2>1
  <2>3. \A i, j \in 1..(p - 1) : f[i] = f[j] => i = j
    BY <1>3, <2>1
  <2>4. ASSUME NEW x \in A PROVE \E i \in 1..(p - 1) : f[i] = x
    <3>1. x \in S
      BY DEF A
    <3>2. PICK i \in 1..n : s[i] = x
      BY <1>4, <3>1
    <3>3. i < p
      BY <1>7, <3>2
    <3>4. i \in 1..(p - 1)
      BY <1>2, <3>3
    <3> QED
      BY <3>2, <3>4
  <2> HIDE DEF f
  <2> QED
    BY <2>2, <2>3, <2>4 DEF Bijection, Injection, Surjection, IsInjective
<1> HIDE DEF f
<1>9. IsFiniteSet(1..(p - 1)) /\ Cardinality(1..(p - 1)) = p - 1
  <2>1. p - 1 \in Int /\ p \in Nat \ {0}
    BY <1>2
  <2>2. /\ Cardinality(1..(p - 1)) = (IF 1 > p - 1 THEN 0 ELSE (p - 1) - 1 + 1)
        /\ IsFiniteSet(1..(p - 1))
    BY <2>1, FS_Interval
  <2> QED
    BY <2>1, <2>2
<1>10. Cardinality(A) = p - 1
  <2>1. ExistsBijection(1..(p - 1), A)
    BY <1>8 DEF ExistsBijection
  <2> QED
    BY <1>9, <2>1, FS_Bijection
<1>11. p = Cardinality(A) + 1
  BY <1>2, <1>10
<1> QED
  BY <1>11 DEF A

(* The first n of a sequence.                                                *)
LEMMA FirstAre ==
  ASSUME NEW S, NEW s \in Seq(S), NEW n \in Nat
  PROVE  /\ firstOf(s, n) \in Seq(S)
         /\ Len(firstOf(s, n)) = IF Len(s) < n THEN Len(s) ELSE n
         /\ \A i \in 1..Len(firstOf(s, n)) : firstOf(s, n)[i] = s[i]
<1>1. PICK k \in Nat : k = (IF Len(s) < n THEN Len(s) ELSE n) /\ k <= Len(s)
  OBVIOUS
<1>2. firstOf(s, n) = SubSeq(s, 1, k)
  BY <1>1 DEF firstOf
<1>3. \A i \in 1..k : s[i] \in S
  BY <1>1
<1>4. /\ SubSeq(s, 1, k) \in Seq(S)
      /\ Len(SubSeq(s, 1, k)) = (IF 1 <= k THEN k - 1 + 1 ELSE 0)
      /\ \A i \in 1..(k - 1 + 1) : SubSeq(s, 1, k)[i] = s[1 + i - 1]
  BY <1>3, SubSeqProperties
<1>5. Len(SubSeq(s, 1, k)) = k /\ k - 1 + 1 = k /\ \A i \in 1..k : 1 + i - 1 = i
  BY <1>1, <1>4
<1>6. \A i \in 1..k : SubSeq(s, 1, k)[i] = s[i]
  BY <1>4, <1>5
<1> QED
  BY <1>1, <1>2, <1>4, <1>5, <1>6

(* Sequences that agree everywhere are equal.                                *)
LEMMA SameSequence ==
  ASSUME NEW S, NEW s \in Seq(S), NEW t \in Seq(S), Len(s) = Len(t), \A i \in 1..Len(s) : s[i] = t[i]
  PROVE  s = t
  BY SeqEqual

(* The first of at least as many as there are.                               *)
LEMMA FirstAll ==
  ASSUME NEW S, NEW s \in Seq(S), NEW n \in Nat, Len(s) <= n
  PROVE  firstOf(s, n) = s
<1>1. /\ firstOf(s, n) \in Seq(S) /\ Len(firstOf(s, n)) = (IF Len(s) < n THEN Len(s) ELSE n)
      /\ \A i \in 1..Len(firstOf(s, n)) : firstOf(s, n)[i] = s[i]
  BY FirstAre
<1>2. Len(firstOf(s, n)) = Len(s)
  BY <1>1
<1> QED
  BY <1>1, <1>2, SameSequence

(* A page of a sequence: what comes after the pages before.                  *)
LEMMA PageIs ==
  ASSUME NEW S, NEW s \in Seq(S), NEW page \in Nat \ {0}
  PROVE  /\ offset(page) \in Nat /\ offset(page) + PageSize = page * PageSize
         /\ page * PageSize \in Nat \ {0} /\ (page - 1) * PageSize = offset(page)
         /\ PageOf(s, page) \in Seq(S)
         /\ Len(PageOf(s, page)) = IF Len(s) <= offset(page) THEN 0
                                   ELSE IF Len(s) < page * PageSize THEN Len(s) - offset(page) ELSE PageSize
         /\ \A i \in 1..Len(PageOf(s, page)) : PageOf(s, page)[i] = s[offset(page) + i]
<1>1. PICK k \in Nat \ {0} : k = PageSize
  BY DiscoveryAssumption DEF DiscoveryAssumption
<1>2. PICK o \in Nat : o = offset(page) /\ o + k = page * k /\ page * k \in Nat \ {0}
  <2>1. \A p, l \in Nat \ {0} : (p - 1) * l \in Nat /\ (p - 1) * l + l = p * l /\ p * l \in Nat \ {0}
    OBVIOUS
  <2> QED
    BY <1>1, <2>1 DEF offset
<1>3. PICK n \in Nat : n = (IF Len(s) < o + k THEN Len(s) ELSE o + k) /\ n <= Len(s)
  BY <1>1, <1>2
<1>4. PageOf(s, page) = SubSeq(s, o + 1, n)
  BY <1>1, <1>2, <1>3 DEF PageOf
<1>5. \A i \in (o + 1)..n : s[i] \in S
  BY <1>2, <1>3
<1>6. /\ SubSeq(s, o + 1, n) \in Seq(S)
      /\ Len(SubSeq(s, o + 1, n)) = (IF o + 1 <= n THEN n - (o + 1) + 1 ELSE 0)
      /\ \A i \in 1..(n - (o + 1) + 1) : SubSeq(s, o + 1, n)[i] = s[(o + 1) + i - 1]
  BY <1>5, SubSeqProperties
<1>7. n - (o + 1) + 1 = n - o /\ \A i \in Int : (o + 1) + i - 1 = o + i
  OBVIOUS
<1>8. Len(SubSeq(s, o + 1, n)) = IF Len(s) <= o THEN 0 ELSE IF Len(s) < o + k THEN Len(s) - o ELSE k
  <2>1. PICK m \in Nat : m = Len(s)
    OBVIOUS
  <2>2. n = (IF m < o + k THEN m ELSE o + k)
    BY <1>3, <2>1
  <2>3. (IF o + 1 <= n THEN n - (o + 1) + 1 ELSE 0) = IF m <= o THEN 0 ELSE IF m < o + k THEN m - o ELSE k
    BY <1>1, <1>2, <1>3, <2>2
  <2> QED
    BY <1>6, <2>1, <2>3
<1>9. ASSUME NEW i \in 1..Len(SubSeq(s, o + 1, n)) PROVE SubSeq(s, o + 1, n)[i] = s[o + i]
  <2>1. i \in 1..(n - (o + 1) + 1) /\ i \in Int
    BY <1>2, <1>3, <1>6, <1>9
  <2> QED
    BY <1>6, <1>7, <2>1
<1>10. (page - 1) * PageSize = offset(page)
  BY DEF offset
<1> QED
  BY <1>1, <1>2, <1>4, <1>6, <1>8, <1>9, <1>10

(* So is what the search leaves of its best page * pageSize.                 *)
LEMMA WindowPage ==
  ASSUME NEW S, NEW s \in Seq(S), NEW page \in Nat \ {0}, Len(s) <= CandidateLimit,
         NEW n \in Nat, n = IF page * PageSize < CandidateLimit THEN page * PageSize ELSE CandidateLimit
  PROVE  SubSeq(firstOf(s, n), offset(page) + 1, Len(firstOf(s, n))) = PageOf(s, page)
<1> DEFINE o == offset(page)
           e == page * PageSize
           w == firstOf(s, n)
           b == PageOf(s, page)
<1>1. PICK k \in Nat \ {0} : k = PageSize /\ o \in Nat /\ e = o + k
  BY PageIs, DiscoveryAssumption DEF DiscoveryAssumption
<1>2. /\ b \in Seq(S) /\ \A i \in 1..Len(b) : b[i] = s[o + i]
      /\ Len(b) = IF Len(s) <= o THEN 0 ELSE IF Len(s) < e THEN Len(s) - o ELSE k
  BY <1>1, PageIs
<1>3. /\ w \in Seq(S) /\ Len(w) = (IF Len(s) < n THEN Len(s) ELSE n)
      /\ \A i \in 1..Len(w) : w[i] = s[i]
  BY FirstAre
<1>4. n = (IF e < CandidateLimit THEN e ELSE CandidateLimit) /\ CandidateLimit \in Nat
  BY LimitsAre
<1> HIDE DEF o, e, b, w
<1>5. PICK m \in Nat, l \in Nat : m = Len(s) /\ l = Len(w) /\ l = IF m < e THEN m ELSE e
  <2>1. Len(s) \in Nat /\ Len(w) \in Nat
    BY <1>3
  <2> QED
    BY <1>1, <1>3, <1>4, <2>1
<1>6. \A i \in (o + 1)..l : w[i] \in S
  BY <1>1, <1>3, <1>5
<1> DEFINE q == SubSeq(w, o + 1, l)
<1>7. /\ q \in Seq(S)
      /\ Len(q) = (IF o + 1 <= l THEN l - (o + 1) + 1 ELSE 0)
      /\ \A i \in 1..(l - (o + 1) + 1) : q[i] = w[(o + 1) + i - 1]
  BY <1>1, <1>6, SubSeqProperties
<1> HIDE DEF q
<1>8. Len(q) = Len(b)
  BY <1>1, <1>2, <1>5, <1>7
<1>9. ASSUME NEW i \in 1..Len(q) PROVE q[i] = b[i]
  <2>1. i \in 1..(l - (o + 1) + 1) /\ (o + 1) + i - 1 = o + i /\ o + i \in 1..Len(w)
    BY <1>1, <1>5, <1>7, <1>9
  <2>2. q[i] = w[o + i] /\ w[o + i] = s[o + i]
    BY <1>3, <1>7, <2>1
  <2> QED
    BY <1>2, <1>8, <2>2
<1>10. q = b
  BY <1>2, <1>7, <1>8, <1>9, SameSequence
<1> QED
  BY <1>5, <1>10 DEF q, w, o, b

(* The pool is part of what may be shown.                                    *)
LEMMA PoolIs ==
  ASSUME DiscoveryTypes
  PROVE  /\ pool \subseteq eligible /\ pool \subseteq apiIds
         /\ IsFiniteSet(pool) /\ Cardinality(pool) \in Nat
<1>1. pool \subseteq eligible
  BY DEF pool, eligible, byName, anyWord, allWords
<1>2. IsFiniteSet(pool) /\ eligible \subseteq apiIds
  BY <1>1, EligibleIs
<1> QED
  BY <1>1, <1>2, FS_CardinalityType

(* A text rank is at most the number of words.                               *)
LEMMA TextRankIs ==
  ASSUME DiscoveryTypes
  PROVE  /\ IsFiniteSet(terms) /\ Cardinality(terms) \in Nat
         /\ \A id \in apiIds : textRank(id, terms) \in 0..Cardinality(terms)
<1>1. IsFiniteSet(url.filters.q)
  <2>1. url.filters.q \in SearchTexts \cup {{}}
    BY DEF DiscoveryTypes, FilterSets
  <2>2. IsFiniteSet({})
    BY FS_EmptySet
  <2> QED
    BY <2>1, <2>2, DiscoveryAssumption DEF DiscoveryAssumption
<1>2. terms \subseteq url.filters.q
  BY DEF terms, parseQuery
<1>3. IsFiniteSet(terms) /\ Cardinality(terms) \in Nat
  BY <1>1, <1>2, FS_Subset, FS_CardinalityType
<1>4. ASSUME NEW id \in apiIds PROVE textRank(id, terms) \in 0..Cardinality(terms)
  <2>1. PICK S : S = terms \cap Rows[id].text
    OBVIOUS
  <2>2. S \in SUBSET terms
    BY <2>1
  <2>3. IsFiniteSet(S) /\ Cardinality(S) <= Cardinality(terms)
    BY <1>3, <2>2, FS_Subset
  <2>4. Cardinality(S) \in Nat
    BY <2>3, FS_CardinalityType
  <2> QED
    BY <1>3, <2>1, <2>3, <2>4 DEF textRank
<1> QED
  BY <1>3, <1>4

(* The best of them is one of them.                                          *)
LEMMA HighestIs ==
  ASSUME DiscoveryTypes, pool # {}
  PROVE  highest(poolRanks) \in Nat
<1>1. PICK n \in Nat : n = Cardinality(terms)
  BY TextRankIs
<1>2. poolRanks \subseteq 0..n /\ poolRanks # {}
  BY <1>1, TextRankIs, PoolIs DEF poolRanks
<1> DEFINE T == {n - r : r \in poolRanks}
<1>3. T \in SUBSET Nat /\ T # {}
  <2>1. \A r \in 0..n : n - r \in Nat
    OBVIOUS
  <2>2. \A r \in poolRanks : n - r \in Nat
    BY <1>2, <2>1
  <2>3. PICK r \in poolRanks : TRUE
    BY <1>2
  <2>4. n - r \in T
    OBVIOUS
  <2>5. T \subseteq Nat
    BY <2>2
  <2> QED
    BY <2>4, <2>5
<1>4. PICK x \in T : \A y \in T : x <= y
  BY <1>3, SmallestOf
<1>5. PICK r \in poolRanks : x = n - r
  BY <1>4
<1>6. ASSUME NEW s \in poolRanks PROVE r >= s
  <2>1. n - s \in T /\ s \in 0..n /\ r \in 0..n
    BY <1>2
  <2>2. n - r <= n - s
    BY <1>4, <1>5, <2>1
  <2> QED
    BY <2>1, <2>2
<1>7. highest(poolRanks) \in poolRanks
  BY <1>6 DEF highest
<1> HIDE DEF T
<1>8. PICK h \in 0..n : h = highest(poolRanks)
  BY <1>2, <1>7
<1> QED
  BY <1>8

(* Scores are numbers.                                                       *)
LEMMA ScoresAre ==
  ASSUME DiscoveryTypes
  PROVE  scores \in [pool -> Int]
<1> SUFFICES ASSUME NEW id \in pool PROVE scoreOf(id) \in Int
  BY DEF scores
<1>1. id \in apiIds /\ IsFiniteSet(apiIds)
  BY PoolIs, EligibleIs
<1>2. PICK p \in Nat : p = Rows[id].popularity
  BY <1>1, DiscoveryAssumption DEF DiscoveryAssumption, apiIds
<1>3. PICK t \in Nat : t = freeTierScore(id)
  BY DEF freeTierScore
<1>4. browseScore(id) \in Int
  BY <1>2, <1>3 DEF browseScore
<1>5. orderBy(url.filters.sort, id) \in Int
  <2>1. PICK c, m \in Nat : c = Rows[id].created /\ m = Rows[id].title
    BY <1>1, DiscoveryAssumption DEF DiscoveryAssumption, apiIds
  <2>2. PICK u \in Int, k \in Nat : u = Rows[id].reliability /\ k = KeySpan
    BY <1>1, DiscoveryAssumption DEF DiscoveryAssumption, apiIds
  <2>3. -m \in Int /\ u * k + p \in Int /\ p * k - m \in Int
    OBVIOUS
  <2>4. orderBy(url.filters.sort, id) \in {-m, c, u * k + p, p, p * k - m}
    BY <1>2, <2>1, <2>2 DEF orderBy, popularity
  <2> QED
    BY <2>3, <2>4
<1>6. PICK b \in Nat : b = highest(poolRanks)
  BY HighestIs
<1>7. lexicalScore(id, terms, b) \in Int
  <2>1. PICK k \in Nat : k = textRank(id, terms)
    BY <1>1, TextRankIs
  <2>2. (IF b = 0 THEN 0 ELSE (10 * k) \div b) \in Int
    OBVIOUS
  <2>3. PICK d \in Int : d = IF b = 0 THEN 0 ELSE (10 * textRank(id, terms)) \div b
    BY <2>1, <2>2
  <2>4. 45 * d + 15 * p + 15 * 5 + 10 * t \in Int
    BY <1>2, <1>3, <2>3
  <2> QED
    BY <1>2, <1>3, <2>3, <2>4 DEF lexicalScore
<1> QED
  BY <1>4, <1>5, <1>6, <1>7 DEF scoreOf, rankOf, poolRanks

(* A list is not cut.                                                        *)
LEMMA ListUncut == ~isSearch => uncut
  BY DEF uncut

(* The pool stays while neither the filters nor the catalogue change.        *)
LEMMA SamePool ==
  ASSUME UNCHANGED <<active, up>>, url'.filters = url.filters
  PROVE  /\ pool' = pool /\ uncut' = uncut /\ scores' = scores /\ Rankings' = Rankings
         /\ isSearch' = isSearch /\ terms' = terms /\ broadens' = broadens /\ rescues' = rescues
<1>1. isSearch' = isSearch /\ terms' = terms /\ listFilters' = listFilters
  BY SameEligible DEF listFilters
<1>2. wanted' = wanted
  BY DEF wanted, specificationsFor, healthStatusSpecification
<1>3. specificationsFor(listFilters)' = specificationsFor(listFilters)
  BY <1>1 DEF specificationsFor, healthStatusSpecification
<1>4. allWords' = allWords /\ anyWord' = anyWord /\ byName' = byName
  BY <1>1, <1>2 DEF allWords, anyWord, byName
<1>5. broadens' = broadens
  BY <1>1, <1>4 DEF broadens
<1>6. rescues' = rescues
  BY <1>1, <1>4, <1>5 DEF rescues
<1>7. pool' = pool
  BY <1>1, <1>2, <1>3, <1>4, <1>5, <1>6 DEF pool
<1>8. poolLimit' = poolLimit
  BY <1>1, <1>6 DEF poolLimit
<1>9. uncut' = uncut
  BY <1>1, <1>7, <1>8 DEF uncut
<1>11. scores' = scores
  BY <1>1, <1>7 DEF scores, scoreOf
<1>13. Rankings' = Rankings
  BY <1>7, <1>11 DEF Rankings
<1> QED
  BY <1>1, <1>5, <1>6, <1>7, <1>9, <1>11, <1>13

(* So does what is known of the walk.                                        *)
LEMMA WalkKept ==
  ASSUME UNCHANGED <<active, up, url, shown>>, NEW step, NEW ids, NEW total, NEW fixed,
         WalkAt(step, ids, total, fixed)
  PROVE  WalkAt(step, ids, total, fixed)'
<1>1. /\ pool' = pool /\ uncut' = uncut /\ scores' = scores /\ Rankings' = Rankings
      /\ isSearch' = isSearch /\ terms' = terms /\ broadens' = broadens /\ rescues' = rescues
  BY SamePool
<1> QED
  BY <1>1 DEF WalkAt, PageOf, Placed

(* A step of the rendering that stays on the walk.                           *)
LEMMA WalkMoves ==
  ASSUME UNCHANGED <<active, up, url, shown, changes>>, NEW step, NEW ids, NEW total, NEW fixed,
         render'.step = step, render'.found = ids, render'.total = total, render'.fixed = fixed,
         changes.since = 0 => WalkAt(step, ids, total, fixed)
  PROVE  WalkInv'
<1>1. changes'.since = 0 => WalkAt(step, ids, total, fixed)'
  BY WalkKept
<1> QED
  BY <1>1 DEF WalkInv

(* A ranking is a sequence of the whole pool.                                *)
LEMMA RankingIs ==
  ASSUME DiscoveryTypes, NEW s \in Rankings
  PROVE  /\ s \in SetToSeqs(pool) /\ s \in Seq(pool) /\ Len(s) = Cardinality(pool)
         /\ \A i \in 1..(Len(s) - 1) : scores[s[i]] >= scores[s[i + 1]]
  BY PoolIs, AnswerIs DEF Rankings

(* The pages before and the page are the pages so far.                       *)
LEMMA PlacedGrows ==
  ASSUME DiscoveryTypes, NEW t \in Rankings, NEW page \in Nat \ {0}, NEW S, NEW seen \in Seq(S),
         Placed(seen, (page - 1) * PageSize)
  PROVE  Placed(seen \o PageOf(t, page), page * PageSize)
<1> DEFINE o == offset(page)
           e == page * PageSize
           b == PageOf(t, page)
<1>1. PICK n \in Nat : n = Cardinality(pool) /\ t \in Seq(pool) /\ Len(t) = n
  BY RankingIs, PoolIs
<1>2. PICK k \in Nat \ {0} : k = PageSize /\ o \in Nat /\ e = o + k /\ (page - 1) * PageSize = o
  BY <1>1, PageIs, DiscoveryAssumption DEF DiscoveryAssumption
<1>3. /\ b \in Seq(pool) /\ \A i \in 1..Len(b) : b[i] = t[o + i]
      /\ Len(b) = IF n <= o THEN 0 ELSE IF n < e THEN n - o ELSE k
  <2> DEFINE Shape(c, d, z) == IF Len(t) <= c THEN 0 ELSE IF Len(t) < z THEN Len(t) - c ELSE d
  <2>1. /\ b \in Seq(pool) /\ \A i \in 1..Len(b) : b[i] = t[offset(page) + i]
        /\ Len(b) = Shape(offset(page), PageSize, page * PageSize)
    BY <1>1, PageIs
  <2> QED
    BY <1>1, <1>2, <2>1
<1> HIDE DEF o, e, b
<1>4. PICK x, y \in Nat : x = Len(seen) /\ y = Len(b)
  BY <1>3
<1>5. x = (IF n < o THEN n ELSE o) /\ \A i \in 1..x : \E s \in Rankings : seen[i] = s[i]
  BY <1>1, <1>2, <1>4 DEF Placed
<1>6. /\ Len(seen \o b) = x + y
      /\ \A i \in 1..(x + y) : (seen \o b)[i] = IF i <= x THEN seen[i] ELSE b[i - x]
  <2>1. seen \in Seq(S \cup pool) /\ b \in Seq(S \cup pool)
    BY <1>3
  <2>2. /\ Len(seen \o b) = Len(seen) + Len(b)
        /\ \A i \in 1..Len(seen) + Len(b) : (seen \o b)[i] = IF i <= Len(seen) THEN seen[i] ELSE b[i - Len(seen)]
    BY <2>1, ConcatProperties
  <2> QED
    BY <1>4, <2>2
<1>7. x + y = (IF n < e THEN n ELSE e) /\ (x = o \/ y = 0)
  BY <1>2, <1>3, <1>4, <1>5
<1>8. ASSUME NEW i \in 1..(x + y) PROVE \E s \in Rankings : (seen \o b)[i] = s[i]
  <2>1. CASE i <= x
    <3>1. i \in 1..x
      BY <2>1
    <3> QED
      BY <1>5, <1>6, <2>1, <3>1
  <2>2. CASE ~(i <= x)
    <3>1. i - x \in 1..y
      BY <2>2
    <3>2. x = o
      BY <1>7, <3>1
    <3>3. o + (i - x) = i
      BY <1>2, <3>1, <3>2
    <3>4. b[i - x] = t[i]
      BY <1>3, <1>4, <3>1, <3>3
    <3> QED
      BY <1>6, <2>2, <3>4
  <2> QED
    BY <2>1, <2>2
<1>9. Placed(seen \o b, e)
  BY <1>1, <1>6, <1>7, <1>8 DEF Placed
<1> QED
  BY <1>9 DEF b, e

(* Before its page is shown, a rendering that is not yet searching has the   *)
(* pages before it.                                                          *)
LEMMA ListCountWalks ==
  ASSUME DiscoveryInv, WalkInv, listCounts
  PROVE  WalkInv'
<1>1. /\ render.step \in {"start", "rows"} /\ ~isSearch
      /\ Renders([render EXCEPT !.total = Cardinality(specificationsFor(listFilters)),
                                !.step = IF render.step = "start" THEN "counted" ELSE "hydrate"])
  BY DEF listCounts
<1>2. pool = specificationsFor(listFilters) /\ DiscoveryTypes /\ uncut
  BY <1>1, ListUncut DEF pool, DiscoveryInv
<1>3. PICK step : step = IF render.step = "start" THEN "counted" ELSE "hydrate"
  OBVIOUS
<1>4. PICK total : total = Cardinality(pool)
  OBVIOUS
<1>5. /\ render' = [render EXCEPT !.total = total, !.step = step]
      /\ UNCHANGED <<active, up, url, shown, changes>>
  <2>1. Renders([render EXCEPT !.total = total, !.step = step])
    BY <1>1, <1>2, <1>3, <1>4
  <2> QED
    BY <2>1, RendersIs
<1>6. PICK was, ids, fixed : was = render.step /\ ids = render.found /\ fixed = render.fixed
  OBVIOUS
<1>7. render'.step = step /\ render'.found = ids /\ render'.total = total /\ render'.fixed = fixed
  <2>1. render \in RenderStates
    BY <1>2 DEF DiscoveryTypes
  <2> QED
    BY <1>5, <1>6, <2>1 DEF RenderStates
<1>8. ASSUME changes.since = 0 PROVE WalkAt(step, ids, total, fixed)
  <2>1. PICK count : count = render.total
    OBVIOUS
  <2>2. WalkAt(was, ids, count, fixed)
    BY <1>6, <1>8, <2>1 DEF WalkInv
  <2>3. (was = "start" /\ step = "counted") \/ (was = "rows" /\ step = "hydrate")
    BY <1>1, <1>3, <1>6
  <2>4. uncut => Placed(shown, (url.page - 1) * PageSize)
    BY <2>2, <2>3 DEF WalkAt
  <2>5. step = "hydrate" => \E s \in Rankings : ids = PageOf(s, url.page)
    BY <1>2, <2>2, <2>3 DEF WalkAt
  <2> QED
    BY <1>2, <1>4, <2>3, <2>4, <2>5 DEF WalkAt
<1> QED
  BY <1>5, <1>7, <1>8, WalkMoves

(* A page of the list is a page of one of its rankings.                      *)
LEMMA ListReadWalks ==
  ASSUME DiscoveryInv, WalkInv, listRows
  PROVE  WalkInv'
<1>1. /\ render.step \in {"start", "counted"} /\ ~isSearch
      /\ pool = specificationsFor(listFilters) /\ DiscoveryTypes /\ uncut
  BY ListUncut DEF listRows, pool, DiscoveryInv
<1>2. PICK s \in ordered(pool, LAMBDA id : orderBy(url.filters.sort, id)) :
        Renders([render EXCEPT !.found = SubSeq(s, offset(url.page) + 1,
                                                IF Len(s) < offset(url.page) + PageSize THEN Len(s)
                                                ELSE offset(url.page) + PageSize),
                               !.step = IF render.step = "start" THEN "rows" ELSE "hydrate"])
  BY <1>1 DEF listRows
<1>3. s \in Rankings
  <2>1. /\ s \in SetToSeqs(pool)
        /\ \A i \in 1..(Len(s) - 1) : orderBy(url.filters.sort, s[i]) >= orderBy(url.filters.sort, s[i + 1])
    BY <1>2 DEF ordered
  <2>2. IsFiniteSet(pool)
    BY <1>1, PoolIs
  <2>3. s \in Seq(pool) /\ Len(s) \in Nat
    BY <2>1, <2>2, AnswerIs
  <2>4. \A x \in pool : scores[x] = orderBy(url.filters.sort, x)
    BY <1>1 DEF scores, scoreOf
  <2>5. ASSUME NEW i \in 1..(Len(s) - 1) PROVE scores[s[i]] >= scores[s[i + 1]]
    <3>1. i \in 1..Len(s) /\ i + 1 \in 1..Len(s)
      BY <2>3
    <3>2. s[i] \in pool /\ s[i + 1] \in pool
      BY <2>3, <3>1
    <3> QED
      BY <2>1, <2>4, <3>2
  <2> QED
    BY <2>1, <2>5 DEF Rankings
<1>4. PICK step : step = IF render.step = "start" THEN "rows" ELSE "hydrate"
  OBVIOUS
<1>5. PICK ids : ids = PageOf(s, url.page)
  OBVIOUS
<1>6. /\ render' = [render EXCEPT !.found = ids, !.step = step]
      /\ UNCHANGED <<active, up, url, shown, changes>>
  <2>1. Renders([render EXCEPT !.found = ids, !.step = step])
    BY <1>2, <1>4, <1>5 DEF PageOf
  <2> QED
    BY <2>1, RendersIs
<1>7. PICK was, total, fixed : was = render.step /\ total = render.total /\ fixed = render.fixed
  OBVIOUS
<1>8. render'.step = step /\ render'.found = ids /\ render'.total = total /\ render'.fixed = fixed
  <2>1. render \in RenderStates
    BY <1>1 DEF DiscoveryTypes
  <2> QED
    BY <1>6, <1>7, <2>1 DEF RenderStates
<1>9. ASSUME changes.since = 0 PROVE WalkAt(step, ids, total, fixed)
  <2>1. PICK before : before = render.found
    OBVIOUS
  <2>2. WalkAt(was, before, total, fixed)
    BY <1>7, <1>9, <2>1 DEF WalkInv
  <2>3. (was = "start" /\ step = "rows") \/ (was = "counted" /\ step = "hydrate")
    BY <1>1, <1>4, <1>7
  <2>4. uncut => Placed(shown, (url.page - 1) * PageSize)
    BY <2>2, <2>3 DEF WalkAt
  <2>5. step = "hydrate" => total = Cardinality(pool)
    BY <1>1, <2>2, <2>3 DEF WalkAt
  <2> QED
    BY <1>1, <1>3, <1>5, <2>3, <2>4, <2>5 DEF WalkAt
<1> QED
  BY <1>6, <1>8, <1>9, WalkMoves

(* A query of the search moves the walk on.                                  *)
LEMMA QueryWalks ==
  ASSUME DiscoveryInv, WalkInv, render.step \in {"start", "broaden", "rescue"}, NEW s, NEW limit \in Nat,
         Len(s) \in Nat, NEW step \in {"broaden", "rescue", "rank"}, Reads(s, limit, step), isSearch,
         step = "broaden" => terms # {} /\ broadens,
         step = "rescue" => terms # {} /\ rescues,
         step = "rank" => s \in SetToSeqs(pool) /\ limit = poolLimit
  PROVE  WalkInv'
<1>1. PICK fixed \in BOOLEAN : fixed = (Len(s) =< limit)
  <2>1. (Len(s) =< limit) \in BOOLEAN
    OBVIOUS
  <2> QED
    BY <2>1, Zenon
<1>2. PICK ids, total : ids = firstOf(s, limit) /\ total = render.total
  OBVIOUS
<1>3. /\ render' = [render EXCEPT !.found = ids, !.fixed = fixed, !.step = step]
      /\ UNCHANGED <<active, up, url, shown, changes>>
  <2>1. Renders([render EXCEPT !.found = ids, !.fixed = fixed, !.step = step])
    BY <1>1, <1>2 DEF Reads
  <2> QED
    BY <2>1, RendersIs
<1>4. render'.step = step /\ render'.found = ids /\ render'.total = total /\ render'.fixed = fixed
  <2>1. render \in RenderStates
    BY DEF DiscoveryInv, DiscoveryTypes
  <2> QED
    BY <1>2, <1>3, <2>1 DEF RenderStates
<1>5. ASSUME changes.since = 0 PROVE WalkAt(step, ids, total, fixed)
  <2>1. PICK was, before, wasFixed : was = render.step /\ before = render.found /\ wasFixed = render.fixed
    OBVIOUS
  <2>2. WalkAt(was, before, total, wasFixed)
    BY <1>2, <1>5, <2>1 DEF WalkInv
  <2>3. uncut => Placed(shown, (url.page - 1) * PageSize)
    BY <2>1, <2>2 DEF WalkAt
  <2>4. ASSUME step = "rank" PROVE (fixed => uncut) /\ (uncut => ids \in SetToSeqs(pool))
    <3>1. IsFiniteSet(pool) /\ s \in SetToSeqs(pool) /\ limit = poolLimit
      BY <2>4, PoolIs DEF DiscoveryInv
    <3>2. Len(s) = Cardinality(pool) /\ s \in Seq(pool)
      BY <3>1, AnswerIs
    <3>3. uncut <=> Len(s) =< limit
      BY <3>1, <3>2 DEF uncut
    <3>4. Len(s) =< limit => firstOf(s, limit) = s
      BY <3>2, FirstAll
    <3> QED
      BY <1>1, <1>2, <3>1, <3>3, <3>4
  <2>5. CASE step = "rank"
    BY <2>3, <2>4, <2>5 DEF WalkAt
  <2>6. CASE step = "broaden"
    BY <2>3, <2>6 DEF WalkAt
  <2>7. CASE step = "rescue"
    BY <2>3, <2>7 DEF WalkAt
  <2> QED
    BY <2>5, <2>6, <2>7
<1> QED
  BY <1>3, <1>4, <1>5, WalkMoves

(* The first query.                                                          *)
LEMMA CandidatesWalk ==
  ASSUME DiscoveryInv, WalkInv, findCandidates
  PROVE  WalkInv'
<1>1. isSearch /\ render.step = "start" /\ CandidateLimit \in Nat /\ DiscoveryTypes
  BY LimitsAre DEF findCandidates, DiscoveryInv
<1>2. CASE terms = {}
  <2>1. PICK s \in SetToSeqs(wanted) : Reads(s, CandidateLimit, "rank")
    BY <1>2 DEF findCandidates, ordered
  <2>2. pool = wanted /\ poolLimit = CandidateLimit
    BY <1>1, <1>2 DEF pool, poolLimit
  <2>3. s \in SetToSeqs(pool) /\ Len(s) \in Nat
    <3>1. IsFiniteSet(pool)
      BY <1>1, PoolIs
    <3> QED
      BY <2>1, <2>2, <3>1, AnswerIs
  <2> QED
    BY <1>1, <2>1, <2>2, <2>3, QueryWalks
<1>3. CASE terms # {}
  <2>1. PICK s \in SetToSeqs(allWords) :
          Reads(s, CandidateLimit,
                CASE Len(s) < BroadenThreshold /\ Cardinality(terms) > 1 -> "broaden"
                  [] Len(s) = 0 /\ Cardinality(terms) <= 1 -> "rescue"
                  [] OTHER -> "rank")
    BY <1>3 DEF findCandidates, ordered, allWords
  <2>2. Len(s) = Cardinality(allWords) /\ Len(s) \in Nat
    <3>1. allWords \in SUBSET eligible
      BY <1>1 DEF allWords, eligible
    <3>2. IsFiniteSet(allWords)
      BY <1>1, <3>1, EligibleIs
    <3> QED
      BY <2>1, <3>2, AnswerIs
  <2>3. PICK step \in {"broaden", "rescue", "rank"} :
          /\ step = CASE Len(s) < BroadenThreshold /\ Cardinality(terms) > 1 -> "broaden"
                      [] Len(s) = 0 /\ Cardinality(terms) <= 1 -> "rescue"
                      [] OTHER -> "rank"
          /\ step = "broaden" <=> Len(s) < BroadenThreshold /\ Cardinality(terms) > 1
          /\ step = "rescue" <=> ~(step = "broaden") /\ Len(s) = 0 /\ Cardinality(terms) <= 1
    <3>1. Cardinality(terms) \in Nat
      BY <1>1, TextRankIs
    <3>2. ~(Cardinality(terms) > 1 /\ Cardinality(terms) <= 1)
      BY <3>1
    <3>3. CASE Len(s) < BroadenThreshold /\ Cardinality(terms) > 1
      BY <3>2, <3>3
    <3>4. CASE ~(Len(s) < BroadenThreshold /\ Cardinality(terms) > 1) /\ Len(s) = 0 /\ Cardinality(terms) <= 1
      BY <3>4
    <3>5. CASE /\ ~(Len(s) < BroadenThreshold /\ Cardinality(terms) > 1)
               /\ ~(Len(s) = 0 /\ Cardinality(terms) <= 1)
      BY <3>5
    <3> QED
      BY <3>3, <3>4, <3>5
  <2>4. (step = "broaden" <=> broadens) /\ (step = "rescue" <=> ~broadens /\ rescues)
    BY <2>2, <2>3 DEF broadens, rescues
  <2>5. step = "rank" => pool = allWords /\ poolLimit = CandidateLimit
    BY <1>1, <1>3, <2>4 DEF pool, poolLimit
  <2>6. Reads(s, CandidateLimit, step)
    BY <2>1, <2>3
  <2> QED
    BY <1>1, <1>3, <2>1, <2>2, <2>4, <2>5, <2>6, QueryWalks
<1> QED
  BY <1>2, <1>3

(* Where a search tries another way.                                         *)
LEMMA TryingAt ==
  ASSUME WalkInv, changes.since = 0
  PROVE  /\ render.step = "broaden" => isSearch /\ terms # {} /\ broadens
         /\ render.step = "rescue" => isSearch /\ terms # {} /\ rescues
<1>1. PICK step, ids, total, fixed : step = render.step /\ ids = render.found /\ total = render.total
                                     /\ fixed = render.fixed
  OBVIOUS
<1>2. WalkAt(step, ids, total, fixed)
  BY <1>1 DEF WalkInv
<1> QED
  BY <1>1, <1>2 DEF WalkAt

(* After a change the walk is over.                                          *)
LEMMA WalkOver ==
  ASSUME changes'.since # 0
  PROVE  WalkInv'
  BY DEF WalkInv

(* The second query.                                                         *)
LEMMA BroadenWalks ==
  ASSUME DiscoveryInv, WalkInv, broaden
  PROVE  WalkInv'
<1>0. CASE changes.since # 0
  <2>1. UNCHANGED changes
    BY DEF broaden, Reads, Renders
  <2> QED
    BY <1>0, <2>1, WalkOver
<1>a. CASE changes.since = 0
  <2>1. isSearch /\ terms # {} /\ broadens /\ DiscoveryTypes /\ CandidateLimit \in Nat
    BY <1>a, TryingAt, LimitsAre DEF broaden, DiscoveryInv
  <2>2. PICK s \in SetToSeqs(anyWord) : Reads(s, CandidateLimit, IF s = <<>> THEN "rescue" ELSE "rank")
    BY DEF broaden, ordered, anyWord
  <2>3. Len(s) \in Nat /\ (s = <<>> <=> anyWord = {})
    <3>1. anyWord \in SUBSET eligible
      BY <2>1 DEF anyWord, eligible
    <3>2. IsFiniteSet(anyWord)
      BY <2>1, <3>1, EligibleIs
    <3>3. s \in Seq(anyWord) /\ Len(s) \in Nat /\ (anyWord # {} <=> Len(s) > 0)
      BY <2>2, <3>2, AnswerIs
    <3>4. s = <<>> <=> Len(s) = 0
      BY <3>3
    <3> QED
      BY <3>3, <3>4
  <2>4. PICK step \in {"rescue", "rank"} : step = (IF s = <<>> THEN "rescue" ELSE "rank")
                                           /\ (step = "rescue" <=> anyWord = {})
    BY <2>3
  <2>5. step = "rescue" <=> rescues
    BY <2>1, <2>4 DEF rescues
  <2>6. step = "rank" => pool = anyWord /\ poolLimit = CandidateLimit
    BY <2>1, <2>4, <2>5 DEF pool, poolLimit
  <2>7. Reads(s, CandidateLimit, step) /\ render.step = "broaden"
    BY <2>2, <2>4 DEF broaden
  <2> QED
    BY <2>1, <2>2, <2>3, <2>4, <2>5, <2>6, <2>7, QueryWalks
<1> QED
  BY <1>0, <1>a

(* The third query.                                                          *)
LEMMA RescueWalks ==
  ASSUME DiscoveryInv, WalkInv, rescue
  PROVE  WalkInv'
<1>0. CASE changes.since # 0
  <2>1. UNCHANGED changes
    BY DEF rescue, Reads, Renders
  <2> QED
    BY <1>0, <2>1, WalkOver
<1>a. CASE changes.since = 0
  <2>1. isSearch /\ terms # {} /\ rescues /\ DiscoveryTypes /\ RescueLimit \in Nat
    BY <1>a, TryingAt, LimitsAre DEF rescue, DiscoveryInv
  <2>2. pool = byName /\ poolLimit = RescueLimit /\ IsFiniteSet(pool)
    BY <2>1, PoolIs DEF pool, poolLimit
  <2>3. PICK s \in SetToSeqs(pool) : Reads(s, RescueLimit, "rank")
    BY <2>2 DEF rescue, ordered, byName
  <2>4. Len(s) \in Nat
    BY <2>2, <2>3, AnswerIs
  <2>5. render.step = "rescue"
    BY DEF rescue
  <2> QED
    BY <2>1, <2>2, <2>3, <2>4, <2>5, QueryWalks
<1> QED
  BY <1>0, <1>a

(* The scores the ranking works with are those of the pool, once its query   *)
(* was not cut.                                                              *)
LEMMA RankedByScores ==
  ASSUME DiscoveryTypes, isSearch, NEW ids \in SetToSeqs(pool)
  PROVE  Range(ids) = pool /\ Len(ids) = Cardinality(pool)
         /\ \A id \in pool : rankOf(Range(ids), terms, id) = scores[id]
<1>1. Range(ids) = pool /\ Len(ids) = Cardinality(pool)
  BY PoolIs, AnswerHolds, AnswerIs
<1> QED
  BY <1>1 DEF scores, scoreOf

(* The limits, the other way round.                                          *)
LEMMA PoolLimitIs == poolLimit \in Nat /\ poolLimit <= CandidateLimit
  BY DiscoveryAssumption DEF DiscoveryAssumption, poolLimit

(* The page of the ranking.                                                  *)
LEMMA RankWalks ==
  ASSUME DiscoveryInv, WalkInv, rankPage
  PROVE  WalkInv'
<1>0. DiscoveryTypes /\ render \in RenderStates /\ render.step = "rank" /\ url.page \in Nat \ {0}
  BY RenderAt DEF DiscoveryInv, DiscoveryTypes, rankPage
<1>1. PICK n \in Nat : n = IF url.page * PageSize < CandidateLimit THEN url.page * PageSize ELSE CandidateLimit
  <2>1. PageSize \in Nat /\ CandidateLimit \in Nat
    BY DiscoveryAssumption DEF DiscoveryAssumption
  <2>2. \A p, k \in Nat : p * k \in Nat
    OBVIOUS
  <2> QED
    BY <1>0, <2>1, <2>2
<1>2. PICK found : found = render.found
  OBVIOUS
<1>3. PICK s \in SetToSeqs(Range(found)) :
        /\ \A i \in 1..(Len(s) - 1) :
             rankOf(Range(found), terms, s[i]) >= rankOf(Range(found), terms, s[i + 1])
        /\ Renders([render EXCEPT !.found = SubSeq(firstOf(s, n), offset(url.page) + 1, Len(firstOf(s, n))),
                                  !.total = Len(found), !.step = "hydrate"])
  BY <1>1, <1>2 DEF rankPage, ordered
<1>4. PICK fixed : fixed = render.fixed
  OBVIOUS
<1>5. PICK ids, total : ids = SubSeq(firstOf(s, n), offset(url.page) + 1, Len(firstOf(s, n))) /\ total = Len(found)
  OBVIOUS
<1>6. /\ render' = [render EXCEPT !.found = ids, !.total = total, !.step = "hydrate"]
      /\ UNCHANGED <<active, up, url, shown, changes>>
  <2>1. Renders([render EXCEPT !.found = ids, !.total = total, !.step = "hydrate"])
    BY <1>3, <1>5
  <2> QED
    BY <2>1, RendersIs
<1>7. render'.step = "hydrate" /\ render'.found = ids /\ render'.total = total /\ render'.fixed = fixed
  BY <1>0, <1>4, <1>6 DEF RenderStates
<1>8. ASSUME changes.since = 0 PROVE WalkAt("hydrate", ids, total, fixed)
  <2>1. PICK count : count = render.total
    OBVIOUS
  <2>2. WalkAt("rank", found, count, fixed)
    BY <1>0, <1>2, <1>4, <1>8, <2>1 DEF WalkInv
  <2>3. /\ isSearch /\ (fixed => uncut) /\ (uncut => found \in SetToSeqs(pool))
        /\ uncut => Placed(shown, (url.page - 1) * PageSize)
    BY <2>2 DEF WalkAt
  <2>4. ASSUME uncut
        PROVE  /\ Range(found) = pool /\ total = Cardinality(pool)
               /\ \A id \in pool : rankOf(Range(found), terms, id) = scores[id]
    BY <1>0, <1>5, <2>3, <2>4, RankedByScores
  <2>6. ASSUME uncut PROVE s \in Rankings /\ ids = PageOf(s, url.page)
    <3>1. s \in SetToSeqs(pool) /\ IsFiniteSet(pool)
      BY <1>0, <1>3, <2>4, <2>6, PoolIs
    <3>2. s \in Seq(pool) /\ Len(s) = Cardinality(pool) /\ Len(s) \in Nat
      BY <3>1, AnswerIs
    <3>3. ASSUME NEW i \in 1..(Len(s) - 1) PROVE scores[s[i]] >= scores[s[i + 1]]
      <4>1. i \in 1..Len(s) /\ i + 1 \in 1..Len(s)
        BY <3>2
      <4>2. s[i] \in pool /\ s[i + 1] \in pool
        BY <3>2, <4>1
      <4>3. /\ rankOf(Range(found), terms, s[i]) = scores[s[i]]
            /\ rankOf(Range(found), terms, s[i + 1]) = scores[s[i + 1]]
        BY <2>4, <2>6, <4>2
      <4> QED
        BY <1>3, <4>3
    <3>4. Len(s) <= CandidateLimit
      <4>1. Cardinality(pool) <= poolLimit
        BY <2>3, <2>6 DEF uncut
      <4> QED
        BY <3>2, <4>1, PoolLimitIs, LimitsAre
    <3>5. ids = PageOf(s, url.page)
      BY <1>0, <1>1, <1>5, <3>2, <3>4, WindowPage
    <3> QED
      BY <3>1, <3>3, <3>5 DEF Rankings
  <2> QED
    BY <2>3, <2>4, <2>6 DEF WalkAt
<1> QED
  BY <1>6, <1>7, <1>8, WalkMoves

(* Division rounds down.                                                     *)
LEMMA Division ==
  ASSUME NEW a \in Int, NEW m \in Nat \ {0}
  PROVE  /\ a \div m \in Int /\ (a \div m) * m <= a /\ a < (a \div m) * m + m
  OBVIOUS

(* The last page ends at or after the total.                                 *)
LEMMA LastPage ==
  ASSUME NEW total \in Nat, NEW page \in Nat, PageSize \in Nat \ {0},
         page >= (total + PageSize - 1) \div PageSize
  PROVE  page * PageSize >= total /\ page * PageSize \in Nat
<1>1. PICK k \in Nat \ {0} : k = PageSize
  OBVIOUS
<1>2. PICK a \in Int : a = total + k - 1
  BY <1>1
<1>3. PICK q \in Int : q = a \div k /\ q * k <= a /\ a < q * k + k
  BY <1>1, <1>2, Division
<1>4. PICK d \in Nat : d = page - q
  BY <1>1, <1>2, <1>3
<1>5. page * k = q * k + d * k /\ d * k \in Nat /\ q * k \in Int
  BY <1>1, <1>3, <1>4
<1>6. page * k >= total
  BY <1>2, <1>3, <1>5
<1>7. page * k \in Nat
  BY <1>1
<1> QED
  BY <1>1, <1>6, <1>7

(* The page is shown.                                                        *)
LEMMA HydrateWalks ==
  ASSUME DiscoveryInv, WalkInv, hydrate
  PROVE  WalkInv'
<1>0. CASE changes.since # 0
  <2>1. UNCHANGED changes
    BY DEF hydrate
  <2> QED
    BY <1>0, <2>1, WalkOver
<1>a. CASE changes.since = 0
  <2>1. /\ render.step = "hydrate" /\ render' = [render EXCEPT !.step = "done", !.fixed = @ \/ ~isSearch]
        /\ shown' = shown \o render.found /\ UNCHANGED <<active, up, url, changes>>
    BY DEF hydrate
  <2>2. DiscoveryTypes /\ render \in RenderStates /\ url.page \in Nat \ {0}
    BY DEF DiscoveryInv, DiscoveryTypes
  <2>3. PICK ids, total, wasFixed : ids = render.found /\ total = render.total /\ wasFixed = render.fixed
    OBVIOUS
  <2>4. WalkAt("hydrate", ids, total, wasFixed)
    BY <1>a, <2>1, <2>3 DEF WalkInv
  <2>5. PICK fixed \in BOOLEAN : fixed = (render.fixed \/ ~isSearch)
    BY Zenon
  <2>6. render'.step = "done" /\ render'.found = ids /\ render'.total = total /\ render'.fixed = fixed
    BY <2>1, <2>2, <2>3, <2>5 DEF RenderStates
  <2>7. /\ uncut => Placed(shown, (url.page - 1) * PageSize)
        /\ uncut => total = Cardinality(pool)
        /\ uncut => \E s \in Rankings : ids = PageOf(s, url.page)
        /\ wasFixed => uncut
    BY <2>4 DEF WalkAt
  <2>8. fixed => uncut
    BY <2>3, <2>5, <2>7, ListUncut
  <2>9. ASSUME uncut PROVE Placed(shown \o ids, url.page * PageSize)
    <3>1. PICK t \in Rankings : ids = PageOf(t, url.page)
      BY <2>7, <2>9
    <3>2. shown \in Seq(eligible)
      BY <1>a DEF DiscoveryInv
    <3> QED
      BY <2>2, <2>7, <2>9, <3>1, <3>2, PlacedGrows
  <2>10. pool' = pool /\ uncut' = uncut /\ Rankings' = Rankings
    BY <2>1, SamePool
  <2>11. WalkAt("done", ids, total, fixed)'
    <3>1. uncut' => Placed(shown, url.page * PageSize)'
      BY <2>1, <2>3, <2>9, <2>10 DEF Placed
    <3>2. (uncut' => total = Cardinality(pool')) /\ (fixed => uncut')
      BY <2>7, <2>8, <2>10
    <3> QED
      BY <3>1, <3>2 DEF WalkAt
  <2> QED
    BY <2>6, <2>11 DEF WalkInv
<1> QED
  BY <1>0, <1>a

(* The next page starts where this one ended.                                *)
LEMMA NextPageWalks ==
  ASSUME DiscoveryInv, WalkInv, nextPage
  PROVE  WalkInv'
<1>1. /\ render.step = "done" /\ url' = [url EXCEPT !.page = @ + 1]
      /\ render' = [idleRender EXCEPT !.step = "start"] /\ UNCHANGED <<active, up, shown, changes>>
  BY DEF nextPage
<1>2. url \in [filters : FilterSets, page : Nat \ {0}]
  BY DEF DiscoveryInv, DiscoveryTypes
<1>3. url'.filters = url.filters /\ url'.page - 1 = url.page
  BY <1>1, <1>2
<1>4. pool' = pool /\ uncut' = uncut /\ Rankings' = Rankings
  BY <1>1, <1>3, SamePool
<1>5. PICK ids, total, fixed : ids = render.found /\ total = render.total /\ fixed = render.fixed
  OBVIOUS
<1>6. ASSUME changes.since = 0, uncut PROVE Placed(shown, url.page * PageSize)
  <2>1. WalkAt("done", ids, total, fixed)
    BY <1>1, <1>5, <1>6 DEF WalkInv
  <2> QED
    BY <1>6, <2>1 DEF WalkAt
<1>7. PICK newIds, newTotal, newFixed :
        render'.step = "start" /\ render'.found = newIds /\ render'.total = newTotal /\ render'.fixed = newFixed
  BY <1>1 DEF idleRender
<1>8. changes'.since = 0 => WalkAt("start", newIds, newTotal, newFixed)'
  <2>1. changes'.since = 0 /\ uncut' => Placed(shown, (url.page - 1) * PageSize)'
    BY <1>1, <1>3, <1>4, <1>6 DEF Placed
  <2> QED
    BY <2>1 DEF WalkAt
<1> QED
  BY <1>7, <1>8 DEF WalkInv

(* A walk starts with nothing.                                               *)
LEMMA WalkStarts ==
  DiscoveryTypes /\ url.page = 1 /\ shown = <<>> /\ render.step = "start" => WalkInv
<1> SUFFICES ASSUME DiscoveryTypes, url.page = 1, shown = <<>>, render.step = "start" PROVE WalkInv
  OBVIOUS
<1>1. Placed(shown, (url.page - 1) * PageSize)
  <2>1. Cardinality(pool) \in Nat
    BY PoolIs
  <2>2. Placed(<<>>, 0)
    BY <2>1 DEF Placed
  <2>3. (url.page - 1) * PageSize = 0
    <3>1. PICK k \in Nat : k = PageSize
      BY DiscoveryAssumption DEF DiscoveryAssumption
    <3>2. (1 - 1) * k = 0
      BY <3>1
    <3> QED
      BY <3>1, <3>2
  <2> QED
    BY <2>2, <2>3
<1>2. PICK ids, total, fixed : ids = render.found /\ total = render.total /\ fixed = render.fixed
  OBVIOUS
<1>3. WalkAt("start", ids, total, fixed)
  BY <1>1 DEF WalkAt
<1> QED
  BY <1>2, <1>3 DEF WalkInv

(* With other filters a new one does.                                        *)
LEMMA FiltersWalk ==
  ASSUME DiscoveryInv, NEW f \in FilterSets, changeFilters(f)
  PROVE  WalkInv'
<1>1. url' = [filters |-> f, page |-> 1] /\ render' = [idleRender EXCEPT !.step = "start"] /\ shown' = <<>>
  BY DEF changeFilters, navigate
<1>2. url'.page = 1 /\ render'.step = "start"
  BY <1>1 DEF idleRender
<1>3. DiscoveryTypes'
  BY FiltersChanged DEF DiscoveryInv
<1>4. (DiscoveryTypes /\ url.page = 1 /\ shown = <<>> /\ render.step = "start" => WalkInv)'
  BY WalkStarts, PTL
<1> QED
  BY <1>1, <1>2, <1>3, <1>4

(* Every step of the pages and of the catalogue.                             *)
LEMMA WalkStep ==
  ASSUME DiscoveryInv, WalkInv, discoveryNext
  PROVE  WalkInv'
<1>1. url.filters \in FilterSets
  BY DEF DiscoveryInv, DiscoveryTypes
<1>2. ASSUME toggleBoolean \/ toggleStatus \/ clearAll PROVE WalkInv'
  <2>1. PICK f \in FilterSets : changeFilters(f)
    BY <1>1, <1>2, FiltersAre DEF toggleBoolean, toggleStatus, clearAll
  <2> QED
    BY <2>1, FiltersWalk
<1>3. ASSUME NEW auth \in {"none", "apiKey"}, toggleValue(auth) PROVE WalkInv'
  <2>1. PICK f \in FilterSets : changeFilters(f)
    BY <1>1, <1>3, FiltersAre DEF toggleValue
  <2> QED
    BY <2>1, FiltersWalk
<1>4. ASSUME NEW q \in SearchTexts, submitText(q) PROVE WalkInv'
  <2>1. PICK f \in FilterSets : changeFilters(f)
    BY <1>1, <1>4, FiltersAre DEF submitText
  <2> QED
    BY <2>1, FiltersWalk
<1>s. ASSUME NEW sort \in Sorts, chooseSort(sort) PROVE WalkInv'
  <2>1. PICK f \in FilterSets : changeFilters(f)
    BY <1>1, <1>s, FiltersAre DEF chooseSort
  <2> QED
    BY <2>1, FiltersWalk
<1>5. ASSUME NEW k \in {"free", "auth", "status"}, remove(k) PROVE WalkInv'
  <2>1. PICK f \in FilterSets : changeFilters(f)
    BY <1>1, <1>5, FiltersAre DEF remove
  <2> QED
    BY <2>1, FiltersWalk
<1>6. ASSUME NEW id \in apiIds, changeCatalogue(id) PROVE WalkInv'
  <2>1. changes'.since = 1
    BY <1>6 DEF changeCatalogue
  <2> QED
    BY <2>1, WalkOver
<1> QED
  BY <1>2, <1>3, <1>4, <1>s, <1>5, <1>6, ListCountWalks, ListReadWalks, CandidatesWalk, BroadenWalks, RescueWalks,
     RankWalks, HydrateWalks, NextPageWalks DEF discoveryNext

(* What the walk comes to.                                                   *)
LEMMA WalkFollows == DiscoveryInv /\ WalkInv => WalkComplete
<1> SUFFICES ASSUME DiscoveryInv, WalkInv, render.step = "done", render.fixed, changes.since = 0
             PROVE  /\ \A i, j \in 1..Len(shown) : i # j /\ shown[i] = shown[j] => tied(shown[i])
                    /\ url.page >= totalPages =>
                         /\ Len(shown) = render.total
                         /\ \A id \in apiIds : isMatch(id, url.filters) /\ ~tied(id) => id \in Range(shown)
  BY DEF WalkComplete
<1>1. DiscoveryTypes /\ url.page \in Nat /\ PageSize \in Nat \ {0} /\ url.page * PageSize \in Nat
  <2>1. DiscoveryTypes /\ url.page \in Nat /\ PageSize \in Nat \ {0}
    BY DiscoveryAssumption DEF DiscoveryInv, DiscoveryTypes, DiscoveryAssumption
  <2>2. \A p, k \in Nat : p * k \in Nat
    OBVIOUS
  <2> QED
    BY <2>1, <2>2
<1>2. PICK ids, total, fixed : ids = render.found /\ total = render.total /\ fixed = render.fixed
  OBVIOUS
<1>3. WalkAt("done", ids, total, fixed)
  BY <1>2 DEF WalkInv
<1>4. total = Cardinality(pool) /\ Placed(shown, url.page * PageSize)
  BY <1>2, <1>3 DEF WalkAt
<1>5. IsFiniteSet(pool) /\ total \in Nat /\ shown \in Seq(eligible)
  BY <1>1, <1>4, PoolIs DEF DiscoveryInv
<1>6. /\ Len(shown) = IF total < url.page * PageSize THEN total ELSE url.page * PageSize
      /\ \A i \in 1..Len(shown) : \E s \in Rankings : shown[i] = s[i]
  BY <1>4 DEF Placed
<1> DEFINE better(id) == {y \in pool : scores[y] > scores[id]}
<1>7. ASSUME NEW s \in Rankings, NEW p \in 1..total, ~tied(s[p])
      PROVE  p = Cardinality(better(s[p])) + 1
  <2>1. /\ s \in SetToSeqs(pool) /\ s \in Seq(pool) /\ Len(s) = total
        /\ \A i \in 1..(Len(s) - 1) : scores[s[i]] >= scores[s[i + 1]]
    BY <1>1, <1>4, <1>7, RankingIs
  <2>2. s[p] \in pool
    BY <2>1
  <2>3. \A y \in pool \ {s[p]} : scores[y] # scores[s[p]]
    BY <1>7, <2>2 DEF tied, scores
  <2>4. scores \in [pool -> Int]
    BY <1>1, ScoresAre
  <2>5. PICK S : S = pool
    OBVIOUS
  <2>6. PICK w \in [S -> Int] : w = scores
    BY <2>4, <2>5
  <2>7. /\ IsFiniteSet(S) /\ s \in SetToSeqs(S) /\ p \in 1..Len(s)
        /\ \A i \in 1..(Len(s) - 1) : w[s[i]] >= w[s[i + 1]]
        /\ \A y \in S \ {s[p]} : w[y] # w[s[p]]
    BY <1>5, <2>1, <2>3, <2>5, <2>6
  <2>8. p = Cardinality({y \in S : w[y] > w[s[p]]}) + 1
    BY <2>7, UniquePlace
  <2> QED
    BY <2>5, <2>6, <2>8
<1>8. 1..Len(shown) \subseteq 1..total
  BY <1>1, <1>5, <1>6
<1>9. ASSUME NEW i \in 1..Len(shown), NEW j \in 1..Len(shown), i # j, shown[i] = shown[j], ~tied(shown[i])
      PROVE  FALSE
  <2>1. PICK s \in Rankings : shown[i] = s[i]
    BY <1>6
  <2>2. PICK t \in Rankings : shown[j] = t[j]
    BY <1>6
  <2>3. i \in 1..total /\ j \in 1..total
    BY <1>8
  <2>4. i = Cardinality(better(shown[i])) + 1
    BY <1>7, <1>9, <2>1, <2>3
  <2>5. j = Cardinality(better(shown[i])) + 1
    BY <1>7, <1>9, <2>2, <2>3
  <2> QED
    BY <1>9, <2>4, <2>5
<1>10. ASSUME url.page >= totalPages PROVE Len(shown) = total
  <2>1. url.page * PageSize >= total
    BY <1>1, <1>2, <1>5, <1>10, LastPage DEF totalPages
  <2> QED
    BY <1>1, <1>5, <1>6, <2>1
<1>12. ASSUME url.page >= totalPages, NEW id \in pool, ~tied(id) PROVE id \in Range(shown)
  <2>1. Len(shown) = total
    BY <1>10, <1>12
  <2>2. PICK p \in Nat : p = Cardinality(better(id)) + 1 /\ p \in 1..total
    <3>1. better(id) \in SUBSET (pool \ {id})
      <4>1. scores \in [pool -> Int]
        BY <1>1, ScoresAre
      <4> QED
        BY <1>12, <4>1
    <3>2. IsFiniteSet(pool \ {id}) /\ Cardinality(pool \ {id}) = total - 1
      BY <1>4, <1>5, <1>12, FS_RemoveElement
    <3>3. IsFiniteSet(better(id)) /\ Cardinality(better(id)) <= total - 1
      BY <3>1, <3>2, FS_Subset
    <3>4. Cardinality(better(id)) \in Nat
      BY <3>3, FS_CardinalityType
    <3> HIDE DEF better
    <3> QED
      BY <1>5, <3>3, <3>4
  <2>3. PICK s \in Rankings : shown[p] = s[p]
    BY <1>6, <2>1, <2>2
  <2>4. s \in SetToSeqs(pool) /\ Len(s) = total
    BY <1>1, <1>4, <2>3, RankingIs
  <2>5. PICK l \in 1..total : s[l] = id
    BY <1>5, <1>12, <2>4, AnswerHolds
  <2>6. l = p
    BY <1>7, <1>12, <2>2, <2>3, <2>5
  <2>7. shown[p] = id /\ p \in DOMAIN shown
    BY <1>5, <2>1, <2>2, <2>3, <2>5, <2>6
  <2> QED
    BY <2>7 DEF Range
<1>11. ASSUME NEW id \in apiIds, isMatch(id, url.filters) PROVE id \in pool
  <2>1. CASE ~isSearch
    BY <1>11, <2>1 DEF isMatch, pool, isSearch
  <2>2. CASE isSearch
    <3>1. id \in wanted /\ (terms = {} \/ id \in allWords)
      BY <1>11, <2>2 DEF isMatch, isSearch, wanted, terms, allWords
    <3>2. CASE terms = {}
      BY <2>2, <3>1, <3>2 DEF pool
    <3>3. CASE terms # {}
      <4>1. id \in allWords /\ allWords # {} /\ id \in anyWord
        BY <3>1, <3>3 DEF allWords, anyWord, matchesAll, matchesAny
      <4>2. Cardinality(allWords) # 0
        <5>1. allWords \in SUBSET eligible
          BY <2>2 DEF allWords, eligible
        <5>2. IsFiniteSet(allWords)
          BY <1>1, <5>1, EligibleIs
        <5> QED
          BY <4>1, <5>2, FS_EmptySet
      <4>3. ~rescues
        BY <4>1, <4>2 DEF rescues
      <4> QED
        BY <2>2, <3>3, <4>1, <4>3 DEF pool
    <3> QED
      BY <3>2, <3>3
  <2> QED
    BY <2>1, <2>2
<1> QED
  BY <1>2, <1>9, <1>10, <1>11, <1>12

(* Where nothing moves, the walk stays where it is.                          *)
LEMMA WalkStays ==
  ASSUME WalkInv, UNCHANGED discoveryVars
  PROVE  WalkInv'
<1>1. UNCHANGED <<active, up, url, render, shown, changes>>
  BY DEF discoveryVars
<1>2. PICK step, ids, total, fixed : step = render.step /\ ids = render.found /\ total = render.total
                                     /\ fixed = render.fixed
  OBVIOUS
<1>3. changes.since = 0 => WalkAt(step, ids, total, fixed)
  BY <1>2 DEF WalkInv
<1> QED
  BY <1>1, <1>2, <1>3, WalkMoves

(* Pages move only while they are the subject.                               *)
LEMMA DiscoveryMoves ==
  ASSUME [SubjectNext]_allVars
  PROVE  discoveryNext \/ UNCHANGED discoveryVars
<1>1. ASSUME SubjectNext PROVE discoveryNext \/ UNCHANGED discoveryVars
  <2>1. RestStays
    BY <1>1 DEF SubjectNext
  <2>2. subject = "discovery" \/ UNCHANGED discoveryVars
    BY <2>1 DEF RestStays
  <2> QED
    BY <1>1, <2>2, OwnSteps
<1>2. UNCHANGED allVars => UNCHANGED discoveryVars
  BY DEF allVars
<1> QED
  BY <1>1, <1>2

(* Walking the pages of a list, by any sort, or of a search to the last one  *)
(* shows as many APIs as the total says, and of those that tie with no other *)
(* none twice and every one that matches, whatever the filters, the texts,   *)
(* the catalogue, the size of a page and the limits of the queries, as long  *)
(* as the catalogue does not change under the walk and no query is cut       *)
(* (catalog/repository.ts, search/service.ts, search/ranking.ts).            *)
THEOREM WalksAreComplete == SubjectSpec => []WalkComplete
<1>1. SubjectInit => DiscoveryInv /\ WalkInv
  <2>1. discoveryInit => url.page = 1 /\ shown = <<>> /\ render.step = "start"
    BY DEF discoveryInit, idleRender
  <2>2. DiscoveryInv => DiscoveryTypes
    BY DEF DiscoveryInv
  <2> QED
    BY <2>1, <2>2, DiscoveryStarts, WalkStarts DEF SubjectInit
<1>2. DiscoveryInv /\ WalkInv /\ [SubjectNext]_allVars => DiscoveryInv' /\ WalkInv'
  BY DiscoveryMoves, DiscoveryStep, DiscoveryStays, WalkStep, WalkStays
<1> QED
  BY <1>1, <1>2, WalkFollows, PTL DEF SubjectSpec

-----------------------------------------------------------------------------
(* The daily history of checks                                               *)

(* What everything recorded of a day comes to.                               *)
DayRow(found, started, api, day) ==
  IF ofDay(found, api, day) = {} THEN NoRow
  ELSE rowOf(ofDay(found, api, day), ofDay(started, api, day))

(* Nothing is recorded ahead of the clock, and what has been pruned is of    *)
(* neither today nor yesterday.                                              *)
Recording ==
  /\ hour \in Nat /\ hour >= HoursPerDay /\ (hour =< LastHour \/ hour = HoursPerDay)
  /\ checks \subseteq recorded
  /\ \A c \in recorded : c.at \in Nat /\ c.at =< hour
  /\ \A c \in recorded \ checks : dayOf(c.at) + 1 < dayOf(hour)
  /\ \A i \in incidents : i.at \in Nat /\ i.at =< hour

(* What a roll-up has yet to write of a day: each group is some of the       *)
(* day's checks, and all of them if the day had ended when it was read; the  *)
(* APIs without a group have their row then.                                 *)
Rolling(r) ==
  r.stage # "idle" =>
    /\ r.day \in Nat /\ r.day =< dayOf(hour) /\ r.late \in BOOLEAN
    /\ \A row \in r.rows : /\ row.api \in HistoryApis /\ row.found # {}
                           /\ row.found \subseteq ofDay(recorded, row.api, r.day)
    /\ r.day \in complete => r.late
    /\ r.late =>
         /\ r.day \in Days /\ r.day < dayOf(hour)
         /\ \A row \in r.rows : row.found = ofDay(recorded, row.api, r.day)
         /\ \A api \in HistoryApis :
              \/ \E row \in r.rows : row.api = api
              \/ daily[api][r.day] = DayRow(recorded, incidents, api, r.day)

(* A table of tables, and one with a field overwritten.                      *)
Table(D, A, B) == D = [a \in A |-> [b \in B |-> D[a][b]]]
Overwrite(D, x, y, v) == [D EXCEPT ![x][y] = v]

(* A day without checks has no row, and one rolled up after its end has what *)
(* everything recorded of it comes to.                                       *)
Rolled ==
  /\ Table(daily, HistoryApis, Days)
  /\ \A api \in HistoryApis, day \in Days :
       ofDay(recorded, api, day) = {} => daily[api][day] = NoRow
  /\ \A day \in complete :
       /\ day \in Days /\ day < dayOf(hour)
       /\ \A api \in HistoryApis : daily[api][day] = DayRow(recorded, incidents, api, day)

RolledUp ==
  rollUp = [stage |-> rollUp.stage, day |-> rollUp.day, rows |-> rollUp.rows, late |-> rollUp.late]

HistoryInv == Recording /\ Rolling(rollUp) /\ RolledUp /\ Rolled

(* Days follow the clock.                                                    *)
LEMMA DayGrows ==
  ASSUME NEW a \in Nat, NEW b \in Nat
  PROVE  /\ dayOf(a) \in Nat
         /\ a =< b => dayOf(a) =< dayOf(b)
         /\ a >= HoursPerDay => dayOf(a) >= 1
<1>1. PICK m \in Nat \ {0} : m = HoursPerDay
  BY HistoryAssumption DEF HistoryAssumption
<1>2. PICK p \in Int : p = dayOf(a) /\ p * m =< a /\ a < p * m + m
  BY <1>1, Division DEF dayOf
<1>3. PICK q \in Int : q = dayOf(b) /\ q * m =< b /\ b < q * m + m
  BY <1>1, Division DEF dayOf
<1>4. p \in Nat
  <2>1. p =< -1 => p * m =< -m
    BY Multiples
  <2> QED
    BY <1>2, <2>1
<1>5. a =< b => p =< q
  <2>1. (p - q) >= 1 => (p - q) * m >= m
    BY Multiples
  <2>2. (p - q) * m = p * m - q * m
    OBVIOUS
  <2> QED
    BY <1>2, <1>3, <2>1, <2>2
<1>6. a >= m => p >= 1
  <2>1. p = 0 => p * m = 0
    OBVIOUS
  <2> QED
    BY <1>2, <1>4, <2>1
<1> QED
  BY <1>1, <1>2, <1>3, <1>4, <1>5, <1>6

(* What retention lets go of is older than yesterday.                        *)
LEMMA DayFar ==
  ASSUME NEW a \in Nat, NEW b \in Nat, a < b - RetentionDays * HoursPerDay
  PROVE  dayOf(a) + 1 < dayOf(b)
<1>1. PICK m \in Nat \ {0} : m = HoursPerDay
  BY HistoryAssumption DEF HistoryAssumption
<1>2. PICK p \in Int : p = dayOf(a) /\ p * m =< a /\ a < p * m + m
  BY <1>1, Division DEF dayOf
<1>3. PICK q \in Int : q = dayOf(b) /\ q * m =< b /\ b < q * m + m
  BY <1>1, Division DEF dayOf
<1>4. PICK k \in Nat : k = RetentionDays - 2 /\ RetentionDays = k + 2
  BY HistoryAssumption DEF HistoryAssumption
<1>5. RetentionDays * HoursPerDay = k * m + 2 * m /\ k * m \in Nat
  BY <1>1, <1>4
<1>6. a < b - 2 * m
  BY <1>5
<1>7. ~(q - p =< 1)
  <2>1. PICK d \in Int : d = p + 2 - q
    OBVIOUS
  <2>2. d >= 1 => d * m >= m
    BY Multiples
  <2>3. d * m = p * m + 2 * m - q * m
    BY <2>1
  <2> QED
    BY <1>2, <1>3, <1>6, <2>1, <2>2, <2>3
<1> QED
  BY <1>2, <1>3, <1>7

(* The days of the table: yesterday is one of them.                          *)
LEMMA YesterdayIs ==
  ASSUME Recording
  PROVE  dayOf(hour) - 1 \in Days /\ dayOf(hour) \in Nat
<1>1. hour \in Nat /\ hour >= HoursPerDay /\ (hour =< LastHour \/ hour = HoursPerDay)
  BY DEF Recording
<1>2. HoursPerDay \in Nat \ {0} /\ LastHour \in Nat
  BY HistoryAssumption DEF HistoryAssumption
<1>3. dayOf(hour) \in Nat /\ dayOf(hour) >= 1
  BY <1>1, DayGrows
<1>4. dayOf(LastHour) \in Nat
  BY <1>2, DayGrows
<1>5. hour =< LastHour => dayOf(hour) =< dayOf(LastHour)
  BY <1>1, <1>2, DayGrows
<1>6. hour = HoursPerDay => dayOf(hour) = 1
  BY <1>2 DEF dayOf
<1> QED
  BY <1>1, <1>3, <1>4, <1>5, <1>6 DEF Days, dayOf

(* What is recorded now is not of a day that is over.                        *)
LEMMA PastDays ==
  ASSUME NEW found, NEW x, NEW api, NEW day, dayOf(x.at) # day
  PROVE  ofDay(found \cup {x}, api, day) = ofDay(found, api, day)
  BY DEF ofDay

(* At first nothing is recorded and nothing is rolled up.                    *)
LEMMA HistoryStarts == historyInit => HistoryInv
<1> SUFFICES ASSUME historyInit PROVE HistoryInv
  OBVIOUS
<1>1. Recording
  BY HistoryAssumption DEF historyInit, Recording, HistoryAssumption
<1>2. Rolling(rollUp) /\ RolledUp
  BY DEF historyInit, NoRollUp, Rolling, RolledUp
<1>3. Rolled
  BY DEF historyInit, Rolled, Table
<1> QED
  BY <1>1, <1>2, <1>3 DEF HistoryInv

LEMMA DayRowStays ==
  ASSUME NEW f, NEW g, NEW s, NEW t, NEW api, NEW day,
         ofDay(f, api, day) = ofDay(g, api, day), ofDay(s, api, day) = ofDay(t, api, day)
  PROVE  DayRow(f, s, api, day) = DayRow(g, t, api, day)
  BY DEF DayRow

LEMMA DaysAre == \A day \in Days : day \in Nat
  BY DEF Days

(* A probe belongs to the day that is still going on.                        *)
LEMMA ProbeKeeps ==
  ASSUME HistoryInv, NEW api, NEW ok, NEW latency, NEW opens, recordCheck(api, ok, latency, opens)
  PROVE  HistoryInv'
<1> DEFINE check == [api |-> api, at |-> hour, ok |-> ok, latency |-> latency]
<1> DEFINE incident == [api |-> api, at |-> hour]
<1>1. /\ checks' = checks \cup {check} /\ recorded' = recorded \cup {check}
      /\ hour' = hour /\ daily' = daily /\ rollUp' = rollUp /\ complete' = complete
  BY DEF recordCheck
<1>2. incidents' = incidents \/ incidents' = incidents \cup {incident}
  BY DEF recordCheck
<1>3. check.at = hour /\ incident.at = hour
  OBVIOUS
<1> HIDE DEF check, incident
<1>4. hour \in Nat /\ dayOf(hour) \in Nat
  BY YesterdayIs DEF HistoryInv, Recording
<1>5. Recording'
  BY <1>1, <1>2, <1>3, <1>4 DEF HistoryInv, Recording
<1>6. \A a, d : d # dayOf(hour) => ofDay(recorded', a, d) = ofDay(recorded, a, d)
  BY <1>1, <1>3, PastDays
<1>7. \A a, d : d # dayOf(hour) => ofDay(incidents', a, d) = ofDay(incidents, a, d)
  BY <1>2, <1>3, PastDays
<1>8. \A a, d : d # dayOf(hour) =>
        DayRow(recorded', incidents', a, d) = DayRow(recorded, incidents, a, d)
  BY <1>6, <1>7, DayRowStays
<1>9. \A a, d : ofDay(recorded, a, d) \subseteq ofDay(recorded', a, d)
  BY <1>1 DEF ofDay
<1>10. Rolling(rollUp)'
  <2>1. CASE rollUp.stage = "idle"
    BY <1>1, <2>1 DEF Rolling
  <2>2. CASE rollUp.stage # "idle"
    <3>1. /\ rollUp.day \in Nat /\ rollUp.day =< dayOf(hour) /\ rollUp.late \in BOOLEAN
          /\ \A row \in rollUp.rows : /\ row.api \in HistoryApis /\ row.found # {}
                                      /\ row.found \subseteq ofDay(recorded, row.api, rollUp.day)
          /\ rollUp.day \in complete => rollUp.late
      BY <2>2 DEF HistoryInv, Rolling
    <3>2. ASSUME rollUp.late
          PROVE  /\ rollUp.day \in Days /\ rollUp.day < dayOf(hour)
                 /\ \A row \in rollUp.rows : row.found = ofDay(recorded', row.api, rollUp.day)
                 /\ \A a \in HistoryApis :
                      \/ \E row \in rollUp.rows : row.api = a
                      \/ daily[a][rollUp.day] = DayRow(recorded', incidents', a, rollUp.day)
      <4>1. /\ rollUp.day \in Days /\ rollUp.day < dayOf(hour)
            /\ \A row \in rollUp.rows : row.found = ofDay(recorded, row.api, rollUp.day)
            /\ \A a \in HistoryApis :
                 \/ \E row \in rollUp.rows : row.api = a
                 \/ daily[a][rollUp.day] = DayRow(recorded, incidents, a, rollUp.day)
        BY <2>2, <3>2 DEF HistoryInv, Rolling
      <4>2. rollUp.day # dayOf(hour)
        BY <1>4, <3>1, <4>1
      <4> QED
        BY <1>6, <1>8, <4>1, <4>2
    <3>3. \A row \in rollUp.rows : row.found \subseteq ofDay(recorded', row.api, rollUp.day)
      BY <1>9, <3>1
    <3> QED
      BY <1>1, <3>1, <3>2, <3>3 DEF Rolling
  <2> QED
    BY <2>1, <2>2
<1>11. Rolled'
  <2>1. \A a \in HistoryApis, day \in Days :
          ofDay(recorded', a, day) = {} => daily[a][day] = NoRow
    BY <1>9 DEF HistoryInv, Rolled
  <2>2. \A day \in complete : day # dayOf(hour)
    BY <1>4, DaysAre DEF HistoryInv, Rolled
  <2>3. \A day \in complete, a \in HistoryApis :
          daily[a][day] = DayRow(recorded', incidents', a, day)
    BY <1>8, <2>2 DEF HistoryInv, Rolled
  <2> QED
    BY <1>1, <2>1, <2>3 DEF HistoryInv, Rolled
<1>12. RolledUp'
  BY <1>1 DEF HistoryInv, RolledUp
<1> QED
  BY <1>5, <1>10, <1>11, <1>12 DEF HistoryInv

(* An hour more ends no day that had not ended.                              *)
LEMMA HourKeeps ==
  ASSUME HistoryInv, hourPasses
  PROVE  HistoryInv'
<1>1. /\ hour < LastHour /\ hour' = hour + 1
      /\ checks' = checks /\ incidents' = incidents /\ daily' = daily /\ rollUp' = rollUp
      /\ recorded' = recorded /\ complete' = complete
  BY DEF hourPasses
<1>2. hour \in Nat /\ hour >= HoursPerDay /\ LastHour \in Nat /\ HoursPerDay \in Nat
  BY HistoryAssumption DEF HistoryInv, Recording, HistoryAssumption
<1>3. hour' \in Nat /\ hour =< hour' /\ hour' =< LastHour /\ hour' >= HoursPerDay
  BY <1>1, <1>2
<1>4. dayOf(hour) \in Nat /\ dayOf(hour') \in Nat /\ dayOf(hour) =< dayOf(hour')
  BY <1>2, <1>3, DayGrows
<1>5. Recording'
  <2>1. \A c \in recorded : c.at \in Nat /\ c.at =< hour'
    BY <1>2, <1>3 DEF HistoryInv, Recording
  <2>2. \A i \in incidents : i.at \in Nat /\ i.at =< hour'
    BY <1>2, <1>3 DEF HistoryInv, Recording
  <2>3. ASSUME NEW c \in recorded \ checks PROVE dayOf(c.at) + 1 < dayOf(hour')
    <3>1. dayOf(c.at) \in Nat
      BY DayGrows DEF HistoryInv, Recording
    <3>2. dayOf(c.at) + 1 < dayOf(hour)
      BY DEF HistoryInv, Recording
    <3> QED
      BY <1>4, <3>1, <3>2
  <2>4. checks \subseteq recorded
    BY DEF HistoryInv, Recording
  <2> QED
    BY <1>1, <1>3, <2>1, <2>2, <2>3, <2>4 DEF Recording
<1>6. \A d \in Nat : d =< dayOf(hour) => d =< dayOf(hour')
  BY <1>4
<1>7. \A d \in Nat : d < dayOf(hour) => d < dayOf(hour')
  BY <1>4
<1>8. Rolling(rollUp)'
  BY <1>1, <1>6, <1>7 DEF HistoryInv, Rolling
<1>9. Rolled'
  BY <1>1, <1>7, DaysAre DEF HistoryInv, Rolled
<1>10. RolledUp'
  BY <1>1 DEF HistoryInv, RolledUp
<1> QED
  BY <1>5, <1>8, <1>9, <1>10 DEF HistoryInv

(* What retention deletes is of a day that no roll-up reads any more.        *)
LEMMA PruneKeeps ==
  ASSUME HistoryInv, pruneOldChecks
  PROVE  HistoryInv'
<1>1. /\ checks' = {c \in checks : c.at >= cutoff}
      /\ hour' = hour /\ incidents' = incidents /\ daily' = daily /\ rollUp' = rollUp
      /\ recorded' = recorded /\ complete' = complete
  BY DEF pruneOldChecks
<1>2. ASSUME NEW c \in recorded \ checks' PROVE dayOf(c.at) + 1 < dayOf(hour)
  <2>1. CASE c \notin checks
    BY <2>1 DEF HistoryInv, Recording
  <2>2. CASE c \in checks
    <3>1. c.at \in Nat /\ hour \in Nat
      BY DEF HistoryInv, Recording
    <3>2. RetentionDays * HoursPerDay \in Nat
      BY HistoryAssumption DEF HistoryAssumption
    <3>3. ~(c.at >= hour - RetentionDays * HoursPerDay)
      BY <1>1, <2>2 DEF cutoff
    <3>4. c.at < hour - RetentionDays * HoursPerDay
      BY <3>1, <3>2, <3>3
    <3> QED
      BY <3>1, <3>4, DayFar
  <2> QED
    BY <2>1, <2>2
<1>3. Recording'
  <2>1. checks' \subseteq recorded
    BY <1>1 DEF HistoryInv, Recording
  <2> QED
    BY <1>1, <1>2, <2>1 DEF HistoryInv, Recording
<1>4. Rolling(rollUp)' /\ RolledUp' /\ Rolled'
  BY <1>1 DEF HistoryInv, Rolling, RolledUp, Rolled
<1> QED
  BY <1>3, <1>4 DEF HistoryInv

(* A group read from the checks is whole where the day is yesterday.         *)
LEMMA SelectIs ==
  ASSUME Recording, Rolled, NEW day \in Nat, NEW name,
         day =< dayOf(hour), dayOf(hour) =< day + 1
  PROVE  LET r == selectDay(day, name)
         IN  Rolling(r) /\ r.day = day /\ (day < dayOf(hour) => r.late)
             /\ r = [stage |-> r.stage, day |-> r.day, rows |-> r.rows, late |-> r.late]
<1> DEFINE r == selectDay(day, name)
<1>1. /\ r.day = day /\ r.late = (dayOf(hour) > day)
      /\ r.rows = {[api |-> api, found |-> ofDay(checks, api, day)] :
                     api \in {a \in HistoryApis : ofDay(checks, a, day) # {}}}
      /\ r = [stage |-> r.stage, day |-> r.day, rows |-> r.rows, late |-> r.late]
  BY DEF selectDay
<1> HIDE DEF r
<1>2. dayOf(hour) \in Nat /\ dayOf(hour) - 1 \in Days
  BY YesterdayIs
<1>3. \A row \in r.rows : /\ row.api \in HistoryApis /\ row.found # {}
                          /\ row.found = ofDay(checks, row.api, day)
  BY <1>1
<1>4. \A api \in HistoryApis : ofDay(checks, api, day) # {} => \E row \in r.rows : row.api = api
  <2> SUFFICES ASSUME NEW api \in HistoryApis, ofDay(checks, api, day) # {}
               PROVE  \E row \in r.rows : row.api = api
    OBVIOUS
  <2>1. [api |-> api, found |-> ofDay(checks, api, day)] \in r.rows
    BY <1>1
  <2> QED
    BY <2>1
<1>5. \A api : ofDay(checks, api, day) \subseteq ofDay(recorded, api, day)
  BY DEF Recording, ofDay
<1>6. day \in complete => day < dayOf(hour)
  BY DEF Rolled
<1>7. r.late <=> day < dayOf(hour)
  BY <1>1, <1>2
<1>8. ASSUME day < dayOf(hour)
      PROVE  /\ day \in Days
             /\ \A row \in r.rows : row.found = ofDay(recorded, row.api, day)
             /\ \A api \in HistoryApis :
                  \/ \E row \in r.rows : row.api = api
                  \/ daily[api][day] = DayRow(recorded, incidents, api, day)
  <2>1. day = dayOf(hour) - 1 /\ day \in Days
    BY <1>2, <1>8
  <2>2. \A c \in recorded \ checks : dayOf(c.at) # day
    <3> SUFFICES ASSUME NEW c \in recorded \ checks, dayOf(c.at) = day PROVE FALSE
      OBVIOUS
    <3>1. dayOf(c.at) + 1 < dayOf(hour)
      BY DEF Recording
    <3> QED
      BY <1>2, <2>1, <3>1
  <2>3. \A api : ofDay(checks, api, day) = ofDay(recorded, api, day)
    BY <1>5, <2>2 DEF ofDay
  <2>4. \A api \in HistoryApis :
          ofDay(recorded, api, day) = {} => daily[api][day] = DayRow(recorded, incidents, api, day)
    BY <2>1 DEF Rolled, DayRow
  <2> QED
    BY <1>3, <1>4, <2>1, <2>3, <2>4
<1>9. Rolling(r)
  BY <1>1, <1>3, <1>5, <1>6, <1>7, <1>8 DEF Rolling
<1> QED
  BY <1>1, <1>7, <1>9 DEF r

LEMMA TodayKeeps ==
  ASSUME HistoryInv, aggregateToday
  PROVE  HistoryInv'
<1>1. /\ rollUp' = selectDay(dayOf(hour), "today")
      /\ hour' = hour /\ checks' = checks /\ incidents' = incidents /\ daily' = daily
      /\ recorded' = recorded /\ complete' = complete
  BY DEF aggregateToday
<1>2. dayOf(hour) \in Nat /\ dayOf(hour) =< dayOf(hour) /\ dayOf(hour) =< dayOf(hour) + 1
  BY YesterdayIs DEF HistoryInv
<1>3. /\ Rolling(rollUp')
      /\ rollUp' = [stage |-> rollUp'.stage, day |-> rollUp'.day, rows |-> rollUp'.rows,
                    late |-> rollUp'.late]
  BY <1>1, <1>2, SelectIs DEF HistoryInv
<1>4. Rolling(rollUp)' /\ RolledUp'
  BY <1>1, <1>3 DEF Rolling, RolledUp
<1>5. Recording' /\ Rolled'
  BY <1>1 DEF HistoryInv, Recording, Rolled
<1> QED
  BY <1>4, <1>5 DEF HistoryInv

(* A day all of whose groups are written is rolled up.                       *)
LEMMA Completes ==
  ASSUME HistoryInv, rollUp.stage # "idle", rollUp.rows = {}, complete' = completed,
         UNCHANGED <<hour, checks, incidents, daily, recorded>>
  PROVE  Recording' /\ Rolled' /\ \A day \in complete' : day < dayOf(hour)
<1>1. Recording'
  BY DEF HistoryInv, Recording
<1>2. \A day \in complete : /\ day \in Days /\ day < dayOf(hour)
                            /\ \A api \in HistoryApis :
                                 daily[api][day] = DayRow(recorded, incidents, api, day)
  BY DEF HistoryInv, Rolled
<1>3. rollUp.late =>
        /\ rollUp.day \in Days /\ rollUp.day < dayOf(hour)
        /\ \A api \in HistoryApis : 
             daily[api][rollUp.day] = DayRow(recorded, incidents, api, rollUp.day)
  BY DEF HistoryInv, Rolling
<1>4. complete' = IF rollUp.late THEN complete \cup {rollUp.day} ELSE complete
  BY DEF completed
<1>5. \A day \in complete' : /\ day \in Days /\ day < dayOf(hour)
                             /\ \A api \in HistoryApis :
                                  daily[api][day] = DayRow(recorded, incidents, api, day)
  BY <1>2, <1>3, <1>4
<1> QED
  BY <1>1, <1>5 DEF HistoryInv, Rolled

LEMMA YesterdayKeeps ==
  ASSUME HistoryInv, aggregateYesterday
  PROVE  HistoryInv'
<1>1. /\ rollUp.stage # "idle" /\ rollUp.rows = {} /\ complete' = completed
      /\ rollUp' = selectDay(dayOf(hour) - 1, "yesterday")
      /\ hour' = hour /\ checks' = checks /\ incidents' = incidents /\ daily' = daily
      /\ recorded' = recorded
  BY DEF aggregateYesterday
<1>2. Recording' /\ Rolled' /\ \A day \in complete' : day < dayOf(hour)
  BY <1>1, Completes
<1>3. PICK d \in Nat : /\ d = dayOf(hour) - 1 /\ d =< dayOf(hour) /\ dayOf(hour) =< d + 1
                       /\ d < dayOf(hour)
  BY YesterdayIs, DaysAre DEF HistoryInv
<1>4. /\ Rolling(rollUp') /\ rollUp'.late
      /\ rollUp' = [stage |-> rollUp'.stage, day |-> rollUp'.day, rows |-> rollUp'.rows,
                    late |-> rollUp'.late]
  BY <1>1, <1>3, SelectIs DEF HistoryInv
<1>5. Rolling(rollUp)' /\ RolledUp'
  BY <1>1, <1>4 DEF Rolling, RolledUp
<1> QED
  BY <1>2, <1>5 DEF HistoryInv

(* Nothing is under way any more.                                            *)
LEMMA EndKeeps ==
  ASSUME HistoryInv, aggregateDone \/ aggregateFails
  PROVE  HistoryInv'
<1>1. rollUp' = NoRollUp /\ UNCHANGED <<hour, checks, incidents, daily, recorded>>
  BY DEF aggregateDone, aggregateFails
<1>2. Rolling(rollUp)' /\ RolledUp'
  BY <1>1 DEF Rolling, RolledUp, NoRollUp
<1>3. Recording' /\ Rolled'
  <2>1. CASE aggregateDone
    BY <2>1, Completes DEF aggregateDone
  <2>2. CASE aggregateFails
    BY <1>1, <2>2 DEF aggregateFails, HistoryInv, Recording, Rolled
  <2> QED
    BY <2>1, <2>2
<1> QED
  BY <1>2, <1>3 DEF HistoryInv

LEMMA Overwritten ==
  ASSUME NEW A, NEW B, NEW D, Table(D, A, B), NEW x \in A, NEW y, NEW v
  PROVE  /\ Table(Overwrite(D, x, y, v), A, B)
         /\ \A a \in A, b \in B :
              Overwrite(D, x, y, v)[a][b] = IF a = x /\ b = y THEN v ELSE D[a][b]
<1>0. PICK E : E = [D EXCEPT ![x][y] = v] /\ E = Overwrite(D, x, y, v)
  BY DEF Overwrite
<1>1. D = [a \in A |-> [b \in B |-> D[a][b]]] /\ \A a \in A : D[a] = [b \in B |-> D[a][b]]
  BY DEF Table
<1>2. E = [a \in A |-> IF a = x THEN [D[x] EXCEPT ![y] = v] ELSE D[a]]
  BY <1>0, <1>1
<1>3. [D[x] EXCEPT ![y] = v] = [b \in B |-> IF b = y THEN v ELSE D[x][b]]
  BY <1>1
<1>4. \A a \in A, b \in B : E[a][b] = IF a = x /\ b = y THEN v ELSE D[a][b]
  BY <1>1, <1>2, <1>3
<1>5. \A a \in A : E[a] = [b \in B |-> E[a][b]]
  BY <1>1, <1>2, <1>3
<1>6. E = [a \in A |-> E[a]]
  BY <1>2
<1>7. E = [a \in A |-> [b \in B |-> E[a][b]]]
  BY <1>5, <1>6
<1>8. Table(E, A, B)
  BY <1>7 DEF Table
<1> QED
  BY <1>0, <1>4, <1>8

(* A row written of a day that is over is the one it had or is to have.      *)
LEMMA UpsertKeeps ==
  ASSUME HistoryInv, upsertDay
  PROVE  HistoryInv'
<1>1. PICK row \in rollUp.rows :
        /\ rollUp.stage # "idle"
        /\ daily' = [daily EXCEPT ![row.api][rollUp.day] =
                       rowOf(row.found, ofDay(incidents, row.api, rollUp.day))]
        /\ rollUp' = [rollUp EXCEPT !.rows = @ \ {row}]
        /\ hour' = hour /\ checks' = checks /\ incidents' = incidents
        /\ recorded' = recorded /\ complete' = complete
  BY DEF upsertDay
<1> DEFINE new == rowOf(row.found, ofDay(incidents, row.api, rollUp.day))
<1>2. /\ rollUp'.stage = rollUp.stage /\ rollUp'.day = rollUp.day /\ rollUp'.late = rollUp.late
      /\ rollUp'.rows = rollUp.rows \ {row} /\ RolledUp'
  BY <1>1 DEF HistoryInv, RolledUp
<1>3. /\ row.api \in HistoryApis /\ row.found # {}
      /\ row.found \subseteq ofDay(recorded, row.api, rollUp.day)
  BY <1>1 DEF HistoryInv, Rolling
<1>4. Table(daily, HistoryApis, Days)
  BY DEF HistoryInv, Rolled
<1>5. /\ Table(daily', HistoryApis, Days)
      /\ \A a \in HistoryApis, day \in Days :
           daily'[a][day] = IF a = row.api /\ day = rollUp.day THEN new ELSE daily[a][day]
  <2>1. row.api \in HistoryApis
    BY <1>3
  <2>2. daily' = Overwrite(daily, row.api, rollUp.day, new)
    BY <1>1 DEF Overwrite
  <2> HIDE DEF new
  <2> QED
    BY <1>4, <2>1, <2>2, Overwritten
<1>6. rollUp.late => new = DayRow(recorded, incidents, row.api, rollUp.day)
  <2>1. rollUp.late => row.found = ofDay(recorded, row.api, rollUp.day)
    BY <1>1 DEF HistoryInv, Rolling
  <2> QED
    BY <1>3, <2>1 DEF DayRow
<1> HIDE DEF new
<1>7. Recording'
  BY <1>1 DEF HistoryInv, Recording
<1>8. Rolled'
  <2>1. ASSUME NEW a \in HistoryApis, NEW day \in Days, ofDay(recorded, a, day) = {}
        PROVE  daily'[a][day] = NoRow
    <3>1. ~(a = row.api /\ day = rollUp.day)
      BY <1>3, <2>1
    <3>2. daily[a][day] = NoRow
      BY <2>1 DEF HistoryInv, Rolled
    <3> QED
      BY <1>5, <3>1, <3>2
  <2>2. ASSUME NEW day \in complete, NEW a \in HistoryApis
        PROVE  daily'[a][day] = DayRow(recorded, incidents, a, day)
    <3>1. day \in Days /\ daily[a][day] = DayRow(recorded, incidents, a, day)
      BY DEF HistoryInv, Rolled
    <3>2. rollUp.day \in complete => rollUp.late
      BY <1>1 DEF HistoryInv, Rolling
    <3> QED
      BY <1>5, <1>6, <3>1, <3>2
  <2>3. \A day \in complete : day \in Days /\ day < dayOf(hour)
    BY DEF HistoryInv, Rolled
  <2> QED
    BY <1>1, <1>5, <2>1, <2>2, <2>3 DEF Rolled
<1>9. Rolling(rollUp)'
  <2>1. /\ rollUp.day \in Nat /\ rollUp.day =< dayOf(hour) /\ rollUp.late \in BOOLEAN
        /\ \A s \in rollUp.rows : /\ s.api \in HistoryApis /\ s.found # {}
                                  /\ s.found \subseteq ofDay(recorded, s.api, rollUp.day)
        /\ rollUp.day \in complete => rollUp.late
    BY <1>1 DEF HistoryInv, Rolling
  <2>2. ASSUME rollUp.late
        PROVE  /\ rollUp.day \in Days /\ rollUp.day < dayOf(hour)
               /\ \A s \in rollUp.rows : s.found = ofDay(recorded, s.api, rollUp.day)
               /\ \A a \in HistoryApis :
                    \/ \E s \in rollUp.rows : s.api = a
                    \/ daily[a][rollUp.day] = DayRow(recorded, incidents, a, rollUp.day)
    BY <1>1, <2>2 DEF HistoryInv, Rolling
  <2>3. ASSUME rollUp.late, NEW a \in HistoryApis
        PROVE  \/ \E s \in rollUp'.rows : s.api = a
               \/ daily'[a][rollUp.day] = DayRow(recorded, incidents, a, rollUp.day)
    <3>1. CASE a = row.api
      BY <1>5, <1>6, <2>2, <2>3, <3>1
    <3>2. CASE a # row.api
      BY <1>2, <1>5, <2>2, <2>3, <3>2
    <3> QED
      BY <3>1, <3>2
  <2> QED
    BY <1>1, <1>2, <2>1, <2>2, <2>3 DEF Rolling
<1> QED
  BY <1>2, <1>7, <1>8, <1>9 DEF HistoryInv

(* The history moves only while it is the subject.                           *)
LEMMA HistorySteps ==
  ASSUME [SubjectNext]_allVars
  PROVE  rollUpNext \/ UNCHANGED rollVars
<1>1. CASE SubjectNext
  <2>1. (StructuresNext \/ ServicesNext)
        /\ (subject \in {"rollUp", "popularity"} \/ UNCHANGED historyVars)
    BY <1>1 DEF SubjectNext, RestStays
  <2>2. ServicesNext /\ subject \in {"rollUp", "popularity"} => rollUpNext \/ popularityNext
    BY DEF ServicesNext
  <2>3. StructuresNext => subject \notin {"rollUp", "popularity"}
    BY DEF StructuresNext
  <2>4. popularityNext => UNCHANGED rollVars
    BY DEF popularityNext
  <2>5. UNCHANGED historyVars => UNCHANGED rollVars
    BY DEF historyVars
  <2> QED
    BY <2>1, <2>2, <2>3, <2>4, <2>5
<1>2. CASE UNCHANGED allVars
  BY <1>2 DEF allVars, historyVars
<1> QED
  BY <1>1, <1>2

LEMMA HistoryStep ==
  ASSUME HistoryInv, [SubjectNext]_allVars
  PROVE  HistoryInv'
<1>1. CASE rollUpNext
  <2>1. ASSUME NEW api, NEW ok, NEW opens, NEW latency, recordCheck(api, ok, latency, opens)
        PROVE  HistoryInv'
    BY <2>1, ProbeKeeps
  <2>2. ASSUME hourPasses \/ pruneOldChecks PROVE HistoryInv'
    BY <2>2, HourKeeps, PruneKeeps
  <2>3. ASSUME aggregateToday \/ aggregateYesterday \/ aggregateDone \/ aggregateFails
        PROVE  HistoryInv'
    BY <2>3, TodayKeeps, YesterdayKeeps, EndKeeps
  <2>4. ASSUME upsertDay PROVE HistoryInv'
    BY <2>4, UpsertKeeps
  <2> QED
    BY <1>1, <2>1, <2>2, <2>3, <2>4 DEF rollUpNext
<1>2. CASE UNCHANGED rollVars
  <2>1. UNCHANGED <<hour, checks, incidents, daily, rollUp, recorded, complete>>
    BY <1>2 DEF rollVars
  <2> QED
    BY <2>1 DEF HistoryInv, Recording, Rolling, RolledUp, Rolled
<1> QED
  BY <1>1, <1>2, HistorySteps

(* What has been rolled up is what was recorded.                             *)
LEMMA HistoryIsKept == HistoryInv => FinishedDaysKept
  BY DEF HistoryInv, Rolled, FinishedDaysKept, DayRow

LEMMA HistoryBegins == SubjectInit => HistoryInv
  BY HistoryStarts DEF SubjectInit

-----------------------------------------------------------------------------
(* The inverted index                                                        *)

(* The documents whose present text has a term.                              *)
Having(t) == {id \in DOMAIN texts : t \in DOMAIN texts[id]}

(* The postings of a term are the documents that have it, with the           *)
(* frequency it has there; a term that none has is not listed.               *)
IndexInv ==
  /\ DOMAIN documents = DOMAIN texts
  /\ \A id \in DOMAIN texts : /\ documents[id].terms = DOMAIN texts[id]
                              /\ DOMAIN texts[id] \subseteq IndexTerms
  /\ DOMAIN postings = {t \in IndexTerms : Having(t) # {}}
  /\ \A t \in DOMAIN postings :
       DOMAIN postings[t] = Having(t) /\ \A id \in Having(t) : postings[t][id] = texts[id][t]

(* remove() takes a document out of every posting list it is in.             *)
Unlisted(kept, id) ==
  /\ DOMAIN kept = {t \in IndexTerms : Having(t) \ {id} # {}}
  /\ \A t \in DOMAIN kept :
       /\ DOMAIN kept[t] = Having(t) \ {id}
       /\ \A j \in Having(t) \ {id} : kept[t][j] = texts[j][t]

LEMMA WithoutIs ==
  ASSUME IndexInv, NEW id
  PROVE  Unlisted(postingsWithout(id), id)
<1>0. PICK kept : kept = postingsWithout(id)
  OBVIOUS
<1> DEFINE own == IF id \in DOMAIN documents THEN documents[id].terms ELSE {}
<1> DEFINE left == [t \in DOMAIN postings |->
                      IF t \in own THEN Restrict(postings[t], DOMAIN postings[t] \ {id}) ELSE postings[t]]
<1>1. kept = [t \in {t \in DOMAIN left : DOMAIN left[t] # {}} |-> left[t]]
  BY <1>0 DEF postingsWithout, Restrict
<1>2. DOMAIN left = DOMAIN postings
  OBVIOUS
<1>3. \A t \in DOMAIN postings : t \notin own => id \notin Having(t)
  BY DEF IndexInv, Having
<1>4. \A t \in DOMAIN postings :
        DOMAIN left[t] = Having(t) \ {id} /\ \A j \in Having(t) \ {id} : left[t][j] = texts[j][t]
  <2> SUFFICES ASSUME NEW t \in DOMAIN postings
               PROVE  /\ DOMAIN left[t] = Having(t) \ {id}
                      /\ \A j \in Having(t) \ {id} : left[t][j] = texts[j][t]
    OBVIOUS
  <2>1. DOMAIN postings[t] = Having(t) /\ \A j \in Having(t) : postings[t][j] = texts[j][t]
    BY DEF IndexInv
  <2>2. CASE t \in own
    <3>1. left[t] = [j \in Having(t) \ {id} |-> postings[t][j]]
      BY <2>1, <2>2 DEF Restrict
    <3> QED
      BY <2>1, <3>1
  <2>3. CASE t \notin own
    <3>1. left[t] = postings[t]
      BY <2>3
    <3> QED
      BY <1>3, <2>1, <2>3, <3>1
  <2> QED
    BY <2>2, <2>3
<1> HIDE DEF left, own
<1>5. DOMAIN kept = {t \in DOMAIN postings : Having(t) \ {id} # {}}
  BY <1>1, <1>2, <1>4
<1>6. \A t \in DOMAIN kept : kept[t] = left[t]
  BY <1>1
<1>7. Unlisted(kept, id)
  BY <1>2, <1>4, <1>5, <1>6 DEF IndexInv, Unlisted
<1> QED
  BY <1>0, <1>7

LEMMA RemoveIndexes ==
  ASSUME IndexInv, NEW id, indexRemove(id)
  PROVE  IndexInv'
<1>1. PICK kept : kept = postingsWithout(id) /\ postings' = kept
  BY DEF indexRemove
<1>2. /\ DOMAIN kept = {t \in IndexTerms : Having(t) \ {id} # {}}
      /\ \A t \in DOMAIN kept :
           /\ DOMAIN kept[t] = Having(t) \ {id}
           /\ \A j \in Having(t) \ {id} : kept[t][j] = texts[j][t]
  <2>1. Unlisted(kept, id)
    BY <1>1, WithoutIs
  <2> QED
    BY <2>1 DEF Unlisted
<1>3. /\ documents' = [j \in DOMAIN documents \ {id} |-> documents[j]]
      /\ texts' = [j \in DOMAIN texts \ {id} |-> texts[j]]
  BY DEF indexRemove, Restrict
<1>4. \A t : Having(t)' = Having(t) \ {id}
  BY <1>3 DEF Having
<1>5. /\ DOMAIN documents' = DOMAIN texts'
      /\ \A j \in DOMAIN texts' : /\ documents'[j].terms = DOMAIN texts'[j]
                                  /\ DOMAIN texts'[j] \subseteq IndexTerms
  BY <1>3 DEF IndexInv
<1>6. \A t, j : j \in Having(t) \ {id} => texts'[j] = texts[j]
  BY <1>3 DEF Having
<1>7. DOMAIN postings' = {t \in IndexTerms : Having(t)' # {}}
  BY <1>1, <1>2, <1>4
<1>8. \A t \in DOMAIN postings' :
        DOMAIN postings'[t] = Having(t)' /\ \A j \in Having(t)' : postings'[t][j] = texts'[j][t]
  <2> SUFFICES ASSUME NEW t \in DOMAIN postings'
               PROVE  /\ DOMAIN postings'[t] = Having(t)'
                      /\ \A j \in Having(t)' : postings'[t][j] = texts'[j][t]
    OBVIOUS
  <2>1. postings'[t] = kept[t] /\ t \in DOMAIN kept
    BY <1>1
  <2>2. Having(t)' = Having(t) \ {id}
    BY <1>4
  <2>3. DOMAIN kept[t] = Having(t) \ {id} /\ \A j \in Having(t) \ {id} : kept[t][j] = texts[j][t]
    BY <1>2, <2>1
  <2>4. \A j \in Having(t) \ {id} : texts'[j] = texts[j]
    BY <1>6
  <2> QED
    BY <2>1, <2>2, <2>3, <2>4
<1> QED
  BY <1>5, <1>7, <1>8 DEF IndexInv

LEMMA AddIndexes ==
  ASSUME IndexInv, NEW id, NEW text \in Texts, indexAdd(id, text)
  PROVE  IndexInv'
<1> DEFINE bucket(kept, t) == IF t \in DOMAIN kept THEN kept[t] ELSE <<>>
<1>1. PICK kept :
        /\ kept = postingsWithout(id)
        /\ postings' = [t \in DOMAIN kept \cup DOMAIN text |->
                          IF t \in DOMAIN text THEN put(bucket(kept, t), id, text[t]) ELSE kept[t]]
  BY DEF indexAdd
<1>2. /\ DOMAIN kept = {t \in IndexTerms : Having(t) \ {id} # {}}
      /\ \A t \in DOMAIN kept :
           /\ DOMAIN kept[t] = Having(t) \ {id}
           /\ \A j \in Having(t) \ {id} : kept[t][j] = texts[j][t]
  <2>1. Unlisted(kept, id)
    BY <1>1, WithoutIs
  <2> QED
    BY <2>1 DEF Unlisted
<1>3. DOMAIN text \subseteq IndexTerms
  BY DEF Texts
<1>4. /\ DOMAIN documents' = DOMAIN documents \cup {id} /\ documents'[id].terms = DOMAIN text
      /\ \A j \in DOMAIN documents \ {id} : documents'[j] = documents[j]
  BY DEF indexAdd, put
<1>5. /\ DOMAIN texts' = DOMAIN texts \cup {id} /\ texts'[id] = text
      /\ \A j \in DOMAIN texts \ {id} : texts'[j] = texts[j]
  BY DEF indexAdd, put
<1>6. \A t : Having(t)' = (Having(t) \ {id}) \cup (IF t \in DOMAIN text THEN {id} ELSE {})
  BY <1>5 DEF Having
<1>7. /\ DOMAIN documents' = DOMAIN texts'
      /\ \A j \in DOMAIN texts' : /\ documents'[j].terms = DOMAIN texts'[j]
                                  /\ DOMAIN texts'[j] \subseteq IndexTerms
  BY <1>3, <1>4, <1>5 DEF IndexInv
<1>8. DOMAIN postings' = {t \in IndexTerms : Having(t)' # {}}
  BY <1>1, <1>2, <1>3, <1>6
<1>9. ASSUME NEW t \in DOMAIN postings'
      PROVE  DOMAIN postings'[t] = Having(t)' /\ \A j \in Having(t)' : postings'[t][j] = texts'[j][t]
  <2>1. \A j \in Having(t) \ {id} : texts'[j] = texts[j]
    BY <1>5 DEF Having
  <2>2. CASE t \in DOMAIN text
    <3>1. /\ DOMAIN bucket(kept, t) = Having(t) \ {id}
          /\ \A j \in Having(t) \ {id} : bucket(kept, t)[j] = texts[j][t]
      <4>1. CASE t \in DOMAIN kept
        BY <1>2, <4>1
      <4>2. CASE t \notin DOMAIN kept
        <5>1. Having(t) \ {id} = {}
          BY <1>2, <1>3, <2>2, <4>2
        <5>2. DOMAIN bucket(kept, t) = {}
          BY <4>2
        <5> QED
          BY <5>1, <5>2
      <4> QED
        BY <4>1, <4>2
    <3>2. postings'[t] = put(bucket(kept, t), id, text[t])
      BY <1>1, <2>2
    <3> HIDE DEF bucket
    <3>3. postings'[t] = [j \in (Having(t) \ {id}) \cup {id} |->
                            IF j = id THEN text[t] ELSE bucket(kept, t)[j]]
      BY <3>1, <3>2 DEF put
    <3>4. Having(t)' = (Having(t) \ {id}) \cup {id}
      BY <1>6, <2>2
    <3> QED
      BY <1>5, <2>1, <3>1, <3>3, <3>4
  <2>3. CASE t \notin DOMAIN text
    <3>1. t \in DOMAIN kept /\ postings'[t] = kept[t]
      BY <1>1, <2>3
    <3>2. Having(t)' = Having(t) \ {id}
      BY <1>6, <2>3
    <3> QED
      BY <1>2, <2>1, <3>1, <3>2
  <2> QED
    BY <2>2, <2>3
<1> QED
  BY <1>7, <1>8, <1>9 DEF IndexInv

LEMMA ClearIndexes ==
  ASSUME postings = <<>>, documents = <<>>, texts = <<>>
  PROVE  IndexInv
<1>1. DOMAIN postings = {} /\ DOMAIN documents = {} /\ DOMAIN texts = {}
  OBVIOUS
<1> QED
  BY <1>1 DEF IndexInv, Having

(* A search reads the texts.                                                 *)
LEMMA IndexFinds == IndexInv => PresentTextFound
<1> SUFFICES ASSUME IndexInv PROVE PresentTextFound
  OBVIOUS
<1>1. \A id \in DOMAIN texts, q \in SUBSET IndexTerms : matched(id, q) = q \cap DOMAIN texts[id]
  BY DEF IndexInv, matched, Having
<1>2. ASSUME NEW q \in SUBSET IndexTerms
      PROVE  /\ searchIndex(q, FALSE) = {id \in DOMAIN texts : q \cap DOMAIN texts[id] # {}}
             /\ q # {} => searchIndex(q, TRUE) = {id \in DOMAIN texts : q \subseteq DOMAIN texts[id]}
  <2>1. searchIndex(q, FALSE) = {id \in DOMAIN texts : q \cap DOMAIN texts[id] # {}}
    BY <1>1 DEF IndexInv, searchIndex
  <2>2. ASSUME NEW id \in DOMAIN texts
        PROVE  Cardinality(matched(id, q)) >= Cardinality(q) <=> q \subseteq DOMAIN texts[id]
    <3>1. IsFiniteSet(q)
      BY IndexAssumption, FS_Subset DEF IndexAssumption
    <3>2. PICK m : m = matched(id, q) /\ m = q \cap DOMAIN texts[id]
      BY <1>1, <2>2
    <3>3. m \subseteq q
      BY <3>2
    <3>4. /\ Cardinality(q) \in Nat /\ Cardinality(m) \in Nat /\ Cardinality(m) =< Cardinality(q)
          /\ (Cardinality(m) = Cardinality(q) => m = q)
      BY <3>1, <3>3, FS_CardinalityType, FS_Subset
    <3>5. Cardinality(m) >= Cardinality(q) <=> m = q
      BY <3>4
    <3> QED
      BY <3>2, <3>5
  <2>3. q # {} => searchIndex(q, TRUE) = {id \in DOMAIN texts : q \subseteq DOMAIN texts[id]}
    BY <2>2 DEF IndexInv, searchIndex
  <2> QED
    BY <2>1, <2>3
<1>3. DOMAIN postings = UNION {DOMAIN texts[id] : id \in DOMAIN texts}
  BY DEF IndexInv, Having
<1>4. \A t \in DOMAIN postings : \A id \in DOMAIN postings[t] : postings[t][id] = texts[id][t]
  BY DEF IndexInv
<1> QED
  BY <1>2, <1>3, <1>4 DEF PresentTextFound

(* The index moves only while it is the subject.                             *)
LEMMA IndexSteps ==
  ASSUME [SubjectNext]_allVars
  PROVE  indexNext \/ UNCHANGED indexVars
<1>1. CASE SubjectNext
  <2>1. (StructuresNext \/ ServicesNext) /\ (subject = "index" \/ UNCHANGED indexVars)
    BY <1>1 DEF SubjectNext, RestStays
  <2>2. StructuresNext /\ subject = "index" => indexNext
    BY DEF StructuresNext
  <2>3. ServicesNext => subject # "index"
    BY DEF ServicesNext
  <2> QED
    BY <2>1, <2>2, <2>3
<1>2. CASE UNCHANGED allVars
  BY <1>2 DEF allVars
<1> QED
  BY <1>1, <1>2

(* For any documents and any finite vocabulary, whatever is added, replaced  *)
(* and removed: a search finds exactly the documents whose present text has  *)
(* one of the terms, or all of them, and the postings are those of the       *)
(* present texts (inverted-index.ts:106-167).                                *)
THEOREM SearchFindsText == SubjectSpec => []PresentTextFound
<1>1. SubjectInit => IndexInv
  BY ClearIndexes DEF SubjectInit, indexInit
<1>2. IndexInv /\ [SubjectNext]_allVars => IndexInv'
  <2> SUFFICES ASSUME IndexInv, [SubjectNext]_allVars PROVE IndexInv'
    OBVIOUS
  <2>1. ASSUME NEW id, indexRemove(id) PROVE IndexInv'
    BY <2>1, RemoveIndexes
  <2>2. ASSUME NEW id, NEW text \in Texts, indexAdd(id, text) PROVE IndexInv'
    BY <2>2, AddIndexes
  <2>3. ASSUME indexClear PROVE IndexInv'
    <3>1. DOMAIN postings' = {} /\ DOMAIN documents' = {} /\ DOMAIN texts' = {}
      BY <2>3 DEF indexClear
    <3> QED
      BY <3>1 DEF IndexInv, Having
  <2>4. CASE UNCHANGED indexVars
    BY <2>4 DEF indexVars, IndexInv, Having
  <2> QED
    BY <2>1, <2>2, <2>3, <2>4, IndexSteps DEF indexNext
<1> QED
  BY <1>1, <1>2, IndexFinds, PTL DEF SubjectSpec

-----------------------------------------------------------------------------
(* The reliability score                                                     *)

(* What is known of an API.                                                  *)
ScoringInv ==
  record \in [uptime : 0..Whole \cup {Unmeasured}, successRate : 0..Whole \cup {Unmeasured},
              latency : Nat \cup {Unmeasured}, age : Nat \cup {Unmeasured}, incidents : Nat]

(* The five dimensions of a score, and their weighted and rounded sum.       *)
SumOf(share, rate, speed, age, trouble) ==
  50 * share + 20 * rate + 15 * speed + 10 * age + 5 * (Whole - trouble)
Tenths(sum) == (2 * sum + Whole \div 10) \div (Whole \div 5)
speedOf(latency) == orNeutral(latencyScore(latency))
troubleOf(count) == unit(count * (Whole \div 5))

LEMMA ReliabilityIs ==
  ASSUME NEW r
  PROVE  computeReliability(r) =
           Tenths(SumOf(orNeutral(r.uptime), orNeutral(r.successRate), speedOf(r.latency),
                   measurementFreshness(r.age), troubleOf(r.incidents)))
  BY DEF computeReliability, Tenths, SumOf, speedOf, troubleOf

(* Rounding keeps the order.                                                 *)
LEMMA TenthsGrow ==
  ASSUME NEW a \in Nat, NEW b \in Nat, a =< b, b =< 240000
  PROVE  Tenths(a) \in 0..1000 /\ Tenths(a) =< Tenths(b)
<1>1. Whole \div 10 = 240 /\ Whole \div 5 = 480
  BY DEF Whole
<1>2. Tenths(a) = (2 * a + 240) \div 480 /\ Tenths(b) = (2 * b + 240) \div 480
  BY <1>1 DEF Tenths
<1>3. (2 * a + 240) \div 480 \in 0..1000 /\ (2 * a + 240) \div 480 =< (2 * b + 240) \div 480
  BY SMT
<1> QED
  BY <1>2, <1>3

LEMMA TenthsAre ==
  ASSUME NEW a \in Nat, a =< 240000
  PROVE  Tenths(a) \in 0..1000
<1>1. Whole \div 10 = 240 /\ Whole \div 5 = 480
  BY DEF Whole
<1>2. Tenths(a) = (2 * a + 240) \div 480
  BY <1>1 DEF Tenths
<1>3. (2 * a + 240) \div 480 \in 0..1000
  BY SMT
<1> QED
  BY <1>2, <1>3

LEMMA SharesAre ==
  ASSUME NEW share \in 0..Whole \cup {Unmeasured}
  PROVE  orNeutral(share) \in 0..Whole
  BY DEF orNeutral, Unmeasured, Whole

(* A slower API is no better, nor is one that was checked longer ago, nor    *)
(* one with more incidents.                                                  *)
LEMMA SpeedIs ==
  ASSUME NEW latency \in Nat \cup {Unmeasured}
  PROVE  /\ speedOf(latency) \in 0..Whole
         /\ \A slower \in Nat :
              slower >= (IF latency = Unmeasured THEN 1500 ELSE latency) =>
                speedOf(slower) =< speedOf(latency)
<1>1. speedOf(Unmeasured) = 1200
  BY DEF speedOf, latencyScore, orNeutral, Unmeasured, Whole
<1>2. \A n \in Nat : speedOf(n) = IF 2400 - ((n * 2400) \div 3000) < 0 THEN 0
                                  ELSE 2400 - ((n * 2400) \div 3000)
  BY DEF speedOf, latencyScore, orNeutral, unit, Unmeasured, Whole
<1>3. \A n \in Nat : (n * 2400) \div 3000 \in Nat
  OBVIOUS
<1>4. \A n, k \in Nat : n =< k => (n * 2400) \div 3000 =< (k * 2400) \div 3000
  OBVIOUS
<1>5. \A n \in Nat : n >= 1500 => (n * 2400) \div 3000 >= 1200
  OBVIOUS
<1>6. CASE latency = Unmeasured
  BY <1>1, <1>2, <1>3, <1>5, <1>6 DEF Whole
<1>7. CASE latency # Unmeasured
  <2>1. latency \in Nat
    BY <1>7
  <2>2. speedOf(latency) \in 0..2400
    <3>1. PICK d \in Nat : d = (latency * 2400) \div 3000
      BY <1>3, <2>1
    <3>2. speedOf(latency) = IF 2400 - d < 0 THEN 0 ELSE 2400 - d
      BY <1>2, <2>1, <3>1
    <3> QED
      BY <3>2
  <2>3. ASSUME NEW slower \in Nat, slower >= latency PROVE speedOf(slower) =< speedOf(latency)
    BY <1>2, <1>3, <1>4, <2>1, <2>3
  <2> QED
    BY <1>7, <2>2, <2>3 DEF Whole
<1> QED
  BY <1>6, <1>7

LEMMA FreshnessIs ==
  ASSUME NEW age \in Nat \cup {Unmeasured}
  PROVE  /\ measurementFreshness(age) \in 0..Whole
         /\ \A older \in Nat : age # Unmeasured /\ older >= age =>
              measurementFreshness(older) =< measurementFreshness(age)
<1>1. \A n \in Nat : measurementFreshness(n) =
        IF n =< 1 THEN 2400 ELSE IF 2400 - n * 100 < 0 THEN 0 ELSE 2400 - n * 100
  <2>1. \A n \in Nat : (n * 2400) \div 24 = n * 100
    OBVIOUS
  <2> QED
    BY <2>1 DEF measurementFreshness, unit, Unmeasured, Whole
<1>2. measurementFreshness(Unmeasured) = 0
  BY DEF measurementFreshness
<1> QED
  BY <1>1, <1>2 DEF Whole, Unmeasured

LEMMA TroubleIs ==
  ASSUME NEW count \in Nat
  PROVE  troubleOf(count) \in 0..Whole /\ \A more \in Nat : more >= count => troubleOf(count) =< troubleOf(more)
<1>1. Whole \div 5 = 480
  BY DEF Whole
<1>2. \A n \in Nat : troubleOf(n) = IF n * 480 > 2400 THEN 2400 ELSE n * 480
  BY <1>1 DEF troubleOf, unit, Whole
<1> QED
  BY <1>2 DEF Whole

(* A record with one dimension replaced differs in that one.                 *)
LEMMA RecordIs ==
  ASSUME ScoringInv
  PROVE  /\ orNeutral(record.uptime) \in 0..Whole /\ orNeutral(record.successRate) \in 0..Whole
         /\ speedOf(record.latency) \in 0..Whole /\ measurementFreshness(record.age) \in 0..Whole
         /\ troubleOf(record.incidents) \in 0..Whole
  BY SharesAre, SpeedIs, FreshnessIs, TroubleIs DEF ScoringInv

(* The score of any record is fair.                                          *)
LEMMA ScoreIsFair == ScoringInv => ScoresFair
<1> SUFFICES ASSUME ScoringInv PROVE ScoresFair
  OBVIOUS
<1> DEFINE u == orNeutral(record.uptime)
<1> DEFINE s == orNeutral(record.successRate)
<1> DEFINE l == speedOf(record.latency)
<1> DEFINE f == measurementFreshness(record.age)
<1> DEFINE i == troubleOf(record.incidents)
<1>1. u \in 0..Whole /\ s \in 0..Whole /\ l \in 0..Whole /\ f \in 0..Whole /\ i \in 0..Whole
  BY RecordIs
<1>2. computeReliability(record) = Tenths(SumOf(u, s, l, f, i))
  BY ReliabilityIs
<1>3. /\ Shares \subseteq 0..Whole /\ AvgLatencies \subseteq Nat
      /\ HoursSince \subseteq Nat /\ IncidentCounts \subseteq Nat
  BY ScoringAssumption DEF ScoringAssumption
<1>4. ScoringInv /\ Whole \in Nat
  BY DEF Whole
<1>5. \A x \in 0..Whole : orNeutral(x) = x
  BY DEF orNeutral, Unmeasured, Whole
<1>6. ASSUME NEW share \in Shares, share =< u
      PROVE  computeReliability([record EXCEPT !.uptime = share]) =< computeReliability(record)
  <2>1. computeReliability([record EXCEPT !.uptime = share]) = Tenths(SumOf(share, s, l, f, i))
    <3>1. PICK r : r = [record EXCEPT !.uptime = share]
      OBVIOUS
    <3>2. /\ r.uptime = share /\ r.successRate = record.successRate /\ r.latency = record.latency
          /\ r.age = record.age /\ r.incidents = record.incidents
      BY <3>1 DEF ScoringInv
    <3>3. orNeutral(share) = share
      BY <1>3, <1>5
    <3> QED
      BY <3>1, <3>2, <3>3, ReliabilityIs
  <2>2. share \in 0..Whole
    BY <1>3
  <2> HIDE DEF u, s, l, f, i
  <2>3. SumOf(share, s, l, f, i) \in Nat /\ SumOf(u, s, l, f, i) \in Nat
        /\ SumOf(share, s, l, f, i) =< SumOf(u, s, l, f, i) /\ SumOf(u, s, l, f, i) =< 240000
    BY <1>1, <2>2, <1>6, SMT DEF SumOf, Whole
  <2> QED
    BY <1>2, <2>1, <2>3, TenthsGrow
<1>7. ASSUME NEW share \in Shares, share =< s
      PROVE  computeReliability([record EXCEPT !.successRate = share]) =< computeReliability(record)
  <2>1. computeReliability([record EXCEPT !.successRate = share]) = Tenths(SumOf(u, share, l, f, i))
    <3>1. PICK r : r = [record EXCEPT !.successRate = share]
      OBVIOUS
    <3>2. /\ r.uptime = record.uptime /\ r.successRate = share /\ r.latency = record.latency
          /\ r.age = record.age /\ r.incidents = record.incidents
      BY <3>1 DEF ScoringInv
    <3>3. orNeutral(share) = share
      BY <1>3, <1>5
    <3> QED
      BY <3>1, <3>2, <3>3, ReliabilityIs
  <2>2. share \in 0..Whole
    BY <1>3
  <2> HIDE DEF u, s, l, f, i
  <2>3. SumOf(u, share, l, f, i) \in Nat /\ SumOf(u, s, l, f, i) \in Nat
        /\ SumOf(u, share, l, f, i) =< SumOf(u, s, l, f, i) /\ SumOf(u, s, l, f, i) =< 240000
    BY <1>1, <2>2, <1>7, SMT DEF SumOf, Whole
  <2> QED
    BY <1>2, <2>1, <2>3, TenthsGrow
<1>8. ASSUME NEW latency \in AvgLatencies,
             latency >= (IF record.latency = Unmeasured THEN 1500 ELSE record.latency)
      PROVE  computeReliability([record EXCEPT !.latency = latency]) =< computeReliability(record)
  <2>1. computeReliability([record EXCEPT !.latency = latency]) =
          Tenths(SumOf(u, s, speedOf(latency), f, i))
    <3>1. PICK r : r = [record EXCEPT !.latency = latency]
      OBVIOUS
    <3>2. /\ r.uptime = record.uptime /\ r.successRate = record.successRate /\ r.latency = latency
          /\ r.age = record.age /\ r.incidents = record.incidents
      BY <3>1 DEF ScoringInv
    <3> QED
      BY <3>1, <3>2, ReliabilityIs
  <2>2. speedOf(latency) \in 0..Whole /\ speedOf(latency) =< l
    <3>1. latency \in Nat /\ record.latency \in Nat \cup {Unmeasured}
      BY <1>3 DEF ScoringInv
    <3>2. PICK n \in Nat \cup {Unmeasured} : n = record.latency
      BY <3>1
    <3>3. latency >= (IF n = Unmeasured THEN 1500 ELSE n)
      BY <1>8, <3>2
    <3>4. speedOf(latency) =< speedOf(n)
      BY <3>1, <3>3, SpeedIs
    <3>5. speedOf(latency) \in 0..Whole
      BY <3>1, SpeedIs
    <3> QED
      BY <3>2, <3>4, <3>5
  <2> HIDE DEF u, s, l, f, i
  <2>3. PICK x : x = speedOf(latency)
    OBVIOUS
  <2>4. x \in 0..Whole /\ x =< l
    BY <2>2, <2>3
  <2>5. SumOf(u, s, x, f, i) \in Nat /\ SumOf(u, s, l, f, i) \in Nat
        /\ SumOf(u, s, x, f, i) =< SumOf(u, s, l, f, i) /\ SumOf(u, s, l, f, i) =< 240000
    BY <1>1, <2>4, SMT DEF SumOf, Whole
  <2> QED
    BY <1>2, <2>1, <2>3, <2>5, TenthsGrow
<1>9. ASSUME NEW age \in HoursSince, record.age # Unmeasured, age >= record.age
      PROVE  computeReliability([record EXCEPT !.age = age]) =< computeReliability(record)
  <2>1. computeReliability([record EXCEPT !.age = age]) =
          Tenths(SumOf(u, s, l, measurementFreshness(age), i))
    <3>1. PICK r : r = [record EXCEPT !.age = age]
      OBVIOUS
    <3>2. /\ r.uptime = record.uptime /\ r.successRate = record.successRate
          /\ r.latency = record.latency /\ r.age = age /\ r.incidents = record.incidents
      BY <3>1 DEF ScoringInv
    <3> QED
      BY <3>1, <3>2, ReliabilityIs
  <2>2. measurementFreshness(age) \in 0..Whole /\ measurementFreshness(age) =< f
    <3>1. age \in Nat /\ record.age \in Nat \cup {Unmeasured}
      BY <1>3 DEF ScoringInv
    <3> QED
      BY <1>9, <3>1, FreshnessIs
  <2> HIDE DEF u, s, l, f, i
  <2>3. PICK x : x = measurementFreshness(age)
    OBVIOUS
  <2>4. x \in 0..Whole /\ x =< f
    BY <2>2, <2>3
  <2>5. SumOf(u, s, l, x, i) \in Nat /\ SumOf(u, s, l, f, i) \in Nat
        /\ SumOf(u, s, l, x, i) =< SumOf(u, s, l, f, i) /\ SumOf(u, s, l, f, i) =< 240000
    BY <1>1, <2>4, SMT DEF SumOf, Whole
  <2> QED
    BY <1>2, <2>1, <2>3, <2>5, TenthsGrow
<1>10. ASSUME NEW count \in IncidentCounts, count >= record.incidents
       PROVE  computeReliability([record EXCEPT !.incidents = count]) =< computeReliability(record)
  <2>1. computeReliability([record EXCEPT !.incidents = count]) =
          Tenths(SumOf(u, s, l, f, troubleOf(count)))
    <3>1. PICK r : r = [record EXCEPT !.incidents = count]
      OBVIOUS
    <3>2. /\ r.uptime = record.uptime /\ r.successRate = record.successRate
          /\ r.latency = record.latency /\ r.age = record.age /\ r.incidents = count
      BY <3>1 DEF ScoringInv
    <3> QED
      BY <3>1, <3>2, ReliabilityIs
  <2>2. troubleOf(count) \in 0..Whole /\ troubleOf(count) >= i
    <3>1. count \in Nat /\ record.incidents \in Nat
      BY <1>3 DEF ScoringInv
    <3>2. troubleOf(count) \in 0..Whole /\ i \in 0..Whole /\ i =< troubleOf(count)
      BY <1>10, <3>1, TroubleIs
    <3> QED
      BY <3>2, <1>4
  <2> HIDE DEF u, s, l, f, i
  <2>3. PICK x : x = troubleOf(count)
    OBVIOUS
  <2>4. x \in 0..Whole /\ x >= i
    BY <2>2, <2>3
  <2>5. SumOf(u, s, l, f, x) \in Nat /\ SumOf(u, s, l, f, i) \in Nat
        /\ SumOf(u, s, l, f, x) =< SumOf(u, s, l, f, i) /\ SumOf(u, s, l, f, i) =< 240000
    BY <1>1, <2>4, SMT DEF SumOf, Whole
  <2> QED
    BY <1>2, <2>1, <2>3, <2>5, TenthsGrow
<1>11. ASSUME record.uptime = 0, record.successRate = 0
       PROVE  computeReliability(Blank) > computeReliability(record)
  <2>1. computeReliability(Blank) = Tenths(SumOf(1200, 1200, 1200, 0, 0))
    <3>1. orNeutral(Unmeasured) = 1200 /\ speedOf(Unmeasured) = 1200
      BY DEF orNeutral, speedOf, latencyScore, Unmeasured, Whole
    <3>2. measurementFreshness(Unmeasured) = 0 /\ troubleOf(0) = 0
      BY DEF measurementFreshness, troubleOf, unit, Whole
    <3>3. /\ Blank.uptime = Unmeasured /\ Blank.successRate = Unmeasured
          /\ Blank.latency = Unmeasured /\ Blank.age = Unmeasured /\ Blank.incidents = 0
      BY DEF Blank
    <3> QED
      BY <3>1, <3>2, <3>3, ReliabilityIs
  <2>2. Tenths(SumOf(1200, 1200, 1200, 0, 0)) = 475
    BY DEF Tenths, SumOf, Whole
  <2>3. u = 0 /\ s = 0
    BY <1>4, <1>5, <1>11
  <2> HIDE DEF u, s, l, f, i
  <2>4. Tenths(SumOf(0, 0, l, f, i)) =< Tenths(SumOf(0, 0, Whole, Whole, 0))
        /\ Tenths(SumOf(0, 0, l, f, i)) \in 0..1000
    <3>1. /\ SumOf(0, 0, l, f, i) \in Nat /\ SumOf(0, 0, Whole, Whole, 0) \in Nat
          /\ SumOf(0, 0, l, f, i) =< SumOf(0, 0, Whole, Whole, 0)
          /\ SumOf(0, 0, Whole, Whole, 0) =< 240000
      BY <1>1, SMT DEF SumOf, Whole
    <3> QED
      BY <3>1, TenthsGrow
  <2>5. Tenths(SumOf(0, 0, Whole, Whole, 0)) = 300
    BY DEF Tenths, SumOf, Whole
  <2> QED
    BY <1>2, <2>1, <2>2, <2>3, <2>4, <2>5
<1>12. computeReliability(record) \in 0..1000
  <2> HIDE DEF u, s, l, f, i
  <2>1. /\ SumOf(u, s, l, f, i) \in Nat /\ SumOf(u, s, l, f, i) =< SumOf(u, s, l, f, i)
        /\ SumOf(u, s, l, f, i) =< 240000
    BY <1>1, SMT DEF SumOf, Whole
  <2>2. PICK a \in Nat : a = SumOf(u, s, l, f, i) /\ a =< 240000
    BY <2>1
  <2>3. Tenths(a) \in 0..1000
    BY <2>2, TenthsAre
  <2> QED
    BY <1>2, <2>2, <2>3
<1> HIDE DEF u, s, l, f, i
<1> QED
  BY <1>6, <1>7, <1>8, <1>9, <1>10, <1>11, <1>12 DEF ScoresFair, u, s

(* For any uptimes, latencies, ages and counts: a worse dimension never      *)
(* raises the reliability score, every score lies between 0 and 100, and an  *)
(* API nothing is known of ranks above one whose every check failed          *)
(* (health-scoring.ts:195-227).                                              *)
THEOREM ScoringIsFair == SubjectSpec => []ScoresFair
<1>1. SubjectInit => ScoringInv
  BY DEF SubjectInit, scoringInit, Blank, ScoringInv, Unmeasured, Whole
<1>2. ScoringInv /\ [SubjectNext]_allVars => ScoringInv'
  <2> SUFFICES ASSUME ScoringInv, [SubjectNext]_allVars PROVE ScoringInv'
    OBVIOUS
  <2>1. scoringNext \/ UNCHANGED record
    <3>1. CASE SubjectNext
      <4>1. (StructuresNext \/ ServicesNext) /\ (subject = "scoring" \/ UNCHANGED scoringVars)
        BY <3>1 DEF SubjectNext, RestStays
      <4>2. ServicesNext /\ subject = "scoring" => scoringNext
        BY DEF ServicesNext
      <4>3. StructuresNext => subject # "scoring"
        BY DEF StructuresNext
      <4>4. UNCHANGED scoringVars => UNCHANGED record
        BY DEF scoringVars
      <4> QED
        BY <4>1, <4>2, <4>3, <4>4
    <3>2. CASE UNCHANGED allVars
      BY <3>2 DEF allVars, scoringVars
    <3> QED
      BY <3>1, <3>2
  <2>2. ASSUME NEW r \in Records, measure(r) PROVE ScoringInv'
    BY <2>2, ScoringAssumption DEF measure, Records, ScoringInv, ScoringAssumption
  <2>3. ASSUME NEW p, observeStatus(p) PROVE ScoringInv'
    BY <2>3 DEF observeStatus, ScoringInv
  <2>4. CASE UNCHANGED record
    BY <2>4 DEF ScoringInv
  <2> QED
    BY <2>1, <2>2, <2>3, <2>4 DEF scoringNext
<1> QED
  BY <1>1, <1>2, ScoreIsFair, PTL DEF SubjectSpec

-----------------------------------------------------------------------------
(* The slugs of an import                                                    *)

Words == Seq(STRING) \ {<<>>}

(* A slug that ends with a fingerprint is that record's.                     *)
EndsOwn(slug, fingerprint) == Last(slug) \in DOMAIN Batch => Last(slug) = fingerprint

(* What a slug may be: free, or its record's already.                        *)
Usable(rows, slug, fingerprint) == ownerIn(rows, slug) \in {noOwner, fingerprint}

(* Rows still to be written, beside those of the database.                   *)
PlanSound(rows, p) ==
  /\ p = [i \in 1..Len(p) |-> p[i]] /\ Len(p) \in Nat
  /\ \A i \in 1..Len(p) :
       /\ p[i].fingerprint \in DOMAIN Batch
       /\ EndsOwn(p[i].slug, p[i].fingerprint) /\ Usable(rows, p[i].slug, p[i].fingerprint)
       /\ ownerIn(rows, Batch[p[i].fingerprint].slug) = p[i].fingerprint =>
            p[i].slug = Batch[p[i].fingerprint].slug
  /\ \A i, j \in 1..Len(p) :
       p[i].fingerprint = p[j].fingerprint \/ p[i].slug = p[j].slug => i = j

RowsSound(rows) == \A slug \in DOMAIN rows : EndsOwn(slug, rows[slug]) /\ rows[slug] # noOwner

SlugInv == RowsSound(owner) /\ PlanSound(owner, plan) /\ ~clash

(* One more word makes that word the last.                                   *)
LEMMA LastWord ==
  ASSUME NEW s \in Seq(STRING), NEW w \in STRING
  PROVE  Append(s, w) \in Words /\ Last(Append(s, w)) = w
<1>1. /\ Append(s, w) \in Seq(STRING) /\ Len(Append(s, w)) = Len(s) + 1 /\ Len(s) \in Nat
      /\ Append(s, w)[Len(s) + 1] = w
  <2>1. \A S : \A t \in Seq(S), x \in S :
          /\ Append(t, x) \in Seq(S) /\ Len(Append(t, x)) = Len(t) + 1 /\ Len(t) \in Nat
          /\ Append(t, x)[Len(t) + 1] = x
    BY AppendProperties, LenProperties
  <2> QED
    BY <2>1
<1>2. Append(s, w) # <<>>
  <2>1. Len(<<>>) = 0
    OBVIOUS
  <2>2. Len(Append(s, w)) # 0
    BY <1>1
  <2> QED
    BY <2>1, <2>2
<1> QED
  BY <1>1, <1>2 DEF Words, Last

Joins(u, v, w) ==
  /\ Len(u) \in Nat /\ Len(v) \in Nat /\ Len(w) = Len(u) + Len(v)
  /\ \A i \in 1..Len(u) : w[i] = u[i]
  /\ \A i \in 1..Len(w) : i \in 1..Len(u) \/ (i - Len(u) \in 1..Len(v) /\ w[i] = v[i - Len(u)])

LEMMA Joined ==
  ASSUME NEW S, NEW u \in Seq(S), NEW v \in Seq(S)
  PROVE  u \o v \in Seq(S) /\ Joins(u, v, u \o v)
<1>1. u \o v \in Seq(S)
  BY ConcatProperties
<1>2. /\ Len(u) \in Nat /\ Len(v) \in Nat /\ Len(u \o v) = Len(u) + Len(v)
      /\ \A i \in 1..Len(u) : (u \o v)[i] = u[i]
      /\ \A i \in 1..Len(u \o v) :
           i \in 1..Len(u) \/ (i - Len(u) \in 1..Len(v) /\ (u \o v)[i] = v[i - Len(u)])
  BY ConcatProperties, LenProperties
<1> QED
  BY <1>1, <1>2 DEF Joins

(* The candidates start with the plain slug, and none ends with a            *)
(* fingerprint.                                                              *)
LEMMA TriedAre ==
  ASSUME NEW f \in DOMAIN Batch, NEW tried, tried = candidates(Batch[f].slug, Batch[f].label)
  PROVE  /\ Len(tried) \in Nat /\ Len(tried) >= 1 /\ tried[1] = Batch[f].slug
         /\ \A i \in 1..Len(tried) : Last(tried[i]) \notin DOMAIN Batch
<1> DEFINE slug == Batch[f].slug
<1> DEFINE label == Batch[f].label
<1> DEFINE second == IF <<label>> = slug THEN <<>> ELSE <<Append(slug, label)>>
<1> DEFINE numbered == [i \in 1..Len(SlugNumbers) |-> Append(slug, SlugNumbers[i])]
<1>1. /\ slug \in Seq(STRING) /\ label \in STRING /\ Last(slug) \notin DOMAIN Batch
      /\ label \notin DOMAIN Batch
      /\ SlugNumbers \in Seq(STRING) /\ \A i \in 1..Len(SlugNumbers) : SlugNumbers[i] \notin DOMAIN Batch
  BY NormalizerAssumption DEF NormalizerAssumption, Range
<1>2. tried = <<slug>> \o second \o numbered
  BY DEF candidates
<1>3. Last(Append(slug, label)) \notin DOMAIN Batch
  BY <1>1, LastWord
<1>4. /\ Len(SlugNumbers) \in Nat
      /\ \A i \in 1..Len(SlugNumbers) : /\ Append(slug, SlugNumbers[i]) \in Seq(STRING)
                                        /\ Last(Append(slug, SlugNumbers[i])) \notin DOMAIN Batch
  <2>1. \A i \in 1..Len(SlugNumbers) : SlugNumbers[i] \in STRING
    BY <1>1
  <2>2. ASSUME NEW i \in 1..Len(SlugNumbers)
        PROVE  /\ Append(slug, SlugNumbers[i]) \in Seq(STRING)
               /\ Last(Append(slug, SlugNumbers[i])) \notin DOMAIN Batch
    <3>1. PICK w : w = SlugNumbers[i] /\ w \in STRING /\ w \notin DOMAIN Batch
      BY <1>1, <2>1
    <3>2. Append(slug, w) \in Words /\ Last(Append(slug, w)) = w
      BY <1>1, <3>1, LastWord
    <3> QED
      BY <3>1, <3>2 DEF Words
  <2>3. Len(SlugNumbers) \in Nat
    BY <1>1
  <2> QED
    BY <2>2, <2>3
<1>5. /\ second \in Seq(Seq(STRING)) /\ Len(second) \in {0, 1}
      /\ \A i \in 1..Len(second) : Last(second[i]) \notin DOMAIN Batch
  <2>1. PICK x : x = Append(slug, label) /\ x \in Seq(STRING) /\ Last(x) \notin DOMAIN Batch
    BY <1>1, <1>3, LastWord DEF Words
  <2>2. CASE <<label>> = slug
    BY <2>2
  <2>3. CASE <<label>> # slug
    <3>1. second = <<x>>
      BY <2>1, <2>3
    <3>2. Len(<<x>>) = 1 /\ <<x>>[1] = x
      OBVIOUS
    <3>3. <<x>> \in Seq(Seq(STRING))
      BY <2>1
    <3> HIDE DEF second
    <3>4. second \in Seq(Seq(STRING)) /\ Len(second) = 1 /\ second[1] = x
      BY <3>1, <3>2, <3>3
    <3>5. \A i \in 1..Len(second) : Last(second[i]) \notin DOMAIN Batch
      <4> SUFFICES ASSUME NEW i \in 1..Len(second) PROVE Last(second[i]) \notin DOMAIN Batch
        OBVIOUS
      <4>1. i = 1
        BY <3>4
      <4> QED
        BY <2>1, <3>4, <4>1
    <3> QED
      BY <3>4, <3>5
  <2> QED
    BY <2>2, <2>3
<1>6. /\ numbered \in Seq(Seq(STRING)) /\ Len(numbered) = Len(SlugNumbers)
      /\ \A i \in 1..Len(numbered) : Last(numbered[i]) \notin DOMAIN Batch
  BY <1>4
<1>7. PICK a, b, c : a = slug /\ b = second /\ c = numbered
  OBVIOUS
<1> HIDE DEF slug, second, numbered
<1>8. /\ tried = <<a>> \o b \o c
      /\ a \in Seq(STRING) /\ Last(a) \notin DOMAIN Batch
      /\ b \in Seq(Seq(STRING)) /\ Len(b) \in {0, 1} /\ c \in Seq(Seq(STRING)) /\ Len(c) \in Nat
      /\ \A i \in 1..Len(b) : Last(b[i]) \notin DOMAIN Batch
      /\ \A i \in 1..Len(c) : Last(c[i]) \notin DOMAIN Batch
  BY <1>1, <1>2, <1>5, <1>6, <1>7
<1>9. PICK e, d : e = <<a>> /\ d = e \o b
  OBVIOUS
<1>10. e \in Seq(Seq(STRING)) /\ Len(e) = 1 /\ e[1] = a
  BY <1>8, <1>9
<1>11. d \in Seq(Seq(STRING)) /\ Joins(e, b, d)
  BY <1>8, <1>9, <1>10, Joined
<1>12. \A i \in 1..Len(d) : Last(d[i]) \notin DOMAIN Batch
  <2> SUFFICES ASSUME NEW i \in 1..Len(d) PROVE Last(d[i]) \notin DOMAIN Batch
    OBVIOUS
  <2>1. CASE i \in 1..Len(e)
    <3>1. d[i] = a
      BY <1>10, <1>11, <2>1 DEF Joins
    <3> QED
      BY <1>8, <3>1
  <2>2. CASE i - Len(e) \in 1..Len(b) /\ d[i] = b[i - Len(e)]
    BY <1>8, <2>2
  <2> QED
    BY <1>11, <2>1, <2>2 DEF Joins
<1>13. Joins(d, c, tried)
  BY <1>8, <1>9, <1>11, Joined
<1>14. \A i \in 1..Len(tried) : Last(tried[i]) \notin DOMAIN Batch
  <2> SUFFICES ASSUME NEW i \in 1..Len(tried) PROVE Last(tried[i]) \notin DOMAIN Batch
    OBVIOUS
  <2>1. CASE i \in 1..Len(d)
    BY <1>12, <1>13, <2>1 DEF Joins
  <2>2. CASE i - Len(d) \in 1..Len(c) /\ tried[i] = c[i - Len(d)]
    BY <1>8, <2>2
  <2> QED
    BY <1>13, <2>1, <2>2 DEF Joins
<1>15. Len(d) >= 1 /\ d[1] = a /\ Len(tried) >= 1 /\ Len(tried) \in Nat /\ tried[1] = a
  BY <1>10, <1>11, <1>13 DEF Joins
<1> QED
  BY <1>7, <1>14, <1>15 DEF slug

(* The slug a record is given is free, or ends with its fingerprint; it is   *)
(* the plain one if that is free.                                            *)
LEMMA ResolvedIs ==
  ASSUME NEW f \in DOMAIN Batch, NEW claims, NEW rows, NEW r, r = resolved(f, claims, rows)
  PROVE  /\ \/ r \notin claims /\ Usable(rows, r, f) /\ Last(r) \notin DOMAIN Batch
            \/ Last(r) = f
         /\ Batch[f].slug \notin claims /\ Usable(rows, Batch[f].slug, f) => r = Batch[f].slug
<1>1. PICK tried : tried = candidates(Batch[f].slug, Batch[f].label)
  OBVIOUS
<1>2. /\ Len(tried) \in Nat /\ Len(tried) >= 1 /\ tried[1] = Batch[f].slug
      /\ \A i \in 1..Len(tried) : Last(tried[i]) \notin DOMAIN Batch
  BY <1>1, TriedAre
<1>3. PICK usable : usable = {i \in 1..Len(tried) : tried[i] \notin claims /\ Usable(rows, tried[i], f)}
  OBVIOUS
<1>4. r = IF usable = {} THEN Append(Batch[f].slug, f) ELSE tried[Min(usable)]
  BY <1>1, <1>3 DEF resolved, isTaken, Usable
<1>5. CASE usable = {}
  <2>1. Last(r) = f
    BY <1>4, <1>5, LastWord, NormalizerAssumption DEF NormalizerAssumption
  <2>2. 1 \notin usable /\ 1 \in 1..Len(tried)
    BY <1>2, <1>5
  <2> QED
    BY <1>2, <1>3, <2>1, <2>2
<1>6. CASE usable # {}
  <2>1. usable \in SUBSET Nat
    BY <1>2, <1>3
  <2>2. PICK least \in usable : \A y \in usable : least <= y
    BY <1>6, <2>1, SmallestOf
  <2>3. Min(usable) = least
    <3>1. \E x \in usable : \A y \in usable : x <= y
      BY <2>2
    <3>2. Min(usable) \in usable /\ \A y \in usable : Min(usable) <= y
      BY <3>1 DEF Min
    <3>3. PICK m : m = Min(usable)
      OBVIOUS
    <3>4. m \in usable /\ m <= least /\ least <= m /\ m \in Nat /\ least \in Nat
      BY <2>1, <2>2, <3>2, <3>3
    <3>5. m = least
      BY <3>4
    <3> QED
      BY <3>3, <3>5
  <2>4. r = tried[least]
    BY <1>4, <1>6, <2>3
  <2>5. r \notin claims /\ Usable(rows, r, f) /\ Last(r) \notin DOMAIN Batch
    BY <1>2, <1>3, <2>2, <2>4
  <2>6. ASSUME Batch[f].slug \notin claims, Usable(rows, Batch[f].slug, f)
        PROVE  r = Batch[f].slug
    <3>1. 1 \in usable
      BY <1>2, <1>3, <2>6
    <3>2. least = 1
      BY <1>2, <1>3, <2>2, <3>1
    <3> QED
      BY <1>2, <2>4, <3>2
  <2> QED
    BY <2>5, <2>6
<1> QED
  BY <1>5, <1>6

(* The slugs a record minds are those of the records before it.              *)
Earlier(f, n) == {f[m] : m \in 1..(n - 1)}
Resolves(f, n, order, rows) ==
  f = [i \in 1..n |-> resolved(order[i], {f[m] : m \in 1..(i - 1)}, rows)]

LEMMA SlugsExist ==
  ASSUME NEW order, NEW rows, NEW N \in Nat
  PROVE  \E f : Resolves(f, N, order, rows)
<1> DEFINE T == {n \in Nat : \E f : Resolves(f, n, order, rows)}
<1>1. 0 \in T
  <2>1. PICK f : f = [i \in 1..0 |-> 0]
    OBVIOUS
  <2>2. f = [i \in 1..0 |-> resolved(order[i], {f[m] : m \in 1..(i - 1)}, rows)]
    BY <2>1
  <2>3. Resolves(f, 0, order, rows)
    BY <2>2 DEF Resolves
  <2> QED
    BY <2>3
<1>2. ASSUME NEW n \in T PROVE n + 1 \in T
  <2>1. PICK f : Resolves(f, n, order, rows)
    BY <1>2
  <2>2. n \in Nat /\ \A i \in 1..n : f[i] = resolved(order[i], Earlier(f, i), rows)
    BY <2>1 DEF Resolves, Earlier
  <2>3. PICK x : x = resolved(order[n + 1], Earlier(f, n + 1), rows)
    OBVIOUS
  <2>4. PICK g : g = [i \in 1..(n + 1) |-> IF i = n + 1 THEN x ELSE f[i]]
    OBVIOUS
  <2>5. \A i \in 1..n : g[i] = f[i] /\ i # n + 1
    BY <2>2, <2>4
  <2>6. \A i \in 1..(n + 1) : Earlier(g, i) = Earlier(f, i)
    <3> SUFFICES ASSUME NEW i \in 1..(n + 1) PROVE Earlier(g, i) = Earlier(f, i)
      OBVIOUS
    <3>1. \A m \in 1..(i - 1) : g[m] = f[m]
      BY <2>2, <2>5
    <3> QED
      BY <3>1 DEF Earlier
  <2>7. ASSUME NEW i \in 1..(n + 1) PROVE g[i] = resolved(order[i], Earlier(g, i), rows)
    <3>1. CASE i = n + 1
      BY <2>2, <2>3, <2>4, <2>6, <3>1
    <3>2. CASE i # n + 1
      <4>1. i \in 1..n
        BY <2>2, <3>2
      <4> QED
        BY <2>2, <2>5, <2>6, <4>1
    <3> QED
      BY <3>1, <3>2
  <2>8. g = [i \in 1..(n + 1) |-> g[i]]
    BY <2>4
  <2>9. g = [i \in 1..(n + 1) |-> resolved(order[i], Earlier(g, i), rows)]
    BY <2>7, <2>8
  <2>10. Resolves(g, n + 1, order, rows)
    BY <2>9 DEF Resolves, Earlier
  <2> QED
    BY <2>2, <2>10
<1>3. T = Nat
  <2>1. T \in SUBSET Nat
    OBVIOUS
  <2> HIDE DEF T
  <2> QED
    BY <1>1, <1>2, <2>1, InductNat
<1> QED
  BY <1>3

LEMMA BatchIs ==
  ASSUME NEW order, NEW rows, Len(order) \in Nat
  PROVE  \E f : /\ \A n \in 1..Len(order) : f[n] = resolved(order[n], Earlier(f, n), rows)
                /\ resolveSlugCollisions(order, rows) =
                     [n \in 1..Len(order) |-> [fingerprint |-> order[n], slug |-> f[n]]]
<1> DEFINE S == CHOOSE f : f = [i \in 1..Len(order) |->
                                  resolved(order[i], {f[m] : m \in 1..(i - 1)}, rows)]
<1>1. \E f : f = [i \in 1..Len(order) |-> resolved(order[i], {f[m] : m \in 1..(i - 1)}, rows)]
  <2>1. PICK N \in Nat : N = Len(order)
    OBVIOUS
  <2>2. \E f : Resolves(f, N, order, rows)
    BY SlugsExist
  <2>3. PICK f : Resolves(f, N, order, rows)
    BY <2>2
  <2>4. f = [i \in 1..Len(order) |-> resolved(order[i], {f[m] : m \in 1..(i - 1)}, rows)]
    BY <2>1, <2>3, Zenon DEF Resolves
  <2> QED
    BY <2>4
<1>2. S = [i \in 1..Len(order) |-> resolved(order[i], {S[m] : m \in 1..(i - 1)}, rows)]
  BY <1>1, Zenon
<1>3. resolveSlugCollisions(order, rows) =
        [n \in 1..Len(order) |-> [fingerprint |-> order[n], slug |-> S[n]]]
  BY Zenon DEF resolveSlugCollisions
<1> HIDE DEF S
<1>4. \A n \in 1..Len(order) : S[n] = resolved(order[n], Earlier(S, n), rows)
  BY <1>2 DEF Earlier
<1> QED
  BY <1>3, <1>4

(* An order lists records, none twice.                                       *)
LEMMA OrdersAre ==
  ASSUME NEW order \in Orders
  PROVE  /\ Len(order) \in Nat
         /\ \A n \in 1..Len(order) : order[n] \in DOMAIN Batch
         /\ \A m, n \in 1..Len(order) : order[m] = order[n] => m = n
<1>1. PICK s \in SUBSET DOMAIN Batch : order \in SetToSeqs(s)
  BY DEF Orders
<1>2. IsFiniteSet(s)
  BY FS_Subset, NormalizerAssumption DEF NormalizerAssumption
<1>3. Cardinality(s) \in Nat
  BY <1>2, FS_CardinalityType
<1>4. order \in [1..Cardinality(s) -> s] /\ \A m, n \in DOMAIN order : order[m] = order[n] => m = n
  BY <1>1 DEF SetToSeqs, IsInjective
<1>5. Len(order) = Cardinality(s)
  BY <1>3, <1>4
<1> QED
  BY <1>3, <1>4, <1>5

(* What is planned of a batch clashes with nothing.                          *)
LEMMA BatchSound ==
  ASSUME NEW rows, RowsSound(rows), NEW order \in Orders, NEW p,
         p = resolveSlugCollisions(order, rows)
  PROVE  PlanSound(rows, p)
<1>1. /\ Len(order) \in Nat
      /\ \A n \in 1..Len(order) : order[n] \in DOMAIN Batch
      /\ \A m, n \in 1..Len(order) : order[m] = order[n] => m = n
  BY OrdersAre
<1>2. PICK f : /\ \A n \in 1..Len(order) : f[n] = resolved(order[n], Earlier(f, n), rows)
               /\ p = [n \in 1..Len(order) |-> [fingerprint |-> order[n], slug |-> f[n]]]
  BY <1>1, BatchIs
<1>3. PICK N \in Nat : N = Len(order)
  BY <1>1
<1>4. noOwner \notin DOMAIN Batch /\ \A g \in DOMAIN Batch : Last(Batch[g].slug) \notin DOMAIN Batch
  BY NormalizerAssumption DEF NormalizerAssumption, noOwner
<1>5. ASSUME NEW n \in 1..N
      PROVE  \/ f[n] \notin Earlier(f, n) /\ Usable(rows, f[n], order[n]) /\ Last(f[n]) \notin DOMAIN Batch
             \/ Last(f[n]) = order[n]
  BY <1>1, <1>2, <1>3, ResolvedIs
<1>6. ASSUME NEW n \in 1..N
      PROVE  Batch[order[n]].slug \notin Earlier(f, n) /\ Usable(rows, Batch[order[n]].slug, order[n])
               => f[n] = Batch[order[n]].slug
  BY <1>1, <1>2, <1>3, ResolvedIs
<1>7. \A m, n \in 1..N : m < n => f[m] \in Earlier(f, n)
  BY DEF Earlier
<1>8. \A m, n \in 1..N : m < n => order[m] # order[n] /\ order[m] \in DOMAIN Batch /\ order[n] \in DOMAIN Batch
  BY <1>1, <1>3
<1>9. ASSUME NEW n \in 1..N PROVE EndsOwn(f[n], order[n]) /\ Usable(rows, f[n], order[n])
  <2>1. CASE Last(f[n]) \notin DOMAIN Batch /\ Usable(rows, f[n], order[n])
    BY <2>1 DEF EndsOwn
  <2>2. CASE Last(f[n]) = order[n]
    <3>1. f[n] \in DOMAIN rows => rows[f[n]] = order[n]
      BY <1>1, <1>3, <2>2 DEF RowsSound, EndsOwn
    <3> QED
      BY <2>2, <3>1 DEF EndsOwn, Usable, ownerIn
  <2> QED
    BY <1>5, <2>1, <2>2
<1>10. ASSUME NEW m \in 1..N, NEW n \in 1..N, m < n PROVE f[m] # f[n]
  <2>1. CASE f[n] \notin Earlier(f, n)
    BY <1>7, <1>10, <2>1
  <2>2. CASE Last(f[n]) = order[n]
    BY <1>5, <1>8, <1>10, <2>2
  <2> QED
    BY <1>5, <2>1, <2>2
<1>11. ASSUME NEW n \in 1..N, ownerIn(rows, Batch[order[n]].slug) = order[n]
       PROVE  f[n] = Batch[order[n]].slug
  <2>1. Usable(rows, Batch[order[n]].slug, order[n])
    BY <1>11 DEF Usable
  <2>2. ASSUME NEW m \in 1..(n - 1), f[m] = Batch[order[n]].slug PROVE FALSE
    <3>1. m \in 1..N /\ m < n
      BY <2>2
    <3>2. Last(f[m]) \notin DOMAIN Batch
      BY <1>4, <1>8, <2>2, <3>1
    <3>3. Usable(rows, f[m], order[m])
      BY <1>9, <3>1
    <3>4. order[n] \in {noOwner, order[m]}
      BY <1>11, <2>2, <3>3 DEF Usable
    <3> QED
      BY <1>4, <1>8, <3>1, <3>4
  <2>3. Batch[order[n]].slug \notin Earlier(f, n)
    BY <2>2 DEF Earlier
  <2> QED
    BY <1>6, <2>1, <2>3
<1>12. \A n \in 1..N : p[n].fingerprint = order[n] /\ p[n].slug = f[n]
  BY <1>2, <1>3
<1>13. Len(p) = N /\ p = [i \in 1..N |-> p[i]]
  BY <1>2, <1>3
<1>14. \A i, j \in 1..N : p[i].fingerprint = p[j].fingerprint \/ p[i].slug = p[j].slug => i = j
  <2> SUFFICES ASSUME NEW i \in 1..N, NEW j \in 1..N, i # j
               PROVE  order[i] # order[j] /\ f[i] # f[j]
    BY <1>12
  <2>1. i < j \/ j < i
    OBVIOUS
  <2> QED
    BY <1>8, <1>10, <2>1
<1>15. ASSUME NEW i \in 1..N
       PROVE  /\ p[i].fingerprint \in DOMAIN Batch
              /\ EndsOwn(p[i].slug, p[i].fingerprint) /\ Usable(rows, p[i].slug, p[i].fingerprint)
              /\ ownerIn(rows, Batch[p[i].fingerprint].slug) = p[i].fingerprint =>
                   p[i].slug = Batch[p[i].fingerprint].slug
  <2>1. order[i] \in DOMAIN Batch
    BY <1>1, <1>3
  <2> QED
    BY <1>9, <1>11, <1>12, <2>1
<1> QED
  BY <1>13, <1>14, <1>15 DEF PlanSound

(* The rows of the seed, and nothing planned.                                *)
LEMMA SlugsFirst == normalizerInit => SlugInv
<1> SUFFICES ASSUME normalizerInit PROVE SlugInv
  OBVIOUS
<1>1. RowsSound(owner)
  BY NormalizerAssumption DEF NormalizerAssumption, normalizerInit, RowsSound, EndsOwn, noOwner
<1>2. PlanSound(owner, plan)
  <2>1. plan = <<>> /\ Len(<<>>) = 0 /\ <<>> = [i \in 1..0 |-> <<>>[i]]
    BY DEF normalizerInit
  <2> QED
    BY <2>1 DEF PlanSound
<1> QED
  BY <1>1, <1>2 DEF SlugInv, normalizerInit

LEMMA BatchKeeps ==
  ASSUME SlugInv, NEW order \in Orders, resolveBatch(order)
  PROVE  SlugInv'
<1>1. /\ owner' = owner /\ clash' = clash
      /\ plan' = resolveSlugCollisions(order, owner)
  BY DEF resolveBatch
<1>2. PICK p : p = resolveSlugCollisions(order, owner)
  OBVIOUS
<1>3. PlanSound(owner, p)
  BY <1>2, BatchSound DEF SlugInv
<1>4. PlanSound(owner, plan)'
  <2>1. owner' = owner /\ plan' = p
    BY <1>1, <1>2
  <2> QED
    BY <1>3, <2>1 DEF PlanSound, ownerIn, Usable
<1> QED
  BY <1>1, <1>4 DEF SlugInv, RowsSound

(* q has the rows of p but the first.                                        *)
RestOf(p, q) ==
  /\ \A i \in 1..Len(q) : \E j \in 1..Len(p) : j # 1 /\ q[i] = p[j]
  /\ 1 \in 1..Len(p) /\ Head(p) = p[1]

(* The rest of a plan is as sound as the plan.                               *)
LEMMA RestSound ==
  ASSUME NEW rows, NEW p, PlanSound(rows, p), p # <<>>, NEW q, q = Tail(p)
  PROVE  PlanSound(rows, q) /\ RestOf(p, q)
<1>1. PICK N \in Nat : N = Len(p)
  BY DEF PlanSound
<1>2. p = [i \in 1..N |-> p[i]]
  BY <1>1 DEF PlanSound
<1>3. PICK S : \A i \in 1..N : p[i] \in S
  <2>1. \A i \in 1..N : p[i] \in {p[j] : j \in 1..N}
    OBVIOUS
  <2> QED
    BY <2>1
<1>4. p \in Seq(S)
  BY <1>2, <1>3
<1>5. N # 0
  BY <1>1, <1>4
<1>6. /\ q \in Seq(S) /\ Len(q) = N - 1 /\ Head(p) = p[1]
      /\ \A i \in 1..Len(q) : q[i] = p[i + 1]
  BY <1>1, <1>4, <1>5
<1>7. /\ \A i \in 1..N :
           /\ p[i].fingerprint \in DOMAIN Batch
           /\ EndsOwn(p[i].slug, p[i].fingerprint) /\ Usable(rows, p[i].slug, p[i].fingerprint)
           /\ ownerIn(rows, Batch[p[i].fingerprint].slug) = p[i].fingerprint =>
                p[i].slug = Batch[p[i].fingerprint].slug
      /\ \A i, j \in 1..N : p[i].fingerprint = p[j].fingerprint \/ p[i].slug = p[j].slug => i = j
  BY <1>1 DEF PlanSound
<1>8. \A i \in 1..Len(q) : i + 1 \in 1..N /\ i + 1 # 1
  BY <1>6
<1>9. q = [i \in 1..Len(q) |-> q[i]] /\ Len(q) \in Nat
  <2>1. q \in [1..Len(q) -> S] /\ Len(q) \in Nat
    BY <1>6, LenProperties
  <2> QED
    BY <2>1
<1>10. PlanSound(rows, q)
  <2>1. ASSUME NEW i \in 1..Len(q)
        PROVE  /\ q[i].fingerprint \in DOMAIN Batch
               /\ EndsOwn(q[i].slug, q[i].fingerprint) /\ Usable(rows, q[i].slug, q[i].fingerprint)
               /\ ownerIn(rows, Batch[q[i].fingerprint].slug) = q[i].fingerprint =>
                    q[i].slug = Batch[q[i].fingerprint].slug
    <3>1. PICK k : k = i + 1
      OBVIOUS
    <3>2. k \in 1..N /\ q[i] = p[k]
      BY <1>6, <1>8, <3>1
    <3> QED
      BY <1>7, <3>2
  <2>2. \A i, j \in 1..Len(q) : q[i].fingerprint = q[j].fingerprint \/ q[i].slug = q[j].slug => i = j
    <3> SUFFICES ASSUME NEW i \in 1..Len(q), NEW j \in 1..Len(q),
                        q[i].fingerprint = q[j].fingerprint \/ q[i].slug = q[j].slug
                 PROVE  i = j
      OBVIOUS
    <3>1. PICK k, m : k = i + 1 /\ m = j + 1
      OBVIOUS
    <3>2. k \in 1..N /\ m \in 1..N /\ q[i] = p[k] /\ q[j] = p[m]
      BY <1>6, <1>8, <3>1
    <3>3. k = m
      BY <1>7, <3>2
    <3> QED
      BY <1>6, <3>1, <3>3
  <2> QED
    BY <1>9, <2>1, <2>2 DEF PlanSound
<1>11. RestOf(p, q)
  BY <1>1, <1>5, <1>6, <1>8 DEF RestOf
<1> QED
  BY <1>10, <1>11

LEMMA LossKeeps ==
  ASSUME SlugInv, loseRow
  PROVE  SlugInv'
<1>1. PICK q : q = Tail(plan)
  OBVIOUS
<1>2. PlanSound(owner, q)
  BY <1>1, RestSound DEF SlugInv, loseRow
<1>3. owner' = owner /\ clash' = clash /\ plan' = q
  BY <1>1 DEF loseRow
<1>4. PlanSound(owner, plan)'
  BY <1>2, <1>3 DEF PlanSound, ownerIn, Usable
<1> QED
  BY <1>3, <1>4 DEF SlugInv, RowsSound

(* A row whose slug is there is known, and an insert leaves the rest of the  *)
(* plan as it was.                                                           *)
LEMMA WriteKeeps ==
  ASSUME SlugInv, writeRow
  PROVE  SlugInv'
<1>1. PICK row, q : row = Head(plan) /\ q = Tail(plan)
  OBVIOUS
<1>2. PICK known : known = (\E slug \in DOMAIN owner : owner[slug] = row.fingerprint)
  OBVIOUS
<1>3. /\ plan # <<>> /\ plan' = q
      /\ owner' = IF known \/ (~known /\ row.slug \in DOMAIN owner) THEN owner
                  ELSE [s \in DOMAIN owner \cup {row.slug} |->
                          IF s = row.slug THEN row.fingerprint ELSE owner[s]]
      /\ clash' = (clash \/ (~known /\ row.slug \in DOMAIN owner))
  BY <1>1, <1>2 DEF writeRow
<1>4. PlanSound(owner, plan) /\ RowsSound(owner) /\ ~clash
  BY DEF SlugInv
<1>5. /\ PlanSound(owner, q)
      /\ \A i \in 1..Len(q) : \E j \in 1..Len(plan) : j # 1 /\ q[i] = plan[j]
      /\ 1 \in 1..Len(plan) /\ row = plan[1]
  <2>1. q = Tail(plan) /\ row = Head(plan)
    BY <1>1
  <2>2. plan # <<>> /\ PlanSound(owner, plan)
    BY <1>3, <1>4
  <2>3. PlanSound(owner, q) /\ RestOf(plan, q)
    BY <2>1, <2>2, RestSound
  <2> QED
    BY <2>1, <2>3 DEF RestOf
<1>6. /\ row.fingerprint \in DOMAIN Batch /\ EndsOwn(row.slug, row.fingerprint)
      /\ Usable(owner, row.slug, row.fingerprint)
  BY <1>4, <1>5 DEF PlanSound
<1>7. \A i \in 1..Len(q) : q[i].fingerprint # row.fingerprint /\ q[i].slug # row.slug
  <2> SUFFICES ASSUME NEW i \in 1..Len(q)
               PROVE  q[i].fingerprint # row.fingerprint /\ q[i].slug # row.slug
    OBVIOUS
  <2>1. PICK j \in 1..Len(plan) : j # 1 /\ q[i] = plan[j]
    BY <1>5
  <2>2. \A k, m \in 1..Len(plan) :
          plan[k].fingerprint = plan[m].fingerprint \/ plan[k].slug = plan[m].slug => k = m
    BY <1>4 DEF PlanSound
  <2> QED
    BY <1>5, <2>1, <2>2
<1>8. row.slug \in DOMAIN owner => known
  <2>1. ASSUME row.slug \in DOMAIN owner PROVE owner[row.slug] = row.fingerprint
    BY <1>4, <1>6, <2>1 DEF Usable, ownerIn, RowsSound
  <2> QED
    BY <1>2, <2>1
<1>9. clash' = FALSE
  BY <1>3, <1>4, <1>8
<1>10. CASE known
  <2>1. owner' = owner
    BY <1>3, <1>10
  <2>2. PlanSound(owner, plan)'
    BY <1>3, <1>5, <2>1 DEF PlanSound, ownerIn, Usable
  <2> QED
    BY <1>4, <1>9, <2>1, <2>2 DEF SlugInv, RowsSound
<1>11. CASE ~known
  <2>1. PICK new : new = [s \in DOMAIN owner \cup {row.slug} |->
                            IF s = row.slug THEN row.fingerprint ELSE owner[s]]
    OBVIOUS
  <2>2. owner' = new /\ row.slug \notin DOMAIN owner
    BY <1>3, <1>8, <1>11, <2>1
  <2>3. /\ DOMAIN new = DOMAIN owner \cup {row.slug} /\ new[row.slug] = row.fingerprint
        /\ \A s \in DOMAIN owner : new[s] = owner[s]
    BY <2>1, <2>2
  <2>4. \A s : ownerIn(new, s) = IF s = row.slug THEN row.fingerprint ELSE ownerIn(owner, s)
    BY <2>2, <2>3 DEF ownerIn
  <2>5. RowsSound(new)
    <3>1. row.fingerprint # noOwner
      BY <1>6, NormalizerAssumption DEF NormalizerAssumption, noOwner
    <3> QED
      BY <1>4, <1>6, <2>2, <2>3, <3>1 DEF RowsSound
  <2>6. PlanSound(new, q)
    <3>1. ASSUME NEW i \in 1..Len(q)
          PROVE  /\ q[i].fingerprint \in DOMAIN Batch
                 /\ EndsOwn(q[i].slug, q[i].fingerprint) /\ Usable(new, q[i].slug, q[i].fingerprint)
                 /\ ownerIn(new, Batch[q[i].fingerprint].slug) = q[i].fingerprint =>
                      q[i].slug = Batch[q[i].fingerprint].slug
      <4>1. /\ q[i].fingerprint \in DOMAIN Batch
            /\ EndsOwn(q[i].slug, q[i].fingerprint) /\ Usable(owner, q[i].slug, q[i].fingerprint)
            /\ ownerIn(owner, Batch[q[i].fingerprint].slug) = q[i].fingerprint =>
                 q[i].slug = Batch[q[i].fingerprint].slug
        BY <1>5 DEF PlanSound
      <4>2. Usable(new, q[i].slug, q[i].fingerprint)
        BY <1>7, <2>4, <4>1 DEF Usable
      <4>3. ownerIn(new, Batch[q[i].fingerprint].slug) = q[i].fingerprint =>
              ownerIn(owner, Batch[q[i].fingerprint].slug) = q[i].fingerprint
        BY <1>7, <2>4
      <4> QED
        BY <4>1, <4>2, <4>3
    <3>2. /\ q = [i \in 1..Len(q) |-> q[i]] /\ Len(q) \in Nat
          /\ \A i, j \in 1..Len(q) :
               q[i].fingerprint = q[j].fingerprint \/ q[i].slug = q[j].slug => i = j
      BY <1>5 DEF PlanSound
    <3> QED
      BY <3>1, <3>2 DEF PlanSound
  <2>7. RowsSound(owner)' /\ PlanSound(owner, plan)'
    BY <1>3, <2>2, <2>5, <2>6 DEF RowsSound, PlanSound, ownerIn, Usable
  <2> QED
    BY <1>9, <2>7 DEF SlugInv
<1> QED
  BY <1>10, <1>11

(* Slugs are given and written only while they are the subject.              *)
LEMMA SlugSteps ==
  ASSUME [SubjectNext]_allVars
  PROVE  slugsNext \/ UNCHANGED slugVars
<1>1. CASE SubjectNext
  <2>1. (StructuresNext \/ ServicesNext)
        /\ (subject \in {"links", "slugs"} \/ UNCHANGED normalizerVars)
    BY <1>1 DEF SubjectNext, RestStays
  <2>2. ServicesNext /\ subject \in {"links", "slugs"} => linksNext \/ slugsNext
    BY DEF ServicesNext
  <2>3. StructuresNext => subject \notin {"links", "slugs"}
    BY DEF StructuresNext
  <2>4. linksNext => UNCHANGED slugVars
    BY DEF linksNext, readLink
  <2>5. UNCHANGED normalizerVars => UNCHANGED slugVars
    BY DEF normalizerVars
  <2> QED
    BY <2>1, <2>2, <2>3, <2>4, <2>5
<1>2. CASE UNCHANGED allVars
  BY <1>2 DEF allVars, normalizerVars
<1> QED
  BY <1>1, <1>2

LEMMA SlugStep ==
  ASSUME SlugInv, [SubjectNext]_allVars
  PROVE  SlugInv'
<1>1. CASE slugsNext
  <2>1. ASSUME NEW order \in Orders, resolveBatch(order) PROVE SlugInv'
    BY <2>1, BatchKeeps
  <2>2. ASSUME writeRow \/ loseRow PROVE SlugInv'
    BY <2>2, WriteKeeps, LossKeeps
  <2> QED
    BY <1>1, <2>1, <2>2 DEF slugsNext
<1>2. CASE UNCHANGED slugVars
  <2>1. owner' = owner /\ plan' = plan /\ clash' = clash
    BY <1>2 DEF slugVars
  <2> QED
    BY <2>1 DEF SlugInv, RowsSound, PlanSound, ownerIn, Usable
<1> QED
  BY <1>1, <1>2, SlugSteps

LEMMA SlugsRight == SlugInv => SlugsNeverClash
  BY DEF SlugInv, PlanSound, Usable, SlugsNeverClash

LEMMA SlugsBegin == SubjectInit => SlugInv
  BY SlugsFirst DEF SubjectInit

-----------------------------------------------------------------------------
(* The rate windows                                                          *)

(* The slot of the j-th newest entry of a ring whose head is h, and what is  *)
(* in it.                                                                    *)
Place(h, j) == IF j =< h THEN h - j ELSE h - j + WindowLimit
Entry(r, j) == r.buffer[Place(r.head, j)]
Newest(s, j) == s[Len(s) + 1 - j]

RingTyped(r) ==
  r \in [buffer : [0..(WindowLimit - 1) -> Nat], head : 0..(WindowLimit - 1), count : 0..WindowLimit]

(* The m newest entries of ring and history are the same and later than t,   *)
(* the others are not.                                                       *)
Live(m, r, s, t) ==
  /\ m \in 0..r.count /\ m =< Len(s)
  /\ \A j \in 1..m : Entry(r, j) = Newest(s, j) /\ Newest(s, j) > t
  /\ \A j \in (m + 1)..r.count : Entry(r, j) =< t
  /\ \A j \in (m + 1)..Len(s) : Newest(s, j) =< t

(* A history is in order, and not of the future.                             *)
Ordered(s, now) ==
  /\ s \in Seq(Nat) /\ \A i, j \in 1..Len(s) : i =< j => s[i] =< s[j]
  /\ \A i \in 1..Len(s) : s[i] =< now

(* Until the promised time passes, the hit that is in the way is no later    *)
(* than the promise allows.                                                  *)
Promised(s, p) == p # 0 /\ Len(s) >= WindowLimit => Newest(s, WindowLimit) + WindowMs =< p

LogInv ==
  /\ RingTyped(ring) /\ windowNow \in Nat /\ promise \in Nat
  /\ Ordered(logged, windowNow)
  /\ \E m \in Nat : Live(m, ring, logged, windowNow - WindowMs)
  /\ Promised(logged, promise)

(* The slots of a ring, and the remainders that find them.                   *)
LEMMA PlaceIs ==
  ASSUME NEW h \in 0..(WindowLimit - 1), NEW j \in 1..WindowLimit
  PROVE  /\ Place(h, j) \in 0..(WindowLimit - 1)
         /\ (h - j + WindowLimit) % WindowLimit = Place(h, j)
<1>1. PICK m \in Nat \ {0} : m = WindowLimit
  BY WindowAssumption DEF WindowAssumption
<1>2. PICK b : b = Place(h, j)
  OBVIOUS
<1>3. b \in 0..(m - 1) /\ (h - j + m = b \/ h - j + m = m + b)
  BY <1>1, <1>2 DEF Place
<1>4. (0 * m + b) % m = b /\ (1 * m + b) % m = b
  BY <1>3, RemainderIs
<1>5. 0 * m + b = b /\ 1 * m + b = m + b
  BY <1>3
<1>6. (h - j + m) % m = b
  BY <1>3, <1>4, <1>5
<1> QED
  BY <1>1, <1>2, <1>3, <1>6

LEMMA NextHead ==
  ASSUME NEW h \in 0..(WindowLimit - 1)
  PROVE  (h + 1) % WindowLimit = IF h + 1 = WindowLimit THEN 0 ELSE h + 1
<1>1. PICK m \in Nat \ {0} : m = WindowLimit
  BY WindowAssumption DEF WindowAssumption
<1>2. CASE h + 1 = m
  <2>1. (1 * m + 0) % m = 0
    BY RemainderIs
  <2>2. 1 * m + 0 = h + 1
    BY <1>2
  <2> QED
    BY <1>1, <1>2, <2>1, <2>2
<1>3. CASE h + 1 # m
  <2>1. PICK b \in 0..(m - 1) : b = h + 1
    BY <1>1, <1>3
  <2>2. (0 * m + b) % m = b /\ 0 * m + b = b
    BY RemainderIs
  <2> QED
    BY <1>1, <1>3, <2>1, <2>2
<1> QED
  BY <1>2, <1>3

(* With head n an entry of head h is one place further back.                 *)
OneBack(h, n) ==
  \A j \in 1..(WindowLimit - 1) : Place(n, j + 1) = Place(h, j) /\ Place(h, j) # h

(* One entry more moves the others one place back, and overwrites none of    *)
(* them while the ring is not full.                                          *)
LEMMA PlacesMove ==
  ASSUME NEW h \in 0..(WindowLimit - 1), NEW n, n = (h + 1) % WindowLimit
  PROVE  n \in 0..(WindowLimit - 1) /\ Place(n, 1) = h /\ OneBack(h, n)
<1>1. n = IF h + 1 = WindowLimit THEN 0 ELSE h + 1
  BY NextHead
<1>2. WindowLimit \in Nat \ {0}
  BY WindowAssumption DEF WindowAssumption
<1> QED
  BY <1>1, <1>2 DEF Place, OneBack

(* What a history has of late.                                               *)
LEMMA PastIs ==
  ASSUME NEW s \in Seq(Nat), NEW t \in Int, NEW m \in 0..Len(s),
         \A j \in 1..m : Newest(s, j) > t, \A j \in (m + 1)..Len(s) : Newest(s, j) =< t
  PROVE  past(s, t) = Len(s) - m
<1>1. PICK n \in Nat : n = Len(s)
  OBVIOUS
<1>2. \A i \in 1..n : s[i] \in Nat /\ s[i] = Newest(s, n + 1 - i) /\ n + 1 - i \in 1..n
  BY <1>1 DEF Newest
<1>3. ASSUME NEW i \in 1..n PROVE s[i] <= t <=> i \in 1..(n - m)
  <2>1. CASE n + 1 - i =< m
    <3>1. n + 1 - i \in 1..m
      BY <2>1
    <3>2. Newest(s, n + 1 - i) > t
      BY <3>1
    <3> QED
      BY <1>1, <1>2, <2>1, <3>2
  <2>2. CASE n + 1 - i > m
    <3>1. n + 1 - i \in (m + 1)..Len(s)
      BY <1>1, <2>2
    <3>2. Newest(s, n + 1 - i) =< t
      BY <3>1
    <3> QED
      BY <1>1, <1>2, <2>2, <3>2
  <2> QED
    BY <1>1, <2>1, <2>2
<1>4. {i \in 1..n : s[i] <= t} = 1..(n - m)
  BY <1>1, <1>3
<1>5. Cardinality(1..(n - m)) = n - m
  <2>0. n - m \in Int
    BY <1>1
  <2>1. PICK a \in Int, b \in Int : a = 1 /\ b = n - m
    BY <2>0
  <2>2. Cardinality(a..b) = IF a > b THEN 0 ELSE b - a + 1
    BY FS_Interval
  <2> QED
    BY <1>1, <2>1, <2>2
<1> QED
  BY <1>1, <1>4, <1>5 DEF past

(* What is evicted is what is not live.                                      *)
With(c) == [ring EXCEPT !.count = c]

LEMMA EvictedIs ==
  ASSUME RingTyped(ring), NEW m \in Nat, NEW s, NEW t \in Int, t = windowNow - WindowMs,
         Live(m, ring, s, t), \A j \in 1..m : Newest(s, j) \in Nat
  PROVE  evicted = With(m)
<1> DEFINE step(x) == IF x.count > 0 /\ x.buffer[tailIndex(x)] <= windowNow - WindowMs
                      THEN [x EXCEPT !.count = @ - 1] ELSE x
<1>1. PICK L \in Nat \ {0} : L = WindowLimit
  BY WindowAssumption DEF WindowAssumption
<1>2. PICK c0 \in 0..L : c0 = ring.count
  BY <1>1 DEF RingTyped
<1>3. m \in 0..c0 /\ ring.head \in 0..(L - 1)
  BY <1>1, <1>2 DEF RingTyped, Live
<1>4. ASSUME NEW c \in m..c0 PROVE step(With(c)) = With(IF c > m THEN c - 1 ELSE c)
  <2>1. With(c).count = c /\ With(c).head = ring.head /\ With(c).buffer = ring.buffer
    BY DEF With, RingTyped
  <2>2. CASE c = 0
    <3>1. step(With(c)) = With(c)
      BY <2>1, <2>2
    <3> QED
      BY <1>3, <2>2, <3>1
  <2>3. CASE c # 0
    <3>1. c \in 1..L /\ c \in 1..WindowLimit /\ ring.head \in 0..(WindowLimit - 1)
      BY <1>1, <1>2, <1>3, <2>3
    <3>2. tailIndex(With(c)) = Place(ring.head, c)
      BY <2>1, <3>1, PlaceIs DEF tailIndex
    <3>3. With(c).buffer[tailIndex(With(c))] = Entry(ring, c)
      BY <2>1, <3>2 DEF Entry
    <3>4. CASE c > m
      <4>1. c \in (m + 1)..ring.count
        BY <1>2, <3>4
      <4>2. Entry(ring, c) =< t
        BY <4>1 DEF Live
      <4>3. step(With(c)) = [With(c) EXCEPT !.count = @ - 1]
        BY <2>1, <3>1, <3>3, <4>2
      <4>4. [With(c) EXCEPT !.count = @ - 1] = With(c - 1)
        BY DEF With, RingTyped
      <4> QED
        BY <3>4, <4>3, <4>4
    <3>5. CASE ~(c > m)
      <4>1. c \in 1..m
        BY <1>3, <3>1, <3>5
      <4>2. Entry(ring, c) > t /\ Entry(ring, c) \in Nat
        BY <4>1 DEF Live
      <4>3. ~(Entry(ring, c) <= t)
        BY <4>2
      <4>4. step(With(c)) = With(c)
        BY <3>3, <4>3
      <4> QED
        BY <3>5, <4>4
    <3> QED
      BY <3>4, <3>5
  <2> QED
    BY <2>2, <2>3
<1> DEFINE f == [n \in 0..L |-> With(IF c0 - n >= m THEN c0 - n ELSE m)]
<1> HIDE DEF step
<1>5. f = [n \in 0..L |-> IF n = 0 THEN ring ELSE step(f[n - 1])]
  <2>1. f[0] = ring
    <3>1. With(c0) = ring
      BY <1>2 DEF With, RingTyped
    <3> QED
      BY <1>3, <3>1
  <2>2. ASSUME NEW n \in 0..L, n # 0 PROVE f[n] = step(f[n - 1])
    <3>0. (IF c0 - (n - 1) >= m THEN c0 - (n - 1) ELSE m) \in m..c0
      BY <1>3, <2>2
    <3>1. PICK c \in m..c0 : c = IF c0 - (n - 1) >= m THEN c0 - (n - 1) ELSE m
      BY <3>0
    <3>2. f[n - 1] = With(c) /\ f[n] = With(IF c > m THEN c - 1 ELSE c)
      <4>1. n - 1 \in 0..L
        BY <2>2
      <4>2. (IF c > m THEN c - 1 ELSE c) = IF c0 - n >= m THEN c0 - n ELSE m
        BY <1>3, <2>2, <3>1
      <4>3. f[n - 1] = With(c)
        BY <3>1, <4>1
      <4> QED
        BY <4>2, <4>3
    <3> QED
      BY <1>4, <3>2
  <2> HIDE DEF f
  <2> QED
    BY <2>1, <2>2 DEF f
<1> DEFINE R == CHOOSE r : r = [n \in 0..L |-> IF n = 0 THEN ring ELSE step(r[n - 1])]
<1>6. \E r : r = [n \in 0..L |-> IF n = 0 THEN ring ELSE step(r[n - 1])]
  <2> HIDE DEF f
  <2> QED
    BY <1>5
<1>7. R = [n \in 0..L |-> IF n = 0 THEN ring ELSE step(R[n - 1])]
  BY <1>6, Zenon
<1>8. evicted = R[L]
  BY <1>1, Zenon DEF evicted, step
<1> HIDE DEF R, f
<1> DEFINE T == {n \in Nat : n =< L => R[n] = f[n]}
<1>9. 0 \in T
  BY <1>1, <1>5, <1>7
<1>10. ASSUME NEW n \in T PROVE n + 1 \in T
  <2>1. n \in Nat /\ (n =< L => R[n] = f[n])
    BY <1>10
  <2>2. ASSUME n + 1 =< L PROVE R[n + 1] = f[n + 1]
    <3>1. n + 1 \in 0..L /\ n + 1 # 0 /\ (n + 1) - 1 = n /\ R[n] = f[n]
      BY <2>1, <2>2
    <3>2. R[n + 1] = step(R[n]) /\ f[n + 1] = step(f[n])
      BY <1>5, <1>7, <3>1
    <3> QED
      BY <3>1, <3>2
  <2> QED
    BY <2>1, <2>2
<1>11. T = Nat
  <2>1. T \in SUBSET Nat
    OBVIOUS
  <2> HIDE DEF T
  <2> QED
    BY <1>9, <1>10, <2>1, InductNat
<1>12. R[L] = f[L]
  BY <1>11
<1>13. f[L] = With(m)
  <2>1. (IF c0 - L >= m THEN c0 - L ELSE m) = m
    BY <1>3
  <2> QED
    BY <2>1 DEF f
<1> QED
  BY <1>8, <1>12, <1>13


(* No hits, an empty ring.                                                   *)
LEMMA EmptyLog ==
  ASSUME windowNow' \in Nat, ring' = emptyRing, logged' = <<>>, promise' = 0
  PROVE  LogInv'
<1>1. RingTyped(ring')
  BY WindowAssumption DEF WindowAssumption, RingTyped, emptyRing
<1>2. Len(<<>>) = 0 /\ <<>> \in Seq(Nat)
  OBVIOUS
<1>3. Ordered(<<>>, windowNow')
  BY <1>2 DEF Ordered
<1>4. Live(0, ring', <<>>, windowNow' - WindowMs)
  <2>1. ring'.count = 0
    BY DEF emptyRing
  <2> QED
    BY <1>2, <2>1 DEF Live
<1>5. \E m \in Nat : Live(m, ring', logged', windowNow' - WindowMs)
  BY <1>4
<1>6. Promised(logged', promise')
  BY DEF Promised
<1> QED
  BY <1>1, <1>3, <1>5, <1>6 DEF LogInv, RingTyped, Ordered, Live, Promised, Entry, Place, Newest

LEMMA LogFirst == windowsInit => LogInv
<1> SUFFICES ASSUME windowsInit PROVE LogInv
  OBVIOUS
<1>0. windowNow \in Nat /\ ring = emptyRing /\ logged = <<>> /\ promise = 0
  BY WindowAssumption DEF WindowAssumption, windowsInit
<1>1. RingTyped(ring)
  BY <1>0, WindowAssumption DEF WindowAssumption, RingTyped, emptyRing
<1>2. Len(<<>>) = 0 /\ <<>> \in Seq(Nat)
  OBVIOUS
<1>3. Ordered(<<>>, windowNow)
  BY <1>2 DEF Ordered
<1>4. Live(0, ring, <<>>, windowNow - WindowMs)
  <2>1. ring.count = 0
    BY <1>0 DEF emptyRing
  <2> QED
    BY <1>2, <2>1 DEF Live
<1> QED
  BY <1>0, <1>1, <1>3, <1>4 DEF LogInv, Promised

(* A new entry is the newest, the others are one place older.                *)
OneOlder(s, x, u) ==
  /\ u \in Seq(Nat) /\ Len(u) = Len(s) + 1 /\ Newest(u, 1) = x
  /\ \A i \in 1..Len(s) : u[i] = s[i]
  /\ \A j \in 1..Len(s) : Newest(u, j + 1) = Newest(s, j)

LEMMA NewestMove ==
  ASSUME NEW s \in Seq(Nat), NEW x \in Nat, NEW u, u = Append(s, x)
  PROVE  OneOlder(s, x, u)
<1>1. /\ u \in Seq(Nat) /\ Len(u) = Len(s) + 1 /\ Len(s) \in Nat /\ u[Len(s) + 1] = x
      /\ \A i \in 1..Len(s) : u[i] = s[i]
  OBVIOUS
<1>2. Newest(u, 1) = x
  BY <1>1 DEF Newest
<1>3. ASSUME NEW j \in 1..Len(s) PROVE Newest(u, j + 1) = Newest(s, j)
  <2>0. Len(s) + 1 - j \in 1..Len(s)
    BY <1>1
  <2>1. PICK i \in 1..Len(s) : i = Len(s) + 1 - j
    BY <2>0
  <2>2. Len(u) + 1 - (j + 1) = i
    BY <1>1, <2>1
  <2> QED
    BY <1>1, <2>1, <2>2 DEF Newest
<1> QED
  BY <1>1, <1>2, <1>3 DEF OneOlder

(* A hit that is allowed.                                                    *)
LEMMA AllowedLive ==
  ASSUME NEW r, RingTyped(r), NEW s, NEW now \in Nat, Ordered(s, now), NEW m \in Nat, NEW t \in Int, t < now,
         Live(m, r, s, t), m < WindowLimit,
         NEW after, after = [buffer |-> [r.buffer EXCEPT ![r.head] = now],
                       head |-> (r.head + 1) % WindowLimit, count |-> m + 1],
         NEW u, u = Append(s, now)
  PROVE  RingTyped(after) /\ Ordered(u, now) /\ Live(m + 1, after, u, t)
<1>1. PICK L \in Nat \ {0} : L = WindowLimit
  BY WindowAssumption DEF WindowAssumption
<1>2. PICK h \in 0..(L - 1) : h = r.head
  BY <1>1 DEF RingTyped
<1>3. PICK h2 : h2 = (h + 1) % WindowLimit
  OBVIOUS
<1>4. /\ h2 \in 0..(L - 1) /\ Place(h2, 1) = h
      /\ \A j \in 1..(L - 1) : Place(h2, j + 1) = Place(h, j) /\ Place(h, j) # h
  <2>1. h \in 0..(WindowLimit - 1)
    BY <1>1
  <2>2. h2 \in 0..(WindowLimit - 1) /\ Place(h2, 1) = h /\ OneBack(h, h2)
    BY <1>3, <2>1, PlacesMove
  <2> QED
    BY <1>1, <2>2 DEF OneBack
<1>5. /\ r.buffer \in [0..(L - 1) -> Nat]
      /\ after.buffer = [r.buffer EXCEPT ![h] = now] /\ after.head = h2 /\ after.count = m + 1
  BY <1>1, <1>2, <1>3 DEF RingTyped
<1>6. RingTyped(after)
  BY <1>1, <1>2, <1>3, <1>4, <1>5 DEF RingTyped
<1>7. /\ s \in Seq(Nat) /\ Len(s) \in Nat /\ m \in 0..Len(s)
      /\ \A i, j \in 1..Len(s) : i =< j => s[i] =< s[j]
      /\ \A i \in 1..Len(s) : s[i] =< now
  BY DEF Ordered, Live
<1>8. /\ u \in Seq(Nat) /\ Len(u) = Len(s) + 1 /\ Newest(u, 1) = now
      /\ \A i \in 1..Len(s) : u[i] = s[i]
      /\ \A j \in 1..Len(s) : Newest(u, j + 1) = Newest(s, j)
  <2>1. OneOlder(s, now, u)
    BY <1>7, NewestMove
  <2> QED
    BY <2>1 DEF OneOlder
<1>9. Ordered(u, now)
  <2>1. u[Len(s) + 1] = now
    BY <1>7
  <2>2. \A i \in 1..Len(u) : i \in 1..Len(s) \/ i = Len(s) + 1
    BY <1>7, <1>8
  <2>3. \A i \in 1..Len(u) : u[i] =< now
    BY <1>7, <1>8, <2>1, <2>2
  <2>4. \A i, j \in 1..Len(u) : i =< j => u[i] =< u[j]
    <3> SUFFICES ASSUME NEW i \in 1..Len(u), NEW j \in 1..Len(u), i =< j PROVE u[i] =< u[j]
      OBVIOUS
    <3>1. CASE j = Len(s) + 1
      BY <2>1, <2>3, <3>1
    <3>2. CASE j \in 1..Len(s)
      <4>1. i \in 1..Len(s)
        BY <3>2
      <4> QED
        BY <1>7, <1>8, <3>2, <4>1
    <3> QED
      BY <2>2, <3>1, <3>2
  <2> QED
    BY <1>8, <2>3, <2>4 DEF Ordered
<1>10. Entry(after, 1) = now
  BY <1>2, <1>4, <1>5 DEF Entry
<1>11. ASSUME NEW j \in 1..m PROVE Entry(after, j + 1) = Entry(r, j)
  <2>1. j \in 1..(L - 1)
    BY <1>1
  <2>2. Place(h2, j + 1) = Place(h, j) /\ Place(h, j) # h
    BY <1>4, <2>1
  <2>3. Place(h, j) \in 0..(L - 1)
    <3>1. j \in 1..WindowLimit /\ h \in 0..(WindowLimit - 1)
      BY <1>1, <2>1
    <3> QED
      BY <1>1, <3>1, PlaceIs
  <2> QED
    BY <1>2, <1>5, <2>2, <2>3 DEF Entry
<1>12. \A j \in 1..m : Entry(r, j) = Newest(s, j) /\ Newest(s, j) > t
  BY DEF Live
<1>13. ASSUME NEW j \in 1..(m + 1) PROVE Entry(after, j) = Newest(u, j) /\ Newest(u, j) > t
  <2>1. CASE j = 1
    BY <1>8, <1>10, <2>1
  <2>2. CASE j # 1
    <3>1. PICK i \in 1..m : i + 1 = j
      <4>1. j - 1 \in 1..m /\ (j - 1) + 1 = j
        BY <2>2
      <4> QED
        BY <4>1
    <3>2. i \in 1..Len(s)
      BY <1>7
    <3> QED
      BY <1>8, <1>11, <1>12, <3>1, <3>2
  <2> QED
    BY <2>1, <2>2
<1>14. ASSUME NEW j \in (m + 2)..Len(u) PROVE Newest(u, j) =< t
  <2>1. PICK i \in (m + 1)..Len(s) : i + 1 = j
    <3>1. j - 1 \in (m + 1)..Len(s) /\ (j - 1) + 1 = j
      BY <1>7, <1>8
    <3> QED
      BY <3>1
  <2>2. i \in 1..Len(s) /\ Newest(s, i) =< t
    BY <1>7 DEF Live
  <2> QED
    BY <1>8, <2>1, <2>2
<1>15. Live(m + 1, after, u, t)
  <2>1. m + 1 \in 0..after.count /\ m + 1 =< Len(u) /\ \A j \in (m + 1 + 1)..after.count : FALSE
    BY <1>5, <1>7, <1>8
  <2>2. \A j \in (m + 1 + 1)..Len(u) : j \in (m + 2)..Len(u)
    OBVIOUS
  <2> QED
    BY <1>13, <1>14, <2>1, <2>2 DEF Live
<1> QED
  BY <1>6, <1>9, <1>15

(* What is evicted stays live, and the limit is the ring's.                  *)
LEMMA StaysLive ==
  ASSUME RingTyped(ring), NEW m \in Nat, NEW s, NEW t, Live(m, ring, s, t)
  PROVE  /\ RingTyped(With(m)) /\ Live(m, With(m), s, t) /\ m =< WindowLimit
         /\ With(m).head = ring.head /\ With(m).buffer = ring.buffer /\ With(m).count = m
<1>1. WindowLimit \in Nat \ {0}
  BY WindowAssumption DEF WindowAssumption
<1>2. ring.count \in 0..WindowLimit /\ m \in 0..ring.count /\ m \in 0..WindowLimit
  BY <1>1 DEF RingTyped, Live
<1>3. With(m).head = ring.head /\ With(m).buffer = ring.buffer /\ With(m).count = m
  BY DEF With, RingTyped
<1>4. RingTyped(With(m))
  BY <1>2 DEF With, RingTyped
<1>5. Live(m, With(m), s, t)
  <2>1. \A j : Entry(With(m), j) = Entry(ring, j)
    BY <1>3 DEF Entry
  <2>2. m \in 0..With(m).count /\ \A j \in (m + 1)..With(m).count : FALSE
    BY <1>3
  <2> QED
    BY <2>1, <2>2 DEF Live
<1> QED
  BY <1>2, <1>3, <1>4, <1>5


LEMMA HitKeeps ==
  ASSUME LogInv, logHit
  PROVE  LogInv'
<1>1. /\ RingTyped(ring) /\ windowNow \in Nat /\ promise \in Nat /\ Ordered(logged, windowNow)
      /\ Promised(logged, promise)
  BY DEF LogInv
<1>2. PICK t \in Int : t = windowNow - WindowMs /\ t < windowNow
  <2>1. windowNow - WindowMs \in Int /\ windowNow - WindowMs < windowNow
    BY <1>1, WindowAssumption DEF WindowAssumption
  <2> QED
    BY <2>1
<1>3. PICK m \in Nat : Live(m, ring, logged, t)
  BY <1>2 DEF LogInv
<1>4. \A j \in 1..m : Newest(logged, j) \in Nat
  <2>1. logged \in Seq(Nat) /\ m =< Len(logged)
    BY <1>1, <1>3 DEF Ordered, Live
  <2> QED
    BY <2>1 DEF Newest
<1>5. evicted = With(m)
  BY <1>1, <1>2, <1>3, <1>4, EvictedIs
<1>6. PICK e : e = With(m)
  OBVIOUS
<1>7. /\ RingTyped(e) /\ Live(m, e, logged, t) /\ m =< WindowLimit
      /\ e.head = ring.head /\ e.buffer = ring.buffer /\ e.count = m
  BY <1>1, <1>3, <1>6, StaysLive
<1>8. /\ windowNow' = windowNow
      /\ \/ /\ m >= WindowLimit /\ ring' = e /\ logged' = logged
            /\ promise' = LET wait == e.buffer[tailIndex(e)] + WindowMs - windowNow
                          IN windowNow + (IF wait < 1 THEN 1 ELSE wait)
         \/ /\ m < WindowLimit
            /\ ring' = [buffer |-> [e.buffer EXCEPT ![e.head] = windowNow],
                        head |-> (e.head + 1) % WindowLimit, count |-> m + 1]
            /\ logged' = Append(logged, windowNow) /\ promise' = 0
  <2>1. evicted = e /\ e.count = m
    BY <1>5, <1>6, <1>7
  <2> QED
    BY <2>1 DEF logHit
<1>9. CASE m >= WindowLimit
  <2>1. /\ ring' = e /\ logged' = logged
        /\ promise' = LET wait == e.buffer[tailIndex(e)] + WindowMs - windowNow
                      IN windowNow + (IF wait < 1 THEN 1 ELSE wait)
    BY <1>7, <1>8, <1>9, WindowAssumption DEF WindowAssumption
  <2>2. m = WindowLimit /\ m \in 1..WindowLimit /\ e.head \in 0..(WindowLimit - 1)
    BY <1>7, <1>9, WindowAssumption DEF WindowAssumption, RingTyped
  <2>3. tailIndex(e) = Place(e.head, m)
    BY <1>7, <2>2, PlaceIs DEF tailIndex
  <2>4. PICK oldest \in Nat : oldest = Newest(logged, m) /\ oldest > t
    BY <1>4, <1>7, <2>2 DEF Live
  <2>5. e.buffer[tailIndex(e)] = oldest
    <3>1. Entry(e, m) = oldest
      BY <1>7, <2>2, <2>4 DEF Live
    <3> QED
      BY <2>3, <3>1 DEF Entry
  <2>6. promise' = oldest + WindowMs /\ promise' \in Nat
    BY <1>1, <1>2, <2>1, <2>4, <2>5, WindowAssumption DEF WindowAssumption
  <2>7. Promised(logged', promise')
    <3>1. Newest(logged', WindowLimit) = oldest
      BY <2>1, <2>2, <2>4 DEF Newest
    <3> QED
      BY <2>6, <3>1, WindowAssumption DEF Promised, WindowAssumption
  <2>8. RingTyped(ring') /\ Ordered(logged', windowNow') /\ Live(m, ring', logged', windowNow' - WindowMs)
    BY <1>1, <1>2, <1>7, <1>8, <2>1
  <2> QED
    BY <1>1, <1>8, <2>6, <2>7, <2>8 DEF LogInv, RingTyped, Ordered, Live, Promised, Entry, Place, Newest
<1>10. CASE m < WindowLimit
  <2>1. /\ ring' = [buffer |-> [e.buffer EXCEPT ![e.head] = windowNow],
                    head |-> (e.head + 1) % WindowLimit, count |-> m + 1]
        /\ logged' = Append(logged, windowNow) /\ promise' = 0
    BY <1>7, <1>8, <1>10, WindowAssumption DEF WindowAssumption
  <2>2. PICK after, u : after = ring' /\ u = logged'
    OBVIOUS
  <2>3. RingTyped(after) /\ Ordered(u, windowNow) /\ Live(m + 1, after, u, t)
    BY <1>1, <1>2, <1>7, <1>10, <2>1, <2>2, AllowedLive
  <2>4. RingTyped(ring') /\ Ordered(logged', windowNow') /\ Live(m + 1, ring', logged', windowNow' - WindowMs)
    BY <1>2, <1>8, <2>2, <2>3
  <2>5. m + 1 \in Nat /\ windowNow' \in Nat /\ promise' \in Nat /\ Promised(logged', promise')
    BY <1>1, <1>8, <2>1 DEF Promised
  <2> QED
    BY <2>4, <2>5 DEF LogInv, RingTyped, Ordered, Live, Promised, Entry, Place, Newest
<1> QED
  BY <1>7, <1>9, <1>10, WindowAssumption DEF WindowAssumption

(* The entries that are still live a moment later are the newest of those.   *)
Shrunk(m, r, s, t, u) ==
  /\ \E n \in Nat : Live(n, r, u, t + 1)
  /\ Len(u) = m /\ \A j \in 1..m : Newest(u, j) = Newest(s, j)

LEMMA LiveShrinks ==
  ASSUME NEW r, NEW s, NEW now \in Nat, Ordered(s, now), NEW m \in Nat, NEW t \in Int, Live(m, r, s, t),
         RingTyped(r), NEW u, u = SubSeq(s, Len(s) - m + 1, Len(s))
  PROVE  Shrunk(m, r, s, t, u) /\ Ordered(u, now + 1)
<1>1. PICK N \in Nat : N = Len(s)
  BY DEF Ordered
<1>2. /\ s \in Seq(Nat) /\ m \in 0..N /\ r.count \in Nat /\ m =< r.count
      /\ \A i \in 1..N : s[i] \in Nat /\ s[i] =< now
      /\ \A i, j \in 1..N : i =< j => s[i] =< s[j]
  BY <1>1, WindowAssumption DEF Ordered, Live, RingTyped, WindowAssumption
<1>3. /\ u \in Seq(Nat) /\ Len(u) = m
      /\ \A i \in 1..m : u[i] = s[N - m + i]
  <2>1. u \in Seq(Nat) /\ Len(u) = IF N - m + 1 <= N THEN N - (N - m + 1) + 1 ELSE 0
    BY <1>1, <1>2, SubSeqProperties
  <2>2. Len(u) = m
    BY <1>2, <2>1
  <2>3. \A i \in 1..m : u[i] = s[N - m + i]
    <3> SUFFICES ASSUME NEW i \in 1..m PROVE u[i] = s[N - m + i]
      OBVIOUS
    <3>1. PICK first \in Nat : first = N - m + 1
      BY <1>2
    <3>2. u = SubSeq(s, first, N)
      BY <1>1, <3>1
    <3>3. first \in 1..(N + 1) /\ i \in 1..(N - first + 1) /\ first + i - 1 = N - m + i
      BY <1>2, <3>1
    <3>4. SubSeq(s, first, N)[i] = s[first + i - 1]
      BY <1>1, <1>2, <3>3, SubSeqProperties
    <3> QED
      BY <3>2, <3>3, <3>4
  <2> QED
    BY <2>1, <2>2, <2>3
<1>4. ASSUME NEW j \in 1..m PROVE Newest(u, j) = Newest(s, j) /\ Newest(s, j) = s[N + 1 - j] /\ Newest(s, j) \in Nat
  <2>1. PICK i \in 1..m : i = m + 1 - j
    <3>1. m + 1 - j \in 1..m
      BY <1>2
    <3> QED
      BY <3>1
  <2>2. Newest(u, j) = u[i]
    BY <1>3, <2>1 DEF Newest
  <2>3. N - m + i = N + 1 - j /\ N + 1 - j \in 1..N
    BY <1>2, <2>1
  <2> QED
    BY <1>1, <1>2, <1>3, <2>2, <2>3 DEF Newest
<1>5. Ordered(u, now + 1)
  <2>1. ASSUME NEW i \in 1..m, NEW j \in 1..m, i =< j PROVE u[i] =< u[j]
    <3>1. PICK a \in 1..N, b \in 1..N : a = N - m + i /\ b = N - m + j
      <4>1. N - m + i \in 1..N /\ N - m + j \in 1..N
        BY <1>2
      <4> QED
        BY <4>1
    <3>2. a =< b /\ u[i] = s[a] /\ u[j] = s[b]
      BY <1>2, <1>3, <2>1, <3>1
    <3> QED
      BY <1>2, <3>2
  <2>2. ASSUME NEW i \in 1..m PROVE u[i] =< now + 1
    <3>1. PICK a \in 1..N : a = N - m + i
      <4>1. N - m + i \in 1..N
        BY <1>2
      <4> QED
        BY <4>1
    <3> QED
      BY <1>2, <1>3, <3>1
  <2> QED
    BY <1>3, <2>1, <2>2 DEF Ordered
<1>6. PICK old : old = {j \in 1..m : Newest(s, j) =< t + 1}
  OBVIOUS
<1>7. PICK n \in 0..m : /\ \A j \in 1..n : Newest(s, j) > t + 1
                        /\ n < m => Newest(s, n + 1) =< t + 1
  <2>1. CASE old = {}
    <3>1. ASSUME NEW j \in 1..m PROVE Newest(s, j) > t + 1
      <4>1. ~(Newest(s, j) =< t + 1)
        BY <1>6, <2>1
      <4>2. Newest(s, j) \in Nat
        BY <1>4
      <4> QED
        BY <4>1, <4>2
    <3>2. m \in 0..m
      OBVIOUS
    <3> QED
      BY <3>1, <3>2
  <2>2. CASE old # {}
    <3>1. PICK least \in old : \A y \in old : least <= y
      <4>1. old \in SUBSET Nat
        BY <1>6
      <4> QED
        BY <2>2, <4>1, SmallestOf
    <3>2. PICK k \in 0..m : k = least - 1 /\ k < m
      <4>1. least - 1 \in 0..m /\ least - 1 < m
        BY <1>6
      <4> QED
        BY <4>1
    <3>3. \A j \in 1..k : j \in 1..m /\ j \notin old
      BY <1>6, <3>1, <3>2
    <3>4. \A j \in 1..k : Newest(s, j) > t + 1
      BY <1>4, <1>6, <3>3
    <3>5. k + 1 = least /\ Newest(s, least) =< t + 1
      BY <1>6, <3>2
    <3>6. Newest(s, k + 1) =< t + 1
      BY <3>5
    <3> QED
      BY <3>4, <3>6
  <2> QED
    BY <2>1, <2>2
<1>8. ASSUME NEW j \in (n + 1)..m PROVE Newest(s, j) =< t + 1
  <2>1. j \in 1..m /\ n < m /\ n + 1 \in 1..m
    BY <1>2
  <2>2. PICK a \in 1..N, b \in 1..N : a = N + 1 - j /\ b = N + 1 - (n + 1)
    <3>1. N + 1 - j \in 1..N /\ N + 1 - (n + 1) \in 1..N
      BY <1>2, <2>1
    <3> QED
      BY <3>1
  <2>3. s[a] =< s[b] /\ s[a] \in Nat /\ s[b] \in Nat
    BY <1>2, <2>2
  <2>4. Newest(s, j) = s[a] /\ Newest(s, n + 1) = s[b]
    BY <1>4, <2>1, <2>2
  <2>5. s[b] =< t + 1
    BY <1>7, <2>1, <2>4
  <2> QED
    BY <2>3, <2>4, <2>5
<1>9. Live(n, r, u, t + 1)
  <2>1. n \in 0..r.count /\ n =< Len(u)
    BY <1>2, <1>3
  <2>2. ASSUME NEW j \in 1..n PROVE Entry(r, j) = Newest(u, j) /\ Newest(u, j) > t + 1
    <3>1. j \in 1..m
      OBVIOUS
    <3>2. Entry(r, j) = Newest(s, j)
      BY <3>1 DEF Live
    <3> QED
      BY <1>4, <1>7, <3>1, <3>2
  <2>3. ASSUME NEW j \in (n + 1)..r.count PROVE Entry(r, j) =< t + 1
    <3>1. CASE j =< m
      <4>1. j \in 1..m /\ j \in (n + 1)..m
        BY <3>1
      <4>2. Entry(r, j) = Newest(s, j)
        BY <4>1 DEF Live
      <4> QED
        BY <1>8, <4>1, <4>2
    <3>2. CASE ~(j =< m)
      <4>1. j \in (m + 1)..r.count /\ j \in 1..WindowLimit
        BY <1>2, <3>2, WindowAssumption DEF RingTyped, WindowAssumption
      <4>2. Entry(r, j) =< t
        BY <4>1 DEF Live
      <4>3. Entry(r, j) \in Nat
        <5>1. r.head \in 0..(WindowLimit - 1) /\ r.buffer \in [0..(WindowLimit - 1) -> Nat]
          BY DEF RingTyped
        <5>2. Place(r.head, j) \in 0..(WindowLimit - 1)
          BY <4>1, <5>1, PlaceIs
        <5> QED
          BY <5>1, <5>2 DEF Entry
      <4> QED
        BY <4>2, <4>3
    <3> QED
      BY <3>1, <3>2
  <2>4. ASSUME NEW j \in (n + 1)..Len(u) PROVE Newest(u, j) =< t + 1
    <3>1. j \in (n + 1)..m /\ j \in 1..m
      BY <1>2, <1>3
    <3> QED
      BY <1>4, <1>8, <3>1
  <2> QED
    BY <2>1, <2>2, <2>3, <2>4 DEF Live
<1> QED
  BY <1>3, <1>4, <1>5, <1>9 DEF Shrunk


LEMMA WindowTickKeeps ==
  ASSUME LogInv, windowTick
  PROVE  LogInv'
<1>1. /\ RingTyped(ring) /\ windowNow \in Nat /\ promise \in Nat /\ Ordered(logged, windowNow)
      /\ Promised(logged, promise)
  BY DEF LogInv
<1>2. PICK t \in Int : t = windowNow - WindowMs
  <2>1. windowNow - WindowMs \in Int
    BY <1>1, WindowAssumption DEF WindowAssumption
  <2> QED
    BY <2>1
<1>3. PICK m \in Nat : Live(m, ring, logged, t)
  BY <1>2 DEF LogInv
<1>4. PICK s, u : s = logged /\ u = logged'
  OBVIOUS
<1>5. /\ windowNow' = windowNow + 1 /\ ring' = ring /\ promise' = promise
      /\ logged' = SubSeq(logged, past(logged, t) + 1, Len(logged))
  BY <1>2 DEF windowTick
<1>6. s \in Seq(Nat) /\ m \in 0..Len(s) /\ past(s, t) = Len(s) - m
  <2>1. s \in Seq(Nat) /\ m \in 0..Len(s)
    BY <1>1, <1>3, <1>4 DEF Ordered, Live
  <2>2. (\A j \in 1..m : Newest(s, j) > t) /\ \A j \in (m + 1)..Len(s) : Newest(s, j) =< t
    BY <1>3, <1>4 DEF Live
  <2> QED
    BY <2>1, <2>2, PastIs
<1>7. u = SubSeq(s, Len(s) - m + 1, Len(s))
  BY <1>4, <1>5, <1>6
<1>8. /\ \E n \in Nat : Live(n, ring, u, t + 1)
      /\ Ordered(u, windowNow + 1) /\ Len(u) = m
      /\ \A j \in 1..m : Newest(u, j) = Newest(s, j)
  <2>1. Shrunk(m, ring, s, t, u) /\ Ordered(u, windowNow + 1)
    BY <1>1, <1>3, <1>4, <1>7, LiveShrinks
  <2> QED
    BY <2>1 DEF Shrunk
<1>9. Promised(u, promise)
  <2>1. ASSUME promise # 0, m >= WindowLimit PROVE Newest(u, WindowLimit) + WindowMs =< promise
    <3>1. Len(s) >= WindowLimit /\ WindowLimit \in 1..m
      BY <1>6, <2>1, WindowAssumption DEF WindowAssumption
    <3>2. Newest(s, WindowLimit) + WindowMs =< promise
      BY <1>1, <1>4, <2>1, <3>1 DEF Promised
    <3> QED
      BY <1>8, <3>1, <3>2
  <2> QED
    BY <1>8, <2>1 DEF Promised
<1>10. PICK n \in Nat : Live(n, ring, u, t + 1)
  BY <1>8
<1>11. windowNow' - WindowMs = t + 1
  BY <1>1, <1>2, <1>5, WindowAssumption DEF WindowAssumption
<1>12. /\ RingTyped(ring') /\ windowNow' \in Nat /\ promise' \in Nat
       /\ Ordered(logged', windowNow') /\ Live(n, ring', logged', windowNow' - WindowMs)
       /\ Promised(logged', promise')
  BY <1>1, <1>4, <1>5, <1>8, <1>9, <1>10, <1>11
<1> QED
  BY <1>12 DEF LogInv, RingTyped, Ordered, Live, Promised, Entry, Place, Newest

(* The two windows a counter knows are those of its hits.                    *)
CounterAt(k, s, c) ==
  /\ s \in [windowIndex : Int, currentCount : Nat, previousCount : Nat] /\ s.windowIndex \in -1..k
  /\ s.windowIndex = -1 => s.currentCount = 0 /\ s.previousCount = 0
  /\ c \in [0..WindowHorizon -> Nat] /\ c[k] <= WindowLimit
  /\ \A q \in 0..WindowHorizon : q > k => c[q] = 0
  /\ c[k] = IF s.windowIndex = k THEN s.currentCount ELSE 0
  /\ c[k - 1] = IF s.windowIndex = k THEN s.previousCount
                ELSE IF s.windowIndex = k - 1 THEN s.currentCount ELSE 0

CounterInv ==
  /\ windowNow \in WindowMs..WindowHorizon
  /\ CounterAt(windowIndexNow, counterState, counted)

(* The windows of the clock: never the first, and each comes after another.  *)
LEMMA IndexIs ==
  ASSUME NEW now \in WindowMs..WindowHorizon, NEW k, k = now \div WindowMs
  PROVE  k \in 1..WindowHorizon /\ k * WindowMs <= now /\ now < k * WindowMs + WindowMs
<1>1. PICK m \in Nat \ {0}, x \in Int : m = WindowMs /\ x = now
  BY WindowAssumption DEF WindowAssumption
<1>2. k \in Int /\ k * m <= x /\ x < k * m + m /\ x >= m
  BY <1>1, Division
<1>3. ~(k <= -1) /\ k # 0
  <2>1. k <= -1 => k * m <= -m
    BY <1>2, Multiples
  <2>2. k = 0 => k * m = 0
    BY <1>1
  <2> QED
    BY <1>1, <1>2, <2>1, <2>2
<1>4. k <= x
  <2>1. PICK n \in Nat \ {0} : n = k
    BY <1>2, <1>3
  <2>2. m * n >= n
    BY <1>1, Multiples
  <2>3. m * n = k * m
    BY <1>1, <2>1
  <2> QED
    BY <1>1, <1>2, <2>1, <2>2, <2>3
<1> QED
  BY <1>1, <1>2, <1>3, <1>4, WindowAssumption DEF WindowAssumption

LEMMA NextIndex ==
  ASSUME NEW now \in WindowMs..WindowHorizon, now + 1 \in WindowMs..WindowHorizon,
         NEW k, k = now \div WindowMs, NEW n, n = (now + 1) \div WindowMs
  PROVE  n \in 1..WindowHorizon /\ k \in 1..WindowHorizon /\ n \in {k, k + 1}
<1>1. PICK m \in Nat \ {0}, x \in Int : m = WindowMs /\ x = now
  BY WindowAssumption DEF WindowAssumption
<1>2. k \in 1..WindowHorizon /\ k * m <= x /\ x < k * m + m
  BY <1>1, IndexIs
<1>3. n \in 1..WindowHorizon /\ n * m <= x + 1 /\ x + 1 < n * m + m
  <2>1. PICK y \in WindowMs..WindowHorizon : y = now + 1
    OBVIOUS
  <2>2. n \in 1..WindowHorizon /\ n * WindowMs <= y /\ y < n * WindowMs + WindowMs
    BY <2>1, IndexIs
  <2> QED
    BY <1>1, <2>1, <2>2
<1>4. PICK d \in Int : d = n - k /\ n = k + d
  BY <1>2, <1>3
<1>5. n * m = k * m + d * m
  BY <1>1, <1>2, <1>4
<1>6. PICK km \in Int, dm \in Int : km = k * m /\ dm = d * m
  BY <1>1, <1>2, <1>4
<1>7. ~(d <= -1)
  <2>1. d <= -1 => dm <= -m
    BY <1>6, Multiples
  <2> QED
    BY <1>1, <1>2, <1>3, <1>5, <1>6, <2>1
<1>8. ~(d >= 2)
  <2>1. d - 1 >= 1 => (d - 1) * m >= m
    BY <1>4, Multiples
  <2>2. (d - 1) * m = dm - m
    BY <1>1, <1>4, <1>6
  <2> QED
    BY <1>1, <1>2, <1>3, <1>5, <1>6, <2>1, <2>2
<1> QED
  BY <1>2, <1>3, <1>4, <1>7, <1>8

(* The state rolled forward.                                                 *)
LEMMA RolledIs ==
  ASSUME CounterInv, NEW k, k = windowIndexNow
  PROVE  /\ k \in 1..WindowHorizon
         /\ rolled(counterState) =
              [windowIndex |-> k, currentCount |-> counted[k], previousCount |-> counted[k - 1]]
<1>1. k \in 1..WindowHorizon /\ CounterAt(k, counterState, counted)
  BY IndexIs DEF CounterInv, windowIndexNow
<1>2. PICK s : s = counterState
  OBVIOUS
<1>3. rolled(s) = IF s.windowIndex \in {-1, k} THEN [s EXCEPT !.windowIndex = k]
                  ELSE [windowIndex |-> k, currentCount |-> 0,
                        previousCount |-> IF k - s.windowIndex = 1 THEN s.currentCount ELSE 0]
  BY DEF rolled
<1>4. s = [windowIndex |-> s.windowIndex, currentCount |-> s.currentCount, previousCount |-> s.previousCount]
      /\ s.windowIndex \in -1..k /\ k \in Nat
  BY <1>1, <1>2 DEF CounterAt
<1>5. CASE s.windowIndex = k
  BY <1>1, <1>2, <1>3, <1>4, <1>5 DEF CounterAt
<1>6. CASE s.windowIndex = -1
  <2>1. s.currentCount = 0 /\ s.previousCount = 0 /\ counted[k] = 0 /\ counted[k - 1] = 0
    BY <1>1, <1>2, <1>6 DEF CounterAt
  <2> QED
    BY <1>1, <1>2, <1>3, <1>4, <1>6, <2>1
<1>7. CASE s.windowIndex \notin {-1, k}
  <2>1. counted[k] = 0 /\ counted[k - 1] = IF s.windowIndex = k - 1 THEN s.currentCount ELSE 0
    BY <1>1, <1>2, <1>7 DEF CounterAt
  <2>2. (s.windowIndex = k - 1) <=> (k - s.windowIndex = 1)
    BY <1>4
  <2> QED
    BY <1>1, <1>2, <1>3, <1>7, <2>1, <2>2
<1> QED
  BY <1>5, <1>6, <1>7

(* A hit leaves a place for itself in the window.                            *)
LEMMA HitFits ==
  ASSUME NEW p \in Nat, NEW c \in Nat, NEW now \in Nat,
         p * (WindowMs - (now % WindowMs)) + c * WindowMs + WindowMs <= WindowLimit * WindowMs
  PROVE  c + 1 <= WindowLimit
<1>1. PICK m \in Nat \ {0}, L \in Nat : m = WindowMs /\ L = WindowLimit
  BY WindowAssumption DEF WindowAssumption
<1>2. PICK x \in 0..(m - 1) : x = now % WindowMs
  <2>1. now % m \in 0..(m - 1)
    BY Remainder
  <2> QED
    BY <1>1, <2>1
<1>3. PICK y \in Nat : y = m - x
  BY <1>2
<1>4. p * y \in Nat
  BY <1>3
<1>5. PICK py \in Nat : py = p * y
  BY <1>4
<1>6. py + c * m + m <= L * m
  BY <1>1, <1>2, <1>3, <1>5
<1>7. (c + 1 - L) * m = c * m + m - L * m
  BY <1>1
<1>8. (c + 1 - L) >= 1 => (c + 1 - L) * m >= m
  BY <1>1, Multiples
<1>9. PICK cm \in Int, lm \in Int : cm = c * m /\ lm = L * m
  BY <1>1
<1> QED
  BY <1>1, <1>6, <1>7, <1>8, <1>9


(* No hits are counted.                                                      *)
LEMMA NoHits ==
  ASSUME NEW k \in 1..WindowHorizon
  PROVE  CounterAt(k, noState, noHits)
<1>1. k \in 0..WindowHorizon /\ k - 1 \in 0..WindowHorizon /\ WindowLimit >= 0 /\ -1 \in -1..k
      /\ k # -1
  BY WindowAssumption DEF WindowAssumption
<1>2. noHits[k] = 0 /\ noHits[k - 1] = 0 /\ \A q \in 0..WindowHorizon : noHits[q] = 0
  BY <1>1 DEF noHits
<1>3. noHits \in [0..WindowHorizon -> Nat]
  BY DEF noHits
<1>4. /\ noState \in [windowIndex : Int, currentCount : Nat, previousCount : Nat]
      /\ noState.windowIndex = -1 /\ noState.currentCount = 0 /\ noState.previousCount = 0
  BY DEF noState
<1> QED
  BY <1>1, <1>2, <1>3, <1>4 DEF CounterAt

LEMMA CounterFirst == windowsInit => CounterInv
<1> SUFFICES ASSUME windowsInit PROVE CounterInv
  OBVIOUS
<1>1. windowNow \in WindowMs..WindowHorizon /\ counterState = noState /\ counted = noHits
  BY WindowAssumption DEF WindowAssumption, windowsInit
<1>2. windowIndexNow \in 1..WindowHorizon
  BY <1>1, IndexIs DEF windowIndexNow
<1> QED
  BY <1>1, <1>2, NoHits DEF CounterInv

(* What the counter does while the clock stands still.                       *)
LEMMA CounterMoves ==
  ASSUME CounterInv, counterHit \/ counterPrune \/ counterReset
  PROVE  CounterInv'
<1>1. PICK k : k = windowIndexNow
  OBVIOUS
<1>2. PICK s, c : s = counterState /\ c = counted
  OBVIOUS
<1>3. /\ k \in 1..WindowHorizon /\ k - 1 \in 0..WindowHorizon /\ k \in 0..WindowHorizon
      /\ rolled(s) = [windowIndex |-> k, currentCount |-> c[k], previousCount |-> c[k - 1]]
  <2>1. /\ k \in 1..WindowHorizon
        /\ rolled(s) = [windowIndex |-> k, currentCount |-> c[k], previousCount |-> c[k - 1]]
    BY <1>1, <1>2, RolledIs
  <2> QED
    BY <2>1, WindowAssumption DEF WindowAssumption
<1>4. windowNow \in WindowMs..WindowHorizon /\ CounterAt(k, s, c)
  BY <1>1, <1>2 DEF CounterInv
<1>5. c \in [0..WindowHorizon -> Nat] /\ c[k] \in Nat /\ c[k - 1] \in Nat /\ c[k] <= WindowLimit
      /\ \A q \in 0..WindowHorizon : q > k => c[q] = 0
  BY <1>3, <1>4 DEF CounterAt
<1>6. PICK a \in Nat, b \in Nat : a = c[k] /\ b = c[k - 1]
  BY <1>5
<1>7. SUFFICES windowNow' = windowNow /\ CounterAt(k, counterState', counted')
  <2>1. windowIndexNow' = k <=> windowNow' \div WindowMs = windowNow \div WindowMs
    BY <1>1 DEF windowIndexNow
  <2> QED
    BY <1>1, <1>4, <2>1 DEF CounterInv, windowIndexNow, CounterAt
<1>8. CASE counterHit
  <2>1. PICK r : r = rolled(s)
    OBVIOUS
  <2>2. r = [windowIndex |-> k, currentCount |-> a, previousCount |-> b]
    BY <1>3, <1>6, <2>1
  <2>3. /\ windowNow' = windowNow
        /\ LET allowed == weighted(r) + WindowMs <= WindowLimit * WindowMs
           IN /\ counterState' = IF allowed THEN [r EXCEPT !.currentCount = @ + 1] ELSE r
              /\ counted' = IF allowed THEN [c EXCEPT ![k] = @ + 1] ELSE c
    BY <1>1, <1>2, <1>8, <2>1 DEF counterHit
  <2>4. CASE ~(weighted(r) + WindowMs <= WindowLimit * WindowMs)
    <3>1. counterState' = r /\ counted' = c
      BY <2>3, <2>4
    <3>2. CounterAt(k, r, c)
      BY <1>3, <1>5, <1>6, <2>2 DEF CounterAt
    <3> QED
      BY <2>3, <3>1, <3>2
  <2>5. CASE weighted(r) + WindowMs <= WindowLimit * WindowMs
    <3>1. a + 1 <= WindowLimit
      <4>1. weighted(r) = b * (WindowMs - (windowNow % WindowMs)) + a * WindowMs
        BY <2>2 DEF weighted
      <4>2. windowNow \in Nat
        BY <1>4, WindowAssumption DEF WindowAssumption
      <4> QED
        BY <2>5, <4>1, <4>2, HitFits
    <3>2. PICK d : d = [c EXCEPT ![k] = @ + 1]
      OBVIOUS
    <3>3. /\ d \in [0..WindowHorizon -> Nat] /\ d[k] = a + 1 /\ d[k - 1] = b
          /\ \A q \in 0..WindowHorizon : q > k => d[q] = 0
      BY <1>3, <1>5, <1>6, <3>2
    <3>4. PICK x : x = [windowIndex |-> k, currentCount |-> a + 1, previousCount |-> b]
      OBVIOUS
    <3>5. counterState' = x /\ counted' = d
      BY <2>2, <2>3, <2>5, <3>2, <3>4
    <3>6. CounterAt(k, x, d)
      BY <1>3, <1>6, <3>1, <3>3, <3>4 DEF CounterAt
    <3> QED
      BY <2>3, <3>5, <3>6
  <2> QED
    BY <2>4, <2>5
<1>9. CASE counterPrune
  <2>1. windowNow' = windowNow /\ counterState' = noState /\ counted' = c /\ k - s.windowIndex > 1
    BY <1>1, <1>2, <1>9 DEF counterPrune
  <2>2. s.windowIndex # k /\ s.windowIndex # k - 1
    BY <1>3, <1>4, <2>1 DEF CounterAt
  <2>3. c[k] = 0 /\ c[k - 1] = 0
    BY <1>4, <2>2 DEF CounterAt
  <2>4. /\ noState \in [windowIndex : Int, currentCount : Nat, previousCount : Nat]
        /\ noState.windowIndex = -1 /\ noState.currentCount = 0 /\ noState.previousCount = 0
        /\ -1 \in -1..k /\ k # -1
    BY <1>3 DEF noState
  <2>5. CounterAt(k, noState, c)
    BY <1>5, <2>3, <2>4 DEF CounterAt
  <2> QED
    BY <2>1, <2>5
<1>10. CASE counterReset
  <2>1. windowNow' = windowNow /\ counterState' = noState /\ counted' = noHits
    BY <1>10 DEF counterReset
  <2> QED
    BY <1>3, <2>1, NoHits
<1> QED
  BY <1>8, <1>9, <1>10

LEMMA CounterTicks ==
  ASSUME CounterInv, windowTick
  PROVE  CounterInv'
<1>1. PICK k, n, s, c : k = windowIndexNow /\ n = (windowNow + 1) \div WindowMs /\ s = counterState /\ c = counted
  OBVIOUS
<1>2. windowNow' = windowNow + 1 /\ counterState' = s /\ counted' = c /\ windowNow < WindowHorizon
  BY <1>1 DEF windowTick
<1>3. windowNow \in WindowMs..WindowHorizon /\ windowNow + 1 \in WindowMs..WindowHorizon
  BY <1>2, WindowAssumption DEF CounterInv, WindowAssumption
<1>4. n \in 1..WindowHorizon /\ k \in 1..WindowHorizon /\ n \in {k, k + 1}
  BY <1>1, <1>3, NextIndex DEF windowIndexNow
<1>5. CounterAt(k, s, c)
  BY <1>1 DEF CounterInv
<1>6. CounterAt(n, s, c)
  <2>1. CASE n = k
    BY <1>5, <2>1
  <2>2. CASE n = k + 1
    <3>1. /\ s.windowIndex \in -1..k /\ s.windowIndex \in -1..n /\ s.windowIndex # n
          /\ n - 1 = k /\ n \in 0..WindowHorizon /\ n > k
      BY <1>4, <1>5, <2>2 DEF CounterAt
    <3>2. c[n] = 0 /\ WindowLimit >= 0
      BY <1>5, <3>1, WindowAssumption DEF CounterAt, WindowAssumption
    <3>3. c[n - 1] = IF s.windowIndex = n - 1 THEN s.currentCount ELSE 0
      BY <1>5, <3>1 DEF CounterAt
    <3>4. \A q \in 0..WindowHorizon : q > n => c[q] = 0
      BY <1>4, <1>5, <2>2 DEF CounterAt
    <3> QED
      BY <1>5, <3>1, <3>2, <3>3, <3>4 DEF CounterAt
  <2> QED
    BY <1>4, <2>1, <2>2
<1>7. windowIndexNow' = n
  BY <1>1, <1>2 DEF windowIndexNow
<1>8. CounterAt(windowIndexNow', counterState', counted')
  BY <1>2, <1>6, <1>7
<1> QED
  BY <1>2, <1>3, <1>8 DEF CounterInv, CounterAt, windowIndexNow

WindowInv == LogInv /\ CounterInv

(* The windows move only while they are the subject.                         *)
LEMMA WindowSteps ==
  ASSUME [SubjectNext]_allVars
  PROVE  counterNext \/ logNext \/ UNCHANGED windowVars
<1>1. CASE SubjectNext
  <2>1. (StructuresNext \/ ServicesNext)
        /\ (subject \in {"counter", "log"} \/ UNCHANGED windowVars)
    BY <1>1 DEF SubjectNext, RestStays
  <2>2. StructuresNext /\ subject \in {"counter", "log"} => counterNext \/ logNext
    BY DEF StructuresNext
  <2>3. ServicesNext => subject \notin {"counter", "log"}
    BY DEF ServicesNext
  <2> QED
    BY <2>1, <2>2, <2>3
<1>2. CASE UNCHANGED allVars
  BY <1>2 DEF allVars
<1> QED
  BY <1>1, <1>2

LEMMA WindowStep ==
  ASSUME WindowInv, [SubjectNext]_allVars
  PROVE  WindowInv'
<1>1. CASE windowTick
  BY <1>1, WindowTickKeeps, CounterTicks DEF WindowInv
<1>2. CASE logHit \/ logReset
  <2>1. LogInv'
    <3>1. CASE logHit
      BY <3>1, HitKeeps DEF WindowInv
    <3>2. CASE logReset
      <4>1. windowNow' \in Nat /\ ring' = emptyRing /\ logged' = <<>> /\ promise' = 0
        BY <3>2 DEF logReset, WindowInv, LogInv
      <4> QED
        BY <4>1, EmptyLog
    <3> QED
      BY <1>2, <3>1, <3>2
  <2>2. windowNow' = windowNow /\ counterState' = counterState /\ counted' = counted
    BY <1>2 DEF logHit, logReset
  <2> QED
    BY <2>1, <2>2 DEF WindowInv, CounterInv, CounterAt, windowIndexNow
<1>3. CASE counterHit \/ counterPrune \/ counterReset
  <2>1. CounterInv'
    BY <1>3, CounterMoves DEF WindowInv
  <2>2. UNCHANGED <<windowNow, ring, logged, promise>>
    BY <1>3 DEF counterHit, counterPrune, counterReset
  <2> QED
    BY <2>1, <2>2 DEF WindowInv, LogInv, RingTyped, Ordered, Live, Promised, Entry, Place, Newest
<1>4. CASE UNCHANGED windowVars
  BY <1>4 DEF windowVars, WindowInv, LogInv, RingTyped, Ordered, Live, Promised, Entry, Place, Newest,
              CounterInv, CounterAt, windowIndexNow
<1> QED
  BY <1>1, <1>2, <1>3, <1>4, WindowSteps DEF counterNext, logNext

LEMMA WindowsRight == WindowInv => WindowsHold
<1> SUFFICES ASSUME WindowInv PROVE WindowsHold
  OBVIOUS
<1>1. /\ RingTyped(ring) /\ windowNow \in Nat /\ promise \in Nat /\ Ordered(logged, windowNow)
      /\ Promised(logged, promise)
  BY DEF WindowInv, LogInv
<1>2. PICK t \in Int : t = windowNow - WindowMs
  <2>1. windowNow - WindowMs \in Int
    BY <1>1, WindowAssumption DEF WindowAssumption
  <2> QED
    BY <2>1
<1>3. PICK m \in Nat : Live(m, ring, logged, t)
  BY <1>2 DEF WindowInv, LogInv
<1>4. PICK N \in Nat : N = Len(logged)
  BY <1>1 DEF Ordered
<1>5. logged \in Seq(Nat) /\ m \in 0..Len(logged) /\ m =< N
  BY <1>1, <1>3, <1>4 DEF Ordered, Live
<1>6. (\A j \in 1..m : Newest(logged, j) > t) /\ \A j \in (m + 1)..Len(logged) : Newest(logged, j) =< t
  BY <1>3 DEF Live
<1>7. recent = m
  <2>1. past(logged, t) = N - m
    BY <1>4, <1>5, <1>6, PastIs
  <2>2. recent = N - past(logged, t)
    BY <1>2, <1>4 DEF recent
  <2> QED
    BY <2>1, <2>2
<1>8. \A j \in 1..m : Newest(logged, j) \in Nat
  BY <1>5 DEF Newest
<1>9. evicted.count = m /\ m =< WindowLimit
  <2>1. evicted = With(m)
    BY <1>1, <1>2, <1>3, <1>8, EvictedIs
  <2>2. With(m).count = m /\ m =< WindowLimit
    BY <1>1, <1>3, StaysLive
  <2> QED
    BY <2>1, <2>2
<1>10. recent <= WindowLimit
  BY <1>7, <1>9
<1>11. (evicted.count >= WindowLimit) = (recent = WindowLimit)
  <2>1. evicted.count >= WindowLimit <=> recent = WindowLimit
    BY <1>7, <1>9, WindowAssumption DEF WindowAssumption
  <2> QED
    BY <2>1
<1>12. promise # 0 /\ windowNow >= promise => recent < WindowLimit
  <2>1. ASSUME promise # 0, windowNow >= promise, m >= WindowLimit PROVE FALSE
    <3>1. WindowLimit \in 1..m /\ Len(logged) >= WindowLimit
      BY <1>4, <1>5, <2>1, WindowAssumption DEF WindowAssumption
    <3>2. PICK x \in Nat : x = Newest(logged, WindowLimit) /\ x > t /\ x + WindowMs =< promise
      BY <1>1, <1>6, <1>8, <2>1, <3>1 DEF Promised
    <3> QED
      BY <1>1, <1>2, <2>1, <3>2, WindowAssumption DEF WindowAssumption
  <2> QED
    BY <1>7, <2>1, WindowAssumption DEF WindowAssumption
<1>13. PICK k : k = windowIndexNow
  OBVIOUS
<1>14. /\ counted[k] <= WindowLimit
       /\ rolled(counterState) =
            [windowIndex |-> k, currentCount |-> counted[k], previousCount |-> counted[k - 1]]
  <2>1. CounterInv
    BY DEF WindowInv
  <2> QED
    BY <1>13, <2>1, RolledIs DEF CounterInv, CounterAt
<1>15. rolled(counterState).currentCount = counted[k] /\ rolled(counterState).previousCount = counted[k - 1]
  BY <1>14
<1> QED
  BY <1>10, <1>11, <1>12, <1>13, <1>14, <1>15 DEF WindowsHold

LEMMA WindowsBegin == SubjectInit => WindowInv
  BY LogFirst, CounterFirst DEF SubjectInit, WindowInv

(* No attempt runs beside another, whatever times out or is aborted, for any *)
(* number of attempts; no item is worked on twice or forgotten, for any      *)
(* number of items and runners (retry.ts); whatever runs of the seed         *)
(* overlap, are interrupted and start again, one that ends leaves the whole  *)
(* catalogue and keeps what was hidden, for any catalogue (cli/seed.ts); and *)
(* once a day has been rolled up after its end, its rows are what every      *)
(* check recorded of it comes to, through all later roll-ups, finished or    *)
(* not, and while raw checks are pruned, for any APIs, any hours to a day    *)
(* and any retention of two days or more (jobs/health.ts:309-392); and       *)
(* whatever orders the imports list their records in and whatever rows are   *)
(* lost on the way, no insert of an import is rejected for its slug, no row  *)
(* is planned with the slug of another, and a row with the plain slug of its *)
(* record keeps it, for any records and any seed (normalizer.ts:224-278);    *)
(* and the log allows no more than its limit in any window of time, each of  *)
(* its refusals is due and the wait it promises is enough, and the counter   *)
(* allows no more than the limit in a fixed window and weighs the true       *)
(* counts of this one and the last, over all wraps of the ring, windows      *)
(* rolled and gaps without a hit, for any limit, window and run of the clock *)
(* (sliding-window.ts:57-190).                                               *)
THEOREM WorkIsBounded == SubjectSpec => []WorkBounded
<1>1. SubjectInit => WorkInv /\ HistoryInv /\ SlugInv /\ WindowInv
  BY MapStart, SeedFirst, HistoryBegins, SlugsBegin, WindowsBegin DEF SubjectInit, WorkInv
<1>2. WorkInv /\ [SubjectNext]_allVars => WorkInv'
  BY WorkStutter, OwnSteps, RetryStep, MapStep, SeedMoves DEF WorkInv
<1>3. HistoryInv /\ [SubjectNext]_allVars => HistoryInv'
  BY HistoryStep
<1>4. SlugInv /\ [SubjectNext]_allVars => SlugInv'
  BY SlugStep
<1>5. WindowInv /\ [SubjectNext]_allVars => WindowInv'
  BY WindowStep
<1>6. WorkInv /\ HistoryInv /\ SlugInv /\ WindowInv => WorkBounded
  BY MapRight, SeedRight, HistoryIsKept, SlugsRight, WindowsRight DEF WorkInv, WorkBounded, RetryInv
<1> QED
  BY <1>1, <1>2, <1>3, <1>4, <1>5, <1>6, PTL DEF SubjectSpec
=============================================================================
