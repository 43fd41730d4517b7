------------------------- MODULE HealthMonitorProofs -------------------------
(***************************************************************************)
(* Safety of health monitoring for any number of APIs and of calls of      *)
(* probeAndRecord() in progress.                                           *)
(***************************************************************************)
EXTENDS HealthMonitor, FiniteSetTheorems, TLAPS

(* The call p is past selectDueTargets() and works on the API a.             *)
probes(p, a) == prober[p].pc # "idle" /\ p[2] = a

(* The calls of an undisturbed API never overlap.                            *)
OneProbe ==
  \A a \in Apis, p, q \in Probers :
    ~disturbed[a] /\ probes(p, a) /\ probes(q, a) => p = q

(* What a call computed from the stored state is still computed from it when *)
(* it is written: nobody wrote in between.                                   *)
ReadIsFresh ==
  \A a \in Apis, p \in Probers :
    ~disturbed[a] /\ probes(p, a) /\ prober[p].pc \in {"append", "upsert"}
      => prober[p].next = transition(latest[a], prober[p].observed)

(* Unless the API is down, the stored counter is the number of failed        *)
(* observations in a row, one behind while the latest is not yet upserted.   *)
Counting ==
  \A a \in Apis : ~disturbed[a] =>
    /\ latest[a].status # "down" /\ (\A p \in Probers : probes(p, a) => prober[p].pc # "upsert")
         => failing[a] = latest[a].failures
    /\ \A p \in Probers : probes(p, a) /\ prober[p].pc = "upsert" =>
         IF isSuccessful(prober[p].observed) THEN failing[a] = 0
         ELSE latest[a].status # "down" => failing[a] = Counted(latest[a].failures)

IInv == TypeOK /\ OneProbe /\ ReadIsFresh /\ Counting

USE MonitorAssumption DEF MonitorAssumption

-----------------------------------------------------------------------------
(* transition() stays within its type, goes to down only over the threshold, *)
(* and says whether the public status went down or came back.                *)
LEMMA TransitionOK ==
  ASSUME NEW current \in State, NEW observed \in Observed
  PROVE  LET next == transition(current, observed)
         IN  /\ next \in Transition
             /\ next.opened <=> next.state.status = "down" /\ current.status # "down"
             /\ next.resolved <=> next.state.status # "down" /\ current.status = "down"
             /\ next.state.status # "down" =>
                  next.state.failures = IF isSuccessful(observed) THEN 0 ELSE Counted(current.failures)
             /\ next.resolved => isSuccessful(observed)
             /\ next.opened /\ current.status # "unknown" =>
                  ~isSuccessful(observed) /\ Counted(current.failures) >= FAILURE_THRESHOLD
<1> DEFINE next == transition(current, observed)
<1> USE DEF State, Status, Observed, isSuccessful
<1>0. /\ \A n \in 0..MaxCount : Counted(n) \in 0..MaxCount
      /\ \A n \in 0..RECOVERY_THRESHOLD : Regained(n) \in 0..RECOVERY_THRESHOLD
  BY DEF Counted, Regained, Lesser
<1>1. CASE isSuccessful(observed) /\ stillDown(current)
  <2>1. next = [state |-> [current EXCEPT !.successes = Regained(@)],
                opened |-> FALSE, resolved |-> FALSE]
    BY <1>1 DEF transition, succeed
  <2>2. [current EXCEPT !.successes = Regained(@)] \in State
    BY <1>0
  <2>3. next \in Transition
    BY <2>1, <2>2 DEF Transition
  <2>4. current.status = "down" /\ next.state.status = "down" /\ ~next.opened /\ ~next.resolved
    BY <1>1, <2>1 DEF stillDown
  <2> QED
    BY <2>3, <2>4
<1>2. CASE isSuccessful(observed) /\ ~stillDown(current)
  <2> DEFINE new == [status |-> observed, failures |-> 0, successes |-> Regained(current.successes)]
  <2>1. next = [state |-> new, opened |-> FALSE, resolved |-> current.status = "down"]
    BY <1>2 DEF transition, succeed
  <2>2. new \in State
    BY <1>0
  <2>3. next \in Transition
    BY <2>1, <2>2 DEF Transition
  <2>4. /\ next.state = new /\ ~next.opened
        /\ next.resolved <=> current.status = "down"
    <3> HIDE DEF next, new
    <3>1. CASE current.status = "down"
      <4>1. next = [state |-> new, opened |-> FALSE, resolved |-> TRUE]
        BY <2>1, <3>1
      <4> QED
        BY <3>1, <4>1
    <3>2. CASE current.status # "down"
      <4>1. next = [state |-> new, opened |-> FALSE, resolved |-> FALSE]
        BY <2>1, <3>2
      <4> QED
        BY <3>2, <4>1
    <3> QED
      BY <3>1, <3>2
  <2>5. next.state.status # "down" /\ next.state.failures = 0
    BY <1>2, <2>4
  <2> QED
    BY <1>2, <2>3, <2>4, <2>5
<1>3. CASE ~isSuccessful(observed)
  <2> DEFINE failures == Counted(current.failures)
             keep == belowThreshold(failures, current.status)
             status == IF ~keep THEN "down"
                       ELSE IF current.status = "up" THEN "degraded" ELSE current.status
             new == [status |-> status, failures |-> failures, successes |-> 0]
  <2>1. next = [state |-> new, opened |-> ~keep /\ current.status # "down", resolved |-> FALSE]
    BY <1>3 DEF transition, fail
  <2>2. new \in State
    BY <1>0
  <2>3. next \in Transition
    BY <2>1, <2>2 DEF Transition
  <2>4. /\ next.state = new /\ ~next.resolved
        /\ next.opened <=> ~keep /\ current.status # "down"
    <3> HIDE DEF next, new, keep
    <3>1. CASE ~keep /\ current.status # "down"
      <4>1. next = [state |-> new, opened |-> TRUE, resolved |-> FALSE]
        BY <2>1, <3>1
      <4> QED
        BY <3>1, <4>1
    <3>2. CASE ~(~keep /\ current.status # "down")
      <4>1. next = [state |-> new, opened |-> FALSE, resolved |-> FALSE]
        BY <2>1, <3>2
      <4> QED
        BY <3>2, <4>1
    <3> QED
      BY <3>1, <3>2
  <2>5. status = "down" <=> ~keep \/ current.status = "down"
    BY DEF belowThreshold
  <2>6. ~keep /\ current.status # "unknown" => failures >= FAILURE_THRESHOLD
    BY <1>0 DEF belowThreshold
  <2>7. next.state.status = status /\ next.state.failures = failures
    BY <2>4
  <2> QED
    BY <1>3, <2>3, <2>4, <2>5, <2>6, <2>7
<1> QED
  BY <1>1, <1>2, <1>3

(* Nothing has been probed at first.                                         *)
LEMMA InitOK == Init => IInv
  BY DEF Init, IInv, TypeOK, OneProbe, ReadIsFresh, Counting, probes, Idle, Nothing, Unmeasured,
         State, Status, Observed, Transition, NoIncident

(* What probeAndRecord() keeps.                                              *)
Calls == [pc : {"idle", "probing", "append", "upsert", "open", "select", "resolve"},
          observed : Observed, next : Transition, incident : Incidents \cup {NoIncident}]

(* A prober at rest.                                                         *)
LEMMA IdleOK ==
  /\ Idle \in Calls /\ Idle.pc = "idle"
  /\ Probing \in Calls /\ Probing.pc = "probing"
<1>1. Unmeasured \in State
  BY DEF Unmeasured, State, Status
<1>2. Nothing \in Transition
  BY <1>1 DEF Nothing, Transition
<1> QED
  BY <1>2 DEF Idle, Probing, Calls, Observed, NoIncident

(* A step of one call that leaves the stored state alone, ends the call or   *)
(* keeps it past its upsert, and disturbs the API when it ends it before.    *)
LEMMA QuietOK ==
  ASSUME IInv, NEW p \in Probers, NEW r \in Calls, prober[p].pc # "idle",
         prober' = [prober EXCEPT ![p] = r],
         r.pc \in {"idle", "resolve"},
         UNCHANGED <<latest, priority, due, rivals, healthy, failing>>,
         open' \in [Apis -> SUBSET Incidents],
         \/ disturbed' = disturbed /\ prober[p].pc # "upsert"
         \/ disturbed' = [disturbed EXCEPT ![p[2]] = TRUE]
  PROVE  IInv'
<1> USE DEF IInv
<1>1. TypeOK'
  BY DEF TypeOK, Calls
<1>2. OneProbe'
  BY DEF OneProbe, TypeOK, probes
<1>3. ReadIsFresh'
  BY DEF ReadIsFresh, OneProbe, TypeOK, probes
<1>4. Counting'
  <2>1. PICK b \in Apis : p[2] = b
    BY DEF Probers
  <2>2. ASSUME NEW a \in Apis, ~disturbed'[a]
        PROVE  /\ \A q \in Probers : probes(q, a)' /\ prober'[q].pc = "upsert"
                     => probes(q, a) /\ prober[q].pc = "upsert"
               /\ (\A q \in Probers : probes(q, a)' => prober'[q].pc # "upsert")
                     => \A q \in Probers : probes(q, a) => prober[q].pc # "upsert"
    BY <2>1, <2>2 DEF TypeOK, probes
  <2>3. \A a \in Apis : ~disturbed'[a] => ~disturbed[a]
    BY <2>1 DEF TypeOK
  <2>4. \A q \in Probers : prober'[q].pc = "upsert" => prober'[q].observed = prober[q].observed
    BY DEF TypeOK
  <2> QED
    BY <2>2, <2>3, <2>4 DEF Counting
<1> QED
  BY <1>1, <1>2, <1>3, <1>4

(* A sweep picks its targets; an overlap disturbs an API.                    *)
LEMMA SelectOK ==
  ASSUME IInv, NEW s \in Sweeps, NEW batch \in batches, selectDueTargets(s, batch)
  PROVE  IInv'
<1> USE DEF IInv, selectDueTargets
<1>1. TypeOK'
  <2>1. batch \subseteq Active
    BY DEF batches
  <2>2. prober' \in [Probers -> Calls]
    BY IdleOK DEF TypeOK, Calls
  <2>3. rivals' \in [Sweeps -> SUBSET Rivals]
    BY <2>1 DEF TypeOK, Active
  <2>4. disturbed' \in [Apis -> BOOLEAN]
    BY DEF TypeOK
  <2> QED
    BY <2>2, <2>3, <2>4 DEF TypeOK, Calls
<1>2. \A p \in Probers, a \in Apis :
        ~disturbed'[a] /\ probes(p, a)' =>
          /\ ~disturbed[a]
          /\ \/ probes(p, a) /\ prober'[p] = prober[p] /\ ~(p[1] = s /\ a \in batch)
             \/ p[1] = s /\ a \in batch /\ prober'[p] = Probing /\ \A q \in Probers : ~probes(q, a)
  BY DEF TypeOK, probes, busy
<1>3. OneProbe'
  <2> SUFFICES ASSUME NEW a \in Apis, NEW p \in Probers, NEW q \in Probers,
                      ~disturbed'[a], probes(p, a)', probes(q, a)'
               PROVE  p = q
    BY DEF OneProbe
  <2>1. p[2] = a /\ q[2] = a
    BY DEF probes
  <2>2. p[1] = s /\ q[1] = s => p = q
    BY <2>1 DEF Probers
  <2> QED
    BY <1>2, <2>2 DEF OneProbe
<1>4. ReadIsFresh'
  BY <1>2, IdleOK DEF ReadIsFresh
<1>5. Counting'
  <2>1. ASSUME NEW a \in Apis, ~disturbed'[a]
        PROVE  /\ \A p \in Probers : probes(p, a)' /\ prober'[p].pc = "upsert"
                     => probes(p, a) /\ prober'[p] = prober[p]
               /\ (\A p \in Probers : probes(p, a)' => prober'[p].pc # "upsert")
                     => \A p \in Probers : probes(p, a) => prober[p].pc # "upsert"
    <3>1. \A p \in Probers : prober'[p] = prober[p] \/ (prober'[p] = Probing /\ p[1] = s)
      BY DEF TypeOK
    <3>2. \A p \in Probers : p[1] = s => ~probes(p, a)
      BY DEF waitsFor, probes
    <3> QED
      BY <1>2, <2>1, <3>1, <3>2, IdleOK DEF probes
  <2> QED
    BY <1>2, <2>1 DEF Counting, TypeOK
<1> QED
  BY <1>1, <1>3, <1>4, <1>5

(* The steps of one call.                                                    *)
LEMMA RecordOK ==
  ASSUME IInv, NEW p \in Probers, record(p) \/ abort(p)
  PROVE  IInv'
<1> USE DEF IInv
<1>1. PICK a \in Apis : p[2] = a /\ prober[p].pc # "idle" /\ latest[a] \in State
  BY DEF Probers, TypeOK, record, abort, probeAndRead, appendCheck, upsertLatest, openIncident,
         selectOpenIncident, resolveIncident
<1>2. ASSUME NEW observed \in Observed, probeAndRead(p, observed) PROVE IInv'
  <2> USE <1>1, <1>2 DEF probeAndRead
  <2>1. transition(latest[a], observed) \in Transition
    BY TransitionOK
  <2>2. TypeOK'
    <3> DEFINE r == [prober[p] EXCEPT !.pc = "append", !.observed = observed,
                                      !.next = transition(latest[a], observed)]
    <3>0. prober[p] \in Calls
      BY DEF TypeOK, Calls
    <3>1. r \in Calls
      BY <2>1, <3>0 DEF Calls
    <3>2. prober' = [prober EXCEPT ![p] = r]
      OBVIOUS
    <3> HIDE DEF r
    <3> QED
      BY <3>1, <3>2 DEF TypeOK, Calls
  <2>3. OneProbe'
    BY DEF OneProbe, TypeOK, probes
  <2>4. ReadIsFresh'
    BY DEF ReadIsFresh, OneProbe, TypeOK, probes
  <2>5. Counting'
    BY DEF Counting, OneProbe, TypeOK, probes
  <2> QED
    BY <2>2, <2>3, <2>4, <2>5
<1>3. CASE appendCheck(p)
  <2> USE <1>1, <1>3 DEF appendCheck
  <2>2. TypeOK'
    BY DEF TypeOK, Counted, Lesser
  <2>3. OneProbe'
    BY DEF OneProbe, TypeOK, probes
  <2>4. ReadIsFresh'
    BY DEF ReadIsFresh, OneProbe, TypeOK, probes
  <2>5. Counting'
    BY DEF Counting, OneProbe, TypeOK, probes
  <2> QED
    BY <2>2, <2>3, <2>4, <2>5
<1>4. CASE upsertLatest(p)
  <2> USE <1>1, <1>4 DEF upsertLatest
  <2>1. prober[p].next \in Transition /\ prober[p].observed \in Observed
    BY DEF TypeOK
  <2> DEFINE r == IF prober[p].next.opened THEN [Idle EXCEPT !.pc = "open"]
                  ELSE IF prober[p].next.resolved THEN [Idle EXCEPT !.pc = "select"] ELSE Idle
  <2>2. prober' = [prober EXCEPT ![p] = r]
    BY DEF TypeOK
  <2>3. /\ r \in Calls
        /\ r.pc \in {"idle", "open", "select"}
    BY IdleOK DEF Calls
  <2> HIDE DEF r
  <2>4. TypeOK'
    <3>1. prober[p].next.state \in State
      BY <2>1 DEF Transition
    <3>2. priority' \in [Active -> 0..DefaultPriority] /\ due' \in [Active -> BOOLEAN]
      BY DEF TypeOK, Active, NoRow
    <3>3. prober' \in [Probers -> Calls]
      BY <2>2, <2>3 DEF TypeOK, Calls
    <3>4. latest' \in [Apis -> State]
      BY <3>1 DEF TypeOK
    <3> QED
      BY <3>2, <3>3, <3>4 DEF TypeOK, Calls
  <2>5. OneProbe'
    BY <2>2, <2>3 DEF OneProbe, TypeOK, probes
  <2>6. ReadIsFresh'
    BY <2>2, <2>3 DEF ReadIsFresh, OneProbe, TypeOK, probes
  <2>7. Counting'
    <3>1. ASSUME ~disturbed[a]
          PROVE  latest'[a].status # "down" => failing[a] = latest'[a].failures
      <4>1. prober[p].next = transition(latest[a], prober[p].observed) /\ latest'[a] = prober[p].next.state
        BY <3>1 DEF ReadIsFresh, probes, TypeOK
      <4>2. IF isSuccessful(prober[p].observed) THEN failing[a] = 0
            ELSE latest[a].status # "down" => failing[a] = Counted(latest[a].failures)
        BY <3>1 DEF Counting, probes
      <4> QED
        BY <2>1, <4>1, <4>2, TransitionOK
    <3>2. ASSUME ~disturbed[a]
          PROVE  \A q \in Probers : probes(q, a)' => q = p
      BY <2>2, <2>3, <3>2 DEF OneProbe, probes, TypeOK
    <3>3. ~probes(p, a)' \/ prober'[p].pc # "upsert"
      BY <2>2, <2>3 DEF TypeOK
    <3>4. ASSUME NEW b \in Apis, b # a
          PROVE  /\ latest'[b] = latest[b] /\ failing'[b] = failing[b] /\ disturbed'[b] = disturbed[b]
                 /\ \A q \in Probers : probes(q, b) <=> probes(q, b)'
                 /\ \A q \in Probers : probes(q, b) => prober'[q] = prober[q]
      BY <2>2, <3>4 DEF TypeOK, probes
    <3>5. /\ failing'[a] = failing[a] /\ disturbed'[a] = disturbed[a]
          /\ ~disturbed[a] => \A q \in Probers : probes(q, a)' => prober'[q].pc # "upsert"
      BY <3>2, <3>3
    <3> DEFINE Counts(b) ==
          /\ latest[b].status # "down" /\ (\A q \in Probers : probes(q, b) => prober[q].pc # "upsert")
               => failing[b] = latest[b].failures
          /\ \A q \in Probers : probes(q, b) /\ prober[q].pc = "upsert" =>
               IF isSuccessful(prober[q].observed) THEN failing[b] = 0
               ELSE latest[b].status # "down" => failing[b] = Counted(latest[b].failures)
    <3>6. ~disturbed[a] => Counts(a)'
      BY <3>1, <3>5
    <3>7. ASSUME NEW b \in Apis, b # a, ~disturbed[b] PROVE Counts(b)'
      <4>1. Counts(b)
        BY <3>7 DEF Counting
      <4> QED
        BY <4>1, <3>4, <3>7
    <3> QED
      BY <3>4, <3>5, <3>6, <3>7 DEF Counting
  <2> QED
    BY <2>4, <2>5, <2>6, <2>7
<1>5. CASE openIncident(p)
  <2>1. open' \in [Apis -> SUBSET Incidents]
    BY <1>1, <1>5 DEF openIncident, unusedIncidents, TypeOK
  <2> QED
    BY <1>1, <1>5, <2>1, IdleOK, QuietOK DEF openIncident
<1>6. CASE selectOpenIncident(p)
  <2>1. PICK r \in Calls : /\ prober' = [prober EXCEPT ![p] = r]
                           /\ r.pc \in {"idle", "resolve"}
    <3>1. ASSUME NEW i \in open[a]
          PROVE  [prober[p] EXCEPT !.pc = "resolve", !.incident = i] \in Calls
      <4>1. i \in Incidents /\ prober[p] \in Calls
        BY <1>1, <3>1 DEF TypeOK, Calls
      <4> QED
        BY <4>1 DEF Calls
    <3>2. ASSUME NEW i \in open[a],
                 prober' = [prober EXCEPT ![p] = [@ EXCEPT !.pc = "resolve", !.incident = i]]
          PROVE  \E r \in Calls : /\ prober' = [prober EXCEPT ![p] = r]
                                  /\ r.pc = "resolve"
      <4> DEFINE r == [prober[p] EXCEPT !.pc = "resolve", !.incident = i]
      <4>1. r \in Calls /\ r.pc = "resolve"
        BY <3>1 DEF TypeOK
      <4>2. prober' = [prober EXCEPT ![p] = r]
        BY <3>2 DEF TypeOK
      <4> QED
        BY <4>1, <4>2
    <3> QED
      BY <1>1, <1>6, <3>2, IdleOK DEF selectOpenIncident
  <2> QED
    BY <1>1, <1>6, <2>1, QuietOK DEF selectOpenIncident, TypeOK
<1>7. CASE resolveIncident(p)
  <2>1. open' \in [Apis -> SUBSET Incidents]
    BY <1>1, <1>7 DEF resolveIncident, TypeOK
  <2> QED
    BY <1>1, <1>7, <2>1, IdleOK, QuietOK DEF resolveIncident
<1>8. CASE abort(p)
  BY <1>1, <1>8, IdleOK, QuietOK DEF abort, TypeOK
<1> HIDE DEF IInv
<1> QED
  BY <1>2, <1>3, <1>4, <1>5, <1>6, <1>7, <1>8 DEF record

(* Every step keeps the invariant.                                           *)
LEMMA NextOK == IInv /\ [Next]_vars => IInv'
<1>1. ASSUME IInv,
             \/ \E a \in Active : becomesDue(a)
             \/ \E a \in Apis : flip(a)
             \/ \E s \in Sweeps, r \in Rivals : probeRival(s, r)
      PROVE  IInv'
  <2>1. UNCHANGED <<latest, prober, failing, disturbed>>
    BY <1>1 DEF becomesDue, flip, probeRival
  <2>2. TypeOK'
    <3>1. ASSUME NEW s \in Sweeps, NEW r \in Rivals, probeRival(s, r) PROVE TypeOK'
      <4>1. priority' \in [Active -> 0..DefaultPriority] /\ due' \in [Active -> BOOLEAN]
        <5>1. priority \in [Active -> 0..DefaultPriority] /\ due \in [Active -> BOOLEAN]
          BY <1>1 DEF IInv, TypeOK
        <5>2. CASE /\ due' = [due EXCEPT ![r] = FALSE]
                   /\ priority' = [priority EXCEPT ![r] = IF @ = NoRow THEN DefaultPriority ELSE @]
          BY <5>1, <5>2 DEF Active, NoRow
        <5> QED
          BY <3>1, <5>1, <5>2 DEF probeRival
      <4>2. rivals' \in [Sweeps -> SUBSET Rivals]
        BY <1>1, <3>1 DEF IInv, probeRival, TypeOK
      <4> QED
        BY <1>1, <3>1, <4>1, <4>2 DEF IInv, probeRival, TypeOK
    <3>2. \A a \in Active : becomesDue(a) => TypeOK'
      BY <1>1 DEF IInv, becomesDue, TypeOK
    <3>3. \A a \in Apis : flip(a) => TypeOK'
      BY <1>1 DEF IInv, flip, TypeOK
    <3> QED
      BY <1>1, <3>1, <3>2, <3>3
  <2> QED
    BY <1>1, <2>1, <2>2 DEF IInv, OneProbe, ReadIsFresh, Counting, probes
<1>2. ASSUME IInv, UNCHANGED vars PROVE IInv'
  BY <1>2 DEF IInv, vars, TypeOK, OneProbe, ReadIsFresh, Counting, probes
<1> QED
  BY <1>1, <1>2, SelectOK, RecordOK DEF Next

(* The invariant holds of every execution.                                   *)
LEMMA Inductive == Spec => []IInv
  BY InitOK, NextOK, PTL DEF Spec

(* However the probes of different APIs interleave, a known API goes down    *)
(* only after FAILURE_THRESHOLD failed observations in a row                 *)
(* (health.ts:185-262 over health-scoring.ts:107-139).                       *)
THEOREM DownIsEarned == Spec => DownAfterThreshold
<1> DEFINE earned == \A a \in Apis :
             ~disturbed[a] /\ latest[a].status \notin {"unknown", "down"} /\ latest'[a].status = "down"
               => failing[a] >= FAILURE_THRESHOLD
<1>1. ASSUME IInv, NEW p \in Probers, upsertLatest(p) PROVE earned
  <2>1. SUFFICES ASSUME NEW a \in Apis, ~disturbed[a], latest[a].status \notin {"unknown", "down"},
                        latest'[a].status = "down"
                 PROVE  failing[a] >= FAILURE_THRESHOLD
    OBVIOUS
  <2>2. probes(p, a) /\ latest'[a] = prober[p].next.state
    BY <1>1, <2>1 DEF upsertLatest, IInv, TypeOK, probes
  <2>3. prober[p].next = transition(latest[a], prober[p].observed)
    BY <1>1, <2>1, <2>2 DEF IInv, ReadIsFresh, upsertLatest
  <2>4. latest[a] \in State /\ prober[p].observed \in Observed
    BY <1>1 DEF IInv, TypeOK
  <2>5. ~isSuccessful(prober[p].observed) /\ Counted(latest[a].failures) >= FAILURE_THRESHOLD
    BY <2>1, <2>2, <2>3, <2>4, TransitionOK
  <2>6. failing[a] = Counted(latest[a].failures)
    <3>1. prober[p].pc = "upsert"
      BY <1>1 DEF upsertLatest
    <3>2. Counting
      BY <1>1 DEF IInv
    <3> QED
      BY <2>1, <2>2, <2>5, <3>1, <3>2, Zenon DEF Counting
  <2> QED
    BY <2>5, <2>6
<1>2. ASSUME Next, \A p \in Probers : ~upsertLatest(p) PROVE latest' = latest
  <2>1. ASSUME NEW p \in Probers, record(p), ~upsertLatest(p) PROVE latest' = latest
    <3>1. (\E observed \in Observed : probeAndRead(p, observed)) \/ appendCheck(p) => latest' = latest
      BY DEF probeAndRead, appendCheck
    <3>2. openIncident(p) \/ selectOpenIncident(p) \/ resolveIncident(p) => latest' = latest
      BY DEF openIncident, selectOpenIncident, resolveIncident
    <3> QED
      BY <2>1, <3>1, <3>2, Zenon DEF record
  <2>2. \A p \in Probers : abort(p) => latest' = latest
    BY DEF abort
  <2>3. /\ \A a \in Active : becomesDue(a) => latest' = latest
        /\ \A a \in Apis : flip(a) => latest' = latest
        /\ \A s \in Sweeps, batch \in batches : selectDueTargets(s, batch) => latest' = latest
        /\ \A s \in Sweeps, r \in Rivals : probeRival(s, r) => latest' = latest
    BY DEF becomesDue, flip, selectDueTargets, probeRival
  <2> QED
    BY <1>2, <2>1, <2>2, <2>3, Zenon DEF Next
<1>3. IInv /\ [Next]_vars => [earned]_vars
  BY <1>1, <1>2
<1> QED
  BY <1>3, Inductive, PTL DEF Spec, DownAfterThreshold

-----------------------------------------------------------------------------
(* The incidents of an undisturbed API: none or one, by its public status.   *)
Tracks(a) ==
  IF latest[a].status = "down" THEN \E i \in Incidents : open[a] = {i} ELSE open[a] = {}

(* The incidents follow the status as soon as the call that changed it has   *)
(* taken the step it owes: to open one, or to find the one and resolve it.   *)
Tracking ==
  \A a \in Apis : ~disturbed[a] =>
    /\ (\A p \in Probers : probes(p, a) => prober[p].pc \notin {"open", "select", "resolve"})
         => Tracks(a)
    /\ \A p \in Probers : probes(p, a) =>
         /\ prober[p].pc = "open" => latest[a].status = "down" /\ open[a] = {}
         /\ prober[p].pc = "select" =>
              latest[a].status # "down" /\ \E i \in Incidents : open[a] = {i}
         /\ prober[p].pc = "resolve" =>
              latest[a].status # "down" /\ open[a] = {prober[p].incident}

(* No API has more than finitely many incidents at any time.                 *)
FinitelyMany == \A a \in Apis : IsFiniteSet(open[a])

(* The table never runs out of rows for the handles of the model.            *)
RowsUnbounded == IsFiniteSet(Apis) /\ IsFiniteSet(Probers) /\ ~IsFiniteSet(Incidents)

(* So there is always a fresh one.                                           *)
LEMMA FreshIncident ==
  ASSUME RowsUnbounded, IInv, FinitelyMany
  PROVE  unusedIncidents # {}
<1> DEFINE all == {open[a] : a \in Apis}
           held == {prober[q].incident : q \in Probers}
           holds == [q \in Probers |-> prober[q].incident]
<1>1. IsFiniteSet(all)
  <2>1. open \in Surjection(Apis, all)
    BY DEF Surjection, IInv, TypeOK
  <2> QED
    BY <2>1, FS_Surjection DEF RowsUnbounded
<1>2. IsFiniteSet(UNION all)
  BY <1>1, FS_UNION DEF FinitelyMany
<1>3. IsFiniteSet(held)
  <2>1. holds \in Surjection(Probers, held)
    BY DEF Surjection
  <2> QED
    BY <2>1, FS_Surjection DEF RowsUnbounded
<1>4. IsFiniteSet((UNION all) \cup held)
  BY <1>2, <1>3, FS_Union
<1>5. ASSUME unusedIncidents = {} PROVE FALSE
  <2>1. Incidents \subseteq (UNION all) \cup held
    BY <1>5 DEF unusedIncidents
  <2> QED
    BY <1>4, <2>1, FS_Subset DEF RowsUnbounded
<1> QED
  BY <1>5

(* A step that keeps incidents and status apart from one API a, which either *)
(* is disturbed or is left by its only call with its incidents in step.      *)
LEMMA TrackingKept ==
  ASSUME IInv, Tracking, NEW p \in Probers, NEW a \in Apis,
         \A q \in Probers \ {p} : prober'[q] = prober[q],
         \A b \in Apis \ {a} : /\ latest'[b] = latest[b] /\ open'[b] = open[b]
                               /\ disturbed'[b] = disturbed[b],
         p[2] = a,
         disturbed[a] => disturbed'[a],
         ~disturbed'[a] => \A q \in Probers \ {p} : ~probes(q, a),
         ~disturbed'[a] =>
           /\ prober'[p].pc \notin {"open", "select", "resolve"} => Tracks(a)'
           /\ prober'[p].pc = "open" => latest'[a].status = "down" /\ open'[a] = {}
           /\ prober'[p].pc = "select" =>
                latest'[a].status # "down" /\ \E i \in Incidents : open'[a] = {i}
           /\ prober'[p].pc = "resolve" =>
                latest'[a].status # "down" /\ open'[a] = {prober'[p].incident}
  PROVE  Tracking'
<1> SUFFICES ASSUME NEW b \in Apis, ~disturbed'[b]
             PROVE  /\ (\A q \in Probers : probes(q, b)' => prober'[q].pc \notin {"open", "select", "resolve"})
                         => Tracks(b)'
                    /\ \A q \in Probers : probes(q, b)' =>
                         /\ prober'[q].pc = "open" => latest'[b].status = "down" /\ open'[b] = {}
                         /\ prober'[q].pc = "select" =>
                              latest'[b].status # "down" /\ \E i \in Incidents : open'[b] = {i}
                         /\ prober'[q].pc = "resolve" =>
                              latest'[b].status # "down" /\ open'[b] = {prober'[q].incident}
  BY DEF Tracking
<1>1. CASE b # a
  <2>1. \A q \in Probers : (probes(q, b)' <=> probes(q, b)) /\ (probes(q, b) => prober'[q] = prober[q])
    BY <1>1 DEF probes
  <2>2. Tracks(b)' <=> Tracks(b)
    BY <1>1 DEF Tracks
  <2> QED
    BY <1>1, <2>1, <2>2 DEF Tracking
<1>2. CASE b = a
  <2>1. \A q \in Probers : probes(q, a)' => q = p
    BY <1>2 DEF probes
  <2> QED
    BY <1>2, <2>1 DEF probes
<1> QED
  BY <1>1, <1>2

(* Every step of a call keeps incidents and status together.                 *)
LEMMA RecordTracks ==
  ASSUME RowsUnbounded, IInv, Tracking, FinitelyMany, NEW p \in Probers, record(p) \/ abort(p)
  PROVE  Tracking' /\ FinitelyMany'
<1>1. PICK a \in Apis : p[2] = a /\ prober[p].pc # "idle" /\ latest[a] \in State
  BY DEF IInv, Probers, TypeOK, record, abort, probeAndRead, appendCheck, upsertLatest,
         openIncident, selectOpenIncident, resolveIncident
<1>2. ~disturbed[a] => \A q \in Probers \ {p} : ~probes(q, a)
  BY <1>1 DEF IInv, OneProbe, probes
<1>3. ~disturbed[a] =>
        /\ prober[p].pc \in {"probing", "append", "upsert"} => Tracks(a)
        /\ prober[p].pc = "open" => latest[a].status = "down" /\ open[a] = {}
        /\ prober[p].pc = "select" => latest[a].status # "down" /\ \E i \in Incidents : open[a] = {i}
        /\ prober[p].pc = "resolve" => latest[a].status # "down" /\ open[a] = {prober[p].incident}
  BY <1>1, <1>2 DEF Tracking, probes
<1>4. TypeOK
  BY DEF IInv
<1> USE <1>1, <1>2, <1>3, <1>4
<1>5. ASSUME NEW observed \in Observed, probeAndRead(p, observed) PROVE Tracking' /\ FinitelyMany'
  <2> USE <1>5 DEF probeAndRead
  <2>1. FinitelyMany'
    BY DEF FinitelyMany
  <2>2. Tracks(a)' <=> Tracks(a)
    BY DEF Tracks
  <2>3. prober'[p].pc = "append" /\ \A q \in Probers \ {p} : prober'[q] = prober[q]
    BY DEF TypeOK
  <2> QED
    BY <2>1, <2>2, <2>3, TrackingKept
<1>6. CASE appendCheck(p)
  <2> USE <1>6 DEF appendCheck
  <2>1. FinitelyMany'
    BY DEF FinitelyMany
  <2>2. Tracks(a)' <=> Tracks(a)
    BY DEF Tracks
  <2>3. prober'[p].pc = "upsert" /\ \A q \in Probers \ {p} : prober'[q] = prober[q]
    BY DEF TypeOK
  <2> QED
    BY <2>1, <2>2, <2>3, TrackingKept
<1>7. CASE upsertLatest(p)
  <2> USE <1>7 DEF upsertLatest
  <2>1. FinitelyMany'
    BY DEF FinitelyMany
  <2>2. prober[p].observed \in Observed /\ prober[p].next \in Transition
    BY DEF TypeOK
  <2>3. ~disturbed[a] => prober[p].next = transition(latest[a], prober[p].observed)
    BY DEF IInv, ReadIsFresh, probes
  <2>4. /\ latest'[a] = prober[p].next.state
        /\ \A b \in Apis \ {a} : latest'[b] = latest[b]
        /\ \A q \in Probers \ {p} : prober'[q] = prober[q]
    BY DEF TypeOK
  <2>5. CASE prober[p].next.opened
    <3>1. prober'[p].pc = "open"
      BY <2>5 DEF TypeOK
    <3>2. ~disturbed[a] => latest'[a].status = "down" /\ open'[a] = {}
      BY <2>2, <2>3, <2>4, <2>5, TransitionOK DEF Tracks
    <3> QED
      BY <2>1, <2>4, <3>1, <3>2, TrackingKept
  <2>6. CASE ~prober[p].next.opened /\ prober[p].next.resolved
    <3>1. prober'[p].pc = "select"
      BY <2>6 DEF TypeOK
    <3>2. ~disturbed[a] => latest'[a].status # "down" /\ \E i \in Incidents : open'[a] = {i}
      BY <2>2, <2>3, <2>4, <2>6, TransitionOK DEF Tracks
    <3> QED
      BY <2>1, <2>4, <3>1, <3>2, TrackingKept
  <2>7. CASE ~prober[p].next.opened /\ ~prober[p].next.resolved
    <3>1. prober'[p].pc = "idle"
      BY <2>7, IdleOK DEF TypeOK
    <3>2. ~disturbed[a] => Tracks(a)'
      <4>1. ~disturbed[a] => (prober[p].next.state.status = "down" <=> latest[a].status = "down")
        BY <2>2, <2>3, <2>7, TransitionOK
      <4> QED
        BY <2>4, <4>1 DEF Tracks
    <3> QED
      BY <2>1, <2>4, <3>1, <3>2, TrackingKept
  <2> QED
    BY <2>5, <2>6, <2>7
<1>8. CASE openIncident(p)
  <2> USE <1>8 DEF openIncident
  <2>1. PICK i \in Incidents : open' = [open EXCEPT ![a] = @ \cup {i}]
    BY FreshIncident DEF unusedIncidents
  <2>2. open'[a] = open[a] \cup {i} /\ \A b \in Apis \ {a} : open'[b] = open[b]
    BY <2>1 DEF TypeOK
  <2>3. FinitelyMany'
    <3>1. IsFiniteSet(open[a] \cup {i})
      BY FS_AddElement DEF FinitelyMany
    <3> QED
      BY <2>2, <3>1 DEF FinitelyMany
  <2>4. prober'[p].pc = "idle" /\ \A q \in Probers \ {p} : prober'[q] = prober[q]
    BY IdleOK DEF TypeOK
  <2>5. ~disturbed[a] => Tracks(a)'
    BY <2>2 DEF Tracks
  <2> QED
    BY <2>2, <2>3, <2>4, <2>5, TrackingKept
<1>9. CASE selectOpenIncident(p)
  <2> USE <1>9 DEF selectOpenIncident
  <2>1. FinitelyMany'
    BY DEF FinitelyMany
  <2>2. \A q \in Probers \ {p} : prober'[q] = prober[q]
    BY DEF TypeOK
  <2>3. CASE open[a] = {} /\ prober' = [prober EXCEPT ![p] = Idle]
    <3>1. prober'[p].pc = "idle"
      BY <2>3, IdleOK DEF TypeOK
    <3>2. disturbed[a]
      BY <2>3
    <3> QED
      BY <2>1, <2>2, <3>1, <3>2, TrackingKept
  <2>4. ASSUME NEW i \in open[a],
               prober' = [prober EXCEPT ![p] = [@ EXCEPT !.pc = "resolve", !.incident = i]]
        PROVE  Tracking'
    <3>0. prober[p] \in Calls
      BY DEF TypeOK, Calls
    <3>1. prober'[p].pc = "resolve" /\ prober'[p].incident = i
      BY <2>4, <3>0 DEF TypeOK, Calls
    <3>2. ~disturbed[a] => open[a] = {i}
      BY <2>4
    <3> QED
      BY <2>2, <3>1, <3>2, TrackingKept
  <2> QED
    BY <2>1, <2>3, <2>4
<1>10. CASE resolveIncident(p)
  <2> USE <1>10 DEF resolveIncident
  <2>1. open'[a] = open[a] \ {prober[p].incident} /\ \A b \in Apis \ {a} : open'[b] = open[b]
    BY DEF TypeOK
  <2>2. FinitelyMany'
    <3>1. IsFiniteSet(open[a] \ {prober[p].incident})
      BY FS_RemoveElement DEF FinitelyMany
    <3> QED
      BY <2>1, <3>1 DEF FinitelyMany
  <2>3. prober'[p].pc = "idle" /\ \A q \in Probers \ {p} : prober'[q] = prober[q]
    BY IdleOK DEF TypeOK
  <2>4. ~disturbed[a] => Tracks(a)'
    BY <2>1 DEF Tracks
  <2> QED
    BY <2>1, <2>2, <2>3, <2>4, TrackingKept
<1>11. CASE abort(p)
  <2>1. UNCHANGED <<latest, open>>
    BY <1>11 DEF abort
  <2>2. prober'[p].pc = "idle" /\ \A q \in Probers \ {p} : prober'[q] = prober[q]
    BY <1>11, IdleOK DEF abort, TypeOK
  <2>3. disturbed'[a] /\ \A b \in Apis \ {a} : disturbed'[b] = disturbed[b]
    BY <1>11 DEF abort, TypeOK
  <2>4. FinitelyMany'
    BY <2>1 DEF FinitelyMany
  <2>5. Tracking'
    BY <2>1, <2>2, <2>3, TrackingKept
  <2> QED
    BY <2>4, <2>5
<1> QED
  BY <1>5, <1>6, <1>7, <1>8, <1>9, <1>10, <1>11 DEF record

(* So does every other step.                                                 *)
LEMMA NextTracks ==
  ASSUME RowsUnbounded, IInv, Tracking, FinitelyMany, [Next]_vars
  PROVE  Tracking' /\ FinitelyMany'
<1>1. ASSUME NEW s \in Sweeps, NEW batch \in batches, selectDueTargets(s, batch)
      PROVE  Tracking' /\ FinitelyMany'
  <2> USE <1>1 DEF selectDueTargets
  <2>1. FinitelyMany'
    BY DEF FinitelyMany
  <2>2. \A a \in Apis : Tracks(a)' <=> Tracks(a)
    BY DEF Tracks
  <2>3. \A p \in Probers : \/ prober'[p] = prober[p]
                           \/ prober'[p].pc = "probing" /\ prober[p].pc = "idle"
    BY IdleOK DEF waitsFor, IInv, TypeOK
  <2>4. \A a \in Apis : disturbed[a] => disturbed'[a]
    BY DEF IInv, TypeOK
  <2>5. ASSUME NEW a \in Apis, ~disturbed'[a],
               \A p \in Probers : probes(p, a)' => prober'[p].pc \notin {"open", "select", "resolve"}
        PROVE  Tracks(a)'
    BY <2>2, <2>3, <2>4, <2>5 DEF Tracking, probes
  <2>6. ASSUME NEW a \in Apis, ~disturbed'[a], NEW p \in Probers, probes(p, a)',
               prober'[p].pc \in {"open", "select", "resolve"}
        PROVE  probes(p, a) /\ prober'[p] = prober[p] /\ ~disturbed[a]
    BY <2>3, <2>4, <2>6 DEF probes
  <2>7. UNCHANGED <<latest, open>>
    OBVIOUS
  <2> HIDE <1>1 DEF selectDueTargets
  <2>8. Tracking'
    BY <2>5, <2>6, <2>7 DEF Tracking
  <2> QED
    BY <2>1, <2>8
<1>2. ASSUME \/ \E a \in Active : becomesDue(a)
             \/ \E a \in Apis : flip(a)
             \/ \E s \in Sweeps, r \in Rivals : probeRival(s, r)
             \/ UNCHANGED vars
      PROVE  Tracking' /\ FinitelyMany'
  <2>1. UNCHANGED <<latest, open, prober, disturbed>>
    BY <1>2 DEF becomesDue, flip, probeRival, vars
  <2>2. FinitelyMany'
    BY <2>1 DEF FinitelyMany
  <2>3. Tracking'
    BY <2>1 DEF Tracking, probes, Tracks
  <2> QED
    BY <2>2, <2>3
<1>3. ASSUME NEW p \in Probers, record(p) \/ abort(p) PROVE Tracking' /\ FinitelyMany'
  BY <1>3, RecordTracks
<1> QED
  BY <1>1, <1>2, <1>3 DEF Next

(* Whatever fails, recovers and interleaves, the status and the incidents of *)
(* an undisturbed API go together between its probes, provided the table     *)
(* never runs out of rows (health.ts:185-262).                               *)
THEOREM HealthIsConsistent == RowsUnbounded => (Spec => []HealthConsistent)
<1> SUFFICES ASSUME RowsUnbounded PROVE Spec => []HealthConsistent
  OBVIOUS
<1>1. Init => Tracking /\ FinitelyMany
  BY FS_EmptySet DEF Init, Tracking, FinitelyMany, Tracks, probes, Idle, Unmeasured
<1>2. IInv /\ Tracking /\ FinitelyMany /\ [Next]_vars => (Tracking /\ FinitelyMany)'
  BY NextTracks
<1>3. IInv /\ Tracking => HealthConsistent
  <2>1. ASSUME IInv, Tracking, NEW a \in Apis, ~disturbed[a], busy(a) = {} PROVE Tracks(a)
    BY <2>1 DEF Tracking, busy, probes
  <2> QED
    BY <2>1, FS_Singleton, FS_EmptySet DEF HealthConsistent, IncidentTracksStatus, IInv, Tracks
<1> QED
  BY <1>1, <1>2, <1>3, Inductive, PTL DEF Spec
==============================================================================
