---------------------------- MODULE HealthMonitor ----------------------------
(***************************************************************************)
(* Health monitoring: the sweep that probes due APIs                       *)
(* (packages/jobs/src/jobs/health.ts) over the status machine of           *)
(* packages/domain/src/health-scoring.ts.                                  *)
(*                                                                         *)
(* probeAndRecord() awaits the database between its steps and opens no     *)
(* transaction, so each statement that changes a table is an action of its *)
(* own.  Within one sweep the targets are distinct; two sweeps meet on the *)
(* same API when the sweep's lock does not keep them apart: its lease of   *)
(* 120 s is not renewed, and the probe CLI brings a lock of its own.       *)
(*                                                                         *)
(* A sweep takes a limited number of targets, the most urgent of those due *)
(* by the stored priority alone, which an import sets and no probe changes.*)
(* Rivals are APIs that compete for the places of a sweep and whose status *)
(* is not followed: each API has rows of its own, so nothing else of them  *)
(* matters to another one.                                                 *)
(***************************************************************************)
EXTENDS Integers, FiniteSets

CONSTANTS
  Apis,
  Rivals,             \* other APIs, for their places in a sweep only
  Sweeps,             \* sweeps that may be in progress at once
  BatchSize,          \* the most targets of one sweep
  DefaultPriority,    \* what a row has that a probe inserted; the least urgent
  Incidents,          \* handles of rows of the incidents table
  FAILURE_THRESHOLD,
  RECOVERY_THRESHOLD,
  MaxCount            \* bound: where the consecutive counters saturate

ASSUME MonitorAssumption ==
  /\ FAILURE_THRESHOLD \in Nat \ {0} /\ RECOVERY_THRESHOLD \in Nat \ {0}
  /\ MaxCount \in Nat /\ FAILURE_THRESHOLD =< MaxCount /\ RECOVERY_THRESHOLD =< MaxCount
  /\ BatchSize \in Nat \ {0} /\ DefaultPriority \in Nat \ {0}
  /\ Apis \cap Rivals = {}

VARIABLES
  latest,       \* api_health_latest: public status and consecutive counters
  priority,     \* checkPriority of each API's row, NoRow while it has none
  due,          \* nextCheckAt is absent or has passed
  open,         \* the unresolved incidents of each API
  prober,       \* where each sweep's probeAndRecord() of an API is
  rivals,       \* the rivals each sweep has yet to finish with
  healthy,      \* environment: the API answers every probe
  failing,      \* history: failed observations in a row, in insertion order
  disturbed     \* history: probes of the API overlapped, or one was cut short

vars == <<latest, priority, due, open, prober, rivals, healthy, failing, disturbed>>

Active == Apis \cup Rivals

(* probeAndRecord(p[2]) on behalf of the sweep p[1].                         *)
Probers == Sweeps \X Apis

(* NULLS FIRST: an API without a row precedes every other one.               *)
NoRow == 0

Observed == {"up", "degraded", "down"}
Status == Observed \cup {"unknown"}
State == [status : Status, failures : 0..MaxCount, successes : 0..RECOVERY_THRESHOLD]
Transition == [state : State, opened : BOOLEAN, resolved : BOOLEAN]

Unmeasured == [status |-> "unknown", failures |-> 0, successes |-> 0]
Nothing == [state |-> Unmeasured, opened |-> FALSE, resolved |-> FALSE]
NoIncident == "none"

Idle == [pc |-> "idle", observed |-> "up", next |-> Nothing, incident |-> NoIncident]
Probing == [Idle EXCEPT !.pc = "probing"]

TypeOK ==
  /\ latest \in [Apis -> State]
  /\ priority \in [Active -> 0..DefaultPriority]
  /\ due \in [Active -> BOOLEAN]
  /\ open \in [Apis -> SUBSET Incidents]
  /\ prober \in [Probers ->
       [pc : {"idle", "probing", "append", "upsert", "open", "select", "resolve"},
        observed : Observed, next : Transition, incident : Incidents \cup {NoIncident}]]
  /\ rivals \in [Sweeps -> SUBSET Rivals]
  /\ healthy \in [Apis -> BOOLEAN]
  /\ failing \in [Apis -> 0..MaxCount]
  /\ disturbed \in [Apis -> BOOLEAN]

-----------------------------------------------------------------------------
Lesser(a, b) == IF a =< b THEN a ELSE b
Counted(n) == Lesser(MaxCount, n + 1)

(* Successes beyond the threshold are not told apart: they are only compared *)
(* with it.                                                                  *)
Regained(n) == Lesser(RECOVERY_THRESHOLD, n + 1)

isSuccessful(status) == status \in {"up", "degraded"}

(* Mutant: a failure count that never falls makes the API stay down.         *)
stillDownWhileCounted(current) == current.status = "down" /\ current.failures > 0

(* Mutant: one failed probe is enough.                                       *)
belowThresholdNever(failures, previous) == FALSE

(* A known API keeps its public status below the failure threshold.          *)
belowThreshold(failures, previous) ==
  failures < FAILURE_THRESHOLD /\ previous # "unknown"

(* A success too few for a recovery leaves the API down.                     *)
stillDown(current) ==
  current.status = "down" /\ Regained(current.successes) < RECOVERY_THRESHOLD

(* Mutant: a success takes one failure back.                                 *)
succeedForgivesOne(current, observed) ==
  [state |-> [status |-> observed, failures |-> current.failures - 1,
              successes |-> Regained(current.successes)],
   opened |-> FALSE, resolved |-> current.status = "down"]

(* transition() on a successful observation.                                 *)
succeed(current, observed) ==
  IF stillDown(current)
    THEN [state |-> [current EXCEPT !.successes = Regained(@)],
          opened |-> FALSE, resolved |-> FALSE]
    ELSE [state |-> [status |-> observed, failures |-> 0,
                     successes |-> Regained(current.successes)],
          opened |-> FALSE, resolved |-> current.status = "down"]

(* Mutant: a failure while already down opens another incident.              *)
failOpensAgain(current) ==
  LET failures == Counted(current.failures)
      keep == belowThreshold(failures, current.status)
  IN  [state |-> [status |-> IF ~keep THEN "down"
                             ELSE IF current.status = "up" THEN "degraded" ELSE current.status,
                  failures |-> failures, successes |-> 0],
       opened |-> ~keep, resolved |-> FALSE]

(* transition() on a failed observation.                                     *)
fail(current) ==
  LET failures == Counted(current.failures)
      keep == belowThreshold(failures, current.status)
  IN  [state |-> [status |-> IF ~keep THEN "down"
                             ELSE IF current.status = "up" THEN "degraded" ELSE current.status,
                  failures |-> failures, successes |-> 0],
       opened |-> ~keep /\ current.status # "down", resolved |-> FALSE]

transition(current, observed) ==
  IF isSuccessful(observed) THEN succeed(current, observed) ELSE fail(current)

-----------------------------------------------------------------------------
Init ==
  /\ latest = [a \in Apis |-> Unmeasured]
  /\ priority \in [Active -> 0..DefaultPriority]
  /\ due = [a \in Active |-> TRUE]
  /\ open = [a \in Apis |-> {}]
  /\ prober = [p \in Probers |-> Idle]
  /\ rivals = [s \in Sweeps |-> {}]
  /\ healthy \in [Apis -> BOOLEAN]
  /\ failing = [a \in Apis |-> 0]
  /\ disturbed = [a \in Apis |-> FALSE]

(* The calls that work on the API, and those a sweep waits for.              *)
busy(a) == {p \in Probers : prober[p].pc # "idle" /\ p[2] = a}
waitsFor(s) == {p \in Probers : prober[p].pc # "idle" /\ p[1] = s}

(* Mutant: the higher number runs sooner, as the comment of the column says. *)
batchesReversed ==
  LET dueNow == {a \in Active : due[a]}
  IN  {batch \in SUBSET dueNow :
         /\ Cardinality(batch) = Lesser(BatchSize, Cardinality(dueNow))
         /\ \A a \in batch, b \in dueNow \ batch : priority[a] >= priority[b]}

(* selectDueTargets(): the first BatchSize of what is due, by the stored     *)
(* priority alone, those of equal priority in any order.                     *)
batches ==
  LET dueNow == {a \in Active : due[a]}
  IN  {batch \in SUBSET dueNow :
         /\ Cardinality(batch) = Lesser(BatchSize, Cardinality(dueNow))
         /\ \A a \in batch, b \in dueNow \ batch : priority[a] =< priority[b]}

(* runHealthSweep(): a sweep starts when its last one is through.  How many  *)
(* of its probes run at once is left open.                                   *)
selectDueTargets(s, batch) ==
  /\ waitsFor(s) = {} /\ rivals[s] = {}
  /\ prober' = [p \in Probers |-> IF p[1] = s /\ p[2] \in batch THEN Probing ELSE prober[p]]
  /\ rivals' = [rivals EXCEPT ![s] = batch \ Apis]
  /\ disturbed' = [a \in Apis |-> disturbed[a] \/ (a \in batch /\ busy(a) # {})]
  /\ UNCHANGED <<latest, priority, due, open, healthy, failing>>

(* The probe of a rival is recorded, or it is not.                           *)
probeRival(s, r) ==
  /\ r \in rivals[s]
  /\ rivals' = [rivals EXCEPT ![s] = @ \ {r}]
  /\ \/ /\ due' = [due EXCEPT ![r] = FALSE]
        /\ priority' = [priority EXCEPT ![r] = IF @ = NoRow THEN DefaultPriority ELSE @]
     \/ UNCHANGED <<due, priority>>
  /\ UNCHANGED <<latest, open, prober, healthy, failing, disturbed>>

(* The probe returns and is classified; the stored counters are read and the *)
(* transition computed from them.                                            *)
probeAndRead(p, observed) ==
  /\ prober[p].pc = "probing"
  /\ healthy[p[2]] => isSuccessful(observed)
  /\ prober' = [prober EXCEPT ![p] =
       [@ EXCEPT !.pc = "append", !.observed = observed,
                 !.next = transition(latest[p[2]], observed)]]
  /\ UNCHANGED <<latest, priority, due, open, rivals, healthy, failing, disturbed>>

(* 1. The raw observation is appended.                                       *)
appendCheck(p) ==
  /\ prober[p].pc = "append"
  /\ failing' = [failing EXCEPT ![p[2]] =
                   IF isSuccessful(prober[p].observed) THEN 0 ELSE Counted(@)]
  /\ prober' = [prober EXCEPT ![p].pc = "upsert"]
  /\ UNCHANGED <<latest, priority, due, open, rivals, healthy, disturbed>>

(* 3. The hot-path row is written, with the next check in the future.  The   *)
(* priority is the column's default when the row is new, and stays otherwise.*)
upsertLatest(p) ==
  LET next == prober[p].next
  IN  /\ prober[p].pc = "upsert"
      /\ latest' = [latest EXCEPT ![p[2]] = next.state]
      /\ priority' = [priority EXCEPT ![p[2]] = IF @ = NoRow THEN DefaultPriority ELSE @]
      /\ due' = [due EXCEPT ![p[2]] = FALSE]
      /\ prober' = [prober EXCEPT ![p] =
           IF next.opened THEN [Idle EXCEPT !.pc = "open"]
           ELSE IF next.resolved THEN [Idle EXCEPT !.pc = "select"] ELSE Idle]
      /\ UNCHANGED <<open, rivals, healthy, failing, disturbed>>

unusedIncidents ==
  Incidents \ ((UNION {open[a] : a \in Apis}) \cup {prober[q].incident : q \in Probers})

(* 4. An incident is opened.  Incidents bounds the rows that are kept track  *)
(* of; a row beyond them is not.                                             *)
openIncident(p) ==
  /\ prober[p].pc = "open"
  /\ \/ \E i \in unusedIncidents :
          open' = [open EXCEPT ![p[2]] = @ \cup {i}]
     \/ /\ unusedIncidents = {}
        /\ UNCHANGED open
  /\ prober' = [prober EXCEPT ![p] = Idle]
  /\ UNCHANGED <<latest, priority, due, rivals, healthy, failing, disturbed>>

(* 4. One unresolved incident of the API is looked up, if there is any ...   *)
selectOpenIncident(p) ==
  /\ prober[p].pc = "select"
  /\ \/ /\ open[p[2]] = {}
        /\ prober' = [prober EXCEPT ![p] = Idle]
     \/ \E i \in open[p[2]] :
          prober' = [prober EXCEPT ![p] = [@ EXCEPT !.pc = "resolve", !.incident = i]]
  /\ UNCHANGED <<latest, priority, due, open, rivals, healthy, failing, disturbed>>

(* Mutant: the update is dropped.                                            *)
resolveNothing(p) ==
  /\ prober[p].pc = "resolve"
  /\ prober' = [prober EXCEPT ![p] = Idle]
  /\ UNCHANGED <<latest, priority, due, open, rivals, healthy, failing, disturbed>>

(* ... and resolved.                                                         *)
resolveIncident(p) ==
  /\ prober[p].pc = "resolve"
  /\ open' = [open EXCEPT ![p[2]] = @ \ {prober[p].incident}]
  /\ prober' = [prober EXCEPT ![p] = Idle]
  /\ UNCHANGED <<latest, priority, due, rivals, healthy, failing, disturbed>>

(* A statement is rejected or the worker dies; mapWithConcurrency() absorbs  *)
(* the rejection and what was written stays.                                 *)
abort(p) ==
  /\ prober[p].pc # "idle"
  /\ prober' = [prober EXCEPT ![p] = Idle]
  /\ disturbed' = [disturbed EXCEPT ![p[2]] = TRUE]
  /\ UNCHANGED <<latest, priority, due, open, rivals, healthy, failing>>

(* nextCheckAt passes.                                                       *)
becomesDue(a) ==
  /\ ~due[a]
  /\ due' = [due EXCEPT ![a] = TRUE]
  /\ UNCHANGED <<latest, priority, open, prober, rivals, healthy, failing, disturbed>>

(* The API breaks or recovers.                                               *)
flip(a) ==
  /\ healthy' = [healthy EXCEPT ![a] = ~@]
  /\ UNCHANGED <<latest, priority, due, open, prober, rivals, failing, disturbed>>

record(p) ==
  \/ \E observed \in Observed : probeAndRead(p, observed)
  \/ appendCheck(p) \/ upsertLatest(p) \/ openIncident(p)
  \/ selectOpenIncident(p) \/ resolveIncident(p)

Next ==
  \/ \E s \in Sweeps : \/ \E batch \in batches : selectDueTargets(s, batch)
                      \/ \E r \in Rivals : probeRival(s, r)
  \/ \E p \in Probers : record(p) \/ abort(p)
  \/ \E a \in Active : becomesDue(a)
  \/ \E a \in Apis : flip(a)

(* The statements by which an API is probed and its row written.             *)
probesOf(a) ==
  \E p \in Probers : p[2] = a /\ \E observed \in Observed : probeAndRead(p, observed)
appendsOf(a) == \E p \in Probers : p[2] = a /\ appendCheck(p)
upsertsOf(a) == \E p \in Probers : p[2] = a /\ upsertLatest(p)

(* The sweep repeats, probes time out, statements return, and no statement   *)
(* is rejected every time it is tried.  Nothing is assumed of which APIs a   *)
(* sweep picks, nor of when a rival is due.                                  *)
Fairness ==
  /\ \A s \in Sweeps : /\ WF_vars(\E batch \in batches : batch # {} /\ selectDueTargets(s, batch))
                       /\ WF_vars(\E r \in Rivals : probeRival(s, r))
  /\ \A p \in Probers : WF_vars(record(p))
  /\ \A a \in Apis : /\ SF_vars(probesOf(a)) /\ SF_vars(appendsOf(a)) /\ SF_vars(upsertsOf(a))
                     /\ WF_vars(becomesDue(a))

Spec == Init /\ [][Next]_vars
FairSpec == Spec /\ Fairness

-----------------------------------------------------------------------------
(* Properties                                                                *)

(* Between probes, an API that is publicly down has exactly one open         *)
(* incident and any other API has none, as long as no two of its probes      *)
(* overlapped and none was cut short.                                        *)
IncidentTracksStatus ==
  \A a \in Apis : ~disturbed[a] /\ busy(a) = {} =>
    Cardinality(open[a]) = IF latest[a].status = "down" THEN 1 ELSE 0

(* What is stored of an API is of its type, and its status and incidents go  *)
(* together (health.ts:185-262).                                             *)
HealthConsistent == TypeOK /\ IncidentTracksStatus

(* A known API is publicly marked down only after FAILURE_THRESHOLD failed   *)
(* observations in a row (health-scoring.ts:78-84, 128-139).                 *)
DownAfterThreshold ==
  [][\A a \in Apis :
       ~disturbed[a] /\ latest[a].status \notin {"unknown", "down"} /\ latest'[a].status = "down"
         => failing[a] >= FAILURE_THRESHOLD]_vars

(* Fewer than BatchSize others are due that may be taken before the API.     *)
hasPlace(a) ==
  Cardinality({b \in Active \ {a} : due[b] /\ priority[b] =< priority[a]}) < BatchSize

(* The API answers for good, and for good a sweep has a place for it.  An    *)
(* API that others at least as urgent crowd out of every sweep may keep an   *)
(* outdated status for ever.                                                 *)
wellAndReached(a) == <>[](healthy[a] /\ hasPlace(a))

(* Such an API is eventually shown as well for good, even when sweeps        *)
(* overlap and probes are cut short, so that a stale status may overwrite a  *)
(* newer one: the next probe starts from what is stored.                     *)
StatusSettles ==
  \A a \in Apis : wellAndReached(a) => <>[](latest[a].status \in {"up", "degraded"})

(* Its incidents are resolved for good, too, unless its probes overlapped or *)
(* were cut short.                                                           *)
IncidentsResolved ==
  \A a \in Apis : wellAndReached(a) => <>(disturbed[a] \/ [](open[a] = {}))

(* Recovery is seen, and closes the incident, wherever the sweeps get to     *)
(* (health.ts:38-87, 100-262).                                               *)
Settles == StatusSettles /\ IncidentsResolved
==============================================================================
