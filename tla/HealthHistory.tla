---------------------------- MODULE HealthHistory -----------------------------
(* What the health of an API adds up to.                                     *)
EXTENDS Integers, FiniteSetsExt, SequencesExt, FiniteSets

(***************************************************************************)
(* The daily history of health checks: aggregateDaily(), pruneOldChecks()  *)
(* and recomputePopularity() of packages/jobs/src/jobs/health.ts, run by   *)
(* the aggregate and maintenance queues of packages/jobs/src/scheduler.ts. *)
(*                                                                         *)
(* Time is cut into hours, HoursPerDay to a day, and starts with day 1.    *)
(* The aggregate queue has one worker, so one roll-up is under way at a    *)
(* time; probes and the maintenance job go on between its statements.      *)
(***************************************************************************)
CONSTANTS
  HistoryApis,      \* the monitored APIs
  HoursPerDay,      \* hours in a day
  RetentionDays,    \* HEALTH_RETENTION_DAYS
  LastHour,         \* bound: the last hour
  MaxChecks,        \* bound: probes recorded
  MaxIncidents,     \* bound: incidents opened
  Latencies,        \* latencies a probe that answered can have
  Usages,           \* what api_views can hold of an API: [views, runs], or NoUsage
  MaxMaintenance    \* bound: popularityScore recomputations

(* A re-roll of yesterday must find all of yesterday: with a retention of    *)
(* one day, which env.ts:117 admits, it would not.                           *)
ASSUME HistoryAssumption ==
  /\ HoursPerDay \in Nat \ {0} /\ RetentionDays \in Nat \ {0, 1}
  /\ LastHour \in Nat /\ MaxChecks \in Nat /\ Latencies \subseteq Nat
  /\ MaxMaintenance \in 0..3

VARIABLES
  hour,          \* the clock
  checks,        \* api_health_checks: [api, at, ok, latency]
  incidents,     \* incidents: [api, at]
  daily,         \* api_health_daily: a row of each API and day, or NoRow
  rollUp,        \* the aggregate job: its stage, the day and the grouped rows to write
  recorded,      \* history: every check there was, pruned or not
  complete,      \* history: days rolled up by a job that read them after their end
  usage,         \* api_views of the last thirty days, per API
  popularityScore,    \* apis.popularity_score, in 1/Scale
  maintained     \* recomputations so far

rollVars == <<hour, checks, incidents, daily, rollUp, recorded, complete>>
popularityVars == <<usage, popularityScore, maintained>>
historyVars == <<rollVars, popularityVars>>

NoLatency == -1
NoRow == [total |-> 0]
NoRollUp == [stage |-> "idle", day |-> 0, rows |-> {}, late |-> FALSE]
NoUsage == [views |-> 0, runs |-> 0]
Scale == 250        \* 0.6 to the third power and halves of 0.4 are whole
Days == 0..(LastHour \div HoursPerDay)
dayOf(at) == at \div HoursPerDay

historyInit ==
  /\ hour = HoursPerDay /\ checks = {} /\ incidents = {}
  /\ daily = [api \in HistoryApis |-> [day \in Days |-> NoRow]]
  /\ rollUp = NoRollUp
  /\ recorded = {} /\ complete = {}
  /\ usage \in [HistoryApis -> Usages]
  /\ popularityScore \in [HistoryApis -> {0, 40 * Scale, 100 * Scale}]
  /\ maintained = 0

-----------------------------------------------------------------------------
(* Daily roll-up                                                             *)

(* Mutant: the index is taken from the top, without the ceiling.             *)
percentileFloor(values, p) ==
  LET sorted == SortSeq(values, <)
      rank == (p * Len(values)) \div 100
  IN  IF values = <<>> THEN NoLatency ELSE sorted[IF rank < 1 THEN 1 ELSE rank]

(* percentile(): the sample of rank ceil(p/100 n), at least the first.       *)
percentile(values, p) ==
  LET sorted == SortSeq(values, <)
      rank == -((-(p * Len(values))) \div 100)
  IN  IF values = <<>> THEN NoLatency ELSE sorted[IF rank < 1 THEN 1 ELSE rank]

(* The latencies of checks that have one; avg() leaves the others out too.   *)
latenciesOf(found) ==
  LET timed == SetToSeq({c \in found : c.latency # NoLatency})
  IN  [i \in 1..Len(timed) |-> timed[i].latency]

(* What one API's checks and incidents of a day come to.  The average is     *)
(* kept as its sum and number, the uptime as its two counts.                 *)
rowOf(found, started) ==
  [total |-> Cardinality(found), successful |-> Cardinality({c \in found : c.ok}),
   latencySum |-> FoldSeq(+, 0, latenciesOf(found)), timed |-> Len(latenciesOf(found)),
   p95 |-> percentile(latenciesOf(found), 95), incidents |-> Cardinality(started)]

ofDay(found, api, day) == {c \in found : c.api = api /\ dayOf(c.at) = day}

(* A probe is recorded; a failing one may open an incident.                  *)
recordCheck(api, ok, latency, opens) ==
  LET check == [api |-> api, at |-> hour, ok |-> ok, latency |-> latency]
  IN  /\ Cardinality(recorded) < MaxChecks /\ check \notin recorded
      /\ opens => ~ok /\ Cardinality(incidents) < MaxIncidents
      /\ ok => latency # NoLatency
      /\ checks' = checks \cup {check} /\ recorded' = recorded \cup {check}
      /\ incidents' = IF opens THEN incidents \cup {[api |-> api, at |-> hour]} ELSE incidents
      /\ UNCHANGED <<hour, daily, rollUp, complete>>

hourPasses ==
  /\ hour < LastHour /\ hour' = hour + 1
  /\ UNCHANGED <<checks, incidents, daily, rollUp, recorded, complete>>

(* The grouped SELECT over the day's raw checks.                             *)
selectDay(day, stage) ==
  [stage |-> stage, day |-> day, late |-> dayOf(hour) > day,
   rows |-> {[api |-> api, found |-> ofDay(checks, api, day)] :
               api \in {a \in HistoryApis : ofDay(checks, a, day) # {}}}]

(* The hourly job begins with the current day.                               *)
aggregateToday ==
  /\ rollUp.stage = "idle"
  /\ rollUp' = selectDay(dayOf(hour), "today")
  /\ UNCHANGED <<hour, checks, incidents, daily, recorded, complete>>

(* Mutant: an API with a row of the day already keeps it.                    *)
upsertDayOnce ==
  \E row \in rollUp.rows :
    /\ rollUp.stage # "idle"
    /\ daily' = [daily EXCEPT ![row.api][rollUp.day] =
                   IF @ = NoRow THEN rowOf(row.found, ofDay(incidents, row.api, rollUp.day)) ELSE @]
    /\ rollUp' = [rollUp EXCEPT !.rows = @ \ {row}]
    /\ UNCHANGED <<hour, checks, incidents, recorded, complete>>

(* One turn of the loop: the API's incidents are counted and its row written *)
(* or overwritten.                                                           *)
upsertDay ==
  \E row \in rollUp.rows :
    /\ rollUp.stage # "idle"
    /\ daily' = [daily EXCEPT ![row.api][rollUp.day] =
                   rowOf(row.found, ofDay(incidents, row.api, rollUp.day))]
    /\ rollUp' = [rollUp EXCEPT !.rows = @ \ {row}]
    /\ UNCHANGED <<hour, checks, incidents, recorded, complete>>

(* History: a day read after its end is complete once its last row is        *)
(* written.                                                                  *)
completed == IF rollUp.late THEN complete \cup {rollUp.day} ELSE complete

(* The current day is done: yesterday, taken from the clock anew, follows.   *)
aggregateYesterday ==
  /\ rollUp.stage = "today" /\ rollUp.rows = {}
  /\ rollUp' = selectDay(dayOf(hour) - 1, "yesterday")
  /\ complete' = completed
  /\ UNCHANGED <<hour, checks, incidents, daily, recorded>>

(* Both days are done.                                                       *)
aggregateDone ==
  /\ rollUp.stage = "yesterday" /\ rollUp.rows = {}
  /\ rollUp' = NoRollUp
  /\ complete' = completed
  /\ UNCHANGED <<hour, checks, incidents, daily, recorded>>

(* A statement of the roll-up is rejected, and the job fails.                *)
aggregateFails ==
  /\ rollUp.stage # "idle"
  /\ rollUp' = NoRollUp
  /\ UNCHANGED <<hour, checks, incidents, daily, recorded, complete>>

(* Mutant: the retention is counted without today.                           *)
cutoffEarly == hour - (RetentionDays - 1) * HoursPerDay

(* Older raw checks are deleted.                                             *)
cutoff == hour - RetentionDays * HoursPerDay

pruneOldChecks ==
  /\ \E c \in checks : c.at < cutoff
  /\ checks' = {c \in checks : c.at >= cutoff}
  /\ UNCHANGED <<hour, incidents, daily, rollUp, recorded, complete>>

rollUpNext ==
  /\ \/ \E api \in HistoryApis, ok, opens \in BOOLEAN, latency \in Latencies \cup {NoLatency} :
          recordCheck(api, ok, latency, opens)
     \/ hourPasses
     \/ aggregateToday \/ upsertDay \/ aggregateYesterday \/ aggregateDone \/ aggregateFails
     \/ pruneOldChecks
  /\ UNCHANGED popularityVars

-----------------------------------------------------------------------------
(* Popularity                                                                *)

(* Mutant: playground runs are left out.                                     *)
weightViews(api) == usage[api].views

(* A run in the playground counts for five views.                            *)
weight(api) == usage[api].views + usage[api].runs * 5

used == {api \in HistoryApis : usage[api] # NoUsage}

(* percent_rank(): the share of the other rows that weigh less, in Scale;    *)
(* zero when there is no other row.                                          *)
percentRank(api) ==
  IF Cardinality(used) = 1 THEN 0
  ELSE (Cardinality({other \in used : weight(other) < weight(api)}) * Scale)
         \div (Cardinality(used) - 1)

(* The maintenance job blends usage into the score of every API that has     *)
(* any; the others keep what ingestion gave them.                            *)
recomputePopularity ==
  /\ maintained < MaxMaintenance /\ maintained' = maintained + 1
  /\ popularityScore' = [api \in HistoryApis |->
       IF api \notin used THEN popularityScore[api]
       ELSE LET blended == (popularityScore[api] * 3) \div 5 + 40 * percentRank(api)
            IN  IF blended > 100 * Scale THEN 100 * Scale ELSE blended]
  /\ UNCHANGED usage

popularityNext == recomputePopularity /\ UNCHANGED rollVars

-----------------------------------------------------------------------------
(* Properties                                                                *)

(* The claim of health.ts:305-308, "re-running it converges on the same      *)
(* values": once a day has been rolled up after its end, its rows say what   *)
(* every check ever recorded and every incident of that day come to, through *)
(* all later re-rolls and while the raw checks are pruned.                   *)
FinishedDaysKept ==
  \A day \in complete, api \in HistoryApis :
    LET found == ofDay(recorded, api, day)
    IN  daily[api][day] = IF found = {} THEN NoRow
                          ELSE rowOf(found, ofDay(incidents, api, day))

(* Ninety-five per cent of the samples, and of no smaller sample that many,  *)
(* are at most the 95th percentile.                                          *)
PercentileCovers(values) ==
  LET covers(v) == 100 * Len(SelectSeq(values, LAMBDA x : x =< v)) >= 95 * Len(values)
  IN  values # <<>> =>
        /\ covers(percentile(values, 95))
        /\ \A v \in ToSet(values) : v < percentile(values, 95) => ~covers(v)

(* After the third recomputation the used APIs stand in the order of their   *)
(* use, wherever ingestion had put them (health.ts:396-397), and no score    *)
(* leaves 0..100.                                                            *)
UseDecidesOrder ==
  /\ \A api \in HistoryApis : popularityScore[api] \in 0..(100 * Scale)
  /\ maintained = 3 =>
       \A a, b \in used :
         usage[a].views + 5 * usage[a].runs > usage[b].views + 5 * usage[b].runs =>
           popularityScore[a] > popularityScore[b]

-----------------------------------------------------------------------------
(***************************************************************************)
(* The formulas of packages/domain/src/health-scoring.ts: the reliability  *)
(* score, the priority of a probe and the delay until the next one.        *)
(*                                                                         *)
(* A share of one is a number of parts in Whole, so that hours of a day,   *)
(* fifths of a latency ceiling and fifths of a penalty are whole numbers;  *)
(* a score is in tenths of a point.                                        *)
(***************************************************************************)
CONSTANTS
  Shares,          \* uptimes and success rates, in Whole
  AvgLatencies,    \* average latencies, in ms and multiples of 5
  HoursSince,            \* hours since the last check
  IncidentCounts,  \* incidents of late
  Popularities,    \* popularity scores
  FailureCounts,   \* consecutive failures
  BaseInterval     \* HEALTH_SCHEDULE_INTERVAL_MS

Whole == 2400

(* Shares are between none and all.                                          *)
ASSUME ScoringAssumption ==
  /\ Shares \subseteq 0..Whole /\ AvgLatencies \subseteq Nat
  /\ HoursSince \subseteq Nat /\ IncidentCounts \subseteq Nat

VARIABLES
  record,     \* what is known of an API
  probed      \* its public status, failures and popularity

scoringVars == <<record, probed>>

Unmeasured == -1     \* null
Statuses == {"up", "degraded", "down", "unknown"}

Records ==
  [uptime : Shares \cup {Unmeasured}, successRate : Shares \cup {Unmeasured},
   latency : AvgLatencies \cup {Unmeasured}, age : HoursSince \cup {Unmeasured},
   incidents : IncidentCounts]
Blank == [uptime |-> Unmeasured, successRate |-> Unmeasured, latency |-> Unmeasured,
          age |-> Unmeasured, incidents |-> 0]

Unprobed == [status |-> "unknown", failures |-> 0, popularity |-> 0]

scoringInit == record = Blank /\ probed = Unprobed

-----------------------------------------------------------------------------
unit(share) == IF share < 0 THEN 0 ELSE IF share > Whole THEN Whole ELSE share
orNeutral(share) == IF share = Unmeasured THEN Whole \div 2 ELSE share

(* Full for an hour, then falling to nothing over the day.                   *)
measurementFreshness(age) ==
  IF age = Unmeasured THEN 0
  ELSE IF age =< 1 THEN Whole
  ELSE unit(Whole - (age * Whole) \div 24)

latencyScore(latency) ==
  IF latency = Unmeasured THEN Unmeasured ELSE unit(Whole - (latency * Whole) \div 3000)

(* Mutant: what was not measured counts as nothing.                          *)
computeReliabilityHarsh(r) ==
  LET orZero(share) == IF share = Unmeasured THEN 0 ELSE share
      sum == 50 * orZero(r.uptime) + 20 * orZero(r.successRate)
             + 15 * orZero(latencyScore(r.latency)) + 10 * measurementFreshness(r.age)
             + 5 * (Whole - unit(r.incidents * (Whole \div 5)))
  IN  (2 * sum + Whole \div 10) \div (Whole \div 5)

(* computeReliability(): the weighted sum, rounded to tenths; what was not   *)
(* measured is neutral.                                                      *)
computeReliability(r) ==
  LET sum == 50 * orNeutral(r.uptime) + 20 * orNeutral(r.successRate)
             + 15 * orNeutral(latencyScore(r.latency)) + 10 * measurementFreshness(r.age)
             + 5 * (Whole - unit(r.incidents * (Whole \div 5)))
  IN  (2 * sum + Whole \div 10) \div (Whole \div 5)

(* Mutant: a long-dead API is treated like one that has just failed.         *)
computeCheckPriorityAlways(p) ==
  LET base == 100 - (p.popularity + 1) \div 2
      urgent == [up |-> 0, degraded |-> 25, down |-> 40, unknown |-> 15][p.status]
      priority == base - urgent - (IF p.failures > 0 THEN 10 ELSE 0)
  IN  IF priority < 1 THEN 1 ELSE priority

(* computeCheckPriority(): lower runs sooner.                                *)
computeCheckPriority(p) ==
  LET base == 100 - (p.popularity + 1) \div 2
      urgent == [up |-> 0, degraded |-> 25, down |-> 40, unknown |-> 15][p.status]
      priority == base - urgent - (IF p.failures \in 1..3 THEN 10 ELSE 0)
  IN  IF priority < 1 THEN 1 ELSE priority

rounded(numerator, denominator) == (2 * numerator + denominator) \div (2 * denominator)

(* Mutant: the first failures are not set off, nor the exponent floored.     *)
computeNextCheckDelayEarly(status, failures, base) ==
  LET k == failures
  IN  IF status = "down" THEN IF 3^k >= 8 * 2^k THEN 8 * base ELSE rounded(base * 3^k, 2^k)
      ELSE base

(* computeNextCheckDelay(): half and three quarters of the interval for the  *)
(* unknown and the degraded, and a back-off of half as much again, up to     *)
(* eight intervals, for the dead.                                            *)
computeNextCheckDelay(status, failures, base) ==
  LET k == IF failures > 2 THEN failures - 2 ELSE 0
  IN  CASE status = "down" -> IF 3^k >= 8 * 2^k THEN 8 * base ELSE rounded(base * 3^k, 2^k)
        [] status = "degraded" -> rounded(base * 3, 4)
        [] status = "unknown" -> rounded(base, 2)
        [] OTHER -> base

(* Any record, and any state a probed API can be in.                         *)
measure(r) == record = Blank /\ probed = Unprobed /\ record' = r /\ UNCHANGED probed
observeStatus(p) == record = Blank /\ probed = Unprobed /\ probed' = p /\ UNCHANGED record

scoringNext ==
  \/ \E r \in Records : measure(r)
  \/ \E status \in Statuses, failures \in FailureCounts, popularity \in Popularities :
       observeStatus([status |-> status, failures |-> failures, popularity |-> popularity])

-----------------------------------------------------------------------------
(* Properties                                                                *)

(* A worse dimension never raises the score, all scores lie in 0..100, and   *)
(* "a newly-added API is not ranked below one with a known bad record"       *)
(* (health-scoring.ts:213-214): one whose every check failed.                *)
ScoresFair ==
  /\ computeReliability(record) \in 0..1000
  /\ \A share \in Shares :
       /\ share =< orNeutral(record.uptime) =>
            computeReliability([record EXCEPT !.uptime = share]) =< computeReliability(record)
       /\ share =< orNeutral(record.successRate) =>
            computeReliability([record EXCEPT !.successRate = share]) =< computeReliability(record)
  /\ \A latency \in AvgLatencies :
       latency >= (IF record.latency = Unmeasured THEN 1500 ELSE record.latency) =>
         computeReliability([record EXCEPT !.latency = latency]) =< computeReliability(record)
  /\ \A age \in HoursSince :
       record.age # Unmeasured /\ age >= record.age =>
         computeReliability([record EXCEPT !.age = age]) =< computeReliability(record)
  /\ \A count \in IncidentCounts :
       count >= record.incidents =>
         computeReliability([record EXCEPT !.incidents = count]) =< computeReliability(record)
  /\ record.uptime = 0 /\ record.successRate = 0 =>
       computeReliability(Blank) > computeReliability(record)

(* "A popular API that just started failing is re-checked before an obscure  *)
(* one that has been stable" and "a newly-failing API is more interesting    *)
(* than a long-dead one" (health-scoring.ts:234-251); a dead API waits       *)
(* longer the longer it has been dead, between one and eight intervals.      *)
ProbesWherePressing ==
  /\ \A popularity \in Popularities :
       /\ probed.failures \in 1..3 /\ probed.status \in {"down", "degraded"}
            /\ popularity =< probed.popularity =>
            computeCheckPriority(probed) <
              computeCheckPriority([status |-> "up", failures |-> 0, popularity |-> popularity])
       /\ probed.failures > 3 /\ probed.status = "down" /\ popularity = probed.popularity =>
            computeCheckPriority(probed) >
              computeCheckPriority([probed EXCEPT !.failures = 2]) \/ computeCheckPriority(probed) = 1
  /\ LET delay(failures) == computeNextCheckDelay("down", failures, BaseInterval)
     IN  \A failures \in FailureCounts :
           /\ delay(failures) \in BaseInterval..(8 * BaseInterval)
           /\ failures =< probed.failures => delay(failures) =< delay(probed.failures)
           /\ failures =< 2 => delay(failures) = BaseInterval
=============================================================================
