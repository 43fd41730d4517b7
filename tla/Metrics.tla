------------------------------- MODULE Metrics -------------------------------
(***************************************************************************)
(* packages/runtime/src/metrics.ts: histograms with fixed buckets and the  *)
(* registry of series.                                                     *)
(*                                                                         *)
(* A series is a name with its labels, whose order key() sorts away, so    *)
(* that a series is a name with a set of labels.                           *)
(***************************************************************************)
EXTENDS Integers, SequencesExt, FiniteSetsExt

CONSTANTS
  Bounds,          \* the upper bounds of the buckets, ascending
  SampleValues,    \* values observed
  SeriesNames,     \* names of series
  LabelPairs,      \* label-value pairs
  MaxSamples,      \* bound: samples taken
  MaxIncrements    \* bound: the value of a counter

VARIABLES
  counters,     \* series -> number
  histograms,   \* series -> [counts, sum, total, min, max]
  timing,       \* series being timed by time(), with their labels
  taken         \* history: the samples of each series since the last reset

metricVars == <<counters, histograms, timing, taken>>

NoValue == -1
NewHistogram ==
  [counts |-> [i \in 1..(Len(Bounds) + 1) |-> 0], sum |-> 0, total |-> 0, min |-> NoValue, max |-> NoValue]
emptySeries == [s \in {} |-> 0]
valueOf(series, s, none) == IF s \in DOMAIN series THEN series[s] ELSE none
putSeries(series, s, value) == [t \in DOMAIN series \cup {s} |-> IF t = s THEN value ELSE series[t]]

(* key(): labels in any order name one series; none leaves the name.         *)
key(name, labels) == <<name, labels>>

metricsInit ==
  /\ counters = emptySeries /\ histograms = emptySeries
  /\ timing = {} /\ taken = emptySeries

-----------------------------------------------------------------------------
(* Mutant: a value equal to a bound goes above it.                           *)
bucketOfAbove(value) ==
  LET above == {i \in 1..Len(Bounds) : value < Bounds[i]}
  IN  IF above = {} THEN Len(Bounds) + 1 ELSE Min(above)

(* The first bucket whose bound is not exceeded; one more beyond them all.   *)
bucketOf(value) ==
  LET within == {i \in 1..Len(Bounds) : value =< Bounds[i]}
  IN  IF within = {} THEN Len(Bounds) + 1 ELSE Min(within)

(* Histogram.observe()                                                       *)
observed(h, value) ==
  [counts |-> [h.counts EXCEPT ![bucketOf(value)] = @ + 1],
   sum |-> h.sum + value, total |-> h.total + 1,
   min |-> IF h.min = NoValue \/ value < h.min THEN value ELSE h.min,
   max |-> IF h.max = NoValue \/ value > h.max THEN value ELSE h.max]

cumulative(h, i) == FoldSeq(+, 0, SubSeq(h.counts, 1, i))

(* Mutant: the target is rounded down.                                       *)
quantileDown(h, q) ==
  IF h.total = 0 THEN NoValue
  ELSE LET i == Min({j \in 1..(Len(Bounds) + 1) : cumulative(h, j) >= (q * h.total) \div 100})
       IN  IF i =< Len(Bounds) THEN Bounds[i] ELSE h.max

(* quantile(), of q per cent: the bound of the bucket that brings the        *)
(* cumulative count to the target, or the greatest value beyond the last.    *)
quantile(h, q) ==
  IF h.total = 0 THEN NoValue
  ELSE LET i == Min({j \in 1..(Len(Bounds) + 1) : 100 * cumulative(h, j) >= q * h.total})
       IN  IF i =< Len(Bounds) THEN Bounds[i] ELSE h.max

(* Histogram.snapshot(); the mean is its sum and count.                      *)
snapshotOf(h) ==
  [count |-> h.total, sum |-> h.sum, min |-> h.min, max |-> h.max,
   p50 |-> quantile(h, 50), p95 |-> quantile(h, 95), p99 |-> quantile(h, 99),
   buckets |-> [i \in 1..Len(Bounds) |-> [le |-> Bounds[i], count |-> cumulative(h, i)]]]

samples == FoldSet(LAMBDA s, n : Len(taken[s]) + n, 0, DOMAIN taken)

increment(name, amount, labels) ==
  LET s == key(name, labels)
  IN  /\ valueOf(counters, s, 0) + amount =< MaxIncrements
      /\ counters' = putSeries(counters, s, valueOf(counters, s, 0) + amount)
      /\ UNCHANGED <<histograms, timing, taken>>

(* observe(): the first sample of a series makes its histogram.              *)
recordSample(name, value, labels) ==
  LET s == key(name, labels)
  IN  /\ histograms' = putSeries(histograms, s, observed(valueOf(histograms, s, NewHistogram), value))
      /\ taken' = putSeries(taken, s, Append(valueOf(taken, s, <<>>), value))

observe(name, value, labels) ==
  /\ samples < MaxSamples
  /\ recordSample(name, value, labels) /\ UNCHANGED <<counters, timing>>

(* time(): the operation begins ...                                          *)
time(name, labels) ==
  /\ timing = {} /\ samples < MaxSamples
  /\ timing' = {[name |-> name, labels |-> labels]}
  /\ UNCHANGED <<counters, histograms, taken>>

(* ... and its duration is recorded under its outcome, even after a reset.   *)
timed(operation, outcome, duration) ==
  /\ timing' = timing \ {operation}
  /\ recordSample(operation.name, duration, operation.labels \cup {outcome})
  /\ UNCHANGED counters

(* The registry forgets every series.                                        *)
resetMetrics ==
  /\ counters' = emptySeries /\ histograms' = emptySeries /\ taken' = emptySeries
  /\ UNCHANGED timing

metricsNext ==
  \/ \E name \in SeriesNames, labels \in SUBSET LabelPairs :
       \/ increment(name, 1, labels)
       \/ \E value \in SampleValues : observe(name, value, labels)
       \/ time(name, labels)
  \/ \E operation \in timing, outcome \in {"success", "error"}, duration \in SampleValues :
       timed(operation, outcome, duration)
  \/ resetMetrics

-----------------------------------------------------------------------------
(* Properties                                                                *)

(* Histograms keep buckets and no samples, yet say of the samples what holds *)
(* of them (metrics.ts:61-67): every bucket counts the samples up to its     *)
(* bound, and a quantile bounds that share of the samples from above and is  *)
(* out by less than one bucket.                                              *)
BucketsTellSamples ==
  \A s \in DOMAIN histograms :
    LET snapshot == snapshotOf(histograms[s])
        upTo(v) == Len(SelectSeq(taken[s], LAMBDA x : x =< v))
        holds(q, v) == 100 * upTo(v) >= q * Len(taken[s])
        tight(q, v) == \A i \in 1..Len(Bounds) : Bounds[i] < v => ~holds(q, Bounds[i])
    IN  /\ snapshot.count = Len(taken[s])
        /\ snapshot.sum = FoldSeq(+, 0, taken[s])
        /\ {snapshot.min, snapshot.max} = {Min(ToSet(taken[s])), Max(ToSet(taken[s]))}
        /\ \A i \in 1..Len(Bounds) : snapshot.buckets[i].count = upTo(Bounds[i])
        /\ holds(50, snapshot.p50) /\ tight(50, snapshot.p50)
        /\ holds(95, snapshot.p95) /\ tight(95, snapshot.p95)
        /\ holds(99, snapshot.p99) /\ tight(99, snapshot.p99)
==============================================================================
