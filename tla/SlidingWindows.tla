--------------------------- MODULE SlidingWindows ----------------------------
(***************************************************************************)
(* packages/algorithms/src/sliding-window.ts: the two rate counters of one *)
(* key, the approximate SlidingWindowCounter and the exact                 *)
(* SlidingWindowLog with its ring buffer.  Fractions are kept exact: the   *)
(* counter's usage is multiplied by the window.                            *)
(***************************************************************************)
EXTENDS Integers, Sequences, FiniteSets

CONSTANTS
  WindowLimit,    \* limit
  WindowMs,       \* windowMs
  WindowHorizon   \* bound: how far the clock goes

ASSUME WindowAssumption ==
  /\ WindowLimit \in Nat \ {0} /\ WindowMs \in Nat \ {0}
  /\ WindowHorizon \in Nat /\ WindowMs =< WindowHorizon

VARIABLES
  windowNow,
  counterState,   \* [windowIndex, currentCount, previousCount]; windowIndex -1: no state
  ring,           \* [buffer, head, count]
  counted,        \* history: the hits the counter allowed in each fixed window
  logged,         \* history: the times the log allowed a hit
  promise         \* history: when the log said a refused hit would be allowed; 0: none

windowVars == <<windowNow, counterState, ring, counted, logged, promise>>

windowIndexNow == windowNow \div WindowMs
noHits == [k \in 0..WindowHorizon |-> 0]
noState == [windowIndex |-> -1, currentCount |-> 0, previousCount |-> 0]
emptyRing == [buffer |-> [i \in 0..(WindowLimit - 1) |-> 0], head |-> 0, count |-> 0]

windowsInit ==
  /\ windowNow = WindowMs
  /\ counterState = noState /\ ring = emptyRing
  /\ counted = noHits /\ logged = <<>> /\ promise = 0

(* Mutant: the history is kept over a gap.                                   *)
rolledAlways(s) ==
  LET index == windowIndexNow IN
  IF s.windowIndex \in {-1, index} THEN [s EXCEPT !.windowIndex = index]
  ELSE [windowIndex |-> index, currentCount |-> 0, previousCount |-> s.currentCount]

(* SlidingWindowCounter.hit(): the window rolls forward.                     *)
rolled(s) ==
  LET index == windowIndexNow IN
  IF s.windowIndex \in {-1, index} THEN [s EXCEPT !.windowIndex = index]
  ELSE [windowIndex |-> index, currentCount |-> 0,
        previousCount |-> IF index - s.windowIndex = 1 THEN s.currentCount ELSE 0]

(* previousCount * (1 - elapsedFraction) + currentCount, times the window.   *)
weighted(s) == s.previousCount * (WindowMs - (windowNow % WindowMs)) + s.currentCount * WindowMs

counterHit ==
  LET s == rolled(counterState)
      allowed == weighted(s) + WindowMs <= WindowLimit * WindowMs
  IN /\ counterState' = IF allowed THEN [s EXCEPT !.currentCount = @ + 1] ELSE s
     /\ counted' = IF allowed THEN [counted EXCEPT ![windowIndexNow] = @ + 1] ELSE counted
     /\ UNCHANGED <<windowNow, ring, logged, promise>>

(* prune(): a state two windows old is dropped.                              *)
counterPrune ==
  /\ counterState # noState /\ windowIndexNow - counterState.windowIndex > 1
  /\ counterState' = noState
  /\ UNCHANGED <<windowNow, ring, counted, logged, promise>>

(* Mutant: the oldest entry is where the next one would go.                  *)
tailIndexAtHead(r) == r.head

(* The oldest entry of the ring.                                             *)
tailIndex(r) == (r.head - r.count + WindowLimit) % WindowLimit

(* SlidingWindowLog.hit(): entries that fell out of the window are evicted.  *)
evicted ==
  LET r[n \in 0..WindowLimit] ==
        IF n = 0 THEN ring
        ELSE LET s == r[n - 1] IN
             IF s.count > 0 /\ s.buffer[tailIndex(s)] <= windowNow - WindowMs
             THEN [s EXCEPT !.count = @ - 1] ELSE s
  IN r[WindowLimit]

logHit ==
  /\ \/ /\ evicted.count >= WindowLimit
        /\ ring' = evicted
        /\ promise' = LET wait == evicted.buffer[tailIndex(evicted)] + WindowMs - windowNow
                      IN windowNow + (IF wait < 1 THEN 1 ELSE wait)
        /\ UNCHANGED logged
     \/ /\ evicted.count < WindowLimit
        /\ ring' = [buffer |-> [evicted.buffer EXCEPT ![evicted.head] = windowNow],
                    head |-> (evicted.head + 1) % WindowLimit, count |-> evicted.count + 1]
        /\ logged' = Append(logged, windowNow) /\ promise' = 0
  /\ UNCHANGED <<windowNow, counterState, counted>>

(* reset() of either.                                                        *)
counterReset ==
  /\ counterState' = noState /\ counted' = noHits
  /\ UNCHANGED <<windowNow, ring, logged, promise>>
logReset ==
  /\ ring' = emptyRing /\ logged' = <<>> /\ promise' = 0
  /\ UNCHANGED <<windowNow, counterState, counted>>

(* How many of the times are no later than t.                                *)
past(s, t) == Cardinality({i \in 1..Len(s) : s[i] <= t})

(* The history of the log forgets what has left the window.                  *)
windowTick ==
  /\ windowNow < WindowHorizon /\ windowNow' = windowNow + 1
  /\ logged' = SubSeq(logged, past(logged, windowNow - WindowMs) + 1, Len(logged))
  /\ UNCHANGED <<counterState, ring, counted, promise>>

counterNext == counterHit \/ counterPrune \/ counterReset \/ windowTick
logNext == logHit \/ logReset \/ windowTick

-----------------------------------------------------------------------------
recent == Len(logged) - past(logged, windowNow - WindowMs)

(* "Exact sliding window using a fixed-size ring buffer" (sliding-window.ts: *)
(* 121): in no window of the given length does the log allow more than the   *)
(* limit, it refuses only when that many were allowed, and a hit refused     *)
(* with retryAfterMs is allowed then.  The counter never allows more than    *)
(* the limit in a fixed window, and weighs what the window before it really  *)
(* saw.                                                                      *)
WindowsHold ==
  /\ recent <= WindowLimit
  /\ (evicted.count >= WindowLimit) = (recent = WindowLimit)
  /\ promise # 0 /\ windowNow >= promise => recent < WindowLimit
  /\ LET k == windowIndexNow
         s == rolled(counterState)
     IN /\ counted[k] <= WindowLimit /\ s.currentCount = counted[k]
        /\ s.previousCount = counted[k - 1]
==============================================================================
