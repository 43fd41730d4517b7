------------------------ MODULE RollingOutcomeWindow -------------------------
(***************************************************************************)
(* The ring of time buckets behind the circuit breaker                     *)
(* (packages/algorithms/src/sliding-window.ts:197-253).  A slot is reused  *)
(* when the clock comes round to it, and cleared only when record() or     *)
(* snapshot() next looks at the window, possibly many periods later.       *)
(***************************************************************************)
EXTENDS Integers, Functions

CONSTANTS
  BucketCount,   \* buckets in the ring
  MaxIndex,      \* bound: bucket periods in a behaviour
  MaxCount       \* bound: outcomes of one kind in a slot

ASSUME RingAssumption ==
  BucketCount \in Nat \ {0} /\ MaxIndex \in Nat /\ MaxCount \in Nat

Slots == 0..(BucketCount - 1)

VARIABLES
  successes, failures,   \* the counts in each slot
  lastBucketIndex,       \* index of the bucket last looked at, or -1
  index                  \* floor(now / bucketMs), the clock

ringVars == <<successes, failures, lastBucketIndex, index>>

Least(a, b) == IF a =< b THEN a ELSE b

slot == index % BucketCount

(* Mutant: one slot too few is cleared.                                      *)
skippedButOne ==
  LET elapsed == IF lastBucketIndex = -1 THEN BucketCount ELSE index - lastBucketIndex
  IN  {(slot - i + BucketCount) % BucketCount : i \in 0..(Least(elapsed, BucketCount) - 2)}

(* rotate(): the slots the clock went over since the window was last used,   *)
(* capped at a full rotation; none when it is still in the same bucket.      *)
skipped ==
  LET elapsed == IF lastBucketIndex = -1 THEN BucketCount ELSE index - lastBucketIndex
  IN  {(slot - i + BucketCount) % BucketCount : i \in 0..(Least(elapsed, BucketCount) - 1)}

Rotated(f) == [s \in Slots |-> IF s \in skipped THEN 0 ELSE f[s]]

ringInit ==
  /\ successes = [s \in Slots |-> 0] /\ failures = [s \in Slots |-> 0]
  /\ lastBucketIndex = -1
  /\ index = 0

recordOutcome(success) ==
  /\ Rotated(successes)[slot] < MaxCount /\ Rotated(failures)[slot] < MaxCount
  /\ successes' = IF success THEN [Rotated(successes) EXCEPT ![slot] = @ + 1]
                             ELSE Rotated(successes)
  /\ failures' = IF success THEN Rotated(failures)
                            ELSE [Rotated(failures) EXCEPT ![slot] = @ + 1]
  /\ lastBucketIndex' = index
  /\ UNCHANGED index

(* snapshot() rotates and then adds up every slot.                           *)
snapshot ==
  /\ successes' = Rotated(successes) /\ failures' = Rotated(failures)
  /\ lastBucketIndex' = index
  /\ UNCHANGED index

reset ==
  /\ successes' = [s \in Slots |-> 0] /\ failures' = [s \in Slots |-> 0]
  /\ lastBucketIndex' = -1
  /\ UNCHANGED index

ringElapses ==
  /\ index < MaxIndex
  /\ index' = index + 1
  /\ UNCHANGED <<successes, failures, lastBucketIndex>>

ringNext == (\E success \in BOOLEAN : recordOutcome(success)) \/ snapshot \/ reset \/ ringElapses


-----------------------------------------------------------------------------
(* Properties                                                                *)

(* The counts by age, as snapshot() would find them: a slot that the clock   *)
(* has passed since it was filled counts as empty.                           *)
ByAge(f) ==
  [a \in Slots |-> Rotated(f)[(index - a + BucketCount * (1 + a)) % BucketCount]]

Abstract == INSTANCE OutcomeWindow
  WITH outcomes <- [good |-> ByAge(successes), bad |-> ByAge(failures)]

(* The ring of lazily cleared slots implements the window by age: however    *)
(* long it was left alone, snapshot() sees the outcomes of the last          *)
(* BucketCount periods and no others (sliding-window.ts:212-246).            *)
ImplementsWindow == Abstract!Spec
==============================================================================
