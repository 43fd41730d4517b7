---------------------------- MODULE OutcomeWindow ----------------------------
(***************************************************************************)
(* What RollingOutcomeWindow (packages/algorithms/src/sliding-window.ts)   *)
(* promises the circuit breaker: the outcomes of the last BucketCount      *)
(* bucket periods, by age; age 0 is the current period.  The ring of       *)
(* lazily cleared slots that implements it is RollingOutcomeWindow.tla.    *)
(***************************************************************************)
EXTENDS Integers

CONSTANT BucketCount

Ages == 0..(BucketCount - 1)
Window == [good : [Ages -> Nat], bad : [Ages -> Nat]]

NoOutcomes == [good |-> [a \in Ages |-> 0], bad |-> [a \in Ages |-> 0]]

(* An outcome joins the current period.                                      *)
Recorded(w, success) ==
  IF success THEN [w EXCEPT !.good[0] = @ + 1] ELSE [w EXCEPT !.bad[0] = @ + 1]

(* A bucket period ends: everything is one period older, the oldest is gone. *)
Older(f) == [a \in Ages |-> IF a = 0 THEN 0 ELSE f[a - 1]]
Elapsed(w) == [good |-> Older(w.good), bad |-> Older(w.bad)]

(* The outcomes of every age, added up one period at a time.                 *)
CountOf(f) ==
  LET upTo[a \in Ages] == IF a = 0 THEN f[0] ELSE f[a] + upTo[a - 1]
  IN  upTo[BucketCount - 1]

Failures(w) == CountOf(w.bad)
Total(w) == CountOf(w.good) + CountOf(w.bad)

-----------------------------------------------------------------------------
VARIABLE outcomes

Init == outcomes = NoOutcomes

record == \E success \in BOOLEAN : outcomes' = Recorded(outcomes, success)
reset == outcomes' = NoOutcomes
elapse == outcomes' = Elapsed(outcomes)

Next == record \/ reset \/ elapse

Spec == Init /\ [][Next]_outcomes
==============================================================================
