---------------------------- MODULE CircuitBreaker ---------------------------
(***************************************************************************)
(* The per-host circuit breaker of the API playground                      *)
(* (packages/runtime/src/resilience/circuit-breaker.ts) with the registry  *)
(* entry that holds it.                                                    *)
(*                                                                         *)
(* execute() is two steps with an await between them: a call is admitted   *)
(* under one state of the breaker and settles under whatever state the     *)
(* breaker has reached by then.  Time advances in bucket periods.          *)
(***************************************************************************)
EXTENDS Integers, FiniteSets

CONSTANTS
  Calls,             \* handles of execute() calls; bounds the calls in flight
  BucketCount,       \* buckets of the rolling window
  VolumeThreshold,   \* outcomes needed before the failure rate is trusted
  RateNum, RateDen,  \* failureThreshold = RateNum / RateDen
  ResetTimeout,      \* periods a circuit stays open
  SuccessesToClose,
  HalfOpenMaxCalls,
  MaxIdle,           \* prune()'s maxIdleMs, in periods
  MaxOutcomes        \* bound: outcomes in the window, calls in flight included

ASSUME BreakerAssumption ==
  /\ IsFiniteSet(Calls)
  /\ BucketCount \in Nat \ {0}
  /\ VolumeThreshold \in Nat /\ RateNum \in Nat /\ RateDen \in Nat \ {0}
  /\ ResetTimeout \in Nat
  /\ SuccessesToClose \in Nat \ {0} /\ HalfOpenMaxCalls \in Nat \ {0}
  /\ MaxIdle \in Nat /\ MaxOutcomes \in Nat

VARIABLES
  state,              \* "closed", "open" or "half_open"
  openFor,            \* periods since openedAt, up to ResetTimeout
  halfOpenSuccesses,
  halfOpenInFlight,
  outcomes,           \* the rolling window
  unused,             \* periods since the registry entry was last fetched
  flying,             \* calls admitted and not settled
  detached,           \* those of them whose breaker the registry has dropped
  up,                 \* environment: the upstream answers every call well
  trials,             \* history: calls admitted in the current HALF_OPEN period
  streak,             \* history: successes settled in the current HALF_OPEN period
  evidence            \* history: outcomes recorded since the last close or reset,
                      \* counted up to VolumeThreshold

W == INSTANCE OutcomeWindow

breaker == <<state, openFor, halfOpenSuccesses, halfOpenInFlight, outcomes>>
calls == <<flying, detached, trials>>
history == <<streak, evidence>>
vars == <<breaker, unused, calls, up, history>>

TypeOK ==
  /\ state \in {"closed", "open", "half_open"}
  /\ openFor \in 0..ResetTimeout
  /\ halfOpenSuccesses \in Nat /\ halfOpenInFlight \in Nat
  /\ outcomes \in W!Window
  /\ unused \in 0..MaxIdle
  /\ flying \subseteq Calls /\ detached \subseteq flying
  /\ trials \subseteq flying \ detached
  /\ up \in BOOLEAN
  /\ streak \in Nat /\ evidence \in Nat

Lesser(a, b) == IF a =< b THEN a ELSE b

-----------------------------------------------------------------------------
(* maybeHalfOpen() makes an OPEN circuit whose time is up HALF_OPEN.         *)
timeIsUp == state = "open" /\ openFor >= ResetTimeout

(* The state execute() and getState() see once maybeHalfOpen() has run.      *)
current == IF timeIsUp THEN "half_open" ELSE state

maybeHalfOpen ==
  /\ state' = current
  /\ IF timeIsUp
       THEN /\ halfOpenSuccesses' = 0 /\ halfOpenInFlight' = 0
            /\ streak' = 0
       ELSE UNCHANGED <<halfOpenSuccesses, halfOpenInFlight, streak>>

trialsNow == IF timeIsUp THEN {} ELSE trials

(* getState(), snapshot(), unhealthy(): looking at the breaker moves it.     *)
getState ==
  /\ maybeHalfOpen
  /\ trials' = trialsNow
  /\ UNCHANGED <<openFor, outcomes, unused, flying, detached, up, evidence>>

(* execute() up to its await, when the call is let through while CLOSED.     *)
executeClosed(c) ==
  /\ c \notin flying
  /\ W!Total(outcomes) + Cardinality(flying) < MaxOutcomes
  /\ current = "closed"
  /\ flying' = flying \cup {c}
  /\ unused' = 0
  /\ UNCHANGED <<breaker, detached, trials, up, history>>

slotsTaken == IF timeIsUp THEN 0 ELSE halfOpenInFlight

(* execute() up to its await, when the call is let through as a trial.       *)
executeTrial(c) ==
  /\ c \notin flying
  /\ W!Total(outcomes) + Cardinality(flying) < MaxOutcomes
  /\ current = "half_open"
  /\ slotsTaken < HalfOpenMaxCalls
  /\ state' = "half_open"
  /\ halfOpenInFlight' = slotsTaken + 1
  /\ IF timeIsUp THEN halfOpenSuccesses' = 0 /\ streak' = 0
                 ELSE UNCHANGED <<halfOpenSuccesses, streak>>
  /\ flying' = flying \cup {c}
  /\ trials' = trialsNow \cup {c}
  /\ unused' = 0
  /\ UNCHANGED <<openFor, outcomes, detached, up, evidence>>

(* execute() rejects with CircuitOpenError: OPEN, or no trial slot is free.  *)
executeRejected ==
  /\ current # "closed"
  /\ current = "half_open" => slotsTaken >= HalfOpenMaxCalls
  /\ unused' = 0
  /\ maybeHalfOpen
  /\ trials' = trialsNow
  /\ UNCHANGED <<openFor, outcomes, flying, detached, up, evidence>>

open ==
  /\ state' = "open" /\ openFor' = 0
  /\ halfOpenSuccesses' = 0 /\ halfOpenInFlight' = 0

(* Mutant: close() keeps the outcomes of the outage in the window.           *)
closeKeepsWindow ==
  /\ state' = "closed" /\ openFor' = 0
  /\ halfOpenSuccesses' = 0
  /\ outcomes' = W!Recorded(outcomes, TRUE)
  /\ evidence' = 0

(* close() leaves halfOpenInFlight as it is.                                 *)
close ==
  /\ state' = "closed" /\ openFor' = 0
  /\ halfOpenSuccesses' = 0
  /\ outcomes' = W!NoOutcomes
  /\ evidence' = 0

(* Mutants: the finally block never gives the last slot back, or gives back  *)
(* a slot that is not taken.                                                 *)
finallyKeepsLast ==
  halfOpenInFlight' =
    IF state' = "half_open" /\ halfOpenInFlight > 1 THEN halfOpenInFlight - 1
                                                    ELSE halfOpenInFlight
finallyUnchecked ==
  halfOpenInFlight' = IF state' = "half_open" THEN halfOpenInFlight - 1 ELSE halfOpenInFlight

(* The finally block, in the state recordSuccess()/recordFailure() left.     *)
finally ==
  halfOpenInFlight' =
    IF state' = "half_open" /\ halfOpenInFlight > 0 THEN halfOpenInFlight - 1
                                                    ELSE halfOpenInFlight

(* Settling calls leave the sets of calls.                                   *)
settled(c) ==
  /\ c \in flying
  /\ flying' = flying \ {c} /\ detached' = detached \ {c} /\ trials' = trials \ {c}
  /\ UNCHANGED <<unused, up>>

(* execute() after its await: the operation fulfilled, or rejected with an   *)
(* error isFailure() ignores.  recordSuccess(), then the finally block.      *)
recordSuccess(c) ==
  /\ settled(c) /\ c \notin detached
  /\ streak' = streak + (IF state = "half_open" THEN 1 ELSE 0)
  /\ \/ /\ state = "half_open" /\ halfOpenSuccesses + 1 >= SuccessesToClose
        /\ close
     \/ /\ ~(state = "half_open" /\ halfOpenSuccesses + 1 >= SuccessesToClose)
        /\ halfOpenSuccesses' = halfOpenSuccesses + (IF state = "half_open" THEN 1 ELSE 0)
        /\ outcomes' = W!Recorded(outcomes, TRUE)
        /\ evidence' = Lesser(VolumeThreshold, evidence + 1)
        /\ UNCHANGED <<state, openFor>>
  /\ finally

(* The failure rate is trusted and too high.                                 *)
trips(w) ==
  W!Total(w) >= VolumeThreshold /\ W!Failures(w) * RateDen >= RateNum * W!Total(w)

(* One failed trial reopens the circuit; while CLOSED the rate decides.       *)
opensOnFailure == state = "half_open" \/ (state = "closed" /\ trips(outcomes'))

(* execute() after its await: a real failure.                                *)
recordFailure(c) ==
  /\ ~up
  /\ settled(c) /\ c \notin detached
  /\ outcomes' = W!Recorded(outcomes, FALSE)
  /\ evidence' = Lesser(VolumeThreshold, evidence + 1)
  /\ UNCHANGED streak
  /\ \/ /\ opensOnFailure
        /\ open
     \/ /\ ~opensOnFailure
        /\ UNCHANGED <<state, openFor, halfOpenSuccesses, halfOpenInFlight>>

(* A call whose breaker was pruned settles into an object nobody reads.      *)
settleDetached(c) ==
  /\ settled(c) /\ c \in detached
  /\ UNCHANGED <<breaker, history>>

fresh ==
  /\ state' = "closed" /\ openFor' = 0
  /\ halfOpenSuccesses' = 0 /\ halfOpenInFlight' = 0
  /\ outcomes' = W!NoOutcomes
  /\ evidence' = 0

(* reset(), the manual override.                                             *)
reset ==
  /\ fresh
  /\ UNCHANGED <<unused, calls, up, streak>>

(* Mutant: prune() forgets a HALF_OPEN circuit too.                          *)
prunableUnlessOpen == current # "open"

(* prune() keeps a circuit that getState() does not find closed.             *)
prunable == current = "closed"

(* CircuitBreakerRegistry.prune(): an idle entry is dropped if it is closed; *)
(* the next get() makes a new breaker, and calls in flight keep the old one. *)
prune ==
  /\ unused >= MaxIdle
  /\ \/ /\ prunable
        /\ fresh
        /\ detached' = flying /\ trials' = {}
        /\ UNCHANGED <<unused, flying, up, streak>>
     \/ /\ ~prunable
        /\ getState

elapse ==
  /\ outcomes' = W!Elapsed(outcomes)
  /\ openFor' = IF state = "open" THEN Lesser(ResetTimeout, openFor + 1) ELSE openFor
  /\ unused' = Lesser(MaxIdle, unused + 1)
  /\ UNCHANGED <<state, halfOpenSuccesses, halfOpenInFlight, calls, up, history>>

upstream == up' = ~up /\ UNCHANGED <<breaker, unused, calls, history>>

-----------------------------------------------------------------------------
Init ==
  /\ state = "closed" /\ openFor = 0
  /\ halfOpenSuccesses = 0 /\ halfOpenInFlight = 0
  /\ outcomes = W!NoOutcomes
  /\ unused = 0
  /\ flying = {} /\ detached = {} /\ trials = {}
  /\ up \in BOOLEAN
  /\ streak = 0 /\ evidence = 0

execute(c) == executeClosed(c) \/ executeTrial(c)
settle(c) == recordSuccess(c) \/ recordFailure(c) \/ settleDetached(c)

Next ==
  \/ \E c \in Calls : execute(c) \/ settle(c)
  \/ executeRejected \/ getState \/ reset \/ prune
  \/ elapse \/ upstream

(* Callers keep coming, every operation settles (the playground aborts it    *)
(* after its timeout), and time passes.                                      *)
Fairness ==
  /\ WF_vars(elapse)
  /\ WF_vars(\E c \in Calls : execute(c))
  /\ \A c \in Calls : WF_vars(settle(c))

Spec == Init /\ [][Next]_vars
FairSpec == Spec /\ Fairness

-----------------------------------------------------------------------------
(* Properties                                                                *)

(* No slot leaks: while HALF_OPEN every counted trial slot belongs to a      *)
(* trial call still in flight.  A leaked slot would make the breaker reject  *)
(* every call to the host for ever (circuit-breaker.ts:126-147).             *)
NoSlotLeak == state = "half_open" => halfOpenInFlight =< Cardinality(trials)

(* What a breaker keeps is of its type, and it counts no slot that nobody    *)
(* holds (circuit-breaker.ts:77-148).                                        *)
BreakerConsistent == TypeOK /\ NoSlotLeak

(* The circuit closes only on the successes required of one uninterrupted    *)
(* HALF_OPEN period, whether through a call or through prune(), which never  *)
(* forgets an open circuit (circuit-breaker.ts:163-170, 276-277).            *)
ClosesOnSuccesses ==
  [][state # "closed" /\ state' = "closed" => streak' >= SuccessesToClose \/ reset]_vars

(* The circuit trips only on evidence gathered since it last closed: the     *)
(* failures of an outage that is over are not held against the host again.   *)
TripsOnFreshEvidence ==
  [][state = "closed" /\ state' = "open" => evidence' >= VolumeThreshold]_vars

(* Once the upstream is well for good, traffic closes the circuit for good.  *)
Recovers == <>[]up => <>[](state = "closed")

(* The claim of circuit-breaker.ts:60, "Trial calls permitted concurrently   *)
(* while HALF_OPEN": a bound on the trial calls in flight.                   *)
TrialLimit == state = "half_open" => Cardinality(trials) =< HalfOpenMaxCalls
==============================================================================
