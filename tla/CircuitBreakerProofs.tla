------------------------- MODULE CircuitBreakerProofs ------------------------
(***************************************************************************)
(* The circuit breaker never leaks a trial slot, never closes without the  *)
(* required successes and never trips on outcomes it has discarded, for    *)
(* any number of calls, any ring of buckets and any thresholds.            *)
(***************************************************************************)
EXTENDS CircuitBreaker, FiniteSetTheorems, WellFoundedInduction, TLAPS

(* The types of everything but the rolling window.                           *)
BreakerType ==
  /\ state \in {"closed", "open", "half_open"}
  /\ halfOpenSuccesses \in Nat /\ halfOpenInFlight \in Nat
  /\ streak \in Nat
  /\ flying \subseteq Calls /\ detached \subseteq flying /\ trials \subseteq flying \ detached

(* The count the breaker keeps is the history of the HALF_OPEN period.       *)
SuccessesCounted == state = "half_open" => halfOpenSuccesses = streak

IInv == BreakerType /\ NoSlotLeak /\ SuccessesCounted

(* Finiteness of the sets of calls.                                          *)
LEMMA TrialsFinite ==
  ASSUME NEW T, T \subseteq Calls
  PROVE  IsFiniteSet(T) /\ Cardinality(T) \in Nat
  BY BreakerAssumption, FS_Subset, FS_CardinalityType DEF BreakerAssumption

(* A new breaker satisfies the invariant.                                    *)
LEMMA InitOK == Init => IInv
  BY FS_EmptySet DEF Init, IInv, BreakerType, NoSlotLeak, SuccessesCounted

(* maybeHalfOpen() empties the slots together with the trials they count.    *)
LEMMA HalfOpenOK ==
  ASSUME IInv, maybeHalfOpen, trials' = trialsNow, UNCHANGED <<flying, detached>>
  PROVE  IInv'
  BY FS_EmptySet
     DEF maybeHalfOpen, trialsNow, timeIsUp, current, IInv, BreakerType, NoSlotLeak,
         SuccessesCounted

(* A trial call takes one slot.                                              *)
LEMMA TrialOK ==
  ASSUME IInv, NEW c \in Calls, executeTrial(c)
  PROVE  IInv'
<1>1. c \notin trials /\ c \notin trialsNow /\ trialsNow \subseteq Calls
  BY DEF executeTrial, trialsNow, IInv, BreakerType
<1>2. slotsTaken \in Nat /\ slotsTaken =< Cardinality(trialsNow)
  BY FS_EmptySet DEF executeTrial, current, slotsTaken, trialsNow, timeIsUp, IInv, BreakerType, NoSlotLeak
<1>3. Cardinality(trialsNow \cup {c}) = Cardinality(trialsNow) + 1
  BY <1>1, TrialsFinite, FS_AddElement
<1>4. NoSlotLeak'
  BY <1>1, <1>2, <1>3, TrialsFinite DEF executeTrial, NoSlotLeak
<1>5. BreakerType' /\ SuccessesCounted'
  BY <1>1, <1>2 DEF executeTrial, trialsNow, current, timeIsUp, IInv, BreakerType, SuccessesCounted
<1> QED
  BY <1>4, <1>5 DEF IInv

(* A settling call gives back at least the slot it held.                     *)
LEMMA SuccessOK ==
  ASSUME IInv, NEW c \in Calls, recordSuccess(c)
  PROVE  IInv'
<1>1. trials' = trials \ {c} /\ trials \subseteq Calls
  BY DEF recordSuccess, settled, IInv, BreakerType
<1>2. /\ Cardinality(trials) \in Nat
      /\ Cardinality(trials') >= Cardinality(trials) - 1
      /\ Cardinality(trials') \in Nat
  BY <1>1, TrialsFinite, FS_RemoveElement
<1>3. state' = "half_open" => state = "half_open"
  BY DEF recordSuccess, close
<1>4. NoSlotLeak'
  BY <1>2, <1>3 DEF recordSuccess, finally, IInv, BreakerType, NoSlotLeak
<1>5. /\ flying' \subseteq Calls /\ detached' \subseteq flying'
      /\ trials' \subseteq flying' \ detached'
  BY DEF recordSuccess, settled, IInv, BreakerType
<1>6. halfOpenInFlight' \in Nat
  BY DEF recordSuccess, finally, IInv, BreakerType
<1>7. CASE state = "half_open"
  <2>1. streak' = streak + 1
    BY <1>7 DEF recordSuccess
  <2>2. \/ state' = "closed" /\ halfOpenSuccesses' = 0
        \/ state' = state /\ halfOpenSuccesses' = halfOpenSuccesses + 1
    BY <1>7 DEF recordSuccess, close
  <2> QED
    BY <1>4, <1>5, <1>6, <1>7, <2>1, <2>2 DEF IInv, BreakerType, SuccessesCounted
<1>8. CASE state # "half_open"
  <2>1. streak' = streak + 0 /\ state' = state /\ halfOpenSuccesses' = halfOpenSuccesses + 0
    BY <1>8 DEF recordSuccess
  <2> QED
    BY <1>4, <1>5, <1>6, <1>8, <2>1 DEF IInv, BreakerType, SuccessesCounted
<1> QED
  BY <1>7, <1>8

(* Every step preserves the invariant.                                       *)
LEMMA NextOK == IInv /\ [Next]_vars => IInv'
<1> SUFFICES ASSUME IInv, [Next]_vars PROVE IInv'
  OBVIOUS
<1>1. ASSUME NEW c \in Calls, executeClosed(c) PROVE IInv'
  BY <1>1 DEF executeClosed, breaker, history, current, timeIsUp, IInv, BreakerType, NoSlotLeak,
     SuccessesCounted
<1>2. ASSUME NEW c \in Calls, executeTrial(c) PROVE IInv'
  BY <1>2, TrialOK
<1>3. ASSUME NEW c \in Calls, recordSuccess(c) PROVE IInv'
  BY <1>3, SuccessOK
<1>4. ASSUME NEW c \in Calls, recordFailure(c) PROVE IInv'
  <2>1. /\ flying' \subseteq Calls /\ detached' \subseteq flying'
        /\ trials' \subseteq flying' \ detached'
    BY <1>4 DEF recordFailure, settled, IInv, BreakerType
  <2>2. \/ state' = "open" /\ halfOpenSuccesses' = 0 /\ halfOpenInFlight' = 0
        \/ state # "half_open" /\ UNCHANGED <<state, halfOpenSuccesses, halfOpenInFlight>>
    BY <1>4 DEF recordFailure, opensOnFailure, open
  <2>3. streak' = streak
    BY <1>4 DEF recordFailure
  <2> QED
    BY <2>1, <2>2, <2>3 DEF IInv, BreakerType, NoSlotLeak, SuccessesCounted
<1>5. ASSUME NEW c \in Calls, settleDetached(c) PROVE IInv'
  <2>1. trials' = trials
    BY <1>5 DEF settleDetached, settled, IInv, BreakerType
  <2> QED
    BY <1>5, <2>1 DEF settleDetached, settled, breaker, history, IInv, BreakerType, NoSlotLeak,
       SuccessesCounted
<1>6. CASE executeRejected
  BY <1>6, HalfOpenOK DEF executeRejected
<1>7. CASE getState
  BY <1>7, HalfOpenOK DEF getState
<1>8. CASE reset
  BY <1>8 DEF reset, fresh, calls, IInv, BreakerType, NoSlotLeak, SuccessesCounted
<1>9. CASE prune
  BY <1>9, HalfOpenOK DEF prune, fresh, getState, IInv, BreakerType, NoSlotLeak, SuccessesCounted
<1>10. CASE elapse
  BY <1>10 DEF elapse, calls, history, IInv, BreakerType, NoSlotLeak, SuccessesCounted
<1>11. CASE upstream
  BY <1>11 DEF upstream, breaker, calls, history, IInv, BreakerType, NoSlotLeak, SuccessesCounted
<1>12. CASE UNCHANGED vars
  BY <1>12 DEF vars, breaker, calls, history, IInv, BreakerType, NoSlotLeak, SuccessesCounted
<1> QED
  BY <1>1, <1>2, <1>3, <1>4, <1>5, <1>6, <1>7, <1>8, <1>9, <1>10, <1>11, <1>12
     DEF Next, execute, settle

(* The types of the rest: the window, the clocks and the history.            *)
RestType ==
  /\ openFor \in 0..ResetTimeout /\ unused \in 0..MaxIdle
  /\ outcomes \in W!Window
  /\ up \in BOOLEAN /\ evidence \in Nat

(* Recording, clearing and ageing a window give a window.                    *)
LEMMA WindowsStayWindows ==
  /\ W!NoOutcomes \in W!Window
  /\ \A w \in W!Window : W!Elapsed(w) \in W!Window
  /\ \A w \in W!Window, s \in BOOLEAN : W!Recorded(w, s) \in W!Window
<1>1. 0 \in W!Ages /\ \A a \in W!Ages : a # 0 => a - 1 \in W!Ages
  BY BreakerAssumption DEF BreakerAssumption, W!Ages
<1>2. W!NoOutcomes \in W!Window
  BY DEF W!NoOutcomes, W!Window
<1>3. ASSUME NEW f \in [W!Ages -> Nat] PROVE W!Older(f) \in [W!Ages -> Nat]
  BY <1>1, <1>3 DEF W!Older
<1>4. \A w \in W!Window : W!Elapsed(w) \in W!Window
  BY <1>3 DEF W!Elapsed, W!Window
<1>5. ASSUME NEW w \in W!Window, NEW s \in BOOLEAN PROVE W!Recorded(w, s) \in W!Window
  <2>1. w.good \in [W!Ages -> Nat] /\ w.bad \in [W!Ages -> Nat]
    BY DEF W!Window
  <2>2. [w.good EXCEPT ![0] = @ + 1] \in [W!Ages -> Nat]
    BY <1>1, <2>1
  <2>3. [w.bad EXCEPT ![0] = @ + 1] \in [W!Ages -> Nat]
    BY <1>1, <2>1
  <2> QED
    BY <2>2, <2>3 DEF W!Recorded, W!Window
<1> QED
  BY <1>2, <1>4, <1>5

(* Every step keeps the types of the rest.                                   *)
LEMMA RestNextOK == RestType /\ [Next]_vars => RestType'
<1> SUFFICES ASSUME RestType, [Next]_vars PROVE RestType'
  OBVIOUS
<1> USE BreakerAssumption DEF BreakerAssumption, RestType
<1>1. ASSUME NEW c \in Calls, execute(c) PROVE RestType'
  BY <1>1 DEF execute, executeClosed, executeTrial, breaker, history
<1>2. ASSUME NEW c \in Calls, recordSuccess(c) PROVE RestType'
  <2>1. /\ outcomes' \in {W!NoOutcomes, W!Recorded(outcomes, TRUE)}
        /\ evidence' = 0 \/ evidence' = Lesser(VolumeThreshold, evidence + 1)
        /\ openFor' = 0 \/ openFor' = openFor
    BY <1>2 DEF recordSuccess, close
  <2>2. unused' = unused /\ up' = up
    BY <1>2 DEF recordSuccess, settled
  <2>3. W!NoOutcomes \in W!Window /\ W!Recorded(outcomes, TRUE) \in W!Window
    BY WindowsStayWindows
  <2>4. evidence' \in Nat /\ openFor' \in 0..ResetTimeout /\ unused' \in 0..MaxIdle
    BY <2>1, <2>2 DEF Lesser
  <2>5. outcomes' \in W!Window
    BY <2>1, <2>3
  <2>6. up' \in BOOLEAN
    BY <2>2
  <2> QED
    BY <2>4, <2>5, <2>6
<1>3. ASSUME NEW c \in Calls, recordFailure(c) PROVE RestType'
  <2>1. /\ outcomes' = W!Recorded(outcomes, FALSE)
        /\ evidence' = Lesser(VolumeThreshold, evidence + 1)
        /\ openFor' = 0 \/ openFor' = openFor
        /\ unused' = unused
    BY <1>3 DEF recordFailure, settled, open
  <2>2. evidence' \in Nat /\ openFor' \in 0..ResetTimeout /\ unused' \in 0..MaxIdle
    BY <2>1 DEF Lesser
  <2>3. outcomes' \in W!Window
    BY <2>1, WindowsStayWindows
  <2>4. up' \in BOOLEAN
    BY <1>3 DEF recordFailure, settled
  <2> QED
    BY <2>2, <2>3, <2>4
<1>4. ASSUME NEW c \in Calls, settleDetached(c) PROVE RestType'
  BY <1>4 DEF settleDetached, settled, breaker, history
<1>5. CASE executeRejected \/ getState
  BY <1>5 DEF executeRejected, getState
<1>6. CASE reset \/ prune
  BY <1>6, WindowsStayWindows DEF reset, prune, fresh, getState, calls
<1>7. CASE elapse
  BY <1>7, WindowsStayWindows DEF elapse, Lesser, history
<1>8. CASE upstream \/ UNCHANGED vars
  BY <1>8 DEF upstream, vars, breaker, history
<1> QED
  BY <1>1, <1>2, <1>3, <1>4, <1>5, <1>6, <1>7, <1>8 DEF Next, settle

(* A breaker keeps its type, and however calls overlap its changes of state, *)
(* every trial slot it counts is held by a trial call in flight: it cannot   *)
(* end up rejecting every call for good (circuit-breaker.ts:119-148).        *)
THEOREM NoTrialSlotLeaks == Spec => []BreakerConsistent
<1>1. Spec => []IInv
  BY InitOK, NextOK, PTL DEF Spec
<1>2. Init => RestType
  BY BreakerAssumption, WindowsStayWindows DEF BreakerAssumption, Init, RestType
<1>3. Spec => []RestType
  BY <1>2, RestNextOK, PTL DEF Spec
<1>4. IInv /\ RestType => BreakerConsistent
  BY DEF IInv, BreakerType, RestType, BreakerConsistent, TypeOK
<1> QED
  BY <1>1, <1>3, <1>4, PTL

(* Only the required number of successes within one HALF_OPEN period, or the *)
(* manual reset(), closes the circuit.                                       *)
THEOREM ClosingIsEarned == Spec => ClosesOnSuccesses
<1> DEFINE earned == state # "closed" /\ state' = "closed"
                       => streak' >= SuccessesToClose \/ reset
<1>1. Spec => []IInv
  BY InitOK, NextOK, PTL DEF Spec
<1>2. ASSUME IInv, Next PROVE earned
  <2>1. ASSUME NEW c \in Calls, settle(c) PROVE earned
    <3>1. CASE recordSuccess(c)
      <4>1. CASE state = "half_open" /\ halfOpenSuccesses + 1 >= SuccessesToClose
        <5>1. streak' = streak + 1
          BY <3>1, <4>1 DEF recordSuccess
        <5> QED
          BY <1>2, <4>1, <5>1 DEF IInv, SuccessesCounted
      <4>2. CASE ~(state = "half_open" /\ halfOpenSuccesses + 1 >= SuccessesToClose)
        BY <3>1, <4>2 DEF recordSuccess
      <4> QED
        BY <4>1, <4>2
    <3>2. CASE recordFailure(c)
      BY <3>2 DEF recordFailure, open
    <3>3. CASE settleDetached(c)
      BY <3>3 DEF settleDetached, breaker
    <3> QED
      BY <2>1, <3>1, <3>2, <3>3 DEF settle
  <2>2. ASSUME NEW c \in Calls, execute(c) PROVE earned
    BY <2>2 DEF execute, executeClosed, executeTrial, breaker
  <2>3. CASE executeRejected \/ getState
    BY <2>3 DEF executeRejected, getState, maybeHalfOpen, current, timeIsUp
  <2>4. CASE prune
    BY <2>4 DEF prune, prunable, current, timeIsUp, fresh, getState, maybeHalfOpen, IInv, BreakerType
  <2>5. CASE reset \/ elapse \/ upstream
    BY <2>5 DEF elapse, upstream, breaker
  <2> QED
    BY <1>2, <2>1, <2>2, <2>3, <2>4, <2>5 DEF Next
<1>3. IInv /\ [Next]_vars => [earned]_vars
  BY <1>2
<1>4. Spec => [][earned]_vars
  BY <1>1, <1>3, PTL DEF Spec
<1> QED
  BY <1>4 DEF ClosesOnSuccesses

-----------------------------------------------------------------------------
(* The outcomes in the window                                                *)

(* Every non-empty set of naturals has a least element.                      *)
LEMMA LeastOf ==
  ASSUME NEW S \in SUBSET Nat, S # {}
  PROVE  \E x \in S : \A y \in S : x <= y
<1>1. IsWellFoundedOn(OpToRel(<, Nat), Nat)
  BY NatLessThanWellFounded
<1>2. PICK x \in S : \A y \in S : ~(<<y, x>> \in OpToRel(<, Nat))
  BY <1>1, WFMin
<1>3. \A y \in S : ~(y < x)
  BY <1>2 DEF OpToRel
<1> QED
  BY <1>3

(* Induction over the naturals, for a set of them.                           *)
LEMMA Induct ==
  ASSUME NEW T \in SUBSET Nat, 0 \in T, \A n \in T : n + 1 \in T
  PROVE  T = Nat
<1> SUFFICES ASSUME Nat \ T # {} PROVE FALSE
  OBVIOUS
<1>1. PICK x \in Nat \ T : \A y \in Nat \ T : x <= y
  BY LeastOf
<1>2. x - 1 \in Nat /\ x - 1 \notin Nat \ T
  BY <1>1
<1>3. (x - 1) + 1 \in T
  BY <1>2
<1> QED
  BY <1>1, <1>3

(* g adds f up over the ages 0..n.                                           *)
AddsUp(f, g, n) ==
  /\ g \in [0..n -> Nat]
  /\ \A a \in 0..n : g[a] = IF a = 0 THEN f[0] ELSE f[a] + g[a - 1]

(* The counts of a window can be added up, however many buckets it has.      *)
LEMMA SumsExist ==
  ASSUME NEW f \in [W!Ages -> Nat]
  PROVE  \E g : AddsUp(f, g, BucketCount - 1)
<1> DEFINE T == {n \in Nat : n < BucketCount => \E g : AddsUp(f, g, n)}
<1>1. 0 \in T
  <2>1. f[0] \in Nat
    BY BreakerAssumption DEF BreakerAssumption, W!Ages
  <2>2. AddsUp(f, [a \in 0..0 |-> f[0]], 0)
    BY <2>1 DEF AddsUp
  <2> QED
    BY <2>2
<1>2. ASSUME NEW n \in T PROVE n + 1 \in T
  <2>1. SUFFICES ASSUME n + 1 < BucketCount PROVE \E h : AddsUp(f, h, n + 1)
    OBVIOUS
  <2>2. PICK g : AddsUp(f, g, n)
    BY <2>1, BreakerAssumption DEF BreakerAssumption
  <2>3. f[n + 1] \in Nat
    BY <2>1, BreakerAssumption DEF BreakerAssumption, W!Ages
  <2> DEFINE h == [a \in 0..(n + 1) |-> IF a = n + 1 THEN f[n + 1] + g[n] ELSE g[a]]
  <2>4. h \in [0..(n + 1) -> Nat]
    BY <2>2, <2>3 DEF AddsUp
  <2>5. ASSUME NEW a \in 0..(n + 1)
        PROVE  h[a] = IF a = 0 THEN f[0] ELSE f[a] + h[a - 1]
    <3>1. CASE a = n + 1
      BY <3>1
    <3>2. CASE a \in 0..n
      <4>1. g[a] = IF a = 0 THEN f[0] ELSE f[a] + g[a - 1]
        BY <2>2, <3>2 DEF AddsUp
      <4>2. h[a] = g[a] /\ (a # 0 => h[a - 1] = g[a - 1])
        BY <3>2
      <4> QED
        BY <4>1, <4>2
    <3> QED
      BY <3>1, <3>2
  <2>6. AddsUp(f, h, n + 1)
    BY <2>4, <2>5 DEF AddsUp
  <2> QED
    BY <2>6
<1>3. BucketCount - 1 \in T
  <2>1. T \in SUBSET Nat
    OBVIOUS
  <2>2. T = Nat
    <3> HIDE DEF T
    <3> QED
      BY <1>1, <1>2, <2>1, Induct
  <2> HIDE DEF T
  <2> QED
    BY <2>2, BreakerAssumption DEF BreakerAssumption
<1> QED
  BY <1>3, BreakerAssumption DEF BreakerAssumption

(* CountOf() is the last of those sums.                                      *)
LEMMA CountIs ==
  ASSUME NEW f \in [W!Ages -> Nat]
  PROVE  \E g : AddsUp(f, g, BucketCount - 1) /\ W!CountOf(f) = g[BucketCount - 1]
<1> DEFINE Adds(g) == g = [a \in W!Ages |-> IF a = 0 THEN f[0] ELSE f[a] + g[a - 1]]
<1>1. PICK h : AddsUp(f, h, BucketCount - 1)
  BY SumsExist
<1>2. Adds(h)
  BY <1>1 DEF AddsUp, W!Ages
<1> DEFINE g == CHOOSE k : Adds(k)
<1>3. Adds(g)
  BY <1>2
<1>4. W!CountOf(f) = g[BucketCount - 1]
  BY DEF W!CountOf
<1> HIDE DEF g
<1>5. ASSUME NEW k, Adds(k), NEW a \in W!Ages
      PROVE  k[a] = IF a = 0 THEN f[0] ELSE f[a] + k[a - 1]
  BY <1>5
<1> HIDE DEF Adds
<1> DEFINE T == {n \in Nat : n \in W!Ages => g[n] = h[n]}
<1>6. 0 \in T
  BY <1>2, <1>3, <1>5
<1>7. ASSUME NEW n \in T PROVE n + 1 \in T
  <2>1. SUFFICES ASSUME n + 1 \in W!Ages PROVE g[n + 1] = h[n + 1]
    OBVIOUS
  <2>2. n \in W!Ages /\ (n + 1) - 1 = n /\ n + 1 # 0
    BY <2>1, BreakerAssumption DEF BreakerAssumption, W!Ages
  <2>3. g[n] = h[n]
    BY <2>2
  <2>4. g[n + 1] = f[n + 1] + g[n]
    BY <1>3, <1>5, <2>1, <2>2
  <2>5. h[n + 1] = f[n + 1] + h[n]
    BY <1>2, <1>5, <2>1, <2>2
  <2> QED
    BY <2>3, <2>4, <2>5
<1>8. T = Nat
  <2>1. T \in SUBSET Nat
    OBVIOUS
  <2> HIDE DEF T
  <2> QED
    BY <1>6, <1>7, <2>1, Induct
<1>9. BucketCount - 1 \in Nat /\ BucketCount - 1 \in W!Ages
  BY BreakerAssumption DEF BreakerAssumption, W!Ages
<1>10. BucketCount - 1 \in T
  BY <1>8, <1>9
<1>11. g[BucketCount - 1] = h[BucketCount - 1]
  BY <1>9, <1>10
<1> QED
  BY <1>1, <1>4, <1>11

(* The sum over a window with one more outcome is one more.                  *)
LEMMA CountRecorded ==
  ASSUME NEW f \in [W!Ages -> Nat]
  PROVE  /\ W!CountOf(f) \in Nat
         /\ W!CountOf([f EXCEPT ![0] = @ + 1]) = W!CountOf(f) + 1
<1> DEFINE N == BucketCount - 1
           f1 == [f EXCEPT ![0] = @ + 1]
<1>1. N \in Nat /\ W!Ages = 0..N /\ f \in [0..N -> Nat]
  BY BreakerAssumption DEF BreakerAssumption, W!Ages
<1>2. f1 \in [W!Ages -> Nat] /\ f1[0] = f[0] + 1 /\ \A a \in 0..N : a # 0 => f1[a] = f[a]
  BY <1>1
<1> HIDE DEF f1, N
<1>3. PICK g : AddsUp(f, g, N) /\ W!CountOf(f) = g[N]
  BY CountIs DEF N
<1>4. PICK h : AddsUp(f1, h, N) /\ W!CountOf(f1) = h[N]
  BY <1>2, CountIs DEF N
<1> DEFINE T == {n \in Nat : n =< N => h[n] = g[n] + 1}
<1>5. 0 \in T
  BY <1>1, <1>2, <1>3, <1>4 DEF AddsUp
<1>6. ASSUME NEW n \in T PROVE n + 1 \in T
  <2>1. SUFFICES ASSUME n + 1 =< N PROVE h[n + 1] = g[n + 1] + 1
    OBVIOUS
  <2>2. n \in 0..N /\ n + 1 \in 0..N /\ n + 1 # 0 /\ (n + 1) - 1 = n
    BY <1>1, <2>1
  <2>3. h[n] = g[n] + 1 /\ g[n] \in Nat
    BY <1>3, <2>2 DEF AddsUp
  <2>4. g[n + 1] = f[n + 1] + g[n]
    BY <1>3, <2>2 DEF AddsUp
  <2>5. h[n + 1] = f1[n + 1] + h[n]
    BY <1>4, <2>2 DEF AddsUp
  <2>6. f1[n + 1] = f[n + 1] /\ f[n + 1] \in Nat
    BY <1>1, <1>2, <2>2
  <2> QED
    BY <2>3, <2>4, <2>5, <2>6
<1>7. T = Nat
  <2>1. T \in SUBSET Nat
    OBVIOUS
  <2> HIDE DEF T
  <2> QED
    BY <1>5, <1>6, <2>1, Induct
<1>8. h[N] = g[N] + 1
  <2>1. N \in T
    BY <1>1, <1>7
  <2> QED
    BY <1>1, <2>1
<1>9. g[N] \in Nat
  BY <1>1, <1>3 DEF AddsUp
<1> QED
  BY <1>3, <1>4, <1>8, <1>9 DEF f1

(* A window one period older holds no more outcomes: the oldest are gone.    *)
LEMMA CountOlder ==
  ASSUME NEW f \in [W!Ages -> Nat]
  PROVE  W!CountOf(W!Older(f)) \in Nat /\ W!CountOf(W!Older(f)) =< W!CountOf(f)
<1> DEFINE N == BucketCount - 1
           f1 == W!Older(f)
<1>1. N \in Nat /\ W!Ages = 0..N /\ f \in [0..N -> Nat]
  BY BreakerAssumption DEF BreakerAssumption, W!Ages
<1>2. f1 \in [W!Ages -> Nat] /\ f1[0] = 0 /\ \A a \in 0..N : a # 0 => f1[a] = f[a - 1]
  BY <1>1 DEF W!Older
<1> HIDE DEF f1, N
<1>3. PICK g : AddsUp(f, g, N) /\ W!CountOf(f) = g[N]
  BY CountIs DEF N
<1>4. PICK h : AddsUp(f1, h, N) /\ W!CountOf(f1) = h[N]
  BY <1>2, CountIs DEF N
<1> DEFINE T == {n \in Nat : n =< N => (h[n] + f[n] = g[n])}
<1>5. 0 \in T
  BY <1>1, <1>2, <1>3, <1>4 DEF AddsUp
<1>6. ASSUME NEW n \in T PROVE n + 1 \in T
  <2>1. SUFFICES ASSUME n + 1 =< N PROVE h[n + 1] + f[n + 1] = g[n + 1]
    OBVIOUS
  <2>2. n \in 0..N /\ n + 1 \in 0..N /\ n + 1 # 0 /\ (n + 1) - 1 = n
    BY <1>1, <2>1
  <2>3. h[n] + f[n] = g[n] /\ g[n] \in Nat /\ h[n] \in Nat /\ f[n] \in Nat
    BY <1>1, <1>3, <1>4, <2>2 DEF AddsUp
  <2>4. g[n + 1] = f[n + 1] + g[n]
    BY <1>3, <2>2 DEF AddsUp
  <2>5. h[n + 1] = f1[n + 1] + h[n]
    BY <1>4, <2>2 DEF AddsUp
  <2>6. f1[n + 1] = f[n] /\ f[n + 1] \in Nat
    BY <1>1, <1>2, <2>2
  <2> QED
    BY <2>3, <2>4, <2>5, <2>6
<1>7. T = Nat
  <2>1. T \in SUBSET Nat
    OBVIOUS
  <2> HIDE DEF T
  <2> QED
    BY <1>5, <1>6, <2>1, Induct
<1>8. h[N] + f[N] = g[N]
  <2>1. N \in T
    BY <1>1, <1>7
  <2> QED
    BY <1>1, <2>1
<1>9. g[N] \in Nat /\ h[N] \in Nat /\ f[N] \in Nat
  BY <1>1, <1>3, <1>4 DEF AddsUp
<1> QED
  BY <1>3, <1>4, <1>8, <1>9 DEF f1

(* An empty window holds no outcome.                                         *)
LEMMA CountNone == W!CountOf([a \in W!Ages |-> 0]) = 0
<1> DEFINE N == BucketCount - 1
           f == [a \in W!Ages |-> 0]
<1>1. N \in Nat /\ W!Ages = 0..N
  BY BreakerAssumption DEF BreakerAssumption, W!Ages
<1>2. f \in [W!Ages -> Nat] /\ \A a \in 0..N : f[a] = 0
  BY <1>1
<1> HIDE DEF f, N
<1>3. PICK g : AddsUp(f, g, N) /\ W!CountOf(f) = g[N]
  BY <1>2, CountIs DEF N
<1> DEFINE T == {n \in Nat : n =< N => g[n] = 0}
<1>4. 0 \in T
  BY <1>1, <1>2, <1>3 DEF AddsUp
<1>5. ASSUME NEW n \in T PROVE n + 1 \in T
  <2>1. SUFFICES ASSUME n + 1 =< N PROVE g[n + 1] = 0
    OBVIOUS
  <2>2. n \in 0..N /\ n + 1 \in 0..N /\ n + 1 # 0 /\ (n + 1) - 1 = n
    BY <1>1, <2>1
  <2>3. g[n] = 0 /\ g[n + 1] = f[n + 1] + g[n]
    BY <1>3, <2>2 DEF AddsUp
  <2> QED
    BY <1>2, <2>2, <2>3
<1>6. T = Nat
  <2>1. T \in SUBSET Nat
    OBVIOUS
  <2> HIDE DEF T
  <2> QED
    BY <1>4, <1>5, <2>1, Induct
<1>7. g[N] = 0
  <2>1. N \in T
    BY <1>1, <1>6
  <2> QED
    BY <1>1, <2>1
<1> QED
  BY <1>3, <1>7 DEF f

(* What the breaker's steps do to the number of outcomes in its window.      *)
LEMMA Totals ==
  /\ W!Total(W!NoOutcomes) = 0
  /\ \A w \in W!Window : W!Total(w) \in Nat
  /\ \A w \in W!Window, s \in BOOLEAN : W!Total(W!Recorded(w, s)) = W!Total(w) + 1
  /\ \A w \in W!Window : W!Total(W!Elapsed(w)) =< W!Total(w)
<1>1. W!Total(W!NoOutcomes) = 0
  BY CountNone DEF W!Total, W!NoOutcomes
<1>2. ASSUME NEW w \in W!Window
      PROVE  /\ w.good \in [W!Ages -> Nat] /\ w.bad \in [W!Ages -> Nat]
             /\ W!CountOf(w.good) \in Nat /\ W!CountOf(w.bad) \in Nat
  BY CountRecorded DEF W!Window
<1>3. \A w \in W!Window : W!Total(w) \in Nat
  BY <1>2 DEF W!Total
<1>4. ASSUME NEW w \in W!Window PROVE W!Total(W!Recorded(w, TRUE)) = W!Total(w) + 1
  <2>1. /\ W!Recorded(w, TRUE).good = [w.good EXCEPT ![0] = @ + 1]
        /\ W!Recorded(w, TRUE).bad = w.bad
    BY DEF W!Recorded, W!Window
  <2>2. W!CountOf([w.good EXCEPT ![0] = @ + 1]) = W!CountOf(w.good) + 1
    BY <1>2, CountRecorded
  <2> DEFINE r == W!Recorded(w, TRUE)
  <2>3. W!CountOf(r.good) = W!CountOf(w.good) + 1 /\ W!CountOf(r.bad) = W!CountOf(w.bad)
    BY <2>1, <2>2, Zenon
  <2> HIDE DEF r
  <2>4. W!Total(r) = W!CountOf(r.good) + W!CountOf(r.bad)
    BY DEF W!Total
  <2>5. W!Total(w) = W!CountOf(w.good) + W!CountOf(w.bad)
    BY DEF W!Total
  <2>6. W!Total(r) = W!Total(w) + 1
    BY <1>2, <2>3, <2>4, <2>5
  <2> QED
    BY <2>6 DEF r
<1>5. ASSUME NEW w \in W!Window PROVE W!Total(W!Recorded(w, FALSE)) = W!Total(w) + 1
  <2>1. /\ W!Recorded(w, FALSE).bad = [w.bad EXCEPT ![0] = @ + 1]
        /\ W!Recorded(w, FALSE).good = w.good
    BY DEF W!Recorded, W!Window
  <2>2. W!CountOf([w.bad EXCEPT ![0] = @ + 1]) = W!CountOf(w.bad) + 1
    BY <1>2, CountRecorded
  <2> DEFINE r == W!Recorded(w, FALSE)
  <2>3. W!CountOf(r.bad) = W!CountOf(w.bad) + 1 /\ W!CountOf(r.good) = W!CountOf(w.good)
    BY <2>1, <2>2, Zenon
  <2> HIDE DEF r
  <2>4. W!Total(r) = W!CountOf(r.good) + W!CountOf(r.bad)
    BY DEF W!Total
  <2>5. W!Total(w) = W!CountOf(w.good) + W!CountOf(w.bad)
    BY DEF W!Total
  <2>6. W!Total(r) = W!Total(w) + 1
    BY <1>2, <2>3, <2>4, <2>5
  <2> QED
    BY <2>6 DEF r
<1>6. ASSUME NEW w \in W!Window PROVE W!Total(W!Elapsed(w)) =< W!Total(w)
  <2>1. W!Elapsed(w).good = W!Older(w.good) /\ W!Elapsed(w).bad = W!Older(w.bad)
    BY DEF W!Elapsed
  <2> QED
    BY <1>2, <2>1, CountOlder DEF W!Total
<1>7. \A w \in W!Window, s \in BOOLEAN : W!Total(W!Recorded(w, s)) = W!Total(w) + 1
  BY <1>4, <1>5
<1> QED
  BY <1>1, <1>3, <1>6, <1>7

(* What is in the window was recorded since the circuit last closed; once    *)
(* enough was recorded for the rate to count, the history counts no further. *)
WindowIsFresh == W!Total(outcomes) =< evidence \/ evidence >= VolumeThreshold

(* Every step keeps the window fresh.                                        *)
LEMMA FreshNextOK == RestType /\ WindowIsFresh /\ [Next]_vars => WindowIsFresh'
<1> SUFFICES ASSUME RestType, WindowIsFresh, [Next]_vars PROVE WindowIsFresh'
  OBVIOUS
<1> USE DEF WindowIsFresh
<1>0. /\ outcomes \in W!Window /\ evidence \in Nat /\ VolumeThreshold \in Nat
      /\ W!Total(outcomes) \in Nat
  BY BreakerAssumption, Totals DEF BreakerAssumption, RestType
<1>1. ASSUME UNCHANGED <<outcomes, evidence>> PROVE WindowIsFresh'
  <2>1. W!Total(outcomes)' = W!Total(outcomes) /\ evidence' = evidence
    BY <1>1
  <2> QED
    BY <2>1
<1>2. ASSUME outcomes' = W!NoOutcomes, evidence' = 0 PROVE WindowIsFresh'
  <2>1. W!Total(outcomes') = 0
    BY <1>2, Totals
  <2> QED
    BY <1>2, <2>1
<1>3. ASSUME NEW s \in BOOLEAN, outcomes' = W!Recorded(outcomes, s),
             evidence' = Lesser(VolumeThreshold, evidence + 1)
      PROVE  WindowIsFresh'
  <2>1. W!Total(outcomes') = W!Total(outcomes) + 1
    BY <1>0, <1>3, Totals
  <2> QED
    BY <1>0, <1>3, <2>1 DEF Lesser
<1>4. ASSUME outcomes' = W!Elapsed(outcomes), evidence' = evidence PROVE WindowIsFresh'
  <2>1. W!Total(outcomes') =< W!Total(outcomes) /\ W!Total(outcomes') \in Nat
    BY <1>0, <1>4, Totals, WindowsStayWindows
  <2> QED
    BY <1>0, <1>4, <2>1
<1>5. ASSUME NEW c \in Calls, execute(c) PROVE WindowIsFresh'
  BY <1>1, <1>5 DEF execute, executeClosed, executeTrial, breaker, history
<1>6. ASSUME NEW c \in Calls, recordSuccess(c) PROVE WindowIsFresh'
  <2>1. \/ outcomes' = W!NoOutcomes /\ evidence' = 0
        \/ /\ outcomes' = W!Recorded(outcomes, TRUE)
           /\ evidence' = Lesser(VolumeThreshold, evidence + 1)
    BY <1>6 DEF recordSuccess, close
  <2> QED
    BY <1>2, <1>3, <2>1
<1>7. ASSUME NEW c \in Calls, recordFailure(c) PROVE WindowIsFresh'
  BY <1>3, <1>7 DEF recordFailure
<1>8. ASSUME NEW c \in Calls, settleDetached(c) PROVE WindowIsFresh'
  BY <1>1, <1>8 DEF settleDetached, breaker, history
<1>9. CASE executeRejected \/ getState \/ upstream \/ UNCHANGED vars
  BY <1>1, <1>9 DEF executeRejected, getState, upstream, vars, breaker, history
<1>10. CASE reset \/ prune
  BY <1>1, <1>2, <1>10 DEF reset, prune, fresh, getState
<1>11. CASE elapse
  BY <1>4, <1>11 DEF elapse, history
<1> QED
  BY <1>5, <1>6, <1>7, <1>8, <1>9, <1>10, <1>11 DEF Next, settle

(* The circuit trips only on outcomes recorded since it last closed: however *)
(* late the calls of an outage settle, what close() or reset() discarded is  *)
(* not held against the host again (circuit-breaker.ts:151-197).             *)
THEOREM TrippingIsFresh == Spec => TripsOnFreshEvidence
<1> DEFINE freshly == state = "closed" /\ state' = "open" => evidence' >= VolumeThreshold
<1>1. Init => RestType /\ WindowIsFresh
  <2>1. Init => RestType
    BY BreakerAssumption, WindowsStayWindows DEF BreakerAssumption, Init, RestType
  <2>2. Init => W!Total(outcomes) = 0 /\ evidence = 0
    BY Totals DEF Init
  <2> QED
    BY <2>1, <2>2 DEF WindowIsFresh
<1>2. Spec => [](RestType /\ WindowIsFresh)
  BY <1>1, RestNextOK, FreshNextOK, PTL DEF Spec
<1>3. ASSUME RestType, WindowIsFresh, Next PROVE freshly
  <2>1. SUFFICES ASSUME state = "closed", state' = "open" PROVE evidence' >= VolumeThreshold
    OBVIOUS
  <2>2. PICK c \in Calls : recordFailure(c)
    BY <1>3, <2>1 DEF Next, execute, executeClosed, executeTrial, settle, recordSuccess, close,
       settleDetached, executeRejected, getState, maybeHalfOpen, current, timeIsUp, reset, prune,
       prunable, fresh, elapse, upstream, breaker
  <2>3. trips(outcomes')
    BY <2>1, <2>2 DEF recordFailure, opensOnFailure
  <2>4. RestType' /\ WindowIsFresh'
    BY <1>3, RestNextOK, FreshNextOK
  <2>5. W!Total(outcomes') >= VolumeThreshold
    BY <2>3 DEF trips
  <2>6. W!Total(outcomes') \in Nat /\ evidence' \in Nat /\ VolumeThreshold \in Nat
    BY <2>4, Totals, BreakerAssumption DEF BreakerAssumption, RestType
  <2> QED
    BY <2>4, <2>5, <2>6 DEF WindowIsFresh
<1>4. RestType /\ WindowIsFresh /\ [Next]_vars => [freshly]_vars
  BY <1>3
<1>5. Spec => [][freshly]_vars
  BY <1>2, <1>4, PTL DEF Spec
<1> QED
  BY <1>5 DEF TripsOnFreshEvidence
==============================================================================
