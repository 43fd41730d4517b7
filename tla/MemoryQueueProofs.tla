-------------------------- MODULE MemoryQueueProofs --------------------------
(***************************************************************************)
(* Safety of the in-process queue for any number of jobs, ids, priorities, *)
(* delays, attempts and concurrency limits.                                *)
(***************************************************************************)
EXTENDS MemoryQueue, FiniteSetTheorems, TLAPS

(* What tick() may be handed by a handler: the three collections apart, and  *)
(* `active` equal to the number of pending handlers.                         *)
TickArgs(r, d, n, a, ord) ==
  /\ r \subseteq Jobs /\ d \subseteq Jobs /\ n \subseteq Jobs
  /\ r \cap d = {} /\ r \cap n = {} /\ d \cap n = {}
  /\ ord \subseteq Jobs \X Jobs
  /\ a = Cardinality(n)

(* What tick() leaves behind of the jobs `all` it was handed.                *)
TickResult(all) ==
  /\ ready' \cup delayed' \cup running' = all
  /\ ready' \cap delayed' = {} /\ ready' \cap running' = {}
  /\ delayed' \cap running' = {}
  /\ older' \subseteq Jobs \X Jobs
  /\ active' \in Nat
  /\ active' = Cardinality(running')
  /\ timer' \in Nat \cup {NoTimer}

(* The timer is re-armed to a natural number, or not at all.                 *)
LEMMA RearmType ==
  ASSUME NEW late, NEW waits, rearm(late, waits)
  PROVE  timer' \in Nat \cup {NoTimer}
  BY QueueAssumption DEF rearm, QueueAssumption

(* tick() moves jobs between its three collections, loses and duplicates     *)
(* none, and keeps `active` equal to the number of pending handlers          *)
(* (memory-queue.ts:188-211).                                                *)
LEMMA TickPlaces ==
  ASSUME NEW r, NEW d, NEW n, NEW a, NEW ord,
         TickArgs(r, d, n, a, ord), timer \in Nat \cup {NoTimer},
         tick(r, d, n, a, ord)
  PROVE  TickResult(r \cup d \cup n)
<1> USE DEF TickArgs, TickResult
<1>0. IsFiniteSet(n) /\ Cardinality(n) \in Nat
  BY QueueAssumption, FS_Subset, FS_CardinalityType DEF QueueAssumption
<1>1. CASE halted
  BY <1>0, <1>1 DEF tick
<1>2. CASE ~halted
  <2> DEFINE all == r \cup due(d)
             late == d \ due(d)
             ord2 == promoteDelayed(ord, r, due(d))
  <2>1. due(d) \subseteq d
    BY DEF due
  <2>2. PICK started \in SUBSET all :
          /\ ready' = all \ started
          /\ delayed' = late
          /\ running' = n \cup started
          /\ active' = a + Cardinality(started)
          /\ older' = {p \in ord2 : p[1] \notin started /\ p[2] \notin started}
          /\ rearm(late, all \ started)
    BY <1>2 DEF tick
  <2>3. started \subseteq Jobs /\ started \cap n = {} /\ IsFiniteSet(started)
    BY <2>1, QueueAssumption, FS_Subset DEF QueueAssumption
  <2>4. Cardinality(started) \in Nat
    BY <2>3, FS_CardinalityType
  <2>5. Cardinality(n \cup started) = Cardinality(n) + Cardinality(started)
    <3>1. Cardinality(n \cup started)
            = Cardinality(n) + Cardinality(started) - Cardinality(n \cap started)
      BY <1>0, <2>3, FS_Union
    <3>2. Cardinality(n \cap started) = 0
      BY <2>3, FS_EmptySet
    <3> QED
      BY <1>0, <2>4, <3>1, <3>2
  <2>6. timer' \in Nat \cup {NoTimer}
    BY <2>2, RearmType
  <2>7. older' \subseteq Jobs \X Jobs
    BY <2>1, <2>2 DEF promoteDelayed
  <2>8. ready' \cup delayed' \cup running' = r \cup d \cup n
    BY <2>1, <2>2
  <2>9. /\ ready' \cap delayed' = {} /\ ready' \cap running' = {}
        /\ delayed' \cap running' = {}
    BY <2>1, <2>2
  <2> QED
    BY <1>0, <2>2, <2>4, <2>5, <2>6, <2>7, <2>8, <2>9
<1> QED
  BY <1>1, <1>2

(* tick() never leaves the queue idle with runnable work, nor waiting work   *)
(* without a timer that fires in time (memory-queue.ts:193-206).             *)
LEMMA TickWakes ==
  ASSUME NEW r, NEW d, NEW n, NEW a, NEW ord,
         TickArgs(r, d, n, a, ord), job' \in [Jobs -> JobRecord], concurrency' \in Nat,
         tick(r, d, n, a, ord)
  PROVE  WorkConserving' /\ WakeUpArmed'
<1> USE DEF TickArgs
<1>1. CASE halted
  BY <1>1 DEF halted, WorkConserving, WakeUpArmed, Ticking
<1>2. CASE ~halted
  <2> DEFINE all == r \cup due(d)
             late == d \ due(d)
  <2>1. due(d) \subseteq d
    BY DEF due
  <2>2. PICK started \in SUBSET all :
          /\ Cardinality(started) = Smaller(room(a), Cardinality(all))
          /\ ready' = all \ started
          /\ delayed' = late
          /\ active' = a + Cardinality(started)
          /\ rearm(late, all \ started)
    BY <1>2 DEF tick
  <2>3. /\ IsFiniteSet(all) /\ Cardinality(all) \in Nat
        /\ Cardinality(n) \in Nat
        /\ Cardinality(started) = Cardinality(all) => started = all
    BY <2>1, QueueAssumption, FS_Subset, FS_CardinalityType DEF QueueAssumption
  <2>4. ready' = {} \/ active' >= concurrency'
    <3>1. CASE Cardinality(started) = Cardinality(all)
      BY <2>2, <2>3, <3>1
    <3>2. CASE Cardinality(started) = room(a)
      BY <2>2, <2>3, <3>2 DEF room, Larger
    <3> QED
      BY <2>2, <3>1, <3>2 DEF Smaller
  <2>5. ready' \cup delayed' # {} =>
          /\ timer' # NoTimer
          /\ \A o \in delayed' : timer' =< Larger(MinWait, job'[o].wait)
    BY <2>2, QueueAssumption DEF rearm, NoTimer, QueueAssumption
  <2> QED
    BY <2>4, <2>5 DEF WorkConserving, WakeUpArmed, waiting
<1> QED
  BY <1>1, <1>2

-----------------------------------------------------------------------------
(* The inductive invariant.  ActiveCounts needs PlacedOnce (a started job is *)
(* not already running); WorkConserving needs ActiveCounts.                  *)
IInv ==
  /\ TypeOK /\ PlacedOnce /\ ActiveCounts /\ AttemptsBounded
  /\ WorkConserving /\ WakeUpArmed

(* What a handler leaves behind apart from the collections tick() settles,   *)
(* which hold the jobs `all` between them.                                   *)
HandlerOK(all) ==
  /\ job' \in [Jobs -> JobRecord]
  /\ failed' \subseteq Jobs /\ failed' \cap all = {}
  /\ known' \subseteq Ids \cup Jobs /\ replayed' \subseteq Ids \cup Jobs
  /\ concurrency' \in Nat
  /\ handler' \in BOOLEAN /\ paused' \in BOOLEAN /\ draining' \in BOOLEAN
  /\ repeaters' \in [Repeaters -> Nat \cup {NoTimer}]
  /\ closeWait' \in Nat \cup {NoTimer}
  /\ \A o \in all \cup failed' : job'[o].attempt \in 1..job'[o].maxAttempts
  /\ \A o \in failed' : job'[o].attempt = job'[o].maxAttempts

(* A handler that ends in tick() restores the whole invariant.               *)
LEMMA HandlerThenTick ==
  ASSUME NEW r, NEW d, NEW n, NEW a, NEW ord,
         TickArgs(r, d, n, a, ord), timer \in Nat \cup {NoTimer},
         HandlerOK(r \cup d \cup n), tick(r, d, n, a, ord)
  PROVE  IInv'
<1>1. TickResult(r \cup d \cup n)
  BY TickPlaces
<1>2. WorkConserving' /\ WakeUpArmed'
  BY TickWakes DEF HandlerOK
<1>3. r \cup d \cup n \subseteq Jobs
  BY DEF TickArgs
<1>4. TypeOK'
  BY <1>1, <1>3 DEF TypeOK, HandlerOK, TickResult
<1>5. PlacedOnce'
  BY <1>1 DEF PlacedOnce, HandlerOK, TickResult
<1>6. ActiveCounts'
  BY <1>1 DEF ActiveCounts, TickResult
<1>7. AttemptsBounded'
  BY <1>1 DEF AttemptsBounded, live, HandlerOK, TickResult
<1> QED
  BY <1>2, <1>4, <1>5, <1>6, <1>7 DEF IInv

(* schedule() and tick() with an object that no other collection holds.      *)
LEMMA ScheduleThenTick ==
  ASSUME IInv, NEW o \in Jobs, o \notin inFlight,
         HandlerOK(inFlight \cup {o}), scheduleAndTick(o)
  PROVE  IInv'
<1> DEFINE late == job'[o].wait > 0
           r == IF late THEN ready ELSE ready \cup {o}
           d == IF late THEN delayed \cup {o} ELSE delayed
           ord == Pushed(older, IF late THEN delayed ELSE ready, {o})
<1>1. TickArgs(r, d, running, active, ord)
  <2>1. ord \subseteq Jobs \X Jobs
    BY DEF Pushed, IInv, TypeOK
  <2> QED
    BY <2>1 DEF TickArgs, IInv, TypeOK, PlacedOnce, ActiveCounts, inFlight, waiting
<1>2. r \cup d \cup running = inFlight \cup {o}
  BY DEF inFlight, waiting
<1>3. tick(r, d, running, active, ord)
  BY DEF scheduleAndTick
<1>4. timer \in Nat \cup {NoTimer}
  BY DEF IInv, TypeOK
<1> HIDE DEF r, d, ord
<1> QED
  BY <1>1, <1>2, <1>3, <1>4, HandlerThenTick

(* The part of add() after the deduplication check.                          *)
LEMMA AcceptOK ==
  ASSUME IInv, NEW o, NEW id \in Ids \cup Jobs, NEW delay \in Nat,
         NEW priority \in Nat, NEW attempts \in Nat \ {0},
         accept(o, id, delay, priority, attempts),
         repeaters' \in [Repeaters -> Nat \cup {NoTimer}]
  PROVE  IInv'
<1>1. o \in Jobs /\ o \notin inFlight /\ o \notin failed
  BY DEF accept, free, live, inFlight, waiting
<1>2. job' \in [Jobs -> JobRecord]
  BY <1>1 DEF accept, IInv, TypeOK, JobRecord
<1>3. /\ job'[o].attempt = 1 /\ job'[o].maxAttempts = attempts
      /\ \A p \in Jobs \ {o} : job'[p] = job[p]
  BY <1>1 DEF accept, IInv, TypeOK
<1>4. \A p \in inFlight \cup {o} \cup failed' : job'[p].attempt \in 1..job'[p].maxAttempts
  BY <1>1, <1>3 DEF accept, IInv, AttemptsBounded, TypeOK, live, inFlight, waiting
<1>5. \A p \in failed' : job'[p].attempt = job'[p].maxAttempts
  BY <1>1, <1>3 DEF accept, IInv, AttemptsBounded, TypeOK
<1>6. HandlerOK(inFlight \cup {o})
  BY <1>1, <1>2, <1>4, <1>5
     DEF HandlerOK, accept, flags, IInv, TypeOK, PlacedOnce, inFlight, waiting
<1> QED
  BY <1>1, <1>6, ScheduleThenTick DEF accept

(* A job put back for another run: only its attempt and its wait change.     *)
Reset(rec, attempt, wait) == [rec EXCEPT !.attempt = attempt, !.wait = wait]

(* Such a record is still a job record.                                      *)
LEMMA ResetOK ==
  ASSUME NEW rec \in JobRecord, NEW attempt \in Nat, NEW w \in Nat
  PROVE  /\ Reset(rec, attempt, w) \in JobRecord
         /\ Reset(rec, attempt, w).attempt = attempt
         /\ Reset(rec, attempt, w).maxAttempts = rec.maxAttempts
  BY DEF Reset, JobRecord

(* A back-off is a natural number of time units.                             *)
LEMMA BackoffType ==
  ASSUME NEW attempt PROVE jobBackoff(attempt) \subseteq Nat
<1> DEFINE exponential == IF BaseBackoff * 2^(attempt - 1) < MaxBackoff
                            THEN BaseBackoff * 2^(attempt - 1) ELSE MaxBackoff
<1>1. jobBackoff(attempt) = {d \in 0..MaxBackoff : exponential =< 2 * d /\ d =< exponential}
  BY DEF jobBackoff
<1> HIDE DEF exponential
<1> QED
  BY <1>1, QueueAssumption DEF QueueAssumption

(* The queue is empty and idle when it is constructed.                       *)
LEMMA InitOK == Init => IInv
<1> SUFFICES ASSUME Init PROVE IInv
  OBVIOUS
<1>1. TypeOK
  BY DEF Init, TypeOK, Garbage, JobRecord, NoTimer
<1>2. ActiveCounts
  BY FS_EmptySet DEF Init, ActiveCounts
<1>3. PlacedOnce /\ AttemptsBounded
  BY DEF Init, PlacedOnce, AttemptsBounded, live
<1>4. WorkConserving /\ WakeUpArmed
  BY DEF Init, WorkConserving, WakeUpArmed, Ticking
<1> QED
  BY <1>1, <1>2, <1>3, <1>4 DEF IInv

(* The three ways run() settles: the job leaves `running`, `active` drops by *)
(* one, and the finally block ticks.                                         *)
LEMMA SettleOK ==
  ASSUME IInv, NEW o \in Jobs, o \in running,
         runSucceeds(o) \/ runRetries(o) \/ runDeadLetters(o)
  PROVE  IInv'
<1> USE DEF IInv
<1>1. active - 1 = Cardinality(running \ {o})
  BY QueueAssumption, FS_Subset, FS_RemoveElement DEF QueueAssumption, ActiveCounts, TypeOK
<1>2. timer \in Nat \cup {NoTimer}
  BY DEF TypeOK
<1>3. job[o].attempt \in 1..job[o].maxAttempts /\ job[o] \in JobRecord
  BY DEF AttemptsBounded, live, TypeOK
<1>4. CASE runSucceeds(o)
  <2>1. TickArgs(ready, delayed, running \ {o}, active - 1, older)
    BY <1>1 DEF TickArgs, TypeOK, PlacedOnce
  <2>2. job' \in [Jobs -> JobRecord]
    BY <1>4 DEF runSucceeds, TypeOK, JobRecord, Garbage
  <2>3. \A p \in Jobs \ {o} : job'[p] = job[p]
    BY <1>4 DEF runSucceeds, TypeOK
  <2>4. HandlerOK(ready \cup delayed \cup (running \ {o}))
    BY <1>4, <2>2, <2>3
       DEF HandlerOK, runSucceeds, flags, TypeOK, PlacedOnce, AttemptsBounded, live
  <2> QED
    BY <1>2, <1>4, <2>1, <2>4, HandlerThenTick DEF runSucceeds
<1>5. CASE runRetries(o)
  <2>1. TickArgs(ready, delayed \cup {o}, running \ {o}, active - 1,
                 Pushed(older, delayed, {o}))
    BY <1>1 DEF TickArgs, TypeOK, PlacedOnce, Pushed
  <2>2. PICK b \in Nat :
          job' = [job EXCEPT ![o] = [@ EXCEPT !.attempt = job[o].attempt + 1, !.wait = b]]
    BY <1>5, BackoffType DEF runRetries
  <2> DEFINE next == Reset(job[o], job[o].attempt + 1, b)
  <2>3. job' \in [Jobs -> JobRecord] /\ job'[o].attempt \in 1..job'[o].maxAttempts
    <3>1. job' = [job EXCEPT ![o] = next]
      BY <2>2 DEF Reset
    <3>2. job[o].attempt + 1 \in 1..job[o].maxAttempts
      <4>1. job[o].attempt < job[o].maxAttempts
        BY <1>5 DEF runRetries, mayRetry
      <4>2. job[o].attempt \in Nat /\ job[o].maxAttempts \in Nat
        BY <1>3 DEF JobRecord
      <4> QED
        BY <4>1, <4>2
    <3>3. /\ next \in JobRecord /\ next.attempt = job[o].attempt + 1
          /\ next.maxAttempts = job[o].maxAttempts
      <4>1. job[o].attempt + 1 \in Nat
        BY <1>3 DEF JobRecord
      <4> QED
        BY <1>3, <4>1, ResetOK
    <3> HIDE DEF next
    <3>4. job' \in [Jobs -> JobRecord] /\ job'[o] = next
      BY <3>1, <3>3 DEF TypeOK
    <3> QED
      BY <3>2, <3>3, <3>4
  <2>4. \A p \in Jobs \ {o} : job'[p] = job[p]
    BY <2>2 DEF TypeOK
  <2>5. HandlerOK(ready \cup (delayed \cup {o}) \cup (running \ {o}))
    BY <1>5, <2>3, <2>4
       DEF HandlerOK, runRetries, flags, TypeOK, PlacedOnce, AttemptsBounded, live
  <2> QED
    BY <1>2, <1>5, <2>1, <2>5, HandlerThenTick DEF runRetries
<1>6. CASE runDeadLetters(o)
  <2>1. TickArgs(ready, delayed, running \ {o}, active - 1, Pushed(older, failed, {o}))
    BY <1>1 DEF TickArgs, TypeOK, PlacedOnce, Pushed
  <2>2. job[o].attempt = job[o].maxAttempts
    BY <1>3, <1>6 DEF runDeadLetters, mayRetry, JobRecord
  <2>3. HandlerOK(ready \cup delayed \cup (running \ {o}))
    BY <1>6, <2>2
       DEF HandlerOK, runDeadLetters, flags, TypeOK, PlacedOnce, AttemptsBounded, live
  <2> QED
    BY <1>2, <1>6, <2>1, <2>3, HandlerThenTick DEF runDeadLetters
<1> QED
  BY <1>4, <1>5, <1>6

(* Every step of the queue preserves the invariant.                          *)
LEMMA NextOK == IInv /\ [Next]_vars => IInv'
<1> SUFFICES ASSUME IInv, [Next]_vars PROVE IInv'
  OBVIOUS
<1> DEFINE all == ready \cup delayed \cup running
<1>0. /\ TickArgs(ready, delayed, running, active, older)
      /\ timer \in Nat \cup {NoTimer}
  BY DEF TickArgs, IInv, TypeOK, PlacedOnce, ActiveCounts
<1>1. ASSUME NEW o \in Jobs, NEW d \in Delays, NEW p \in Priorities, NEW a \in Attempts,
             add(o, d, p, a)
      PROVE  IInv'
  <2>1. d \in Nat /\ p \in Nat /\ a \in Nat \ {0}
    BY QueueAssumption DEF QueueAssumption
  <2>2. repeaters' \in [Repeaters -> Nat \cup {NoTimer}]
    BY <1>1 DEF add, addAnonymous, addWithId, IInv, TypeOK
  <2> QED
    BY <1>1, <2>1, <2>2, AcceptOK DEF add, addAnonymous, addWithId
<1>2. ASSUME NEW c \in Concurrencies, process(c) PROVE IInv'
  <2>1. HandlerOK(all)
    BY <1>2, QueueAssumption
       DEF HandlerOK, process, IInv, TypeOK, PlacedOnce, AttemptsBounded, live, QueueAssumption
  <2> QED
    BY <1>0, <1>2, <2>1, HandlerThenTick DEF process
<1>3. ASSUME NEW r \in Repeaters, repeatFires(r) PROVE IInv'
  <2>1. repeaters' \in [Repeaters -> Nat \cup {NoTimer}]
    BY <1>3, QueueAssumption DEF repeatFires, IInv, TypeOK, QueueAssumption
  <2> QED
    BY <1>3, <2>1, AcceptOK, QueueAssumption DEF repeatFires, QueueAssumption
<1>4. ASSUME NEW r \in Repeaters, NEW i \in BOOLEAN, repeat(r, i) PROVE IInv'
  <2>1. repeaters' \in [Repeaters -> Nat \cup {NoTimer}]
    BY <1>4, QueueAssumption DEF repeat, IInv, TypeOK, QueueAssumption
  <2>2. CASE \E o \in Jobs, p \in Priorities, a \in Attempts : accept(o, o, 0, p, a)
    BY <2>1, <2>2, AcceptOK, QueueAssumption DEF QueueAssumption
  <2>3. CASE UNCHANGED <<job, ready, delayed, running, failed, older, known, active,
                         flags, timer, closeWait, replayed>>
    BY <2>1, <2>3 DEF flags, IInv, TypeOK, PlacedOnce, ActiveCounts, AttemptsBounded,
       WorkConserving, WakeUpArmed, Ticking, live, waiting
  <2> QED
    BY <1>4, <2>2, <2>3 DEF repeat
<1>5. CASE timerFires
  <2>1. CASE halted
    BY <1>5, <2>1 DEF timerFires, halted, flags, IInv, TypeOK, PlacedOnce, ActiveCounts,
       AttemptsBounded, WorkConserving, WakeUpArmed, Ticking, live, tick
  <2>2. CASE ~halted
    <3>1. HandlerOK(all)
      BY <1>5 DEF HandlerOK, timerFires, flags, IInv, TypeOK, PlacedOnce, AttemptsBounded, live
    <3>2. tick(ready, delayed, running, active, older)
      BY <1>5, <2>2 DEF timerFires, halted, flags
    <3> QED
      BY <1>0, <3>1, <3>2, HandlerThenTick
  <2> QED
    BY <2>1, <2>2
<1>6. ASSUME NEW o \in Jobs, runSucceeds(o) \/ runRetries(o) \/ runDeadLetters(o)
      PROVE  IInv'
  BY <1>6, SettleOK DEF runSucceeds, runRetries, runDeadLetters
<1>7. ASSUME NEW o \in Jobs, retryFailed(o) PROVE IInv'
  <2>1. o \in failed /\ o \notin inFlight
    BY <1>7 DEF retryFailed, IInv, PlacedOnce, inFlight, waiting
  <2>2. /\ job' \in [Jobs -> JobRecord]
        /\ job'[o].attempt = 1 /\ job'[o].maxAttempts = job[o].maxAttempts
        /\ \A p \in Jobs \ {o} : job'[p] = job[p]
    <3>1. job' = [job EXCEPT ![o] = Reset(job[o], 1, 0)]
      BY <1>7 DEF retryFailed, Reset
    <3> QED
      BY <3>1, ResetOK DEF IInv, TypeOK
  <2>3. job[o] \in JobRecord /\ job[o].attempt \in 1..job[o].maxAttempts
    BY <2>1 DEF IInv, TypeOK, AttemptsBounded, live
  <2>4. \A p \in inFlight \cup {o} \cup failed' : job'[p].attempt \in 1..job'[p].maxAttempts
    BY <1>7, <2>2, <2>3
       DEF retryFailed, JobRecord, IInv, TypeOK, AttemptsBounded, live, inFlight, waiting
  <2>5. HandlerOK(inFlight \cup {o})
    BY <1>7, <2>1, <2>2, <2>3, <2>4
       DEF HandlerOK, retryFailed, flags, JobRecord, IInv, TypeOK, PlacedOnce,
           AttemptsBounded, inFlight, waiting
  <2> QED
    BY <1>7, <2>1, <2>5, ScheduleThenTick DEF retryFailed
<1>8. CASE pause
  BY <1>8 DEF pause, IInv, TypeOK, PlacedOnce, ActiveCounts, AttemptsBounded,
     WorkConserving, WakeUpArmed, Ticking, live
<1>9. CASE resume
  <2>1. HandlerOK(all)
    BY <1>9 DEF HandlerOK, resume, IInv, TypeOK, PlacedOnce, AttemptsBounded, live
  <2> QED
    BY <1>0, <1>9, <2>1, HandlerThenTick DEF resume
<1>10. CASE close
  BY <1>10, QueueAssumption
     DEF close, IInv, TypeOK, PlacedOnce, ActiveCounts, AttemptsBounded, WorkConserving,
         WakeUpArmed, Ticking, live, QueueAssumption
<1>11. CASE closeReturns
  BY <1>11 DEF closeReturns, flags, IInv, TypeOK, PlacedOnce, ActiveCounts, AttemptsBounded,
     WorkConserving, WakeUpArmed, Ticking, live, waiting
<1>12. CASE elapse
  <2>1. /\ job' \in [Jobs -> JobRecord]
        /\ \A o \in Jobs : /\ job'[o].attempt = job[o].attempt
                            /\ job'[o].maxAttempts = job[o].maxAttempts
        /\ \A o \in delayed : job'[o].wait = CountDown(job[o].wait)
    BY <1>12 DEF elapse, CountDown, IInv, TypeOK, JobRecord
  <2>2. TypeOK' /\ PlacedOnce' /\ ActiveCounts' /\ WorkConserving'
    BY <1>12, <2>1 DEF elapse, flags, CountDown, NoTimer, IInv, TypeOK, PlacedOnce,
       ActiveCounts, WorkConserving, Ticking
  <2>3. AttemptsBounded'
    BY <1>12, <2>1 DEF elapse, IInv, TypeOK, AttemptsBounded, live
  <2>4. WakeUpArmed'
    <3>1. \A o \in delayed : job[o].wait \in Nat
      BY DEF IInv, TypeOK, JobRecord
    <3> QED
      BY <1>12, <2>1, <3>1, QueueAssumption
         DEF elapse, flags, CountDown, Larger, NoTimer, IInv, TypeOK, WakeUpArmed, Ticking,
             waiting, QueueAssumption
  <2> QED
    BY <2>2, <2>3, <2>4 DEF IInv
<1>13. CASE UNCHANGED vars
  BY <1>13 DEF vars, IInv, TypeOK, PlacedOnce, ActiveCounts, AttemptsBounded,
     WorkConserving, WakeUpArmed, Ticking, live, waiting
<1> QED
  BY <1>1, <1>2, <1>3, <1>4, <1>5, <1>6, <1>7, <1>8, <1>9, <1>10, <1>11, <1>12, <1>13 DEF Next

(* The inductive invariant holds in every reachable state: type correctness, *)
(* each job in one collection, `active` exact, attempts within their limit,  *)
(* no idle slot beside a ready job, and no lost wake-up (memory-queue.ts).   *)
THEOREM QueueInvariant == Spec => []QueueConsistent
<1>1. Spec => []IInv
  BY InitOK, NextOK, PTL DEF Spec
<1>2. IInv => QueueConsistent
  BY DEF IInv, QueueConsistent
<1> QED
  BY <1>1, <1>2, PTL

-----------------------------------------------------------------------------
(* The delay of every ready job is over, and that of every job of a set is   *)
(* over after the step.                                                      *)
ReadyDue == \A o \in ready : job[o].wait = 0
Due(set) == \A o \in set : job'[o].wait = 0

(* Nothing was put before a job that was ready.                              *)
Follows(r, ord) ==
  /\ ready \subseteq r
  /\ \A s \in r, t \in ready : <<s, t>> \in ord => s \in ready /\ <<s, t>> \in older

(* What is common to the steps of the queue: either no collection changes,   *)
(* or one tick() settles what the handler kept, which is everything that was *)
(* not running; a job is made ready only when its delay is over; close() is  *)
(* never undone.                                                             *)
StepShape ==
  /\ draining => draining'
  /\ \/ UNCHANGED <<ready, delayed, running, failed>> /\ (ReadyDue => Due(ready))
     \/ \E r, d, n, a, ord :
          /\ TickArgs(r, d, n, a, ord) /\ tick(r, d, n, a, ord)
          /\ n \subseteq running /\ (ReadyDue => Due(r)) /\ Follows(r, ord)
          /\ ready \cup delayed \cup failed \subseteq r \cup d \cup n \cup failed'

(* A job put at the end of a collection is put before no ready job.          *)
LEMMA StaysFirst ==
  ASSUME NEW o, o \notin ready, NEW members
  PROVE  /\ Follows(ready, older)
         /\ Follows(ready, Pushed(older, members, {o}))
         /\ Follows(ready \cup {o}, Pushed(older, members, {o}))
BY DEF Follows, Pushed

(* schedule() and tick() have the common shape.                              *)
LEMMA ScheduleShape ==
  ASSUME IInv, NEW o \in Jobs, o \notin inFlight, scheduleAndTick(o),
         UNCHANGED draining, failed \subseteq failed' \cup {o},
         job' \in [Jobs -> JobRecord], \A p \in Jobs \ {o} : job'[p] = job[p]
  PROVE  StepShape
<1> DEFINE late == job'[o].wait > 0
           r == IF late THEN ready ELSE ready \cup {o}
           d == IF late THEN delayed \cup {o} ELSE delayed
           ord == Pushed(older, IF late THEN delayed ELSE ready, {o})
<1>1. TickArgs(r, d, running, active, ord)
  <2>1. ord \subseteq Jobs \X Jobs
    BY DEF Pushed, IInv, TypeOK
  <2> QED
    BY <2>1 DEF TickArgs, IInv, TypeOK, PlacedOnce, ActiveCounts, inFlight, waiting
<1>2. ready \cup delayed \cup failed \subseteq r \cup d \cup running \cup failed'
  OBVIOUS
<1>3. tick(r, d, running, active, ord)
  BY DEF scheduleAndTick
<1>4. ReadyDue => Due(r)
  <2>1. job'[o].wait \in Nat
    BY DEF JobRecord
  <2>2. ready \subseteq Jobs \ {o}
    BY DEF IInv, TypeOK, inFlight, waiting
  <2> QED
    BY <2>1, <2>2 DEF ReadyDue, Due
<1>5. Follows(r, ord)
  BY StaysFirst DEF inFlight, waiting
<1> HIDE DEF r, d, ord
<1> QED
  BY <1>1, <1>2, <1>3, <1>4, <1>5 DEF StepShape

(* So has every step of the queue.                                           *)
LEMMA NextShape == IInv /\ IInv' /\ Next => StepShape
<1> SUFFICES ASSUME IInv, IInv', Next PROVE StepShape
  OBVIOUS
<1>0. /\ TickArgs(ready, delayed, running, active, older)
      /\ job \in [Jobs -> JobRecord] /\ job' \in [Jobs -> JobRecord] /\ ready \subseteq Jobs
      /\ UNCHANGED job => (ReadyDue => Due(ready))
      /\ Follows(ready, older)
  BY DEF TickArgs, IInv, TypeOK, PlacedOnce, ActiveCounts, ReadyDue, Due, Follows
<1>1. ASSUME NEW o, NEW id, NEW d, NEW p, NEW a, accept(o, id, d, p, a) PROVE StepShape
  <2>1. o \in Jobs /\ o \notin inFlight
    BY <1>1 DEF accept, free, live, inFlight, waiting
  <2>2. \A q \in Jobs \ {o} : job'[q] = job[q]
    BY <1>0, <1>1, <2>1 DEF accept
  <2> QED
    BY <1>0, <1>1, <2>1, <2>2, ScheduleShape DEF accept, flags
<1>2. ASSUME NEW c \in Concurrencies, process(c) PROVE StepShape
  BY <1>0, <1>2 DEF process, StepShape
<1>3. CASE timerFires
  BY <1>0, <1>3 DEF timerFires, flags, StepShape
<1>4. ASSUME NEW o \in Jobs, runSucceeds(o) \/ runRetries(o) \/ runDeadLetters(o)
      PROVE  StepShape
  <2>1. o \in running /\ active - 1 = Cardinality(running \ {o})
    BY <1>4, QueueAssumption, FS_Subset, FS_RemoveElement
       DEF QueueAssumption, IInv, ActiveCounts, TypeOK, runSucceeds, runRetries, runDeadLetters
  <2>5. o \notin ready
    BY <2>1 DEF IInv, PlacedOnce
  <2>6. \A members : Follows(ready, Pushed(older, members, {o}))
    BY <2>5, StaysFirst
  <2>0. ReadyDue => Due(ready)
    <3>1. o \notin ready
      BY <2>5
    <3>2. \A q \in Jobs \ {o} : job'[q] = job[q]
      BY <1>0, <1>4 DEF runSucceeds, runRetries, runDeadLetters
    <3> QED
      BY <1>0, <3>1, <3>2 DEF ReadyDue, Due
  <2>2. CASE runSucceeds(o)
    <3>1. TickArgs(ready, delayed, running \ {o}, active - 1, older)
      BY <2>1 DEF TickArgs, IInv, TypeOK, PlacedOnce
    <3> QED
      BY <1>0, <2>0, <2>2, <3>1 DEF runSucceeds, flags, StepShape
  <2>3. CASE runRetries(o)
    <3>1. TickArgs(ready, delayed \cup {o}, running \ {o}, active - 1,
                   Pushed(older, delayed, {o}))
      BY <2>1 DEF TickArgs, IInv, TypeOK, PlacedOnce, Pushed
    <3>2. tick(ready, delayed \cup {o}, running \ {o}, active - 1, Pushed(older, delayed, {o}))
      BY <2>3 DEF runRetries
    <3>3. failed' = failed /\ draining' = draining
      BY <2>3 DEF runRetries, flags
    <3> QED
      BY <2>0, <2>6, <3>1, <3>2, <3>3 DEF StepShape
  <2>4. CASE runDeadLetters(o)
    <3>1. TickArgs(ready, delayed, running \ {o}, active - 1, Pushed(older, failed, {o}))
      BY <2>1 DEF TickArgs, IInv, TypeOK, PlacedOnce, Pushed
    <3> QED
      BY <2>0, <2>4, <2>6, <3>1 DEF runDeadLetters, flags, StepShape
  <2> QED
    BY <1>4, <2>2, <2>3, <2>4
<1>5. ASSUME NEW o \in Jobs, retryFailed(o) PROVE StepShape
  <2>1. o \notin inFlight
    BY <1>5 DEF retryFailed, IInv, PlacedOnce, inFlight, waiting
  <2>2. \A q \in Jobs \ {o} : job'[q] = job[q]
    BY <1>0, <1>5 DEF retryFailed
  <2> QED
    BY <1>0, <1>5, <2>1, <2>2, ScheduleShape DEF retryFailed, flags
<1>6. CASE resume
  BY <1>0, <1>6 DEF resume, StepShape
<1>7. CASE pause \/ close \/ closeReturns
  BY <1>0, <1>7 DEF pause, close, closeReturns, flags, StepShape
<1>11. CASE elapse
  <2>1. ReadyDue => Due(ready)
    BY <1>0, <1>11 DEF elapse, ReadyDue, Due, IInv, PlacedOnce
  <2> QED
    BY <1>11, <2>1 DEF elapse, flags, StepShape
<1>8. ASSUME NEW r \in Repeaters, NEW i \in BOOLEAN, repeat(r, i) PROVE StepShape
  BY <1>0, <1>1, <1>8 DEF repeat, flags, StepShape
<1>9. ASSUME NEW r \in Repeaters, repeatFires(r) PROVE StepShape
  BY <1>1, <1>9 DEF repeatFires
<1>10. ASSUME NEW o \in Jobs, NEW d \in Delays, NEW p \in Priorities, NEW a \in Attempts,
              add(o, d, p, a)
       PROVE  StepShape
  BY <1>1, <1>10 DEF add, addAnonymous, addWithId
<1> QED
  BY <1>2, <1>3, <1>4, <1>5, <1>6, <1>7, <1>8, <1>9, <1>10, <1>11 DEF Next

(* tick() starts nothing once draining, and never beyond the limit.          *)
LEMMA TickStarts ==
  ASSUME NEW r, NEW d, NEW n, NEW a, NEW ord,
         TickArgs(r, d, n, a, ord), concurrency' \in Nat, tick(r, d, n, a, ord)
  PROVE  /\ draining' => running' = n
         /\ running' # n => Cardinality(running') =< concurrency'
<1> USE DEF TickArgs
<1>0. IsFiniteSet(n) /\ Cardinality(n) \in Nat
  BY QueueAssumption, FS_Subset, FS_CardinalityType DEF QueueAssumption
<1>1. CASE halted
  BY <1>1 DEF tick
<1>2. CASE ~halted
  <2> DEFINE all == r \cup due(d)
  <2>1. due(d) \subseteq d
    BY DEF due
  <2>2. PICK started \in SUBSET all :
          /\ Cardinality(started) = Smaller(room(a), Cardinality(all))
          /\ running' = n \cup started
    BY <1>2 DEF tick
  <2>3. IsFiniteSet(started) /\ IsFiniteSet(all) /\ started \cap n = {}
    BY <2>1, QueueAssumption, FS_Subset DEF QueueAssumption
  <2>4. Cardinality(started) \in Nat /\ Cardinality(all) \in Nat
    BY <2>3, FS_CardinalityType
  <2>5. Cardinality(running') = Cardinality(n) + Cardinality(started)
    <3>1. Cardinality(n \cup started)
            = Cardinality(n) + Cardinality(started) - Cardinality(n \cap started)
      BY <1>0, <2>3, FS_Union
    <3>2. Cardinality(n \cap started) = 0
      BY <2>3, FS_EmptySet
    <3> QED
      BY <1>0, <2>2, <2>4, <3>1, <3>2
  <2>6. running' # n => Cardinality(started) > 0
    BY <2>2, <2>3, <2>4, FS_EmptySet
  <2>7. Cardinality(started) > 0 => a + Cardinality(started) =< concurrency'
    BY <1>0, <2>2, <2>4 DEF room, Larger, Smaller
  <2> QED
    BY <1>2, <2>5, <2>6, <2>7 DEF halted
<1> QED
  BY <1>1, <1>2

(* No step drops a job that waits or is dead-lettered, starts a handler once *)
(* close() has begun, or starts one beyond the limit given to process().     *)
THEOREM QueueSteps == Spec => StepsAllowed
<1> DEFINE kept == \A o \in live \ live' : o \in running
           closed == draining => running' \subseteq running
           bounded == running' \ running # {} => Cardinality(running') =< concurrency'
<1>1. Spec => []IInv
  BY InitOK, NextOK, PTL DEF Spec
<1>2. ASSUME IInv, IInv', StepShape PROVE kept /\ closed /\ bounded
  <2>1. CASE UNCHANGED <<ready, delayed, running, failed>>
    BY <2>1 DEF live
  <2>2. CASE \E r, d, n, a, ord :
               /\ TickArgs(r, d, n, a, ord) /\ tick(r, d, n, a, ord)
               /\ n \subseteq running
               /\ ready \cup delayed \cup failed \subseteq r \cup d \cup n \cup failed'
    <3>1. PICK r, d, n, a, ord :
               /\ TickArgs(r, d, n, a, ord) /\ tick(r, d, n, a, ord)
               /\ n \subseteq running
               /\ ready \cup delayed \cup failed \subseteq r \cup d \cup n \cup failed'
      BY <2>2
    <3>2. timer \in Nat \cup {NoTimer} /\ concurrency' \in Nat
      BY <1>2 DEF IInv, TypeOK
    <3>3. TickResult(r \cup d \cup n)
      BY <3>1, <3>2, TickPlaces
    <3>4. kept
      BY <3>1, <3>3 DEF TickResult, live
    <3>5. (draining' => running' = n) /\ (running' # n => Cardinality(running') =< concurrency')
      BY <3>1, <3>2, TickStarts
    <3> QED
      BY <1>2, <3>1, <3>4, <3>5 DEF StepShape
  <2> QED
    BY <1>2, <2>1, <2>2 DEF StepShape
<1>3. IInv /\ IInv' /\ [Next]_vars => [kept /\ closed /\ bounded]_vars
  BY <1>2, NextShape
<1>4. Spec => [][kept /\ closed /\ bounded]_vars
  BY <1>1, <1>3, PTL DEF Spec
<1> QED
  BY <1>4, PTL DEF StepsAllowed, NothingLost, NoStartAfterClose, StartsWithinLimit

-----------------------------------------------------------------------------
(* Deduplication.  What tick() settles is what the handler gave it, so a     *)
(* step is known by what it adds to the jobs in flight, or takes from them.  *)

(* tick() leaves in flight what it was handed.                               *)
LEMMA TickFlight ==
  ASSUME NEW r, NEW d, NEW n, NEW a, NEW ord, TickArgs(r, d, n, a, ord),
         timer \in Nat \cup {NoTimer}, tick(r, d, n, a, ord)
  PROVE  inFlight' = r \cup d \cup n
  BY TickPlaces DEF TickResult, inFlight, waiting

(* A job that is scheduled is in flight from then on.                        *)
LEMMA ScheduleFlight ==
  ASSUME IInv, NEW o \in Jobs, o \notin inFlight, scheduleAndTick(o)
  PROVE  inFlight' = inFlight \cup {o}
<1> DEFINE late == job'[o].wait > 0
           r == IF late THEN ready ELSE ready \cup {o}
           d == IF late THEN delayed \cup {o} ELSE delayed
           ord == Pushed(older, IF late THEN delayed ELSE ready, {o})
<1>1. TickArgs(r, d, running, active, ord)
  <2>1. ord \subseteq Jobs \X Jobs
    BY DEF Pushed, IInv, TypeOK
  <2> QED
    BY <2>1 DEF TickArgs, IInv, TypeOK, PlacedOnce, ActiveCounts, inFlight, waiting
<1>2. r \cup d \cup running = inFlight \cup {o}
  BY DEF inFlight, waiting
<1>3. tick(r, d, running, active, ord) /\ timer \in Nat \cup {NoTimer}
  BY DEF scheduleAndTick, IInv, TypeOK
<1> HIDE DEF r, d, ord
<1> QED
  BY <1>1, <1>2, <1>3, TickFlight

(* The settling of a handler: its job leaves, or goes on with its id.        *)
LEMMA SettleFlight ==
  ASSUME IInv, NEW o \in Jobs
  PROVE  /\ runSucceeds(o) \/ runDeadLetters(o) => inFlight' = inFlight \ {o}
         /\ runRetries(o) => inFlight' = inFlight
<1> USE DEF IInv
<1>1. o \in running => active - 1 = Cardinality(running \ {o})
  BY QueueAssumption, FS_Subset, FS_RemoveElement DEF QueueAssumption, ActiveCounts, TypeOK
<1>2. timer \in Nat \cup {NoTimer}
  BY DEF TypeOK
<1>3. ASSUME o \in running, NEW ord \in SUBSET (Jobs \X Jobs)
      PROVE  /\ TickArgs(ready, delayed, running \ {o}, active - 1, ord)
             /\ TickArgs(ready, delayed \cup {o}, running \ {o}, active - 1, ord)
  BY <1>1, <1>3 DEF TickArgs, TypeOK, PlacedOnce
<1>4. /\ older \in SUBSET (Jobs \X Jobs)
      /\ o \in running => /\ Pushed(older, delayed, {o}) \in SUBSET (Jobs \X Jobs)
                          /\ Pushed(older, failed, {o}) \in SUBSET (Jobs \X Jobs)
  BY DEF TypeOK, Pushed
<1>5. o \in running => /\ ready \cup delayed \cup (running \ {o}) = inFlight \ {o}
                      /\ ready \cup (delayed \cup {o}) \cup (running \ {o}) = inFlight
  BY DEF PlacedOnce, inFlight, waiting
<1>6. ASSUME runSucceeds(o) PROVE inFlight' = inFlight \ {o}
  <2>1. o \in running /\ tick(ready, delayed, running \ {o}, active - 1, older)
    BY <1>6 DEF runSucceeds
  <2>2. TickArgs(ready, delayed, running \ {o}, active - 1, older)
    BY <1>3, <1>4, <2>1
  <2> QED
    BY <1>2, <1>5, <2>1, <2>2, TickFlight
<1>7. ASSUME runDeadLetters(o) PROVE inFlight' = inFlight \ {o}
  <2>1. /\ o \in running
        /\ tick(ready, delayed, running \ {o}, active - 1, Pushed(older, failed, {o}))
    BY <1>7 DEF runDeadLetters
  <2>2. TickArgs(ready, delayed, running \ {o}, active - 1, Pushed(older, failed, {o}))
    BY <1>3, <1>4, <2>1
  <2> QED
    BY <1>2, <1>5, <2>1, <2>2, TickFlight
<1>8. ASSUME runRetries(o) PROVE inFlight' = inFlight
  <2>1. /\ o \in running
        /\ tick(ready, delayed \cup {o}, running \ {o}, active - 1, Pushed(older, delayed, {o}))
    BY <1>8 DEF runRetries
  <2>2. TickArgs(ready, delayed \cup {o}, running \ {o}, active - 1, Pushed(older, delayed, {o}))
    BY <1>3, <1>4, <2>1
  <2> QED
    BY <1>2, <1>5, <2>1, <2>2, TickFlight
<1> QED
  BY <1>6, <1>7, <1>8

(* What a step does to the ids: it accepts an unused one, forgets that of a  *)
(* job that leaves, marks one as replayed, or leaves them as they are.       *)
IdsKept ==
  /\ known' = known /\ inFlight' = inFlight /\ replayed' = replayed
  /\ \A p \in inFlight : job'[p].id = job[p].id
IdAccepted(o, id) ==
  /\ known' = known \cup {id} /\ inFlight' = inFlight \cup {o} /\ replayed' = replayed
  /\ o \notin inFlight /\ id \in Ids => id \notin known
  /\ job'[o].id = id /\ \A p \in inFlight : job'[p].id = job[p].id
IdForgotten(o) ==
  /\ o \in inFlight
  /\ known' = known \ {job[o].id} /\ inFlight' = inFlight \ {o} /\ replayed' = replayed
  /\ \A p \in inFlight \ {o} : job'[p].id = job[p].id
IdReplayed(o) ==
  /\ known' = known /\ inFlight' = inFlight \cup {o} /\ replayed' = replayed \cup {job[o].id}
  /\ job'[o].id = job[o].id /\ \A p \in inFlight : job'[p].id = job[p].id

(* Each of these keeps the deduplication exact.                              *)
LEMMA IdStepOK ==
  ASSUME DedupExact,
         \/ IdsKept \/ \E o, id : IdAccepted(o, id)
         \/ \E o : IdForgotten(o) \/ IdReplayed(o)
  PROVE  DedupExact'
<1>1. CASE IdsKept
  BY <1>1 DEF IdsKept, DedupExact
<1>2. ASSUME NEW o, NEW id, IdAccepted(o, id) PROVE DedupExact'
  BY <1>2 DEF IdAccepted, DedupExact
<1>3. ASSUME NEW o, IdForgotten(o) PROVE DedupExact'
  BY <1>3 DEF IdForgotten, DedupExact
<1>4. ASSUME NEW o, IdReplayed(o) PROVE DedupExact'
  BY <1>4 DEF IdReplayed, DedupExact
<1> QED
  BY <1>1, <1>2, <1>3, <1>4

(* add() takes the id of the job it accepts.                                 *)
LEMMA AcceptIds ==
  ASSUME IInv, NEW o, NEW id \in Ids \cup Jobs, NEW delay, NEW priority, NEW attempts,
         accept(o, id, delay, priority, attempts), id \in Ids => id \notin known
  PROVE  IdAccepted(o, id)
<1>1. o \in Jobs /\ o \notin inFlight
  BY DEF accept, free, live, inFlight, waiting
<1>2. inFlight' = inFlight \cup {o}
  BY <1>1, ScheduleFlight DEF accept
<1>3. job'[o].id = id /\ \A p \in inFlight : job'[p].id = job[p].id
  BY <1>1 DEF accept, IInv, TypeOK, inFlight, waiting
<1> QED
  BY <1>1, <1>2, <1>3 DEF IdAccepted, accept

(* Every step is one of them.                                                *)
LEMMA NextIds ==
  ASSUME IInv, Next
  PROVE  \/ IdsKept \/ \E o, id : IdAccepted(o, id)
         \/ \E o : IdForgotten(o) \/ IdReplayed(o)
<1> DEFINE goal == \/ IdsKept \/ \E o, id : IdAccepted(o, id)
                   \/ \E o : IdForgotten(o) \/ IdReplayed(o)
<1>0. /\ TickArgs(ready, delayed, running, active, older)
      /\ timer \in Nat \cup {NoTimer} /\ inFlight = ready \cup delayed \cup running
      /\ inFlight \subseteq Jobs /\ Ids \cap Jobs = {}
  BY QueueAssumption
     DEF TickArgs, IInv, TypeOK, PlacedOnce, ActiveCounts, inFlight, waiting, QueueAssumption
<1>1. ASSUME NEW o \in Jobs, NEW d \in Delays, NEW p \in Priorities, NEW a \in Attempts,
             add(o, d, p, a)
      PROVE  goal
  <2>1. CASE addAnonymous(o, d, p, a)
    BY <1>0, <2>1, AcceptIds DEF addAnonymous
  <2>2. CASE \E id \in Ids : addWithId(o, id, d, p, a)
    BY <2>2, AcceptIds DEF addWithId
  <2> QED
    BY <1>1, <2>1, <2>2 DEF add
<1>2. ASSUME NEW o \in Jobs, NEW p, NEW a, accept(o, o, 0, p, a) PROVE goal
  BY <1>0, <1>2, AcceptIds
<1>3. ASSUME UNCHANGED <<job, known, replayed>>, tick(ready, delayed, running, active, older)
      PROVE  goal
  BY <1>0, <1>3, TickFlight DEF IdsKept
<1>4. ASSUME UNCHANGED <<job, known, replayed, ready, delayed, running>> PROVE goal
  BY <1>4 DEF IdsKept, inFlight, waiting
<1>5. ASSUME NEW o \in Jobs, runSucceeds(o) \/ runDeadLetters(o) PROVE goal
  <2>1. o \in inFlight /\ inFlight' = inFlight \ {o}
    BY <1>0, <1>5, SettleFlight DEF runSucceeds, runDeadLetters
  <2>2. \A p \in inFlight \ {o} : job'[p].id = job[p].id
    BY <1>0, <1>5 DEF runSucceeds, runDeadLetters, IInv, TypeOK
  <2> QED
    BY <1>5, <2>1, <2>2 DEF runSucceeds, runDeadLetters, IdForgotten
<1>6. ASSUME NEW o \in Jobs, runRetries(o) PROVE goal
  <2>1. inFlight' = inFlight
    BY <1>6, SettleFlight
  <2>2. \A p \in inFlight : job'[p].id = job[p].id
    BY <1>0, <1>6 DEF runRetries, IInv, TypeOK, JobRecord
  <2> QED
    BY <1>6, <2>1, <2>2 DEF runRetries, IdsKept
<1>7. ASSUME NEW o \in Jobs, retryFailed(o) PROVE goal
  <2>1. o \notin inFlight
    BY <1>7 DEF retryFailed, IInv, PlacedOnce, inFlight, waiting
  <2>2. inFlight' = inFlight \cup {o}
    BY <1>7, <2>1, ScheduleFlight DEF retryFailed
  <2>3. \A p \in inFlight \cup {o} : job'[p].id = job[p].id
    BY <1>0, <1>7 DEF retryFailed, IInv, TypeOK, JobRecord
  <2> QED
    BY <1>7, <2>2, <2>3 DEF retryFailed, IdReplayed
<1>8. CASE elapse
  <2>1. \A p \in inFlight : job'[p].id = job[p].id
    BY <1>0, <1>8 DEF elapse, IInv, TypeOK, JobRecord
  <2> QED
    BY <1>8, <2>1 DEF elapse, IdsKept, inFlight, waiting
<1>9. CASE \E c \in Concurrencies : process(c)
  BY <1>3, <1>9 DEF process
<1>10. CASE timerFires
  BY <1>3, <1>4, <1>10 DEF timerFires
<1>11. CASE resume
  BY <1>3, <1>11 DEF resume
<1>12. CASE pause \/ close \/ closeReturns
  BY <1>4, <1>12 DEF pause, close, closeReturns
<1>13. CASE \E r \in Repeaters : repeatFires(r) \/ \E i \in BOOLEAN : repeat(r, i)
  BY <1>2, <1>4, <1>13 DEF repeatFires, repeat
<1> QED
  BY <1>1, <1>5, <1>6, <1>7, <1>8, <1>9, <1>10, <1>11, <1>12, <1>13 DEF Next

(* However adds, retries, replays and settlements interleave, an explicit id *)
(* that was not replayed is refused exactly while one job with it is in      *)
(* flight (memory-queue.ts:60-82, 213-242).                                  *)
THEOREM DedupIsExact == Spec => []DedupExact
<1>1. Spec => []IInv
  BY InitOK, NextOK, PTL DEF Spec
<1>2. Init => DedupExact
  BY DEF Init, DedupExact, inFlight, waiting
<1>3. IInv /\ DedupExact /\ [Next]_vars => DedupExact'
  <2>1. ASSUME IInv, DedupExact, Next PROVE DedupExact'
    BY <2>1, NextIds, IdStepOK
  <2>2. ASSUME DedupExact, UNCHANGED vars PROVE DedupExact'
    BY <2>2 DEF DedupExact, vars, inFlight, waiting
  <2> QED
    BY <2>1, <2>2
<1> QED
  BY <1>1, <1>2, <1>3, PTL DEF Spec

-----------------------------------------------------------------------------
(* No started job overtakes a ready one that comes before it.                *)
Urgent(started) ==
  \A s \in started, t \in ready' :
    /\ job'[s].priority =< job'[t].priority
    /\ t \in ready /\ ~(s \in ready /\ <<s, t>> \in older) =>
         job'[s].priority < job'[t].priority

(* tick() starts due jobs only, and none over a ready one that is more       *)
(* urgent, or as urgent and ready before it; what stays ready is due.        *)
LEMMA TickOrders ==
  ASSUME NEW r, NEW d, NEW n, NEW a, NEW ord,
         TickArgs(r, d, n, a, ord), Due(r), job' \in [Jobs -> JobRecord],
         Follows(r, ord), tick(r, d, n, a, ord)
  PROVE  Due(ready') /\ Due(running' \ n) /\ Urgent(running' \ n)
<1> USE DEF TickArgs
<1>1. CASE halted
  BY <1>1 DEF tick, Due, Urgent
<1>2. CASE ~halted
  <2> DEFINE all == r \cup due(d)
             ord2 == promoteDelayed(ord, r, due(d))
  <2>1. due(d) \subseteq d /\ Due(due(d))
    BY DEF due, Due
  <2>2. PICK started \in SUBSET all :
          /\ \A s \in started, t \in all \ started : Precedes(ord2, s, t)
          /\ ready' = all \ started
          /\ running' = n \cup started
    BY <1>2 DEF tick
  <2>3. Due(all)
    BY <2>1 DEF Due
  <2>4. \A o \in all : job'[o].priority \in Nat
    BY <2>1 DEF JobRecord
  <2>6. \A s \in all, t \in ready : <<s, t>> \in ord2 => s \in ready /\ <<s, t>> \in older
    <3>1. ASSUME NEW s \in all, NEW t \in ready, <<s, t>> \in ord2
          PROVE  s \in ready /\ <<s, t>> \in older
      <4>1. t \in r /\ t \notin due(d)
        BY <2>1 DEF Follows
      <4>2. <<s, t>> \in ord /\ s \notin due(d)
        BY <3>1, <4>1 DEF promoteDelayed
      <4> QED
        BY <4>2 DEF Follows
    <3> QED
      BY <3>1
  <2> HIDE DEF ord2
  <2>5. Urgent(started)
    <3>1. ASSUME NEW s \in started, NEW t \in all \ started
          PROVE  /\ job'[s].priority =< job'[t].priority
                 /\ t \in ready /\ ~(s \in ready /\ <<s, t>> \in older) =>
                      job'[s].priority < job'[t].priority
      <4>1. job'[s].priority \in Nat /\ job'[t].priority \in Nat
        BY <2>4
      <4>2. Precedes(ord2, s, t)
        BY <2>2
      <4>3. \/ job'[s].priority < job'[t].priority
            \/ job'[s].priority = job'[t].priority /\ <<s, t>> \in ord2
        BY <4>2, Zenon DEF Precedes
      <4>4. <<s, t>> \in ord2 /\ t \in ready => s \in ready /\ <<s, t>> \in older
        BY <2>6
      <4> QED
        BY <4>1, <4>3, <4>4
    <3> QED
      BY <2>2, <3>1 DEF Urgent
  <2> QED
    BY <2>2, <2>3, <2>5 DEF Due, Urgent
<1> QED
  BY <1>1, <1>2

(* Whichever caller of tick() starts a job, its delay or back-off is over,   *)
(* and no ready job is more urgent, or as urgent and was ready before it     *)
(* (memory-queue.ts:176-197).                                                *)
THEOREM QueueOrder == Spec => OrderRespected
<1> DEFINE timely == \A o \in running' \ running : job'[o].wait = 0
           urgent == Urgent(running' \ running)
<1>1. Spec => []IInv
  BY InitOK, NextOK, PTL DEF Spec
<1>2. ASSUME IInv', StepShape, ReadyDue PROVE ReadyDue' /\ timely /\ urgent
  <2>1. CASE UNCHANGED <<ready, delayed, running, failed>> /\ Due(ready)
    BY <2>1 DEF ReadyDue, Due, Urgent
  <2>2. CASE \E r, d, n, a, ord : /\ TickArgs(r, d, n, a, ord) /\ tick(r, d, n, a, ord)
                                   /\ n \subseteq running /\ Due(r) /\ Follows(r, ord)
    <3>1. PICK r, d, n, a, ord : /\ TickArgs(r, d, n, a, ord) /\ tick(r, d, n, a, ord)
                                 /\ n \subseteq running /\ Due(r) /\ Follows(r, ord)
      BY <2>2
    <3>2. job' \in [Jobs -> JobRecord]
      BY <1>2 DEF IInv, TypeOK
    <3>3. Due(ready') /\ Due(running' \ n) /\ Urgent(running' \ n)
      BY <3>1, <3>2, TickOrders
    <3> QED
      BY <3>1, <3>3 DEF ReadyDue, Due, Urgent
  <2> QED
    BY <1>2, <2>1, <2>2 DEF StepShape
<1>3. Init => ReadyDue
  BY DEF Init, ReadyDue
<1>4. IInv /\ IInv' /\ ReadyDue /\ [Next]_vars => ReadyDue'
  <2>1. ReadyDue /\ UNCHANGED vars => ReadyDue'
    BY DEF ReadyDue, vars
  <2> QED
    BY <1>2, <2>1, NextShape
<1>5. IInv /\ IInv' /\ ReadyDue /\ [Next]_vars => [timely /\ urgent]_vars
  BY <1>2, NextShape
<1>6. Spec => []ReadyDue
  BY <1>1, <1>3, <1>4, PTL DEF Spec
<1>7. Spec => [][timely /\ urgent]_vars
  BY <1>1, <1>5, <1>6, PTL DEF Spec
<1> QED
  BY <1>7, PTL DEF OrderRespected, NotBeforeDelay, PriorityRespected, Urgent
==============================================================================
