----------------------------- MODULE MemoryQueue -----------------------------
(***************************************************************************)
(* The in-process job queue (packages/runtime/src/queue/memory-queue.ts).  *)
(*                                                                         *)
(* JavaScript runs one macro-step at a time, so every method up to its     *)
(* first await, and every continuation after one, is one action.  tick()   *)
(* is called at the end of nearly every one of them and is part of each.   *)
(*                                                                         *)
(* A job OBJECT is a handle of Jobs; a handle that is in no collection is  *)
(* free (not yet allocated, or garbage).  Cardinality(Jobs) is the bound   *)
(* on jobs alive at once, dead-lettered ones included.                     *)
(*                                                                         *)
(* Time is relative: `wait` is runAt - now cut off at 0, `timer` is what   *)
(* is left of the armed setTimeout.  Only differences of Date.now() matter *)
(* to this code, so no absolute clock (and no bound on it) is needed.      *)
(***************************************************************************)
EXTENDS Integers, FiniteSets

CONSTANTS
  Jobs,         \* handles of job objects
  Ids,          \* explicit job ids a caller may pass in JobOptions.jobId
  Priorities,   \* values of JobOptions.priority; lower runs sooner
  Delays,       \* values of JobOptions.delayMs, in time units
  Attempts,     \* values of JobOptions.attempts
  Concurrencies,\* values of the concurrency argument of process()
  Repeaters,    \* handles of setInterval timers created by repeat()
  Every,        \* interval of a repeater
  BaseBackoff,  \* JobOptions.backoffMs
  MaxBackoff,   \* cap of jobBackoff (300_000 ms)
  MinWait,      \* shortest re-arm of the timer (25 ms)
  PollCap,      \* longest re-arm of the timer (250 ms)
  CloseGrace    \* how long close() waits for in-flight handlers (10_000 ms)

NoTimer == -1

ASSUME QueueAssumption ==
  /\ IsFiniteSet(Jobs)
  /\ Ids \cap Jobs = {}
  /\ Priorities \subseteq Nat /\ Delays \subseteq Nat
  /\ Attempts \subseteq Nat \ {0}
  /\ Concurrencies \subseteq Nat \ {0}
  /\ Every \in Nat \ {0} /\ BaseBackoff \in Nat /\ MaxBackoff \in Nat
  /\ MinWait \in Nat \ {0} /\ PollCap \in Nat /\ MinWait =< PollCap
  /\ CloseGrace \in Nat

VARIABLES
  job,          \* the fields of every job object
  ready,        \* PriorityQueue of runnable jobs
  delayed,      \* jobs waiting for their delay or back-off to elapse
  running,      \* jobs whose handler promise is pending
  failed,       \* the dead-letter list
  older,        \* <<a, b>>: a was put before b into the collection both are in
  known,        \* ids refused by add(), the deduplication set
  active,       \* the counter compared with the concurrency limit
  handler,      \* process() has registered a handler
  concurrency,
  paused,
  draining,
  timer,        \* remaining time of the armed timer, or NoTimer
  repeaters,    \* remaining time of each setInterval, or NoTimer
  closeWait,    \* remaining grace of a pending close(), or NoTimer
  replayed      \* history: ids that retryFailed() ever put back

flags == <<handler, concurrency, paused, draining>>
vars == <<job, ready, delayed, running, failed, older, known, active, handler,
          concurrency, paused, draining, timer, repeaters, closeWait, replayed>>

JobRecord == [id : Ids \cup Jobs, attempt : Nat, maxAttempts : Nat,
              priority : Nat, wait : Nat]

TypeOK ==
  /\ job \in [Jobs -> JobRecord]
  /\ ready \subseteq Jobs /\ delayed \subseteq Jobs
  /\ running \subseteq Jobs /\ failed \subseteq Jobs
  /\ older \subseteq Jobs \X Jobs
  /\ known \subseteq Ids \cup Jobs
  /\ active \in Nat /\ concurrency \in Nat
  /\ handler \in BOOLEAN /\ paused \in BOOLEAN /\ draining \in BOOLEAN
  /\ timer \in Nat \cup {NoTimer}
  /\ repeaters \in [Repeaters -> Nat \cup {NoTimer}]
  /\ closeWait \in Nat \cup {NoTimer}
  /\ replayed \subseteq Ids \cup Jobs

-----------------------------------------------------------------------------
Smaller(a, b) == IF a =< b THEN a ELSE b
Larger(a, b) == IF a =< b THEN b ELSE a

(* What a free handle holds: the object it named is unreachable.             *)
Garbage(o) == [id |-> o, attempt |-> 0, maxAttempts |-> 0, priority |-> 0, wait |-> 0]

live == ready \cup delayed \cup running \cup failed
free == Jobs \ live

(* Put the jobs of `set`, which are in no collection any more, at the end of *)
(* a collection whose members are `members`.                                 *)
Pushed(ord, members, set) ==
  {p \in ord : p[1] \notin set /\ p[2] \notin set} \cup (members \X set)

(* Mutant: a plain FIFO that never looks at the priority.                    *)
PrecedesFifo(ord, a, b) == <<a, b>> \in ord

(* Mutant: jobs as urgent as each other are in no order.                     *)
PrecedesAnyOrder(ord, a, b) == job'[a].priority =< job'[b].priority

(* The heap's comparator: priority first, insertion sequence second.         *)
Precedes(ord, a, b) ==
  \/ job'[a].priority < job'[b].priority
  \/ job'[a].priority = job'[b].priority /\ <<a, b>> \in ord

(* jobBackoff: half-jitter, anywhere between half of the capped exponential  *)
(* and all of it.                                                            *)
jobBackoff(attempt) ==
  LET exponential == IF BaseBackoff * 2^(attempt - 1) < MaxBackoff
                       THEN BaseBackoff * 2^(attempt - 1) ELSE MaxBackoff
  IN  {d \in 0..MaxBackoff : exponential =< 2 * d /\ d =< exponential}

(* promoteDelayed walks the delayed array backwards, so jobs promoted        *)
(* together enter the ready queue in the reverse of their order there.       *)
promoteDelayed(ord, r, promoted) ==
  {p \in ord : p[1] \notin promoted /\ p[2] \notin promoted}
    \cup (r \X promoted)
    \cup {p \in promoted \X promoted : <<p[2], p[1]>> \in ord}

(* Mutants: the timer polls at its cap whatever is due, or ignores the       *)
(* delayed jobs when deciding whether there is future work.                  *)
rearmAtCap(late, waiting) ==
  timer' = IF late = {} /\ waiting = {} THEN NoTimer ELSE PollCap
rearmForReady(late, waiting) ==
  timer' = IF waiting = {} THEN NoTimer ELSE PollCap

(* The end of tick(): the timer is set for the earliest delayed job, but for *)
(* no less than MinWait and no more than PollCap; with no work left, cleared. *)
rearm(late, waiting) ==
  IF late = {} /\ waiting = {}
    THEN timer' = NoTimer
    ELSE \E t \in MinWait..PollCap :
           /\ timer' = t
           /\ \A o \in late : t =< Larger(MinWait, job'[o].wait)
           /\ t = PollCap \/ \E o \in late : t = Larger(MinWait, job'[o].wait)

(* Mutant: tick() does not look at draining.                                 *)
haltedUnlessDraining == paused' \/ ~handler'

(* tick() returns at once.                                                   *)
halted == draining' \/ paused' \/ ~handler'

(* Mutant: every delayed job is promoted.                                    *)
dueAlways(d) == d

(* The delayed jobs whose runAt has come.                                    *)
due(d) == {o \in d : job'[o].wait = 0}

(* Mutants: `<=` instead of `<` in the loop's test, or one slot held back.    *)
roomPlusOne(a) == Larger(0, concurrency' + 1 - a)
roomMinusOne(a) == Larger(0, concurrency' - 1 - a)

(* The number of turns the start loop may take.                              *)
room(a) == Larger(0, concurrency' - a)

(* tick(): promote, start as many as fit, re-arm.  The arguments are the     *)
(* collections as the calling handler leaves them; job and the flags are     *)
(* read as that handler has just set them.                                   *)
tick(r, d, n, a, ord) ==
  IF halted
    THEN /\ ready' = r /\ delayed' = d /\ running' = n /\ active' = a
         /\ older' = ord
         /\ UNCHANGED timer
    ELSE LET all == r \cup due(d)
             late == d \ due(d)
             ord2 == promoteDelayed(ord, r, due(d))
         IN \E started \in SUBSET all :
              /\ Cardinality(started) = Smaller(room(a), Cardinality(all))
              /\ \A s \in started, t \in all \ started : Precedes(ord2, s, t)
              /\ ready' = all \ started
              /\ delayed' = late
              /\ running' = n \cup started
              /\ active' = a + Cardinality(started)
              /\ older' = {p \in ord2 : p[1] \notin started /\ p[2] \notin started}
              /\ rearm(late, all \ started)

-----------------------------------------------------------------------------
Init ==
  /\ job = [o \in Jobs |-> Garbage(o)]
  /\ ready = {} /\ delayed = {} /\ running = {} /\ failed = {}
  /\ older = {} /\ known = {} /\ active = 0
  /\ handler = FALSE /\ concurrency = 1 /\ paused = FALSE /\ draining = FALSE
  /\ timer = NoTimer
  /\ repeaters = [r \in Repeaters |-> NoTimer]
  /\ closeWait = NoTimer /\ replayed = {}

(* schedule() followed by tick(): a job whose runAt has come goes to ready.  *)
scheduleAndTick(o) ==
  LET late == job'[o].wait > 0
  IN  tick(IF late THEN ready ELSE ready \cup {o},
           IF late THEN delayed \cup {o} ELSE delayed,
           running, active,
           Pushed(older, IF late THEN delayed ELSE ready, {o}))

(* The part of add() after the deduplication check, for the object o.        *)
accept(o, id, delay, priority, attempts) ==
  /\ o \in free
  /\ known' = known \cup {id}
  /\ job' = [job EXCEPT ![o] = [id |-> id, attempt |-> 1,
                                maxAttempts |-> attempts,
                                priority |-> priority, wait |-> delay]]
  /\ UNCHANGED <<flags, failed, replayed, closeWait>>
  /\ scheduleAndTick(o)

(* add() with an explicit id already known returns without enqueuing.        *)
addWithId(o, id, delay, priority, attempts) ==
  /\ id \notin known
  /\ accept(o, id, delay, priority, attempts)
  /\ UNCHANGED repeaters

(* add() without an id: randomUUID() is unique, so the object names it.      *)
addAnonymous(o, delay, priority, attempts) ==
  /\ accept(o, o, delay, priority, attempts)
  /\ UNCHANGED repeaters

add(o, delay, priority, attempts) ==
  \/ addAnonymous(o, delay, priority, attempts)
  \/ \E id \in Ids : addWithId(o, id, delay, priority, attempts)

(* process() may be called again, with another limit.                        *)
process(c) ==
  /\ handler' = TRUE /\ concurrency' = c
  /\ UNCHANGED <<job, failed, known, paused, draining, repeaters, closeWait, replayed>>
  /\ tick(ready, delayed, running, active, older)

(* repeat(): an optional immediate run, then a setInterval.  The id of a     *)
(* repeated job carries Date.now(), so like a UUID it names its object.      *)
repeat(r, immediate) ==
  /\ repeaters[r] = NoTimer
  /\ repeaters' = [repeaters EXCEPT ![r] = Every]
  /\ \/ /\ immediate
        /\ \E o \in Jobs, p \in Priorities, a \in Attempts : accept(o, o, 0, p, a)
     \/ /\ ~immediate
        /\ UNCHANGED <<job, ready, delayed, running, failed, older, known, active,
                       flags, timer, closeWait, replayed>>

repeatFires(r) ==
  /\ repeaters[r] = 0
  /\ repeaters' = [repeaters EXCEPT ![r] = Every]
  /\ \E o \in Jobs, p \in Priorities, a \in Attempts : accept(o, o, 0, p, a)

timerFires ==
  /\ timer = 0
  /\ UNCHANGED <<job, failed, known, flags, repeaters, closeWait, replayed>>
  /\ \/ /\ draining \/ paused \/ ~handler
        /\ timer' = NoTimer
        /\ UNCHANGED <<ready, delayed, running, active, older>>
     \/ /\ ~(draining \/ paused \/ ~handler)
        /\ tick(ready, delayed, running, active, older)

(* Mutant: `active` is decremented on success and again in the finally.      *)
runSucceedsTwice(o) ==
  /\ o \in running
  /\ known' = known \ {job[o].id}
  /\ job' = [job EXCEPT ![o] = Garbage(o)]
  /\ UNCHANGED <<failed, flags, repeaters, closeWait, replayed>>
  /\ tick(ready, delayed, running \ {o}, active - 2, older)

(* run(): the handler's promise fulfils.                                     *)
runSucceeds(o) ==
  /\ o \in running
  /\ known' = known \ {job[o].id}
  /\ job' = [job EXCEPT ![o] = Garbage(o)]
  /\ UNCHANGED <<failed, flags, repeaters, closeWait, replayed>>
  /\ tick(ready, delayed, running \ {o}, active - 1, older)

(* The test of run()'s catch block.                                          *)
mayRetry(o) == job[o].attempt < job[o].maxAttempts

(* run(): the handler rejects with attempts left; back off and retry.        *)
runRetries(o) ==
  /\ o \in running
  /\ mayRetry(o)
  /\ \E d \in jobBackoff(job[o].attempt + 1) :
       job' = [job EXCEPT ![o] = [@ EXCEPT !.attempt = job[o].attempt + 1, !.wait = d]]
  /\ UNCHANGED <<failed, known, flags, repeaters, closeWait, replayed>>
  /\ tick(ready, delayed \cup {o}, running \ {o}, active - 1,
          Pushed(older, delayed, {o}))

(* Mutant: a dead-lettered job keeps its id in the deduplication set.        *)
runDeadLettersKnown(o) ==
  /\ o \in running
  /\ ~mayRetry(o)
  /\ failed' = failed \cup {o}
  /\ UNCHANGED <<job, known, flags, repeaters, closeWait, replayed>>
  /\ tick(ready, delayed, running \ {o}, active - 1, Pushed(older, failed, {o}))

(* run(): the handler rejects on the last attempt; dead-letter.              *)
runDeadLetters(o) ==
  /\ o \in running
  /\ ~mayRetry(o)
  /\ failed' = failed \cup {o}
  /\ known' = known \ {job[o].id}
  /\ UNCHANGED <<job, flags, repeaters, closeWait, replayed>>
  /\ tick(ready, delayed, running \ {o}, active - 1, Pushed(older, failed, {o}))

(* Mutant: the replayed job is not taken out of the dead-letter list.        *)
retryFailedKept(o) ==
  /\ o \in failed
  /\ job' = [job EXCEPT ![o] = [@ EXCEPT !.attempt = 1, !.wait = 0]]
  /\ replayed' = replayed \cup {job[o].id}
  /\ UNCHANGED <<failed, known, flags, repeaters, closeWait>>
  /\ scheduleAndTick(o)

(* retryFailed(id): the first dead-lettered job with that id runs again.     *)
retryFailed(o) ==
  /\ o \in failed
  /\ \A p \in failed : job[p].id = job[o].id => p = o \/ <<o, p>> \in older
  /\ failed' = failed \ {o}
  /\ job' = [job EXCEPT ![o] = [@ EXCEPT !.attempt = 1, !.wait = 0]]
  /\ replayed' = replayed \cup {job[o].id}
  /\ UNCHANGED <<known, flags, repeaters, closeWait>>
  /\ scheduleAndTick(o)

pause ==
  /\ ~paused
  /\ paused' = TRUE
  /\ UNCHANGED <<job, ready, delayed, running, failed, older, known, active, handler,
                 concurrency, draining, timer, repeaters, closeWait, replayed>>

resume ==
  /\ paused' = FALSE
  /\ UNCHANGED <<job, failed, known, handler, concurrency, draining, repeaters,
                 closeWait, replayed>>
  /\ tick(ready, delayed, running, active, older)

(* Mutant: close() empties the ready queue.                                  *)
closeDiscards ==
  /\ closeWait = NoTimer
  /\ draining' = TRUE
  /\ repeaters' = [r \in Repeaters |-> NoTimer]
  /\ timer' = NoTimer
  /\ closeWait' = CloseGrace
  /\ ready' = {}
  /\ UNCHANGED <<job, delayed, running, failed, older, known, active, handler,
                 concurrency, paused, replayed>>

(* close(): up to its first poll of `active`.                                *)
close ==
  /\ closeWait = NoTimer
  /\ draining' = TRUE
  /\ repeaters' = [r \in Repeaters |-> NoTimer]
  /\ timer' = NoTimer
  /\ closeWait' = CloseGrace
  /\ UNCHANGED <<job, ready, delayed, running, failed, older, known, active, handler,
                 concurrency, paused, replayed>>

closeReturns ==
  /\ closeWait # NoTimer
  /\ active = 0 \/ closeWait = 0
  /\ closeWait' = NoTimer
  /\ UNCHANGED <<job, ready, delayed, running, failed, older, known, active, flags,
                 timer, repeaters, replayed>>

(* One unit of time passes.                                                  *)
CountDown(t) == IF t > 0 THEN t - 1 ELSE t

elapse ==
  /\ job' = [o \in Jobs |-> IF o \in delayed
                              THEN [job[o] EXCEPT !.wait = CountDown(@)] ELSE job[o]]
  /\ timer' = CountDown(timer)
  /\ repeaters' = [r \in Repeaters |-> CountDown(repeaters[r])]
  /\ closeWait' = CountDown(closeWait)
  /\ UNCHANGED <<ready, delayed, running, failed, older, known, active, flags, replayed>>

Next ==
  \/ \E o \in Jobs, d \in Delays, p \in Priorities, a \in Attempts : add(o, d, p, a)
  \/ \E c \in Concurrencies : process(c)
  \/ \E r \in Repeaters : repeatFires(r) \/ \E i \in BOOLEAN : repeat(r, i)
  \/ timerFires
  \/ \E o \in Jobs : runSucceeds(o) \/ runRetries(o) \/ runDeadLetters(o) \/ retryFailed(o)
  \/ pause \/ resume \/ close \/ closeReturns
  \/ elapse

(* Time passes, timers fire, and every handler's promise settles: the        *)
(* handlers the scheduler registers bound each external call by a timeout.   *)
Fairness ==
  /\ WF_vars(elapse) /\ WF_vars(timerFires)
  /\ \A o \in Jobs : WF_vars(runSucceeds(o) \/ runRetries(o) \/ runDeadLetters(o))

Spec == Init /\ [][Next]_vars
FairSpec == Spec /\ Fairness

-----------------------------------------------------------------------------
(* Properties                                                                *)

waiting == ready \cup delayed
inFlight == waiting \cup running
Ticking == handler /\ ~paused /\ ~draining

(* A job object is in exactly one of the four collections: no interleaving   *)
(* of add, run, retry and replay duplicates a job (memory-queue.ts:133-242).  *)
PlacedOnce ==
  /\ ready \cap delayed = {} /\ ready \cap running = {} /\ ready \cap failed = {}
  /\ delayed \cap running = {} /\ delayed \cap failed = {} /\ running \cap failed = {}

(* A job leaves the queue only while its handler is running: a waiting or a  *)
(* dead-lettered job survives retries, pauses and close().                   *)
NothingLost == [][\A o \in live \ live' : o \in running]_vars

(* `active`, kept by hand in run(), counts the pending handlers.             *)
ActiveCounts == active = Cardinality(running)

(* Whichever of the many callers of tick() starts a job, the limit given to  *)
(* process() holds at that moment (a later process() may lower the limit     *)
(* below what is already running).                                           *)
StartsWithinLimit ==
  [][running' \ running # {} => Cardinality(running') =< concurrency']_vars

(* The queue is never idle with runnable work: between steps a ready job     *)
(* waits only while every slot is taken.                                     *)
WorkConserving == Ticking => ready = {} \/ active >= concurrency

(* No lost wake-up: while anything waits, a timer is armed, and it fires no  *)
(* later than the earliest delayed job needs (or the minimum re-arm).        *)
WakeUpArmed ==
  Ticking /\ waiting # {} =>
    /\ timer # NoTimer
    /\ \A o \in delayed : timer =< Larger(MinWait, job[o].wait)

(* Until one of its jobs is replayed from the dead-letter list, an explicit  *)
(* id is deduplicated exactly: known iff one job with it is in flight.       *)
DedupExact ==
  \A id \in Ids \ replayed :
    /\ id \in known <=> \E o \in inFlight : job[o].id = id
    /\ \A o, p \in inFlight : job[o].id = id /\ job[p].id = id => o = p

(* Attempts are counted across retries: no job runs more often than its      *)
(* limit, and only an exhausted job is dead-lettered.                        *)
AttemptsBounded ==
  /\ \A o \in live : job[o].attempt \in 1..job[o].maxAttempts
  /\ \A o \in failed : job[o].attempt = job[o].maxAttempts

(* No job starts before its delay or back-off has elapsed.                   *)
NotBeforeDelay == [][\A o \in running' \ running : job'[o].wait = 0]_vars

(* A job never starts over a ready one that is more urgent, nor over one as  *)
(* urgent that was ready before it.                                          *)
PriorityRespected ==
  [][\A s \in running' \ running, t \in ready' :
       /\ job'[s].priority =< job'[t].priority
       /\ t \in ready /\ ~(s \in ready /\ <<s, t>> \in older) =>
            job'[s].priority < job'[t].priority]_vars

(* Once close() has begun no caller of tick() starts another handler.        *)
NoStartAfterClose == [][draining => running' \subseteq running]_vars

(* Whatever add, process, run, retry, replay, pause, repeat and close do in  *)
(* whatever order, the queue's bookkeeping is consistent between steps: each *)
(* job is in one place, `active` and the attempts are right, no slot idles   *)
(* beside a ready job, and no wake-up is lost (memory-queue.ts:39-242).      *)
QueueConsistent ==
  /\ TypeOK /\ PlacedOnce /\ ActiveCounts /\ AttemptsBounded
  /\ WorkConserving /\ WakeUpArmed

(* What no step does: lose a job that is not running, start one once close() *)
(* has begun, or start one over the limit (memory-queue.ts:156-207).         *)
StepsAllowed == NothingLost /\ NoStartAfterClose /\ StartsWithinLimit

(* When a job starts, its delay is over, nothing more urgent is ready, and   *)
(* nothing as urgent was ready before it (memory-queue.ts:176-197).          *)
OrderRespected == NotBeforeDelay /\ PriorityRespected

(* A waiting job of the most urgent priority is eventually started, unless   *)
(* the queue is paused, closed or has no handler: FIFO within a priority,    *)
(* and the timer, rule out starvation by newer jobs.                         *)
WaitingJobStarts ==
  \A o \in Jobs :
    (o \in waiting /\ \A p \in Priorities : job[o].priority =< p)
      ~> (o \in running \/ ~Ticking)
==============================================================================
