------------------------------ MODULE Lifecycle ------------------------------
(***************************************************************************)
(* The life of a process: start-up and graceful shutdown of the API        *)
(* (apps/api/src/index.ts) and of the worker (apps/worker/src/index.ts),   *)
(* with the database handle, the shared Redis client, the scheduler's      *)
(* queues (packages/jobs/src/scheduler.ts) and the queue registry          *)
(* (packages/runtime/src/queue/factory.ts).                                *)
(*                                                                         *)
(* Requests and jobs take any time, or hang.  An admin request that queues *)
(* a job takes the queue from the registry.                                *)
(***************************************************************************)
EXTENDS Integers, FiniteSets

CONSTANTS
  Calls,       \* handles of HTTP requests
  MaxQueues    \* bound: queue objects ever built

ASSUME LifecycleAssumption == MaxQueues \in Nat \ {0}

VARIABLES
  role,        \* "api" or "worker"
  embedded,    \* the API hosts the jobs itself
  configured,  \* REDIS_URL is set
  processPhase, \* where main() or shutdown() is
  dbOpen,      \* the database handle is open
  redisClient,  \* "none", "ready", "unavailable"
  built,       \* queue objects open, by number
  handled,     \* ... those the scheduler attached its handler to
  registered,  \* the object in the registry; 0: none
  made,        \* queue objects built so far
  calls,       \* HTTP requests: "none", "read", "trigger", "building", "over"
  jobs,        \* objects jobs were added to
  job,         \* a job handler in this process: "idle", "running", "overdue"
  signalled    \* shutdown() was entered

lifeVars == <<role, embedded, configured, processPhase, dbOpen, redisClient, built, handled, registered,
              made, calls, jobs, job, signalled>>
settings == <<role, embedded, configured>>
queueState == <<built, handled, registered, made>>
exited == processPhase \in {"exit0", "exit1"}
hostsJobs == role = "worker" \/ embedded

lifeInit ==
  /\ role \in {"api", "worker"} /\ embedded \in BOOLEAN /\ (role = "worker" => ~embedded)
  /\ configured \in BOOLEAN
  /\ processPhase = "database" /\ dbOpen = FALSE /\ redisClient = "none"
  /\ built = {} /\ handled = {} /\ registered = 0 /\ made = 0
  /\ calls = [c \in Calls |-> "none"] /\ jobs = {} /\ job = "idle"
  /\ signalled = FALSE

-----------------------------------------------------------------------------
(* main()                                                                    *)

(* main().catch: a start that fails ends the process.  When the worker's     *)
(* scheduler is there nothing more can fail; the API has yet to listen.      *)
failsToStart ==
  /\ processPhase \in {"database", "migrations", "scheduler"} \cup (IF role = "api" THEN {"server"} ELSE {})
  /\ processPhase' = "exit1"
  /\ UNCHANGED <<settings, dbOpen, redisClient, queueState, calls, jobs, job, signalled>>

getDatabase ==
  /\ processPhase = "database" /\ processPhase' = "migrations" /\ dbOpen' = TRUE
  /\ UNCHANGED <<settings, redisClient, queueState, calls, jobs, job, signalled>>

(* runMigrations(): see Migrations.                                          *)
runMigrations ==
  /\ processPhase = "migrations" /\ processPhase' = "events"
  /\ UNCHANGED <<settings, dbOpen, redisClient, queueState, calls, jobs, job, signalled>>

(* connectCrossInstance() is the first to call getRedis(): what connect()    *)
(* finds is kept, a failure too.                                             *)
connectCrossInstance ==
  /\ processPhase = "events" /\ processPhase' = "scheduler"
  /\ redisClient' \in IF configured THEN {"ready", "unavailable"} ELSE {"none"}
  /\ UNCHANGED <<settings, dbOpen, queueState, calls, jobs, job, signalled>>

(* Mutant: the API begins to listen before its scheduler is started.         *)
startSchedulerLater ==
  /\ processPhase = "scheduler" /\ processPhase' = "server"
  /\ UNCHANGED <<settings, dbOpen, redisClient, queueState, calls, jobs, job, signalled>>

(* startScheduler(): queues are built, given handlers, and scheduled.        *)
startScheduler ==
  /\ processPhase = "scheduler" /\ processPhase' = "server"
  /\ IF hostsJobs
     THEN /\ made' = 1 /\ built' = {1} /\ handled' = {1} /\ registered' = 1
     ELSE UNCHANGED queueState
  /\ UNCHANGED <<settings, dbOpen, redisClient, calls, jobs, job, signalled>>

(* buildServer() and listen(), or "worker ready"; the signal handlers are    *)
(* installed now.                                                            *)
serve ==
  /\ processPhase = "server" /\ processPhase' = "serving"
  /\ UNCHANGED <<settings, dbOpen, redisClient, queueState, calls, jobs, job, signalled>>

-----------------------------------------------------------------------------
(* Requests and jobs                                                         *)

arrives(c) ==
  /\ processPhase = "serving" /\ role = "api" /\ calls[c] = "none"
  /\ \E kind \in {"read", "trigger"} : calls' = [calls EXCEPT ![c] = kind]
  /\ UNCHANGED <<settings, processPhase, dbOpen, redisClient, queueState, jobs, job, signalled>>

(* getQueue() finds the queue registered, and the job is added.              *)
findsQueue(c) ==
  /\ calls[c] = "trigger" /\ registered # 0 /\ ~exited
  /\ jobs' = jobs \cup {registered} /\ calls' = [calls EXCEPT ![c] = "over"]
  /\ UNCHANGED <<settings, processPhase, dbOpen, redisClient, queueState, job, signalled>>

(* It does not: createQueue() is begun.  Without Redis it has nothing to     *)
(* wait for, and is over at once.                                            *)
createQueue(c) ==
  /\ calls[c] = "trigger" /\ registered = 0 /\ ~exited
  /\ configured
  /\ calls' = [calls EXCEPT ![c] = "building"]
  /\ UNCHANGED <<settings, processPhase, dbOpen, redisClient, queueState, jobs, job, signalled>>

(* The object is there: it goes into the registry, whatever is there by now. *)
registerQueue(c) ==
  /\ ~exited /\ made < MaxQueues
  /\ \/ calls[c] = "building"
     \/ calls[c] = "trigger" /\ registered = 0 /\ ~configured
  /\ made' = made + 1 /\ built' = built \cup {made'} /\ registered' = made'
  /\ jobs' = jobs \cup {made'} /\ calls' = [calls EXCEPT ![c] = "over"]
  /\ UNCHANGED <<settings, processPhase, dbOpen, redisClient, handled, job, signalled>>

reads(c) ==
  /\ calls[c] = "read" /\ ~exited
  /\ calls' = [calls EXCEPT ![c] = "over"]
  /\ UNCHANGED <<settings, processPhase, dbOpen, redisClient, queueState, jobs, job, signalled>>

(* A handler of the scheduler's queues starts (a repeat, or a job added);    *)
(* a queue that drains starts none.                                          *)
jobStarts ==
  /\ job = "idle" /\ handled # {} /\ handled \subseteq built
  /\ processPhase \in {"server", "serving", "app"} /\ job' = "running"
  /\ UNCHANGED <<settings, processPhase, dbOpen, redisClient, queueState, calls, jobs, signalled>>

jobEnds ==
  /\ job # "idle" /\ ~exited /\ job' = "idle"
  /\ UNCHANGED <<settings, processPhase, dbOpen, redisClient, queueState, calls, jobs, signalled>>

-----------------------------------------------------------------------------
(* shutdown()                                                                *)

(* SIGTERM or SIGINT, and in the API an unhandled rejection; a second one    *)
(* changes nothing.                                                          *)
shutdown ==
  /\ processPhase = "serving" /\ ~signalled /\ signalled' = TRUE
  /\ processPhase' = IF role = "api" THEN "app" ELSE "stop"
  /\ UNCHANGED <<settings, dbOpen, redisClient, queueState, calls, jobs, job>>

(* Mutant: requests in flight are not waited for.                            *)
closeAppNow ==
  /\ processPhase = "app" /\ processPhase' = "stop"
  /\ UNCHANGED <<settings, dbOpen, redisClient, queueState, calls, jobs, job, signalled>>

(* app.close(): no new requests, and those in flight end first.              *)
closeApp ==
  /\ processPhase = "app" /\ processPhase' = "stop"
  /\ \A c \in Calls : calls[c] \in {"none", "over"}
  /\ UNCHANGED <<settings, dbOpen, redisClient, queueState, calls, jobs, job, signalled>>


(* An in-process queue stops waiting for its handler after ten seconds;      *)
(* BullMQ's worker does not.                                                 *)
deadlinePasses ==
  /\ processPhase \in {"stop", "queues"} /\ job = "running" /\ redisClient # "ready"
  /\ job' = "overdue"
  /\ UNCHANGED <<settings, processPhase, dbOpen, redisClient, queueState, calls, jobs, signalled>>

(* scheduler.stop().                                                         *)
stopScheduler ==
  /\ processPhase = "stop" /\ job # "running" /\ processPhase' = "queues"
  /\ built' = built \ handled
  /\ UNCHANGED <<settings, dbOpen, redisClient, handled, registered, made, calls, jobs, job, signalled>>

(* closeAllQueues(): those in the registry.                                  *)
closeAllQueues ==
  /\ processPhase = "queues" /\ job # "running" /\ processPhase' = "connections"
  /\ built' = built \ {registered} /\ registered' = 0
  /\ UNCHANGED <<settings, dbOpen, redisClient, handled, made, calls, jobs, job, signalled>>

(* closeCache(), closeRedis(), handle.close(): the last may throw.           *)
closeConnections ==
  /\ processPhase = "connections" /\ redisClient' = "none" /\ dbOpen' = FALSE
  /\ processPhase' \in {"closed", "exit1"}
  /\ UNCHANGED <<settings, queueState, calls, jobs, job, signalled>>

exits ==
  /\ processPhase = "closed" /\ processPhase' = "exit0"
  /\ UNCHANGED <<settings, dbOpen, redisClient, queueState, calls, jobs, job, signalled>>

(* The timer armed when shutdown() began: 15 seconds in the API, 30 in the   *)
(* worker.                                                                   *)
forceExit ==
  /\ signalled /\ ~exited /\ processPhase' = "exit1"
  /\ UNCHANGED <<settings, dbOpen, redisClient, queueState, calls, jobs, job, signalled>>

lifeNext ==
  \/ failsToStart \/ getDatabase \/ runMigrations \/ connectCrossInstance \/ startScheduler
  \/ serve \/ jobStarts \/ jobEnds \/ shutdown \/ closeApp \/ deadlinePasses
  \/ stopScheduler \/ closeAllQueues \/ closeConnections \/ exits \/ forceExit
  \/ \E c \in Calls : arrives(c) \/ findsQueue(c) \/ createQueue(c) \/ registerQueue(c) \/ reads(c)

-----------------------------------------------------------------------------
(* Properties                                                                *)

(* The database is not closed under anyone: by then every request is over,   *)
(* and every job handler too, unless it outlasted its queue's deadline       *)
(* (index.ts: "let in-flight ones finish first"; memory-queue.ts: "Let       *)
(* in-flight handlers finish rather than cutting them off mid-write").       *)
ClosesLast ==
  ~dbOpen /\ signalled => /\ \A c \in Calls : calls[c] \in {"none", "over"}
                          /\ job # "running"

(* When the API hosts the jobs, a job an admin queues lands in a queue that  *)
(* has a handler: the scheduler registers its queues before any request is   *)
(* served.                                                                   *)
TriggersHandled == embedded => jobs \subseteq handled

(* Nothing a graceful shutdown waits for waits for it: when requests end,    *)
(* and BullMQ's jobs do, a process told to stop comes to its own exit and    *)
(* needs no timer that kills it.  A handler of an in-process queue may even  *)
(* hang.                                                                     *)
answered == \A c \in Calls : calls[c] \in {"none", "over"}

(* "Memoised: creating two BullMQ Queue objects for one name would open two  *)
(* sets of Redis connections for no benefit" (queue/factory.ts:193-194).     *)
(* getQueue() awaits between looking and registering, so two requests may    *)
(* build two; where the scheduler has registered its queues before, none do. *)
OneQueuePerName == hostsJobs => Cardinality(built) =< 1
=============================================================================
