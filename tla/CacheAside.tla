------------------------------ MODULE CacheAside -----------------------------
(***************************************************************************)
(* The cache of the API instances: CacheService over its stores            *)
(* (packages/runtime/src/cache/) and the events that invalidate it         *)
(* (packages/runtime/src/events.ts, as apps/api/src/modules/catalog wires  *)
(* them), for one key.                                                     *)
(*                                                                         *)
(* With Redis an instance has an in-process L1, `near`, in front of the    *)
(* shared store; without, `near` is all there is.  What the key stands for *)
(* is the version of its row in the database.  A call of getOrSet() that   *)
(* runs the loader is itself the handle of that load.                      *)
(***************************************************************************)
EXTENDS Integers, FiniteSets

CONSTANTS
  Instances,    \* API processes
  Calls,        \* handles of getOrSet() calls; bounds the calls in progress
  MaxWrites     \* bound: changes of the row

Worker == "worker"     \* the worker process, which has no cache
NoEntry == -1
NoLoad == "none"

ASSUME CacheAssumption ==
  /\ Worker \notin Instances /\ NoLoad \notin Calls
  /\ MaxWrites \in Nat

VARIABLES
  redis,        \* TRUE: L1 and Redis; FALSE: in-process only
  db,           \* the row
  shared,       \* the entry in Redis
  near,         \* the entry in the process of each instance
  inFlight,     \* the single-flight registry of each instance
  pc, home, value, load,  \* each call: its step, instance, value read, load it joined
  tasks,        \* event handlers at work, and events under way to instances
  disturbed     \* history: instances that did not hear of a write, or whose caches
                \* were filled by a load that a write overtook

call == <<pc, home, value, load>>
vars == <<redis, db, shared, near, inFlight, call, tasks, disturbed>>

Version == 0..MaxWrites
Entry == Version \cup {NoEntry}
loading == {"query", "fillShared", "fillNear", "finally"}

TypeOK ==
  /\ redis \in BOOLEAN /\ db \in Version /\ shared \in Entry
  /\ near \in [Instances -> Entry]
  /\ inFlight \in [Instances -> Calls \cup {NoLoad}]
  /\ pc \in [Calls -> {"idle", "near", "shared", "promote", "join", "wait"} \cup loading]
  /\ home \in [Calls -> Instances] /\ value \in [Calls -> Entry]
  /\ load \in [Calls -> Calls \cup {NoLoad}]
  /\ tasks \subseteq [write : Version, at : Instances \cup {Worker},
                      peer : BOOLEAN, step : {"shared", "near", "publish"}]
  /\ disturbed \subseteq Instances

Init ==
  /\ redis \in BOOLEAN /\ db = 0 /\ shared = NoEntry
  /\ near = [i \in Instances |-> NoEntry]
  /\ inFlight = [i \in Instances |-> NoLoad]
  /\ pc = [c \in Calls |-> "idle"]
  /\ home \in [Calls -> Instances]
  /\ value = [c \in Calls |-> NoEntry] /\ load = [c \in Calls |-> NoLoad]
  /\ tasks = {} /\ disturbed = {}

-----------------------------------------------------------------------------
(* getOrSet()                                                                *)

Goes(c, step) == pc' = [pc EXCEPT ![c] = step]
Returns(cs) ==
  /\ pc' = [c \in Calls |-> IF c \in cs THEN "idle" ELSE pc[c]]
  /\ value' = [c \in Calls |-> IF c \in cs THEN NoEntry ELSE value[c]]
  /\ load' = [c \in Calls |-> IF c \in cs THEN NoLoad ELSE load[c]]

getOrSet(c, forceRefresh) ==
  /\ pc[c] = "idle"
  /\ Goes(c, IF forceRefresh THEN "join" ELSE "near")
  /\ UNCHANGED <<redis, db, shared, near, inFlight, home, value, load, tasks, disturbed>>

(* Mutant: a hit in the L1 refreshes the shared store.                       *)
getNearRefreshing(c) ==
  /\ pc[c] = "near"
  /\ \/ /\ near[home[c]] # NoEntry
        /\ Returns({c})
        /\ shared' = IF redis THEN near[home[c]] ELSE shared
     \/ /\ near[home[c]] = NoEntry
        /\ Goes(c, IF redis THEN "shared" ELSE "join")
        /\ UNCHANGED <<shared, value, load>>
  /\ UNCHANGED <<redis, db, near, inFlight, home, tasks, disturbed>>

(* get(): the in-process store.                                              *)
getNear(c) ==
  /\ pc[c] = "near"
  /\ \/ near[home[c]] # NoEntry /\ Returns({c})
     \/ /\ near[home[c]] = NoEntry
        /\ Goes(c, IF redis THEN "shared" ELSE "join")
        /\ UNCHANGED <<value, load>>
  /\ UNCHANGED <<redis, db, shared, near, inFlight, home, tasks, disturbed>>

(* get(): Redis; an error is a miss.                                         *)
getShared(c) ==
  /\ pc[c] = "shared"
  /\ \/ /\ shared # NoEntry
        /\ Goes(c, "promote") /\ value' = [value EXCEPT ![c] = shared]
     \/ Goes(c, "join") /\ UNCHANGED value
  /\ UNCHANGED <<redis, db, shared, near, inFlight, home, load, tasks, disturbed>>

(* get(): a shared hit is promoted to the L1 and returned.                   *)
promote(c) ==
  /\ pc[c] = "promote"
  /\ near' = [near EXCEPT ![home[c]] = value[c]]
  /\ Returns({c})
  /\ UNCHANGED <<redis, db, shared, inFlight, home, tasks, disturbed>>

(* Mutant: a load in flight is not looked for.                               *)
registeredNever(i) == FALSE

registered(i) == inFlight[i] # NoLoad

(* A load in flight is joined, or a new one started and registered.          *)
join(c) ==
  /\ pc[c] = "join"
  /\ \/ /\ registered(home[c])
        /\ Goes(c, "wait") /\ load' = [load EXCEPT ![c] = inFlight[home[c]]]
        /\ UNCHANGED inFlight
     \/ /\ ~registered(home[c])
        /\ Goes(c, "query") /\ inFlight' = [inFlight EXCEPT ![home[c]] = c]
        /\ UNCHANGED load
  /\ UNCHANGED <<redis, db, shared, near, home, value, tasks, disturbed>>

(* The loader reads the row, or finds nothing worth storing: an empty result *)
(* is kept only with cacheEmpty.                                             *)
query(c) ==
  /\ pc[c] = "query"
  /\ \/ /\ value' = [value EXCEPT ![c] = db]
        /\ Goes(c, IF redis THEN "fillShared" ELSE "fillNear")
     \/ Goes(c, "finally") /\ UNCHANGED value
  /\ UNCHANGED <<redis, db, shared, near, inFlight, home, load, tasks, disturbed>>

(* set(): Redis, whose errors are swallowed.                                 *)
fillShared(c) ==
  /\ pc[c] = "fillShared"
  /\ \/ /\ shared' = value[c]
        /\ disturbed' = IF value[c] = db THEN disturbed ELSE Instances
     \/ UNCHANGED <<shared, disturbed>>
  /\ Goes(c, "fillNear")
  /\ UNCHANGED <<redis, db, near, inFlight, home, value, load, tasks>>

(* set(): the in-process store.                                              *)
fillNear(c) ==
  /\ pc[c] = "fillNear"
  /\ near' = [near EXCEPT ![home[c]] = value[c]]
  /\ disturbed' = IF value[c] = db THEN disturbed ELSE disturbed \cup {home[c]}
  /\ Goes(c, "finally")
  /\ UNCHANGED <<redis, db, shared, inFlight, home, value, load, tasks>>

joined(c) == {c} \cup {d \in Calls : pc[d] = "wait" /\ load[d] = c}

(* The finally block, after the fill; whatever load is registered is         *)
(* unregistered, and every call that joined this one returns with it.        *)
finally(c) ==
  /\ pc[c] = "finally"
  /\ inFlight' = [inFlight EXCEPT ![home[c]] = NoLoad]
  /\ Returns(joined(c))
  /\ UNCHANGED <<redis, db, shared, near, home, tasks, disturbed>>

(* Mutant: only a load that succeeds is unregistered.                        *)
queryFailsRegistered(c) ==
  /\ pc[c] = "query"
  /\ Returns(joined(c))
  /\ UNCHANGED <<redis, db, shared, near, inFlight, home, tasks, disturbed>>

(* The loader rejects: the finally block runs and every joined call rejects. *)
queryFails(c) ==
  /\ pc[c] = "query"
  /\ inFlight' = [inFlight EXCEPT ![home[c]] = NoLoad]
  /\ Returns(joined(c))
  /\ UNCHANGED <<redis, db, shared, near, home, tasks, disturbed>>

-----------------------------------------------------------------------------
(* Invalidation                                                              *)

Task(w, i, peer, step) == [write |-> w, at |-> i, peer |-> peer, step |-> step]
firstStep == IF redis THEN "shared" ELSE "near"

(* The row changes and the writing process emits the event.  The worker has  *)
(* no subscribers and only publishes; without Redis nobody else is told.     *)
write(p) ==
  /\ db < MaxWrites
  /\ db' = db + 1
  /\ tasks' = tasks \cup
       (IF p # Worker THEN {Task(db', p, FALSE, firstStep)}
        ELSE IF redis THEN {Task(db', Worker, FALSE, "publish")} ELSE {})
  /\ disturbed' = IF redis THEN disturbed ELSE disturbed \cup (Instances \ {p})
  /\ UNCHANGED <<redis, shared, near, inFlight, call>>

(* SCAN compares the pattern with the whole key.  ioredis puts its keyPrefix *)
(* before the keys of commands, and not before the pattern, so none matches. *)
scanFindsKey == FALSE

(* RedisCacheStore.deletePattern(); a failed scan removes nothing either.    *)
deletePatternShared(t) ==
  /\ t \in tasks /\ t.step = "shared"
  /\ shared' = IF scanFindsKey THEN NoEntry ELSE shared
  /\ tasks' = (tasks \ {t}) \cup {[t EXCEPT !.step = "near"]}
  /\ UNCHANGED <<redis, db, near, inFlight, call, disturbed>>

(* Mutant: an event that has been handled is not forgotten.                  *)
afterwardsKept(t) ==
  {[t EXCEPT !.step = IF redis /\ ~t.peer THEN "publish" ELSE "handled"]}

(* What an event handler does next: the process that emitted the event       *)
(* publishes it once its own subscribers are done, if there is Redis.        *)
afterwards(t) == IF redis /\ ~t.peer THEN {[t EXCEPT !.step = "publish"]} ELSE {}

(* Mutant: the in-process store is forgotten.                                *)
deletePatternNearNot(t) ==
  /\ t \in tasks /\ t.step = "near"
  /\ tasks' = (tasks \ {t}) \cup afterwards(t)
  /\ UNCHANGED <<redis, db, shared, near, inFlight, call, disturbed>>

(* MemoryCacheStore.deletePattern().                                         *)
deletePatternNear(t) ==
  /\ t \in tasks /\ t.step = "near"
  /\ near' = [near EXCEPT ![t.at] = NoEntry]
  /\ tasks' = (tasks \ {t}) \cup afterwards(t)
  /\ UNCHANGED <<redis, db, shared, inFlight, call, disturbed>>

(* Redis delivers the event to the instances that are listening, the one     *)
(* that published it included; publishing may fail, and messages get lost.   *)
publish(t, told) ==
  /\ t \in tasks /\ t.step = "publish"
  /\ tasks' = (tasks \ {t}) \cup {Task(t.write, i, TRUE, "shared") : i \in told}
  /\ disturbed' = disturbed \cup (Instances \ (told \cup {t.at}))
  /\ UNCHANGED <<redis, db, shared, near, inFlight, call>>

(* Every entry has a time to live: jitterTtl() makes it at least a second.   *)
expireShared ==
  /\ shared # NoEntry
  /\ shared' = NoEntry
  /\ UNCHANGED <<redis, db, near, inFlight, call, tasks, disturbed>>

(* An entry of the LRU expires or is evicted.                                *)
expireNear(i) ==
  /\ near[i] # NoEntry
  /\ near' = [near EXCEPT ![i] = NoEntry]
  /\ UNCHANGED <<redis, db, shared, inFlight, call, tasks, disturbed>>

-----------------------------------------------------------------------------
advance(c) ==
  \/ getNear(c) \/ getShared(c) \/ promote(c) \/ join(c)
  \/ query(c) \/ queryFails(c) \/ fillShared(c) \/ fillNear(c) \/ finally(c)

handle(t) ==
  \/ deletePatternShared(t) \/ deletePatternNear(t)
  \/ \E told \in SUBSET Instances : publish(t, told)

Next ==
  \/ \E c \in Calls : advance(c) \/ \E force \in BOOLEAN : getOrSet(c, force)
  \/ \E p \in Instances \cup {Worker} : write(p)
  \/ \E t \in tasks : handle(t)
  \/ expireShared
  \/ \E i \in Instances : expireNear(i)

(* Commands and queries return, since each has a timeout; events that were   *)
(* delivered are handled; entries expire.                                    *)
Fairness ==
  /\ \A c \in Calls : WF_vars(advance(c))
  /\ WF_vars(\E t \in tasks : handle(t))
  /\ WF_vars(expireShared) /\ \A i \in Instances : WF_vars(expireNear(i))

Spec == Init /\ [][Next]_vars
FairSpec == Spec /\ Fairness

-----------------------------------------------------------------------------
(* Properties                                                                *)

loads(i) == {c \in Calls : home[c] = i /\ pc[c] \in loading}

(* Single-flight: however calls interleave with one another, with expiry and *)
(* with invalidations, an instance runs one loader for the key at a time     *)
(* (cache-service.ts:103-109, 122-147).                                      *)
LoadsOnce == \A i \in Instances : Cardinality(loads(i)) =< 1

(* "Always clear, including on failure, so an error is not sticky"           *)
(* (cache-service.ts:139-142): whatever load is registered is still running, *)
(* so no call ever joins one that is over and whose error it would repeat.   *)
NotSticky ==
  \A i \in Instances : registered(i) => inFlight[i] \in loads(i)

(* The caches are of their types, loads run one at a time, and none that is  *)
(* over is joined (cache-service.ts:103-149).                                *)
CacheConsistent == TypeOK /\ LoadsOnce /\ NotSticky

(* In-process only: once the invalidations of an instance are done, it does  *)
(* not keep an outdated entry, unless a load was overtaken by the write or   *)
(* the write was made by another process.                                    *)
InvalidatedIsFresh ==
  ~redis => \A i \in Instances \ disturbed :
    (\A t \in tasks : t.at # i) => near[i] \in {NoEntry, db}

(* Whatever was lost, overtaken or not told, caches do not stay outdated:    *)
(* when the row no longer changes, every entry comes to be current for good. *)
Settles ==
  <>[](shared \in {NoEntry, db} /\ \A i \in Instances : near[i] \in {NoEntry, db})

(* The claim of cache-service.ts:158, "Targeted invalidation after a         *)
(* mutation": when every event has been handled, everybody was told and no   *)
(* load was overtaken, Redis holds no outdated entry.                        *)
TargetedInvalidation ==
  tasks = {} /\ disturbed = {} => shared \in {NoEntry, db}
==============================================================================
