----------------------------- MODULE RateLimiting ----------------------------
(***************************************************************************)
(* The token buckets behind every rate limit (packages/algorithms/src/     *)
(* token-bucket.ts) and the limiters built from them (packages/runtime/    *)
(* src/resilience/rate-limiter.ts, apps/api/src/app/plugins/rate-limit.ts) *)
(* for one policy and one subject.                                         *)
(*                                                                         *)
(* Buckets are refilled lazily.  Tokens are fractional: they are counted   *)
(* here in units of 1/Window token, so that a tick of the clock is worth   *)
(* exactly Limit units.  The clock is that of the instance that is ahead;  *)
(* in-process buckets see only differences of their own.                   *)
(***************************************************************************)
EXTENDS Integers

CONSTANTS
  Instances,        \* API processes
  Limit, Window,    \* policy.limit requests per policy.windowSeconds
  Burst,            \* policy.burst
  MaxSkew,          \* how far the clock of an instance may be behind
  MaxTime           \* bound: ticks of the clock

ASSUME RateLimitAssumption ==
  /\ Limit \in Nat \ {0} /\ Window \in Nat \ {0} /\ Burst \in Nat \ {0}
  /\ MaxTime \in Nat /\ MaxSkew \in 0..MaxTime
  /\ Burst =< 2 * Limit      \* policy.burst is policy.limit wherever one is defined

VARIABLES
  distributed,  \* initRateLimiter() found Redis
  clock,
  behind,       \* how far the clock of each instance is behind
  shared,       \* the bucket in Redis
  local,        \* the generous bucket in front of it, in each instance
  own,          \* the bucket used without Redis, or when Redis fails
  sent,         \* the time in the script call an instance has under way
  watched,      \* history: the bucket of which the next two are about
  credit,       \* history: what it would hold were it refilled eagerly, and for
                \* the time, too, by which a script was late
  hint          \* history: when its last refused client was told to come back

limitVars == <<distributed, clock, behind, shared, local, own, sent, watched, credit, hint>>

Never == -1
NoBucket == [units |-> 0, at |-> Never, used |-> Never]
cost == Window                      \* one token
capacity == Burst * Window

Max0(n) == IF n > 0 THEN n ELSE 0
AtMost(n, bound) == IF n > bound THEN bound ELSE n

InRedis == <<"shared", "redis">>
Buckets == {InRedis} \cup ({"local", "own"} \X Instances)
scale(b) == IF b[1] = "local" THEN 2 ELSE 1
full(b) == scale(b) * capacity

Bucket(bound) == [units : 0..bound, at : 0..MaxTime, used : 0..MaxTime] \cup {NoBucket}

RateLimitTypeOK ==
  /\ distributed \in BOOLEAN /\ clock \in MaxSkew..MaxTime /\ behind \in [Instances -> 0..MaxSkew]
  /\ shared \in Bucket(capacity)
  /\ local \in [Instances -> Bucket(2 * capacity)]
  /\ own \in [Instances -> Bucket(capacity)]
  /\ sent \in [Instances -> 0..MaxTime \cup {Never}]
  /\ watched \in Buckets /\ credit \in Int /\ credit =< full(watched)
  /\ hint \in Nat \cup {Never}

RateLimitInit ==
  /\ distributed \in BOOLEAN /\ clock = MaxSkew
  /\ behind \in [Instances -> 0..MaxSkew] /\ \E i \in Instances : behind[i] = 0
  /\ shared = NoBucket
  /\ local = [i \in Instances |-> NoBucket] /\ own = [i \in Instances |-> NoBucket]
  /\ sent = [i \in Instances |-> Never]
  /\ watched \in Buckets /\ credit = full(watched)
  /\ hint = Never

-----------------------------------------------------------------------------
(* Token buckets                                                             *)

(* Mutant: a refill is not capped.                                           *)
refillUncapped(bucket, k, now) ==
  IF bucket = NoBucket THEN [units |-> k * capacity, at |-> now, used |-> clock]
  ELSE [units |-> bucket.units + k * Limit * Max0(now - bucket.at),
        at |-> now, used |-> clock]

(* refill(): what the time since the last update is worth, up to capacity;   *)
(* a missing bucket is a full one.  The script stores the caller's time even *)
(* if it is older than the one it finds.                                     *)
refill(bucket, k, now) ==
  IF bucket = NoBucket THEN [units |-> k * capacity, at |-> now, used |-> clock]
  ELSE [units |-> AtMost(bucket.units + k * Limit * Max0(now - bucket.at), k * capacity),
        at |-> now, used |-> clock]

allowed(bucket, k, now) == refill(bucket, k, now).units >= cost

(* Mutant: a refused request takes what there is.                            *)
consumeAnyway(bucket, k, now) ==
  LET b == refill(bucket, k, now) IN [b EXCEPT !.units = Max0(@ - cost)]

(* consume(): a refused request takes nothing, but its refill is stored.     *)
consume(bucket, k, now) ==
  LET b == refill(bucket, k, now) IN
    IF allowed(bucket, k, now) THEN [b EXCEPT !.units = @ - cost] ELSE b

(* retryAfterMs, rounded up.                                                 *)
retryAfter(bucket, k, now) ==
  LET missing == cost - refill(bucket, k, now).units
  IN (missing + k * Limit - 1) \div (k * Limit)

(* What a decision means for the history of the bucket that is watched: it   *)
(* takes so many units, and is late if it was asked for before.              *)
Charged(units, now) ==
  credit' = AtMost(credit - units + scale(watched) * Limit * (clock - now), full(watched))

Decides(b, bucket, now) ==
  IF b # watched THEN UNCHANGED <<credit, hint>>
  ELSE IF allowed(bucket, scale(b), now) THEN Charged(cost, now) /\ hint' = Never
  ELSE hint' = clock + retryAfter(bucket, scale(b), now) /\ Charged(0, now)

-----------------------------------------------------------------------------
(* Limiters                                                                  *)

(* MemoryRateLimiter.check()                                                 *)
checkOwn(i) ==
  /\ own' = [own EXCEPT ![i] = consume(own[i], 1, clock)]
  /\ Decides(<<"own", i>>, own[i], clock)

(* The hook calls check(): in process if that is all there is.  Otherwise    *)
(* LayeredRateLimiter asks its local bucket and, if that allows it, Redis.   *)
check(i) ==
  /\ sent[i] = Never
  /\ \/ ~distributed /\ checkOwn(i) /\ UNCHANGED <<local, sent>>
     \/ /\ distributed
        /\ local' = [local EXCEPT ![i] = consume(local[i], 2, clock)]
        /\ Decides(<<"local", i>>, local[i], clock)
        /\ sent' = [sent EXCEPT ![i] = IF allowed(local[i], 2, clock) THEN clock - behind[i] ELSE Never]
        /\ UNCHANGED own
  /\ UNCHANGED <<distributed, clock, behind, shared, watched>>

(* Redis runs TOKEN_BUCKET_SCRIPT, atomically, with the time of the caller.  *)
(* If the reply is lost the instance falls back on its own bucket.           *)
runScript(i, lost) ==
  /\ sent[i] # Never
  /\ shared' = consume(shared, 1, sent[i])
  /\ sent' = [sent EXCEPT ![i] = Never]
  /\ \/ ~lost /\ Decides(InRedis, shared, sent[i]) /\ UNCHANGED own
     \/ /\ lost /\ watched = InRedis /\ Charged(0, sent[i]) /\ hint' = Never
        /\ own' = [own EXCEPT ![i] = consume(own[i], 1, clock)]
     \/ lost /\ watched # InRedis /\ checkOwn(i)
  /\ UNCHANGED <<distributed, clock, behind, local, watched>>

(* Mutant: an error of Redis lets the request pass.                          *)
redisFailsOpen(i) ==
  /\ sent[i] # Never
  /\ sent' = [sent EXCEPT ![i] = Never]
  /\ credit' = IF watched = <<"own", i>> THEN credit - cost ELSE credit
  /\ UNCHANGED <<distributed, clock, behind, shared, local, own, watched, hint>>

(* The call does not reach Redis: the instance's own bucket decides.         *)
redisFails(i) ==
  /\ sent[i] # Never
  /\ sent' = [sent EXCEPT ![i] = Never]
  /\ checkOwn(i)
  /\ UNCHANGED <<distributed, clock, behind, shared, local, watched>>

(* The key lives for two windows after its last use.                         *)
expire ==
  /\ shared # NoBucket /\ clock - shared.used >= 2 * Window
  /\ shared' = NoBucket
  /\ UNCHANGED <<distributed, clock, behind, local, own, sent, watched, credit, hint>>

(* prune(): a bucket idle for long enough to be full is dropped.             *)
prunable(bucket) ==
  bucket # NoBucket /\ (clock - bucket.at) * Limit > capacity

prune(i) ==
  /\ prunable(local[i]) \/ prunable(own[i])
  /\ local' = [local EXCEPT ![i] = IF prunable(@) THEN NoBucket ELSE @]
  /\ own' = [own EXCEPT ![i] = IF prunable(@) THEN NoBucket ELSE @]
  /\ UNCHANGED <<distributed, clock, behind, shared, sent, watched, credit, hint>>

(* Time passes; the history is refilled as it does.                          *)
tick ==
  /\ clock < MaxTime
  /\ clock' = clock + 1
  /\ credit' = AtMost(credit + scale(watched) * Limit, full(watched))
  /\ UNCHANGED <<distributed, behind, shared, local, own, sent, watched, hint>>

RateLimitNext ==
  \/ \E i \in Instances :
       \/ check(i) \/ redisFails(i) \/ prune(i)
       \/ \E lost \in BOOLEAN : runScript(i, lost)
  \/ expire \/ tick

-----------------------------------------------------------------------------
(* Properties                                                                *)

(* No window of any length sees more requests allowed than burst plus rate   *)
(* times its length, although buckets are refilled lazily and forgotten when *)
(* idle, and, for the shared bucket, rate times what its scripts were late   *)
(* in all: one that runs with a time of the past, because it was delayed or  *)
(* its instance's clock is behind, has that time refilled again.  In-process *)
(* buckets keep to their limit whatever Redis does ("the limiter never fails *)
(* open", rate-limiter.ts:163).                                              *)
LimitHolds == credit >= 0

(* A refused client that comes back when it was told to, by the clock of any *)
(* instance and nobody else having been served meanwhile, finds a token      *)
(* (token-bucket.ts:90-91).                                                  *)
RetryAfterHonest ==
  hint # Never => \A now \in hint..clock :
    allowed(IF watched = InRedis THEN shared
            ELSE IF watched[1] = "local" THEN local[watched[2]] ELSE own[watched[2]],
            scale(watched), now)
==============================================================================
