------------------------------ MODULE LeaseLock ------------------------------
(***************************************************************************)
(* The locks that keep scheduled jobs from running twice at once           *)
(* (packages/runtime/src/resilience/lock.ts): one key, its lease, and the  *)
(* runs of withLock() and withRenewingLock() that compete for it.          *)
(*                                                                         *)
(* Redis executes each script atomically, so the store changes in one step *)
(* per command; what happens to the caller in the meantime (a long task, a *)
(* late renewal, a crash, a lost reply) is what the other actions are for. *)
(***************************************************************************)
EXTENDS Integers

CONSTANTS
  Runs,        \* handles of withLock()/withRenewingLock() calls; a run's token is itself
  Renewing,    \* the runs that came through withRenewingLock()
  Ttl,         \* length of a lease
  RenewEvery,  \* period of the renewal timer, ttlMs / 3
  MaxLag       \* how late the renewal timer may be

None == "none"

ASSUME LockAssumption ==
  /\ None \notin Runs /\ Renewing \subseteq Runs
  /\ Ttl \in Nat \ {0} /\ RenewEvery \in Nat \ {0} /\ MaxLag \in Nat

VARIABLES
  redis,       \* TRUE: RedisLockProvider; FALSE: MemoryLockProvider
  holder,      \* token stored under the key, or None
  lease,       \* what is left of it; a Redis key with no lease left is gone
  phase,       \* "idle", "running" its task, or "releasing"
  renewIn,     \* time to the next renewal of each run; negative when late
  granted,     \* history: what is left of the lease each run was last granted
  punctual     \* history: the running tasks whose every renewal so far was executed,
               \* each less than a lease after the one before

vars == <<redis, holder, lease, phase, renewIn, granted, punctual>>

TypeOK ==
  /\ redis \in BOOLEAN
  /\ holder \in Runs \cup {None}
  /\ lease \in 0..Ttl
  /\ phase \in [Runs -> {"idle", "running", "releasing"}]
  /\ renewIn \in [Runs -> -MaxLag..RenewEvery]
  /\ granted \in [Runs -> 0..Ttl]
  /\ punctual \subseteq Runs

-----------------------------------------------------------------------------
(* Mutant: a plain SET, which overwrites another run's lock.                 *)
vacantAlways == TRUE

(* SET NX, or the look-up in the map: nobody's unexpired token is there.     *)
vacant == holder = None \/ lease = 0

(* Mutant: no comparison of tokens.                                          *)
ownsAnything(h) == holder # None

(* GET key == token.  The map also answers for a lease that has run out, as  *)
(* long as nobody else has taken the lock.                                   *)
owns(h) == holder = h /\ (redis => lease > 0)

Init ==
  /\ redis \in BOOLEAN
  /\ holder = None /\ lease = 0
  /\ phase = [h \in Runs |-> "idle"]
  /\ renewIn = [h \in Runs |-> RenewEvery]
  /\ granted = [h \in Runs |-> 0]
  /\ punctual = {}

acquire(h) ==
  /\ phase[h] = "idle" /\ vacant
  /\ holder' = h /\ lease' = Ttl
  /\ phase' = [phase EXCEPT ![h] = "running"]
  /\ renewIn' = [renewIn EXCEPT ![h] = RenewEvery]
  /\ granted' = [granted EXCEPT ![h] = Ttl]
  /\ punctual' = IF h \in Renewing THEN punctual \cup {h} ELSE punctual

(* The SET was executed but its reply was lost: acquire() returns null and   *)
(* the key stays, under a token no run will ever release.                    *)
acquireReplyLost(h) ==
  /\ redis
  /\ phase[h] = "idle" /\ vacant
  /\ holder' = h /\ lease' = Ttl
  /\ UNCHANGED <<phase, renewIn, granted, punctual>>

(* Mutant: the renewal forgets to extend.                                    *)
extendNothing(h) ==
  /\ h \in Renewing /\ phase[h] = "running" /\ renewIn[h] =< 0
  /\ renewIn' = [renewIn EXCEPT ![h] = RenewEvery]
  /\ UNCHANGED <<holder, lease, phase, granted, punctual>>

(* The renewal timer fires and the script is executed.                       *)
extend(h) ==
  /\ h \in Renewing /\ phase[h] = "running" /\ renewIn[h] =< 0
  /\ renewIn' = [renewIn EXCEPT ![h] = RenewEvery]
  /\ \/ /\ owns(h)
        /\ lease' = Ttl
        /\ granted' = [granted EXCEPT ![h] = Ttl]
     \/ /\ ~owns(h)              \* lost; the task goes on, only a warning is logged
        /\ UNCHANGED <<lease, granted>>
  /\ UNCHANGED <<holder, phase, punctual>>

(* The renewal's command is lost; the task goes on.                          *)
extendFails(h) ==
  /\ redis
  /\ h \in Renewing /\ phase[h] = "running" /\ renewIn[h] =< 0
  /\ renewIn' = [renewIn EXCEPT ![h] = RenewEvery]
  /\ punctual' = punctual \ {h}
  /\ UNCHANGED <<holder, lease, phase, granted>>

(* The task returns or throws; the timer is cleared before the release.      *)
taskEnds(h) ==
  /\ phase[h] = "running"
  /\ phase' = [phase EXCEPT ![h] = "releasing"]
  /\ granted' = [granted EXCEPT ![h] = 0]
  /\ punctual' = punctual \ {h}
  /\ UNCHANGED <<holder, lease, renewIn>>

release(h) ==
  /\ phase[h] = "releasing"
  /\ phase' = [phase EXCEPT ![h] = "idle"]
  /\ IF owns(h) THEN holder' = None /\ lease' = 0 ELSE UNCHANGED <<holder, lease>>
  /\ UNCHANGED <<renewIn, granted, punctual>>

releaseFails(h) ==
  /\ redis
  /\ phase[h] = "releasing"
  /\ phase' = [phase EXCEPT ![h] = "idle"]
  /\ UNCHANGED <<holder, lease, renewIn, granted, punctual>>

(* A worker process dies; a Redis key survives it.                           *)
crash(h) ==
  /\ redis /\ phase[h] # "idle"
  /\ phase' = [phase EXCEPT ![h] = "idle"]
  /\ granted' = [granted EXCEPT ![h] = 0]
  /\ punctual' = punctual \ {h}
  /\ UNCHANGED <<holder, lease, renewIn>>

(* MemoryLockProvider.prune().                                               *)
prune ==
  /\ ~redis /\ holder # None /\ lease = 0
  /\ holder' = None
  /\ UNCHANGED <<lease, phase, renewIn, granted, punctual>>

(* Mutant: a lease goes on counting below zero.                              *)
CountDownPast(t) == t - 1

CountDown(t) == IF t > 0 THEN t - 1 ELSE 0

(* Time passes, but no renewal is ever later than MaxLag.                    *)
elapse ==
  /\ \A h \in Renewing : phase[h] = "running" => renewIn[h] > -MaxLag
  /\ lease' = CountDown(lease)
  /\ granted' = [h \in Runs |-> CountDown(granted[h])]
  /\ renewIn' = [h \in Runs |-> IF h \in Renewing /\ phase[h] = "running"
                                  THEN renewIn[h] - 1 ELSE renewIn[h]]
  /\ punctual' = {h \in punctual : RenewEvery - renewIn'[h] < Ttl}
  /\ UNCHANGED <<holder, phase>>

Next ==
  /\ UNCHANGED redis
  /\ \/ \E h \in Runs : \/ acquire(h) \/ acquireReplyLost(h)
                        \/ extend(h) \/ extendFails(h)
                        \/ taskEnds(h) \/ release(h) \/ releaseFails(h)
                        \/ crash(h)
     \/ prune \/ elapse

Spec == Init /\ [][Next]_vars

-----------------------------------------------------------------------------
(* Properties                                                                *)

(* Two leases are never in force at once, whatever crashes, commands are     *)
(* lost, or tasks outlive their lease (lock.ts:65-100, 130-154).             *)
LeaseExclusion ==
  \A g, h \in Runs : granted[g] > 0 /\ granted[h] > 0 => g = h

(* A run whose lease has not run out keeps the lock until it gives it up:    *)
(* a late release or renewal by an earlier holder never takes it away, "the  *)
(* classic mistake" of lock.ts:42-43.                                        *)
HeldUntilExpiry ==
  [][\A h \in Runs :
       phase[h] = "running" /\ phase'[h] = "running" /\ holder = h /\ lease > 0
         => holder' = h]_vars

(* The point of withRenewingLock(): a task whose renewals are executed in    *)
(* time holds the lock however long it takes, so two such tasks never run at *)
(* once, whatever else competes for the key (lock.ts:193-199).               *)
RenewedExclusion ==
  \A h \in punctual : phase[h] = "running" /\ holder = h /\ lease > 0

(* Locks exclude: leases do, whatever happens, and with them the tasks that  *)
(* are renewed in time (lock.ts).                                            *)
LocksExclude == TypeOK /\ LeaseExclusion /\ RenewedExclusion
==============================================================================
