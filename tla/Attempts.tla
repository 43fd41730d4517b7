------------------------------ MODULE Attempts ------------------------------
(***************************************************************************)
(* packages/runtime/src/resilience/retry.ts: withRetry() around            *)
(* withTimeout(), and mapWithConcurrency().                                *)
(*                                                                         *)
(* The operation of an attempt is given an abort signal and settles when   *)
(* it likes, at the latest some time after the signal.  The caller may     *)
(* abort the whole retry.  The items of a map are worked off by runners    *)
(* that share a cursor.                                                    *)
(***************************************************************************)
EXTENDS Integers, FiniteSets

CONSTANTS
  MaxAttempts,    \* maxAttempts
  Items,          \* number of items to map
  Concurrency     \* runners asked for

ASSUME AttemptsAssumption ==
  MaxAttempts \in Nat \ {0} /\ Items \in Nat /\ Concurrency \in Nat \ {0}

VARIABLES
  attempt,     \* attempt: the number of the loop, from 1
  stage,       \* of withRetry: "check", "running", "sleeping", "returned", "threw"
  timedOut,    \* the timer of this attempt has fired and aborted its signal
  working,     \* attempts whose operation has not settled
  reason,      \* the error thrown to the caller
  aborted,     \* the caller's signal
  cursor,      \* mapWithConcurrency: the next index, from 0
  runner,      \* what each runner does: an index, Free or Done
  settled      \* results: the index each entry was computed for

retryVars == <<attempt, stage, timedOut, working, reason, aborted>>
mapVars == <<cursor, runner, settled>>
attemptVars == <<retryVars, mapVars>>

Runners == 1..(IF Concurrency < Items THEN Concurrency ELSE Items)
Nothing == -1
Free == -1
Done == -2

attemptsInit ==
  /\ attempt = 1 /\ stage = "check" /\ timedOut = FALSE /\ working = {}
  /\ reason = "none" /\ aborted = FALSE
  /\ cursor = 0 /\ runner = [r \in Runners |-> Free]
  /\ settled = [i \in 0..(Items - 1) |-> Nothing]

-----------------------------------------------------------------------------
(* withRetry() and withTimeout()                                             *)

(* isTransientError(): timeouts and dropped connections are, cancellations   *)
(* and answers like 400 are not.                                             *)
isTransientError(error) == error \in {"ETIMEDOUT", "ECONNRESET", "status-503"}
errors == {"ETIMEDOUT", "ECONNRESET", "status-503", "status-400", "AbortError"}

(* The head of the loop.                                                     *)
begin ==
  /\ stage = "check"
  /\ IF aborted
     THEN /\ stage' = "threw" /\ reason' = "aborted"
          /\ UNCHANGED <<working, timedOut>>
     ELSE /\ stage' = "running" /\ working' = working \cup {attempt}
          /\ timedOut' = FALSE /\ UNCHANGED reason
  /\ UNCHANGED <<attempt, aborted, mapVars>>

(* Mutant: the call is rejected as soon as the timer fires.                  *)
timerFiresRaces ==
  /\ stage = "running" /\ ~timedOut /\ timedOut' = TRUE
  /\ stage' = IF attempt = MaxAttempts THEN "threw" ELSE "sleeping"
  /\ UNCHANGED <<attempt, working, reason, aborted, mapVars>>

(* The timer of withTimeout(): it aborts the operation's signal, and the     *)
(* call goes on waiting for the operation.                                   *)
timerFires ==
  /\ stage = "running" /\ ~timedOut /\ timedOut' = TRUE
  /\ UNCHANGED <<attempt, stage, working, reason, aborted, mapVars>>

(* The operation succeeds, in time or after its signal.                      *)
resolves ==
  /\ stage = "running" /\ attempt \in working
  /\ working' = working \ {attempt} /\ stage' = "returned"
  /\ UNCHANGED <<attempt, timedOut, reason, aborted, mapVars>>

(* It fails; after its signal, whatever it failed with is a timeout.         *)
rejects(error) ==
  LET caught == IF timedOut THEN "ETIMEDOUT" ELSE error IN
  /\ stage = "running" /\ attempt \in working
  /\ working' = working \ {attempt}
  /\ IF attempt = MaxAttempts \/ ~isTransientError(caught)
     THEN stage' = "threw" /\ reason' = caught
     ELSE stage' = "sleeping" /\ UNCHANGED reason
  /\ UNCHANGED <<attempt, timedOut, aborted, mapVars>>

(* The backoff is over.                                                      *)
wakes ==
  /\ stage = "sleeping" /\ stage' = "check" /\ attempt' = attempt + 1
  /\ UNCHANGED <<timedOut, working, reason, aborted, mapVars>>

(* The caller's signal.                                                      *)
abort ==
  /\ ~aborted /\ aborted' = TRUE /\ stage \in {"check", "running", "sleeping"}
  /\ UNCHANGED <<attempt, stage, timedOut, working, reason, mapVars>>

retryProgress == begin \/ resolves \/ wakes \/ \E error \in errors : rejects(error)
retryNext == retryProgress \/ timerFires \/ abort

-----------------------------------------------------------------------------
(* mapWithConcurrency()                                                      *)

(* Mutant: the cursor moves when the item is done.                           *)
takesLate(r) ==
  /\ runner[r] = Free
  /\ runner' = [runner EXCEPT ![r] = IF cursor >= Items THEN Done ELSE cursor]
  /\ UNCHANGED <<cursor, settled, retryVars>>

(* The body of a runner's loop up to its await.                              *)
takes(r) ==
  /\ runner[r] = Free
  /\ runner' = [runner EXCEPT ![r] = IF cursor >= Items THEN Done ELSE cursor]
  /\ cursor' = cursor + 1
  /\ UNCHANGED <<settled, retryVars>>

(* The worker settles, one way or the other.                                 *)
settles(r) ==
  /\ runner[r] \notin {Free, Done}
  /\ settled' = [settled EXCEPT ![runner[r]] = runner[r]]
  /\ runner' = [runner EXCEPT ![r] = Free]
  /\ UNCHANGED <<cursor, retryVars>>

mapNext == \E r \in Runners : takes(r) \/ settles(r)

-----------------------------------------------------------------------------
(* Properties                                                                *)

(* A retry never runs beside the attempt it replaces, not even beside one    *)
(* that timed out; a cancelled or refused operation is not tried again; and  *)
(* the caller is told the last error (withRetry(), withTimeout()).           *)
AttemptsAlone ==
  /\ Cardinality(working) <= 1 /\ working \subseteq {attempt} /\ attempt <= MaxAttempts
  /\ stage # "running" => working = {}
  /\ stage = "threw" => \/ reason = "aborted" /\ aborted
                        \/ reason # "none" /\ (attempt < MaxAttempts => ~isTransientError(reason))

(* However the runners overlap, no two work on one item, no more run than    *)
(* were asked for, and when all are done every item has its own result       *)
(* (mapWithConcurrency()).                                                   *)
EachItemOnce ==
  /\ \A r, q \in Runners : r # q /\ runner[r] \notin {Free, Done} => runner[r] # runner[q]
  /\ \A r \in Runners, i \in DOMAIN settled : runner[r] = i => settled[i] = Nothing
  /\ (\A r \in Runners : runner[r] = Done) => \A i \in DOMAIN settled : settled[i] = i
=============================================================================
