------------------------------ MODULE MCServices ------------------------------
(***************************************************************************)
(* The playground with the health probe, the life cycle of the API and     *)
(* worker processes, and the migrations they run when they start, for TLC: *)
(* the subject is the one that moves.                                      *)
(***************************************************************************)
EXTENDS Playground, Lifecycle, MCMigrations

VARIABLE subject

allVars == <<playVars, lifeVars, vars, subject>>

(* Two hosts, one of them over plain HTTP, and a URL with credentials in it; *)
(* what a name resolves to is chosen by every look-up.                       *)
Urls ==
  { [protocol |-> "https", credentials |-> FALSE, portAllowed |-> TRUE, kind |-> "name", host |-> "h1"],
    [protocol |-> "http", credentials |-> FALSE, portAllowed |-> TRUE, kind |-> "name", host |-> "h2"],
    [protocol |-> "https", credentials |-> TRUE, portAllowed |-> TRUE, kind |-> "name", host |-> "h1"] }

ServicesInit ==
  /\ subject \in {"playground", "probe", "process", "migrations"}
  /\ playInit
  /\ Init
  /\ lifeInit /\ (subject # "process" => role = "worker" /\ configured)

(* A step of one subject; what it does not mention stays as it is.           *)
Playing(A) == subject = "playground" /\ A /\ UNCHANGED <<lifeVars, vars, subject>>
Living(A) == subject = "process" /\ A /\ UNCHANGED <<playVars, vars, subject>>
Migrating(A) == subject = "migrations" /\ A /\ UNCHANGED <<playVars, lifeVars, subject>>

ServicesNext ==
  \/ Playing(playNext)
  \/ subject = "probe" /\ probeNext /\ UNCHANGED <<lifeVars, vars, subject>>
  \/ Living(lifeNext)
  \/ Migrating(Next)

(* Every step of a request is bounded by a timeout and the server goes on    *)
(* with it; nothing is assumed of how long a body goes on.  A shutdown goes  *)
(* on when what it waits for is there, and the deadline of an in-process     *)
(* queue is a timer; nothing is assumed of requests and jobs, nor of the     *)
(* forced exit.  Processes that migrate are restarted and their statements   *)
(* return, as in Migrations.                                                 *)
ServicesSpec ==
  /\ ServicesInit /\ [][ServicesNext]_allVars
  /\ \A s \in Sends : WF_allVars(Playing(progress(s)))
  /\ WF_allVars(Living(closeApp)) /\ WF_allVars(Living(deadlinePasses))
  /\ WF_allVars(Living(stopScheduler)) /\ WF_allVars(Living(closeAllQueues))
  /\ WF_allVars(Living(closeConnections)) /\ WF_allVars(Living(exits))
  /\ \A r \in Runners : WF_allVars(Migrating(start(r))) /\ WF_allVars(Migrating(migrate(r)))

-----------------------------------------------------------------------------
(* Every request is recorded once, as what it came to; whatever happens on   *)
(* the way its connection agents are closed and no more of a body is kept    *)
(* than the cap, exactly that much; and who sent it ends up with an answer   *)
(* or a notification (executor.ts, service.ts, http-probe.ts,                *)
(* Playground.tsx).                                                          *)
OutboundAccounted == RunsAccounted /\ AgentsClosed /\ BodyBounded /\ SenderHears

(* Processes start and stop in an order nobody suffers from: no database is  *)
(* closed under a request or a job, and where the process hosts the jobs     *)
(* there is one queue of a name, and no job lands in one without a handler.  *)
OrderlyProcess == ClosesLast /\ TriggersHandled /\ OneQueuePerName

(* The migrations of processes that start together all get recorded, see     *)
(* Migrations (migrate.ts:92-155).                                           *)
StartsMigrated == subject = "migrations" => Migrates
=============================================================================
