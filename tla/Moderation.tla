------------------------------ MODULE Moderation -----------------------------
(***************************************************************************)
(* Privileged actions and their audit log: AdminService (apps/api/src/     *)
(* modules/admin/service.ts) behind the routes of routes/admin.ts.  Staff  *)
(* change the status of an API, or have the worker import or reindex.      *)
(***************************************************************************)
EXTENDS Integers, FiniteSets, Sequences

CONSTANTS
  Requests,         \* handles of requests in progress
  Roles,            \* roles of the people who make them
  Statuses,         \* statuses an API may be given
  MaxAudits         \* bound: audit rows

ASSUME ModerationAssumption ==
  /\ Statuses # {} /\ "job" \notin Statuses /\ IsFiniteSet(Requests) /\ MaxAudits \in Nat

VARIABLES
  status,       \* the API's status
  jobs,         \* imports and reindexings handed to the queues
  auditLog,
  request,
  changes,      \* history: privileged actions that took effect
  unaudited,    \* history: those whose audit entry could not be written
  overlapped    \* history: a status was read while another change was under way

moderationVars == <<status, jobs, auditLog, request, changes, unaudited, overlapped>>

noRequest == [step |-> "none", from |-> "none", to |-> "none"]
job == [from |-> "job", to |-> "job"]

ModerationTypeOK ==
  /\ status \in Statuses /\ jobs \in 0..MaxAudits
  /\ \A k \in DOMAIN auditLog : auditLog[k] \in [from : Statuses, to : Statuses] \cup {job}
  /\ \A r \in Requests : request[r].step \in {"none", "select", "update", "add", "audit"}
  /\ changes \in 0..MaxAudits /\ unaudited \in 0..MaxAudits /\ overlapped \in BOOLEAN

ModerationInit ==
  /\ status \in Statuses /\ jobs = 0 /\ auditLog = <<>>
  /\ request = [r \in Requests |-> noRequest]
  /\ changes = 0 /\ unaudited = 0 /\ overlapped = FALSE

-----------------------------------------------------------------------------
at(r, step) == request[r].step = step
becomes(r, next) == request' = [request EXCEPT ![r] = next]

ROLE_RANK == [user |-> 1, moderator |-> 2, admin |-> 3]

(* hasRole(): a higher rank satisfies any requirement at or below it.        *)
hasRank(role, required) == ROLE_RANK[role] >= ROLE_RANK[required]

(* A request passes requireRole(), or is rejected with 401 or 403.  Changing *)
(* a status takes a moderator; the rest takes an admin.                      *)
requireRole(r, role, to) ==
  /\ at(r, "none")
  /\ IF to \in Statuses
     THEN hasRank(role, "moderator")
          /\ becomes(r, [step |-> "select", from |-> "none", to |-> to])
     ELSE hasRank(role, "admin") /\ becomes(r, [step |-> "add", from |-> "none", to |-> "none"])
  /\ UNCHANGED <<status, jobs, auditLog, changes, unaudited, overlapped>>

(* updateApiStatus(): the row is read, ...                                   *)
selectStatus(r) ==
  /\ at(r, "select")
  /\ becomes(r, [request[r] EXCEPT !.step = "update", !.from = status])
  /\ overlapped' = (overlapped \/ \E q \in Requests : at(q, "update") \/ at(q, "audit"))
  /\ UNCHANGED <<status, jobs, auditLog, changes, unaudited>>

(* ... its status written, ...                                               *)
updateStatus(r) ==
  /\ at(r, "update") /\ changes < MaxAudits
  /\ status' = request[r].to
  /\ becomes(r, [request[r] EXCEPT !.step = "audit"])
  /\ changes' = changes + 1
  /\ UNCHANGED <<jobs, auditLog, unaudited, overlapped>>

(* triggerIngestion(), triggerReindex(): a job is added to the queue.        *)
addJob(r) ==
  /\ at(r, "add") /\ changes < MaxAudits
  /\ jobs' = jobs + 1
  /\ becomes(r, [step |-> "audit", from |-> "job", to |-> "job"])
  /\ changes' = changes + 1
  /\ UNCHANGED <<status, auditLog, unaudited, overlapped>>

(* Mutant: the audit entry tells the status it finds when it is written.     *)
auditAfterwards(r) ==
  /\ at(r, "audit")
  /\ auditLog' = Append(auditLog, IF request[r].from = "job" THEN job
                                  ELSE [from |-> status, to |-> request[r].to])
  /\ becomes(r, noRequest)
  /\ UNCHANGED <<status, jobs, changes, unaudited, overlapped>>

(* ... and audit() tells what was read at the start and what was written.    *)
(* Events that follow change nothing here.                                   *)
audit(r) ==
  /\ at(r, "audit")
  /\ auditLog' = Append(auditLog, [from |-> request[r].from, to |-> request[r].to])
  /\ becomes(r, noRequest)
  /\ UNCHANGED <<status, jobs, changes, unaudited, overlapped>>

(* A statement or the queue rejects: what was done before stays done.        *)
rejects(r) ==
  /\ ~at(r, "none")
  /\ becomes(r, noRequest)
  /\ unaudited' = IF at(r, "audit") THEN unaudited + 1 ELSE unaudited
  /\ UNCHANGED <<status, jobs, auditLog, changes, overlapped>>

ModerationNext ==
  \E r \in Requests :
    \/ \E role \in Roles, to \in Statuses \cup {"job"} : requireRole(r, role, to)
    \/ selectStatus(r) \/ updateStatus(r) \/ addJob(r) \/ audit(r) \/ rejects(r)

-----------------------------------------------------------------------------
(* Properties                                                                *)

(* Two changes of the status with none between them in the log.              *)
follows(k, l) ==
  /\ k < l /\ auditLog[k] # job /\ auditLog[l] # job
  /\ \A i \in (k + 1)..(l - 1) : auditLog[i] = job

(* Every privileged action is audited once, unless writing the entry fails   *)
(* after the action (admin/service.ts:203-215, routes/admin.ts:40-50); and   *)
(* the entries tell the history of the status without a gap, unless changes  *)
(* overlap or one is not audited.                                            *)
AuditTells ==
  /\ Len(auditLog) + unaudited =
       changes - Cardinality({r \in Requests : at(r, "audit")})
  /\ ~overlapped /\ unaudited = 0 =>
       \A k, l \in DOMAIN auditLog : follows(k, l) => auditLog[k].to = auditLog[l].from
==============================================================================
