------------------------------ MODULE Migrations -----------------------------
(***************************************************************************)
(* The migration runner: runMigrations() of packages/database/src/migrate.ts*)
(* as the API instances, the worker and the CLI call it when they start.   *)
(*                                                                         *)
(* Nothing keeps two runners apart and no transaction is opened: every     *)
(* handle.execute() commits by itself.  A file's content, and so its       *)
(* checksum, is a version number; a statement can be run again, like       *)
(* CREATE OR REPLACE or DROP ... IF EXISTS, or is rejected the second time,*)
(* like CREATE TABLE.                                                      *)
(***************************************************************************)
EXTENDS Integers, Sequences

CONSTANTS
  Runners,      \* processes that migrate before they serve
  Repeatable,   \* for each file, in order: which of its statements can be run again
  MaxVersion,   \* bound: contents a file goes through
  MaxFaults     \* bound: statements and connections that fail, processes that die

ASSUME MigrationAssumption ==
  /\ Repeatable \in Seq(Seq(BOOLEAN)) /\ Repeatable # <<>>
  /\ \A m \in 1..Len(Repeatable) : Repeatable[m] # <<>>
  /\ MaxVersion \in Nat \ {0} /\ MaxFaults \in Nat

Files == 1..Len(Repeatable)
Last(m) == Len(Repeatable[m])
Versions == 1..MaxVersion
Absent == 0

VARIABLES
  deployed,     \* environment: the version of each file in the current release
  ledger,       \* __apihub_migrations: the version recorded for each file, or Absent
  executed,     \* <<m, k, v>>: statement k of file m took effect, in its version v
  pc,           \* where each runner is
  seen,         \* the ledger as the runner read it
  loaded,       \* the files as the runner loaded them
  at, step,     \* the file and the statement the runner has come to
  faults,
  cut           \* history: a fault stopped a runner inside a file

run == <<pc, seen, loaded, at, step>>
vars == <<deployed, ledger, executed, run, faults, cut>>

TypeOK ==
  /\ deployed \in [Files -> Versions]
  /\ ledger \in [Files -> Versions \cup {Absent}]
  /\ executed \subseteq Files \X Nat \X Versions
  /\ pc \in [Runners -> {"off", "read", "execute", "record", "serving"}]
  /\ seen \in [Runners -> [Files -> Versions \cup {Absent}]]
  /\ loaded \in [Runners -> [Files -> Versions]]
  /\ at \in [Runners -> Files] /\ step \in [Runners -> Nat]
  /\ faults \in 0..MaxFaults /\ cut \in BOOLEAN

Init ==
  /\ deployed = [m \in Files |-> 1]
  /\ ledger = [m \in Files |-> Absent]
  /\ executed = {}
  /\ pc = [r \in Runners |-> "off"]
  /\ seen = [r \in Runners |-> ledger]
  /\ loaded = [r \in Runners |-> deployed]
  /\ at = [r \in Runners |-> 1] /\ step = [r \in Runners |-> 1]
  /\ faults = 0 /\ cut = FALSE

-----------------------------------------------------------------------------
(* A release edits a file.                                                   *)
edit(m) ==
  /\ deployed[m] < MaxVersion
  /\ deployed' = [deployed EXCEPT ![m] = @ + 1]
  /\ UNCHANGED <<ledger, executed, run, faults, cut>>

(* A process starts, or is restarted; the ledger table is there.             *)
start(r) ==
  /\ pc[r] \in {"off", "serving"}
  /\ pc' = [pc EXCEPT ![r] = "read"]
  /\ UNCHANGED <<deployed, ledger, executed, seen, loaded, at, step, faults, cut>>

(* Mutant: a recorded file is passed over without comparing checksums.       *)
skippedUnchecked(r, m) == seen'[r][m] # Absent

(* A recorded file whose checksum is still the same is passed over.          *)
skipped(r, m) == seen'[r][m] = loaded'[r][m]

(* Mutant: the file after the next pending one is taken.                     *)
proceedPast(r, m) ==
  /\ pc' = [pc EXCEPT ![r] = "execute"]
  /\ at' = [at EXCEPT ![r] = m + 1]
  /\ step' = [step EXCEPT ![r] = 1]

(* The loop over the files, from file m to the next one that has statements  *)
(* to execute; the process serves when there is none.  A recorded file that  *)
(* has changed makes it throw, and the process exits.                        *)
proceed(r, m) ==
  \/ /\ \A n \in m..Len(Repeatable) : skipped(r, n)
     /\ pc' = [pc EXCEPT ![r] = "serving"]
     /\ UNCHANGED <<at, step>>
  \/ \E n \in m..Len(Repeatable) :
       /\ \A i \in m..(n - 1) : skipped(r, i)
       /\ ~skipped(r, n)
       /\ pc' = [pc EXCEPT ![r] = IF seen'[r][n] = Absent THEN "execute" ELSE "off"]
       /\ at' = [at EXCEPT ![r] = n]
       /\ step' = [step EXCEPT ![r] = 1]

(* The ledger is read, once, and the files are loaded.                       *)
readLedger(r) ==
  /\ pc[r] = "read"
  /\ seen' = [seen EXCEPT ![r] = ledger]
  /\ loaded' = [loaded EXCEPT ![r] = deployed]
  /\ proceed(r, 1)
  /\ UNCHANGED <<deployed, ledger, executed, faults, cut>>

(* The database accepts the statement.                                       *)
accepts(m, k) == Repeatable[m][k] \/ \A v \in Versions : <<m, k, v>> \notin executed

(* Mutant: the last statement is forgotten.                                  *)
moreAfterButLast(r) == step[r] < Last(at[r]) - 1

moreAfter(r) == step[r] < Last(at[r])

execute(r) ==
  /\ pc[r] = "execute" /\ accepts(at[r], step[r])
  /\ executed' = executed \cup {<<at[r], step[r], loaded[r][at[r]]>>}
  /\ pc' = [pc EXCEPT ![r] = IF moreAfter(r) THEN "execute" ELSE "record"]
  /\ step' = [step EXCEPT ![r] = @ + 1]
  /\ UNCHANGED <<deployed, ledger, seen, loaded, at, faults, cut>>

(* Mutant: a rejected statement is logged and its file passed over.          *)
rejectedPassesOver(r) ==
  /\ pc[r] = "execute" /\ ~accepts(at[r], step[r])
  /\ UNCHANGED <<deployed, ledger, executed, seen, loaded, faults, cut>>
  /\ proceed(r, at[r] + 1)

(* The database rejects the statement: runMigrations() throws and the        *)
(* process exits.                                                            *)
rejected(r) ==
  /\ pc[r] = "execute" /\ ~accepts(at[r], step[r])
  /\ pc' = [pc EXCEPT ![r] = "off"]
  /\ UNCHANGED <<deployed, ledger, executed, seen, loaded, at, step, faults, cut>>

(* Mutant: the file is not recorded.                                         *)
recordNothing(r) ==
  /\ pc[r] = "record"
  /\ UNCHANGED <<deployed, ledger, executed, seen, loaded, faults, cut>>
  /\ proceed(r, at[r] + 1)

(* The file is recorded, unless another runner has recorded it by now: its   *)
(* name is the primary key.                                                  *)
record(r) ==
  /\ pc[r] = "record"
  /\ \/ /\ ledger[at[r]] = Absent
        /\ ledger' = [ledger EXCEPT ![at[r]] = loaded[r][at[r]]]
        /\ UNCHANGED <<seen, loaded>>
        /\ proceed(r, at[r] + 1)
     \/ /\ ledger[at[r]] # Absent
        /\ pc' = [pc EXCEPT ![r] = "off"]
        /\ UNCHANGED <<ledger, seen, loaded, at, step>>
  /\ UNCHANGED <<deployed, executed, faults, cut>>

(* A statement fails for a reason of its own, the connection is lost or the  *)
(* process dies.                                                             *)
fault(r) ==
  /\ pc[r] \notin {"off", "serving"} /\ faults < MaxFaults
  /\ faults' = faults + 1
  /\ cut' = (cut \/ pc[r] = "record" \/ (pc[r] = "execute" /\ step[r] > 1))
  /\ pc' = [pc EXCEPT ![r] = "off"]
  /\ UNCHANGED <<deployed, ledger, executed, seen, loaded, at, step>>

migrate(r) == readLedger(r) \/ execute(r) \/ rejected(r) \/ record(r)

Next ==
  \/ \E m \in Files : edit(m)
  \/ \E r \in Runners : start(r) \/ migrate(r) \/ fault(r)

(* Processes are restarted by their orchestrator and statements return.      *)
Fairness == \A r \in Runners : WF_vars(start(r)) /\ WF_vars(migrate(r))

Spec == Init /\ [][Next]_vars
FairSpec == Spec /\ Fairness

-----------------------------------------------------------------------------
(* Properties                                                                *)

tookEffect(m, k) == \E v \in Versions : <<m, k, v>> \in executed

(* The ledger tells the truth: of a recorded file every statement has taken  *)
(* effect, in the version whose checksum is recorded, whatever runners were  *)
(* racing or died on the way (migrate.ts:130-151).                           *)
RecordedIsApplied ==
  \A m \in Files : ledger[m] # Absent =>
    \A k \in 1..Last(m) : <<m, k, ledger[m]>> \in executed

(* No statement takes effect before the files ahead of its own are recorded: *)
(* a runner that loses a race never goes on to a later file.                 *)
AppliedInOrder ==
  \A e \in executed : \A n \in 1..(e[1] - 1) : ledger[n] # Absent

(* A process serves only when every file it was released with is recorded in *)
(* just that version: an applied file that was edited is refused, "instead   *)
(* of silently diverging between environments" (migrate.ts:14-16).           *)
ServesItsRelease ==
  \A r \in Runners : pc[r] = "serving" => ledger = loaded[r]

(* The ledger can be relied on: by runners, for what has been applied and in *)
(* which order, and by the processes that serve (migrate.ts:92-155).         *)
LedgerSound == TypeOK /\ RecordedIsApplied /\ AppliedInOrder /\ ServesItsRelease

(* A recorded file that has been edited.                                     *)
Refused == \E m \in Files : ledger[m] \notin {Absent, deployed[m]}

(* Starting several instances at once is safe: racing runners make one       *)
(* another exit, but unless a fault cuts a file short or an applied file is  *)
(* edited, all files get recorded (apps/api/src/index.ts:40-41).             *)
Migrates == <>(cut \/ Refused \/ \A m \in Files : ledger[m] # Absent)

(* The claim of README.md:112-113, "PGlite and node-postgres both wrap each  *)
(* migration file in a transaction and roll back on failure": of a file that *)
(* is not recorded and on which nobody works, nothing has taken effect.      *)
AllOrNothing ==
  \A m \in Files :
    (ledger[m] = Absent /\ \A r \in Runners : pc[r] \in {"execute", "record"} => at[r] # m)
      => \A k \in 1..Last(m) : ~tookEffect(m, k)
==============================================================================
