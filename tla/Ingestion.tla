------------------------------ MODULE Ingestion ------------------------------
(***************************************************************************)
(* The ingestion job: runIngestion()/execute() of                          *)
(* packages/jobs/src/jobs/ingestion.ts and the batched writes of           *)
(* packages/jobs/src/jobs/persist.ts.                                      *)
(*                                                                         *)
(* No transaction spans a run: every statement commits by itself, so each  *)
(* is an action, and a run can stop between any two of them.  A source     *)
(* revision is a number.  The records of the source are divided into the   *)
(* chunks of writeChunks(); every revision carries all of them, with new   *)
(* values, so a chunk of the apis table is the revision it was last        *)
(* written from.  Table 0 is apis, tables 1..4 are its child tables        *)
(* (categories, auth schemes, endpoints, health rows), whose rows refer to *)
(* apis and are inserted once.                                             *)
(***************************************************************************)
EXTENDS Integers, FiniteSets

CONSTANTS
  Workers,        \* processes that may run an ingestion
  NumChunks,      \* the number of batches chunk() divides the records into
  CHUNK_SIZE,     \* the records in each of them ...
  LastRows,       \* ... but the last, which has the rest
  Unparsable,     \* the possible numbers of rows that do not parse
  MaxRevision,    \* bound: revisions the source goes through
  MaxFaults,      \* bound: statements that are rejected
  MaxCrashes,     \* bound: processes that die
  DryRuns         \* runs with --dry-run occur

ASSUME IngestionAssumption ==
  /\ NumChunks \in Nat \ {0} /\ CHUNK_SIZE \in Nat \ {0} /\ LastRows \in 1..CHUNK_SIZE
  /\ Unparsable \subseteq Nat
  /\ MaxRevision \in Nat \ {0} /\ MaxFaults \in Nat /\ MaxCrashes \in Nat
  /\ DryRuns \in BOOLEAN

VARIABLES
  source,       \* environment: the revision the source serves
  run,          \* where each worker's run is, and its local state
  previous,     \* ingestion_runs: revision of the succeeded run that finished last
  catalogue,    \* apis: the revision each chunk was written from
  children,     \* the chunks present in each child table
  counted,      \* categories.api_count: the chunks it counts
  faults, crashes,
  alone,        \* history: runs in progress that no other run overlapped
  mixed         \* history: runs overlapped, and none alone succeeded in full since

history == <<alone, mixed>>
vars == <<source, run, previous, catalogue, children, counted, faults, crashes, history>>

Chunks == 1..NumChunks
ChildTables == 1..4
Mapped == 1                   \* api_category_map, which api_count is taken from
Never == 0                    \* no revision
Revision == 1..MaxRevision

(* The records of a batch, of some batches, and of all of them.              *)
chunkRows(c) == IF c < NumChunks THEN CHUNK_SIZE ELSE LastRows
rows(chunks) ==
  CHUNK_SIZE * Cardinality(chunks \ {NumChunks}) + (IF NumChunks \in chunks THEN LastRows ELSE 0)
fetched == (NumChunks - 1) * CHUNK_SIZE + LastRows

Idle == [pc |-> "idle", force |-> FALSE, dryRun |-> FALSE, revision |-> Never,
         table |-> 0, chunk |-> 1, failed |-> 0]

Steps == {"idle", "fetch", "compare", "categories", "write", "refresh", "finish"}

TypeOK ==
  /\ source \in Revision
  /\ run \in [Workers ->
       [pc : Steps, force : BOOLEAN, dryRun : BOOLEAN, revision : Revision \cup {Never},
        table : 0..4, chunk : Chunks, failed : Nat]]
  /\ previous \in Revision \cup {Never}
  /\ catalogue \in [Chunks -> Revision \cup {Never}]
  /\ children \in [ChildTables -> SUBSET Chunks]
  /\ counted \subseteq Chunks
  /\ faults \in 0..MaxFaults /\ crashes \in 0..MaxCrashes
  /\ alone \subseteq Workers /\ mixed \in BOOLEAN

Init ==
  /\ source = 1
  /\ run = [w \in Workers |-> Idle]
  /\ previous = Never
  /\ catalogue = [c \in Chunks |-> Never]
  /\ children = [t \in ChildTables |-> {}]
  /\ counted = {}
  /\ faults = 0 /\ crashes = 0
  /\ alone = {} /\ mixed = FALSE

-----------------------------------------------------------------------------
(* Mutant: the lock is not taken.                                            *)
lockFreeAlways(w) == TRUE

(* Nobody else is importing.                                                 *)
lockFree(w) == \A v \in Workers \ {w} : run[v].pc = "idle"

(* The source publishes its next revision.                                   *)
publish ==
  /\ source < MaxRevision
  /\ source' = source + 1
  /\ UNCHANGED <<run, previous, catalogue, children, counted, faults, crashes, history>>

(* The run is recorded as running.                                           *)
begin(w, force, dryRun) ==
  /\ run[w].pc = "idle"
  /\ dryRun => DryRuns
  /\ run' = [run EXCEPT ![w] = [Idle EXCEPT !.pc = "fetch", !.force = force, !.dryRun = dryRun]]
  /\ UNCHANGED <<source, previous, catalogue, children, counted, faults, crashes>>

(* withRenewingLock() acquires the lock.                                     *)
start(w, force, dryRun) ==
  /\ lockFree(w) /\ begin(w, force, dryRun)
  /\ alone' = alone \cup {w} /\ UNCHANGED mixed

(* The lock does not keep the run out: cli/ingest.ts brings a lock of its    *)
(* own, and the lease of the other run may have lapsed.                      *)
startBeside(w, force, dryRun) ==
  /\ ~lockFree(w) /\ begin(w, force, dryRun)
  /\ alone' = {} /\ mixed' = TRUE

fetchSource(w) ==
  /\ run[w].pc = "fetch"
  /\ run' = [run EXCEPT ![w].pc = "compare", ![w].revision = source]
  /\ UNCHANGED <<source, previous, catalogue, children, counted, faults, crashes, history>>

(* The revision of the last succeeded run is read.  An unchanged source and  *)
(* a dry run go straight to finish(); otherwise the records are parsed,      *)
(* normalised and deduplicated.                                              *)
comparePrevious(w, unparsable) ==
  /\ run[w].pc = "compare"
  /\ run' = [run EXCEPT ![w] =
       IF ~run[w].force /\ previous = run[w].revision
         THEN [@ EXCEPT !.pc = "finish"]
         ELSE [@ EXCEPT !.pc = IF run[w].dryRun THEN "finish" ELSE "categories",
                        !.failed = unparsable]]
  /\ UNCHANGED <<source, previous, catalogue, children, counted, faults, crashes, history>>

(* One statement; the category ids it returns are known beforehand.          *)
persistCategories(w) ==
  /\ run[w].pc = "categories"
  /\ run' = [run EXCEPT ![w].pc = "write"]
  /\ UNCHANGED <<source, previous, catalogue, children, counted, faults, crashes, history>>

(* Mutant: the batch after the last one is looked for.                       *)
advancedPast(r) ==
  IF r.chunk =< NumChunks THEN [r EXCEPT !.chunk = @ + 1]
  ELSE IF r.table < 4 THEN [r EXCEPT !.table = @ + 1, !.chunk = 1]
  ELSE [r EXCEPT !.pc = "refresh"]

(* writeChunks() goes on to the next chunk, and persistApis() to the next    *)
(* table after the last chunk.                                               *)
advanced(r) ==
  IF r.chunk < NumChunks THEN [r EXCEPT !.chunk = @ + 1]
  ELSE IF r.table < 4 THEN [r EXCEPT !.table = @ + 1, !.chunk = 1]
  ELSE [r EXCEPT !.pc = "refresh"]

(* A child row needs the apis row it refers to.                              *)
referencesHold(table, c) == table > 0 => catalogue[c] # Never

(* Mutant: rows that exist are left as they are in the apis table too.       *)
writeChunkOnce(w) ==
  LET r == run[w]
  IN  /\ r.pc = "write" /\ referencesHold(r.table, r.chunk)
      /\ IF r.table = 0
           THEN /\ catalogue' = [catalogue EXCEPT ![r.chunk] = IF @ = Never THEN r.revision ELSE @]
                /\ UNCHANGED children
           ELSE /\ children' = [children EXCEPT ![r.table] = @ \cup {r.chunk}]
                /\ UNCHANGED catalogue
      /\ run' = [run EXCEPT ![w] = advanced(r)]
      /\ UNCHANGED <<source, previous, counted, faults, crashes, history>>

(* One chunk of one table is written: apis rows are updated when they exist, *)
(* child rows are left as they are.                                          *)
writeChunk(w) ==
  LET r == run[w]
  IN  /\ r.pc = "write" /\ referencesHold(r.table, r.chunk)
      /\ IF r.table = 0
           THEN /\ catalogue' = [catalogue EXCEPT ![r.chunk] = r.revision]
                /\ UNCHANGED children
           ELSE /\ children' = [children EXCEPT ![r.table] = @ \cup {r.chunk}]
                /\ UNCHANGED catalogue
      /\ run' = [run EXCEPT ![w] = advanced(r)]
      /\ UNCHANGED <<source, previous, counted, faults, crashes, history>>

(* Mutant: a lost chunk is logged and not counted.                           *)
lostUncounted(r) == advanced(r)

(* A failed chunk is counted and passed over.                                *)
lost(r) == advanced([r EXCEPT !.failed = @ + chunkRows(r.chunk)])

(* A chunk's statement is rejected, by a fault or by its foreign keys.       *)
loseChunk(w) ==
  LET r == run[w]
  IN  /\ r.pc = "write"
      /\ \/ ~referencesHold(r.table, r.chunk) /\ UNCHANGED faults
         \/ faults < MaxFaults /\ faults' = faults + 1
      /\ run' = [run EXCEPT ![w] = lost(r)]
      /\ UNCHANGED <<source, previous, catalogue, children, counted, crashes, history>>

(* The denormalised counts are refreshed from the category map.              *)
refreshCounts(w) ==
  /\ run[w].pc = "refresh"
  /\ counted' = children[Mapped]
  /\ run' = [run EXCEPT ![w].pc = "finish"]
  /\ UNCHANGED <<source, previous, catalogue, children, faults, crashes, history>>

(* The run is 'partial' when more than a tenth of its records failed.  The   *)
(* early finishes carry no failures and are always 'succeeded'.              *)
tolerated == fetched \div 10
succeeded(r) == r.dryRun \/ r.failed =< tolerated

(* History: the run was not skipped, and succeeded.                          *)
imported(r) == r.table = 4 /\ succeeded(r)

(* finish(): the run is closed with its revision and the lock released; as   *)
(* the succeeded run that finished last it is the one comparePrevious reads. *)
finish(w) ==
  /\ run[w].pc = "finish"
  /\ previous' = IF succeeded(run[w]) THEN run[w].revision ELSE previous
  /\ run' = [run EXCEPT ![w] = Idle]
  /\ alone' = alone \ {w}
  /\ mixed' = (mixed /\ ~(w \in alone /\ imported(run[w])))
  /\ UNCHANGED <<source, catalogue, children, counted, faults, crashes>>

(* Any other statement throws: the run is closed as 'failed'.                *)
fail(w) ==
  /\ run[w].pc \notin {"idle", "write"} /\ faults < MaxFaults
  /\ faults' = faults + 1
  /\ run' = [run EXCEPT ![w] = Idle]
  /\ alone' = alone \ {w}
  /\ UNCHANGED <<source, previous, catalogue, children, counted, crashes, mixed>>

(* The process dies; the run stays 'running' for ever and its lease lapses.  *)
crash(w) ==
  /\ run[w].pc # "idle" /\ crashes < MaxCrashes
  /\ crashes' = crashes + 1
  /\ run' = [run EXCEPT ![w] = Idle]
  /\ alone' = alone \ {w}
  /\ UNCHANGED <<source, previous, catalogue, children, counted, faults, mixed>>

execute(w) ==
  \/ fetchSource(w)
  \/ \E unparsable \in Unparsable : comparePrevious(w, unparsable)
  \/ persistCategories(w) \/ writeChunk(w) \/ loseChunk(w)
  \/ refreshCounts(w) \/ finish(w)

Next ==
  \/ publish
  \/ \E w \in Workers :
       \/ \E force, dryRun \in BOOLEAN :
            start(w, force, dryRun) \/ startBeside(w, force, dryRun)
       \/ execute(w) \/ fail(w) \/ crash(w)

(* The scheduler repeats the import every day (scheduler.ts:100) and every   *)
(* statement of a run returns.                                               *)
Fairness ==
  /\ \A w \in Workers : WF_vars(execute(w))
  /\ SF_vars(\E w \in Workers : start(w, FALSE, FALSE))

Spec == Init /\ [][Next]_vars
FairSpec == Spec /\ Fairness

-----------------------------------------------------------------------------
(* Properties                                                                *)

(* Everything the source serves is in the database.                          *)
Applied ==
  /\ \A c \in Chunks : catalogue[c] = source
  /\ \A t \in ChildTables : children[t] = Chunks
  /\ counted = Chunks

(* The batches of a table that are not in the database as the source has     *)
(* them; a batch of the category map counts as missing until it is counted.  *)
outdated(table) ==
  IF table = 0 THEN {c \in Chunks : catalogue[c] # source}
  ELSE {c \in Chunks : c \notin children[table] \/ (table = Mapped /\ c \notin counted)}

(* What is behind, all tables together, is no more than what a run may lose  *)
(* and still succeed.                                                        *)
rowsBehind ==
  rows(outdated(0)) + rows(outdated(1)) + rows(outdated(2)) + rows(outdated(3)) + rows(outdated(4))
Tolerable == rowsBehind =< tolerated

upToDate == previous = source /\ ~mixed /\ \A w \in Workers : run[w].pc = "idle"

(* The claim of ingestion.ts:165-166, "An identical payload means there is   *)
(* nothing to do".  It does not hold of a dry run, nor of a run that lost a  *)
(* batch and succeeded.                                                      *)
NothingToDo == upToDate => Applied

(* Whenever no run is in progress and the next one would be skipped, because *)
(* the source is at the revision of the last succeeded run, what is behind   *)
(* that revision in all tables together, the counts included, is no more     *)
(* than the failures a run may have.  Overlapping runs break it; one run     *)
(* alone that succeeds restores it.                                          *)
LittleToDo == upToDate => Tolerable

(* The tables are of their types, and what the last success promises holds   *)
(* (ingestion.ts:165-181, 271).                                              *)
IngestionConsistent == TypeOK /\ LittleToDo

(* No record goes back to an older revision of a source that only moves      *)
(* forward, unless runs overlapped and none has gone through since.          *)
NeverStepsBack ==
  [][~mixed => \A c \in Chunks : catalogue[c] =< catalogue'[c]]_vars

(* Once the source stops changing, repeated runs bring it into the database, *)
(* whatever was rejected or cut short on the way, all but what a run may     *)
(* lose and still succeed: a run that did not finish is never taken for one  *)
(* that did (ingestion.ts:169-181).  Only the traces of overlapping runs may *)
(* stay.                                                                     *)
Converges == <>[](Tolerable \/ mixed)
==============================================================================
