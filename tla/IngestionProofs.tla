--------------------------- MODULE IngestionProofs ---------------------------
(***************************************************************************)
(* Safety of the ingestion job for any number of workers, batches and      *)
(* revisions, and any faults and crashes.                                  *)
(***************************************************************************)
EXTENDS Ingestion, FiniteSetTheorems, TLAPS

(* A run that no other overlapped has the database to itself, and until runs *)
(* overlap every run is such a run.                                          *)
Apart ==
  /\ \A w \in alone : run[w].pc # "idle" /\ \A v \in Workers \ {w} : run[v].pc = "idle"
  /\ ~mixed => \A w \in Workers : run[w].pc # "idle" => w \in alone

(* Nothing is ahead of the source.                                           *)
Behind ==
  /\ previous =< source
  /\ \A c \in Chunks : catalogue[c] =< source
  /\ \A w \in Workers : run[w].revision =< source

(* A run that has fetched the source carries a revision.                     *)
fetchedBy(r) == r.pc \notin {"idle", "fetch"}

(* What a run alone has fetched is no older than what is in the database or  *)
(* recorded: both were there before.                                         *)
Newest ==
  \A w \in alone : fetchedBy(run[w]) =>
    /\ previous =< run[w].revision
    /\ \A c \in Chunks : catalogue[c] =< run[w].revision

IInv == TypeOK /\ Apart /\ Behind /\ Newest

(* The record of a run.                                                      *)
Runs == [pc : Steps, force : BOOLEAN, dryRun : BOOLEAN, revision : Revision \cup {Never},
         table : 0..4, chunk : Chunks, failed : Nat]

USE IngestionAssumption DEF IngestionAssumption

-----------------------------------------------------------------------------
(* Where a run goes next is a run of the same revision.                      *)
LEMMA AdvancedOK ==
  ASSUME NEW r \in Runs, r.pc = "write"
  PROVE  /\ advanced(r) \in Runs /\ lost(r) \in Runs
         /\ advanced(r).pc \in {"write", "refresh"} /\ lost(r).pc \in {"write", "refresh"}
         /\ advanced(r).revision = r.revision /\ lost(r).revision = r.revision
         /\ advanced(r).dryRun = r.dryRun /\ lost(r).dryRun = r.dryRun
         /\ advanced(r).pc = "refresh" => advanced(r).table = 4
         /\ advanced(r).failed = r.failed
<1>1. ASSUME NEW q \in Runs, q.pc = "write"
      PROVE  /\ advanced(q) \in Runs /\ advanced(q).pc \in {"write", "refresh"}
             /\ advanced(q).revision = q.revision /\ advanced(q).dryRun = q.dryRun
             /\ advanced(q).pc = "refresh" => advanced(q).table = 4
             /\ advanced(q).failed = q.failed
  <2>1. CASE q.chunk < NumChunks
    <3>1. advanced(q) = [q EXCEPT !.chunk = @ + 1] /\ q.chunk + 1 \in Chunks
      BY <1>1, <2>1 DEF advanced, Runs, Chunks
    <3> QED
      BY <1>1, <3>1 DEF Runs
  <2>2. CASE ~(q.chunk < NumChunks) /\ q.table < 4
    <3>1. advanced(q) = [q EXCEPT !.table = @ + 1, !.chunk = 1] /\ q.table + 1 \in 0..4 /\ 1 \in Chunks
      BY <1>1, <2>2 DEF advanced, Runs, Chunks
    <3> QED
      BY <1>1, <3>1 DEF Runs
  <2>3. CASE ~(q.chunk < NumChunks) /\ ~(q.table < 4)
    <3>1. advanced(q) = [q EXCEPT !.pc = "refresh"] /\ q.table = 4
      BY <1>1, <2>3 DEF advanced, Runs, Chunks
    <3> QED
      BY <1>1, <3>1 DEF Runs, Steps
  <2> QED
    BY <2>1, <2>2, <2>3
<1>2. chunkRows(r.chunk) \in Nat
  BY DEF chunkRows
<1>3. /\ [r EXCEPT !.failed = @ + chunkRows(r.chunk)] \in Runs
      /\ [r EXCEPT !.failed = @ + chunkRows(r.chunk)].pc = "write"
      /\ [r EXCEPT !.failed = @ + chunkRows(r.chunk)].revision = r.revision
      /\ [r EXCEPT !.failed = @ + chunkRows(r.chunk)].dryRun = r.dryRun
  BY <1>2 DEF Runs
<1> QED
  BY <1>1, <1>3 DEF lost

(* No run in progress.                                                       *)
LEMMA IdleOK == Idle \in Runs /\ Idle.pc = "idle" /\ Idle.revision = Never /\ ~Idle.dryRun
  BY DEF Idle, Runs, Steps, Never, Chunks

(* The invariant holds at first.                                             *)
LEMMA InitOK == Init => IInv
<1> USE DEF Init
<1>1. Init => TypeOK
  <2>1. Init => run \in [Workers -> Runs]
    BY IdleOK
  <2>2. Init => source \in Revision /\ previous \in Revision \cup {Never}
    BY DEF Revision, Never
  <2>3. Init => catalogue \in [Chunks -> Revision \cup {Never}]
    BY DEF Never
  <2>4. Init => /\ children \in [ChildTables -> SUBSET Chunks] /\ counted \subseteq Chunks
                /\ faults \in 0..MaxFaults /\ crashes \in 0..MaxCrashes
                /\ alone \subseteq Workers
    OBVIOUS
  <2>5. Init => mixed \in BOOLEAN
    OBVIOUS
  <2> HIDE DEF Init
  <2> QED
    BY <2>1, <2>2, <2>3, <2>4, <2>5 DEF TypeOK, Runs
<1>2. Init => Apart /\ Behind /\ Newest
  BY IdleOK DEF Apart, Behind, Newest, Never
<1> QED
  BY <1>1, <1>2 DEF IInv

(* One run takes a step and leaves the database alone, or goes past fetch    *)
(* with the revision the source has.                                         *)
LEMMA RunOK ==
  ASSUME IInv, NEW w \in Workers, NEW r \in Runs, run' = [run EXCEPT ![w] = r],
         UNCHANGED <<source, previous, catalogue, children, counted, history>>,
         run[w].pc # "idle", r.pc \notin {"idle", "fetch"},
         (r.revision = run[w].revision /\ run[w].pc # "fetch") \/ r.revision = source,
         faults' \in 0..MaxFaults, crashes' \in 0..MaxCrashes
  PROVE  IInv'
<1> USE DEF IInv, history
<1>1. TypeOK'
  BY DEF TypeOK, Runs
<1>2. Apart'
  BY DEF TypeOK, Apart
<1>3. Behind'
  <2>1. \A v \in Workers : run'[v].revision =< source
    BY DEF TypeOK, Behind, Revision
  <2> QED
    BY <2>1 DEF Behind
<1>4. Newest'
  BY DEF TypeOK, Newest, Behind, Apart, fetchedBy
<1> QED
  BY <1>1, <1>2, <1>3, <1>4

(* One run ends, with or without recording its revision.                     *)
LEMMA EndOK ==
  ASSUME IInv, NEW w \in Workers, run[w].pc # "idle", run' = [run EXCEPT ![w] = Idle],
         UNCHANGED <<source, catalogue, children, counted>>,
         previous' \in {previous, run[w].revision}, alone' = alone \ {w},
         (mixed' = mixed) \/ (w \in alone), mixed' \in BOOLEAN,
         faults' \in 0..MaxFaults, crashes' \in 0..MaxCrashes
  PROVE  IInv'
<1> USE DEF IInv
<1>1. TypeOK'
  <2>1. run' \in [Workers -> Runs]
    BY IdleOK DEF TypeOK, Runs
  <2>2. previous' \in Revision \cup {Never}
    BY DEF TypeOK
  <2> QED
    BY <2>1, <2>2 DEF TypeOK, Runs
<1>2. Apart'
  BY IdleOK DEF TypeOK, Apart
<1>3. Behind'
  <2>1. previous' =< source
    BY DEF Behind
  <2>2. \A v \in Workers : run'[v].revision =< source
    BY IdleOK DEF TypeOK, Behind, Never, Revision
  <2> QED
    BY <2>1, <2>2 DEF Behind
<1>4. Newest'
  <2>1. \A v \in alone' : run[v].pc # "idle" /\ v # w /\ v \in Workers /\ v \in alone
    BY DEF Apart, TypeOK
  <2>2. alone' = {}
    BY <2>1 DEF Apart
  <2> QED
    BY <2>2 DEF Newest
<1> QED
  BY <1>1, <1>2, <1>3, <1>4

(* Each of the job's own steps keeps the invariant.                          *)
LEMMA ExecuteOK ==
  ASSUME IInv, NEW w \in Workers, execute(w)
  PROVE  IInv'
<1>0. /\ run \in [Workers -> Runs] /\ run[w] \in Runs /\ source \in Revision
      /\ faults \in 0..MaxFaults /\ crashes \in 0..MaxCrashes
  BY DEF IInv, TypeOK, Runs
<1>1. CASE fetchSource(w)
  <2> DEFINE r == [run[w] EXCEPT !.pc = "compare", !.revision = source]
  <2>1. r \in Runs /\ r.pc = "compare" /\ r.revision = source
    BY <1>0 DEF Runs, Steps
  <2>2. run' = [run EXCEPT ![w] = r]
    BY <1>0, <1>1 DEF fetchSource
  <2> HIDE DEF r
  <2> QED
    BY <1>0, <1>1, <2>1, <2>2, RunOK DEF fetchSource, history
<1>2. ASSUME NEW unparsable \in Unparsable, comparePrevious(w, unparsable) PROVE IInv'
  <2>1. PICK r \in Runs : run' = [run EXCEPT ![w] = r] /\ r.pc \in {"finish", "categories"}
                           /\ r.revision = run[w].revision
    <3> DEFINE r == IF ~run[w].force /\ previous = run[w].revision
                    THEN [run[w] EXCEPT !.pc = "finish"]
                    ELSE [run[w] EXCEPT !.pc = IF run[w].dryRun THEN "finish" ELSE "categories",
                                        !.failed = unparsable]
    <3>1. run' = [run EXCEPT ![w] = r]
      BY <1>0, <1>2 DEF comparePrevious
    <3>2. unparsable \in Nat
      OBVIOUS
    <3>3. r \in Runs /\ r.pc \in {"finish", "categories"} /\ r.revision = run[w].revision
      BY <1>0, <3>2 DEF Runs, Steps
    <3> QED
      BY <3>1, <3>3
  <2> QED
    BY <1>0, <1>2, <2>1, RunOK DEF comparePrevious, history
<1>3. CASE persistCategories(w)
  <2> DEFINE r == [run[w] EXCEPT !.pc = "write"]
  <2>1. r \in Runs /\ r.pc = "write" /\ r.revision = run[w].revision
    BY <1>0 DEF Runs, Steps
  <2>2. run' = [run EXCEPT ![w] = r]
    BY <1>0, <1>3 DEF persistCategories
  <2> HIDE DEF r
  <2> QED
    BY <1>0, <1>3, <2>1, <2>2, RunOK DEF persistCategories, history
<1>4. CASE writeChunk(w)
  <2> DEFINE r == advanced(run[w])
  <2>1. r \in Runs /\ r.pc \in {"write", "refresh"} /\ r.revision = run[w].revision
    BY <1>0, <1>4, AdvancedOK DEF writeChunk
  <2> HIDE DEF r
  <2>2. run' = [run EXCEPT ![w] = r] /\ run[w].pc = "write" /\ UNCHANGED <<source, previous>>
    BY <1>4 DEF writeChunk, r
  <2>3. run[w].chunk \in Chunks /\ run[w].table \in 0..4 /\ run[w].revision \in Revision \cup {Never}
    BY <1>0 DEF Runs
  <2>4. \/ /\ catalogue' = [catalogue EXCEPT ![run[w].chunk] = run[w].revision]
           /\ UNCHANGED children
        \/ /\ run[w].table \in ChildTables
           /\ children' = [children EXCEPT ![run[w].table] = @ \cup {run[w].chunk}]
           /\ UNCHANGED catalogue
    BY <1>4, <2>3 DEF writeChunk, ChildTables
  <2>5. TypeOK'
    <3>1. run' \in [Workers -> Runs]
      BY <1>0, <2>1, <2>2
    <3>2. catalogue' \in [Chunks -> Revision \cup {Never}] /\ children' \in [ChildTables -> SUBSET Chunks]
      BY <2>3, <2>4 DEF IInv, TypeOK
    <3> QED
      BY <1>4, <3>1, <3>2 DEF writeChunk, IInv, TypeOK, Runs, history
  <2>6. Apart'
    BY <1>4, <2>1, <2>2 DEF IInv, TypeOK, Apart, writeChunk, history
  <2>7. \A c \in Chunks : catalogue'[c] = catalogue[c] \/ catalogue'[c] = run[w].revision
    BY <2>3, <2>4 DEF IInv, TypeOK
  <2>8. Behind'
    BY <1>0, <2>1, <2>2, <2>7 DEF IInv, Behind
  <2>9. Newest'
    <3>1. \A v \in alone : run[v].pc # "idle" => v \in Workers
      BY DEF IInv, TypeOK
    <3>2. alone' = alone /\ \A v \in alone : v = w
      BY <1>4, <2>2 DEF writeChunk, history, IInv, Apart, TypeOK
    <3>3. w \in alone => previous =< run[w].revision /\ \A c \in Chunks : catalogue[c] =< run[w].revision
      BY <2>2 DEF IInv, Newest, fetchedBy
    <3>4. run[w].revision =< run[w].revision
      BY <2>3 DEF Revision, Never
    <3>5. run'[w].revision = run[w].revision
      BY <1>0, <2>1, <2>2
    <3> QED
      BY <2>2, <2>7, <3>2, <3>3, <3>4, <3>5 DEF Newest
  <2> QED
    BY <2>5, <2>6, <2>8, <2>9 DEF IInv
<1>5. CASE loseChunk(w)
  <2>1. faults' \in 0..MaxFaults
    BY <1>0, <1>5 DEF loseChunk
  <2> QED
    BY <1>0, <1>5, <2>1, AdvancedOK, RunOK DEF loseChunk, history
<1>6. CASE refreshCounts(w)
  <2> DEFINE r == [run[w] EXCEPT !.pc = "finish"]
  <2>1. r \in Runs /\ r.pc = "finish" /\ r.revision = run[w].revision
    BY <1>0 DEF Runs, Steps
  <2>2. run' = [run EXCEPT ![w] = r]
    BY <1>0, <1>6 DEF refreshCounts
  <2> HIDE DEF r
  <2>3. TypeOK'
    BY <1>0, <1>6, <2>1, <2>2 DEF refreshCounts, IInv, TypeOK, Runs, history, Mapped, ChildTables
  <2>4. Apart' /\ Behind'
    BY <1>0, <1>6, <2>1, <2>2 DEF refreshCounts, IInv, TypeOK, Apart, Behind, history
  <2>5. Newest'
    BY <1>0, <1>6, <2>1, <2>2 DEF refreshCounts, IInv, TypeOK, Newest, history, fetchedBy
  <2> QED
    BY <2>3, <2>4, <2>5 DEF IInv
<1>7. CASE finish(w)
  BY <1>0, <1>7, EndOK DEF finish, IInv, TypeOK
<1> QED
  BY <1>1, <1>2, <1>3, <1>4, <1>5, <1>6, <1>7 DEF execute

(* A run begins, alone or beside another, or is cut short; the source moves. *)
LEMMA NextOK == IInv /\ [Next]_vars => IInv'
<1>1. ASSUME IInv, publish PROVE IInv'
  <2>1. TypeOK' /\ Apart' /\ Newest'
    BY <1>1 DEF publish, IInv, TypeOK, Revision, Apart, Newest, fetchedBy, history
  <2>2. Behind'
    BY <1>1 DEF publish, IInv, TypeOK, Revision, Never, Behind
  <2> QED
    BY <2>1, <2>2 DEF IInv
<1>2. ASSUME IInv, NEW w \in Workers, NEW force \in BOOLEAN, NEW dryRun \in BOOLEAN,
             start(w, force, dryRun) \/ startBeside(w, force, dryRun)
      PROVE  IInv'
  <2>1. PICK r \in Runs : /\ run' = [run EXCEPT ![w] = r] /\ r.pc = "fetch" /\ r.revision = Never
                          /\ run[w].pc = "idle"
                          /\ UNCHANGED <<source, previous, catalogue, children, counted, faults, crashes>>
    <3> DEFINE r == [Idle EXCEPT !.pc = "fetch", !.force = force, !.dryRun = dryRun]
    <3>1. r \in Runs /\ r.pc = "fetch" /\ r.revision = Never
      BY IdleOK DEF Runs, Steps
    <3>2. run' = [run EXCEPT ![w] = r]
      BY <1>2 DEF start, startBeside, begin
    <3> HIDE DEF r
    <3> QED
      BY <1>2, <3>1, <3>2 DEF start, startBeside, begin
  <2>2. TypeOK'
    BY <1>2, <2>1 DEF start, startBeside, IInv, TypeOK, Runs
  <2>3. Apart'
    BY <1>2, <2>1 DEF start, startBeside, lockFree, IInv, TypeOK, Apart
  <2>4. Behind'
    BY <1>2, <2>1 DEF IInv, TypeOK, Behind, Never, Revision
  <2>5. Newest'
    BY <1>2, <2>1 DEF start, startBeside, IInv, TypeOK, Apart, lockFree, Newest, fetchedBy
  <2> QED
    BY <2>2, <2>3, <2>4, <2>5 DEF IInv
<1>3. ASSUME IInv, NEW w \in Workers, fail(w) \/ crash(w) PROVE IInv'
  <2>1. faults' \in 0..MaxFaults /\ crashes' \in 0..MaxCrashes /\ mixed \in BOOLEAN
    BY <1>3 DEF fail, crash, IInv, TypeOK
  <2> QED
    BY <1>3, <2>1, EndOK DEF fail, crash
<1>4. ASSUME IInv, UNCHANGED vars PROVE IInv'
  BY <1>4 DEF vars, history, IInv, TypeOK, Apart, Behind, Newest, fetchedBy
<1> QED
  BY <1>1, <1>2, <1>3, <1>4, ExecuteOK DEF Next

(* The invariant holds of every execution.                                   *)
LEMMA Inductive == Spec => []IInv
  BY InitOK, NextOK, PTL DEF Spec

(* Whatever is rejected or dies, no record goes back to an older revision    *)
(* before runs overlap (ingestion.ts:110-134, persist.ts:212-235).           *)
THEOREM NoStepBack == Spec => NeverStepsBack
<1> DEFINE forward == ~mixed => \A c \in Chunks : catalogue[c] =< catalogue'[c]
<1>1. ASSUME IInv PROVE \A c \in Chunks : catalogue[c] =< catalogue[c]
  BY <1>1 DEF IInv, TypeOK, Revision, Never
<1>2. ASSUME IInv, NEW w \in Workers, writeChunk(w) PROVE forward
  <2>1. SUFFICES ASSUME ~mixed PROVE \A c \in Chunks : catalogue[c] =< catalogue'[c]
    OBVIOUS
  <2>2. w \in alone /\ fetchedBy(run[w])
    BY <1>2, <2>1 DEF writeChunk, IInv, Apart, fetchedBy
  <2>3. \A c \in Chunks : catalogue[c] =< run[w].revision
    BY <1>2, <2>2 DEF IInv, Newest
  <2>4. \A c \in Chunks : catalogue'[c] = catalogue[c] \/ catalogue'[c] = run[w].revision
    <3>1. \/ catalogue' = catalogue
          \/ catalogue' = [catalogue EXCEPT ![run[w].chunk] = run[w].revision]
      BY <1>2 DEF writeChunk
    <3>2. catalogue \in [Chunks -> Revision \cup {Never}]
      BY <1>2, Zenon DEF IInv, TypeOK
    <3> QED
      BY <3>1, <3>2
  <2> QED
    BY <1>1, <1>2, <2>3, <2>4
<1>3. ASSUME Next, \A w \in Workers : ~writeChunk(w) PROVE catalogue' = catalogue
  <2>1. ASSUME NEW w \in Workers, execute(w), ~writeChunk(w) PROVE catalogue' = catalogue
    <3>1. fetchSource(w) \/ (\E u \in Unparsable : comparePrevious(w, u)) => catalogue' = catalogue
      BY DEF fetchSource, comparePrevious
    <3>2. persistCategories(w) \/ loseChunk(w) => catalogue' = catalogue
      BY DEF persistCategories, loseChunk
    <3>3. refreshCounts(w) \/ finish(w) => catalogue' = catalogue
      BY DEF refreshCounts, finish
    <3> QED
      BY <2>1, <3>1, <3>2, <3>3, Zenon DEF execute
  <2>2. ASSUME NEW w \in Workers, fail(w) \/ crash(w) PROVE catalogue' = catalogue
    BY <2>2 DEF fail, crash
  <2>3. ASSUME NEW w \in Workers, NEW force \in BOOLEAN, NEW dryRun \in BOOLEAN,
               start(w, force, dryRun) \/ startBeside(w, force, dryRun)
        PROVE  catalogue' = catalogue
    BY <2>3 DEF start, startBeside, begin
  <2>4. publish => catalogue' = catalogue
    BY DEF publish
  <2> QED
    BY <1>3, <2>1, <2>2, <2>3, <2>4, Zenon DEF Next
<1>4. ASSUME IInv, catalogue' = catalogue PROVE forward
  BY <1>1, <1>4
<1>5. IInv /\ [Next]_vars => [forward]_vars
  BY <1>2, <1>3, <1>4
<1> QED
  BY <1>5, Inductive, PTL DEF Spec, NeverStepsBack

-----------------------------------------------------------------------------
(* Where the loops of a run stand at each of its steps.                      *)
LoopsAt(r) ==
  /\ r.dryRun => DryRuns
  /\ r.pc \in {"fetch", "compare", "categories"} => r.table = 0 /\ r.chunk = 1
  /\ r.pc = "refresh" => r.table = 4
  /\ r.pc = "finish" => r.table = 4 \/ (r.table = 0 /\ r.chunk = 1)
Loops == \A w \in Workers : LoopsAt(run[w])

(* The batches of a table that the loops of a run have passed without having *)
(* them in the database, in the revision the run fetched.                    *)
passed(r, table, c) == table < r.table \/ (table = r.table /\ (c < r.chunk \/ r.pc # "write"))
missing(r, table) ==
  {c \in Chunks : passed(r, table, c) /\ IF table = 0 THEN catalogue[c] # r.revision
                                         ELSE c \notin children[table]}
rowsMissing(r) ==
  rows(missing(r, 0)) + rows(missing(r, 1)) + rows(missing(r, 2)) + rows(missing(r, 3)) + rows(missing(r, 4))

(* For a run alone what it has written stays, so that what it passed and is  *)
(* not there it has counted as failed; and what it compared with is still    *)
(* what is recorded.                                                         *)
inLoops(r) == r.pc \in {"write", "refresh"} \/ (r.pc = "finish" /\ r.table = 4)
Progress ==
  \A w \in alone :
    /\ inLoops(run[w]) => rowsMissing(run[w]) =< run[w].failed
    /\ run[w].pc = "finish" /\ run[w].table = 4 => counted = children[1]
    /\ run[w].pc = "finish" /\ run[w].table = 0 => previous = run[w].revision

(* Until runs overlap, a recorded revision that the source still serves is   *)
(* in the database but for what a run may lose, even while one is running.   *)
Current == ~mixed /\ previous = source => Tolerable

JInv == Loops /\ Progress /\ Current

(* The rows of some batches are no fewer than those of fewer batches, and a  *)
(* batch adds no more than its own.                                          *)
LEMMA RowsGrow ==
  ASSUME NEW S \in SUBSET Chunks, NEW T \in SUBSET Chunks, S \subseteq T
  PROVE  rows(S) \in Nat /\ rows(T) \in Nat /\ rows(S) =< rows(T)
<1> DEFINE a == Cardinality(S \ {NumChunks})
           b == Cardinality(T \ {NumChunks})
<1>1. IsFiniteSet(T \ {NumChunks})
  <2>1. IsFiniteSet(Chunks)
    BY FS_Interval DEF Chunks
  <2> QED
    BY <2>1, FS_Subset
<1>2. a \in Nat /\ b \in Nat /\ a =< b
  <2>1. S \ {NumChunks} \subseteq T \ {NumChunks}
    OBVIOUS
  <2> QED
    BY <1>1, <2>1, FS_Subset, FS_CardinalityType
<1> HIDE DEF a, b
<1>3. CHUNK_SIZE * a \in Nat /\ CHUNK_SIZE * b \in Nat /\ CHUNK_SIZE * a =< CHUNK_SIZE * b
  BY <1>2
<1>4. /\ rows(S) = CHUNK_SIZE * a + (IF NumChunks \in S THEN LastRows ELSE 0)
      /\ rows(T) = CHUNK_SIZE * b + (IF NumChunks \in T THEN LastRows ELSE 0)
  BY DEF rows, a, b
<1> DEFINE x == CHUNK_SIZE * a
           y == CHUNK_SIZE * b
<1>5. x \in Nat /\ y \in Nat /\ x =< y
  BY <1>3
<1>6. /\ rows(S) = x + (IF NumChunks \in S THEN LastRows ELSE 0)
      /\ rows(T) = y + (IF NumChunks \in T THEN LastRows ELSE 0)
  BY <1>4
<1> HIDE DEF x, y
<1> QED
  BY <1>5, <1>6

LEMMA RowsAdded ==
  ASSUME NEW S \in SUBSET Chunks, NEW c \in Chunks
  PROVE  rows(S \cup {c}) =< rows(S) + chunkRows(c)
<1>1. CASE c = NumChunks
  <2>1. (S \cup {c}) \ {NumChunks} = S \ {NumChunks}
    BY <1>1
  <2>2. rows(S) \in Nat
    BY RowsGrow
  <2> DEFINE x == CHUNK_SIZE * Cardinality(S \ {NumChunks})
  <2>3. /\ rows(S) = x + (IF NumChunks \in S THEN LastRows ELSE 0)
        /\ rows(S \cup {c}) = x + LastRows
    BY <1>1, <2>1 DEF rows
  <2>4. x \in Nat
    <3>1. IsFiniteSet(Chunks)
      BY FS_Interval DEF Chunks
    <3>2. IsFiniteSet(S \ {NumChunks})
      BY <3>1, FS_Subset
    <3>3. PICK k \in Nat : k = Cardinality(S \ {NumChunks})
      BY <3>2, FS_CardinalityType
    <3>4. CHUNK_SIZE * k \in Nat
      OBVIOUS
    <3> QED
      BY <3>3, <3>4
  <2> HIDE DEF x
  <2> QED
    BY <1>1, <2>3, <2>4 DEF chunkRows
<1>2. CASE c # NumChunks
  <2> DEFINE U == S \ {NumChunks}
             a == Cardinality(U)
             b == Cardinality(U \cup {c})
  <2>1. (S \cup {c}) \ {NumChunks} = U \cup {c}
    BY <1>2
  <2>2. a \in Nat /\ b \in Nat /\ b =< a + 1
    <3>1. IsFiniteSet(Chunks)
      BY FS_Interval DEF Chunks
    <3>2. IsFiniteSet(U)
      BY <3>1, FS_Subset
    <3>3. PICK m \in Nat : m = Cardinality(U)
      BY <3>2, FS_CardinalityType
    <3>4. b = IF c \in U THEN m ELSE m + 1
      BY <3>2, <3>3, FS_AddElement
    <3> QED
      BY <3>3, <3>4
  <2>3. /\ rows(S) = CHUNK_SIZE * a + (IF NumChunks \in S THEN LastRows ELSE 0)
        /\ rows(S \cup {c}) = CHUNK_SIZE * b + (IF NumChunks \in S THEN LastRows ELSE 0)
    BY <1>2, <2>1 DEF rows
  <2>4. chunkRows(c) = CHUNK_SIZE
    BY <1>2 DEF chunkRows, Chunks
  <2> HIDE DEF a, b
  <2>5. CHUNK_SIZE * b =< CHUNK_SIZE * (a + 1) /\ CHUNK_SIZE * (a + 1) = CHUNK_SIZE * a + CHUNK_SIZE
    BY <2>2
  <2>6. CHUNK_SIZE * a \in Nat /\ CHUNK_SIZE * b \in Nat
    BY <2>2
  <2> DEFINE x == CHUNK_SIZE * a
             y == CHUNK_SIZE * b
  <2>7. /\ x \in Nat /\ y \in Nat /\ y =< x + CHUNK_SIZE
        /\ rows(S) = x + (IF NumChunks \in S THEN LastRows ELSE 0)
        /\ rows(S \cup {c}) = y + (IF NumChunks \in S THEN LastRows ELSE 0)
    BY <2>3, <2>5, <2>6
  <2> HIDE DEF x, y
  <2> QED
    BY <2>4, <2>7
<1> QED
  BY <1>1, <1>2

(* So for the five tables together, where one of them may gain a batch.      *)
Total(S) == rows(S[0]) + rows(S[1]) + rows(S[2]) + rows(S[3]) + rows(S[4])

LEMMA TotalGrows ==
  ASSUME NEW S \in [0..4 -> SUBSET Chunks], NEW T \in [0..4 -> SUBSET Chunks],
         \A t \in 0..4 : S[t] \subseteq T[t]
  PROVE  Total(S) \in Nat /\ Total(T) \in Nat /\ Total(S) =< Total(T)
<1>1. \A t \in 0..4 : rows(S[t]) \in Nat /\ rows(T[t]) \in Nat /\ rows(S[t]) =< rows(T[t])
  BY RowsGrow
<1> QED
  BY <1>1 DEF Total

LEMMA TotalAdded ==
  ASSUME NEW S \in [0..4 -> SUBSET Chunks], NEW T \in [0..4 -> SUBSET Chunks],
         NEW u \in 0..4, NEW c \in Chunks,
         \A t \in 0..4 : S[t] \subseteq IF t = u THEN T[t] \cup {c} ELSE T[t]
  PROVE  Total(S) =< Total(T) + chunkRows(c)
<1>1. chunkRows(c) \in Nat
  BY DEF chunkRows
<1>2. \A t \in 0..4 : /\ rows(S[t]) \in Nat /\ rows(T[t]) \in Nat
                      /\ t # u => rows(S[t]) =< rows(T[t])
  BY RowsGrow
<1>3. rows(S[u]) =< rows(T[u]) + chunkRows(c)
  <2>1. S[u] \subseteq T[u] \cup {c} /\ T[u] \cup {c} \in SUBSET Chunks
    OBVIOUS
  <2>2. rows(S[u]) =< rows(T[u] \cup {c}) /\ rows(T[u] \cup {c}) \in Nat
    BY <2>1, RowsGrow
  <2>3. rows(T[u] \cup {c}) =< rows(T[u]) + chunkRows(c)
    BY RowsAdded
  <2> QED
    BY <1>1, <1>2, <2>2, <2>3
<1> QED
  BY <1>1, <1>2, <1>3 DEF Total

(* What a run misses and what is behind, as such functions.                  *)
Missing(r) == [t \in 0..4 |-> missing(r, t)]
Outdated == [t \in 0..4 |-> outdated(t)]

LEMMA Totals ==
  /\ \A r : Missing(r) \in [0..4 -> SUBSET Chunks] /\ rowsMissing(r) = Total(Missing(r))
  /\ Outdated \in [0..4 -> SUBSET Chunks] /\ rowsBehind = Total(Outdated)
  BY DEF Missing, Outdated, missing, outdated, rowsMissing, rowsBehind, Total

LEMMA TotalsNext ==
  /\ \A r : Missing(r)' \in [0..4 -> SUBSET Chunks] /\ rowsMissing(r)' = Total(Missing(r)')
  /\ Outdated' \in [0..4 -> SUBSET Chunks] /\ rowsBehind' = Total(Outdated')
  BY DEF Missing, Outdated, missing, outdated, rowsMissing, rowsBehind, Total

(* A run goes past one batch at a time.                                      *)
LEMMA PassedNext ==
  ASSUME NEW r \in Runs, r.pc = "write"
  PROVE  \A t \in 0..4, c \in Chunks :
           passed(advanced(r), t, c) <=> passed(r, t, c) \/ (t = r.table /\ c = r.chunk)
<1>0. r.chunk \in 1..NumChunks /\ r.table \in 0..4
  BY DEF Runs, Chunks
<1>1. CASE r.chunk < NumChunks
  <2>1. advanced(r).chunk = r.chunk + 1 /\ advanced(r).table = r.table /\ advanced(r).pc = "write"
    BY <1>1 DEF advanced, Runs
  <2> QED
    BY <1>0, <2>1 DEF passed, Chunks
<1>2. CASE ~(r.chunk < NumChunks) /\ r.table < 4
  <2>1. advanced(r).chunk = 1 /\ advanced(r).table = r.table + 1 /\ advanced(r).pc = "write"
    BY <1>2 DEF advanced, Runs
  <2>2. r.chunk = NumChunks
    BY <1>0, <1>2
  <2> QED
    BY <1>0, <2>1, <2>2 DEF passed, Chunks
<1>3. CASE ~(r.chunk < NumChunks) /\ ~(r.table < 4)
  <2>1. advanced(r).chunk = r.chunk /\ advanced(r).table = r.table /\ advanced(r).pc = "refresh"
    BY <1>3 DEF advanced, Runs
  <2>2. r.chunk = NumChunks /\ r.table = 4
    BY <1>0, <1>3
  <2> QED
    BY <1>0, <2>1, <2>2 DEF passed, Chunks
<1> QED
  BY <1>1, <1>2, <1>3

(* The invariant holds at first.                                             *)
LEMMA InitJ == Init => JInv
<1>1. Init => Loops
  BY IdleOK DEF Init, Loops, LoopsAt
<1> QED
  BY <1>1 DEF Init, JInv, Progress, Current, Never

(* While a run is in progress no other run is alone.                         *)
LEMMA OnlyOne ==
  ASSUME IInv, NEW w \in Workers, run[w].pc # "idle"
  PROVE  alone \subseteq {w} /\ (~mixed => w \in alone)
  BY DEF IInv, Apart, TypeOK

(* What a write does to the tables.                                          *)
Writes(r) ==
  IF r.table = 0
    THEN /\ \A c \in Chunks : catalogue'[c] = IF c = r.chunk THEN r.revision ELSE catalogue[c]
         /\ UNCHANGED children
    ELSE /\ \A t \in ChildTables : children'[t] = IF t = r.table THEN children[t] \cup {r.chunk}
                                                   ELSE children[t]
         /\ UNCHANGED catalogue

(* A batch that is written is not missing when the run goes past it.         *)
LEMMA WrittenOK ==
  ASSUME NEW r \in Runs, r.pc = "write", Writes(r), NEW q, q = advanced(r)
  PROVE  rowsMissing(q)' =< rowsMissing(r)
<1>1. q.revision = r.revision
  BY AdvancedOK
<1>2. r.table \in 0..4 /\ r.chunk \in Chunks
  BY DEF Runs
<1>3. ASSUME NEW t \in 0..4, NEW c \in Chunks, c \in missing(q, t)'
      PROVE  c \in missing(r, t)
  <2>1. passed(q, t, c) /\ IF t = 0 THEN catalogue'[c] # q.revision ELSE c \notin children'[t]
    BY <1>3 DEF missing, passed
  <2>2. passed(r, t, c) \/ (t = r.table /\ c = r.chunk)
    BY <2>1, PassedNext
  <2>3. ~(t = r.table /\ c = r.chunk)
    BY <1>1, <2>1 DEF Writes, ChildTables
  <2>4. IF t = 0 THEN catalogue[c] # r.revision ELSE c \notin children[t]
    BY <1>1, <2>1, <2>3 DEF Writes, ChildTables
  <2> QED
    BY <2>2, <2>3, <2>4 DEF missing
<1>4. \A t \in 0..4 : Missing(q)'[t] \subseteq Missing(r)[t]
  BY <1>3 DEF Missing, missing
<1>5. PICK S \in [0..4 -> SUBSET Chunks] : S = Missing(q)' /\ rowsMissing(q)' = Total(S)
  BY TotalsNext
<1> QED
  BY <1>4, <1>5, Totals, TotalGrows

(* A batch that is lost adds no more than its rows.                          *)
LEMMA LostOK ==
  ASSUME NEW r \in Runs, r.pc = "write", UNCHANGED <<catalogue, children>>, NEW q, q = lost(r)
  PROVE  rowsMissing(q)' =< rowsMissing(r) + chunkRows(r.chunk)
<1> DEFINE more == [r EXCEPT !.failed = @ + chunkRows(r.chunk)]
<1>1. /\ more \in Runs /\ more.pc = "write" /\ more.table = r.table /\ more.chunk = r.chunk
      /\ more.revision = r.revision
  BY DEF Runs, chunkRows
<1>2. q = advanced(more) /\ q.revision = r.revision
  BY <1>1, AdvancedOK DEF lost
<1> HIDE DEF more
<1>3. r.table \in 0..4 /\ r.chunk \in Chunks
  BY DEF Runs
<1>4. ASSUME NEW t \in 0..4, NEW c \in Chunks, c \in missing(q, t)'
      PROVE  c \in missing(r, t) \/ (t = r.table /\ c = r.chunk)
  <2>1. passed(q, t, c) /\ IF t = 0 THEN catalogue[c] # r.revision ELSE c \notin children[t]
    BY <1>2, <1>4 DEF missing, passed
  <2>2. passed(more, t, c) \/ (t = r.table /\ c = r.chunk)
    BY <1>1, <1>2, <2>1, PassedNext
  <2>3. passed(more, t, c) <=> passed(r, t, c)
    BY <1>1 DEF passed
  <2> QED
    BY <2>1, <2>2, <2>3 DEF missing
<1>5. \A t \in 0..4 : Missing(q)'[t] \subseteq
                       IF t = r.table THEN Missing(r)[t] \cup {r.chunk} ELSE Missing(r)[t]
  BY <1>4 DEF Missing, missing
<1>6. PICK S \in [0..4 -> SUBSET Chunks] : S = Missing(q)' /\ rowsMissing(q)' = Total(S)
  BY TotalsNext
<1> QED
  BY <1>3, <1>5, <1>6, Totals, TotalAdded

(* Nothing that is in the database falls behind.                             *)
LEMMA TolerableKept ==
  ASSUME Tolerable, \A t \in 0..4 : outdated(t)' \subseteq outdated(t)
  PROVE  Tolerable'
<1>1. PICK S \in [0..4 -> SUBSET Chunks] : S = Outdated' /\ rowsBehind' = Total(S)
  BY TotalsNext
<1>2. \A t \in 0..4 : S[t] \subseteq Outdated[t]
  BY <1>1 DEF Outdated
<1>3. Total(S) \in Nat /\ rowsBehind \in Nat /\ Total(S) =< rowsBehind
  BY <1>2, Totals, TotalGrows
<1>4. tolerated \in Int
  BY DEF tolerated, fetched
<1> QED
  BY <1>1, <1>3, <1>4 DEF Tolerable, tolerated, fetched

(* Likewise where the tables and the source stay.                            *)
LEMMA CurrentKept ==
  ASSUME Current, UNCHANGED <<source, previous, catalogue, children, counted>>, mixed => mixed'
  PROVE  Current'
<1>1. \A t \in 0..4 : outdated(t)' \subseteq outdated(t)
  BY DEF outdated
<1> QED
  BY <1>1, TolerableKept DEF Current

(* The batches of a run that is alone are written and never undone.          *)
LEMMA WriteJ ==
  ASSUME IInv, JInv, NEW w \in Workers, writeChunk(w)
  PROVE  JInv'
<1> DEFINE r == run[w]
           q == advanced(r)
<1>1. /\ run \in [Workers -> Runs] /\ r \in Runs /\ source \in Nat
      /\ catalogue \in [Chunks -> Revision \cup {Never}] /\ children \in [ChildTables -> SUBSET Chunks]
  BY DEF IInv, TypeOK, Runs, Revision
<1>2. /\ r.pc = "write" /\ run' = [run EXCEPT ![w] = q]
      /\ UNCHANGED <<source, previous, counted, alone, mixed>>
  BY DEF writeChunk, history
<1>3. Writes(r)
  BY <1>1 DEF writeChunk, Writes
<1>4. /\ q \in Runs /\ q.pc \in {"write", "refresh"} /\ q.failed = r.failed /\ q.dryRun = r.dryRun
      /\ q.pc = "refresh" => q.table = 4
  BY <1>1, <1>2, AdvancedOK
<1>5. Loops'
  BY <1>1, <1>2, <1>4 DEF JInv, Loops, LoopsAt
<1>6. Progress'
  <2>1. PICK k : k = q
    OBVIOUS
  <2>2. run'[w] = k /\ alone' = alone /\ alone \subseteq {w}
    BY <1>1, <1>2, <2>1, OnlyOne
  <2>3. ASSUME w \in alone
        PROVE  rowsMissing(k)' =< k.failed
    <3>1. rowsMissing(r) =< r.failed
      BY <1>2, <2>3 DEF JInv, Progress, inLoops
    <3>2. rowsMissing(k)' =< rowsMissing(r)
      BY <1>1, <1>2, <1>3, <2>1, WrittenOK
    <3>3. rowsMissing(k)' \in Nat /\ rowsMissing(r) \in Nat /\ r.failed \in Nat
      <4>1. PICK S \in [0..4 -> SUBSET Chunks] : rowsMissing(k)' = Total(S)
        BY TotalsNext
      <4> QED
        BY <1>1, <4>1, Totals, TotalGrows DEF Runs
    <3> QED
      BY <1>4, <2>1, <3>1, <3>2, <3>3
  <2>4. (rowsMissing(run[w]))' = rowsMissing(k)'
    BY <2>2 DEF rowsMissing, missing, passed
  <2>5. k.pc # "finish"
    BY <1>4, <2>1
  <2> HIDE DEF r, q
  <2> QED
    BY <2>2, <2>3, <2>4, <2>5 DEF Progress
<1>7. Current'
  <2>1. SUFFICES ASSUME ~mixed, previous = source PROVE Tolerable'
    BY <1>2 DEF Current
  <2>2. Tolerable
    BY <2>1 DEF JInv, Current
  <2>3. w \in alone
    BY <1>2, <2>1, OnlyOne
  <2>4. r.revision = source
    <3>1. previous =< r.revision /\ r.revision =< source
      BY <1>2, <2>3 DEF IInv, Newest, Behind, fetchedBy
    <3>2. r.revision \in Nat
      BY <1>1 DEF Runs, Revision, Never
    <3> QED
      BY <1>1, <2>1, <3>1, <3>2
  <2>5. r.chunk \in Chunks /\ r.table \in 0..4
    BY <1>1 DEF Runs
  <2>6. \A t \in 0..4 : outdated(t)' \subseteq outdated(t)
    BY <1>2, <1>3, <2>4, <2>5 DEF outdated, Writes, ChildTables
  <2> QED
    BY <2>2, <2>6, TolerableKept
<1> QED
  BY <1>5, <1>6, <1>7 DEF JInv

(* A step of one run concerns its own loops only.                            *)
LEMMA LoopsKept ==
  ASSUME Loops, NEW w \in Workers, \A v \in Workers \ {w} : run'[v] = run[v], LoopsAt(run'[w])
  PROVE  Loops'
<1> SUFFICES ASSUME NEW v \in Workers PROVE LoopsAt(run'[v])
  BY DEF Loops, LoopsAt
<1>1. CASE v = w
  BY <1>1
<1>2. CASE v # w
  BY <1>2 DEF Loops
<1> QED
  BY <1>1, <1>2

(* A step of a run alone that is not in its loops.                           *)
LEMMA Outside ==
  ASSUME NEW w \in Workers, alone' \subseteq {w}, run'[w].pc \in {"idle", "fetch", "compare", "categories"}
  PROVE  Progress'
  BY DEF Progress, inLoops

(* The other steps of the job.                                               *)
LEMMA ExecuteJ ==
  ASSUME ~DryRuns, IInv, JInv, NEW w \in Workers, execute(w)
  PROVE  JInv'
<1>0. run \in [Workers -> Runs] /\ run[w] \in Runs /\ ~run[w].dryRun
  BY DEF IInv, TypeOK, Runs, JInv, Loops, LoopsAt
<1>1. CASE fetchSource(w)
  <2>1. /\ run[w].pc = "fetch" /\ run[w].table = 0 /\ run[w].chunk = 1
        /\ run'[w] = [run[w] EXCEPT !.pc = "compare", !.revision = source]
        /\ \A v \in Workers \ {w} : run'[v] = run[v]
        /\ UNCHANGED <<source, previous, catalogue, children, counted, alone, mixed>>
    BY <1>0, <1>1 DEF fetchSource, history, JInv, Loops, LoopsAt
  <2>2. /\ run'[w].pc = "compare" /\ run'[w].table = run[w].table /\ run'[w].chunk = run[w].chunk
        /\ ~run'[w].dryRun
    BY <1>0, <2>1 DEF Runs
  <2>3. Loops'
    <3>1. LoopsAt(run'[w])
      BY <2>1, <2>2 DEF LoopsAt
    <3> QED
      BY <2>1, <3>1, LoopsKept DEF JInv
  <2>4. Progress'
    BY <2>1, <2>2, OnlyOne, Outside
  <2>5. Current'
    BY <2>1, CurrentKept DEF JInv
  <2> QED
    BY <2>3, <2>4, <2>5 DEF JInv
<1>2. ASSUME NEW unparsable \in Unparsable, comparePrevious(w, unparsable) PROVE JInv'
  <2>1. /\ run[w].pc = "compare" /\ run[w].table = 0 /\ run[w].chunk = 1
        /\ \A v \in Workers \ {w} : run'[v] = run[v]
        /\ UNCHANGED <<source, previous, catalogue, children, counted, alone, mixed>>
    BY <1>0, <1>2 DEF comparePrevious, history, JInv, Loops, LoopsAt
  <2>2. /\ run'[w].pc = "categories" \/ (run'[w].pc = "finish" /\ previous = run[w].revision)
        /\ run'[w].table = 0 /\ run'[w].chunk = 1 /\ ~run'[w].dryRun
        /\ run'[w].revision = run[w].revision
    BY <1>0, <1>2, <2>1 DEF comparePrevious, Runs
  <2>3. Loops'
    <3>1. LoopsAt(run'[w])
      BY <2>1, <2>2 DEF LoopsAt
    <3> QED
      BY <2>1, <3>1, LoopsKept DEF JInv
  <2>4. Progress'
    <3>1. alone' \subseteq {w}
      BY <2>1, OnlyOne
    <3> QED
      BY <2>1, <2>2, <3>1 DEF Progress, inLoops
  <2>5. Current'
    BY <2>1, CurrentKept DEF JInv
  <2> QED
    BY <2>3, <2>4, <2>5 DEF JInv
<1>3. CASE persistCategories(w)
  <2>1. /\ run[w].pc = "categories" /\ run[w].table = 0 /\ run[w].chunk = 1
        /\ run'[w] = [run[w] EXCEPT !.pc = "write"]
        /\ \A v \in Workers \ {w} : run'[v] = run[v]
        /\ UNCHANGED <<source, previous, catalogue, children, counted, alone, mixed>>
    BY <1>0, <1>3 DEF persistCategories, history, JInv, Loops, LoopsAt
  <2>2. run'[w].pc = "write" /\ run'[w].table = 0 /\ run'[w].chunk = 1 /\ ~run'[w].dryRun
    BY <1>0, <2>1 DEF Runs
  <2>3. Loops'
    <3>1. LoopsAt(run'[w])
      BY <2>1, <2>2 DEF LoopsAt
    <3> QED
      BY <2>1, <3>1, LoopsKept DEF JInv
  <2>4. PICK k \in Runs : k = run'[w]
    BY <1>0, <2>1 DEF Runs, Steps
  <2>5. rowsMissing(k)' = 0
    <3>1. \A t \in 0..4 : missing(k, t)' = {}
      BY <2>2, <2>4 DEF missing, passed, Chunks
    <3>2. rows({}) = 0
      BY FS_EmptySet DEF rows
    <3> QED
      BY <3>1, <3>2 DEF rowsMissing
  <2>6. (rowsMissing(run[w]))' = rowsMissing(k)' /\ k.failed \in Nat
    BY <2>4 DEF rowsMissing, missing, passed, Runs
  <2>7. Progress'
    <3>1. alone' \subseteq {w}
      BY <2>1, OnlyOne
    <3> QED
      BY <2>2, <2>4, <2>5, <2>6, <3>1 DEF Progress
  <2>8. Current'
    BY <2>1, CurrentKept DEF JInv
  <2> QED
    BY <2>3, <2>7, <2>8 DEF JInv
<1>4. CASE loseChunk(w)
  <2> DEFINE more == [run[w] EXCEPT !.failed = @ + chunkRows(run[w].chunk)]
  <2>1. /\ run[w].pc = "write" /\ run'[w] = lost(run[w])
        /\ \A v \in Workers \ {w} : run'[v] = run[v]
        /\ UNCHANGED <<source, previous, catalogue, children, counted, alone, mixed>>
    BY <1>0, <1>4 DEF loseChunk, history
  <2>2. chunkRows(run[w].chunk) \in Nat /\ run[w].failed \in Nat
    BY <1>0 DEF Runs, chunkRows
  <2>3. /\ more \in Runs /\ more.pc = "write" /\ more.failed = run[w].failed + chunkRows(run[w].chunk)
    BY <1>0, <2>1, <2>2 DEF Runs
  <2>4. /\ lost(run[w]) = advanced(more) /\ advanced(more).failed = more.failed
        /\ advanced(more).pc = "refresh" => advanced(more).table = 4
    BY <2>3, AdvancedOK DEF lost
  <2>5. PICK k : k = lost(run[w])
    OBVIOUS
  <2>6. k.pc \in {"write", "refresh"} /\ ~k.dryRun /\ k.failed = run[w].failed + chunkRows(run[w].chunk)
    BY <1>0, <2>1, <2>3, <2>4, <2>5, AdvancedOK
  <2>7. Loops'
    BY <2>1, <2>4, <2>5, <2>6 DEF JInv, Loops, LoopsAt
  <2>8. Progress'
    <3>1. alone' = alone /\ alone \subseteq {w} /\ run'[w] = k
      BY <2>1, <2>5, OnlyOne
    <3>2. rowsMissing(k)' =< rowsMissing(run[w]) + chunkRows(run[w].chunk)
      BY <1>0, <2>1, <2>5, LostOK
    <3>3. rowsMissing(k)' \in Nat /\ rowsMissing(run[w]) \in Nat
      <4>1. PICK S \in [0..4 -> SUBSET Chunks] : rowsMissing(k)' = Total(S)
        BY TotalsNext
      <4> QED
        BY <4>1, Totals, TotalGrows
    <3>4. w \in alone => rowsMissing(run[w]) =< run[w].failed
      BY <2>1 DEF JInv, Progress, inLoops
    <3>5. (rowsMissing(run[w]))' = rowsMissing(k)'
      BY <3>1 DEF rowsMissing, missing, passed
    <3>6. w \in alone => rowsMissing(k)' =< k.failed
      BY <2>2, <2>6, <3>2, <3>3, <3>4
    <3> QED
      BY <2>6, <3>1, <3>5, <3>6 DEF Progress
  <2>9. Current'
    BY <2>1, CurrentKept DEF JInv
  <2> QED
    BY <2>7, <2>8, <2>9 DEF JInv
<1>5. CASE refreshCounts(w)
  <2>1. /\ run[w].pc = "refresh" /\ run[w].table = 4 /\ run'[w] = [run[w] EXCEPT !.pc = "finish"]
        /\ \A v \in Workers \ {w} : run'[v] = run[v]
        /\ UNCHANGED <<source, previous, catalogue, children, alone, mixed>> /\ counted' = children[1]
    BY <1>0, <1>5 DEF refreshCounts, history, JInv, Loops, LoopsAt, Mapped
  <2>2. /\ run'[w].pc = "finish" /\ run'[w].table = 4 /\ ~run'[w].dryRun
        /\ run'[w].failed = run[w].failed /\ run'[w].revision = run[w].revision
        /\ run'[w].chunk = run[w].chunk /\ run[w].chunk \in Chunks
    BY <1>0, <2>1 DEF Runs
  <2>3. Loops'
    <3>1. LoopsAt(run'[w])
      BY <2>1, <2>2 DEF LoopsAt
    <3> QED
      BY <2>1, <3>1, LoopsKept DEF JInv
  <2>4. (rowsMissing(run[w]))' = rowsMissing(run[w])
    <3>1. \A t \in 0..4 : missing(run[w], t)' = missing(run[w], t)
      BY <2>1, <2>2 DEF missing, passed
    <3> QED
      BY <3>1 DEF rowsMissing
  <2>5. Progress'
    <3>1. alone' = alone /\ alone \subseteq {w}
      BY <2>1, OnlyOne
    <3>2. w \in alone => rowsMissing(run[w]) =< run[w].failed
      BY <2>1 DEF JInv, Progress, inLoops
    <3>3. run'[w].pc = "finish" /\ run'[w].table = 4 /\ counted' = children'[1]
      BY <2>1, <2>2
    <3>4. w \in alone => rowsMissing(run[w])' =< run'[w].failed
      BY <2>2, <2>4, <3>2
    <3> QED
      BY <3>1, <3>3, <3>4 DEF Progress
  <2>6. Current'
    <3>1. \A t \in 0..4 : outdated(t)' \subseteq outdated(t)
      BY <2>1 DEF outdated, Mapped
    <3> QED
      BY <2>1, <3>1, TolerableKept DEF JInv, Current
  <2> QED
    BY <2>3, <2>5, <2>6 DEF JInv
<1>6. CASE finish(w)
  <2>1. /\ run[w].pc = "finish" /\ run'[w] = Idle /\ \A v \in Workers \ {w} : run'[v] = run[v]
        /\ UNCHANGED <<source, catalogue, children, counted>>
        /\ alone' = alone \ {w}
    BY <1>0, <1>6 DEF finish
  <2>2. Loops'
    BY <2>1, IdleOK DEF JInv, Loops, LoopsAt
  <2>3. Progress'
    BY <2>1, OnlyOne DEF Progress
  <2>4. Current'
    <3>0. Tolerable' <=> Tolerable
      BY <2>1 DEF Tolerable, rowsBehind, outdated
    <3>1. SUFFICES ASSUME ~mixed', previous' = source PROVE Tolerable
      BY <2>1, <3>0 DEF Current
    <3>2. w \in alone
      BY <1>6, <2>1, <3>1, OnlyOne DEF finish
    <3>3. CASE succeeded(run[w]) /\ run[w].table = 4
      <4>1. /\ run[w].revision = source /\ counted = children[1]
            /\ rowsMissing(run[w]) =< run[w].failed /\ run[w].failed =< tolerated
        BY <1>0, <1>6, <2>1, <3>1, <3>2, <3>3 DEF finish, succeeded, JInv, Progress, inLoops
      <4>2. \A t \in 0..4 : outdated(t) \subseteq missing(run[w], t)
        BY <2>1, <3>3, <4>1 DEF outdated, missing, passed, Mapped
      <4>3. \A t \in 0..4 : Outdated[t] \subseteq Missing(run[w])[t]
        BY <4>2 DEF Outdated, Missing
      <4>4. /\ rowsBehind \in Nat /\ rowsMissing(run[w]) \in Nat
            /\ rowsBehind =< rowsMissing(run[w])
        BY <4>3, Totals, TotalGrows
      <4>5. run[w].failed \in Nat /\ tolerated \in Int
        BY <1>0 DEF Runs, tolerated, fetched
      <4> QED
        BY <4>1, <4>4, <4>5 DEF Tolerable
    <3>4. CASE ~(succeeded(run[w]) /\ run[w].table = 4)
      <4>1. ~mixed
        BY <1>6, <3>1, <3>4 DEF finish, imported
      <4>2. previous = source
        <5>1. CASE succeeded(run[w])
          <6>1. run[w].table = 0
            BY <2>1, <3>4, <5>1 DEF JInv, Loops, LoopsAt
          <6> QED
            BY <1>6, <2>1, <3>1, <3>2, <5>1, <6>1 DEF JInv, Progress, finish
        <5>2. CASE ~succeeded(run[w])
          BY <1>6, <3>1, <5>2 DEF finish
        <5> QED
          BY <5>1, <5>2
      <4> QED
        BY <4>1, <4>2 DEF JInv, Current
    <3> QED
      BY <3>3, <3>4
  <2> QED
    BY <2>2, <2>3, <2>4 DEF JInv
<1> QED
  BY <1>1, <1>2, <1>3, <1>4, <1>5, <1>6, WriteJ DEF execute

(* Every step keeps what the last success promises.                          *)
LEMMA NextJ ==
  ASSUME ~DryRuns, IInv, JInv, [Next]_vars
  PROVE  JInv'
<1>0. run \in [Workers -> Runs] /\ source \in Nat /\ previous \in Nat /\ previous =< source
  BY DEF IInv, TypeOK, Runs, Revision, Never, Behind
<1>1. CASE publish
  <2>1. /\ source' = source + 1
        /\ UNCHANGED <<run, previous, catalogue, children, counted, alone, mixed>>
    BY <1>1 DEF publish, history
  <2>2. Loops' /\ Progress'
    <3>1. \A w \in alone : (rowsMissing(run[w]))' = rowsMissing(run[w])
      BY <2>1 DEF rowsMissing, missing, passed
    <3> QED
      BY <2>1, <3>1 DEF JInv, Loops, LoopsAt, Progress
  <2>3. Current'
    BY <1>0, <2>1 DEF Current
  <2> QED
    BY <2>2, <2>3 DEF JInv
<1>2. ASSUME NEW w \in Workers, NEW force \in BOOLEAN, NEW dryRun \in BOOLEAN,
             start(w, force, dryRun) \/ startBeside(w, force, dryRun)
      PROVE  JInv'
  <2>1. /\ run[w].pc = "idle" /\ (dryRun => DryRuns)
        /\ run'[w] = [Idle EXCEPT !.pc = "fetch", !.force = force, !.dryRun = dryRun]
        /\ \A v \in Workers \ {w} : run'[v] = run[v]
        /\ UNCHANGED <<source, previous, catalogue, children, counted>>
    BY <1>0, <1>2 DEF start, startBeside, begin
  <2>2. /\ run'[w].pc = "fetch" /\ run'[w].table = 0 /\ run'[w].chunk = 1
        /\ run'[w].dryRun = dryRun
    BY <2>1 DEF Idle
  <2>3. Loops'
    <3>1. LoopsAt(run'[w])
      BY <2>1, <2>2 DEF LoopsAt
    <3> QED
      BY <2>1, <3>1, LoopsKept DEF JInv
  <2>4. alone' \subseteq {w}
    BY <1>2, <2>1 DEF start, startBeside, lockFree, IInv, Apart, TypeOK
  <2>5. Progress'
    BY <2>2, <2>4, Outside
  <2>6. Current'
    <3>1. mixed => mixed'
      BY <1>2 DEF start, startBeside
    <3> QED
      BY <2>1, <3>1, CurrentKept DEF JInv
  <2> QED
    BY <2>3, <2>5, <2>6 DEF JInv
<1>3. ASSUME NEW w \in Workers, fail(w) \/ crash(w) PROVE JInv'
  <2>1. /\ run[w].pc # "idle" /\ run'[w] = Idle /\ \A v \in Workers \ {w} : run'[v] = run[v]
        /\ UNCHANGED <<source, previous, catalogue, children, counted, mixed>>
        /\ alone' = alone \ {w}
    BY <1>0, <1>3 DEF fail, crash
  <2>2. Loops'
    BY <2>1, IdleOK DEF JInv, Loops, LoopsAt
  <2>3. Progress'
    BY <2>1, OnlyOne DEF Progress
  <2> QED
    BY <2>1, <2>2, <2>3, CurrentKept DEF JInv
<1>4. CASE UNCHANGED vars
  <2>1. UNCHANGED <<source, run, previous, catalogue, children, counted, alone, mixed>>
    BY <1>4 DEF vars, history
  <2>2. \A w \in alone : (rowsMissing(run[w]))' = rowsMissing(run[w])
    BY <2>1 DEF rowsMissing, missing, passed
  <2>3. Loops' /\ Progress'
    BY <2>1, <2>2 DEF JInv, Loops, LoopsAt, Progress, inLoops
  <2> QED
    BY <2>1, <2>3, CurrentKept DEF JInv
<1> QED
  BY <1>1, <1>2, <1>3, <1>4, ExecuteJ DEF Next

(* Without dry runs, what is behind a revision that would be skipped is no   *)
(* more than a run may lose, whatever was rejected or cut short              *)
(* (ingestion.ts:165-181, 271).                                              *)
THEOREM IngestionIsConsistent == ~DryRuns => (Spec => []IngestionConsistent)
<1> SUFFICES ASSUME ~DryRuns PROVE Spec => []IngestionConsistent
  OBVIOUS
<1>1. IInv /\ JInv /\ [Next]_vars => JInv'
  BY NextJ
<1>2. IInv /\ JInv => IngestionConsistent
  BY DEF IInv, JInv, Current, IngestionConsistent, LittleToDo, upToDate
<1> QED
  BY <1>1, <1>2, InitJ, Inductive, PTL DEF Spec
==============================================================================
