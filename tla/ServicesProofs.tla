---------------------------- MODULE ServicesProofs ----------------------------
(***************************************************************************)
(* Safety of the processes that serve: the migrations they run when they   *)
(* start, for any number of racing processes, files, statements, edits and *)
(* faults; their life cycle; and the requests they make for others.        *)
(***************************************************************************)
EXTENDS MCServices, FiniteSetTheorems, TLAPS

-----------------------------------------------------------------------------
(* Migrations                                                                *)

(* A ledger row that a runner has read is still what the ledger says.        *)
SeenIsRecorded ==
  \A r \in Runners : \A n \in Files : seen[r][n] # Absent => ledger[n] = seen[r][n]

(* A runner inside a file is behind no other file, and has executed every    *)
(* statement up to the one it has come to, in its own version of the file.   *)
Position(r) ==
  pc[r] \in {"execute", "record"} =>
    /\ \A n \in 1..(at[r] - 1) : ledger[n] = loaded[r][n]
    /\ \A k \in 1..(step[r] - 1) : <<at[r], k, loaded[r][at[r]]>> \in executed
    /\ pc[r] = "record" => step[r] > Last(at[r])

Positions == \A r \in Runners : Position(r)

IInv ==
  /\ TypeOK /\ SeenIsRecorded /\ Positions
  /\ RecordedIsApplied /\ AppliedInOrder /\ ServesItsRelease

(* The number of files, and of the statements of each, is a natural number.  *)
LEMMA FileCounts ==
  /\ Len(Repeatable) \in Nat \ {0} /\ Files \subseteq Nat /\ 1 \in Files
  /\ \A m \in Files : Last(m) \in Nat
  /\ Versions \subseteq Nat \ {Absent} /\ 1 \in Versions /\ MaxFaults \in Nat
<1>1. Len(Repeatable) \in Nat \ {0}
  BY MigrationAssumption
<1>2. Files \subseteq Nat /\ 1 \in Files
  BY <1>1 DEF Files
<1>3. \A m \in Files : Last(m) \in Nat
  BY MigrationAssumption DEF Files, Last
<1> QED
  BY <1>1, <1>2, <1>3, MigrationAssumption DEF Versions, Absent

(* What proceed() leaves behind, when the files before m are recorded in the *)
(* runner's versions: r is well placed, and if it serves all are.            *)
LEMMA ProceedKeepsPlace ==
  ASSUME NEW r \in Runners, NEW m \in Nat \ {0}, m =< Len(Repeatable) + 1,
         TypeOK, proceed(r, m),
         seen' \in [Runners -> [Files -> Versions \cup {Absent}]],
         loaded' \in [Runners -> [Files -> Versions]],
         ledger' \in [Files -> Versions \cup {Absent}],
         \A n \in Files : seen'[r][n] # Absent => ledger'[n] = seen'[r][n],
         \A n \in 1..(m - 1) : ledger'[n] = loaded'[r][n]
  PROVE  /\ pc' \in [Runners -> {"off", "read", "execute", "record", "serving"}]
         /\ at' \in [Runners -> Files] /\ step' \in [Runners -> Nat]
         /\ \A q \in Runners \ {r} : pc'[q] = pc[q] /\ at'[q] = at[q] /\ step'[q] = step[q]
         /\ Position(r)'
         /\ pc'[r] = "serving" => ledger' = loaded'[r]
<1>1. \A n \in Files : skipped(r, n) => ledger'[n] = loaded'[r][n]
  BY FileCounts DEF skipped
<1>2. CASE /\ \A n \in m..Len(Repeatable) : skipped(r, n)
           /\ pc' = [pc EXCEPT ![r] = "serving"]
           /\ UNCHANGED <<at, step>>
  <2>1. \A n \in Files : ledger'[n] = loaded'[r][n]
    <3> TAKE n \in Files
    <3>1. CASE n < m
      BY <3>1, FileCounts DEF Files
    <3>2. CASE n >= m
      BY <3>2, <1>1, <1>2, FileCounts DEF Files
    <3> QED BY <3>1, <3>2, FileCounts
  <2>2. ledger' = loaded'[r]
    BY <2>1
  <2> QED
    BY <1>2, <2>2 DEF TypeOK, Position
<1>3. CASE \E n \in m..Len(Repeatable) :
             /\ \A i \in m..(n - 1) : skipped(r, i)
             /\ ~skipped(r, n)
             /\ pc' = [pc EXCEPT ![r] = IF seen'[r][n] = Absent THEN "execute" ELSE "off"]
             /\ at' = [at EXCEPT ![r] = n]
             /\ step' = [step EXCEPT ![r] = 1]
  <2> PICK n \in m..Len(Repeatable) :
             /\ \A i \in m..(n - 1) : skipped(r, i)
             /\ pc' = [pc EXCEPT ![r] = IF seen'[r][n] = Absent THEN "execute" ELSE "off"]
             /\ at' = [at EXCEPT ![r] = n]
             /\ step' = [step EXCEPT ![r] = 1]
    BY <1>3
  <2>1. n \in Files
    BY FileCounts DEF Files
  <2>2. \A i \in 1..(n - 1) : ledger'[i] = loaded'[r][i]
    <3> TAKE i \in 1..(n - 1)
    <3>1. i \in Files
      BY <2>1, FileCounts DEF Files
    <3>2. CASE i < m
      BY <3>2, FileCounts
    <3>3. CASE i >= m
      BY <3>1, <3>3, <1>1, FileCounts
    <3> QED BY <3>2, <3>3, FileCounts
  <2>3. /\ at'[r] = n /\ step'[r] = 1 /\ pc'[r] \in {"execute", "off"}
        /\ pc' \in [Runners -> {"off", "read", "execute", "record", "serving"}]
        /\ at' \in [Runners -> Files] /\ step' \in [Runners -> Nat]
        /\ \A q \in Runners \ {r} : pc'[q] = pc[q] /\ at'[q] = at[q] /\ step'[q] = step[q]
    BY <2>1 DEF TypeOK
  <2>4. Position(r)'
    BY <2>2, <2>3 DEF Position
  <2> QED
    BY <2>3, <2>4
<1> QED
  BY <1>2, <1>3 DEF proceed

(* What a step of runner r must not disturb, when it leaves the ledger, the  *)
(* statements and the other runners alone.                                   *)
LEMMA QuietStep ==
  ASSUME IInv, UNCHANGED <<ledger, executed>>, TypeOK',
         NEW r \in Runners, SeenIsRecorded', Position(r)',
         pc'[r] = "serving" => ledger' = loaded'[r],
         \A q \in Runners \ {r} : /\ pc'[q] = pc[q] /\ at'[q] = at[q] /\ step'[q] = step[q]
                                  /\ loaded'[q] = loaded[q]
  PROVE  IInv'
<1>1. Positions'
  <2> SUFFICES ASSUME NEW q \in Runners PROVE Position(q)'
    BY DEF Positions
  <2>1. CASE q = r
    BY <2>1
  <2>2. CASE q # r
    BY <2>2 DEF IInv, Positions, Position
  <2> QED BY <2>1, <2>2
<1>2. ServesItsRelease'
  <2> SUFFICES ASSUME NEW q \in Runners, pc'[q] = "serving" PROVE ledger' = loaded'[q]
    BY DEF ServesItsRelease
  <2>1. CASE q = r
    BY <2>1
  <2>2. CASE q # r
    BY <2>2 DEF IInv, ServesItsRelease
  <2> QED BY <2>1, <2>2
<1>3. RecordedIsApplied' /\ AppliedInOrder'
  BY DEF IInv, RecordedIsApplied, AppliedInOrder
<1> QED
  BY <1>1, <1>2, <1>3 DEF IInv

(* The first process finds an empty ledger.                                  *)
LEMMA InitIInv == Init => IInv
<1> SUFFICES ASSUME Init PROVE IInv
  OBVIOUS
<1>1. faults \in 0..MaxFaults /\ executed \subseteq Files \X Nat \X Versions
  BY FileCounts DEF Init
<1>2. cut \in BOOLEAN
  BY DEF Init
<1>3. TypeOK
  BY <1>1, <1>2, FileCounts DEF Init, TypeOK
<1> QED
  BY <1>3, FileCounts
  DEF Init, IInv, SeenIsRecorded, Positions, Position, RecordedIsApplied,
      AppliedInOrder, ServesItsRelease

(* Reading the ledger: what is seen is recorded, and proceed() starts at 1.  *)
LEMMA ReadStep ==
  ASSUME IInv, NEW r \in Runners, readLedger(r)
  PROVE  IInv'
<1> USE DEF IInv
<1>1. /\ seen' \in [Runners -> [Files -> Versions \cup {Absent}]]
      /\ loaded' \in [Runners -> [Files -> Versions]]
      /\ seen'[r] = ledger' /\ ledger' = ledger
      /\ \A q \in Runners \ {r} : seen'[q] = seen[q] /\ loaded'[q] = loaded[q]
  BY DEF readLedger, TypeOK
<1>2. SeenIsRecorded'
  BY <1>1 DEF SeenIsRecorded
<1>3. /\ pc' \in [Runners -> {"off", "read", "execute", "record", "serving"}]
      /\ at' \in [Runners -> Files] /\ step' \in [Runners -> Nat]
      /\ \A q \in Runners \ {r} : pc'[q] = pc[q] /\ at'[q] = at[q] /\ step'[q] = step[q]
      /\ Position(r)'
      /\ pc'[r] = "serving" => ledger' = loaded'[r]
  <2>1. proceed(r, 1) /\ ledger' \in [Files -> Versions \cup {Absent}]
    BY <1>1 DEF readLedger, TypeOK
  <2> QED
    BY <2>1, <1>1, FileCounts, ProceedKeepsPlace
<1>4. TypeOK'
  BY <1>1, <1>3 DEF readLedger, TypeOK
<1> QED
  BY <1>1, <1>2, <1>3, <1>4, QuietStep DEF readLedger

(* A statement takes effect: more is executed, and nothing else changes for  *)
(* the other runners.                                                        *)
LEMMA ExecuteStep ==
  ASSUME IInv, NEW r \in Runners, execute(r)
  PROVE  IInv'
<1> DEFINE new == <<at[r], step[r], loaded[r][at[r]]>>
<1>1. /\ at[r] \in Files /\ step[r] \in Nat /\ loaded[r][at[r]] \in Versions
      /\ pc[r] = "execute" /\ executed' = executed \cup {new}
      /\ UNCHANGED <<deployed, ledger, seen, loaded, at, faults, cut>>
  BY DEF execute, IInv, TypeOK
<1>2. /\ pc' \in [Runners -> {"off", "read", "execute", "record", "serving"}]
      /\ step' \in [Runners -> Nat] /\ step'[r] = step[r] + 1
      /\ pc'[r] \in {"execute", "record"}
      /\ pc'[r] = "record" => ~ (step[r] < Last(at[r]))
      /\ \A q \in Runners \ {r} : pc'[q] = pc[q] /\ step'[q] = step[q]
  BY <1>1 DEF execute, IInv, TypeOK, moreAfter
<1>3. TypeOK'
  <2>1. executed' \subseteq Files \X Nat \X Versions
    BY <1>1 DEF IInv, TypeOK
  <2> QED
    BY <1>1, <1>2, <2>1 DEF IInv, TypeOK
<1>4. SeenIsRecorded' /\ RecordedIsApplied'
  BY <1>1 DEF IInv, SeenIsRecorded, RecordedIsApplied
<1>5. Positions'
  <2> SUFFICES ASSUME NEW q \in Runners PROVE Position(q)'
    BY DEF Positions
  <2>1. CASE q = r
    <3>1. /\ \A n \in 1..(at[r] - 1) : ledger[n] = loaded[r][n]
          /\ \A k \in 1..(step[r] - 1) : <<at[r], k, loaded[r][at[r]]>> \in executed
      BY <1>1 DEF IInv, Positions, Position
    <3>2. \A k \in 1..(step'[r] - 1) : <<at'[r], k, loaded'[r][at'[r]]>> \in executed'
      <4> SUFFICES ASSUME NEW k \in 1..step[r]
                   PROVE  <<at[r], k, loaded[r][at[r]]>> \in executed'
        BY <1>1, <1>2
      <4>1. CASE k = step[r]
        BY <4>1, <1>1
      <4>2. CASE k # step[r]
        BY <4>2, <3>1, <1>1
      <4> QED BY <4>1, <4>2
    <3>3. pc'[r] = "record" => step'[r] > Last(at'[r])
      <4>1. Last(at[r]) \in Nat
        BY <1>1, FileCounts
      <4>2. at' = at
        BY <1>1
      <4> QED BY <4>1, <4>2, <1>1, <1>2
    <3> QED
      BY <2>1, <1>1, <3>1, <3>2, <3>3 DEF Position
  <2>2. CASE q # r
    BY <2>2, <1>1, <1>2 DEF IInv, Positions, Position
  <2> QED BY <2>1, <2>2
<1>6. AppliedInOrder'
  <2> SUFFICES ASSUME NEW e \in executed', NEW n \in 1..(e[1] - 1)
               PROVE  ledger[n] # Absent
    BY <1>1 DEF AppliedInOrder
  <2>1. CASE e \in executed
    BY <2>1 DEF IInv, AppliedInOrder
  <2>2. CASE e = new
    <3>1. n \in Files /\ n \in 1..(at[r] - 1)
      BY <2>2, <1>1, FileCounts DEF Files
    <3>2. ledger[n] = loaded[r][n]
      BY <3>1, <1>1 DEF IInv, Positions, Position
    <3> QED
      BY <3>1, <3>2, FileCounts DEF IInv, TypeOK
  <2> QED BY <2>1, <2>2, <1>1
<1>7. ServesItsRelease'
  BY <1>1, <1>2 DEF IInv, ServesItsRelease
<1> QED
  BY <1>3, <1>4, <1>5, <1>6, <1>7 DEF IInv

(* A file is recorded by a runner that has executed all of it.               *)
LEMMA RecordStep ==
  ASSUME IInv, NEW r \in Runners, record(r), ledger[at[r]] = Absent
  PROVE  IInv'
<1>1. /\ at[r] \in Files /\ at[r] \in Nat \ {0} /\ at[r] =< Len(Repeatable)
      /\ loaded[r][at[r]] \in Versions /\ loaded[r][at[r]] # Absent
      /\ pc[r] = "record"
      /\ ledger' = [ledger EXCEPT ![at[r]] = loaded[r][at[r]]]
      /\ UNCHANGED <<deployed, executed, seen, loaded, faults, cut>>
      /\ proceed(r, at[r] + 1)
  <2>1. at[r] \in Files /\ loaded[r][at[r]] \in Versions
    BY DEF IInv, TypeOK
  <2>2. at[r] \in Nat \ {0} /\ at[r] =< Len(Repeatable)
    BY <2>1, FileCounts DEF Files
  <2>3. loaded[r][at[r]] # Absent
    BY <2>1, FileCounts
  <2> QED
    BY <2>1, <2>2, <2>3 DEF record
<1>2. /\ ledger' \in [Files -> Versions \cup {Absent}]
      /\ ledger'[at[r]] = loaded[r][at[r]]
      /\ \A n \in Files : n # at[r] => ledger'[n] = ledger[n]
  BY <1>1 DEF IInv, TypeOK
<1>3. \A n \in Files : ledger[n] # Absent => ledger'[n] = ledger[n]
  BY <1>2
<1>4. SeenIsRecorded'
  BY <1>1, <1>3 DEF IInv, SeenIsRecorded
<1>5. /\ \A n \in 1..(at[r] - 1) : ledger[n] = loaded[r][n]
      /\ \A k \in 1..(step[r] - 1) : <<at[r], k, loaded[r][at[r]]>> \in executed
      /\ step[r] > Last(at[r]) /\ step[r] \in Nat
  BY <1>1 DEF IInv, Positions, Position, TypeOK
<1>6. \A n \in 1..at[r] : ledger'[n] = loaded'[r][n]
  <2> TAKE n \in 1..at[r]
  <2>1. n \in Files
    BY <1>1, FileCounts DEF Files
  <2>2. CASE n = at[r]
    BY <2>2, <1>1, <1>2
  <2>3. CASE n # at[r]
    BY <2>1, <2>3, <1>1, <1>2, <1>5
  <2> QED BY <2>2, <2>3
<1>7. /\ pc' \in [Runners -> {"off", "read", "execute", "record", "serving"}]
      /\ at' \in [Runners -> Files] /\ step' \in [Runners -> Nat]
      /\ \A q \in Runners \ {r} : pc'[q] = pc[q] /\ at'[q] = at[q] /\ step'[q] = step[q]
      /\ Position(r)'
      /\ pc'[r] = "serving" => ledger' = loaded'[r]
  <2>1. /\ TypeOK /\ at[r] + 1 \in Nat \ {0} /\ at[r] + 1 =< Len(Repeatable) + 1
        /\ seen' \in [Runners -> [Files -> Versions \cup {Absent}]]
        /\ loaded' \in [Runners -> [Files -> Versions]]
    BY <1>1, FileCounts DEF IInv, TypeOK
  <2>2. \A n \in Files : seen'[r][n] # Absent => ledger'[n] = seen'[r][n]
    BY <1>4 DEF SeenIsRecorded
  <2>3. \A n \in 1..((at[r] + 1) - 1) : ledger'[n] = loaded'[r][n]
    BY <1>1, <1>6
  <2> QED
    BY <1>1, <1>2, <2>1, <2>2, <2>3, ProceedKeepsPlace
<1>0. TypeOK'
  BY <1>1, <1>2, <1>7 DEF IInv, TypeOK
<1>9. Positions'
  <2> SUFFICES ASSUME NEW q \in Runners, q # r PROVE Position(q)'
    BY <1>7 DEF Positions
  <2> SUFFICES ASSUME pc[q] \in {"execute", "record"},
                      NEW n \in 1..(at[q] - 1)
               PROVE  ledger'[n] = loaded[q][n]
    BY <1>1, <1>7 DEF IInv, Positions, Position
  <2>1. n \in Files /\ loaded[q][n] # Absent
    <3>1. at[q] \in Files /\ loaded[q] \in [Files -> Versions]
      BY DEF IInv, TypeOK
    <3>2. n \in Files
      BY <3>1, FileCounts DEF Files
    <3> QED BY <3>1, <3>2, FileCounts
  <2>2. ledger[n] = loaded[q][n]
    BY DEF IInv, Positions, Position
  <2> QED
    BY <2>1, <2>2, <1>3
<1>10. RecordedIsApplied'
  <2> SUFFICES ASSUME NEW m \in Files, ledger'[m] # Absent, NEW k \in 1..Last(m)
               PROVE  <<m, k, ledger'[m]>> \in executed
    BY <1>1 DEF RecordedIsApplied
  <2>1. CASE m = at[r]
    <3>1. k \in 1..(step[r] - 1)
      BY <2>1, <1>5, FileCounts
    <3> QED
      BY <2>1, <3>1, <1>2, <1>5
  <2>2. CASE m # at[r]
    BY <2>2, <1>2 DEF IInv, RecordedIsApplied
  <2> QED BY <2>1, <2>2
<1>11. AppliedInOrder'
  <2> SUFFICES ASSUME NEW e \in executed, NEW n \in 1..(e[1] - 1)
               PROVE  ledger'[n] # Absent
    BY <1>1 DEF AppliedInOrder
  <2>1. n \in Files
    BY FileCounts DEF IInv, TypeOK, Files
  <2>2. ledger[n] # Absent
    BY DEF IInv, AppliedInOrder
  <2> QED
    BY <2>1, <2>2, <1>3
<1>12. ServesItsRelease'
  <2> SUFFICES ASSUME NEW q \in Runners, pc'[q] = "serving" PROVE ledger' = loaded'[q]
    BY DEF ServesItsRelease
  <2>1. CASE q = r
    BY <2>1, <1>7
  <2>2. CASE q # r   \* impossible: q serves, so the file was recorded before
    <3>1. ledger = loaded[q]
      BY <2>2, <1>7 DEF IInv, ServesItsRelease
    <3>2. ledger[at[r]] \in Versions
      BY <3>1, <1>1 DEF IInv, TypeOK
    <3> QED
      BY <3>2, FileCounts
  <2> QED BY <2>1, <2>2
<1> QED
  BY <1>4, <1>0, <1>9, <1>10, <1>11, <1>12 DEF IInv

(* Every other step leaves the ledger and the statements alone.              *)
LEMMA OtherSteps ==
  ASSUME IInv, NEW r \in Runners,
         \/ start(r) \/ rejected(r) \/ fault(r)
         \/ record(r) /\ ledger[at[r]] # Absent
  PROVE  IInv'
<1>1. /\ UNCHANGED <<deployed, ledger, executed, seen, loaded, at, step>>
      /\ pc' \in [Runners -> {"off", "read", "execute", "record", "serving"}]
      /\ pc'[r] \in {"off", "read"}
      /\ \A q \in Runners \ {r} : pc'[q] = pc[q]
  BY DEF start, rejected, fault, record, IInv, TypeOK
<1>2. faults' \in 0..MaxFaults
  BY FileCounts DEF start, rejected, fault, record, IInv, TypeOK
<1>3. cut' \in BOOLEAN
  BY DEF start, rejected, fault, record, IInv, TypeOK
<1>4. TypeOK'
  BY <1>1, <1>2, <1>3 DEF IInv, TypeOK
<1>5. SeenIsRecorded' /\ Position(r)'
  BY <1>1 DEF IInv, SeenIsRecorded, Position
<1> QED
  BY <1>1, <1>4, <1>5, QuietStep

(* Editing a file touches no runner.                                         *)
LEMMA EditStep ==
  ASSUME IInv, NEW m \in Files, edit(m)
  PROVE  IInv'
<1>1. TypeOK'
  BY MigrationAssumption DEF edit, run, IInv, TypeOK, Versions
<1> QED
  BY <1>1 DEF edit, run, IInv, SeenIsRecorded, Positions, Position,
              RecordedIsApplied, AppliedInOrder, ServesItsRelease

(* Every step of the runners keeps the invariant.                            *)
LEMMA StepIInv == IInv /\ [Next]_vars => IInv'
<1> SUFFICES ASSUME IInv, [Next]_vars PROVE IInv'
  OBVIOUS
<1>1. CASE UNCHANGED vars
  BY <1>1 DEF vars, run, IInv, TypeOK, SeenIsRecorded, Positions, Position,
              RecordedIsApplied, AppliedInOrder, ServesItsRelease
<1>2. CASE \E m \in Files : edit(m)
  BY <1>2, EditStep
<1>3. CASE \E r \in Runners : start(r) \/ migrate(r) \/ fault(r)
  BY <1>3, ReadStep, ExecuteStep, RecordStep, OtherSteps DEF migrate
<1> QED
  BY <1>1, <1>2, <1>3 DEF Next

(* However many processes migrate at once, whatever is edited and whatever   *)
(* fails: a recorded file was applied in full, in the recorded version; no   *)
(* statement takes effect ahead of the files before its own; and a process   *)
(* that serves was released with exactly the recorded files.                 *)
THEOREM LedgerIsSound == Spec => []LedgerSound
<1>1. IInv => LedgerSound
  BY DEF IInv, LedgerSound
<1> QED
  BY <1>1, InitIInv, StepIInv, PTL DEF Spec

-----------------------------------------------------------------------------
(* The composition                                                           *)

(* A step of the composition is a step of each component, or leaves it be.   *)
LEMMA ComponentSteps ==
  ASSUME [ServicesNext]_allVars
  PROVE  [playNext \/ probeNext]_playVars /\ [lifeNext]_lifeVars /\ [Next]_vars
  BY DEF ServicesNext, Playing, Living, Migrating, allVars

-----------------------------------------------------------------------------
(* The life of a process                                                     *)

atRest(c) == calls[c] \in {"none", "over"}

LifeTypes ==
  /\ role \in {"api", "worker"} /\ embedded \in BOOLEAN /\ configured \in BOOLEAN
  /\ processPhase \in {"database", "migrations", "events", "scheduler", "server", "serving", "app",
                       "stop", "queues", "connections", "closed", "exit0", "exit1"}
  /\ dbOpen \in BOOLEAN /\ signalled \in BOOLEAN
  /\ calls \in [Calls -> {"none", "read", "trigger", "building", "over"}]
  /\ job \in {"idle", "running", "overdue"}
  /\ registered \in Nat /\ made \in Nat

(* What shutdown() has been through tells what is over.                      *)
WindsDown ==
  /\ signalled => processPhase \in {"app", "stop", "queues", "connections", "closed", "exit0", "exit1"}
  /\ processPhase \in {"database", "migrations", "events", "scheduler", "server", "stop", "queues",
                       "connections", "closed"} => \A c \in Calls : atRest(c)
  /\ role = "worker" => \A c \in Calls : calls[c] = "none"
  /\ processPhase \in {"migrations", "events", "scheduler", "server", "serving", "app", "stop", "queues",
                       "connections"} => dbOpen
  /\ processPhase \in {"connections", "closed"} => job # "running"
  /\ ~dbOpen /\ signalled =>
       processPhase \in {"closed", "exit0", "exit1"} /\ (\A c \in Calls : atRest(c)) /\ job # "running"

(* A process that hosts the jobs has its one queue before it serves.         *)
HostsOneQueue ==
  hostsJobs =>
    /\ \A c \in Calls : calls[c] # "building"
    /\ processPhase \in {"database", "migrations", "events", "scheduler"} => jobs = {} /\ built = {}
    /\ processPhase \in {"server", "serving", "app"} => registered = 1 /\ handled = {1}
    /\ built \subseteq {1} /\ jobs \subseteq handled

LifeInv == LifeTypes /\ WindsDown /\ HostsOneQueue

(* A process starts in order.                                                *)
LEMMA LifeStart == lifeInit => LifeInv
<1> SUFFICES ASSUME lifeInit PROVE LifeInv
  OBVIOUS
<1>1. LifeTypes
  BY DEF lifeInit, LifeTypes
<1>2. WindsDown
  BY DEF lifeInit, WindsDown, atRest
<1>3. HostsOneQueue
  BY DEF lifeInit, HostsOneQueue
<1> QED
  BY <1>1, <1>2, <1>3 DEF LifeInv

(* Start-up keeps the order.                                                 *)
LEMMA StartupOK ==
  ASSUME LifeInv, \/ failsToStart \/ getDatabase \/ runMigrations \/ connectCrossInstance
                  \/ startScheduler \/ serve
  PROVE  LifeInv'
<1>1. CASE failsToStart
  <2>1. LifeTypes'
    BY <1>1 DEF LifeInv, LifeTypes, failsToStart, settings, queueState
  <2>2. WindsDown'
    BY <1>1 DEF LifeInv, LifeTypes, WindsDown, atRest, failsToStart, settings, queueState
  <2>3. HostsOneQueue'
    BY <1>1 DEF LifeInv, LifeTypes, WindsDown, HostsOneQueue, hostsJobs, failsToStart, settings, queueState
  <2> QED
    BY <2>1, <2>2, <2>3 DEF LifeInv
<1>2. CASE getDatabase
  <2>1. LifeTypes'
    BY <1>2 DEF LifeInv, LifeTypes, getDatabase, settings, queueState
  <2>2. WindsDown'
    BY <1>2 DEF LifeInv, LifeTypes, WindsDown, atRest, getDatabase, settings, queueState
  <2>3. HostsOneQueue'
    BY <1>2 DEF LifeInv, LifeTypes, WindsDown, HostsOneQueue, hostsJobs, getDatabase, settings, queueState
  <2> QED
    BY <2>1, <2>2, <2>3 DEF LifeInv
<1>3. CASE runMigrations
  <2>1. LifeTypes'
    BY <1>3 DEF LifeInv, LifeTypes, runMigrations, settings, queueState
  <2>2. WindsDown'
    BY <1>3 DEF LifeInv, LifeTypes, WindsDown, atRest, runMigrations, settings, queueState
  <2>3. HostsOneQueue'
    BY <1>3 DEF LifeInv, LifeTypes, WindsDown, HostsOneQueue, hostsJobs, runMigrations, settings, queueState
  <2> QED
    BY <2>1, <2>2, <2>3 DEF LifeInv
<1>4. CASE connectCrossInstance
  <2>1. LifeTypes'
    BY <1>4 DEF LifeInv, LifeTypes, connectCrossInstance, settings, queueState
  <2>2. WindsDown'
    BY <1>4 DEF LifeInv, LifeTypes, WindsDown, atRest, connectCrossInstance, settings, queueState
  <2>3. HostsOneQueue'
    BY <1>4 DEF LifeInv, LifeTypes, WindsDown, HostsOneQueue, hostsJobs, connectCrossInstance, settings, queueState
  <2> QED
    BY <2>1, <2>2, <2>3 DEF LifeInv
<1>5. CASE startScheduler
  <2>1. LifeTypes'
    BY <1>5 DEF LifeInv, LifeTypes, startScheduler, settings, queueState
  <2>2. WindsDown'
    BY <1>5 DEF LifeInv, LifeTypes, WindsDown, atRest, startScheduler, settings, queueState
  <2>3. HostsOneQueue'
    BY <1>5 DEF LifeInv, LifeTypes, WindsDown, HostsOneQueue, hostsJobs, startScheduler, settings, queueState
  <2> QED
    BY <2>1, <2>2, <2>3 DEF LifeInv
<1>6. CASE serve
  <2>1. LifeTypes'
    BY <1>6 DEF LifeInv, LifeTypes, serve, settings, queueState
  <2>2. WindsDown'
    BY <1>6 DEF LifeInv, LifeTypes, WindsDown, atRest, serve, settings, queueState
  <2>3. HostsOneQueue'
    BY <1>6 DEF LifeInv, LifeTypes, WindsDown, HostsOneQueue, hostsJobs, serve, settings, queueState
  <2> QED
    BY <2>1, <2>2, <2>3 DEF LifeInv
<1> QED
  BY <1>1, <1>2, <1>3, <1>4, <1>5, <1>6

(* Requests and jobs keep it.                                                *)
LEMMA TrafficOK ==
  ASSUME LifeInv, \/ \E c \in Calls : \/ arrives(c) \/ findsQueue(c) \/ createQueue(c) \/ registerQueue(c)
                                      \/ reads(c)
                  \/ jobStarts \/ jobEnds
  PROVE  LifeInv'
<1>0. ASSUME NEW c \in Calls, ~exited, calls[c] \in {"trigger", "building"}
      PROVE  processPhase \in {"serving", "app"}
  BY <1>0 DEF LifeInv, LifeTypes, WindsDown, atRest, exited
<1>1. CASE \E c \in Calls : arrives(c)
  <2>1. LifeTypes'
    BY <1>1 DEF LifeInv, LifeTypes, arrives, settings, queueState, exited
  <2>2. WindsDown'
    BY <1>1 DEF LifeInv, LifeTypes, WindsDown, atRest, arrives, settings, queueState, exited
  <2>3. HostsOneQueue'
    BY <1>1 DEF LifeInv, LifeTypes, WindsDown, HostsOneQueue, hostsJobs, arrives, settings, queueState, exited
  <2> QED
    BY <2>1, <2>2, <2>3 DEF LifeInv
<1>2. CASE \E c \in Calls : findsQueue(c)
  <2>1. LifeTypes'
    BY <1>2 DEF LifeInv, LifeTypes, findsQueue, settings, queueState, exited
  <2>2. WindsDown'
    BY <1>2 DEF LifeInv, LifeTypes, WindsDown, atRest, findsQueue, settings, queueState, exited
  <2>3. HostsOneQueue'
    <3> PICK c \in Calls : findsQueue(c)
      BY <1>2
    <3>1. processPhase \in {"serving", "app"}
      BY <1>0 DEF findsQueue
    <3> QED
      BY <3>1 DEF LifeInv, LifeTypes, HostsOneQueue, hostsJobs, findsQueue, settings, queueState
  <2> QED
    BY <2>1, <2>2, <2>3 DEF LifeInv
<1>3. CASE \E c \in Calls : createQueue(c)
  <2>1. LifeTypes'
    BY <1>3 DEF LifeInv, LifeTypes, createQueue, settings, queueState, exited
  <2>2. WindsDown'
    BY <1>3 DEF LifeInv, LifeTypes, WindsDown, atRest, createQueue, settings, queueState, exited
  <2>3. HostsOneQueue'
    <3> PICK c \in Calls : createQueue(c)
      BY <1>3
    <3>1. processPhase \in {"serving", "app"}
      BY <1>0 DEF createQueue
    <3> QED
      BY <3>1 DEF LifeInv, LifeTypes, HostsOneQueue, hostsJobs, createQueue, settings, queueState
  <2> QED
    BY <2>1, <2>2, <2>3 DEF LifeInv
<1>4. CASE \E c \in Calls : registerQueue(c)
  <2>1. LifeTypes'
    BY <1>4 DEF LifeInv, LifeTypes, registerQueue, settings, queueState, exited
  <2>2. WindsDown'
    BY <1>4 DEF LifeInv, LifeTypes, WindsDown, atRest, registerQueue, settings, queueState, exited
  <2>3. HostsOneQueue'
    <3> PICK c \in Calls : registerQueue(c)
      BY <1>4
    <3>1. processPhase \in {"serving", "app"}
      BY <1>0 DEF registerQueue
    <3> QED
      BY <3>1 DEF LifeInv, LifeTypes, HostsOneQueue, hostsJobs, registerQueue, settings, queueState
  <2> QED
    BY <2>1, <2>2, <2>3 DEF LifeInv
<1>5. CASE \E c \in Calls : reads(c)
  <2>1. LifeTypes'
    BY <1>5 DEF LifeInv, LifeTypes, reads, settings, queueState, exited
  <2>2. WindsDown'
    BY <1>5 DEF LifeInv, LifeTypes, WindsDown, atRest, reads, settings, queueState, exited
  <2>3. HostsOneQueue'
    BY <1>5 DEF LifeInv, LifeTypes, WindsDown, HostsOneQueue, hostsJobs, reads, settings, queueState, exited
  <2> QED
    BY <2>1, <2>2, <2>3 DEF LifeInv
<1>6. CASE jobStarts
  <2>1. LifeTypes'
    BY <1>6 DEF LifeInv, LifeTypes, jobStarts, settings, queueState, exited
  <2>2. WindsDown'
    BY <1>6 DEF LifeInv, LifeTypes, WindsDown, atRest, jobStarts, settings, queueState, exited
  <2>3. HostsOneQueue'
    BY <1>6 DEF LifeInv, LifeTypes, WindsDown, HostsOneQueue, hostsJobs, jobStarts, settings, queueState, exited
  <2> QED
    BY <2>1, <2>2, <2>3 DEF LifeInv
<1>7. CASE jobEnds
  <2>1. LifeTypes'
    BY <1>7 DEF LifeInv, LifeTypes, jobEnds, settings, queueState, exited
  <2>2. WindsDown'
    BY <1>7 DEF LifeInv, LifeTypes, WindsDown, atRest, jobEnds, settings, queueState, exited
  <2>3. HostsOneQueue'
    BY <1>7 DEF LifeInv, LifeTypes, WindsDown, HostsOneQueue, hostsJobs, jobEnds, settings, queueState, exited
  <2> QED
    BY <2>1, <2>2, <2>3 DEF LifeInv
<1> QED
  BY <1>1, <1>2, <1>3, <1>4, <1>5, <1>6, <1>7

(* Shutdown keeps it.                                                        *)
LEMMA ShutdownOK ==
  ASSUME LifeInv, \/ shutdown \/ closeApp \/ deadlinePasses \/ stopScheduler \/ closeAllQueues
                  \/ closeConnections \/ exits \/ forceExit
  PROVE  LifeInv'
<1>1. CASE shutdown
  <2>1. LifeTypes'
    BY <1>1 DEF LifeInv, LifeTypes, shutdown, settings, queueState
  <2>2. WindsDown'
    BY <1>1 DEF LifeInv, LifeTypes, WindsDown, atRest, shutdown, settings, queueState
  <2>3. HostsOneQueue'
    BY <1>1 DEF LifeInv, LifeTypes, WindsDown, HostsOneQueue, hostsJobs, shutdown, settings, queueState
  <2> QED
    BY <2>1, <2>2, <2>3 DEF LifeInv
<1>2. CASE closeApp
  <2>1. LifeTypes'
    BY <1>2 DEF LifeInv, LifeTypes, closeApp, settings, queueState
  <2>2. WindsDown'
    BY <1>2 DEF LifeInv, LifeTypes, WindsDown, atRest, closeApp, settings, queueState
  <2>3. HostsOneQueue'
    BY <1>2 DEF LifeInv, LifeTypes, WindsDown, HostsOneQueue, hostsJobs, closeApp, settings, queueState
  <2> QED
    BY <2>1, <2>2, <2>3 DEF LifeInv
<1>3. CASE deadlinePasses
  <2>1. LifeTypes'
    BY <1>3 DEF LifeInv, LifeTypes, deadlinePasses, settings, queueState
  <2>2. WindsDown'
    BY <1>3 DEF LifeInv, LifeTypes, WindsDown, atRest, deadlinePasses, settings, queueState
  <2>3. HostsOneQueue'
    BY <1>3 DEF LifeInv, LifeTypes, WindsDown, HostsOneQueue, hostsJobs, deadlinePasses, settings, queueState
  <2> QED
    BY <2>1, <2>2, <2>3 DEF LifeInv
<1>4. CASE stopScheduler
  <2>1. LifeTypes'
    BY <1>4 DEF LifeInv, LifeTypes, stopScheduler, settings, queueState
  <2>2. WindsDown'
    BY <1>4 DEF LifeInv, LifeTypes, WindsDown, atRest, stopScheduler, settings, queueState
  <2>3. HostsOneQueue'
    BY <1>4 DEF LifeInv, LifeTypes, WindsDown, HostsOneQueue, hostsJobs, stopScheduler, settings, queueState
  <2> QED
    BY <2>1, <2>2, <2>3 DEF LifeInv
<1>5. CASE closeAllQueues
  <2>1. LifeTypes'
    BY <1>5 DEF LifeInv, LifeTypes, closeAllQueues, settings, queueState
  <2>2. WindsDown'
    BY <1>5 DEF LifeInv, LifeTypes, WindsDown, atRest, closeAllQueues, settings, queueState
  <2>3. HostsOneQueue'
    BY <1>5 DEF LifeInv, LifeTypes, WindsDown, HostsOneQueue, hostsJobs, closeAllQueues, settings, queueState
  <2> QED
    BY <2>1, <2>2, <2>3 DEF LifeInv
<1>6. CASE closeConnections
  <2>1. LifeTypes'
    BY <1>6 DEF LifeInv, LifeTypes, closeConnections, settings, queueState
  <2>2. WindsDown'
    BY <1>6 DEF LifeInv, LifeTypes, WindsDown, atRest, closeConnections, settings, queueState
  <2>3. HostsOneQueue'
    BY <1>6 DEF LifeInv, LifeTypes, WindsDown, HostsOneQueue, hostsJobs, closeConnections, settings, queueState
  <2> QED
    BY <2>1, <2>2, <2>3 DEF LifeInv
<1>7. CASE exits
  <2>1. LifeTypes'
    BY <1>7 DEF LifeInv, LifeTypes, exits, settings, queueState
  <2>2. WindsDown'
    BY <1>7 DEF LifeInv, LifeTypes, WindsDown, atRest, exits, settings, queueState
  <2>3. HostsOneQueue'
    BY <1>7 DEF LifeInv, LifeTypes, WindsDown, HostsOneQueue, hostsJobs, exits, settings, queueState
  <2> QED
    BY <2>1, <2>2, <2>3 DEF LifeInv
<1>0. CASE forceExit
  <2>1. LifeTypes'
    BY <1>0 DEF LifeInv, LifeTypes, forceExit, settings, queueState, exited
  <2>2. WindsDown'
    BY <1>0 DEF LifeInv, LifeTypes, WindsDown, atRest, forceExit, settings, queueState, exited
  <2>3. HostsOneQueue'
    BY <1>0 DEF LifeInv, LifeTypes, WindsDown, HostsOneQueue, hostsJobs, forceExit, settings, queueState, exited
  <2> QED
    BY <2>1, <2>2, <2>3 DEF LifeInv
<1> QED
  BY <1>1, <1>2, <1>3, <1>4, <1>5, <1>6, <1>7, <1>0

(* For any number of requests, whatever hangs and whenever the signal comes: *)
(* the database is closed after the requests and the handlers that were not  *)
(* given up; a job that is queued where the API hosts the jobs has a         *)
(* handler; and a process that hosts them has one queue of a name            *)
(* (apps/api/src/index.ts, apps/worker/src/index.ts, queue/factory.ts).      *)
THEOREM ProcessIsOrderly == ServicesSpec => []OrderlyProcess
<1>1. ServicesInit => LifeInv
  BY LifeStart DEF ServicesInit
<1>2. LifeInv /\ [ServicesNext]_allVars => LifeInv'
  <2> SUFFICES ASSUME LifeInv, [lifeNext]_lifeVars PROVE LifeInv'
    BY ComponentSteps
  <2>1. CASE UNCHANGED lifeVars
    BY <2>1 DEF lifeVars, LifeInv, LifeTypes, WindsDown, HostsOneQueue, hostsJobs, atRest
  <2> QED
    BY <2>1, StartupOK, TrafficOK, ShutdownOK DEF lifeNext
<1>3. LifeInv => OrderlyProcess
  <2> SUFFICES ASSUME LifeInv PROVE ClosesLast /\ TriggersHandled /\ OneQueuePerName
    BY DEF OrderlyProcess
  <2>1. ClosesLast
    BY DEF LifeInv, WindsDown, ClosesLast, atRest
  <2>2. TriggersHandled
    BY DEF LifeInv, HostsOneQueue, hostsJobs, TriggersHandled
  <2>3. OneQueuePerName
    <3> SUFFICES ASSUME hostsJobs PROVE Cardinality(built) =< 1
      BY DEF OneQueuePerName
    <3>1. built = {} \/ built = {1}
      BY DEF LifeInv, HostsOneQueue
    <3> QED
      BY <3>1, FS_EmptySet, FS_Singleton
  <2> QED
    BY <2>1, <2>2, <2>3
<1> QED
  BY <1>1, <1>2, <1>3, PTL DEF ServicesSpec

-----------------------------------------------------------------------------
(* Requests for others                                                       *)

(* A URL, or none.                                                           *)
Carried == Targets \cup {"none"}

Codes ==
  {"none", "CIRCUIT_OPEN", "UPSTREAM_TIMEOUT", "UPSTREAM_ERROR", "TypeError", "AbortError"}
    \cup {validateTargetUrl(u, AllowHttp, a) : u \in Carried, a \in SUBSET Addresses}

Stages ==
  {"none", "validate", "requesting", "headers", "reading", "record", "answered", "over"}

RequestRecords ==
  [at : Stages, typed : Carried, url : Carried, hop : Nat, bytes : Nat, kept : Int, cut : BOOLEAN,
   status : {"none", "2xx", "3xx", "5xx"}, code : Codes]

(* When a request has an agent.                                              *)
connected(r) == r.at \in {"requesting", "headers", "reading"}

(* What is known of a request, wherever it is: a status before an answer is  *)
(* read, an error or a status before it is recorded, and what was read.      *)
requestFits(r) ==
  /\ r \in RequestRecords
  /\ r.at \in {"headers", "reading"} => r.code = "none" /\ r.status # "none"
  /\ r.at \in {"validate", "requesting"} => r.code = "none"
  /\ r.at \in {"record", "answered"} => (r.code = "none" <=> r.status # "none")
  /\ r.at # "reading" => r.bytes = 0
  /\ r.kept = IF r.bytes > MaxBytes THEN MaxBytes ELSE r.bytes
  /\ r.cut <=> r.bytes > MaxBytes

(* The rows of a request.                                                    *)
rowsOf(s) == {r \in runs : r.send = s}

(* What is recorded of one request.                                          *)
recorded(s) ==
  IF request[s].at \in {"answered", "over"}
  THEN /\ Cardinality(rowsOf(s)) <= 1
       /\ \A r \in rowsOf(s) : /\ (r.code = "none") <=> (r.status # "none")
                               /\ request[s].at = "answered" => r.code = request[s].code
                               /\ request[s].at = "answered" /\ r.code = "none"
                                    => r.host = request[s].url.host
  ELSE rowsOf(s) = {}

panelShape(p) ==
  p = [sending |-> p.sending, response |-> p.response, error |-> p.error, notified |-> p.notified]

PlayTypes ==
  /\ request \in [Sends -> RequestRecords]
  /\ agents \in [Sends \cup {Prober} -> Int]
  /\ panelShape(panel)

PlayInv ==
  /\ PlayTypes /\ (\A s \in Sends : requestFits(request[s]) /\ recorded(s))
  /\ AgentsClosed /\ SenderHears

(* A step of one request: every invariant follows from what it does to that  *)
(* request, its agent and its rows.                                          *)
LEMMA RequestStep ==
  ASSUME PlayInv, NEW s \in Sends, NEW x, requestFits(x), request' = [request EXCEPT ![s] = x],
         agents' = [agents EXCEPT ![s] = IF connected(x) THEN 1 ELSE 0],
         x.at \notin {"none", "over"}, UNCHANGED probed,
         panelShape(panel'),
         \A t \in Sends \ {s} : rowsOf(t)' = rowsOf(t), recorded(s)'
  PROVE  PlayInv'
<1>1. request' \in [Sends -> RequestRecords] /\ request'[s] = x
      /\ \A t \in Sends \ {s} : request'[t] = request[t]
  BY DEF PlayInv, PlayTypes, requestFits
<1>2. /\ agents' \in [Sends \cup {Prober} -> Int] /\ agents'[s] = (IF connected(x) THEN 1 ELSE 0) /\ agents'[Prober] = agents[Prober]
      /\ \A t \in Sends \ {s} : agents'[t] = agents[t]
  BY PlaygroundAssumption DEF PlayInv, PlayTypes, PlaygroundAssumption, Prober
<1>3. PlayTypes'
  BY <1>1, <1>2 DEF PlayTypes, panelShape
<1>4. \A t \in Sends : requestFits(request[t])' /\ recorded(t)'
  <2>1. \A t \in Sends \ {s} : requestFits(request'[t])
    BY <1>1 DEF PlayInv
  <2>2. \A t \in Sends \ {s} : recorded(t)'
    BY <1>1 DEF PlayInv, recorded
  <2> QED
    BY <1>1, <2>1, <2>2 DEF requestFits
<1>5. AgentsClosed'
  BY <1>1, <1>2 DEF PlayInv, AgentsClosed, connected
<1>6. SenderHears'
  BY <1>1 DEF SenderHears
<1> QED
  BY <1>3, <1>4, <1>5, <1>6 DEF PlayInv

(* ... before it is recorded.                                                *)
LEMMA EarlyStep ==
  ASSUME PlayInv, NEW s \in Sends, request[s].at \notin {"answered", "over"},
         NEW x, requestFits(x), request' = [request EXCEPT ![s] = x],
         agents' = [agents EXCEPT ![s] = IF connected(x) THEN 1 ELSE 0],
         x.at \notin {"none", "answered", "over"}, UNCHANGED <<runs, probed>>, panelShape(panel')
  PROVE  PlayInv'
<1>1. request'[s] = x
  BY DEF PlayInv, PlayTypes
<1>2. \A t \in Sends : rowsOf(t)' = rowsOf(t)
  BY DEF rowsOf
<1>3. recorded(s)'
  BY <1>1, <1>2 DEF PlayInv, recorded
<1> QED
  BY <1>2, <1>3, RequestStep

(* What a request holds before it begins, and when it has failed.            *)
LEMMA FreshRequests ==
  /\ noRequest \in RequestRecords /\ requestFits(noRequest)
  /\ \A u \in Carried : requestFits([noRequest EXCEPT !.at = "validate", !.typed = u, !.url = u])
  /\ \A u \in Carried : \A c \in Codes \ {"none"} :
       requestFits(errorOf(u, c)) /\ errorOf(u, c).at = "record"
<1>1. "none" \in Codes /\ "none" \in Carried /\ MaxBytes \in Nat
  BY PlaygroundAssumption DEF Codes, Carried, PlaygroundAssumption
<1>2. noRequest \in RequestRecords
  BY <1>1 DEF noRequest, RequestRecords, Stages
<1>3. requestFits(noRequest)
  BY <1>1, <1>2 DEF requestFits, noRequest
<1>4. /\ noRequest.bytes = 0 /\ noRequest.kept = 0 /\ noRequest.cut = FALSE
      /\ noRequest.status = "none" /\ noRequest.code = "none"
  BY DEF noRequest
<1>5. ASSUME NEW u \in Carried
      PROVE  requestFits([noRequest EXCEPT !.at = "validate", !.typed = u, !.url = u])
  <2> DEFINE x == [noRequest EXCEPT !.at = "validate", !.typed = u, !.url = u]
  <2>1. x \in RequestRecords
    BY <1>2 DEF RequestRecords, Stages
  <2>2. x.at = "validate" /\ x.bytes = 0 /\ x.kept = 0 /\ x.cut = FALSE /\ x.code = "none"
    BY <1>2, <1>4 DEF RequestRecords
  <2> HIDE DEF x
  <2>3. requestFits(x)
    BY <1>1, <2>1, <2>2 DEF requestFits
  <2> QED
    BY <2>3 DEF x
<1>6. ASSUME NEW u \in Carried, NEW c \in Codes \ {"none"}
      PROVE  requestFits(errorOf(u, c)) /\ errorOf(u, c).at = "record"
  <2> DEFINE x == errorOf(u, c)
  <2>1. x \in RequestRecords
    BY <1>2 DEF errorOf, RequestRecords, Stages
  <2>2. /\ x.at = "record" /\ x.bytes = 0 /\ x.kept = 0 /\ x.cut = FALSE /\ x.status = "none"
        /\ x.code = c
    BY <1>2, <1>4 DEF errorOf, RequestRecords
  <2> HIDE DEF x
  <2>3. requestFits(x) /\ x.at = "record"
    BY <1>1, <2>1, <2>2 DEF requestFits
  <2> QED
    BY <2>3 DEF x
<1> QED
  BY <1>2, <1>3, <1>5, <1>6, Zenon

(* Facts of one request.                                                     *)
LEMMA RequestFacts ==
  ASSUME PlayInv, NEW s \in Sends
  PROVE  /\ request[s] \in RequestRecords /\ requestFits(request[s])
         /\ agents[s] = (IF connected(request[s]) THEN 1 ELSE 0)
         /\ request[s].url \in Carried /\ request[s].typed \in Carried
         /\ request \in [Sends -> RequestRecords] /\ agents \in [Sends \cup {Prober} -> Int]
         /\ panelShape(panel) /\ MaxBytes \in Nat
  BY PlaygroundAssumption
     DEF PlayInv, PlayTypes, AgentsClosed, connected, requestFits, RequestRecords, PlaygroundAssumption

(* The catch block.                                                          *)
LEMMA ThrowsOK ==
  ASSUME PlayInv, NEW s \in Sends, request[s].at \notin {"answered", "over"},
         NEW c \in Codes \ {"none"}, throws(s, c), UNCHANGED <<runs, probed, panel>>
  PROVE  PlayInv'
<1> DEFINE x == errorOf(request[s].typed, c)
<1>1. requestFits(x) /\ x.at = "record"
  <2>1. request[s].typed \in Carried
    BY RequestFacts
  <2> QED
    BY <2>1, FreshRequests, Zenon
<1>2. request' = [request EXCEPT ![s] = x] /\ agents' = [agents EXCEPT ![s] = 0]
  BY DEF throws
<1>3. agents' = [agents EXCEPT ![s] = IF connected(x) THEN 1 ELSE 0]
  BY <1>1, <1>2 DEF connected
<1>4. panelShape(panel')
  BY RequestFacts
<1> HIDE DEF x
<1> QED
  BY <1>1, <1>2, <1>3, <1>4, EarlyStep

(* send() keeps the accounts.                                                *)
LEMMA SendOK ==
  ASSUME PlayInv, NEW s \in Sends, NEW target \in Targets, send(s, target)
  PROVE  PlayInv'
<1> DEFINE x == [noRequest EXCEPT !.at = "validate", !.typed = target, !.url = target]
<1>1. requestFits(x) /\ x.at = "validate"
  <2>1. target \in Carried
    BY DEF Carried
  <2>2. requestFits(x)
    BY <2>1, FreshRequests, Zenon
  <2> QED
    BY <2>2 DEF noRequest
<1>2. request[s].at = "none" /\ request' = [request EXCEPT ![s] = x] /\ UNCHANGED <<agents, runs, probed>>
  BY DEF send, noRequest
<1>3. agents' = [agents EXCEPT ![s] = IF connected(x) THEN 1 ELSE 0]
  BY <1>1, <1>2, RequestFacts DEF connected
<1>4. panelShape(panel')
  BY DEF send, blankPanel, panelShape
<1> HIDE DEF x
<1> QED
  BY <1>1, <1>2, <1>3, <1>4, EarlyStep

(* So do the steps of the executor.                                          *)
LEMMA HopOK ==
  ASSUME PlayInv, NEW s \in Sends, hop(s)
  PROVE  PlayInv'
<1>1. request[s].at = "validate" /\ UNCHANGED <<runs, probed, panel>>
  BY DEF hop
<1>2. PICK answer \in SUBSET Addresses :
        LET code == validateTargetUrl(request[s].url, AllowHttp, answer) IN
        IF code # "none"
        THEN throws(s, code)
        ELSE IF circuitOpen(request[s].url.host)
        THEN throws(s, "CIRCUIT_OPEN")
        ELSE /\ request' = [request EXCEPT ![s].at = "requesting"]
             /\ agents' = [agents EXCEPT ![s] = @ + 1]
  BY DEF hop
<1> DEFINE c == validateTargetUrl(request[s].url, AllowHttp, answer)
           x == [request[s] EXCEPT !.at = "requesting"]
<1>3. c \in Codes /\ "CIRCUIT_OPEN" \in Codes
  BY RequestFacts DEF Codes
<1>4. CASE throws(s, c) /\ c # "none"
  <2> HIDE DEF c
  <2> QED
    BY <1>1, <1>3, <1>4, ThrowsOK
<1>5. CASE throws(s, "CIRCUIT_OPEN")
  BY <1>1, <1>3, <1>5, ThrowsOK
<1>6. CASE request' = [request EXCEPT ![s].at = "requesting"] /\ agents' = [agents EXCEPT ![s] = @ + 1]
  <2>1. x \in RequestRecords
    BY RequestFacts DEF RequestRecords, Stages
  <2>2. requestFits(x)
    BY <1>1, <2>1, RequestFacts DEF requestFits, RequestRecords
  <2>3. x.at = "requesting" /\ request' = [request EXCEPT ![s] = x]
    BY <1>6, RequestFacts DEF RequestRecords
  <2>4. agents' = [agents EXCEPT ![s] = IF connected(x) THEN 1 ELSE 0]
    <3>1. agents[s] = 0
      BY <1>1, RequestFacts DEF connected
    <3> QED
      BY <1>6, <2>3, <3>1 DEF connected
  <2>5. panelShape(panel')
    BY <1>1, RequestFacts
  <2> HIDE DEF x
  <2> QED
    BY <1>1, <2>2, <2>3, <2>4, <2>5, EarlyStep
<1> QED
  BY <1>2, <1>4, <1>5, <1>6

(* ... the answer of the host, or its failure.                               *)
LEMMA AnswerOK ==
  ASSUME PlayInv, NEW s \in Sends, requestFails(s) \/ answers(s) \/ follows(s) \/ readsBody(s)
  PROVE  PlayInv'
<1>1. CASE requestFails(s)
  <2>1. PICK c \in {"UPSTREAM_TIMEOUT", "UPSTREAM_ERROR"} : throws(s, c)
    BY <1>1 DEF requestFails
  <2> QED
    BY <1>1, <2>1, ThrowsOK DEF requestFails, Codes
<1>2. CASE answers(s)
  <2>1. PICK status \in {"2xx", "3xx", "5xx"} :
          request' = [request EXCEPT ![s].at = "headers", ![s].status = status]
    BY <1>2 DEF answers
  <2>2. request[s].at = "requesting" /\ UNCHANGED <<panel, agents, runs, probed>>
    BY <1>2 DEF answers
  <2> DEFINE x == [request[s] EXCEPT !.at = "headers", !.status = status]
  <2>3. x \in RequestRecords
    BY RequestFacts DEF RequestRecords, Stages
  <2>4. requestFits(x)
    BY <2>2, <2>3, RequestFacts DEF requestFits, RequestRecords
  <2>5. x.at = "headers" /\ request' = [request EXCEPT ![s] = x]
    BY <2>1, RequestFacts DEF RequestRecords
  <2>6. agents' = [agents EXCEPT ![s] = IF connected(x) THEN 1 ELSE 0]
    BY <2>2, <2>5, RequestFacts DEF connected
  <2>7. panelShape(panel')
    BY <2>2, RequestFacts
  <2> HIDE DEF x
  <2> QED
    BY <2>2, <2>4, <2>5, <2>6, <2>7, EarlyStep
<1>3. CASE follows(s)
  <2>1. request[s].at = "headers" /\ UNCHANGED <<panel, runs, probed>>
    BY <1>3, Zenon DEF follows
  <2>2. CASE throws(s, "TypeError")
    BY <2>1, <2>2, ThrowsOK DEF Codes
  <2>3. CASE ~throws(s, "TypeError")
    <3>1. PICK next \in Targets :
            /\ request' = [request EXCEPT ![s].at = "validate", ![s].url = next,
                                          ![s].hop = @ + 1, ![s].status = "none"]
            /\ agents' = [agents EXCEPT ![s] = @ - 1]
      BY <1>3, <2>3, Zenon DEF follows
    <3> DEFINE x == [request[s] EXCEPT !.at = "validate", !.url = next, !.hop = @ + 1, !.status = "none"]
    <3>2. x \in RequestRecords
      <4>1. next \in Carried
        BY DEF Carried
      <4>2. request[s].hop \in Nat /\ request[s].hop + 1 \in Nat
        BY RequestFacts DEF RequestRecords
      <4> QED
        BY <4>1, <4>2, RequestFacts DEF RequestRecords, Stages
    <3>3. requestFits(x)
      BY <2>1, <3>2, RequestFacts DEF requestFits, RequestRecords
    <3>4. x.at = "validate" /\ request' = [request EXCEPT ![s] = x]
      BY <3>1, RequestFacts DEF RequestRecords
    <3>5. agents' = [agents EXCEPT ![s] = IF connected(x) THEN 1 ELSE 0]
      <4>1. agents[s] = 1
        BY <2>1, RequestFacts DEF connected
      <4> QED
        BY <3>1, <3>4, <4>1 DEF connected
    <3>6. panelShape(panel')
      BY <2>1, RequestFacts
    <3> HIDE DEF x
    <3> QED
      BY <2>1, <3>3, <3>4, <3>5, <3>6, EarlyStep
  <2> QED
    BY <2>2, <2>3
<1>4. CASE readsBody(s)
  <2>1. /\ request[s].at = "headers" /\ request' = [request EXCEPT ![s].at = "reading"]
        /\ UNCHANGED <<panel, agents, runs, probed>>
    BY <1>4 DEF readsBody
  <2> DEFINE x == [request[s] EXCEPT !.at = "reading"]
  <2>2. x \in RequestRecords
    BY RequestFacts DEF RequestRecords, Stages
  <2>3. requestFits(x)
    BY <2>1, <2>2, RequestFacts DEF requestFits, RequestRecords
  <2>4. x.at = "reading" /\ request' = [request EXCEPT ![s] = x]
    BY <2>1, RequestFacts DEF RequestRecords
  <2>5. agents' = [agents EXCEPT ![s] = IF connected(x) THEN 1 ELSE 0]
    BY <2>1, <2>4, RequestFacts DEF connected
  <2>6. panelShape(panel')
    BY <2>1, RequestFacts
  <2> HIDE DEF x
  <2> QED
    BY <2>1, <2>3, <2>4, <2>5, <2>6, EarlyStep
<1> QED
  BY <1>1, <1>2, <1>3, <1>4

(* ... the body, cut at the cap.                                             *)
LEMMA BodyOK ==
  ASSUME PlayInv, NEW s \in Sends, (\E size \in 1..2 : chunk(s, size)) \/ bodyEnds(s)
  PROVE  PlayInv'
<1>1. CASE \E size \in 1..2 : chunk(s, size)
  <2>1. PICK size \in 1..2 : chunk(s, size)
    BY <1>1
  <2> DEFINE b == request[s].bytes + size
             k == request[s].kept + IF b > MaxBytes THEN size - (b - MaxBytes) ELSE size
             z == b > MaxBytes
             x == [request[s] EXCEPT !.bytes = b, !.cut = z, !.kept = k]
  <2>2. request[s].at = "reading" /\ ~request[s].cut /\ UNCHANGED <<panel, agents, runs, probed>>
    BY <2>1 DEF chunk
  <2>3. request' = [request EXCEPT ![s] = x]
    BY <2>1, RequestFacts DEF chunk, RequestRecords
  <2>4. /\ request[s].bytes \in Nat /\ ~(request[s].bytes > MaxBytes) /\ request[s].kept = request[s].bytes
        /\ MaxBytes \in Nat
    BY <2>2, RequestFacts DEF requestFits, RequestRecords
  <2>5. /\ b \in Nat /\ k \in Int /\ k = (IF b > MaxBytes THEN MaxBytes ELSE b)
        /\ z \in BOOLEAN /\ (z <=> b > MaxBytes)
    BY <2>4
  <2> HIDE DEF b, k, z
  <2>6. x \in RequestRecords
    BY <2>5, RequestFacts DEF RequestRecords
  <2>7. /\ x.at = "reading" /\ x.bytes = b /\ x.kept = k /\ x.cut = z
        /\ x.code = request[s].code /\ x.status = request[s].status
    BY <2>2, RequestFacts DEF RequestRecords
  <2> HIDE DEF x
  <2>8. requestFits(x)
    BY <2>2, <2>5, <2>6, <2>7, RequestFacts DEF requestFits
  <2>9. agents' = [agents EXCEPT ![s] = IF connected(x) THEN 1 ELSE 0]
    BY <2>2, <2>7, RequestFacts DEF connected
  <2>10. panelShape(panel')
    BY <2>2, RequestFacts
  <2> QED
    BY <2>2, <2>3, <2>7, <2>8, <2>9, <2>10, EarlyStep
<1>2. CASE bodyEnds(s)
  <2>1. request[s].at = "reading" /\ UNCHANGED <<panel, runs, probed>>
    BY <1>2 DEF bodyEnds
  <2>2. CASE throws(s, "AbortError")
    BY <2>1, <2>2, ThrowsOK DEF Codes
  <2>3. CASE /\ request' = [request EXCEPT ![s].at = "record", ![s].bytes = 0, ![s].kept = 0, ![s].cut = FALSE]
             /\ agents' = [agents EXCEPT ![s] = @ - 1]
    <3> DEFINE x == [request[s] EXCEPT !.at = "record", !.bytes = 0, !.kept = 0, !.cut = FALSE]
    <3>1. request' = [request EXCEPT ![s] = x]
      BY <2>3, RequestFacts DEF RequestRecords
    <3>2. x \in RequestRecords
      <4>1. "record" \in Stages /\ 0 \in Nat /\ 0 \in Int /\ FALSE \in BOOLEAN
        BY DEF Stages
      <4> QED
        BY <4>1, RequestFacts DEF RequestRecords
    <3>3. /\ x.at = "record" /\ x.bytes = 0 /\ x.kept = 0 /\ x.cut = FALSE
          /\ x.code = request[s].code /\ x.status = request[s].status
      BY RequestFacts DEF RequestRecords
    <3> HIDE DEF x
    <3>4. requestFits(x)
      BY <2>1, <3>2, <3>3, RequestFacts DEF requestFits
    <3>5. agents[s] = 1
      BY <2>1, RequestFacts DEF connected
    <3>6. agents' = [agents EXCEPT ![s] = IF connected(x) THEN 1 ELSE 0]
      BY <2>3, <3>3, <3>5 DEF connected
    <3>7. panelShape(panel')
      BY <2>1, RequestFacts
    <3> QED
      BY <2>1, <3>1, <3>3, <3>4, <3>6, <3>7, EarlyStep
  <2> QED
    BY <1>2, <2>2, <2>3 DEF bodyEnds
<1> QED
  BY <1>1, <1>2

(* The run is recorded, or not, as what it came to.                          *)
LEMMA RecordOK ==
  ASSUME PlayInv, NEW s \in Sends, recordRun(s)
  PROVE  PlayInv'
<1> DEFINE q == request[s]
           x == [q EXCEPT !.at = "answered"]
           row == [send |-> s, host |-> IF q.code = "none" THEN q.url.host ELSE q.typed.host,
                   status |-> IF q.code = "none" THEN q.status ELSE "none", code |-> q.code]
<1>1. /\ q.at = "record" /\ UNCHANGED <<panel, agents, outcomes, probed>>
      /\ runs' = runs \/ runs' = runs \cup {row}
  BY DEF recordRun
<1>2. request' = [request EXCEPT ![s] = x]
  BY RequestFacts DEF recordRun, RequestRecords
<1>3. x \in RequestRecords
  BY RequestFacts DEF RequestRecords, Stages
<1>4. /\ x.at = "answered" /\ x.bytes = q.bytes /\ x.kept = q.kept /\ x.cut = q.cut
      /\ x.code = q.code /\ x.status = q.status /\ x.url = q.url
  BY RequestFacts DEF RequestRecords
<1>5. rowsOf(s) = {}
  BY <1>1 DEF PlayInv, recorded
<1>6. row.send = s /\ row.code = q.code /\ (row.code = "none" <=> row.status # "none")
      /\ (row.code = "none" => row.host = q.url.host)
  BY <1>1, RequestFacts DEF requestFits
<1> HIDE DEF x, row
<1>7. requestFits(x)
  BY <1>1, <1>3, <1>4, RequestFacts DEF requestFits
<1>8. agents' = [agents EXCEPT ![s] = IF connected(x) THEN 1 ELSE 0]
  BY <1>1, <1>4, RequestFacts DEF connected
<1>9. panelShape(panel')
  BY <1>1, RequestFacts
<1>10. \A t \in Sends \ {s} : rowsOf(t)' = rowsOf(t)
  BY <1>1, <1>6 DEF rowsOf
<1>11. rowsOf(s)' = {} \/ rowsOf(s)' = {row}
  BY <1>1, <1>5, <1>6 DEF rowsOf
<1>12. recorded(s)'
  <2>1. request'[s] = x
    BY <1>2, RequestFacts
  <2>2. Cardinality(rowsOf(s)') =< 1
    <3>1. Cardinality({}) = 0 /\ Cardinality({row}) = 1
      BY FS_EmptySet, FS_Singleton
    <3> QED
      BY <1>11, <3>1
  <2>3. \A r \in rowsOf(s)' : r = row
    BY <1>11
  <2> QED
    BY <1>4, <1>6, <2>1, <2>2, <2>3 DEF recorded
<1> QED
  BY <1>1, <1>2, <1>4, <1>7, <1>8, <1>9, <1>10, <1>12, RequestStep

(* The answer arrives at the page.                                           *)
LEMMA ReceiveOK ==
  ASSUME PlayInv, NEW s \in Sends, receive(s)
  PROVE  PlayInv'
<1> DEFINE x == [noRequest EXCEPT !.at = "over"]
<1>1. request[s].at = "answered" /\ request' = [request EXCEPT ![s] = x] /\ UNCHANGED <<agents, runs, probed>>
  BY DEF receive
<1>2. panel' = [panel EXCEPT !.response = s, !.sending = FALSE]
        \/ panel' = [panel EXCEPT !.error = s, !.notified = s, !.sending = FALSE]
        \/ panel' = [panel EXCEPT !.notified = s, !.sending = FALSE]
  BY DEF receive
<1>3. panelShape(panel') /\ (panel'.response = s \/ panel'.notified = s)
  BY <1>2, RequestFacts DEF panelShape
<1>4. x \in RequestRecords /\ requestFits(x) /\ x.at = "over"
  <2>1. noRequest \in RequestRecords /\ requestFits(noRequest)
    BY FreshRequests, Zenon
  <2>2. x \in RequestRecords
    BY <2>1 DEF RequestRecords, Stages
  <2>3. /\ x.at = "over" /\ x.bytes = noRequest.bytes /\ x.kept = noRequest.kept /\ x.cut = noRequest.cut
    BY <2>1 DEF RequestRecords
  <2>4. noRequest.bytes = 0
    BY DEF noRequest
  <2> HIDE DEF x
  <2> QED
    BY <2>1, <2>2, <2>3, <2>4 DEF requestFits
<1> HIDE DEF x
<1>5. /\ request' \in [Sends -> RequestRecords] /\ request'[s] = x
      /\ \A t \in Sends \ {s} : request'[t] = request[t]
  BY <1>1, <1>4, RequestFacts
<1>6. \A t \in Sends : requestFits(request[t])' /\ recorded(t)'
  <2>1. \A t \in Sends : rowsOf(t)' = rowsOf(t)
    BY <1>1 DEF rowsOf
  <2>2. \A t \in Sends \ {s} : recorded(t)'
    BY <1>5, <2>1 DEF PlayInv, recorded
  <2>3. recorded(s)'
    BY <1>1, <1>4, <1>5, <2>1 DEF PlayInv, recorded
  <2>4. \A t \in Sends : requestFits(request'[t])
    BY <1>4, <1>5 DEF PlayInv
  <2> QED
    BY <2>2, <2>3, <2>4 DEF requestFits
<1>7. AgentsClosed'
  BY <1>1, <1>4, <1>5 DEF PlayInv, AgentsClosed
<1>8. SenderHears'
  BY <1>3, PlaygroundAssumption DEF SenderHears, PlaygroundAssumption
<1> QED
  BY <1>1, <1>3, <1>5, <1>6, <1>7, <1>8 DEF PlayInv, PlayTypes, panelShape

(* A step that leaves requests, rows and the page alone.                     *)
LEMMA ApartOK ==
  ASSUME PlayInv, UNCHANGED <<request, runs, panel>>, agents' \in [Sends \cup {Prober} -> Int],
         \A s \in Sends : agents'[s] = agents[s],
         agents'[Prober] = (IF probed'.at = "requesting" THEN 1 ELSE 0)
  PROVE  PlayInv'
<1>1. \A t \in Sends : requestFits(request[t])' /\ recorded(t)'
  <2>1. \A t \in Sends : rowsOf(t)' = rowsOf(t)
    BY DEF rowsOf
  <2>2. \A t \in Sends : recorded(t)'
    BY <2>1 DEF PlayInv, recorded
  <2>3. \A t \in Sends : requestFits(request'[t])
    BY DEF PlayInv
  <2> QED
    BY <2>2, <2>3 DEF requestFits
<1>2. PlayTypes' /\ SenderHears'
  BY DEF PlayInv, PlayTypes, panelShape, SenderHears
<1>3. AgentsClosed'
  BY DEF PlayInv, AgentsClosed
<1> QED
  BY <1>1, <1>2, <1>3 DEF PlayInv

(* The probe opens an agent and closes it.                                   *)
LEMMA ProbeOK ==
  ASSUME PlayInv, probeNext
  PROVE  PlayInv'
<1>1. Prober \notin Sends
  BY PlaygroundAssumption DEF PlaygroundAssumption, Prober
<1>2. /\ agents \in [Sends \cup {Prober} -> Int]
      /\ agents[Prober] = (IF probed.at = "requesting" THEN 1 ELSE 0)
  BY DEF PlayInv, PlayTypes, AgentsClosed
<1>3. CASE probeEnds
  <2>1. /\ probed.at = "requesting" /\ probed'.at = "idle"
        /\ agents' = [agents EXCEPT ![Prober] = @ - 1] /\ UNCHANGED <<panel, request, runs>>
    BY <1>3 DEF probeEnds
  <2> QED
    BY <1>1, <1>2, <2>1, ApartOK
<1>4. ASSUME NEW t \in Targets, probe(t) PROVE PlayInv'
  <2>1. probed.at = "idle" /\ UNCHANGED <<panel, request, runs>>
    BY <1>4 DEF probe
  <2>2. \/ probed'.at = "requesting" /\ agents' = [agents EXCEPT ![Prober] = @ + 1]
        \/ probed'.at = "idle" /\ UNCHANGED agents
    <3>1. PICK answer \in SUBSET Addresses :
            LET code == validateTargetUrl(t, TRUE, answer) IN
            IF code = "none"
            THEN /\ probed' = [at |-> "requesting", status |-> "none", code |-> "none"]
                 /\ agents' = [agents EXCEPT ![Prober] = @ + 1]
            ELSE /\ probed' = [at |-> "idle", status |-> "none", code |-> classifyError(code)]
                 /\ UNCHANGED agents
      BY <1>4 DEF probe
    <3> DEFINE c == classifyError(validateTargetUrl(t, TRUE, answer))
    <3>2. \/ /\ probed' = [at |-> "requesting", status |-> "none", code |-> "none"]
             /\ agents' = [agents EXCEPT ![Prober] = @ + 1]
          \/ probed' = [at |-> "idle", status |-> "none", code |-> c] /\ UNCHANGED agents
      BY <3>1
    <3> HIDE DEF c
    <3> QED
      BY <3>2
  <2> QED
    BY <1>1, <1>2, <2>1, <2>2, ApartOK
<1> QED
  BY <1>3, <1>4 DEF probeNext

(* Nothing is under way at first.                                            *)
LEMMA PlayStart == playInit => PlayInv
<1> SUFFICES ASSUME playInit PROVE PlayInv
  OBVIOUS
<1>1. noRequest \in RequestRecords /\ requestFits(noRequest) /\ noRequest.at = "none"
  <2>1. noRequest.at = "none"
    BY DEF noRequest
  <2> QED
    BY <2>1, FreshRequests, Zenon
<1>2. \A s \in Sends : request[s] = noRequest /\ rowsOf(s) = {}
  BY DEF playInit, rowsOf
<1>3. request \in [Sends -> RequestRecords] /\ agents \in [Sends \cup {Prober} -> Int]
  BY <1>1 DEF playInit
<1>4. panelShape(panel)
  BY DEF playInit, blankPanel, panelShape
<1>5. \A s \in Sends : requestFits(request[s]) /\ recorded(s)
  BY <1>1, <1>2 DEF recorded
<1>6. AgentsClosed
  BY <1>1, <1>2 DEF playInit, AgentsClosed, notProbing
<1>7. SenderHears
  BY <1>1, <1>2 DEF SenderHears
<1> QED
  BY <1>3, <1>4, <1>5, <1>6, <1>7 DEF PlayInv, PlayTypes

(* For any number of overlapping requests, any redirects, answers and        *)
(* failures, and any cap: each is recorded at most once and as what it came  *)
(* to, its agent and the probe's are closed however it ends, the body kept   *)
(* is what was received up to the cap, and who sent it gets an answer or is  *)
(* notified (executor.ts, service.ts, http-probe.ts, Playground.tsx).        *)
THEOREM OutboundIsAccounted == ServicesSpec => []OutboundAccounted
<1>1. ServicesInit => PlayInv
  BY PlayStart DEF ServicesInit
<1>2. PlayInv /\ [ServicesNext]_allVars => PlayInv'
  <2> SUFFICES ASSUME PlayInv, [playNext \/ probeNext]_playVars PROVE PlayInv'
    BY ComponentSteps
  <2>1. CASE UNCHANGED playVars \/ \E h \in targetHosts : recovers(h)
    BY <2>1, ApartOK DEF playVars, recovers, PlayInv, PlayTypes, AgentsClosed
  <2>2. ASSUME NEW s \in Sends, progress(s) PROVE PlayInv'
    BY <2>2, HopOK, AnswerOK, BodyOK, RecordOK, ReceiveOK DEF progress
  <2>3. ASSUME NEW s \in Sends, NEW size \in 1..2, chunk(s, size) PROVE PlayInv'
    BY <2>3, BodyOK
  <2>4. ASSUME NEW s \in Sends, NEW t \in Targets, send(s, t) PROVE PlayInv'
    BY <2>4, SendOK
  <2> QED
    BY <2>1, <2>2, <2>3, <2>4, ProbeOK DEF playNext
<1>3. PlayInv => OutboundAccounted
  <2> SUFFICES ASSUME PlayInv PROVE RunsAccounted /\ AgentsClosed /\ BodyBounded /\ SenderHears
    BY DEF OutboundAccounted
  <2>1. RunsAccounted
    BY DEF PlayInv, RunsAccounted, recorded, rowsOf
  <2>2. BodyBounded
    BY DEF PlayInv, BodyBounded, requestFits
  <2> QED
    BY <2>1, <2>2 DEF PlayInv
<1> QED
  BY <1>1, <1>2, <1>3, PTL DEF ServicesSpec
==============================================================================
