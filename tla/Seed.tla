--------------------------------- MODULE Seed ---------------------------------
(***************************************************************************)
(* main() of packages/database/src/cli/seed.ts: the curated catalogue and  *)
(* the demo accounts, written one statement at a time without a            *)
(* transaction, by commands that may overlap, be interrupted at any        *)
(* statement and be started again, while administrators hide APIs and the  *)
(* ingestion adds rows of its own.                                         *)
(*                                                                         *)
(* A row is known by its unique key; the seed's own keys are computed from *)
(* the API (deterministicId), so a row of the seed is its API here.        *)
(***************************************************************************)
EXTENDS Integers, Sequences, FiniteSets

CONSTANTS
  Seeders,        \* runs of the command
  SeedApis,       \* the APIs, in their order
  CategoryOf,     \* the category of each, which CATEGORIES need not hold
  SeedCategories, \* CATEGORIES, in their order
  MaxHides        \* bound: status changes by administrators

Emails == <<"admin", "demo">>
SeedSet == {SeedApis[n] : n \in 1..Len(SeedApis)}
CategorySet == {SeedCategories[n] : n \in 1..Len(SeedCategories)}

ASSUME SeedAssumption ==
  /\ SeedApis \in Seq(DOMAIN CategoryOf) /\ SeedApis # <<>>
  /\ SeedCategories \in Seq(CategorySet) /\ SeedCategories # <<>> /\ MaxHides \in Nat

VARIABLES
  seeding,        \* [step, n] of each run: the statement it comes to next
  catRows,        \* categories there are
  activeRows,     \* the seed's rows of apis that are active ...
  hiddenRows,     \* ... and those that are hidden
  childRows,      \* <<table, API>> of the rows that hang on an API
  apiCount,       \* of each category
  userRows,       \* demo accounts there are
  slugsTaken,     \* APIs whose slug a row of the ingestion has
  hides,          \* status changes so far
  countsOld       \* a status changed since the counts were refreshed

seedVars == <<seeding, catRows, activeRows, hiddenRows, childRows, apiCount, userRows, slugsTaken,
              hides, countsOld>>
contents == <<catRows, activeRows, hiddenRows, childRows, apiCount, userRows>>
environment == <<slugsTaken, hides>>

Ready == [step |-> "ready", n |-> 1]

seedInit ==
  /\ seeding = [p \in Seeders |-> Ready]
  /\ catRows = {} /\ activeRows = {} /\ hiddenRows = {} /\ childRows = {}
  /\ apiCount = [c \in CategorySet |-> 0] /\ userRows = {}
  /\ slugsTaken = {} /\ hides = 0 /\ countsOld = FALSE

-----------------------------------------------------------------------------
at(p, step) == seeding[p].step = step
goes(p, step, n) == seeding' = [seeding EXCEPT ![p] = [step |-> step, n |-> n]]
seedRows == activeRows \cup hiddenRows

(* The next turn of a loop, or what follows it.                              *)
loops(p, size, again, after) ==
  IF seeding[p].n < size THEN goes(p, again, seeding[p].n + 1) ELSE goes(p, after, 1)

(* The migrations have run; the source's row is there or is added.           *)
start(p) ==
  /\ at(p, "ready") /\ goes(p, "category", 1)
  /\ UNCHANGED <<contents, environment, countsOld>>

upsertCategory(p) ==
  /\ at(p, "category")
  /\ catRows' = catRows \cup {SeedCategories[seeding[p].n]}
  /\ loops(p, Len(SeedCategories), "category", "api")
  /\ UNCHANGED <<activeRows, hiddenRows, childRows, apiCount, userRows, environment, countsOld>>

(* Mutant: a row that is there is given all its values again.                *)
upsertApiWhole(p) ==
  LET api == SeedApis[seeding[p].n]
  IN  /\ at(p, "api")
      /\ IF api \in seedRows \/ api \notin slugsTaken
         THEN /\ activeRows' = activeRows \cup {api} /\ hiddenRows' = hiddenRows \ {api}
              /\ goes(p, "mapping", seeding[p].n)
         ELSE goes(p, "failed", 1) /\ UNCHANGED <<activeRows, hiddenRows>>
      /\ UNCHANGED <<catRows, childRows, apiCount, userRows, environment, countsOld>>

(* The conflict is resolved on the fingerprint and keeps the status; another *)
(* source's row with the slug is an error, which ends the run.               *)
upsertApi(p) ==
  LET api == SeedApis[seeding[p].n]
  IN  /\ at(p, "api")
      /\ \/ /\ api \in seedRows
            /\ goes(p, "mapping", seeding[p].n) /\ UNCHANGED activeRows
         \/ /\ api \notin seedRows /\ api \notin slugsTaken
            /\ goes(p, "mapping", seeding[p].n) /\ activeRows' = activeRows \cup {api}
         \/ /\ api \notin seedRows /\ api \in slugsTaken
            /\ goes(p, "failed", 1) /\ UNCHANGED activeRows
      /\ UNCHANGED <<catRows, hiddenRows, childRows, apiCount, userRows, environment, countsOld>>

(* api_category_map, when the category is one of CATEGORIES.                 *)
insertMapping(p) ==
  LET api == SeedApis[seeding[p].n]
  IN  /\ at(p, "mapping")
      /\ childRows' = childRows \cup (IF CategoryOf[api] \in CategorySet THEN {<<"mapping", api>>} ELSE {})
      /\ goes(p, "endpoint", seeding[p].n)
      /\ UNCHANGED <<catRows, activeRows, hiddenRows, apiCount, userRows, environment, countsOld>>

insertEndpoint(p) ==
  /\ at(p, "endpoint")
  /\ childRows' = childRows \cup {<<"endpoint", SeedApis[seeding[p].n]>>}
  /\ goes(p, "scheme", seeding[p].n)
  /\ UNCHANGED <<catRows, activeRows, hiddenRows, apiCount, userRows, environment, countsOld>>

insertAuthScheme(p) ==
  /\ at(p, "scheme")
  /\ childRows' = childRows \cup {<<"scheme", SeedApis[seeding[p].n]>>}
  /\ loops(p, Len(SeedApis), "api", "counts")
  /\ UNCHANGED <<catRows, activeRows, hiddenRows, apiCount, userRows, environment, countsOld>>

countOf(c) ==
  Cardinality({api \in activeRows : CategoryOf[api] = c /\ <<"mapping", api>> \in childRows})

(* Mutant: APIs that are not active count.                                   *)
refreshCountsAll(p) ==
  /\ at(p, "counts") /\ goes(p, "account", 1)
  /\ apiCount' = [c \in CategorySet |->
       Cardinality({api \in SeedSet : CategoryOf[api] = c /\ <<"mapping", api>> \in childRows})]
  /\ countsOld' = FALSE
  /\ UNCHANGED <<catRows, activeRows, hiddenRows, childRows, userRows, environment>>

(* The counts over the seed's rows; other sources' rows are left out.        *)
refreshCounts(p) ==
  /\ at(p, "counts") /\ goes(p, "account", 1)
  /\ apiCount' = [c \in CategorySet |-> countOf(c)] /\ countsOld' = FALSE
  /\ UNCHANGED <<catRows, activeRows, hiddenRows, childRows, userRows, environment>>

insertAccount(p) ==
  /\ at(p, "account")
  /\ userRows' = userRows \cup {Emails[seeding[p].n]}
  /\ loops(p, Len(Emails), "account", "done")
  /\ UNCHANGED <<catRows, activeRows, hiddenRows, childRows, apiCount, environment, countsOld>>

(* The command is killed, or was and is started again.                       *)
interrupt(p) ==
  /\ seeding[p].step \notin {"ready", "done"} /\ goes(p, "ready", 1)
  /\ UNCHANGED <<contents, environment, countsOld>>

seedStep(p) ==
  \/ start(p) \/ upsertCategory(p) \/ upsertApi(p) \/ insertMapping(p) \/ insertEndpoint(p)
  \/ insertAuthScheme(p) \/ refreshCounts(p) \/ insertAccount(p) \/ interrupt(p)

(* An administrator hides a row, which refreshes no count.                   *)
hide(api) ==
  /\ api \in activeRows /\ hides < MaxHides /\ hides' = hides + 1
  /\ activeRows' = activeRows \ {api} /\ hiddenRows' = hiddenRows \cup {api}
  /\ countsOld' = TRUE
  /\ UNCHANGED <<seeding, catRows, childRows, apiCount, userRows, slugsTaken>>

(* reindexSearch(), which an administrator asks for, counts again.           *)
reindexSearch ==
  /\ apiCount' = [c \in CategorySet |-> countOf(c)] /\ countsOld' = FALSE
  /\ UNCHANGED <<seeding, catRows, activeRows, hiddenRows, childRows, userRows, environment>>

(* The ingestion adds a row with the slug of an API that is not seeded yet.  *)
ingest(api) ==
  /\ api \notin seedRows \cup slugsTaken
  /\ slugsTaken' = slugsTaken \cup {api}
  /\ UNCHANGED <<seeding, contents, hides, countsOld>>

seedNext ==
  \/ \E p \in Seeders : seedStep(p)
  \/ \E api \in SeedSet : hide(api) \/ ingest(api)
  \/ reindexSearch

-----------------------------------------------------------------------------
(* Properties                                                                *)

(* "The fingerprint is what makes re-seeding idempotent" (seed.ts:301): once *)
(* a run has ended, whatever was interrupted before it and runs beside it,   *)
(* every API has its row, its probe target, its scheme and its category, and *)
(* the counts are those of the active ones; what an administrator hid stays  *)
(* hidden, and no run adds a second row beside another source's slug.        *)
SeedingRepeatable ==
  /\ Cardinality(hiddenRows) = hides
  /\ activeRows \cap (hiddenRows \cup slugsTaken) = {}
  /\ (\E p \in Seeders : at(p, "done")) =>
       /\ seedRows = SeedSet /\ catRows = CategorySet /\ userRows = {"admin", "demo"}
       /\ \A api \in SeedSet :
            /\ {<<"endpoint", api>>, <<"scheme", api>>} \subseteq childRows
            /\ CategoryOf[api] \in CategorySet => <<"mapping", api>> \in childRows
       /\ countsOld \/ \A c \in CategorySet : apiCount[c] = countOf(c)
===============================================================================
