------------------------------ MODULE MCCatalogue ------------------------------
(***************************************************************************)
(* The components that share no state with each other, for TLC: the        *)
(* subject, chosen in the initial state, is the one that moves.            *)
(***************************************************************************)
EXTENDS LruCache, GraphStructures, Heaps, TextSearch, SlidingWindows, RollingOutcomeWindow,
        Discovery, AddressRanges, Snippets, PageEffects, Attempts, LeaseLock, HealthHistory,
        SourceParsing, SqlScripts, Metrics, Verdicts, Seed, ErrorMapping, TLC

CONSTANTS r1, r2, r3, r4, r5

VARIABLE subject

(* Four records of one catalogue block and one of another.                   *)
Blocks == (r1 :> 1) @@ (r2 :> 1) @@ (r3 :> 1) @@ (r4 :> 1) @@ (r5 :> 2)

(* A prefix that is itself a term, and two terms below it.                   *)
Terms == {<<1>>, <<1, 2>>, <<1, 3>>}

(* The bits three words set in a Bloom filter.                               *)
Bits == <<{1, 2}, {2, 3}, {1, 3}>>

(* Three APIs that differ in price, authentication and text; a broadened     *)
(* search finds them all and reads two.                                      *)
Catalogue ==
  << [free |-> TRUE, auth |-> "none", text |-> {"weather"}, name |-> {"weather"},
      title |-> 3, popularity |-> 5, created |-> 1, reliability |-> -1, category |-> "weather"],
     [free |-> TRUE, auth |-> "unknown", text |-> {"maps"}, name |-> {"maps"},
      title |-> 1, popularity |-> 4, created |-> 1, reliability |-> 7, category |-> "maps"],
     [free |-> FALSE, auth |-> "apiKey", text |-> {"weather"}, name |-> {"opn"},
      title |-> 2, popularity |-> 5, created |-> 2, reliability |-> -1, category |-> "weather"] >>

(* Nothing, a sentence with several hits, one that asks for a filter, a      *)
(* misspelling, and a filter without a word to search for.                   *)
Sentences == {{}, {"weather", "maps"}, {"keyless", "maps"}, {"free", "weather", "api"}, {"opn"}, {"free"}}

(* One address of each kind of IPv6 range, IPv4-mapped ones included.        *)
Groups ==
  { <<0, 0, 0, 0, 0, 0, 0, 0>>, <<0, 0, 0, 0, 0, 0, 0, 1>>, <<0, 0, 0, 0, 0, 65535, 32512, 1>>,
    <<0, 0, 0, 0, 0, 65535, 65535, 65535>>, <<0, 0, 0, 0, 0, 65535, 2056, 2056>>,
    <<0, 0, 0, 0, 0, 0, 2560, 1>>, <<65152, 0, 0, 0, 1, 0, 0, 1>>, <<64768, 0, 0, 1, 0, 0, 0, 0>>,
    <<65282, 0, 0, 0, 0, 0, 0, 1>>, <<8193, 3512, 0, 0, 0, 0, 0, 1>>, <<256, 0, 0, 0, 0, 0, 0, 9>>,
    <<9734, 18176, 0, 0, 0, 0, 26728, 4369>> }

(* An API nobody used, one viewed, one viewed often, one run.                *)
Uses == {[views |-> 0, runs |-> 0], [views |-> 1, runs |-> 0], [views |-> 6, runs |-> 0],
         [views |-> 0, runs |-> 1]}

(* Three records that would share a slug, one of them of the provider that   *)
(* is called like it, and one whose slug is what another's suffix makes.     *)
Imported ==
  [f1 |-> [slug |-> <<"weather">>, label |-> "acme"], f2 |-> [slug |-> <<"weather">>, label |-> "acme"],
   f3 |-> [slug |-> <<"weather", "acme">>, label |-> "other"],
   f4 |-> [slug |-> <<"weather">>, label |-> "weather"]]
Seeded == <<"weather", "2">> :> "seed"
TwoSuffixes == <<"2", "3">>

(* Every mark alone and in the pairs that mean something.                    *)
Marks == {<<"x">>, <<";">>, <<"n">>, <<"'">>, <<"\"">>, <<"-">>, <<"-", "-">>, <<"/">>, <<"/", "*">>,
          <<"*", "/">>, <<"$", "$">>, <<"$", "x", "$">>}

TwoBounds == <<1, 3>>

(* APIs that differ in what the comparison looks at.                         *)
Compare ==
  { [isFree |-> free, hasFreeTier |-> TRUE, authType |-> auth, https |-> https, cors |-> "no",
     status |-> status, latency |-> latency, uptime |-> uptime, reliability |-> reliability,
     rating |-> 4, reviews |-> 3, docs |-> docs] :
      free, docs \in BOOLEAN, https \in {TRUE}, auth \in {"none", "oauth2"}, status \in {"up", "down"},
      latency \in {-1, 200}, uptime \in {-1, 99}, reliability \in {-1, 40, 80} }
  \cup { [isFree |-> FALSE, hasFreeTier |-> FALSE, authType |-> "apiKey", https |-> FALSE, cors |-> cors,
          status |-> status, latency |-> 100, uptime |-> 100, reliability |-> 90,
          rating |-> -1, reviews |-> 0, docs |-> FALSE] :
            cors \in {"yes", "no"}, status \in {"down", "degraded", "unknown"} }

(* Headings of a category, of one whose text is only emphasis and of another *)
(* section, a separator, a header, and rows: whole, with an escaped pipe,    *)
(* with too few columns, without a link in the first one, with a long name.  *)
Lines ==
  {[level |-> l.level, name |-> l.name, row |-> <<>>] :
     l \in {[level |-> 3, name |-> "animals"], [level |-> 3, name |-> ""], [level |-> 2, name |-> "license"]}}
  \cup {[level |-> 0, name |-> "", row |-> row] :
     row \in {<<"|", "-", "|", "-", "|">>, <<"w", "|", "w">>,
              <<"|", "link", "|", "w", "|", "w", "|", "w", "|", "w", "|">>,
              <<"|", "link", "\\", "|", "|", "w", "|", "w", "|", "w", "|", "w">>,
              <<"|", "link", "|", "w", "\\", "|", "w", "|", "w", "|", "w", "|">>,
              <<"|", "w", "|", "link", "|", "w", "|", "w", "|", "w", "|">>,
              <<"|", "long", "|", "w", "|", "w", "|", "w", "|", "w", "|">>}}

(* Two seeded APIs, one in a category the seed does not write.               *)
SeedList == <<"s1", "s2">>
SeedGroups == [s1 |-> "c1", s2 |-> "c2"]
OneCategory == <<"c1">>

-----------------------------------------------------------------------------
Structures == {"lru", "clusters", "topK", "priority", "merge", "trie", "graph", "index",
               "counter", "log", "outcomes", "typing", "bloom", "addresses", "scripts", "metrics", "tables",
               "errors"}
Services == {"discovery", "tabs", "generate", "palette", "toasts", "assistant", "copying", "retry", "map", "lock",
             "rollUp", "popularity", "scoring", "links", "slugs", "verdicts", "seed"}

allVars == <<lruVars, dsuVars, heapVars, trieVars, graphVars, indexVars, windowVars, ringVars,
             textVars, discoveryVars, addressVars, snippetVars, pageVars, attemptVars, vars,
             historyVars, scoringVars, normalizerVars, scriptVars, metricVars, verdictVars,
             sourceVars, seedVars, errorVars, subject>>

(* Where a component has several initial states, only its own run needs them.*)
SubjectInit ==
  /\ subject \in Structures \cup Services
  /\ lruInit /\ dsuInit /\ trieInit /\ graphInit /\ indexInit /\ windowsInit /\ ringInit
  /\ textInit /\ addressInit /\ snippetsInit /\ pageInit /\ attemptsInit
  /\ heapsInit /\ (subject # "topK" => tieBreak) /\ (subject # "merge" => given = <<>>)
  /\ discoveryInit /\ (subject # "discovery" => up = {})
  /\ Init /\ (subject # "lock" => redis)
  /\ historyInit
  /\ subject # "popularity" => \A api \in HistoryApis : usage[api] = NoUsage /\ popularityScore[api] = 0
  /\ scoringInit /\ normalizerInit /\ scriptInit /\ metricsInit /\ verdictInit
  /\ sourceInit /\ seedInit /\ errorsInit

(* Whatever is not the subject stays as it is.                               *)
RestStays ==
  /\ IF subject = "lru" THEN TRUE ELSE UNCHANGED lruVars
  /\ IF subject = "clusters" THEN TRUE ELSE UNCHANGED dsuVars
  /\ IF subject \in {"topK", "priority", "merge"} THEN TRUE ELSE UNCHANGED heapVars
  /\ IF subject = "trie" THEN TRUE ELSE UNCHANGED trieVars
  /\ IF subject = "graph" THEN TRUE ELSE UNCHANGED graphVars
  /\ IF subject = "index" THEN TRUE ELSE UNCHANGED indexVars
  /\ IF subject \in {"counter", "log"} THEN TRUE ELSE UNCHANGED windowVars
  /\ IF subject = "outcomes" THEN TRUE ELSE UNCHANGED ringVars
  /\ IF subject \in {"typing", "bloom"} THEN TRUE ELSE UNCHANGED textVars
  /\ IF subject = "addresses" THEN TRUE ELSE UNCHANGED addressVars
  /\ IF subject = "discovery" THEN TRUE ELSE UNCHANGED discoveryVars
  /\ IF subject \in {"tabs", "generate"} THEN TRUE ELSE UNCHANGED snippetVars
  /\ IF subject \in {"palette", "toasts", "assistant", "copying"} THEN TRUE ELSE UNCHANGED pageVars
  /\ IF subject \in {"retry", "map"} THEN TRUE ELSE UNCHANGED attemptVars
  /\ IF subject = "lock" THEN TRUE ELSE UNCHANGED vars
  /\ IF subject \in {"rollUp", "popularity"} THEN TRUE ELSE UNCHANGED historyVars
  /\ IF subject = "scoring" THEN TRUE ELSE UNCHANGED scoringVars
  /\ IF subject \in {"links", "slugs"} THEN TRUE ELSE UNCHANGED normalizerVars
  /\ IF subject = "scripts" THEN TRUE ELSE UNCHANGED scriptVars
  /\ IF subject = "metrics" THEN TRUE ELSE UNCHANGED metricVars
  /\ IF subject = "verdicts" THEN TRUE ELSE UNCHANGED verdictVars
  /\ IF subject = "tables" THEN TRUE ELSE UNCHANGED sourceVars
  /\ IF subject = "seed" THEN TRUE ELSE UNCHANGED seedVars
  /\ IF subject = "errors" THEN TRUE ELSE UNCHANGED errorVars
  /\ UNCHANGED subject

StructuresNext ==
  \/ subject = "lru" /\ lruNextStep
  \/ subject = "clusters" /\ dsuNext
  \/ subject = "topK" /\ topKNext
  \/ subject = "priority" /\ priorityNext
  \/ subject = "merge" /\ mergeNext
  \/ subject = "trie" /\ trieNext
  \/ subject = "graph" /\ graphNext
  \/ subject = "index" /\ indexNext
  \/ subject = "counter" /\ counterNext
  \/ subject = "log" /\ logNext
  \/ subject = "outcomes" /\ ringNext
  \/ subject = "typing" /\ typingNext
  \/ subject = "bloom" /\ bloomNext
  \/ subject = "addresses" /\ addressNext
  \/ subject = "scripts" /\ scriptsNext
  \/ subject = "metrics" /\ metricsNext
  \/ subject = "tables" /\ sourceNext
  \/ subject = "errors" /\ errorsNext

ServicesNext ==
  \/ subject = "discovery" /\ discoveryNext
  \/ subject = "tabs" /\ tabsNext
  \/ subject = "generate" /\ generateNext
  \/ subject = "palette" /\ paletteNext
  \/ subject = "toasts" /\ toastNext
  \/ subject = "assistant" /\ assistantNext
  \/ subject = "copying" /\ copyNext
  \/ subject = "retry" /\ retryNext
  \/ subject = "map" /\ mapNext
  \/ subject = "lock" /\ Next
  \/ subject = "rollUp" /\ rollUpNext
  \/ subject = "popularity" /\ popularityNext
  \/ subject = "scoring" /\ scoringNext
  \/ subject = "links" /\ linksNext
  \/ subject = "slugs" /\ slugsNext
  \/ subject = "verdicts" /\ verdictsNext
  \/ subject = "seed" /\ seedNext

SubjectNext == (StructuresNext \/ ServicesNext) /\ RestStays

SubjectSpec == SubjectInit /\ [][SubjectNext]_allVars

-----------------------------------------------------------------------------
(* Properties of the subjects, each where it moves                           *)

(* The collections behind search and ingestion answer what a plain reading   *)
(* of their contents would, after any operations: the heaps, the duplicate   *)
(* clusters, the suggestions, the graph searches and the inverted index      *)
(* (packages/algorithms), and the histograms (metrics.ts).                   *)
StructuresRight ==
  /\ subject \in {"topK", "merge"} => BestOfAll
  /\ subject = "priority" => FifoWithinPriority
  /\ subject = "clusters" => ClustersAreChains
  /\ subject = "trie" => SuggestsBest
  /\ subject = "graph" => SearchesRight
  /\ subject = "index" => FindsPresentText
  /\ subject = "metrics" => BucketsTellSamples /\ \A s \in DOMAIN taken : PercentileCovers(taken[s])

(* Attempts never run beside one another, and no item is worked on twice or  *)
(* forgotten (retry.ts); nor is any of the curated catalogue, however often  *)
(* its seeding is interrupted (cli/seed.ts), and a day of checks is rolled   *)
(* up to what was recorded, however often and with whatever interruptions    *)
(* (jobs/health.ts); imports in any order never have a row rejected for its  *)
(* slug (normalizer.ts); and the log allows no more hits than its limit in   *)
(* any window of its length, the counter in any of its fixed windows         *)
(* (sliding-window.ts).                                                      *)
WorkBounded ==
  /\ subject = "retry" => AttemptsAlone
  /\ subject = "map" => EachItemOnce
  /\ subject = "seed" => SeedingRepeatable
  /\ subject = "rollUp" => FinishedDaysKept
  /\ subject = "slugs" => SlugsNeverClash
  /\ subject \in {"counter", "log"} => WindowsHold

(* The pure functions agree with their definitions: the edit distance with   *)
(* its early exit (text.ts), the Bloom filter (bloom-filter.ts), the classes *)
(* of addresses (ip.ts), the statements of a script (client.ts), the rows    *)
(* read from the source's tables (source-adapter.ts), what makes two links   *)
(* one API (normalizer.ts), the order that scores and priorities put APIs in *)
(* (health-scoring.ts, health.ts), and what becomes of an error on its way   *)
(* to the page (error-handler.ts).                                           *)
ClassifiersExact ==
  /\ subject = "typing" => DistanceExact
  /\ subject = "bloom" => NoFalseNegatives
  /\ subject = "addresses" => AddressesClassed
  /\ subject = "scripts" => SplitsAtBoundaries
  /\ subject = "tables" => EveryRowAccounted
  /\ subject = "errors" => ErrorsKeptApart
  /\ subject = "links" => CopiesShareIdentity
  /\ subject = "scoring" => ScoresFair /\ ProbesWherePressing
  /\ subject = "popularity" => UseDecidesOrder

(* "An explicit choice must never be overridden": search results satisfy the *)
(* filters chosen on every path, recommendations the constraints, and the    *)
(* facets count what choosing them yields, whatever the catalogue is when a  *)
(* rendering starts; and a comparison's verdict and explanations agree with  *)
(* the table they stand under.                                               *)
ChoicesRespected ==
  /\ subject = "discovery" => ChoicesHold /\ (render.step = "start" => AdviceGrounded)
  /\ subject = "verdicts" => VerdictMatchesTable /\ ReasonsAndCaveatsAgree

(* Late answers and timers never disturb what the page shows now: the        *)
(* snippet, its credential, the suggestions, the notifications and the copy  *)
(* button are those of the last thing the user did, and the assistant's      *)
(* answer is that of the last question unless it was sent beside another     *)
(* (CodeTabs.tsx, codegen.ts, CommandPalette.tsx, Toast.tsx, Assistant.tsx,  *)
(* hooks.ts).                                                                *)
PagesCurrent ==
  /\ subject = "tabs" => TabShowsItsLanguage
  /\ subject = "generate" => SnippetsAuthenticate
  /\ subject = "palette" => NewestWins
  /\ subject = "toasts" => ToastsExpire
  /\ subject = "assistant" => AssistantCurrent /\ ToastsExpire
  /\ subject = "copying" => CopyAcknowledged
=============================================================================
