------------------------------ MODULE Discovery ------------------------------
(***************************************************************************)
(* Finding an API: the explore page (apps/web/src/app/explore, whose state *)
(* is its URL), the list and search pipelines behind it (apps/api/src/     *)
(* modules/catalog and search) and the recommendations.  Every database    *)
(* read is a step of its own; a moderator may take an API out of the       *)
(* catalogue, and a probe may change its health, between any two.  Caching *)
(* is CacheAside's subject and left out here.                              *)
(*                                                                         *)
(* A text is the set of its words.  SQL leaves the order of equal keys     *)
(* open, and so does the model.                                            *)
(***************************************************************************)
EXTENDS Integers, FiniteSets, Sequences, SequencesExt

CONSTANTS
  Rows,              \* the apis table: id -> its columns; title is the place of its
                     \* name in the alphabet, reliability -1 where nothing was probed
  KeySpan,             \* more than any popularity or title
  Sorts,             \* SORT_OPTIONS
  PageSize,
  CandidateLimit,    \* CANDIDATE_LIMIT
  RescueLimit,       \* findFuzzyCandidates()'s limit
  BroadenThreshold,  \* BROADEN_THRESHOLD
  SearchTexts,       \* what users type
  MaxChanges         \* bound: changes of the catalogue

(* A text has finitely many words.                                           *)
ASSUME DiscoveryAssumption ==
  /\ IsFiniteSet(DOMAIN Rows) /\ KeySpan \in Nat
  /\ \A id \in DOMAIN Rows :
       /\ Rows[id].popularity \in 0..(KeySpan - 1) /\ Rows[id].title \in 0..(KeySpan - 1)
       /\ Rows[id].created \in Nat /\ Rows[id].reliability \in Nat \cup {-1}
  /\ PageSize \in Nat \ {0} /\ CandidateLimit \in Nat \ {0}
  /\ RescueLimit \in 1..CandidateLimit /\ BroadenThreshold \in 0..CandidateLimit
  /\ \A q \in SearchTexts : IsFiniteSet(q)
  /\ MaxChanges \in Nat

VARIABLES
  active,     \* the ids whose status is 'active'
  up,         \* the ids whose health status is 'up'; the others are 'down'
  url,        \* the page's parameters
  render,     \* the server's rendering of it
  shown,      \* history: the ids shown since page 1 of these parameters
  changes     \* bound: changes of the catalogue so far; and since page 1

discoveryVars == <<active, up, url, render, shown, changes>>

apiIds == DOMAIN Rows
noFilters == [q |-> {}, free |-> "", auth |-> "", status |-> "", sort |-> ""]
idleRender == [step |-> "idle", found |-> <<>>, total |-> -1, fixed |-> FALSE]

discoveryInit ==
  /\ active = apiIds /\ up \in {apiIds, {}}
  /\ url = [filters |-> noFilters, page |-> 1]
  /\ render = [idleRender EXCEPT !.step = "start"]
  /\ shown = <<>>
  /\ changes = [all |-> 0, since |-> 0]

-----------------------------------------------------------------------------
(* specifications.ts: one predicate per rule                                 *)

(* z.coerce.boolean(): any text that is not empty is true.                   *)
coerceBoolean(s) == s # ""

authTypeSpecification(auth, id) ==
  \/ auth \in {"", "any"}
  \/ Rows[id].auth = auth
  \/ auth = "none" /\ Rows[id].free /\ Rows[id].auth = "unknown"

healthStatusSpecification(status, id) == status = "" \/ (status = "up") = (id \in up)

specificationsFor(f) ==
  {id \in active : /\ f.free => Rows[id].free
                   /\ authTypeSpecification(f.auth, id)
                   /\ healthStatusSpecification(f.status, id)}

-----------------------------------------------------------------------------
(* query-parser.ts                                                           *)

intents == {"free", "keyless"}
noise == {"api", "best"}

parseQuery(q) ==
  LET cleaned == q \ intents
      analysed == cleaned \ noise
  IN [terms |-> IF analysed # {} THEN analysed ELSE cleaned,
      free |-> "free" \in q, noAuth |-> "keyless" \in q]

(* Mutant: what the text implies wins over what was chosen.                  *)
effectiveFiltersText(f) ==
  LET parsed == parseQuery(f.q) IN
  [free |-> coerceBoolean(f.free) \/ parsed.free,
   auth |-> IF parsed.noAuth THEN "none" ELSE f.auth,
   status |-> f.status]

(* SearchService.execute(): an explicit filter wins over an inferred one.    *)
effectiveFilters(f) ==
  LET parsed == parseQuery(f.q) IN
  [free |-> IF f.free # "" THEN coerceBoolean(f.free) ELSE parsed.free,
   auth |-> IF f.auth # "" THEN f.auth ELSE IF parsed.noAuth THEN "none" ELSE "",
   status |-> f.status]

(* to_tsquery: all the terms, or any; the fuzzy rescue looks at names only.  *)
matchesAll(id, terms) == terms \subseteq Rows[id].text
matchesAny(id, terms) == terms \cap Rows[id].text # {}
matchesName(id, terms) == terms \cap Rows[id].name # {}

-----------------------------------------------------------------------------
(* Reads                                                                     *)

(* ORDER BY key(.) DESC LIMIT n over a set of rows, ties in any order.       *)
ordered(ids, Key(_)) ==
  {s \in SetToSeqs(ids) : \A i \in 1..(Len(s) - 1) : Key(s[i]) >= Key(s[i + 1])}
firstOf(s, n) == SubSeq(s, 1, IF Len(s) < n THEN Len(s) ELSE n)

(* orderBy(): a key of two columns is one number.  Names, dates and scores   *)
(* are not unique, and no sort ends with a column that is.                   *)
popularity(id) == Rows[id].popularity
orderBy(sort, id) ==
  CASE sort = "name" -> -Rows[id].title
    [] sort = "newest" -> Rows[id].created
    [] sort = "reliability" -> Rows[id].reliability * KeySpan + popularity(id)
    [] sort = "rating" -> popularity(id)
    [] OTHER -> popularity(id) * KeySpan - Rows[id].title

(* ts_rank_cd grows with the terms found.                                    *)
textRank(id, terms) == Cardinality(terms \cap Rows[id].text)

(* LexicalRankingStrategy and BrowseRankingStrategy, with the columns they   *)
(* weigh on a scale of 0..10.                                                *)
freeTierScore(id) == IF Rows[id].free THEN 10 ELSE 1
lexicalScore(id, terms, maxTextRank) ==
  45 * (IF maxTextRank = 0 THEN 0 ELSE (10 * textRank(id, terms)) \div maxTextRank)
    + 15 * Rows[id].popularity + 15 * 5 + 10 * freeTierScore(id)
browseScore(id) == 50 * Rows[id].popularity + 25 * 5 + 15 * freeTierScore(id)

highest(ranks) == CHOOSE r \in ranks : \A s \in ranks : r >= s
rankOf(found, terms, id) ==
  IF terms = {} THEN browseScore(id)
  ELSE lexicalScore(id, terms, highest({textRank(x, terms) : x \in found}))

terms == parseQuery(url.filters.q).terms
wanted == specificationsFor(effectiveFilters(url.filters))
allWords == {id \in wanted : matchesAll(id, terms)}
anyWord == {id \in wanted : matchesAny(id, terms)}
byName == {id \in wanted : matchesName(id, terms)}
Renders(r) == render' = r /\ UNCHANGED <<active, up, url, shown, changes>>

(* The answer s of a query that reads limit rows; history: it was not cut.   *)
Reads(s, limit, step) ==
  Renders([render EXCEPT !.found = firstOf(s, limit), !.fixed = Len(s) =< limit, !.step = step])

(* Results: with a text /v1/search, without one /v1/apis.                    *)
isSearch == url.filters.q # {}

(* CatalogRepository.list(): the count and the rows are read in parallel.    *)
listFilters == [free |-> coerceBoolean(url.filters.free), auth |-> url.filters.auth, status |-> url.filters.status]

listCounts ==
  /\ ~isSearch /\ render.step \in {"start", "rows"}
  /\ Renders([render EXCEPT !.total = Cardinality(specificationsFor(listFilters)),
                            !.step = IF @ = "start" THEN "counted" ELSE "hydrate"])

(* Mutant: the offset forgets that pages start at one.                       *)
offsetLate(page) == page * PageSize

(* LIMIT pageSize OFFSET (page - 1) * pageSize                               *)
offset(page) == (page - 1) * PageSize

listRows ==
  /\ ~isSearch /\ render.step \in {"start", "counted"}
  /\ \E s \in ordered(specificationsFor(listFilters), LAMBDA id : orderBy(url.filters.sort, id)) :
       Renders([render EXCEPT !.found = SubSeq(s, offset(url.page) + 1,
                                               IF Len(s) < offset(url.page) + PageSize THEN Len(s)
                                               ELSE offset(url.page) + PageSize),
                              !.step = IF @ = "start" THEN "rows" ELSE "hydrate"])

(* SearchService.execute(): all the terms, ...                               *)
findCandidates ==
  /\ isSearch /\ render.step = "start"
  /\ IF terms = {} THEN \E s \in ordered(wanted, popularity) : Reads(s, CandidateLimit, "rank")
     ELSE \E s \in ordered(allWords, LAMBDA id : textRank(id, terms)) :
            Reads(s, CandidateLimit,
                  CASE Len(s) < BroadenThreshold /\ Cardinality(terms) > 1 -> "broaden"
                    [] Len(s) = 0 /\ Cardinality(terms) <= 1 -> "rescue"
                    [] OTHER -> "rank")

(* ... then any of them, ...                                                 *)
broaden ==
  /\ render.step = "broaden"
  /\ \E s \in ordered(anyWord, LAMBDA id : textRank(id, terms)) :
       Reads(s, CandidateLimit, IF s = <<>> THEN "rescue" ELSE "rank")

(* ... then a name that contains one.                                        *)
rescue ==
  /\ render.step = "rescue"
  /\ \E s \in ordered(byName, popularity) :
       Reads(s, RescueLimit, "rank")

(* The page of the ranking: the best page * pageSize, less the pages before. *)
rankPage ==
  /\ render.step = "rank"
  /\ \E s \in ordered(Range(render.found), LAMBDA id : rankOf(Range(render.found), terms, id)) :
       LET window == firstOf(s, IF url.page * PageSize < CandidateLimit THEN url.page * PageSize
                                ELSE CandidateLimit)
       IN Renders([render EXCEPT !.found = SubSeq(window, offset(url.page) + 1, Len(window)),
                                 !.total = Len(render.found), !.step = "hydrate"])

(* hydrate(), findManyByIds(): the page's rows, active or not by now.        *)
hydrate ==
  /\ render.step = "hydrate"
  /\ render' = [render EXCEPT !.step = "done", !.fixed = @ \/ ~isSearch]
  /\ shown' = shown \o render.found
  /\ UNCHANGED <<active, up, url, changes>>

-----------------------------------------------------------------------------
(* The page                                                                  *)

totalPages == (render.total + PageSize - 1) \div PageSize

(* Pagination: only the page changes.                                        *)
nextPage ==
  /\ render.step = "done" /\ url.page < totalPages
  /\ url' = [url EXCEPT !.page = @ + 1]
  /\ render' = [idleRender EXCEPT !.step = "start"]
  /\ UNCHANGED <<active, up, shown, changes>>

(* Mutant: the page stays when a filter changes.                             *)
navigateSamePage(f) == url' = [filters |-> f, page |-> url.page]

(* setParam(), navigate(), remove(): "page 3 of the old result set is        *)
(* meaningless".                                                             *)
navigate(f) == url' = [filters |-> f, page |-> 1]

changeFilters(f) ==
  /\ render.step = "done" /\ f # url.filters
  /\ navigate(f)
  /\ render' = [idleRender EXCEPT !.step = "start"]
  /\ shown' = <<>> /\ changes' = [changes EXCEPT !.since = 0]
  /\ UNCHANGED <<active, up>>

(* FilterSidebar and ExploreSearchBar: one parameter at a time, or, with     *)
(* clearAll(), all but the text.                                             *)
toggleBoolean == changeFilters([url.filters EXCEPT !.free = IF @ = "true" THEN "" ELSE "true"])
toggleValue(auth) == changeFilters([url.filters EXCEPT !.auth = IF @ = auth THEN "" ELSE auth])
toggleStatus == changeFilters([url.filters EXCEPT !.status = IF @ = "up" THEN "" ELSE "up"])
submitText(q) == changeFilters([url.filters EXCEPT !.q = q])
chooseSort(sort) == changeFilters([url.filters EXCEPT !.sort = sort])
clearAll == changeFilters([noFilters EXCEPT !.q = url.filters.q])

(* ActiveChips: the chip of a filter that is set takes it away.              *)
remove(key) ==
  /\ url.filters[key] # ""
  /\ changeFilters([url.filters EXCEPT ![key] = ""])

(* A moderator, or a probe.                                                  *)
changeCatalogue(id) ==
  /\ changes.all < MaxChanges
  /\ changes' = [all |-> changes.all + 1, since |-> 1]
  /\ \/ active' = (IF id \in active THEN active \ {id} ELSE active \cup {id}) /\ UNCHANGED up
     \/ up' = (IF id \in up THEN up \ {id} ELSE up \cup {id}) /\ UNCHANGED active
  /\ UNCHANGED <<url, render, shown>>

discoveryNext ==
  \/ listCounts \/ listRows \/ findCandidates \/ broaden \/ rescue \/ rankPage \/ hydrate
  \/ nextPage \/ toggleBoolean \/ toggleStatus \/ clearAll
  \/ \E auth \in {"none", "apiKey"} : toggleValue(auth)
  \/ \E q \in SearchTexts : submitText(q)
  \/ \E sort \in Sorts : chooseSort(sort)
  \/ \E key \in {"free", "auth", "status"} : remove(key)
  \/ \E id \in apiIds : changeCatalogue(id)

-----------------------------------------------------------------------------
(* Facets, recommendations and comparison                                    *)

(* CatalogRepository.facets(): how many rows each value would leave, the     *)
(* auth and status filters aside.                                            *)
facetBase(f) == specificationsFor([f EXCEPT !.auth = "", !.status = ""])
authFacet(f, auth) == Cardinality({id \in facetBase(f) : Rows[id].auth = auth})
healthFacet(f, status) == Cardinality({id \in facetBase(f) : (status = "up") = (id \in up)})

(* recommend(): a constraint given as yes or no wins over what the text      *)
(* implies, but "no key" of either wins over the preferred type.             *)
adviceFilters(c, q) ==
  LET parsed == parseQuery(q)
      holds(given, implied) == IF given # "" THEN given = "yes" ELSE implied
  IN [free |-> holds(c.free, parsed.free),
      auth |-> IF holds(c.noAuth, parsed.noAuth) THEN "none" ELSE c.preferredAuth, status |-> ""]

(* Mutant: the constraints are dropped along with the text.                  *)
recommendFromAnything(c, q, hinted) ==
  LET byText == {id \in specificationsFor(adviceFilters(c, q)) :
                   parseQuery(q).terms # {} /\ matchesAll(id, parseQuery(q).terms)}
  IN IF byText # {} THEN byText ELSE active

(* RecommendationService.recommend(): the text, else the category it hints   *)
(* at, else everything; the filters always hold.                             *)
recommendFrom(c, q, hinted) ==
  LET all == specificationsFor(adviceFilters(c, q))
      byText == {id \in all : parseQuery(q).terms # {} /\ matchesAll(id, parseQuery(q).terms)}
      byCategory == {id \in all : hinted # "" /\ Rows[id].category = hinted}
  IN IF byText # {} THEN byText ELSE IF byCategory # {} THEN byCategory ELSE all

-----------------------------------------------------------------------------
(* Properties                                                                *)

isMatch(id, f) ==
  LET e == effectiveFilters(f)
      t == parseQuery(f.q).terms
  IN id \in specificationsFor(IF f.q = {} THEN listFilters ELSE e) /\ (t = {} \/ matchesAll(id, t))

(* What the pages of a walk are cut from, and its place in their order: the  *)
(* rows of the list, or what the query found that the search came to.        *)
broadens == Cardinality(allWords) < BroadenThreshold /\ Cardinality(terms) > 1
rescues == IF broadens THEN anyWord = {} ELSE Cardinality(allWords) = 0 /\ Cardinality(terms) <= 1
pool ==
  IF ~isSearch THEN specificationsFor(listFilters)
  ELSE IF terms = {} THEN wanted
  ELSE IF rescues THEN byName ELSE IF broadens THEN anyWord ELSE allWords
scoreOf(id) == IF isSearch THEN rankOf(pool, terms, id) ELSE orderBy(url.filters.sort, id)
tied(id) == \E other \in pool \ {id} : scoreOf(other) = scoreOf(id)

(* Walking the pages to the last one shows as many APIs as the total says;   *)
(* of those that tie with no other none twice, and, with all the words,      *)
(* every one that matches, when the catalogue stayed as it was and no query  *)
(* was cut at its limit: the pages are cut from separate reads, each of      *)
(* which orders the rows that tie anew.                                      *)
WalkComplete ==
  render.step = "done" /\ render.fixed /\ changes.since = 0 =>
    /\ \A i, j \in 1..Len(shown) : i # j /\ shown[i] = shown[j] => tied(shown[i])
    /\ url.page >= totalPages =>
         /\ Len(shown) = render.total
         /\ \A id \in apiIds : isMatch(id, url.filters) /\ ~tied(id) => id \in Range(shown)

(* "An explicit choice must never be overridden" (search/service.ts:74-75):  *)
(* on every path, broadened and rescued ones too, what is shown satisfies    *)
(* the filters chosen, and one the text implies where none was chosen; and   *)
(* a search with a match is never answered with nothing.                     *)
ChoicesHold ==
  render.step = "done" /\ changes.since = 0 =>
    /\ \A id \in Range(shown) :
         /\ url.filters.free # "" => Rows[id].free
         /\ url.filters.auth = "apiKey" => Rows[id].auth = "apiKey"
         /\ url.filters.auth = "none" => Rows[id].auth # "apiKey"
         /\ url.filters.status = "up" => id \in up
         /\ "keyless" \in url.filters.q /\ url.filters.auth = "" => Rows[id].auth # "apiKey"
    /\ url.page = 1 /\ (\E id \in apiIds : isMatch(id, url.filters)) => shown # <<>>

(* Whatever the text, recommendations satisfy the constraints, and there are *)
(* some whenever the catalogue has one that satisfies them and what the text *)
(* implies; only the preferred type gives way, to "no key" of a constraint   *)
(* or of the text.  The sidebar's count of an authentication type or a       *)
(* health status is what choosing it alone yields (but for "none", whose     *)
(* filter also takes free APIs of unknown type).                             *)
AdviceGrounded ==
  /\ \A c \in [free : {"", "yes"}, noAuth : {"", "yes", "no"}, preferredAuth : {"", "apiKey"}] :
       \A q \in SearchTexts, hinted \in {"", "maps"} :
         LET advice == recommendFrom(c, q, hinted) IN
         /\ \A id \in advice :
              /\ id \in active /\ (c.free = "yes" => Rows[id].free)
              /\ c.noAuth = "yes" => authTypeSpecification("none", id)
              /\ (c.noAuth = "no" \/ (c.noAuth = "" /\ "keyless" \notin q)) /\ c.preferredAuth # "" =>
                   Rows[id].auth = c.preferredAuth
         /\ advice = {} => specificationsFor(adviceFilters(c, q)) = {}
  /\ \A free \in BOOLEAN, auth \in {"", "none", "apiKey"} :
       LET f == [free |-> free, auth |-> auth, status |-> ""] IN
       /\ authFacet(f, "apiKey") = Cardinality(specificationsFor([f EXCEPT !.auth = "apiKey"]))
       /\ auth = "" => healthFacet(f, "up") = Cardinality(specificationsFor([f EXCEPT !.status = "up"]))
==============================================================================
