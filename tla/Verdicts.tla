------------------------------- MODULE Verdicts -------------------------------
(***************************************************************************)
(* The comparison and the explanations of                                  *)
(* apps/api/src/modules/recommendations/service.ts: compare() with its     *)
(* rows and verdict, buildReasons() and buildCaveats().                    *)
(*                                                                         *)
(* Scores are in 1/10000; uptimes are per cent; a sentence is the fact it  *)
(* states.                                                                 *)
(***************************************************************************)
EXTENDS Integers, Sequences, SequencesExt, FiniteSets

CONSTANTS
  Contenders,      \* APIs that can be compared
  Compared         \* bound: APIs compared at once

Null == -1              \* null: what was not measured
Infinite == 1000000     \* Infinity: longer than any latency

ASSUME VerdictAssumption ==
  /\ Compared \in Nat
  /\ Contenders \subseteq
       [isFree : BOOLEAN, hasFreeTier : BOOLEAN, authType : STRING, https : BOOLEAN,
        cors : {"yes", "no", "unknown"}, status : {"up", "degraded", "unknown", "down"},
        latency : -1..(Infinite - 1), uptime : -1..100, reliability : -1..100, rating : -1..5,
        reviews : Nat, docs : BOOLEAN]

VARIABLES
  table       \* the APIs side by side

verdictVars == <<table>>

verdictInit == table = <<>>

-----------------------------------------------------------------------------
(* Mutant: a tie goes to the last.                                           *)
bestByLast(score) ==
  LET best == {i \in DOMAIN score : \A j \in DOMAIN score : score[j] =< score[i]}
  IN  CHOOSE i \in best : \A j \in best : j =< i

(* bestBy(): the first of the highest.  Only the latency row can have none:  *)
(* see below.                                                                *)
bestBy(score) ==
  LET best == {i \in DOMAIN score : \A j \in DOMAIN score : score[j] =< score[i]}
  IN  CHOOSE i \in best : \A j \in best : i =< j

(* booleanRow(): the first it holds of, or nobody.                           *)
booleanRow(holds) ==
  IF \E i \in DOMAIN holds : holds[i]
    THEN bestBy([i \in DOMAIN holds |-> IF holds[i] THEN 1 ELSE 0])
    ELSE Null

healthRank(status) == [up |-> 3, degraded |-> 2, unknown |-> 1, down |-> 0][status]

(* Without any measured latency the row has no best; an unmeasured one comes *)
(* after every measured one.                                                 *)
latencyRow(apis) ==
  IF \A i \in DOMAIN apis : apis[i].latency = Null THEN Null
  ELSE bestBy([i \in DOMAIN apis |-> IF apis[i].latency = Null THEN -Infinite ELSE -apis[i].latency])

(* compare(): the best of each row.                                          *)
rowsOf(apis) ==
  LET I == DOMAIN apis
  IN  [free |-> booleanRow([i \in I |-> apis[i].isFree]),
       freeTier |-> booleanRow([i \in I |-> apis[i].hasFreeTier]),
       auth |-> bestBy([i \in I |-> IF apis[i].authType = "none" THEN 1 ELSE 0]),
       https |-> booleanRow([i \in I |-> apis[i].https]),
       cors |-> booleanRow([i \in I |-> apis[i].cors = "yes"]),
       status |-> bestBy([i \in I |-> healthRank(apis[i].status)]),
       latency |-> latencyRow(apis),
       uptime |-> bestBy([i \in I |-> apis[i].uptime]),
       reliability |-> bestBy([i \in I |-> apis[i].reliability]),
       rating |-> bestBy([i \in I |-> apis[i].rating]),
       reviews |-> bestBy([i \in I |-> apis[i].reviews]),
       docs |-> booleanRow([i \in I |-> apis[i].docs])]

orElse(value, default) == IF value = Null THEN default ELSE value

(* Mutant: the reliability is forgotten.                                     *)
comparisonScoreUnreliable(api) ==
  (IF api.isFree THEN 2000 ELSE IF api.hasFreeTier THEN 1200 ELSE 0)
  + (IF api.authType = "none" THEN 1500 ELSE IF api.authType = "apiKey" THEN 800 ELSE 300)
  + (IF api.https THEN 1000 ELSE 0) + (IF api.cors = "yes" THEN 800 ELSE 0)
  + 12 * orElse(api.uptime, 50) + 200 * orElse(api.rating, 3) + (IF api.docs THEN 500 ELSE 0)

(* comparisonScore(): what was not measured counts as middling.              *)
comparisonScore(api) ==
  (IF api.isFree THEN 2000 ELSE IF api.hasFreeTier THEN 1200 ELSE 0)
  + (IF api.authType = "none" THEN 1500 ELSE IF api.authType = "apiKey" THEN 800 ELSE 300)
  + (IF api.https THEN 1000 ELSE 0) + (IF api.cors = "yes" THEN 800 ELSE 0)
  + 20 * orElse(api.reliability, 50) + 12 * orElse(api.uptime, 50)
  + 200 * orElse(api.rating, 3) + (IF api.docs THEN 500 ELSE 0)

(* The verdict: the first of the highest scores.                             *)
winnerIndex(apis) == bestBy([i \in DOMAIN apis |-> comparisonScore(apis[i])])

-----------------------------------------------------------------------------
(* Explanations                                                              *)

only(condition, fact) == IF condition THEN <<fact>> ELSE <<>>
atMost(n, s) == SubSeq(s, 1, IF Len(s) < n THEN Len(s) ELSE n)

(* buildReasons(): at most five, each from a field.                          *)
buildReasons(api) ==
  atMost(5,
    (IF api.isFree THEN <<"free">> ELSE only(api.hasFreeTier, "freeTier"))
    \o <<IF api.authType = "none" THEN "noAuth" ELSE "authNamed">>
    \o only(api.https, "https") \o only(api.cors = "yes", "cors")
    \o only(api.status = "up", "operational")
    \o only(api.uptime >= 99, "uptime")
    \o only(api.rating # Null /\ api.reviews >= 3, "rated")
    \o only(api.docs, "docs"))

(* Mutant: a free tier does not spare an API the first caveat.               *)
buildCaveatsStrict(api) ==
  atMost(4,
    only(~api.isFree, "noFreeTier")
    \o only(api.authType = "oauth2", "oauthFlow") \o only(api.authType = "apiKey", "key")
    \o only(~api.https, "noHttps") \o only(api.cors = "no", "noCors")
    \o only(api.status = "down", "failing"))

(* buildCaveats(): at most four.                                             *)
buildCaveats(api) ==
  atMost(4,
    only(~api.isFree /\ ~api.hasFreeTier, "noFreeTier")
    \o only(api.authType = "oauth2", "oauthFlow") \o only(api.authType = "apiKey", "key")
    \o only(~api.https, "noHttps") \o only(api.cors = "no", "noCors")
    \o (IF api.status = "down" THEN <<"failing">>
        ELSE IF api.status = "degraded" THEN <<"slow">>
        ELSE only(api.status = "unknown", "notMonitored"))
    \o only(~api.docs, "noDocs"))

(* One more API is put into the table.                                       *)
addContender(api) ==
  /\ Len(table) < Compared
  /\ table' = Append(table, api)

verdictsNext == \E api \in Contenders : addContender(api)

-----------------------------------------------------------------------------
(* Properties                                                                *)

Scored == {"isFree", "hasFreeTier", "https", "docs"}

(* At least as good in whatever the score takes from the table, everything   *)
(* measured.                                                                 *)
noWorse(a, b) ==
  /\ \A part \in Scored : b[part] => a[part]
  /\ b.authType = "none" => a.authType = "none"
  /\ a.authType = "none" \/ a.authType = b.authType
  /\ b.cors = "yes" => a.cors = "yes"
  /\ Null \notin {a.reliability, b.reliability, a.uptime, b.uptime, a.rating, b.rating}
  /\ a.reliability >= b.reliability /\ a.uptime >= b.uptime /\ a.rating >= b.rating

clearlyBetter(a, b) ==
  noWorse(a, b) /\ (a.reliability > b.reliability \/ a.uptime > b.uptime
                    \/ a.rating > b.rating \/ (a.docs /\ ~b.docs))

(* "The best for my project answer is always consistent with the numbers     *)
(* shown above it" (service.ts:229-231): no API wins that another one, both  *)
(* measured, beats in what is scored; an API that leads a row is led by      *)
(* nobody in it and by nobody as good before it.  Where something was not    *)
(* measured the row and the score disagree: last in the one, middling in the *)
(* other.                                                                    *)
VerdictMatchesTable ==
  Len(table) >= 2 =>
    LET rows == rowsOf(table) winner == winnerIndex(table)
    IN  /\ \A i \in DOMAIN table : ~clearlyBetter(table[i], table[winner])
        /\ \A i \in DOMAIN table :
             /\ table[i].uptime =< table[rows.uptime].uptime
             /\ i < rows.uptime => table[i].uptime < table[rows.uptime].uptime
             /\ rows.latency # Null /\ table[i].latency # Null =>
                  /\ table[rows.latency].latency # Null
                  /\ table[rows.latency].latency =< table[i].latency
             /\ rows.free = Null => ~table[i].isFree
             /\ healthRank(table[i].status) =< healthRank(table[rows.status].status)

(* "Every reason is derived from a real field" and the downsides are honest  *)
(* (service.ts:155, 187): what a recommendation praises it does not also     *)
(* warn of, and of an API without praise for price, transport or health      *)
(* either the downside is listed or there were four others before it.        *)
ReasonsAndCaveatsAgree ==
  \A i \in DOMAIN table :
    LET api == table[i]
        praise == ToSet(buildReasons(api)) warning == ToSet(buildCaveats(api))
        contrary == {<<"free", "noFreeTier">>, <<"freeTier", "noFreeTier">>, <<"noAuth", "key">>,
                     <<"noAuth", "oauthFlow">>, <<"https", "noHttps">>, <<"cors", "noCors">>,
                     <<"operational", "failing">>, <<"docs", "noDocs">>}
    IN  /\ \A c \in contrary : ~(c[1] \in praise /\ c[2] \in warning)
        /\ api.status = "down" => "failing" \in warning \/ Cardinality(warning) = 4
        /\ ~api.https => "noHttps" \in warning
===============================================================================
