-------------------------------- MODULE Reviews -------------------------------
(***************************************************************************)
(* ReviewService (apps/api/src/modules/reviews/service.ts) and its routes, *)
(* for one API: reviews, votes and the cached summary.                     *)
(*                                                                         *)
(* Every request is a call; each of its statements is a step of its own,   *)
(* in the order of the code, none inside a transaction; a call begins with *)
(* its first one.  Sessions have been checked before (module Sessions);    *)
(* roles are checked here.                                                 *)
(***************************************************************************)
EXTENDS Integers, FiniteSets

CONSTANTS
  Calls,            \* handles of requests in progress
  Users, Staff,     \* users, and those of them who are moderators or admins
  Stars,            \* ratings
  MaxReviews        \* bound: review rows ever created

ASSUME ReviewsAssumption ==
  /\ Staff \subseteq Users /\ "nobody" \notin Users /\ IsFiniteSet(Calls)
  /\ MaxReviews \in Nat \ {0}

VARIABLES
  reviews,      \* the reviews table
  created,      \* review ids generated so far
  votes,        \* the review_votes table
  summary,      \* the cached `reviews:summary`
  calls,
  uncounted,    \* history: votes whose increment was never made
  stale         \* history: the cached summary is of a load that a write overtook,
                \* or a writer failed before invalidating it

reviewVars == <<reviews, created, votes, summary, calls, uncounted, stale>>

NoReview == [user |-> "nobody", stars |-> 0, helpful |-> 0]
NotCached == [s \in Stars |-> -1]
ReviewId == 1..MaxReviews
posted == {r \in ReviewId : reviews[r] # NoReview}

(* The distribution of stars, which the averages follow from.                *)
distribution == [s \in Stars |-> Cardinality({r \in posted : reviews[r].stars = s})]

Step == {"idle", "insert", "update", "delete", "increment", "invalidate", "store"}
noCall == [step |-> "idle", user |-> "nobody", id |-> 0, value |-> 0]

ReviewsTypeOK ==
  /\ reviews \in [ReviewId -> [user : Users, stars : Stars, helpful : Nat] \cup {NoReview}]
  /\ created \in 0..MaxReviews
  /\ votes \subseteq ReviewId \X Users
  /\ summary \in [Stars -> Nat \cup {-1}]
  /\ \A c \in Calls : calls[c].step \in Step /\ calls[c].id \in ReviewId \cup {0}
  /\ uncounted \subseteq votes
  /\ stale \in BOOLEAN

ReviewsInit ==
  /\ reviews = [r \in ReviewId |-> NoReview] /\ created = 0 /\ votes = {}
  /\ summary = NotCached
  /\ calls = [c \in Calls |-> noCall]
  /\ uncounted = {} /\ stale = FALSE

-----------------------------------------------------------------------------
At(c, step) == calls[c].step = step
Starts(c, step, u, id, value) ==
  /\ At(c, "idle")
  /\ calls' = [calls EXCEPT ![c] = [step |-> step, user |-> u, id |-> id, value |-> value]]
Invalidating(c) == calls' = [calls EXCEPT ![c] = [noCall EXCEPT !.step = "invalidate"]]
Done(c) == calls' = [calls EXCEPT ![c] = noCall]
reviewing == <<reviews, created, votes, uncounted>>

hasRole(u) == u \in Staff

-----------------------------------------------------------------------------
(* Reviews                                                                   *)

reviewsOf(u) == {r \in posted : reviews[r].user = u}

(* create(): a user with a review is told so (409), others go on.            *)
createChecks(c, u, stars) ==
  /\ reviewsOf(u) = {}
  /\ Starts(c, "insert", u, 0, stars)
  /\ UNCHANGED <<reviewing, summary, stale>>

(* Mutant: the table has no unique index.                                    *)
uniqueNot(u) == TRUE

(* reviews_user_api_idx: one review per user and API.                        *)
unique(u) == reviewsOf(u) = {}

(* create(): the INSERT.                                                     *)
createInserts(c) ==
  /\ At(c, "insert")
  /\ \/ ~unique(calls[c].user) /\ Done(c) /\ UNCHANGED <<reviews, created>>
     \/ /\ unique(calls[c].user) /\ created < MaxReviews
        /\ created' = created + 1
        /\ reviews' = [reviews EXCEPT ![created'] =
             [user |-> calls[c].user, stars |-> calls[c].value, helpful |-> 0]]
        /\ Invalidating(c)
  /\ UNCHANGED <<votes, uncounted, summary, stale>>

(* requireOwn(): others get 404 or 403.                                      *)
requireOwn(c, u, id, stars) ==
  /\ id \in reviewsOf(u)
  /\ Starts(c, "update", "nobody", id, stars)
  /\ UNCHANGED <<reviewing, summary, stale>>

(* update(): by id; a row that has gone meanwhile is not there to update.    *)
(* The summary is dropped all the same, before the call ends in a TypeError. *)
update(c) ==
  /\ At(c, "update")
  /\ reviews' = IF calls[c].id \in posted
                THEN [reviews EXCEPT ![calls[c].id].stars = calls[c].value] ELSE reviews
  /\ Invalidating(c)
  /\ UNCHANGED <<created, votes, uncounted, summary, stale>>

(* remove(): the author, or a moderator, may.                                *)
removeReads(c, u, id) ==
  /\ id \in posted /\ (reviews[id].user = u \/ hasRole(u))
  /\ Starts(c, "delete", "nobody", id, 0)
  /\ UNCHANGED <<reviewing, summary, stale>>

(* remove(): the DELETE, which cascades to the votes.                        *)
removeDeletes(c) ==
  /\ At(c, "delete")
  /\ reviews' = [reviews EXCEPT ![calls[c].id] = NoReview]
  /\ votes' = {v \in votes : v[1] # calls[c].id}
  /\ uncounted' = {v \in uncounted : v[1] # calls[c].id}
  /\ Invalidating(c)
  /\ UNCHANGED <<created, summary, stale>>

(* Mutant: the counter is incremented whether or not there was a conflict.   *)
voteInsertsAlways(c, u, id) ==
  /\ id \in posted
  /\ votes' = votes \cup {<<id, u>>}
  /\ Starts(c, "increment", u, id, 0)
  /\ UNCHANGED <<reviews, created, uncounted, summary, stale>>

(* vote(): INSERT ... ON CONFLICT DO NOTHING, where a second vote ends; a    *)
(* foreign key makes it fail if the review is gone.                          *)
voteInserts(c, u, id) ==
  /\ id \in posted /\ <<id, u>> \notin votes
  /\ votes' = votes \cup {<<id, u>>}
  /\ Starts(c, "increment", u, id, 0)
  /\ UNCHANGED <<reviews, created, uncounted, summary, stale>>

(* vote(): helpful_count + 1, computed by the statement itself.              *)
voteIncrements(c) ==
  /\ At(c, "increment")
  /\ reviews' = IF calls[c].id \in posted
                THEN [reviews EXCEPT ![calls[c].id].helpful = @ + 1] ELSE reviews
  /\ Done(c)
  /\ UNCHANGED <<created, votes, uncounted, summary, stale>>

(* Mutant: a change of the stars does not invalidate the summary.            *)
invalidateNot(c) ==
  /\ At(c, "invalidate")
  /\ Done(c)
  /\ UNCHANGED <<reviewing, summary, stale>>

(* cache.invalidate()                                                        *)
invalidate(c) ==
  /\ At(c, "invalidate")
  /\ summary' = NotCached /\ stale' = FALSE
  /\ Done(c)
  /\ UNCHANGED reviewing

(* summaryForApi(): without a cached summary the query runs.                 *)
summaryLoads(c) ==
  /\ summary = NotCached
  /\ Starts(c, "store", "nobody", 0, distribution)
  /\ UNCHANGED <<reviewing, summary, stale>>

(* summaryForApi(): the result is cached.                                    *)
summaryStores(c) ==
  /\ At(c, "store")
  /\ summary' = calls[c].value
  /\ stale' = (calls[c].value # distribution)
  /\ Done(c)
  /\ UNCHANGED reviewing

(* ttlSeconds: 300.                                                          *)
summaryExpires ==
  /\ summary # NotCached
  /\ summary' = NotCached /\ stale' = FALSE
  /\ UNCHANGED <<reviewing, calls>>

-----------------------------------------------------------------------------
(* A statement is rejected, or the process dies: what was done stays done.   *)
fail(c) ==
  /\ ~At(c, "idle")
  /\ Done(c)
  /\ uncounted' = IF At(c, "increment")
                  THEN uncounted \cup ({<<calls[c].id, calls[c].user>>} \cap votes)
                  ELSE uncounted
  /\ stale' = (stale \/ (At(c, "invalidate") /\ summary # NotCached))
  /\ UNCHANGED <<reviews, created, votes, summary>>

ReviewsNext ==
  \/ \E c \in Calls :
       \/ \E u \in Users, stars \in Stars :
            \/ createChecks(c, u, stars)
            \/ \E id \in 1..created : requireOwn(c, u, id, stars)
       \/ \E u \in Users, id \in 1..created : removeReads(c, u, id) \/ voteInserts(c, u, id)
       \/ createInserts(c) \/ update(c) \/ removeDeletes(c) \/ voteIncrements(c)
       \/ invalidate(c) \/ summaryLoads(c) \/ summaryStores(c)
       \/ fail(c)
  \/ summaryExpires

-----------------------------------------------------------------------------
(* Properties                                                                *)

pending(r) == {c \in Calls : At(c, "increment") /\ calls[c].id = r}

(* "a double-click cannot inflate it" (reviews/service.ts:208-210): a user   *)
(* has one review of the API, and its counter tells how many users voted for *)
(* it, short only of the votes whose second statement has yet to run, or     *)
(* never did.                                                                *)
VotesCounted ==
  /\ \A r, s \in posted : reviews[r].user = reviews[s].user => r = s
  /\ \A r \in posted :
       reviews[r].helpful + Cardinality(pending(r))
         + Cardinality({v \in uncounted : v[1] = r})
       = Cardinality({v \in votes : v[1] = r})

(* When no writer is between its statement and its invalidation, the summary *)
(* that is served counts the reviews there are, unless a writer failed or    *)
(* overtook the load that filled it.                                         *)
SummaryTrue ==
  stale \/ summary = NotCached \/ summary = distribution
        \/ \E c \in Calls : At(c, "invalidate")
==============================================================================
