------------------------------- MODULE Library -------------------------------
(***************************************************************************)
(* What a user keeps: FavoriteService and CollectionService (apps/api/src/ *)
(* modules/users/), and the page that changes them optimistically          *)
(* (apps/web: FavoriteButton, CollectionsManager), for one user, one API   *)
(* on the page and collections of one name.                                *)
(*                                                                         *)
(* Nothing keeps the user from clicking again while a request is under     *)
(* way.  A request is sent, its statements run one by one, and its answer  *)
(* arrives, or is lost.                                                    *)
(***************************************************************************)
EXTENDS Integers, FiniteSets

CONSTANTS
  Clicks,           \* handles of requests under way
  Apis,             \* APIs that may be collected
  MaxCollections    \* bound: collections ever created

ASSUME LibraryAssumption == MaxCollections \in Nat \ {0} /\ IsFiniteSet(Apis)

VARIABLES
  favorite,     \* there is a row in favorites
  slugs,        \* the collections table: the suffix of each slug; 0: no row
  made,         \* collection ids generated so far
  items,        \* the collection_items table
  itemCount,    \* the denormalised count of each collection
  heart,        \* FavoriteButton's state
  listed,       \* CollectionsManager's state
  clickState,      \* the requests
  miscounted,   \* history: collections whose count was not refreshed by a failed request
  clean         \* history: parts of the page no request was lost or overlapped for

libraryVars == <<favorite, slugs, made, items, itemCount, heart, listed, clickState,
                 miscounted, clean>>
tables == <<favorite, slugs, made, items, itemCount, miscounted>>

CollectionId == 1..MaxCollections
kept == {i \in CollectionId : slugs[i] # 0}
noClick == [op |-> "none", step |-> "none", id |-> 0, arg |-> 0]
Ops == {"favorite", "unfavorite", "create", "remove", "addItem", "removeItem"}

LibraryTypeOK ==
  /\ favorite \in BOOLEAN /\ heart \in BOOLEAN
  /\ slugs \in [CollectionId -> 0..MaxCollections] /\ made \in 0..MaxCollections
  /\ items \subseteq CollectionId \X Apis
  /\ itemCount \in [CollectionId -> 0..Cardinality(Apis)]
  /\ listed \subseteq CollectionId
  /\ \A c \in Clicks : clickState[c].op \in Ops \cup {"none"} /\ clickState[c].id \in 0..MaxCollections
  /\ miscounted \subseteq CollectionId /\ clean \subseteq {"heart", "list"}

LibraryInit ==
  /\ favorite \in BOOLEAN /\ heart = favorite
  /\ slugs = [i \in CollectionId |-> 0] /\ made = 0
  /\ items = {} /\ itemCount = [i \in CollectionId |-> 0]
  /\ listed = {}
  /\ clickState = [c \in Clicks |-> noClick]
  /\ miscounted = {} /\ clean = {"heart", "list"}

-----------------------------------------------------------------------------
(* The page                                                                  *)

part(op) == IF op \in {"favorite", "unfavorite"} THEN "heart" ELSE "list"
onPage(op) == op \in {"favorite", "unfavorite", "create", "remove"}
busy(p) == \E c \in Clicks : clickState[c].op # "none" /\ part(clickState[c].op) = p

Send(c, op, id, arg) ==
  /\ clickState[c].op = "none"
  /\ clickState' = [clickState EXCEPT ![c] = [op |-> op, step |-> "first", id |-> id, arg |-> arg]]
  /\ UNCHANGED tables

(* What a click does to the history: it may overlap another one.             *)
disturbs(p) == IF busy(p) THEN clean \ {p} ELSE clean

(* FavoriteButton.toggle(): the heart changes at once.  The click remembers  *)
(* whether it had the heart to itself.                                       *)
toggle(c) ==
  /\ clickState[c].op = "none"
  /\ clickState' = [d \in Clicks |->
       CASE d = c -> [op |-> IF heart THEN "unfavorite" ELSE "favorite", step |-> "first",
                      id |-> 0, arg |-> IF busy("heart") THEN 0 ELSE 1]
         [] d # c /\ part(clickState[d].op) = "heart" -> [clickState[d] EXCEPT !.arg = 0]
         [] OTHER -> clickState[d]]
  /\ heart' = ~heart
  /\ clean' = disturbs("heart")
  /\ UNCHANGED <<tables, listed>>

(* CollectionsManager.create()                                               *)
createClick(c) ==
  /\ Send(c, "create", 0, 0)
  /\ clean' = disturbs("list")
  /\ UNCHANGED <<heart, listed>>

(* CollectionsManager.remove(): the list forgets it at once, but the request *)
(* keeps the list as it was.                                                 *)
removeClick(c, id) ==
  /\ id \in listed
  /\ Send(c, "remove", id, listed)
  /\ listed' = listed \ {id}
  /\ clean' = disturbs("list")
  /\ UNCHANGED heart

(* Items come and go through the API.                                        *)
itemRequest(c, op, id, a) ==
  /\ op \in {"addItem", "removeItem"}
  /\ Send(c, op, id, a)
  /\ UNCHANGED <<heart, listed, clean>>

(* Mutant: a failed click on the heart is not taken back.                    *)
rollbackNot(c) == UNCHANGED <<heart, listed>>

(* The catch blocks: the heart is turned back, and the list is put back as   *)
(* it was when the request was made.                                         *)
rollback(c) ==
  /\ heart' = IF part(clickState[c].op) = "heart" THEN clickState[c].op = "unfavorite" ELSE heart
  /\ listed' = IF clickState[c].op = "remove" THEN clickState[c].arg ELSE listed

(* The answer arrives.  Adding and removing a favourite are idempotent, so   *)
(* a click that had the heart to itself has put it right.                    *)
answer(c) ==
  /\ clickState[c].step = "answer"
  /\ clean' = IF part(clickState[c].op) = "heart" /\ clickState[c].arg = 1 THEN clean \cup {"heart"}
              ELSE clean
  /\ listed' = IF clickState[c].op = "create" THEN listed \cup {clickState[c].id} ELSE listed
  /\ clickState' = [clickState EXCEPT ![c] = noClick]
  /\ UNCHANGED <<tables, heart>>

(* The request is refused, or a statement fails: nothing, or no more than    *)
(* was done, has been done.                                                  *)
Refused(c) ==
  /\ rollback(c)
  /\ clickState' = [clickState EXCEPT ![c] = noClick]

refuse(c) ==
  /\ clickState[c].step \in {"first", "second", "refresh"}
  /\ Refused(c)
  /\ miscounted' = IF clickState[c].step = "refresh" THEN miscounted \cup ({clickState[c].id} \cap kept)
                   ELSE miscounted
  /\ UNCHANGED <<favorite, slugs, made, items, itemCount, clean>>

(* The answer is lost after the work was done.                               *)
loseAnswer(c) ==
  /\ clickState[c].step = "answer"
  /\ Refused(c)
  /\ clean' = IF onPage(clickState[c].op) THEN clean \ {part(clickState[c].op)} ELSE clean
  /\ UNCHANGED tables

(* The page is rendered anew from the database.                              *)
reload ==
  /\ \A c \in Clicks : clickState[c].op = "none"
  /\ clean # {"heart", "list"}
  /\ heart' = favorite /\ listed' = kept /\ clean' = {"heart", "list"}
  /\ UNCHANGED <<tables, clickState>>

-----------------------------------------------------------------------------
(* The services                                                              *)

Advances(c, step) == clickState' = [clickState EXCEPT ![c].step = step]
Page == <<heart, listed, clean>>

(* FavoriteService.add(), remove(): ON CONFLICT DO NOTHING, or a DELETE.     *)
changeFavorite(c) ==
  /\ clickState[c].op \in {"favorite", "unfavorite"} /\ clickState[c].step = "first"
  /\ favorite' = (clickState[c].op = "favorite")
  /\ Advances(c, "answer")
  /\ UNCHANGED <<slugs, made, items, itemCount, miscounted, Page>>

(* uniqueSlug(): the first suffix not taken when it looked.                  *)
uniqueSlug(c) ==
  /\ clickState[c].op = "create" /\ clickState[c].step = "first"
  /\ \E n \in 1..(MaxCollections + 1) :
       /\ n \notin {slugs[i] : i \in kept} /\ \A k \in 1..(n - 1) : k \in {slugs[i] : i \in kept}
       /\ clickState' = [clickState EXCEPT ![c].step = "second", ![c].arg = n]
  /\ UNCHANGED <<tables, Page>>

(* Mutant: the table has no unique index.                                    *)
slugFreeAlways(n) == TRUE

(* collections_user_slug_idx                                                 *)
slugFree(n) == \A i \in kept : slugs[i] # n

(* create(): the INSERT.                                                     *)
insertsCollection(c) ==
  /\ clickState[c].op = "create" /\ clickState[c].step = "second"
  /\ \/ ~slugFree(clickState[c].arg) /\ Refused(c) /\ UNCHANGED <<slugs, made>>
     \/ /\ slugFree(clickState[c].arg) /\ made < MaxCollections
        /\ made' = made + 1
        /\ slugs' = [slugs EXCEPT ![made'] = clickState[c].arg]
        /\ clickState' = [clickState EXCEPT ![c].step = "answer", ![c].id = made']
        /\ UNCHANGED <<heart, listed>>
  /\ UNCHANGED <<favorite, items, itemCount, miscounted, clean>>

(* assertOwner(): the collection is there, and the user's.                   *)
assertOwner(c) ==
  /\ clickState[c].op \in {"remove", "addItem", "removeItem"} /\ clickState[c].step = "first"
  /\ \/ clickState[c].id \in kept /\ Advances(c, "second") /\ UNCHANGED <<heart, listed>>
     \/ clickState[c].id \notin kept /\ Refused(c)
  /\ UNCHANGED <<tables, clean>>

(* remove(): the DELETE cascades to the items.                               *)
deletesCollection(c) ==
  /\ clickState[c].op = "remove" /\ clickState[c].step = "second"
  /\ slugs' = [slugs EXCEPT ![clickState[c].id] = 0]
  /\ items' = {x \in items : x[1] # clickState[c].id}
  /\ itemCount' = [itemCount EXCEPT ![clickState[c].id] = 0]
  /\ miscounted' = miscounted \ {clickState[c].id}
  /\ Advances(c, "answer")
  /\ UNCHANGED <<favorite, made, Page>>

(* addItem(), removeItem(): the item; a foreign key rejects one of a         *)
(* collection that is gone by now.                                           *)
changeItem(c) ==
  /\ clickState[c].op \in {"addItem", "removeItem"} /\ clickState[c].step = "second"
  /\ \/ /\ clickState[c].op = "addItem" /\ clickState[c].id \notin kept
        /\ Refused(c) /\ UNCHANGED items
     \/ /\ clickState[c].op = "removeItem" \/ clickState[c].id \in kept
        /\ LET x == <<clickState[c].id, clickState[c].arg>> IN
             items' = IF clickState[c].op = "addItem" THEN items \cup {x} ELSE items \ {x}
        /\ Advances(c, "refresh")
        /\ UNCHANGED <<heart, listed>>
  /\ UNCHANGED <<favorite, slugs, made, itemCount, miscounted, clean>>

(* Mutant: the count is adapted, not recomputed.                             *)
recountedByOne(c) ==
  IF clickState[c].op = "addItem" THEN IF itemCount[clickState[c].id] < Cardinality(Apis)
                                   THEN itemCount[clickState[c].id] + 1
                                   ELSE itemCount[clickState[c].id]
  ELSE IF itemCount[clickState[c].id] > 0 THEN itemCount[clickState[c].id] - 1 ELSE 0

(* The sub-select of refreshCount().                                         *)
recounted(c) == Cardinality({x \in items : x[1] = clickState[c].id})

(* refreshCount(): one statement counts and writes.                          *)
refreshCount(c) ==
  /\ clickState[c].step = "refresh"
  /\ itemCount' = IF clickState[c].id \in kept THEN [itemCount EXCEPT ![clickState[c].id] = recounted(c)]
                  ELSE itemCount
  /\ miscounted' = miscounted \ {clickState[c].id}
  /\ Advances(c, "answer")
  /\ UNCHANGED <<favorite, slugs, made, items, Page>>

LibraryNext ==
  \/ \E c \in Clicks :
       \/ toggle(c) \/ createClick(c) \/ \E id \in listed : removeClick(c, id)
       \/ \E op \in Ops, id \in 1..made, a \in Apis : itemRequest(c, op, id, a)
       \/ changeFavorite(c) \/ uniqueSlug(c) \/ insertsCollection(c) \/ assertOwner(c)
       \/ deletesCollection(c) \/ changeItem(c) \/ refreshCount(c)
       \/ answer(c) \/ refuse(c) \/ loseAnswer(c)
  \/ reload

-----------------------------------------------------------------------------
(* Properties                                                                *)

(* "The heart fills immediately and reverts if the request fails", "restored *)
(* if the request fails" (FavoriteButton.tsx:22, CollectionsManager.tsx:63): *)
(* at rest, the page shows what the database holds, unless requests of the   *)
(* same part overlapped or an answer was lost; one more click puts the heart *)
(* right.                                                                    *)
PageShowsTruth ==
  /\ "heart" \in clean /\ ~busy("heart") => heart = favorite
  /\ "list" \in clean /\ ~busy("list") => listed = kept

(* "Keep the denormalised item count in step with reality"                   *)
(* (collection-service.ts:164): whatever overlaps, the count is right when   *)
(* no request has yet to refresh it, and none failed to; and the user's      *)
(* collections have slugs of their own.                                      *)
CountMatches ==
  /\ \A i \in kept \ miscounted :
       (\A c \in Clicks : clickState[c].step # "refresh" \/ clickState[c].id # i) =>
         itemCount[i] = Cardinality({x \in items : x[1] = i})
  /\ \A i, j \in kept : slugs[i] = slugs[j] => i = j
==============================================================================
