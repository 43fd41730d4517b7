------------------------------ MODULE LruCache -------------------------------
(***************************************************************************)
(* packages/algorithms/src/lru-cache.ts: a map from keys to the nodes of a *)
(* doubly linked list.  A node is known by its key; values are left out,   *)
(* and so are the counters stats() reports.                                *)
(***************************************************************************)
EXTENDS Integers, FiniteSets, Sequences, SequencesExt

CONSTANTS
  LruKeys,      \* the keys
  LruMaxSize,   \* maxSize
  LruTtl,       \* the time an entry lives when put() is given one
  LruHorizon    \* bound: how far the clock goes

nil == "nil"

ASSUME LruAssumption ==
  LruMaxSize \in Nat \ {0} /\ LruTtl \in 1..3 /\ LruHorizon \in Nat /\ nil \notin LruKeys

VARIABLES
  lruMap,    \* expiresAt of each node in the map
  lruHead, lruTail,
  lruPrev, lruNext,
  lruNow

lruVars == <<lruMap, lruHead, lruTail, lruPrev, lruNext, lruNow>>

lruInit ==
  /\ lruMap = <<>> /\ lruHead = nil /\ lruTail = nil
  /\ lruPrev = [k \in LruKeys |-> nil] /\ lruNext = [k \in LruKeys |-> nil]
  /\ lruNow = 0

(* The list, as a value the helpers below transform.                         *)
list == [head |-> lruHead, tail |-> lruTail, prev |-> lruPrev, next |-> lruNext]
becomes(l) == lruHead' = l.head /\ lruTail' = l.tail /\ lruPrev' = l.prev /\ lruNext' = l.next

isExpired(k) == lruMap[k] # 0 /\ lruMap[k] <= lruNow

addToFront(l, k) ==
  [head |-> k,
   tail |-> IF l.tail = nil THEN k ELSE l.tail,
   prev |-> [x \in LruKeys |-> IF x = k THEN nil ELSE IF x = l.head THEN k ELSE l.prev[x]],
   next |-> [l.next EXCEPT ![k] = l.head]]

(* Mutant: removing the last node leaves the tail where it was.              *)
removeNodeKeepsTail(l, k) ==
  [head |-> IF l.prev[k] = nil THEN l.next[k] ELSE l.head,
   tail |-> l.tail,
   prev |-> [x \in LruKeys |-> IF x = k THEN nil ELSE IF x = l.next[k] THEN l.prev[k] ELSE l.prev[x]],
   next |-> [x \in LruKeys |-> IF x = k THEN nil ELSE IF x = l.prev[k] THEN l.next[k] ELSE l.next[x]]]

removeNode(l, k) ==
  [head |-> IF l.prev[k] = nil THEN l.next[k] ELSE l.head,
   tail |-> IF l.next[k] = nil THEN l.prev[k] ELSE l.tail,
   prev |-> [x \in LruKeys |-> IF x = k THEN nil ELSE IF x = l.next[k] THEN l.prev[k] ELSE l.prev[x]],
   next |-> [x \in LruKeys |-> IF x = k THEN nil ELSE IF x = l.prev[k] THEN l.next[k] ELSE l.next[x]]]

moveToFront(l, k) == IF l.head = k THEN l ELSE addToFront(removeNode(l, k), k)

forget(ks) == lruMap' = Restrict(lruMap, DOMAIN lruMap \ ks)

(* get(): a hit is promoted; an expired node is dropped.                     *)
lruGet(k) ==
  /\ k \in DOMAIN lruMap
  /\ \/ isExpired(k) /\ becomes(removeNode(list, k)) /\ forget({k})
     \/ ~isExpired(k) /\ becomes(moveToFront(list, k)) /\ UNCHANGED lruMap
  /\ UNCHANGED lruNow

(* has(): only an expired node changes anything.                             *)
lruHas(k) ==
  /\ k \in DOMAIN lruMap /\ isExpired(k)
  /\ becomes(removeNode(list, k)) /\ forget({k})
  /\ UNCHANGED lruNow

(* evict(), when the new node made the map too large.                        *)
evict(l, m) ==
  /\ becomes(removeNode(l, l.tail))
  /\ lruMap' = Restrict(m, DOMAIN m \ {l.tail})

(* put(): an existing node is updated in place and promoted.                 *)
lruPut(k, ttl) ==
  LET expiresAt == IF ttl > 0 THEN lruNow + ttl ELSE 0
      added == addToFront([list EXCEPT !.prev[k] = nil], k)
      larger == [x \in DOMAIN lruMap \cup {k} |-> IF x = k THEN expiresAt ELSE lruMap[x]]
  IN /\ \/ k \in DOMAIN lruMap /\ lruMap' = larger /\ becomes(moveToFront(list, k))
        \/ k \notin DOMAIN lruMap /\ Cardinality(DOMAIN larger) > LruMaxSize /\ evict(added, larger)
        \/ /\ k \notin DOMAIN lruMap /\ Cardinality(DOMAIN larger) <= LruMaxSize
           /\ lruMap' = larger /\ becomes(added)
     /\ UNCHANGED lruNow

(* delete()                                                                  *)
lruDelete(k) ==
  /\ k \in DOMAIN lruMap
  /\ becomes(removeNode(list, k)) /\ forget({k})
  /\ UNCHANGED lruNow

(* clear(): the nodes go with the map.                                       *)
lruClear ==
  /\ lruMap' = <<>>
  /\ becomes([head |-> nil, tail |-> nil,
              prev |-> [k \in LruKeys |-> nil], next |-> [k \in LruKeys |-> nil]])
  /\ UNCHANGED lruNow

removeAll(l, nodes) ==
  LET after[n \in 0..Len(nodes)] == IF n = 0 THEN l ELSE removeNode(after[n - 1], nodes[n])
  IN  after[Len(nodes)]

(* prune(): every expired node, one after another.  The order is the map's,   *)
(* which is left open.                                                       *)
lruPrune ==
  LET gone == {k \in DOMAIN lruMap : isExpired(k)} IN
  /\ \E nodes \in SetToSeqs(gone) : becomes(removeAll(list, nodes))
  /\ forget(gone)
  /\ UNCHANGED lruNow

lruTick == lruNow < LruHorizon /\ lruNow' = lruNow + 1 /\ UNCHANGED <<lruMap, lruHead, lruTail, lruPrev, lruNext>>

lruNextStep ==
  \/ \E k \in LruKeys : lruGet(k) \/ lruHas(k) \/ lruDelete(k) \/ \E t \in {0, LruTtl} : lruPut(k, t)
  \/ lruClear \/ lruPrune \/ lruTick

LruSpec == lruInit /\ [][lruNextStep]_lruVars

-----------------------------------------------------------------------------
(* keys(): the list from its head.  The bound ends a list that has become a  *)
(* cycle.                                                                    *)
visited[n \in 0..LruMaxSize] ==
  IF n = 0 THEN lruHead ELSE IF visited[n - 1] = nil THEN nil ELSE lruNext[visited[n - 1]]
keys == [i \in 1..Cardinality({n \in 0..LruMaxSize : visited[n] # nil}) |-> visited[i - 1]]
lruEntries == [i \in 1..Len(keys) |->
                [key |-> keys[i], expiresAt |-> IF keys[i] \in DOMAIN lruMap THEN lruMap[keys[i]] ELSE -1]]

Recency == INSTANCE RecencyList
  WITH Keys <- LruKeys, Capacity <- LruMaxSize, clock <- lruNow, entries <- lruEntries

(* The pointer surgery and the map implement a recency list: head to tail    *)
(* the list holds exactly the map's keys, most recently used first, a full   *)
(* cache loses the key unused for longest, and an expired entry is never     *)
(* returned or promoted.                                                     *)
ImplementsRecencyList == Recency!Spec
==============================================================================
