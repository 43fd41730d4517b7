-------------------------------- MODULE Heaps --------------------------------
(***************************************************************************)
(* packages/algorithms/src/binary-heap.ts and top-k.ts: the array-backed   *)
(* heap, the stable priority queue on top of it, and the selections of the *)
(* best K of a stream (topK) and of sorted lists (mergeTopK), one loop     *)
(* iteration per step.  Heaps are sequences from 1; Less(a, b) is a        *)
(* negative answer of the comparator.                                      *)
(***************************************************************************)
EXTENDS Integers, FiniteSets, Sequences, SequencesExt

CONSTANTS
  TopK,         \* how many are wanted
  HeapScores,   \* scores, and priorities
  MaxOffers     \* bound: items offered, queued or merged

ASSUME HeapsAssumption == TopK \in Nat \ {0} /\ HeapScores \subseteq Nat /\ MaxOffers \in Nat

-----------------------------------------------------------------------------
(* BinaryHeap                                                                *)

(* siftUp(): parents move down the path until one is not greater.            *)
siftUp(h, start, Less(_, _)) ==
  LET v == h[start]
      stop[j \in 1..Len(h)] == IF j = 1 \/ ~Less(v, h[j \div 2]) THEN j ELSE stop[j \div 2]
      above == {start \div (2 ^ n) : n \in 0..start} \ {0}
  IN [j \in 1..Len(h) |-> CASE j = stop[start] -> v
                            [] j \in above /\ j > stop[start] -> h[j \div 2]
                            [] OTHER -> h[j]]

(* The child siftDown() compares with.                                       *)
child(h, j, Less(_, _)) ==
  IF 2 * j + 1 <= Len(h) /\ Less(h[2 * j + 1], h[2 * j]) THEN 2 * j + 1 ELSE 2 * j

(* siftDown(): smaller children move up the path.                            *)
siftDown(h, start, Less(_, _)) ==
  LET v == h[start]
      path[j \in 1..Len(h)] ==
        IF 2 * j > Len(h) \/ ~Less(h[child(h, j, Less)], v) THEN <<j>>
        ELSE <<j>> \o path[child(h, j, Less)]
      p == path[start]
  IN [j \in 1..Len(h) |->
        IF \E n \in 1..(Len(p) - 1) : p[n] = j THEN h[child(h, j, Less)]
        ELSE IF j = Last(p) THEN v ELSE h[j]]

push(h, x, Less(_, _)) == siftUp(Append(h, x), Len(h) + 1, Less)
pop(h, Less(_, _)) ==
  IF Len(h) <= 1 THEN <<>> ELSE siftDown(<<Last(h)>> \o SubSeq(h, 2, Len(h) - 1), 1, Less)
replaceTop(h, x, Less(_, _)) ==
  IF h = <<>> THEN push(h, x, Less) ELSE siftDown([h EXCEPT ![1] = x], 1, Less)
drainSorted(h, Less(_, _)) ==
  LET rest[n \in 0..Len(h)] == IF n = 0 THEN h ELSE pop(rest[n - 1], Less)
  IN [n \in 1..Len(h) |-> rest[n - 1][1]]

(* The constructor: Floyd's build-heap, from the last inner node down.       *)
heapify(h, Less(_, _)) ==
  LET built[n \in 0..(Len(h) \div 2)] ==
        IF n = 0 THEN h ELSE siftDown(built[n - 1], (Len(h) \div 2) + 1 - n, Less)
  IN built[Len(h) \div 2]

-----------------------------------------------------------------------------
VARIABLES
  tieBreak,    \* topK() was given a comparator for equal scores
  best,        \* its heap
  offered,     \* the candidates so far
  queued,      \* PriorityQueue.heap
  sequence,    \* PriorityQueue.sequence
  waiting,     \* history: what was put in the queue and has not left it
  lists,       \* the lists still to merge; their heads are in heads
  heads,       \* mergeTopK()'s heap of cursors
  merged,      \* its output
  given        \* history: the entries it was given

heapVars == <<tieBreak, best, offered, queued, sequence, waiting, lists, heads, merged, given>>
topKVars == <<tieBreak, best, offered>>
queueVars == <<queued, sequence, waiting>>
mergeVars == <<lists, heads, merged, given>>

descending(s) == \A i \in 1..(Len(s) - 1) : s[i] >= s[i + 1]
sortedLists == {s \in UNION {[1..n -> HeapScores] : n \in 0..(MaxOffers \div 2)} : descending(s)}

higher(a, b) == a.score > b.score
listHead(i, s) == [list |-> i, score |-> s]

heapsInit ==
  /\ tieBreak \in BOOLEAN /\ best = <<>> /\ offered = <<>>
  /\ queued = <<>> /\ sequence = 0 /\ waiting = {}
  /\ \E a, b \in sortedLists :
       /\ given = a \o b
       /\ lists = << SubSeq(a, 2, Len(a)), SubSeq(b, 2, Len(b)) >>
       /\ heads = LET first == IF a = <<>> THEN <<>> ELSE push(<<>>, listHead(1, a[1]), higher)
                  IN IF b = <<>> THEN first ELSE push(first, listHead(2, b[1]), higher)
  /\ merged = <<>>

(* Mutant: the tie-break is not turned round for the min-heap.               *)
worsePlain(a, b) == a.score < b.score \/ (a.score = b.score /\ tieBreak /\ a.item < b.item)

(* topK()'s min-heap: the worst of the best is at the root.                  *)
worse(a, b) == a.score < b.score \/ (a.score = b.score /\ tieBreak /\ a.item > b.item)

(* topK(): one candidate.                                                    *)
offer(score) ==
  LET x == [item |-> Len(offered) + 1, score |-> score] IN
  /\ Len(offered) < MaxOffers
  /\ offered' = Append(offered, x)
  /\ best' = CASE Len(best) < TopK -> push(best, x, worse)
               [] Len(best) >= TopK /\ worse(best[1], x) -> replaceTop(best, x, worse)
               [] OTHER -> best
  /\ UNCHANGED <<tieBreak, queueVars, mergeVars>>

(* Mutant: a plain heap, which is not stable.                                *)
soonerPlain(a, b) == a.priority < b.priority

(* The comparator of PriorityQueue.                                          *)
sooner(a, b) == IF a.priority # b.priority THEN a.priority < b.priority ELSE a.sequence < b.sequence

enqueue(priority) ==
  LET x == [priority |-> priority, sequence |-> sequence'] IN
  /\ sequence < MaxOffers /\ sequence' = sequence + 1
  /\ queued' = push(queued, x, sooner) /\ waiting' = waiting \cup {x}
  /\ UNCHANGED <<topKVars, mergeVars>>

(* dequeueBatch(count): up to count entries leave, soonest first.            *)
dequeueBatch(count) ==
  LET rest[n \in 0..count] == IF n = 0 THEN queued ELSE pop(rest[n - 1], sooner) IN
  /\ queued # <<>>
  /\ queued' = rest[count]
  /\ waiting' = waiting \ {rest[n][1] : n \in {m \in 0..(count - 1) : rest[m] # <<>>}}
  /\ UNCHANGED <<sequence, topKVars, mergeVars>>

clearQueue ==
  /\ queued' = <<>> /\ waiting' = {} /\ sequence' = 0
  /\ UNCHANGED <<topKVars, mergeVars>>

(* mergeTopK(): the highest head goes out and its list's next one comes in.  *)
mergeOne ==
  /\ Len(merged) < TopK /\ heads # <<>>
  /\ merged' = Append(merged, heads[1].score)
  /\ LET l == heads[1].list
         rest == pop(heads, higher)
     IN \/ /\ lists[l] # <<>>
           /\ heads' = push(rest, listHead(l, Head(lists[l])), higher)
           /\ lists' = [lists EXCEPT ![l] = Tail(@)]
        \/ lists[l] = <<>> /\ heads' = rest /\ UNCHANGED lists
  /\ UNCHANGED <<given, topKVars, queueVars>>

topKNext == \E s \in HeapScores : offer(s)
priorityNext ==
  \/ \E s \in HeapScores : enqueue(s)
  \/ \E n \in 1..2 : dequeueBatch(n)
  \/ clearQueue
mergeNext == mergeOne

-----------------------------------------------------------------------------
(* What topK() would return now is what sorting everything would have given: *)
(* the best K, best first (with a tie-break exactly those, without one the   *)
(* same scores); mergeTopK() has emitted the highest scores of all lists;    *)
(* and the constructor makes a heap of any array.                            *)
BestOfAll ==
  LET out == Reverse(drainSorted(best, worse))
      before(x, y) == x.score > y.score \/ (x.score = y.score /\ tieBreak /\ x.item < y.item) IN
  /\ Len(out) = IF Len(offered) < TopK THEN Len(offered) ELSE TopK
  /\ \A i \in 1..(Len(out) - 1) : ~before(out[i + 1], out[i])
  /\ \A x \in Range(offered) \ Range(out) : \A y \in Range(out) : ~before(x, y)
  /\ LET rank == SortSeq(given, >=) IN merged = SubSeq(rank, 1, Len(merged))
  /\ drainSorted(heapify(offered, worse), worse) = drainSorted(heapify(Reverse(offered), worse), worse)
       \/ ~tieBreak

(* "A monotonically increasing sequence number breaks ties in insertion      *)
(* order" (binary-heap.ts:139-142): whatever was queued and taken, draining  *)
(* the queue yields exactly what waits, by priority and then by arrival.     *)
FifoWithinPriority ==
  LET out == drainSorted(queued, sooner) IN
  /\ Range(out) = waiting /\ Len(out) = Cardinality(waiting)
  /\ \A i \in 1..(Len(out) - 1) : sooner(out[i], out[i + 1])
==============================================================================
