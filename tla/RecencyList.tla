----------------------------- MODULE RecencyList -----------------------------
(***************************************************************************)
(* What an LRU cache with expiry promises (packages/algorithms/src/        *)
(* lru-cache.ts): a list of entries, most recently used first.  Looking an *)
(* entry up drops it when it has expired, storing one moves it to the      *)
(* front, and what is pushed out is the entry unused for longest.          *)
(***************************************************************************)
EXTENDS Naturals, Sequences

CONSTANTS Keys, Capacity
VARIABLES entries, clock

Stored(k) == \E i \in 1..Len(entries) : entries[i].key = k
place(k) == CHOOSE i \in 1..Len(entries) : entries[i].key = k
Of(k) == entries[place(k)]
without(k) ==
  IF Stored(k) THEN [i \in 1..(Len(entries) - 1) |-> entries[IF i < place(k) THEN i ELSE i + 1]]
  ELSE entries
Dead(e) == e.expiresAt # 0 /\ e.expiresAt <= clock

Use(k) == /\ Stored(k) /\ ~Dead(Of(k)) /\ entries' = <<Of(k)>> \o without(k)
Drop(k) == Stored(k) /\ entries' = without(k)
Store(k, t) ==
  LET longer == <<[key |-> k, expiresAt |-> t]>> \o without(k) IN
  entries' = SubSeq(longer, 1, IF Len(longer) > Capacity THEN Capacity ELSE Len(longer))

(* What is left of the list, in its order.                                   *)
Sweep ==
  LET live == {i \in 1..Len(entries) : ~Dead(entries[i])} IN
  \E kept \in [1..Len(entries') -> live] :
    /\ \A i, j \in 1..Len(entries') : i < j => kept[i] < kept[j]
    /\ \A l \in live : \E i \in 1..Len(entries') : kept[i] = l
    /\ entries' = [i \in 1..Len(entries') |-> entries[kept[i]]]

Empty == entries' = <<>>

Init == entries = <<>> /\ clock = 0
Next ==
  \/ clock' = clock + 1 /\ UNCHANGED entries
  \/ /\ UNCHANGED clock
     /\ \/ \E k \in Keys : Use(k) \/ Drop(k) \/ \E t \in {0} \cup (clock + 1)..(clock + 3) : Store(k, t)
        \/ Sweep \/ Empty
Spec == Init /\ [][Next]_<<entries, clock>>
==============================================================================
