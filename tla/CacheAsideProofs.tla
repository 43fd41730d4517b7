--------------------------- MODULE CacheAsideProofs --------------------------
(***************************************************************************)
(* Safety of the cache for any number of instances, calls and writes, and  *)
(* the list behind its in-process store for any keys and any size.         *)
(***************************************************************************)
EXTENDS CacheAside, LruCache, FiniteSetTheorems, SequenceTheorems, WellFoundedInduction, TLAPS

(* The registry and the running loads name each other: what is registered    *)
(* runs at that instance, and a load that runs is the one registered there.  *)
(* The first half is NotSticky; the second is what makes it inductive, since *)
(* the finally block clears whatever is registered.                          *)
Registered ==
  /\ \A i \in Instances : registered(i) => home[inFlight[i]] = i /\ pc[inFlight[i]] \in loading
  /\ \A c \in Calls : pc[c] \in loading => inFlight[home[c]] = c

(* Without Redis no call is at a step of the shared store, and all that is   *)
(* left of an event is to clear the in-process store.                        *)
InProcessOnly ==
  ~redis => /\ \A c \in Calls : pc[c] \notin {"shared", "promote", "fillShared"}
            /\ \A t \in tasks : t.step = "near"

IInv == TypeOK /\ Registered /\ InProcessOnly /\ InvalidatedIsFresh

USE CacheAssumption DEF CacheAssumption

-----------------------------------------------------------------------------
(* Nothing is cached at first.                                               *)
LEMMA InitOK == Init => IInv
  BY DEF Init, IInv, TypeOK, Registered, registered, InProcessOnly, InvalidatedIsFresh, loading,
         Version, Entry, NoEntry, NoLoad

(* The steps of a call that neither register nor end a load.                 *)
LEMMA CallOK ==
  ASSUME IInv, NEW c \in Calls,
         \/ \E force \in BOOLEAN : getOrSet(c, force)
         \/ getNear(c) \/ getShared(c) \/ promote(c) \/ query(c) \/ fillShared(c) \/ fillNear(c)
  PROVE  IInv'
<1> USE DEF IInv, Goes, Returns, loading
<1>1. TypeOK'
  <2>1. CASE \E force \in BOOLEAN : getOrSet(c, force)
    BY <2>1 DEF getOrSet, TypeOK
  <2>2. CASE getNear(c)
    BY <2>2 DEF getNear, TypeOK, Entry, NoEntry, NoLoad
  <2>3. CASE getShared(c)
    BY <2>3 DEF getShared, TypeOK
  <2>4. CASE promote(c)
    BY <2>4 DEF promote, TypeOK, Entry, NoEntry, NoLoad
  <2>5. CASE query(c)
    BY <2>5 DEF query, TypeOK, Entry
  <2>6. CASE fillShared(c) \/ fillNear(c)
    BY <2>6 DEF fillShared, fillNear, TypeOK
  <2> QED
    BY <2>1, <2>2, <2>3, <2>4, <2>5, <2>6
<1>2. Registered'
  BY DEF Registered, registered, TypeOK, getOrSet, getNear, getShared, promote, query, fillShared,
         fillNear, NoLoad
<1>3. InProcessOnly'
  BY DEF InProcessOnly, TypeOK, getOrSet, getNear, getShared, promote, query, fillShared, fillNear
<1>4. InvalidatedIsFresh'
  BY DEF InProcessOnly, InvalidatedIsFresh, TypeOK, getOrSet, getNear, getShared, promote, query,
         fillShared, fillNear
<1> QED
  BY <1>1, <1>2, <1>3, <1>4

(* A load is joined or registered, and ends with the finally block or by the *)
(* loader's rejection.                                                       *)
LEMMA LoadOK ==
  ASSUME IInv, NEW c \in Calls, join(c) \/ finally(c) \/ queryFails(c)
  PROVE  IInv'
<1> USE DEF IInv, Goes, Returns, loading
<1>1. TypeOK'
  BY DEF join, finally, queryFails, TypeOK, Entry, NoEntry, NoLoad
<1>2. Registered'
  <2>1. CASE join(c)
    BY <2>1 DEF join, Registered, registered, TypeOK, NoLoad
  <2>2. CASE finally(c) \/ queryFails(c)
    <3>1. \A d \in joined(c) \ {c} : pc[d] = "wait"
      BY DEF joined
    <3>2. c \in joined(c) /\ pc[c] \in loading
      BY <2>2 DEF joined, finally, queryFails
    <3>3. \A d \in Calls : pc'[d] \in loading => pc[d] \in loading /\ d # c
      BY <2>2, <3>2 DEF finally, queryFails, TypeOK
    <3>4. \A d \in Calls : pc[d] \in loading /\ d # c => pc'[d] = pc[d] /\ home[d] # home[c]
      BY <2>2, <3>1, <3>2 DEF finally, queryFails, TypeOK, Registered
    <3> QED
      BY <2>2, <3>2, <3>3, <3>4 DEF finally, queryFails, Registered, registered, TypeOK, NoLoad
  <2> QED
    BY <2>1, <2>2
<1>3. InProcessOnly'
  BY DEF InProcessOnly, TypeOK, join, finally, queryFails
<1>4. InvalidatedIsFresh'
  BY DEF InvalidatedIsFresh, join, finally, queryFails
<1> QED
  BY <1>1, <1>2, <1>3, <1>4

(* What a task of an event is.                                               *)
Tasks == [write : Version, at : Instances \cup {Worker}, peer : BOOLEAN,
          step : {"shared", "near", "publish"}]

(* The tasks of an event are of that type.                                   *)
LEMMA TaskType ==
  ASSUME NEW w \in Version, NEW i \in Instances \cup {Worker}, NEW peer \in BOOLEAN,
         NEW step \in {"shared", "near", "publish"}
  PROVE  /\ Task(w, i, peer, step) \in Tasks
         /\ Task(w, i, peer, step).at = i /\ Task(w, i, peer, step).step = step
  BY DEF Task, Tasks

(* A write, and what its event does in each process.                         *)
LEMMA EventOK ==
  ASSUME IInv,
         \/ \E p \in Instances \cup {Worker} : write(p)
         \/ \E t \in tasks : handle(t)
  PROVE  IInv'
<1> USE DEF IInv, call
<1>0. tasks \subseteq Tasks
  BY DEF TypeOK, Tasks
<1>1. ASSUME NEW p \in Instances \cup {Worker}, write(p) PROVE IInv'
  <2>1. db' \in Version
    BY <1>1 DEF write, TypeOK, Version
  <2>2. TypeOK'
    <3>1. tasks' \subseteq Tasks
      <4>1. /\ Task(db', p, FALSE, firstStep) \in Tasks
            /\ Task(db', Worker, FALSE, "publish") \in Tasks
        BY <2>1, TaskType DEF firstStep
      <4> QED
        BY <1>0, <1>1, <4>1 DEF write
    <3> QED
      BY <1>1, <2>1, <3>1 DEF write, TypeOK, Tasks
  <2>3. Registered'
    BY <1>1 DEF write, Registered, registered
  <2>4. InProcessOnly'
    BY <1>1 DEF write, InProcessOnly, Task, firstStep
  <2>5. InvalidatedIsFresh'
    <3> SUFFICES ASSUME ~redis', NEW i \in Instances \ disturbed',
                        \A t \in tasks' : t.at # i
                 PROVE  near'[i] \in {NoEntry, db'}
      BY DEF InvalidatedIsFresh
    <3>1. p = i
      BY <1>1 DEF write
    <3>2. \E t \in tasks' : t.at = i
      <4>1. Task(db', i, FALSE, firstStep).at = i
        BY DEF Task
      <4>2. Task(db', i, FALSE, firstStep) \in tasks'
        BY <1>1, <3>1 DEF write
      <4> QED
        BY <4>1, <4>2
    <3> QED
      BY <3>2
  <2> QED
    BY <2>2, <2>3, <2>4, <2>5
<1>2. ASSUME NEW t \in tasks, deletePatternShared(t) \/ deletePatternNear(t) PROVE IInv'
  <2>1. TypeOK'
    BY <1>2 DEF deletePatternShared, deletePatternNear, afterwards, TypeOK, Entry, NoEntry
  <2>2. Registered'
    BY <1>2 DEF deletePatternShared, deletePatternNear, Registered, registered
  <2>3. InProcessOnly'
    BY <1>2 DEF deletePatternShared, deletePatternNear, afterwards, InProcessOnly
  <2>4. InvalidatedIsFresh'
    BY <1>2 DEF deletePatternShared, deletePatternNear, afterwards, InProcessOnly,
       InvalidatedIsFresh, TypeOK
  <2> QED
    BY <2>1, <2>2, <2>3, <2>4
<1>3. ASSUME NEW t \in tasks, NEW told \in SUBSET Instances, publish(t, told) PROVE IInv'
  <2>1. TypeOK'
    <3>1. tasks' \subseteq Tasks
      <4>1. t.write \in Version
        BY <1>0 DEF Tasks
      <4>2. \A i \in told : Task(t.write, i, TRUE, "shared") \in Tasks
        BY <4>1, TaskType
      <4> QED
        BY <1>0, <1>3, <4>2 DEF publish
    <3> QED
      BY <1>3, <3>1 DEF publish, TypeOK, Tasks
  <2>2. Registered' /\ InProcessOnly' /\ InvalidatedIsFresh'
    BY <1>3 DEF publish, Registered, registered, InProcessOnly, InvalidatedIsFresh
  <2> QED
    BY <2>1, <2>2
<1> QED
  BY <1>1, <1>2, <1>3 DEF handle

(* Every step keeps the invariant.                                           *)
LEMMA NextOK == IInv /\ [Next]_vars => IInv'
<1> SUFFICES ASSUME IInv, [Next]_vars PROVE IInv'
  OBVIOUS
<1>1. ASSUME NEW c \in Calls, advance(c) \/ \E force \in BOOLEAN : getOrSet(c, force)
      PROVE  IInv'
  BY <1>1, CallOK, LoadOK DEF advance
<1>2. CASE \/ \E p \in Instances \cup {Worker} : write(p)
           \/ \E t \in tasks : handle(t)
  BY <1>2, EventOK
<1>3. CASE expireShared \/ (\E i \in Instances : expireNear(i)) \/ UNCHANGED vars
  BY <1>3 DEF expireShared, expireNear, vars, call, IInv, TypeOK, Entry, NoEntry, Registered,
     registered, InProcessOnly, InvalidatedIsFresh
<1> QED
  BY <1>1, <1>2, <1>3 DEF Next

(* So it always holds.                                                       *)
LEMMA Inductive == Spec => []IInv
  BY InitOK, NextOK, PTL DEF Spec

-----------------------------------------------------------------------------
(* However many calls, instances and writes interleave: an instance runs one *)
(* loader for the key at a time, and whatever load is registered is running, *)
(* so a failed one is never joined (cache-service.ts:103-149).               *)
THEOREM CacheIsConsistent == Spec => []CacheConsistent
<1>1. IInv => CacheConsistent
  <2> SUFFICES ASSUME IInv PROVE CacheConsistent
    OBVIOUS
  <2>1. NotSticky
    BY DEF IInv, TypeOK, Registered, registered, NotSticky, loads
  <2>2. ASSUME NEW i \in Instances PROVE Cardinality(loads(i)) =< 1
    <3>1. loads(i) \subseteq {inFlight[i]}
      BY DEF IInv, Registered, loads
    <3>2. IsFiniteSet({inFlight[i]}) /\ Cardinality({inFlight[i]}) = 1
      BY FS_Singleton
    <3>3. Cardinality(loads(i)) =< Cardinality({inFlight[i]})
      BY <3>1, <3>2, FS_Subset
    <3> QED
      BY <3>2, <3>3
  <2> QED
    BY <2>1, <2>2 DEF CacheConsistent, LoadsOnce, IInv
<1> QED
  BY <1>1, Inductive, PTL

(* Without Redis, an instance that has handled the events of its own writes  *)
(* and was told of the others' keeps no outdated entry, unless a load was    *)
(* overtaken (cache-service.ts:158-165).                                     *)
THEOREM InvalidationWorks == Spec => []InvalidatedIsFresh
<1>1. IInv => InvalidatedIsFresh
  BY DEF IInv
<1> QED
  BY <1>1, Inductive, PTL

-----------------------------------------------------------------------------
(* The in-process store: a map and a doubly linked list, as a list in order  *)
(* of use                                                                    *)

HIDE CacheAssumption DEF CacheAssumption

(* A set of naturals has a smallest element.                                 *)
LEMMA SmallestOf ==
  ASSUME NEW T \in SUBSET Nat, T # {}
  PROVE  \E x \in T : \A y \in T : x <= y
<1>1. IsWellFoundedOn(OpToRel(<, Nat), Nat)
  BY NatLessThanWellFounded
<1>2. PICK x \in T : \A y \in T : ~(<<y, x>> \in OpToRel(<, Nat))
  BY <1>1, WFMin
<1>3. \A y \in T : ~(y < x)
  BY <1>2 DEF OpToRel
<1> QED
  BY <1>3

(* What holds of 0 and of the successor of each it holds of, holds of all.   *)
LEMMA InductNat ==
  ASSUME NEW T \in SUBSET Nat, 0 \in T, \A n \in T : n + 1 \in T
  PROVE  T = Nat
<1> SUFFICES ASSUME Nat \ T # {} PROVE FALSE
  OBVIOUS
<1>1. PICK x \in Nat \ T : \A y \in Nat \ T : x <= y
  BY SmallestOf
<1>2. x - 1 \in Nat /\ x - 1 \notin Nat \ T
  BY <1>1
<1>3. x - 1 \in T
  BY <1>2
<1>4. (x - 1) + 1 \in T
  BY <1>3
<1> QED
  BY <1>1, <1>4

(* A set in some order is a sequence of its elements.                        *)
LEMMA OrderIs ==
  ASSUME NEW S, IsFiniteSet(S), NEW s \in SetToSeqs(S)
  PROVE  s \in Seq(S) /\ Len(s) = Cardinality(S) /\ Len(s) \in Nat /\ (S # {} <=> Len(s) > 0)
<1>1. PICK n \in Nat : n = Cardinality(S)
  BY FS_CardinalityType
<1>2. s \in [1..n -> S]
  BY <1>1 DEF SetToSeqs
<1>3. s \in Seq(S) /\ Len(s) = n
  BY <1>2
<1>4. n = 0 <=> S = {}
  BY <1>1, FS_EmptySet
<1> QED
  BY <1>1, <1>3, <1>4

(* It has each once.                                                         *)
LEMMA OrderHolds ==
  ASSUME NEW S, IsFiniteSet(S), NEW s \in SetToSeqs(S)
  PROVE  /\ \A i, j \in 1..Len(s) : i # j => s[i] # s[j]
         /\ \A x \in S : \E i \in 1..Len(s) : s[i] = x
         /\ Range(s) = S
<1>1. PICK n \in Nat : n = Cardinality(S)
  BY FS_CardinalityType
<1>2. s \in [1..n -> S] /\ \A i, j \in 1..n : i # j => s[i] # s[j]
  BY <1>1 DEF SetToSeqs
<1>3. Len(s) = n /\ DOMAIN s = 1..n
  BY <1>2
<1>4. s \in Injection(1..n, S)
  BY <1>2 DEF Injection, IsInjective
<1>5. IsFiniteSet(1..n) /\ Cardinality(1..n) = n
  <2>1. Cardinality(1..n) = (IF 1 > n THEN 0 ELSE n - 1 + 1) /\ IsFiniteSet(1..n)
    BY FS_Interval
  <2> QED
    BY <2>1
<1>6. s \in Surjection(1..n, S)
  BY <1>1, <1>4, <1>5, FS_Injection
<1>7. \A x \in S : \E i \in 1..n : s[i] = x
  BY <1>6 DEF Surjection
<1>8. Range(s) = S
  BY <1>2, <1>3, <1>7 DEF Range
<1> QED
  BY <1>2, <1>3, <1>7, <1>8

Links == [LruKeys -> LruKeys \cup {nil}]
Lists == [head : LruKeys \cup {nil}, tail : LruKeys \cup {nil}, prev : Links, next : Links]
At(n, s, i) == IF i \in 1..n THEN s[i] ELSE nil

(* The pointers of l are those of the n keys s.                              *)
Linked(l, n, s) ==
  /\ n \in Nat /\ s \in [1..n -> LruKeys] /\ \A i, j \in 1..n : s[i] = s[j] => i = j
  /\ l \in Lists /\ l.head = At(n, s, 1) /\ l.tail = At(n, s, n)
  /\ \A i \in 1..n : l.prev[s[i]] = At(n, s, i - 1) /\ l.next[s[i]] = At(n, s, i + 1)

(* Places without the i-th; the keys without it, and with k in front.        *)
Skip(i, j) == IF j < i THEN j ELSE j + 1
Cut(n, s, i) == [j \in 1..(n - 1) |-> s[Skip(i, j)]]
InFront(n, s, k) == [j \in 1..(n + 1) |-> IF j = 1 THEN k ELSE s[j - 1]]

Held(n, s) == {s[i] : i \in 1..n}

(* The cache holds the n keys s, most recently used first.                   *)
LruAt(n, s) ==
  /\ Linked(list, n, s) /\ n <= LruMaxSize
  /\ DOMAIN lruMap = Held(n, s) /\ lruNow \in Nat
LruInv == \E n, s : LruAt(n, s)

(* The c keys t are the n keys s in their order, without those of R.         *)
Thinned(n, s, c, t, R) ==
  /\ \E kept \in [1..c -> 1..n] :
       /\ \A i, j \in 1..c : i < j => kept[i] < kept[j]
       /\ \A i \in 1..c : t[i] = s[kept[i]]
  /\ Held(c, t) = Held(n, s) \ R

(* The list after each of the first top victims is taken out.                *)
Passing(l, victims, top, f) == f = [n \in 0..top |-> IF n = 0 THEN l ELSE removeNode(f[n - 1], victims[n])]

EntriesOf(m, n, s) == [i \in 1..n |-> [key |-> s[i], expiresAt |-> m[s[i]]]]

(* A place of the list other than the i-th is a place without it.            *)
LEMMA SkipCovers ==
  ASSUME NEW n \in Nat, NEW i \in 1..n, NEW l \in 1..n, l # i
  PROVE  \E j \in 1..(n - 1) : l = Skip(i, j)
<1>1. CASE l < i
  <2>1. l \in 1..(n - 1)
    BY <1>1
  <2> QED
    BY <1>1, <2>1 DEF Skip
<1>2. CASE ~(l < i)
  <2>1. l - 1 \in 1..(n - 1) /\ ~(l - 1 < i) /\ l = (l - 1) + 1
    BY <1>2
  <2> QED
    BY <2>1 DEF Skip
<1> QED
  BY <1>1, <1>2

(* A place of the list without its i-th is a place of the list.              *)
LEMMA CutIsCut ==
  ASSUME NEW S, NEW n \in Nat, NEW s \in [1..n -> S], NEW i \in 1..n
  PROVE  /\ n - 1 \in Nat /\ Cut(n, s, i) \in [1..(n - 1) -> S]
         /\ \A j \in 1..(n - 1) : Cut(n, s, i)[j] = s[Skip(i, j)]
         /\ \A j \in 1..(n - 1) : Skip(i, j) \in 1..n /\ Skip(i, j) # i
<1>1. n - 1 \in Nat
  OBVIOUS
<1>2. ASSUME NEW j \in 1..(n - 1) PROVE Skip(i, j) \in 1..n /\ Skip(i, j) # i
  BY DEF Skip
<1>4. \A j \in 1..(n - 1) : Cut(n, s, i)[j] = s[Skip(i, j)]
  BY DEF Cut
<1>5. Cut(n, s, i) \in [1..(n - 1) -> S]
  BY <1>2 DEF Cut
<1> QED
  BY <1>1, <1>2, <1>4, <1>5

(* Where an end of the list is, and a neighbour.                             *)
LEMMA AtIs ==
  ASSUME NEW n \in Nat, NEW s \in [1..n -> LruKeys], NEW i \in Int
  PROVE  /\ At(n, s, i) \in LruKeys \cup {nil}
         /\ At(n, s, i) = nil <=> i \notin 1..n
         /\ i \in 1..n => At(n, s, i) = s[i]
  BY LruAssumption DEF At, LruAssumption

(* removeNode() takes a key out and joins its neighbours.                    *)
LEMMA RemoveIs ==
  ASSUME NEW l, NEW n, NEW s, Linked(l, n, s), NEW i \in 1..n
  PROVE  Linked(removeNode(l, s[i]), n - 1, Cut(n, s, i))
<1> DEFINE k == s[i]
           t == Cut(n, s, i)
           r == removeNode(l, k)
           p == At(n, s, i - 1)
           q == At(n, s, i + 1)
<1>1. /\ n \in Nat /\ s \in [1..n -> LruKeys] /\ \A j, h \in 1..n : s[j] = s[h] => j = h
      /\ l \in Lists /\ l.head = At(n, s, 1) /\ l.tail = At(n, s, n)
      /\ \A j \in 1..n : l.prev[s[j]] = At(n, s, j - 1) /\ l.next[s[j]] = At(n, s, j + 1)
  BY DEF Linked
<1>2. /\ n - 1 \in Nat /\ t \in [1..(n - 1) -> LruKeys]
      /\ \A j \in 1..(n - 1) : t[j] = s[Skip(i, j)]
      /\ \A j \in 1..(n - 1) : Skip(i, j) \in 1..n /\ Skip(i, j) # i
  <2>1. n \in Nat /\ s \in [1..n -> LruKeys]
    BY <1>1
  <2>2. n - 1 \in Nat
    BY <2>1
  <2>3. \A j \in 1..(n - 1) : Cut(n, s, i)[j] = s[Skip(i, j)]
    BY DEF Cut
  <2>4. \A j \in 1..(n - 1) : Skip(i, j) \in 1..n /\ Skip(i, j) # i
    BY <2>1, CutIsCut
  <2>5. Cut(n, s, i) \in [1..(n - 1) -> LruKeys]
    BY <2>1, <2>4 DEF Cut
  <2> QED
    BY <2>2, <2>3, <2>4, <2>5
<1>s. \A j \in 1..(n - 1) : Skip(i, j) = IF j < i THEN j ELSE j + 1
  BY DEF Skip
<1>c. \A j \in 1..(n - 1) : t[j] = s[IF j < i THEN j ELSE j + 1]
  BY <1>2, <1>s
<1>3. /\ k \in LruKeys /\ l.prev[k] = p /\ l.next[k] = q
      /\ p \in LruKeys \cup {nil} /\ q \in LruKeys \cup {nil}
      /\ (p = nil <=> i = 1) /\ (q = nil <=> i = n) /\ nil \notin LruKeys
      /\ (i # 1 => i - 1 \in 1..n /\ p = s[i - 1]) /\ (i # n => i + 1 \in 1..n /\ q = s[i + 1])
  <2>1. i - 1 \in Int /\ i + 1 \in Int /\ (i - 1 \in 1..n <=> i # 1) /\ (i + 1 \in 1..n <=> i # n)
    BY <1>1
  <2>2. nil \notin LruKeys /\ s[i] \in LruKeys
    BY <1>1, LruAssumption DEF LruAssumption
  <2>3. n \in Nat /\ s \in [1..n -> LruKeys]
    BY <1>1
  <2>4. p \in LruKeys \cup {nil} /\ (p = nil <=> i - 1 \notin 1..n) /\ (i - 1 \in 1..n => p = s[i - 1])
    BY <2>1, <2>3, AtIs
  <2>5. q \in LruKeys \cup {nil} /\ (q = nil <=> i + 1 \notin 1..n) /\ (i + 1 \in 1..n => q = s[i + 1])
    BY <2>1, <2>3, AtIs
  <2>6. l.prev[k] = p /\ l.next[k] = q
    BY <1>1
  <2> HIDE DEF p, q
  <2> QED
    BY <2>1, <2>2, <2>4, <2>5, <2>6
<1>4. /\ r.head = (IF p = nil THEN q ELSE l.head) /\ r.tail = (IF q = nil THEN p ELSE l.tail)
      /\ r.prev = [x \in LruKeys |-> IF x = k THEN nil ELSE IF x = q THEN p ELSE l.prev[x]]
      /\ r.next = [x \in LruKeys |-> IF x = k THEN nil ELSE IF x = p THEN q ELSE l.next[x]]
  BY <1>3 DEF removeNode
<1>5. r \in Lists
  <2>1. l.head \in LruKeys \cup {nil} /\ l.tail \in LruKeys \cup {nil} /\ l.prev \in Links /\ l.next \in Links
    BY <1>1 DEF Lists
  <2>2. [x \in LruKeys |-> IF x = k THEN nil ELSE IF x = q THEN p ELSE l.prev[x]] \in Links
    BY <1>3, <2>1 DEF Links
  <2>3. [x \in LruKeys |-> IF x = k THEN nil ELSE IF x = p THEN q ELSE l.next[x]] \in Links
    BY <1>3, <2>1 DEF Links
  <2>4. r = [head |-> r.head, tail |-> r.tail, prev |-> r.prev, next |-> r.next]
    BY DEF removeNode
  <2> HIDE DEF r
  <2>5. r.head \in LruKeys \cup {nil} /\ r.tail \in LruKeys \cup {nil} /\ r.prev \in Links /\ r.next \in Links
    BY <1>3, <1>4, <2>1, <2>2, <2>3
  <2> QED
    BY <2>4, <2>5 DEF Lists
<1> HIDE DEF k, t, r, p, q
<1>6. \A j, h \in 1..(n - 1) : t[j] = t[h] => j = h
  <2>1. \A j, h \in 1..(n - 1) : Skip(i, j) = Skip(i, h) => j = h
    BY <1>1 DEF Skip
  <2>2. \A j, h \in 1..(n - 1) : s[Skip(i, j)] = s[Skip(i, h)] => Skip(i, j) = Skip(i, h)
    BY <1>1, <1>2
  <2> QED
    BY <1>2, <2>1, <2>2
<1>7. r.head = At(n - 1, t, 1)
  <2>1. CASE i = 1
    <3>1. CASE n = 1
      BY <1>3, <1>4, <2>1, <3>1 DEF At
    <3>2. CASE n # 1
      BY <1>1, <1>2, <1>c, <1>3, <1>4, <2>1, <3>2 DEF At
    <3> QED
      BY <3>1, <3>2
  <2>2. CASE i # 1
    <3>1. 1 \in 1..(n - 1) /\ 1 < i /\ 1 \in 1..n
      BY <1>1, <2>2
    <3> QED
      BY <1>1, <1>2, <1>c, <1>3, <1>4, <2>2, <3>1 DEF At
  <2> QED
    BY <2>1, <2>2
<1>8. r.tail = At(n - 1, t, n - 1)
  <2>1. CASE i = n
    <3>1. CASE n = 1
      BY <1>3, <1>4, <2>1, <3>1 DEF At
    <3>2. CASE n # 1
      <4>1. n - 1 \in 1..(n - 1) /\ n - 1 < i
        BY <1>1, <2>1, <3>2
      <4> QED
        BY <1>1, <1>2, <1>c, <1>3, <1>4, <2>1, <3>2, <4>1 DEF At
    <3> QED
      BY <3>1, <3>2
  <2>2. CASE i # n
    <3>1. n - 1 \in 1..(n - 1) /\ ~(n - 1 < i) /\ (n - 1) + 1 = n /\ n \in 1..n
      BY <1>1, <2>2
    <3> QED
      BY <1>1, <1>2, <1>c, <1>3, <1>4, <2>2, <3>1 DEF At
  <2> QED
    BY <2>1, <2>2
<1>9. ASSUME NEW j \in 1..(n - 1) PROVE r.prev[t[j]] = At(n - 1, t, j - 1)
  <2>1. CASE j < i
    <3>1. t[j] = s[j] /\ j \in 1..n /\ s[j] # k /\ s[j] \in LruKeys /\ s[j] # q
      BY <1>1, <1>c, <1>3, <2>1 DEF k
    <3>2. r.prev[t[j]] = At(n, s, j - 1)
      BY <1>1, <1>4, <3>1
    <3>3. CASE j = 1
      BY <3>2, <3>3 DEF At
    <3>4. CASE j # 1
      <4>1. j - 1 \in 1..(n - 1) /\ j - 1 < i /\ j - 1 \in 1..n
        BY <1>1, <2>1, <3>4
      <4> QED
        BY <1>2, <1>c, <3>2, <4>1 DEF At
    <3> QED
      BY <3>3, <3>4
  <2>2. CASE ~(j < i)
    <3>1. t[j] = s[j + 1] /\ j + 1 \in 1..n /\ s[j + 1] # k /\ s[j + 1] \in LruKeys /\ (s[j + 1] = q <=> j = i)
      BY <1>1, <1>c, <1>3, <2>2 DEF k
    <3>2. CASE j = i
      <4>1. r.prev[t[j]] = p
        BY <1>4, <3>1, <3>2
      <4>2. CASE j = 1
        BY <1>3, <3>2, <4>1, <4>2 DEF At
      <4>3. CASE j # 1
        <5>1. j - 1 \in 1..(n - 1) /\ j - 1 < i
          BY <1>1, <3>2, <4>3
        <5> QED
          BY <1>2, <1>c, <1>3, <3>2, <4>1, <4>3, <5>1 DEF At
      <4> QED
        BY <4>2, <4>3
    <3>3. CASE j # i
      <4>1. j - 1 \in 1..(n - 1) /\ ~(j - 1 < i) /\ (j - 1) + 1 = j /\ (j + 1) - 1 = j /\ j \in 1..n
        BY <1>1, <2>2, <3>3
      <4>2. r.prev[t[j]] = At(n, s, j)
        BY <1>1, <1>4, <3>1, <3>3, <4>1
      <4> QED
        BY <1>2, <1>c, <4>1, <4>2 DEF At
    <3> QED
      BY <3>2, <3>3
  <2> QED
    BY <2>1, <2>2
<1>10. ASSUME NEW j \in 1..(n - 1) PROVE r.next[t[j]] = At(n - 1, t, j + 1)
  <2>1. CASE j < i
    <3>0. i # 1 /\ j \in 1..n /\ i - 1 \in 1..n /\ p = s[i - 1] /\ (j = i - 1 <=> j + 1 = i)
      BY <1>1, <1>3, <2>1
    <3>1. t[j] = s[j] /\ j \in 1..n /\ s[j] # k /\ s[j] \in LruKeys /\ (s[j] = p <=> j + 1 = i)
      BY <1>1, <1>c, <2>1, <3>0 DEF k
    <3>2. CASE j + 1 = i
      <4>1. r.next[t[j]] = q
        BY <1>4, <3>1, <3>2
      <4>2. CASE i = n
        <5>1. j + 1 \notin 1..(n - 1)
          BY <1>1, <3>2, <4>2
        <5> QED
          BY <1>3, <4>1, <4>2, <5>1 DEF At
      <4>3. CASE i # n
        <5>1. j + 1 \in 1..(n - 1) /\ ~(j + 1 < i)
          BY <1>1, <3>2, <4>3
        <5> QED
          BY <1>2, <1>c, <1>3, <3>2, <4>1, <4>3, <5>1 DEF At
      <4> QED
        BY <4>2, <4>3
    <3>3. CASE j + 1 # i
      <4>1. j + 1 \in 1..(n - 1) /\ j + 1 < i /\ j + 1 \in 1..n
        BY <1>1, <2>1, <3>3
      <4>2. r.next[t[j]] = At(n, s, j + 1)
        BY <1>1, <1>4, <3>1, <3>3
      <4> QED
        BY <1>2, <1>c, <4>1, <4>2 DEF At
    <3> QED
      BY <3>2, <3>3
  <2>2. CASE ~(j < i)
    <3>1. t[j] = s[j + 1] /\ j + 1 \in 1..n /\ s[j + 1] # k /\ s[j + 1] \in LruKeys /\ s[j + 1] # p
      <4>1. j + 1 \in 1..n /\ j + 1 # i /\ j + 1 # i - 1
        BY <1>1, <2>2
      <4>2. s[j + 1] \in LruKeys /\ s[j + 1] # k
        BY <1>1, <4>1 DEF k
      <4>3. s[j + 1] # p
        BY <1>1, <1>3, <4>1, <4>2
      <4> QED
        BY <1>c, <2>2, <4>1, <4>2, <4>3
    <3>2. r.next[t[j]] = At(n, s, (j + 1) + 1)
      BY <1>1, <1>4, <3>1
    <3>3. CASE j = n - 1
      <4>1. (j + 1) + 1 \notin 1..n /\ j + 1 \notin 1..(n - 1)
        BY <1>1, <3>3
      <4> QED
        BY <3>2, <4>1 DEF At
    <3>4. CASE j # n - 1
      <4>0. n \in Nat
        BY <1>1
      <4>1. j + 1 \in 1..(n - 1) /\ ~(j + 1 < i) /\ (j + 1) + 1 \in 1..n
        BY <2>2, <3>4, <4>0
      <4> QED
        BY <1>2, <1>c, <3>2, <4>1 DEF At
    <3> QED
      BY <3>3, <3>4
  <2> QED
    BY <2>1, <2>2
<1>11. Linked(r, n - 1, t)
  BY <1>2, <1>c, <1>5, <1>6, <1>7, <1>8, <1>9, <1>10 DEF Linked
<1> QED
  BY <1>11 DEF r, t, k

(* The keys with one more in front.                                          *)
LEMMA FrontIs ==
  ASSUME NEW n \in Nat, NEW s \in [1..n -> LruKeys], NEW k \in LruKeys
  PROVE  /\ InFront(n, s, k) \in [1..(n + 1) -> LruKeys] /\ InFront(n, s, k)[1] = k
         /\ \A j \in 2..(n + 1) : j - 1 \in 1..n /\ InFront(n, s, k)[j] = s[j - 1]
<1>1. ASSUME NEW j \in 1..(n + 1) PROVE (IF j = 1 THEN k ELSE s[j - 1]) \in LruKeys
  <2>1. j # 1 => j - 1 \in 1..n
    OBVIOUS
  <2> QED
    BY <2>1
<1>2. InFront(n, s, k) \in [1..(n + 1) -> LruKeys] /\ InFront(n, s, k)[1] = k
  BY <1>1 DEF InFront
<1>3. ASSUME NEW j \in 2..(n + 1) PROVE j - 1 \in 1..n /\ InFront(n, s, k)[j] = s[j - 1]
  <2>1. j \in 1..(n + 1) /\ j # 1 /\ j - 1 \in 1..n
    OBVIOUS
  <2> QED
    BY <2>1 DEF InFront
<1> QED
  BY <1>2, <1>3

(* addToFront() puts a key that is not in the list in front of it.           *)
LEMMA AddIs ==
  ASSUME NEW l, NEW n, NEW s, Linked(l, n, s), NEW k \in LruKeys, \A i \in 1..n : s[i] # k
  PROVE  Linked(addToFront(l, k), n + 1, InFront(n, s, k))
<1> DEFINE t == InFront(n, s, k)
           r == addToFront(l, k)
<1>1. /\ n \in Nat /\ s \in [1..n -> LruKeys] /\ \A j, h \in 1..n : s[j] = s[h] => j = h
      /\ l \in Lists /\ l.head = At(n, s, 1) /\ l.tail = At(n, s, n) /\ nil \notin LruKeys
      /\ \A j \in 1..n : l.prev[s[j]] = At(n, s, j - 1) /\ l.next[s[j]] = At(n, s, j + 1)
  BY LruAssumption DEF Linked, LruAssumption
<1>2. /\ n + 1 \in Nat /\ t \in [1..(n + 1) -> LruKeys] /\ t[1] = k
      /\ \A j \in 2..(n + 1) : j - 1 \in 1..n /\ t[j] = s[j - 1]
  <2>1. n \in Nat /\ s \in [1..n -> LruKeys]
    BY <1>1
  <2>2. t \in [1..(n + 1) -> LruKeys] /\ t[1] = k
    BY <2>1, FrontIs
  <2>3. \A j \in 2..(n + 1) : j - 1 \in 1..n /\ t[j] = s[j - 1]
    BY <2>1, FrontIs
  <2> QED
    BY <2>1, <2>2, <2>3
<1>3. /\ r.head = k /\ r.tail = (IF l.tail = nil THEN k ELSE l.tail)
      /\ r.prev = [x \in LruKeys |-> IF x = k THEN nil ELSE IF x = l.head THEN k ELSE l.prev[x]]
      /\ r.next = [l.next EXCEPT ![k] = l.head]
  BY DEF addToFront
<1>4. r \in Lists
  <2>1. l.head \in LruKeys \cup {nil} /\ l.tail \in LruKeys \cup {nil} /\ l.prev \in Links /\ l.next \in Links
    BY <1>1 DEF Lists
  <2>2. [x \in LruKeys |-> IF x = k THEN nil ELSE IF x = l.head THEN k ELSE l.prev[x]] \in Links
    BY <2>1 DEF Links
  <2>3. [l.next EXCEPT ![k] = l.head] \in Links
    BY <2>1 DEF Links
  <2>4. r = [head |-> r.head, tail |-> r.tail, prev |-> r.prev, next |-> r.next]
    BY DEF addToFront
  <2> HIDE DEF r
  <2>5. r.head \in LruKeys \cup {nil} /\ r.tail \in LruKeys \cup {nil} /\ r.prev \in Links /\ r.next \in Links
    BY <1>3, <2>1, <2>2, <2>3
  <2> QED
    BY <2>4, <2>5 DEF Lists
<1>5. \A x \in LruKeys : x # k => r.next[x] = l.next[x]
  <2>1. l.next \in [LruKeys -> LruKeys \cup {nil}]
    BY <1>1 DEF Lists, Links
  <2> HIDE DEF r
  <2> QED
    BY <1>3, <2>1
<1>6. r.next[k] = l.head
  <2>1. l.next \in [LruKeys -> LruKeys \cup {nil}]
    BY <1>1 DEF Lists, Links
  <2> HIDE DEF r
  <2> QED
    BY <1>3, <2>1
<1> HIDE DEF t, r
<1>7. \A j, h \in 1..(n + 1) : t[j] = t[h] => j = h
  <2>1. ASSUME NEW j \in 1..(n + 1), NEW h \in 1..(n + 1), t[j] = t[h] PROVE j = h
    <3>1. CASE j = 1 /\ h # 1
      <4>1. h \in 2..(n + 1)
        BY <3>1
      <4> QED
        BY <1>2, <2>1, <3>1, <4>1
    <3>2. CASE j # 1 /\ h = 1
      <4>1. j \in 2..(n + 1)
        BY <3>2
      <4> QED
        BY <1>2, <2>1, <3>2, <4>1
    <3>3. CASE j # 1 /\ h # 1
      <4>1. j \in 2..(n + 1) /\ h \in 2..(n + 1)
        BY <3>3
      <4>2. s[j - 1] = s[h - 1] /\ j - 1 \in 1..n /\ h - 1 \in 1..n
        BY <1>2, <2>1, <4>1
      <4>3. j - 1 = h - 1
        BY <1>1, <4>2
      <4> QED
        BY <4>1, <4>3
    <3> QED
      BY <3>1, <3>2, <3>3
  <2> QED
    BY <2>1
<1>8. r.head = At(n + 1, t, 1)
  BY <1>1, <1>2, <1>3 DEF At
<1>9. r.tail = At(n + 1, t, n + 1)
  <2>1. CASE n = 0
    BY <1>1, <1>2, <1>3, <2>1 DEF At
  <2>2. CASE n # 0
    <3>1. n \in 1..n /\ n + 1 \in 2..(n + 1) /\ (n + 1) - 1 = n
      BY <1>1, <2>2
    <3>2. t[n + 1] = s[n] /\ s[n] \in LruKeys /\ n + 1 \in 1..(n + 1)
      BY <1>1, <1>2, <3>1
    <3>3. l.tail = s[n]
      BY <1>1, <3>1 DEF At
    <3> QED
      BY <1>1, <1>3, <3>2, <3>3 DEF At
  <2> QED
    BY <2>1, <2>2
<1>10. ASSUME NEW j \in 1..(n + 1) PROVE r.prev[t[j]] = At(n + 1, t, j - 1) /\ r.next[t[j]] = At(n + 1, t, j + 1)
  <2>1. CASE j = 1
    <3>1. r.prev[t[j]] = nil /\ At(n + 1, t, j - 1) = nil
      BY <1>2, <1>3, <2>1 DEF At
    <3>2. r.next[t[j]] = l.head
      BY <1>2, <1>6, <2>1
    <3>3. CASE n = 0
      BY <1>1, <2>1, <3>1, <3>2, <3>3 DEF At
    <3>4. CASE n # 0
      <4>1. 2 \in 2..(n + 1) /\ 2 - 1 = 1 /\ 1 \in 1..n /\ 2 \in 1..(n + 1) /\ j + 1 = 2
        BY <1>1, <2>1, <3>4
      <4>2. t[2] = s[1]
        BY <1>2, <4>1
      <4> QED
        BY <1>1, <3>1, <3>2, <4>1, <4>2 DEF At
    <3> QED
      BY <3>3, <3>4
  <2>2. CASE j # 1
    <3>1. j \in 2..(n + 1) /\ j - 1 \in 1..n /\ j - 1 \in 1..(n + 1) /\ (j - 1) + 1 = j
      BY <1>1, <2>2
    <3>2. t[j] = s[j - 1] /\ s[j - 1] \in LruKeys /\ s[j - 1] # k
      BY <1>1, <1>2, <3>1
    <3>3. r.next[t[j]] = At(n, s, j)
      BY <1>1, <1>5, <3>1, <3>2
    <3>4. At(n, s, j) = At(n + 1, t, j + 1)
      <4>1. CASE j \in 1..n
        <5>1. j + 1 \in 2..(n + 1) /\ j + 1 \in 1..(n + 1) /\ (j + 1) - 1 = j
          BY <1>1, <4>1
        <5> QED
          BY <1>2, <4>1, <5>1 DEF At
      <4>2. CASE j \notin 1..n
        <5>1. j + 1 \notin 1..(n + 1)
          BY <1>1, <4>2
        <5> QED
          BY <4>2, <5>1 DEF At
      <4> QED
        BY <4>1, <4>2
    <3>5. CASE j = 2
      <4>1. s[j - 1] = l.head /\ At(n + 1, t, j - 1) = k
        BY <1>1, <1>2, <3>1, <3>5 DEF At
      <4>2. r.prev[t[j]] = k
        BY <1>3, <3>2, <4>1
      <4> QED
        BY <3>3, <3>4, <4>1, <4>2
    <3>6. CASE j # 2
      <4>1. j - 1 \in 2..(n + 1) /\ 1 \in 1..n /\ j - 1 # 1 /\ (j - 1) - 1 \in 1..n
        BY <1>1, <3>1, <3>6
      <4>2. s[j - 1] # l.head
        BY <1>1, <3>1, <4>1 DEF At
      <4>3. r.prev[t[j]] = At(n, s, (j - 1) - 1)
        BY <1>1, <1>3, <3>1, <3>2, <4>2
      <4>4. At(n, s, (j - 1) - 1) = At(n + 1, t, j - 1)
        BY <1>2, <3>1, <4>1 DEF At
      <4> QED
        BY <3>3, <3>4, <4>3, <4>4
    <3> QED
      BY <3>5, <3>6
  <2> QED
    BY <2>1, <2>2
<1>11. Linked(r, n + 1, t)
  BY <1>2, <1>4, <1>7, <1>8, <1>9, <1>10 DEF Linked
<1> QED
  BY <1>11 DEF r, t

(* A node's own link, before it is in the list, does not matter.             *)
LEMMA FreshIs ==
  ASSUME NEW l, NEW n, NEW s, Linked(l, n, s), NEW k \in LruKeys, \A i \in 1..n : s[i] # k
  PROVE  Linked([l EXCEPT !.prev[k] = nil], n, s)
<1> DEFINE r == [l EXCEPT !.prev[k] = nil]
<1>1. l \in Lists
  BY DEF Linked
<1>2. /\ r.head = l.head /\ r.tail = l.tail /\ r.next = l.next /\ r \in Lists
      /\ r.prev = [l.prev EXCEPT ![k] = nil]
  <2>1. [l.prev EXCEPT ![k] = nil] \in Links
    BY <1>1 DEF Lists, Links
  <2> QED
    BY <1>1, <2>1 DEF Lists
<1> HIDE DEF r
<1>3. \A x \in LruKeys : x # k => r.prev[x] = l.prev[x]
  BY <1>1, <1>2 DEF Lists, Links
<1>4. \A i \in 1..n : s[i] \in LruKeys
  BY DEF Linked
<1>5. Linked(r, n, s)
  BY <1>2, <1>3, <1>4 DEF Linked
<1> QED
  BY <1>5 DEF r

(* moveToFront() moves a key to the front.                                   *)
LEMMA MoveIs ==
  ASSUME NEW l, NEW n, NEW s, Linked(l, n, s), NEW i \in 1..n
  PROVE  Linked(moveToFront(l, s[i]), n, InFront(n - 1, Cut(n, s, i), s[i]))
<1> DEFINE t == Cut(n, s, i)
           u == InFront(n - 1, t, s[i])
<1>1. /\ n \in Nat /\ s \in [1..n -> LruKeys] /\ \A j, h \in 1..n : s[j] = s[h] => j = h
      /\ l.head = At(n, s, 1)
  BY DEF Linked
<1>2. /\ n - 1 \in Nat /\ t \in [1..(n - 1) -> LruKeys] /\ (n - 1) + 1 = n
      /\ \A j \in 1..(n - 1) : t[j] = s[Skip(i, j)] /\ Skip(i, j) \in 1..n /\ Skip(i, j) # i
  <2>1. \A j \in 1..(n - 1) : Skip(i, j) \in 1..n /\ Skip(i, j) # i
    BY <1>1 DEF Skip
  <2> QED
    BY <1>1, <2>1 DEF Cut
<1>3. s[i] \in LruKeys
  BY <1>1
<1> HIDE DEF t
<1>4. CASE l.head = s[i]
  <2>1. i = 1
    <3>1. 1 \in 1..n
      BY <1>1
    <3> QED
      BY <1>1, <1>4, <3>1 DEF At
  <2>2. u \in [1..n -> LruKeys] /\ u[1] = s[1] /\ \A j \in 2..n : j - 1 \in 1..(n - 1) /\ u[j] = t[j - 1]
    <3>1. /\ u \in [1..((n - 1) + 1) -> LruKeys] /\ u[1] = s[i]
          /\ \A j \in 2..((n - 1) + 1) : j - 1 \in 1..(n - 1) /\ u[j] = t[j - 1]
      <4> HIDE DEF u
      <4> QED
        BY <1>2, <1>3, FrontIs DEF u
    <3> QED
      BY <1>2, <2>1, <3>1
  <2> HIDE DEF u
  <2>3. ASSUME NEW j \in 1..n PROVE u[j] = s[j]
    <3>1. CASE j = 1
      BY <2>2, <3>1
    <3>2. CASE j # 1
      <4>1. j \in 2..n /\ ~(j - 1 < 1) /\ (j - 1) + 1 = j
        BY <1>1, <3>2
      <4>2. j - 1 \in 1..(n - 1) /\ u[j] = t[j - 1]
        BY <2>2, <4>1
      <4>3. t[j - 1] = s[Skip(1, j - 1)]
        BY <1>2, <2>1, <4>2
      <4> QED
        BY <4>1, <4>2, <4>3 DEF Skip
    <3> QED
      BY <3>1, <3>2
  <2>4. u = s
    BY <1>1, <2>2, <2>3
  <2> QED
    BY <1>4, <2>4 DEF moveToFront, u, t
<1>5. CASE l.head # s[i]
  <2>1. Linked(removeNode(l, s[i]), n - 1, t)
    BY RemoveIs DEF t
  <2>2. \A j \in 1..(n - 1) : t[j] # s[i]
    BY <1>1, <1>2
  <2>3. Linked(addToFront(removeNode(l, s[i]), s[i]), (n - 1) + 1, u)
    BY <1>3, <2>1, <2>2, AddIs
  <2> QED
    BY <1>2, <1>5, <2>3 DEF moveToFront, t
<1> QED
  BY <1>4, <1>5

(* There are as many keys as places.                                         *)
LEMMA KeysCounted ==
  ASSUME NEW n \in Nat, NEW s \in [1..n -> LruKeys], \A i, j \in 1..n : s[i] = s[j] => i = j
  PROVE  IsFiniteSet(Held(n, s)) /\ Cardinality(Held(n, s)) = n
<1> DEFINE D == Held(n, s)
<1>1. s \in Bijection(1..n, D)
  BY DEF Bijection, Injection, Surjection, IsInjective, Held
<1>2. IsFiniteSet(1..n) /\ Cardinality(1..n) = n
  <2>1. Cardinality(1..n) = (IF 1 > n THEN 0 ELSE n - 1 + 1) /\ IsFiniteSet(1..n)
    BY FS_Interval
  <2> QED
    BY <2>1
<1> HIDE DEF D
<1>3. IsFiniteSet(D) /\ Cardinality(D) = Cardinality(1..n)
  <2>1. ExistsBijection(1..n, D)
    BY <1>1 DEF ExistsBijection
  <2> QED
    BY <1>2, <2>1, FS_Bijection
<1> QED
  BY <1>2, <1>3 DEF D

(* From its head the list is the n keys, and then nil.                       *)
LEMMA VisitIs ==
  ASSUME NEW n, NEW s, Linked(list, n, s)
  PROVE  \A m \in 0..LruMaxSize : visited[m] = At(n, s, m + 1)
<1> DEFINE w == [m \in 0..LruMaxSize |-> At(n, s, m + 1)]
<1>0. LruMaxSize \in Nat
  BY LruAssumption DEF LruAssumption
<1>1. /\ n \in Nat /\ s \in [1..n -> LruKeys] /\ lruHead = At(n, s, 1) /\ nil \notin LruKeys
      /\ \A j \in 1..n : lruNext[s[j]] = At(n, s, j + 1)
  BY LruAssumption DEF Linked, list, LruAssumption
<1>2. ASSUME NEW m \in 0..LruMaxSize, m # 0
      PROVE  At(n, s, m + 1) = IF At(n, s, m) = nil THEN nil ELSE lruNext[At(n, s, m)]
  <2>1. CASE m \in 1..n
    BY <1>1, <2>1 DEF At
  <2>2. CASE m \notin 1..n
    <3>1. m + 1 \notin 1..n
      BY <1>1, <1>2, <2>2
    <3> QED
      BY <2>2, <3>1 DEF At
  <2> QED
    BY <2>1, <2>2
<1>3. \E f : f = [m \in 0..LruMaxSize |->
                   IF m = 0 THEN lruHead ELSE IF f[m - 1] = nil THEN nil ELSE lruNext[f[m - 1]]]
  <2>1. ASSUME NEW m \in 0..LruMaxSize
        PROVE  w[m] = IF m = 0 THEN lruHead ELSE IF w[m - 1] = nil THEN nil ELSE lruNext[w[m - 1]]
    <3>1. CASE m = 0
      BY <1>1, <2>1, <3>1
    <3>2. CASE m # 0
      <4>1. m - 1 \in 0..LruMaxSize /\ (m - 1) + 1 = m
        BY <1>0, <2>1, <3>2
      <4>2. w[m - 1] = At(n, s, m)
        BY <4>1
      <4>3. w[m] = At(n, s, m + 1)
        BY <2>1
      <4> HIDE DEF w
      <4> QED
        BY <1>2, <3>2, <4>2, <4>3
    <3> QED
      BY <3>1, <3>2
  <2>2. w = [m \in 0..LruMaxSize |-> w[m]]
    OBVIOUS
  <2> HIDE DEF w
  <2>3. w = [m \in 0..LruMaxSize |->
               IF m = 0 THEN lruHead ELSE IF w[m - 1] = nil THEN nil ELSE lruNext[w[m - 1]]]
    BY <2>1, <2>2
  <2> QED
    BY <2>3
<1>4. visited = [m \in 0..LruMaxSize |->
                   IF m = 0 THEN lruHead ELSE IF visited[m - 1] = nil THEN nil ELSE lruNext[visited[m - 1]]]
  BY <1>3, Zenon DEF visited
<1>5. \A m \in 0..LruMaxSize :
        visited[m] = IF m = 0 THEN lruHead ELSE IF visited[m - 1] = nil THEN nil ELSE lruNext[visited[m - 1]]
  BY <1>4
<1> DEFINE T == {m \in Nat : m <= LruMaxSize => visited[m] = At(n, s, m + 1)}
<1> HIDE DEF visited
<1>6. 0 \in T
  BY <1>0, <1>1, <1>5
<1>7. ASSUME NEW m \in T PROVE m + 1 \in T
  <2>1. m \in Nat /\ (m <= LruMaxSize => visited[m] = At(n, s, m + 1))
    BY <1>7
  <2>2. ASSUME m + 1 <= LruMaxSize PROVE visited[m + 1] = At(n, s, (m + 1) + 1)
    <3>1. m + 1 \in 0..LruMaxSize /\ m + 1 # 0 /\ (m + 1) - 1 = m /\ m <= LruMaxSize
      BY <1>0, <2>1, <2>2
    <3>2. visited[m + 1] = IF visited[m] = nil THEN nil ELSE lruNext[visited[m]]
      BY <1>5, <3>1
    <3>3. At(n, s, (m + 1) + 1) = IF At(n, s, m + 1) = nil THEN nil ELSE lruNext[At(n, s, m + 1)]
      BY <1>2, <3>1
    <3> QED
      BY <2>1, <3>1, <3>2, <3>3
  <2> QED
    BY <2>1, <2>2
<1>8. T = Nat
  <2>1. T \in SUBSET Nat
    OBVIOUS
  <2> HIDE DEF T
  <2> QED
    BY <1>6, <1>7, <2>1, InductNat
<1> QED
  BY <1>0, <1>8

(* keys() returns the keys, and the entries are what the map says of them.   *)
LEMMA EntriesAre == \A n, s : LruAt(n, s) => lruEntries = EntriesOf(lruMap, n, s)
<1> SUFFICES ASSUME NEW n, NEW s, LruAt(n, s) PROVE lruEntries = EntriesOf(lruMap, n, s)
  OBVIOUS
<1>0. LruMaxSize \in Nat /\ nil \notin LruKeys
  BY LruAssumption DEF LruAssumption
<1>1. /\ n \in Nat /\ s \in [1..n -> LruKeys] /\ n <= LruMaxSize
      /\ \A i \in 1..n : s[i] \in DOMAIN lruMap
  BY DEF LruAt, Linked, Held
<1>2. \A m \in 0..LruMaxSize : visited[m] = At(n, s, m + 1)
  BY VisitIs DEF LruAt
<1> HIDE DEF visited
<1>3. {m \in 0..LruMaxSize : visited[m] # nil} = 0..(n - 1)
  <2>1. ASSUME NEW m \in 0..LruMaxSize PROVE visited[m] # nil <=> m \in 0..(n - 1)
    <3>1. m + 1 \in 1..n <=> m \in 0..(n - 1)
      BY <1>1
    <3> QED
      BY <1>0, <1>1, <1>2, <3>1 DEF At
  <2>2. \A m \in 0..(n - 1) : m \in 0..LruMaxSize
    BY <1>0, <1>1
  <2> QED
    BY <2>1, <2>2
<1>4. Cardinality(0..(n - 1)) = n
  <2>1. 0 \in Int /\ n - 1 \in Int
    BY <1>1
  <2>2. Cardinality(0..(n - 1)) = IF 0 > n - 1 THEN 0 ELSE (n - 1) - 0 + 1
    BY <2>1, FS_Interval
  <2> QED
    BY <1>1, <2>2
<1>5. keys = [i \in 1..n |-> visited[i - 1]]
  BY <1>3, <1>4 DEF keys
<1>6. ASSUME NEW i \in 1..n PROVE visited[i - 1] = s[i]
  <2>1. i - 1 \in 0..LruMaxSize /\ (i - 1) + 1 = i
    BY <1>0, <1>1
  <2> QED
    BY <1>2, <2>1 DEF At
<1>7. Len(keys) = n /\ \A i \in 1..n : keys[i] = s[i]
  <2>1. DOMAIN keys = 1..n
    BY <1>5
  <2>2. keys \in [1..n -> LruKeys]
    BY <1>1, <1>5, <1>6
  <2>3. keys \in Seq(LruKeys)
    BY <1>1, <2>2
  <2> QED
    BY <1>1, <1>5, <1>6, <2>1, <2>3
<1> HIDE DEF keys
<1>8. lruEntries = [i \in 1..n |-> [key |-> keys[i], expiresAt |-> IF keys[i] \in DOMAIN lruMap THEN lruMap[keys[i]] ELSE -1]]
  BY <1>7 DEF lruEntries
<1> QED
  BY <1>1, <1>7, <1>8 DEF EntriesOf

LEMMA EntriesNext == \A n, s : LruAt(n, s)' => lruEntries' = EntriesOf(lruMap', n, s)
<1>1. (\A n, s : LruAt(n, s) => lruEntries = EntriesOf(lruMap, n, s))'
  BY EntriesAre, PTL
<1> QED
  BY <1>1 DEF EntriesOf

(* Where a stored key is, and what the list is without it.                   *)
LEMMA StoredIs ==
  ASSUME NEW n, NEW s, LruAt(n, s), NEW i \in 1..n
  PROVE  /\ Recency!Stored(s[i])
         /\ Recency!Of(s[i]) = [key |-> s[i], expiresAt |-> lruMap[s[i]]]
         /\ Recency!without(s[i]) = EntriesOf(lruMap, n - 1, Cut(n, s, i))
         /\ (Recency!Dead(Recency!Of(s[i])) <=> isExpired(s[i]))
<1>1. /\ n \in Nat /\ s \in [1..n -> LruKeys] /\ \A j, h \in 1..n : s[j] = s[h] => j = h
  BY DEF LruAt, Linked
<1>2. lruEntries = EntriesOf(lruMap, n, s)
  BY EntriesAre
<1>3. Len(lruEntries) = n
  <2>1. EntriesOf(lruMap, n, s) = [j \in 1..n |-> EntriesOf(lruMap, n, s)[j]]
    BY DEF EntriesOf
  <2> QED
    BY <1>1, <1>2, <2>1 DEF EntriesOf
<1>4. \A j \in 1..n : lruEntries[j] = [key |-> s[j], expiresAt |-> lruMap[s[j]]]
  BY <1>2 DEF EntriesOf
<1> HIDE DEF lruEntries
<1>5. ASSUME NEW j \in 1..n PROVE lruEntries[j].key = s[j] /\ lruEntries[j].expiresAt = lruMap[s[j]]
  <2>1. lruEntries[j] = [key |-> s[j], expiresAt |-> lruMap[s[j]]]
    BY <1>4
  <2> QED
    BY <2>1
<1>6. Recency!Stored(s[i])
  BY <1>3, <1>5 DEF Recency!Stored
<1>7. Recency!place(s[i]) = i
  <2>1. \A j \in 1..n : lruEntries[j].key = s[i] <=> j = i
    BY <1>1, <1>5
  <2> QED
    BY <1>3, <2>1 DEF Recency!place
<1>8. Recency!Of(s[i]) = [key |-> s[i], expiresAt |-> lruMap[s[i]]]
  BY <1>4, <1>7 DEF Recency!Of
<1>9. Recency!without(s[i]) = [j \in 1..(n - 1) |-> lruEntries[Skip(i, j)]]
  BY <1>3, <1>6, <1>7 DEF Recency!without, Skip
<1>10. \A j \in 1..(n - 1) : Skip(i, j) \in 1..n /\ Cut(n, s, i)[j] = s[Skip(i, j)]
  BY <1>1 DEF Skip, Cut
<1>11. \A j \in 1..(n - 1) : lruEntries[Skip(i, j)] = [key |-> Cut(n, s, i)[j], expiresAt |-> lruMap[Cut(n, s, i)[j]]]
  BY <1>4, <1>10
<1>12. Recency!without(s[i]) = EntriesOf(lruMap, n - 1, Cut(n, s, i))
  BY <1>9, <1>11 DEF EntriesOf
<1>13. Recency!Dead(Recency!Of(s[i])) <=> isExpired(s[i])
  BY <1>8 DEF Recency!Dead, isExpired
<1> QED
  BY <1>6, <1>8, <1>12, <1>13

(* A key that is not stored leaves the list as it is.                        *)
LEMMA UnstoredIs ==
  ASSUME NEW n, NEW s, LruAt(n, s), NEW k, k \notin DOMAIN lruMap
  PROVE  Recency!without(k) = EntriesOf(lruMap, n, s) /\ \A i \in 1..n : s[i] # k
<1>1. n \in Nat /\ \A i \in 1..n : s[i] # k
  BY DEF LruAt, Linked, Held
<1>2. lruEntries = EntriesOf(lruMap, n, s)
  BY EntriesAre
<1>3. Len(lruEntries) = n /\ \A j \in 1..n : lruEntries[j].key = s[j]
  <2>1. EntriesOf(lruMap, n, s) = [j \in 1..n |-> EntriesOf(lruMap, n, s)[j]]
    BY DEF EntriesOf
  <2> QED
    BY <1>1, <1>2, <2>1 DEF EntriesOf
<1> HIDE DEF lruEntries
<1>4. ~Recency!Stored(k)
  BY <1>1, <1>3 DEF Recency!Stored
<1> QED
  BY <1>1, <1>2, <1>4 DEF Recency!without

(* A stored key has a place.                                                 *)
LEMMA PlacedIs ==
  ASSUME NEW n, NEW s, LruAt(n, s), NEW k \in DOMAIN lruMap
  PROVE  \E i \in 1..n : k = s[i]
  BY DEF LruAt, Held

(* An entry in front of the entries of the others.                           *)
LEMMA EntriesFront ==
  ASSUME NEW n \in Nat, NEW s \in [1..n -> LruKeys], NEW k \in LruKeys, NEW m
  PROVE  EntriesOf(m, n + 1, InFront(n, s, k)) = <<[key |-> k, expiresAt |-> m[k]]>> \o EntriesOf(m, n, s)
<1> DEFINE one == <<[key |-> k, expiresAt |-> m[k]]>>
           rest == EntriesOf(m, n, s)
           S == {[key |-> x, expiresAt |-> m[x]] : x \in LruKeys}
<1>1. one \in Seq(S) /\ Len(one) = 1 /\ one[1] = [key |-> k, expiresAt |-> m[k]]
  OBVIOUS
<1>2. /\ rest \in Seq(S) /\ Len(rest) = n
      /\ \A i \in 1..n : rest[i] = [key |-> s[i], expiresAt |-> m[s[i]]]
  <2>1. rest \in [1..n -> S]
    BY DEF EntriesOf
  <2> QED
    BY <2>1 DEF EntriesOf
<1> HIDE DEF one, rest, S
<1>3. /\ one \o rest \in Seq(S) /\ Len(one \o rest) = n + 1
      /\ (one \o rest)[1] = one[1] /\ \A i \in 2..(n + 1) : (one \o rest)[i] = rest[i - 1]
  <2>1. /\ one \o rest \in Seq(S) /\ Len(one \o rest) = Len(one) + Len(rest)
        /\ \A i \in 1..(Len(one) + Len(rest)) :
             (one \o rest)[i] = IF i <= Len(one) THEN one[i] ELSE rest[i - Len(one)]
    BY <1>1, <1>2, ConcatProperties
  <2> QED
    BY <1>1, <1>2, <2>1
<1>4. one \o rest \in [1..(n + 1) -> S]
  BY <1>3, LenProperties
<1>5. /\ InFront(n, s, k)[1] = k
      /\ \A j \in 2..(n + 1) : j - 1 \in 1..n /\ InFront(n, s, k)[j] = s[j - 1]
  BY DEF InFront
<1>6. ASSUME NEW i \in 1..(n + 1)
      PROVE  (one \o rest)[i] = [key |-> InFront(n, s, k)[i], expiresAt |-> m[InFront(n, s, k)[i]]]
  <2>1. CASE i = 1
    BY <1>1, <1>3, <1>5, <2>1
  <2>2. CASE i # 1
    <3>1. i \in 2..(n + 1)
      BY <2>2
    <3> QED
      BY <1>2, <1>3, <1>5, <3>1
  <2> QED
    BY <2>1, <2>2
<1>7. one \o rest = [i \in 1..(n + 1) |-> (one \o rest)[i]]
  BY <1>4
<1>8. EntriesOf(m, n + 1, InFront(n, s, k)) = one \o rest
  BY <1>6, <1>7 DEF EntriesOf
<1> QED
  BY <1>8 DEF one, rest

(* The entries depend on the map only where it is asked.                     *)
LEMMA EntriesSame ==
  ASSUME NEW n, NEW s, NEW m, NEW h, \A i \in 1..n : m[s[i]] = h[s[i]]
  PROVE  EntriesOf(m, n, s) = EntriesOf(h, n, s)
  BY DEF EntriesOf

(* What the helpers make of the list is the list.                            *)
LEMMA BecomesIs ==
  ASSUME NEW l, NEW n, NEW s, Linked(l, n, s), becomes(l)
  PROVE  Linked(list, n, s)'
<1>1. l = [head |-> l.head, tail |-> l.tail, prev |-> l.prev, next |-> l.next]
  BY DEF Linked, Lists
<1>2. list' = l
  BY <1>1 DEF becomes, list
<1> QED
  BY <1>2 DEF Linked

(* The keys without the i-th are the others.                                 *)
LEMMA CutHolds ==
  ASSUME NEW n \in Nat, NEW s \in [1..n -> LruKeys], NEW i \in 1..n, \A j, h \in 1..n : s[j] = s[h] => j = h
  PROVE  Held(n - 1, Cut(n, s, i)) = Held(n, s) \ {s[i]}
<1>1. \A j \in 1..(n - 1) : Skip(i, j) \in 1..n /\ Skip(i, j) # i /\ Cut(n, s, i)[j] = s[Skip(i, j)]
  BY DEF Skip, Cut
<1>2. \A l \in 1..n : l # i => \E j \in 1..(n - 1) : l = Skip(i, j)
  BY SkipCovers
<1>3. ASSUME NEW j \in 1..(n - 1) PROVE Cut(n, s, i)[j] \in {s[h] : h \in 1..n} \ {s[i]}
  BY <1>1
<1>4. ASSUME NEW h \in 1..n, s[h] # s[i] PROVE s[h] \in {Cut(n, s, i)[j] : j \in 1..(n - 1)}
  <2>1. h # i
    BY <1>4
  <2>2. PICK j \in 1..(n - 1) : h = Skip(i, j)
    BY <1>2, <2>1
  <2>3. s[h] = Cut(n, s, i)[j]
    BY <1>1, <2>2
  <2> QED
    BY <2>3
<1> QED
  BY <1>3, <1>4 DEF Held

(* The keys with one in front.                                               *)
LEMMA FrontHolds ==
  ASSUME NEW n \in Nat, NEW s \in [1..n -> LruKeys], NEW k \in LruKeys
  PROVE  Held(n + 1, InFront(n, s, k)) = Held(n, s) \cup {k}
<1>1. InFront(n, s, k)[1] = k /\ 1 \in 1..(n + 1)
  BY DEF InFront
<1>2. \A j \in 2..(n + 1) : j - 1 \in 1..n /\ InFront(n, s, k)[j] = s[j - 1]
  BY DEF InFront
<1>3. ASSUME NEW j \in 1..(n + 1) PROVE InFront(n, s, k)[j] \in {s[h] : h \in 1..n} \cup {k}
  <2>1. j = 1 \/ j \in 2..(n + 1)
    OBVIOUS
  <2> QED
    BY <1>1, <1>2, <2>1
<1>4. ASSUME NEW h \in 1..n PROVE s[h] \in {InFront(n, s, k)[j] : j \in 1..(n + 1)}
  <2>1. h + 1 \in 2..(n + 1) /\ h + 1 \in 1..(n + 1) /\ (h + 1) - 1 = h
    OBVIOUS
  <2> QED
    BY <1>2, <2>1
<1> QED
  BY <1>1, <1>3, <1>4 DEF Held

(* An entry taken out of the map and of the list leaves the abstract list.   *)
LEMMA DropIsDrop ==
  ASSUME NEW n, NEW s, LruAt(n, s), NEW k \in DOMAIN lruMap,
         becomes(removeNode(list, k)), forget({k}), UNCHANGED lruNow
  PROVE  LruInv' /\ Recency!Drop(k)
<1>1. PICK i \in 1..n : k = s[i]
  BY PlacedIs
<1>2. /\ n \in Nat /\ s \in [1..n -> LruKeys] /\ \A j, h \in 1..n : s[j] = s[h] => j = h
      /\ Linked(list, n, s) /\ n <= LruMaxSize /\ LruMaxSize \in Nat
      /\ DOMAIN lruMap = Held(n, s) /\ lruNow \in Nat
  BY LruAssumption DEF LruAt, Linked, LruAssumption
<1>3. Linked(list, n - 1, Cut(n, s, i))'
  <2>1. Linked(removeNode(list, k), n - 1, Cut(n, s, i))
    BY <1>1, <1>2, RemoveIs
  <2> QED
    BY <2>1, BecomesIs
<1>4. /\ DOMAIN lruMap' = Held(n - 1, Cut(n, s, i))
      /\ \A j \in 1..(n - 1) : lruMap'[Cut(n, s, i)[j]] = lruMap[Cut(n, s, i)[j]]
  <2>1. Held(n - 1, Cut(n, s, i)) = Held(n, s) \ {s[i]}
    BY <1>2, CutHolds
  <2>2. DOMAIN lruMap' = DOMAIN lruMap \ {k} /\ \A x \in DOMAIN lruMap \ {k} : lruMap'[x] = lruMap[x]
    BY DEF forget, Restrict
  <2>3. DOMAIN lruMap' = Held(n - 1, Cut(n, s, i))
    BY <1>1, <1>2, <2>1, <2>2
  <2>4. \A j \in 1..(n - 1) : Cut(n, s, i)[j] \in DOMAIN lruMap \ {k}
    BY <2>2, <2>3 DEF Held
  <2> QED
    BY <2>2, <2>3, <2>4
<1>5. LruAt(n - 1, Cut(n, s, i))'
  <2>1. n - 1 <= LruMaxSize
    BY <1>2
  <2> QED
    BY <1>2, <1>3, <1>4, <2>1 DEF LruAt
<1>6. lruEntries' = EntriesOf(lruMap, n - 1, Cut(n, s, i))
  <2>1. lruEntries' = EntriesOf(lruMap', n - 1, Cut(n, s, i))
    BY <1>5, EntriesNext
  <2>2. EntriesOf(lruMap', n - 1, Cut(n, s, i)) = EntriesOf(lruMap, n - 1, Cut(n, s, i))
    BY <1>4, EntriesSame
  <2> QED
    BY <2>1, <2>2
<1>7. Recency!Drop(k)
  <2>1. Recency!Stored(k) /\ Recency!without(k) = EntriesOf(lruMap, n - 1, Cut(n, s, i))
    BY <1>1, StoredIs
  <2> QED
    BY <1>6, <2>1 DEF Recency!Drop
<1>8. LruInv'
  BY <1>5 DEF LruInv
<1> QED
  BY <1>7, <1>8

(* The pointers of an entry moved to the front, and its entries.             *)
LEMMA Promoted ==
  ASSUME NEW n, NEW s, LruAt(n, s), NEW i \in 1..n, becomes(moveToFront(list, s[i])),
         DOMAIN lruMap' = DOMAIN lruMap, \A x \in DOMAIN lruMap : x # s[i] => lruMap'[x] = lruMap[x],
         UNCHANGED lruNow
  PROVE  /\ LruInv'
         /\ lruEntries' = <<[key |-> s[i], expiresAt |-> lruMap'[s[i]]]>> \o Recency!without(s[i])
<1> DEFINE t == Cut(n, s, i)
           u == InFront(n - 1, t, s[i])
<1>1. /\ n \in Nat /\ s \in [1..n -> LruKeys] /\ \A j, h \in 1..n : s[j] = s[h] => j = h
      /\ Linked(list, n, s) /\ n <= LruMaxSize /\ LruMaxSize \in Nat
      /\ DOMAIN lruMap = Held(n, s) /\ lruNow \in Nat
  BY LruAssumption DEF LruAt, Linked, LruAssumption
<1>2. /\ n - 1 \in Nat /\ (n - 1) + 1 = n /\ s[i] \in LruKeys /\ t \in [1..(n - 1) -> LruKeys]
      /\ Held(n - 1, t) = Held(n, s) \ {s[i]}
  <2>1. t \in [1..(n - 1) -> LruKeys]
    BY <1>1 DEF Cut, Skip
  <2>2. Held(n - 1, t) = Held(n, s) \ {s[i]}
    BY <1>1, CutHolds
  <2> HIDE DEF t
  <2> QED
    BY <1>1, <2>1, <2>2
<1>3. Linked(list, n, u)'
  <2>1. Linked(moveToFront(list, s[i]), n, u)
    BY <1>1, MoveIs
  <2> HIDE DEF u
  <2> QED
    BY <2>1, BecomesIs
<1> HIDE DEF t
<1>4. Held(n, u) = DOMAIN lruMap
  <2>1. Held((n - 1) + 1, u) = Held(n - 1, t) \cup {s[i]}
    BY <1>2, FrontHolds
  <2>2. s[i] \in Held(n, s)
    BY DEF Held
  <2> HIDE DEF u
  <2>3. Held(n, u) = Held(n - 1, t) \cup {s[i]}
    BY <1>2, <2>1
  <2>4. DOMAIN lruMap = Held(n, s) /\ Held(n - 1, t) = Held(n, s) \ {s[i]}
    BY <1>1, <1>2
  <2> QED
    BY <2>2, <2>3, <2>4
<1>5. LruAt(n, u)'
  <2> HIDE DEF u
  <2> QED
    BY <1>1, <1>3, <1>4 DEF LruAt
<1>6. lruEntries' = EntriesOf(lruMap', n, u)
  <2> HIDE DEF u
  <2> QED
    BY <1>5, EntriesNext
<1>7. EntriesOf(lruMap', n, u) = <<[key |-> s[i], expiresAt |-> lruMap'[s[i]]]>> \o EntriesOf(lruMap', n - 1, t)
  <2>1. EntriesOf(lruMap', (n - 1) + 1, u)
          = <<[key |-> s[i], expiresAt |-> lruMap'[s[i]]]>> \o EntriesOf(lruMap', n - 1, t)
    BY <1>2, EntriesFront
  <2> HIDE DEF u
  <2> QED
    BY <1>2, <2>1
<1>8. EntriesOf(lruMap', n - 1, t) = EntriesOf(lruMap, n - 1, t)
  <2>1. \A j \in 1..(n - 1) : t[j] \in DOMAIN lruMap /\ t[j] # s[i]
    BY <1>1, <1>2 DEF Held
  <2>2. \A j \in 1..(n - 1) : lruMap'[t[j]] = lruMap[t[j]]
    BY <2>1
  <2> QED
    BY <2>2, EntriesSame
<1>9. EntriesOf(lruMap, n - 1, t) = Recency!without(s[i])
  BY StoredIs DEF t
<1>10. LruInv'
  <2> HIDE DEF u
  <2> QED
    BY <1>5 DEF LruInv
<1> HIDE DEF u
<1> QED
  BY <1>6, <1>7, <1>8, <1>9, <1>10

(* The first c entries are the entries of the first c keys.                  *)
LEMMA EntriesFirst ==
  ASSUME NEW n \in Nat, NEW s \in [1..n -> LruKeys], NEW c \in 0..n, NEW m
  PROVE  SubSeq(EntriesOf(m, n, s), 1, c) = EntriesOf(m, c, s)
<1> DEFINE S == {[key |-> x, expiresAt |-> m[x]] : x \in LruKeys}
           whole == EntriesOf(m, n, s)
<1>1. whole \in Seq(S) /\ Len(whole) = n
  <2>1. whole \in [1..n -> S]
    BY DEF EntriesOf
  <2> HIDE DEF whole, S
  <2> QED
    BY <2>1
<1>2. \A i \in 1..n : whole[i] = [key |-> s[i], expiresAt |-> m[s[i]]]
  BY DEF EntriesOf
<1> HIDE DEF whole, S
<1>3. c \in Nat /\ 1..c \subseteq 1..n
  OBVIOUS
<1>4. \A i \in 1..c : whole[i] \in S
  BY <1>1, <1>3
<1>5. SubSeq(whole, 1, c) = [i \in 1..c |-> whole[i]]
  BY <1>1, <1>3
<1>6. SubSeq(whole, 1, c) = EntriesOf(m, c, s)
  BY <1>2, <1>3, <1>5 DEF EntriesOf
<1> QED
  BY <1>6 DEF whole

(* The times put() gives an entry.                                           *)
LEMMA TimesAre ==
  ASSUME LruInv, NEW ttl \in {0, LruTtl}
  PROVE  (IF ttl > 0 THEN lruNow + ttl ELSE 0) \in {0} \cup (lruNow + 1)..(lruNow + 3)
<1>1. lruNow \in Nat /\ LruTtl \in 1..3
  BY LruAssumption DEF LruInv, LruAt, LruAssumption
<1> QED
  BY <1>1

(* get(), has() and delete().                                                *)
LEMMA GetIs ==
  ASSUME LruInv, NEW k \in LruKeys, lruGet(k)
  PROVE  LruInv' /\ (Recency!Use(k) \/ Recency!Drop(k)) /\ UNCHANGED lruNow
<1>1. PICK n, s : LruAt(n, s)
  BY DEF LruInv
<1>2. k \in DOMAIN lruMap /\ UNCHANGED lruNow
  BY DEF lruGet
<1>3. CASE isExpired(k) /\ becomes(removeNode(list, k)) /\ forget({k})
  BY <1>1, <1>2, <1>3, DropIsDrop
<1>4. CASE ~isExpired(k) /\ becomes(moveToFront(list, k)) /\ UNCHANGED lruMap
  <2>1. PICK i \in 1..n : k = s[i]
    BY <1>1, <1>2, PlacedIs
  <2>2. LruInv' /\ lruEntries' = <<[key |-> k, expiresAt |-> lruMap'[k]]>> \o Recency!without(k)
    BY <1>1, <1>2, <1>4, <2>1, Promoted
  <2>3. /\ Recency!Stored(k) /\ Recency!Of(k) = [key |-> k, expiresAt |-> lruMap[k]]
        /\ (Recency!Dead(Recency!Of(k)) <=> isExpired(k))
    BY <1>1, <2>1, StoredIs
  <2>4. lruEntries' = <<Recency!Of(k)>> \o Recency!without(k)
    BY <1>4, <2>2, <2>3
  <2> QED
    BY <1>2, <1>4, <2>2, <2>3, <2>4 DEF Recency!Use
<1> QED
  BY <1>3, <1>4 DEF lruGet

LEMMA HasIs ==
  ASSUME LruInv, NEW k \in LruKeys, lruHas(k) \/ lruDelete(k)
  PROVE  LruInv' /\ Recency!Drop(k) /\ UNCHANGED lruNow
<1>1. PICK n, s : LruAt(n, s)
  BY DEF LruInv
<1>2. k \in DOMAIN lruMap /\ becomes(removeNode(list, k)) /\ forget({k}) /\ UNCHANGED lruNow
  BY DEF lruHas, lruDelete
<1> QED
  BY <1>1, <1>2, DropIsDrop

(* put() of a key that is stored.                                            *)
LEMMA PutIsUpdate ==
  ASSUME LruInv, NEW k \in DOMAIN lruMap, NEW t, becomes(moveToFront(list, k)), UNCHANGED lruNow,
         lruMap' = [x \in DOMAIN lruMap \cup {k} |-> IF x = k THEN t ELSE lruMap[x]]
  PROVE  LruInv' /\ Recency!Store(k, t)
<1>1. PICK n, s : LruAt(n, s)
  BY DEF LruInv
<1>2. PICK i \in 1..n : k = s[i]
  BY <1>1, PlacedIs
<1>3. n \in Nat /\ s \in [1..n -> LruKeys] /\ n <= LruMaxSize /\ LruMaxSize \in Nat
  BY <1>1, LruAssumption DEF LruAt, Linked, LruAssumption
<1>4. /\ DOMAIN lruMap' = DOMAIN lruMap /\ \A x \in DOMAIN lruMap : x # s[i] => lruMap'[x] = lruMap[x]
      /\ lruMap'[k] = t
  BY <1>2
<1>5. LruInv' /\ lruEntries' = <<[key |-> k, expiresAt |-> t]>> \o Recency!without(k)
  BY <1>1, <1>2, <1>4, Promoted
<1> DEFINE longer == <<[key |-> k, expiresAt |-> t]>> \o Recency!without(k)
<1>6. Len(longer) = n /\ SubSeq(longer, 1, n) = longer
  <2>1. Recency!without(k) = EntriesOf(lruMap, n - 1, Cut(n, s, i))
    BY <1>1, <1>2, StoredIs
  <2> DEFINE u == Cut(n, s, i)
             S == {[key |-> x, expiresAt |-> lruMap[x]] : x \in LruKeys} \cup {[key |-> k, expiresAt |-> t]}
  <2>2. n - 1 \in Nat /\ u \in [1..(n - 1) -> LruKeys]
    BY <1>3 DEF Cut, Skip
  <2> HIDE DEF u
  <2>3. EntriesOf(lruMap, n - 1, u) \in Seq(S) /\ Len(EntriesOf(lruMap, n - 1, u)) = n - 1
    <3>1. EntriesOf(lruMap, n - 1, u) \in [1..(n - 1) -> S]
      BY <2>2 DEF EntriesOf
    <3> HIDE DEF S
    <3> QED
      BY <2>2, <3>1
  <2>4. <<[key |-> k, expiresAt |-> t]>> \in Seq(S) /\ Len(<<[key |-> k, expiresAt |-> t]>>) = 1
    OBVIOUS
  <2> HIDE DEF S
  <2>5. longer \in Seq(S) /\ Len(longer) = Len(<<[key |-> k, expiresAt |-> t]>>) + Len(Recency!without(k))
    BY <2>1, <2>3, <2>4, ConcatProperties DEF u
  <2>6. Len(longer) = n
    BY <1>3, <2>1, <2>3, <2>4, <2>5 DEF u
  <2> HIDE DEF longer
  <2> QED
    BY <1>3, <2>5, <2>6
<1> HIDE DEF longer
<1>7. Recency!Store(k, t)
  <2>1. lruEntries' = SubSeq(longer, 1, IF Len(longer) > LruMaxSize THEN LruMaxSize ELSE Len(longer))
    BY <1>3, <1>5, <1>6 DEF longer
  <2> QED
    BY <2>1 DEF Recency!Store, longer
<1> QED
  BY <1>5, <1>7

(* A new node goes in front of the others.                                   *)
LEMMA AddedIs ==
  ASSUME NEW n, NEW s, LruAt(n, s), NEW k \in LruKeys, k \notin DOMAIN lruMap
  PROVE  /\ Linked(addToFront([list EXCEPT !.prev[k] = nil], k), n + 1, InFront(n, s, k))
         /\ InFront(n, s, k) \in [1..(n + 1) -> LruKeys]
         /\ \A i, j \in 1..(n + 1) : InFront(n, s, k)[i] = InFront(n, s, k)[j] => i = j
         /\ Held(n + 1, InFront(n, s, k)) = DOMAIN lruMap \cup {k}
         /\ Cardinality(DOMAIN lruMap \cup {k}) = n + 1
<1> DEFINE u == InFront(n, s, k)
           fronted == addToFront([list EXCEPT !.prev[k] = nil], k)
<1>1. /\ n \in Nat /\ s \in [1..n -> LruKeys] /\ Linked(list, n, s) /\ DOMAIN lruMap = Held(n, s)
  BY DEF LruAt, Linked
<1>2. \A i \in 1..n : s[i] # k
  BY UnstoredIs
<1>3. Linked(fronted, n + 1, u)
  <2>1. Linked([list EXCEPT !.prev[k] = nil], n, s)
    BY <1>1, <1>2, FreshIs
  <2> QED
    BY <1>2, <2>1, AddIs
<1>4. Held(n + 1, u) = DOMAIN lruMap \cup {k}
  BY <1>1, FrontHolds
<1> HIDE DEF u, fronted
<1>5. n + 1 \in Nat /\ u \in [1..(n + 1) -> LruKeys] /\ \A i, j \in 1..(n + 1) : u[i] = u[j] => i = j
  BY <1>3 DEF Linked
<1>6. Cardinality(Held(n + 1, u)) = n + 1
  BY <1>5, KeysCounted
<1> QED
  BY <1>3, <1>4, <1>5, <1>6 DEF u, fronted

(* The list put() stores a new key in.                                       *)
LEMMA LongerIs ==
  ASSUME NEW n, NEW s, LruAt(n, s), NEW k \in LruKeys, k \notin DOMAIN lruMap, NEW t, NEW m,
         m = [x \in DOMAIN lruMap \cup {k} |-> IF x = k THEN t ELSE lruMap[x]]
  PROVE  /\ <<[key |-> k, expiresAt |-> t]>> \o Recency!without(k) = EntriesOf(m, n + 1, InFront(n, s, k))
         /\ Len(EntriesOf(m, n + 1, InFront(n, s, k))) = n + 1
<1>1. n \in Nat /\ s \in [1..n -> LruKeys] /\ DOMAIN lruMap = Held(n, s)
  BY DEF LruAt, Linked
<1>2. Recency!without(k) = EntriesOf(lruMap, n, s) /\ \A i \in 1..n : s[i] # k
  BY UnstoredIs
<1>3. m[k] = t /\ \A i \in 1..n : m[s[i]] = lruMap[s[i]]
  BY <1>1, <1>2 DEF Held
<1>4. EntriesOf(m, n, s) = EntriesOf(lruMap, n, s)
  BY <1>3, EntriesSame
<1>5. EntriesOf(m, n + 1, InFront(n, s, k)) = <<[key |-> k, expiresAt |-> m[k]]>> \o EntriesOf(m, n, s)
  BY <1>1, EntriesFront
<1>6. Len(EntriesOf(m, n + 1, InFront(n, s, k))) = n + 1
  <2> DEFINE u == InFront(n, s, k)
             S == {[key |-> x, expiresAt |-> m[x]] : x \in LruKeys}
  <2>0. u \in [1..(n + 1) -> LruKeys]
    BY <1>1, FrontIs
  <2> HIDE DEF u
  <2>1. u \in [1..(n + 1) -> LruKeys] /\ n + 1 \in Nat
    BY <1>1, <2>0
  <2>2. EntriesOf(m, n + 1, u) \in [1..(n + 1) -> S]
    BY <2>1 DEF EntriesOf
  <2> HIDE DEF S
  <2>3. Len(EntriesOf(m, n + 1, u)) = n + 1
    BY <2>1, <2>2
  <2> QED
    BY <2>3 DEF u
<1> QED
  BY <1>2, <1>3, <1>4, <1>5, <1>6

(* put() of a new key that fits.                                             *)
LEMMA PutFits ==
  ASSUME LruInv, NEW k \in LruKeys, k \notin DOMAIN lruMap, NEW t, UNCHANGED lruNow,
         becomes(addToFront([list EXCEPT !.prev[k] = nil], k)),
         Cardinality(DOMAIN lruMap \cup {k}) <= LruMaxSize,
         lruMap' = [x \in DOMAIN lruMap \cup {k} |-> IF x = k THEN t ELSE lruMap[x]]
  PROVE  LruInv' /\ Recency!Store(k, t)
<1>1. PICK n, s : LruAt(n, s)
  BY DEF LruInv
<1> DEFINE u == InFront(n, s, k)
           longer == <<[key |-> k, expiresAt |-> t]>> \o Recency!without(k)
<1>2. /\ Linked(addToFront([list EXCEPT !.prev[k] = nil], k), n + 1, u)
      /\ u \in [1..(n + 1) -> LruKeys] /\ Held(n + 1, u) = DOMAIN lruMap \cup {k}
      /\ Cardinality(DOMAIN lruMap \cup {k}) = n + 1
  BY <1>1, AddedIs
<1>3. longer = EntriesOf(lruMap', n + 1, u) /\ Len(EntriesOf(lruMap', n + 1, u)) = n + 1
  BY <1>1, LongerIs
<1>4. n \in Nat /\ LruMaxSize \in Nat /\ lruNow \in Nat /\ n + 1 <= LruMaxSize
  BY <1>1, <1>2, LruAssumption DEF LruAt, Linked, LruAssumption
<1> HIDE DEF u, longer
<1>5. Linked(list, n + 1, u)'
  BY <1>2, BecomesIs
<1>6. LruAt(n + 1, u)'
  <2>1. DOMAIN lruMap' = Held(n + 1, u)
    BY <1>2
  <2> QED
    BY <1>4, <1>5, <2>1 DEF LruAt
<1>7. lruEntries' = EntriesOf(lruMap', n + 1, u)
  BY <1>6, EntriesNext
<1>8. SubSeq(EntriesOf(lruMap', n + 1, u), 1, n + 1) = EntriesOf(lruMap', n + 1, u)
  BY <1>2, <1>4, EntriesFirst
<1>9. Recency!Store(k, t)
  <2>1. lruEntries' = SubSeq(longer, 1, IF Len(longer) > LruMaxSize THEN LruMaxSize ELSE Len(longer))
    BY <1>3, <1>4, <1>7, <1>8
  <2> QED
    BY <2>1 DEF Recency!Store, longer
<1>10. LruInv'
  BY <1>6 DEF LruInv
<1> QED
  BY <1>9, <1>10

(* put() of a new key that does not: the last of the list goes.              *)
LEMMA PutEvicts ==
  ASSUME LruInv, NEW k \in LruKeys, k \notin DOMAIN lruMap, NEW t, UNCHANGED lruNow,
         Cardinality(DOMAIN lruMap \cup {k}) > LruMaxSize,
         evict(addToFront([list EXCEPT !.prev[k] = nil], k),
               [x \in DOMAIN lruMap \cup {k} |-> IF x = k THEN t ELSE lruMap[x]])
  PROVE  LruInv' /\ Recency!Store(k, t)
<1>1. PICK n, s : LruAt(n, s)
  BY DEF LruInv
<1> DEFINE u == InFront(n, s, k)
           longer == <<[key |-> k, expiresAt |-> t]>> \o Recency!without(k)
           fronted == addToFront([list EXCEPT !.prev[k] = nil], k)
           larger == [x \in DOMAIN lruMap \cup {k} |-> IF x = k THEN t ELSE lruMap[x]]
           v == Cut(n + 1, u, n + 1)
<1>2. /\ Linked(fronted, n + 1, u)
      /\ u \in [1..(n + 1) -> LruKeys] /\ Held(n + 1, u) = DOMAIN lruMap \cup {k}
      /\ Cardinality(DOMAIN lruMap \cup {k}) = n + 1
      /\ \A i, j \in 1..(n + 1) : u[i] = u[j] => i = j
  BY <1>1, AddedIs
<1>3. longer = EntriesOf(larger, n + 1, u) /\ Len(EntriesOf(larger, n + 1, u)) = n + 1
  BY <1>1, LongerIs
<1>4. n \in Nat /\ LruMaxSize \in Nat /\ lruNow \in Nat /\ n = LruMaxSize /\ n + 1 \in 1..(n + 1) /\ n + 1 \in Nat
  BY <1>1, <1>2, LruAssumption DEF LruAt, Linked, LruAssumption
<1>5. DOMAIN larger = DOMAIN lruMap \cup {k}
  OBVIOUS
<1>6. becomes(removeNode(fronted, fronted.tail)) /\ lruMap' = Restrict(larger, DOMAIN larger \ {fronted.tail})
  BY DEF evict
<1> HIDE DEF u, longer, fronted, larger
<1>7. fronted.tail = u[n + 1]
  BY <1>2, <1>4 DEF Linked, At
<1>8. (n + 1) - 1 = n /\ Held(n, v) = Held(n + 1, u) \ {u[n + 1]}
  <2>1. Held((n + 1) - 1, v) = Held(n + 1, u) \ {u[n + 1]}
    BY <1>2, <1>4, CutHolds
  <2>2. (n + 1) - 1 = n
    BY <1>4
  <2> HIDE DEF v
  <2> QED
    BY <2>1, <2>2
<1>9. \A j \in 1..n : v[j] = u[j]
  BY <1>4 DEF Cut, Skip
<1>10. Linked(removeNode(fronted, u[n + 1]), n, v)
  <2>1. Linked(removeNode(fronted, u[n + 1]), (n + 1) - 1, v)
    BY <1>2, <1>4, RemoveIs
  <2> HIDE DEF v
  <2> QED
    BY <1>8, <2>1
<1> HIDE DEF v
<1>11. Linked(list, n, v)'
  BY <1>6, <1>7, <1>10, BecomesIs
<1>12. DOMAIN lruMap' = Held(n, v) /\ \A x \in Held(n, v) : lruMap'[x] = larger[x]
  BY <1>2, <1>5, <1>6, <1>7, <1>8 DEF Restrict
<1>13. LruAt(n, v)'
  BY <1>4, <1>11, <1>12 DEF LruAt
<1>14. lruEntries' = EntriesOf(lruMap', n, v)
  BY <1>13, EntriesNext
<1>15. EntriesOf(lruMap', n, v) = EntriesOf(larger, n, u)
  <2>1. \A j \in 1..n : v[j] \in Held(n, v)
    BY DEF Held
  <2>2. \A j \in 1..n : lruMap'[v[j]] = larger[u[j]]
    BY <1>9, <1>12, <2>1
  <2> QED
    BY <1>9, <2>2 DEF EntriesOf
<1>16. SubSeq(EntriesOf(larger, n + 1, u), 1, n) = EntriesOf(larger, n, u)
  <2>1. n \in 0..(n + 1)
    BY <1>4
  <2> QED
    BY <1>2, <1>4, <2>1, EntriesFirst
<1>17. Recency!Store(k, t)
  <2>1. lruEntries' = SubSeq(longer, 1, IF Len(longer) > LruMaxSize THEN LruMaxSize ELSE Len(longer))
    BY <1>3, <1>4, <1>14, <1>15, <1>16
  <2> QED
    BY <2>1 DEF Recency!Store, longer
<1>18. LruInv'
  BY <1>13 DEF LruInv
<1> QED
  BY <1>17, <1>18

(* prune() passes from node to node.                                         *)
LEMMA AfterExists ==
  ASSUME NEW l, NEW victims, NEW top \in Nat
  PROVE  \E f : Passing(l, victims, top, f)
<1> DEFINE T == {m \in Nat : \E f : Passing(l, victims, m, f)}
<1>1. 0 \in T
  <2> DEFINE f == [n \in 0..0 |-> l]
  <2>1. f = [n \in 0..0 |-> IF n = 0 THEN l ELSE removeNode(f[n - 1], victims[n])]
    OBVIOUS
  <2> QED
    BY <2>1 DEF Passing
<1>2. ASSUME NEW m \in T PROVE m + 1 \in T
  <2>1. PICK f : f = [n \in 0..m |-> IF n = 0 THEN l ELSE removeNode(f[n - 1], victims[n])]
    BY DEF Passing
  <2> DEFINE g == [n \in 0..(m + 1) |-> IF n = m + 1 THEN removeNode(f[m], victims[n]) ELSE f[n]]
  <2>2. m \in Nat
    OBVIOUS
  <2>3. \A n \in 0..m : f[n] = IF n = 0 THEN l ELSE removeNode(f[n - 1], victims[n])
    BY <2>1
  <2>4. ASSUME NEW n \in 0..(m + 1) PROVE g[n] = IF n = 0 THEN l ELSE removeNode(g[n - 1], victims[n])
    <3>1. CASE n = m + 1
      <4>1. n # 0 /\ n - 1 = m /\ n - 1 \in 0..(m + 1) /\ n - 1 # m + 1
        BY <2>2, <3>1
      <4>2. g[n - 1] = f[m] /\ g[n] = removeNode(f[m], victims[n])
        BY <3>1, <4>1
      <4> HIDE DEF g
      <4> QED
        BY <4>1, <4>2
    <3>2. CASE n # m + 1
      <4>1. n \in 0..m /\ (n # 0 => n - 1 \in 0..m /\ n - 1 \in 0..(m + 1) /\ n - 1 # m + 1)
        BY <2>2, <3>2
      <4>2. g[n] = f[n] /\ (n # 0 => g[n - 1] = f[n - 1])
        BY <3>2, <4>1
      <4> HIDE DEF g
      <4> QED
        BY <2>3, <4>1, <4>2
    <3> QED
      BY <3>1, <3>2
  <2>5. g = [n \in 0..(m + 1) |-> g[n]]
    OBVIOUS
  <2> HIDE DEF g
  <2>6. g = [n \in 0..(m + 1) |-> IF n = 0 THEN l ELSE removeNode(g[n - 1], victims[n])]
    BY <2>4, <2>5
  <2> QED
    BY <2>2, <2>6 DEF Passing
<1>3. T = Nat
  <2>1. T \in SUBSET Nat
    OBVIOUS
  <2> HIDE DEF T
  <2> QED
    BY <1>1, <1>2, <2>1, InductNat
<1> QED
  BY <1>3

(* The list after each.                                                      *)
LEMMA RemoveAllFrom ==
  ASSUME NEW l, NEW victims, Len(victims) \in Nat
  PROVE  \E f : /\ f[0] = l /\ removeAll(l, victims) = f[Len(victims)]
                /\ \A n \in 1..Len(victims) : f[n] = removeNode(f[n - 1], victims[n])
<1> DEFINE f == CHOOSE f : f = [n \in 0..Len(victims) |-> IF n = 0 THEN l ELSE removeNode(f[n - 1], victims[n])]
<1>1. removeAll(l, victims) = f[Len(victims)]
  BY DEF removeAll
<1>2. \E h : Passing(l, victims, Len(victims), h)
  BY AfterExists
<1>3. f = [n \in 0..Len(victims) |-> IF n = 0 THEN l ELSE removeNode(f[n - 1], victims[n])]
  BY <1>2, Zenon DEF Passing
<1> HIDE DEF f
<1>4. \A n \in 0..Len(victims) : f[n] = IF n = 0 THEN l ELSE removeNode(f[n - 1], victims[n])
  BY <1>3
<1>5. f[0] = l /\ \A n \in 1..Len(victims) : f[n] = removeNode(f[n - 1], victims[n])
  BY <1>4
<1> QED
  BY <1>1, <1>5

(* Without one more key, the keys are still those of the list in its order.  *)
LEMMA ThinnedCut ==
  ASSUME NEW n \in Nat, NEW s \in [1..n -> LruKeys], NEW c \in Nat, NEW t \in [1..c -> LruKeys],
         \A j, h \in 1..c : t[j] = t[h] => j = h,
         NEW R, Thinned(n, s, c, t, R), NEW i \in 1..c
  PROVE  Thinned(n, s, c - 1, Cut(c, t, i), R \cup {t[i]})
<1>1. PICK kept \in [1..c -> 1..n] :
        /\ \A j, h \in 1..c : j < h => kept[j] < kept[h]
        /\ \A j \in 1..c : t[j] = s[kept[j]]
  BY DEF Thinned
<1> DEFINE left == [j \in 1..(c - 1) |-> kept[Skip(i, j)]]
<1>2. \A j \in 1..(c - 1) : Skip(i, j) \in 1..c
  BY DEF Skip
<1>3. \A j, h \in 1..(c - 1) : j < h => Skip(i, j) < Skip(i, h)
  BY DEF Skip
<1>4. left \in [1..(c - 1) -> 1..n] /\ \A j \in 1..(c - 1) : left[j] = kept[Skip(i, j)]
  BY <1>2
<1>5. \A j \in 1..(c - 1) : Cut(c, t, i)[j] = t[Skip(i, j)]
  BY DEF Cut
<1> HIDE DEF left
<1>6. \A j, h \in 1..(c - 1) : j < h => left[j] < left[h]
  BY <1>1, <1>2, <1>3, <1>4
<1>7. \A j \in 1..(c - 1) : Cut(c, t, i)[j] = s[left[j]]
  BY <1>1, <1>2, <1>4, <1>5
<1>8. Held(c - 1, Cut(c, t, i)) = Held(n, s) \ (R \cup {t[i]})
  <2>1. Held(c - 1, Cut(c, t, i)) = Held(c, t) \ {t[i]}
    BY CutHolds
  <2>2. Held(c, t) = Held(n, s) \ R
    BY DEF Thinned
  <2> QED
    BY <2>1, <2>2
<1> QED
  BY <1>4, <1>6, <1>7, <1>8 DEF Thinned

(* All of the victims taken out, one after another.                          *)
LEMMA RemoveAllIs ==
  ASSUME NEW l, NEW n, NEW s, Linked(l, n, s), NEW victims \in Seq(Held(n, s)),
         \A i, j \in 1..Len(victims) : i # j => victims[i] # victims[j]
  PROVE  \E c, t : Linked(removeAll(l, victims), c, t) /\ Thinned(n, s, c, t, Held(Len(victims), victims))
<1>1. Len(victims) \in Nat /\ \A i \in 1..Len(victims) : victims[i] \in Held(n, s)
  OBVIOUS
<1>2. PICK f : /\ f[0] = l /\ removeAll(l, victims) = f[Len(victims)]
               /\ \A m \in 1..Len(victims) : f[m] = removeNode(f[m - 1], victims[m])
  BY <1>1, RemoveAllFrom
<1>3. n \in Nat /\ s \in [1..n -> LruKeys]
  BY DEF Linked
<1> DEFINE P(m) == \E c, t : Linked(f[m], c, t) /\ Thinned(n, s, c, t, Held(m, victims))
           T == {m \in Nat : m <= Len(victims) => P(m)}
<1>4. P(0)
  <2> DEFINE kept == [i \in 1..n |-> i]
  <2>1. kept \in [1..n -> 1..n] /\ \A i \in 1..n : kept[i] = i
    OBVIOUS
  <2> HIDE DEF kept
  <2>2. Held(0, victims) = {}
    BY DEF Held
  <2>3. Thinned(n, s, n, s, Held(0, victims))
    BY <2>1, <2>2 DEF Thinned
  <2> QED
    BY <1>2, <2>3
<1>5. ASSUME NEW m \in Nat, m + 1 <= Len(victims), P(m) PROVE P(m + 1)
  <2>1. PICK c, t : Linked(f[m], c, t) /\ Thinned(n, s, c, t, Held(m, victims))
    BY <1>5
  <2>2. /\ c \in Nat /\ t \in [1..c -> LruKeys] /\ \A j, h \in 1..c : t[j] = t[h] => j = h
    BY <2>1 DEF Linked
  <2>3. m + 1 \in 1..Len(victims) /\ (m + 1) - 1 = m /\ \A i \in 1..m : i \in 1..Len(victims) /\ i # m + 1
    BY <1>1, <1>5
  <2>4. victims[m + 1] \in Held(c, t)
    <3>1. victims[m + 1] \notin Held(m, victims)
      BY <2>3 DEF Held
    <3> QED
      BY <1>1, <2>1, <2>3, <3>1 DEF Thinned
  <2>5. PICK i \in 1..c : victims[m + 1] = t[i]
    BY <2>4 DEF Held
  <2>6. Linked(f[m + 1], c - 1, Cut(c, t, i))
    <3>1. f[m + 1] = removeNode(f[m], t[i])
      BY <1>2, <2>3, <2>5
    <3> QED
      BY <2>1, <3>1, RemoveIs
  <2>7. Held(m + 1, victims) = Held(m, victims) \cup {t[i]}
    <3>1. 1..(m + 1) = 1..m \cup {m + 1}
      BY <1>5
    <3> QED
      BY <2>5, <3>1 DEF Held
  <2>8. Thinned(n, s, c - 1, Cut(c, t, i), Held(m, victims) \cup {t[i]})
    BY <1>3, <2>1, <2>2, ThinnedCut
  <2> QED
    BY <2>6, <2>7, <2>8
<1> HIDE DEF P
<1>6. 0 \in T
  BY <1>4
<1>7. ASSUME NEW m \in T PROVE m + 1 \in T
  <2>1. m \in Nat /\ (m + 1 <= Len(victims) => m <= Len(victims))
    BY <1>1
  <2> QED
    BY <1>5, <2>1
<1>8. T = Nat
  <2>1. T \in SUBSET Nat
    OBVIOUS
  <2> HIDE DEF T
  <2> QED
    BY <1>6, <1>7, <2>1, InductNat
<1>9. P(Len(victims))
  BY <1>1, <1>8
<1> QED
  BY <1>2, <1>9 DEF P

(* What is left of the list when the expired are gone is a sweep.            *)
LEMMA SweepIs ==
  ASSUME NEW n, NEW s, LruAt(n, s), NEW c, NEW t, LruAt(c, t)',
         NEW gone, gone = {k \in DOMAIN lruMap : isExpired(k)}, Thinned(n, s, c, t, gone), forget(gone)
  PROVE  Recency!Sweep
<1>1. /\ n \in Nat /\ s \in [1..n -> LruKeys] /\ \A j, h \in 1..n : s[j] = s[h] => j = h
      /\ DOMAIN lruMap = Held(n, s)
  BY DEF LruAt, Linked
<1>2. c \in Nat /\ t \in [1..c -> LruKeys]
  BY DEF LruAt, Linked
<1>3. lruEntries = EntriesOf(lruMap, n, s) /\ lruEntries' = EntriesOf(lruMap', c, t)
  BY EntriesAre, EntriesNext
<1>4. Len(lruEntries) = n /\ \A j \in 1..n : lruEntries[j] = [key |-> s[j], expiresAt |-> lruMap[s[j]]]
  <2>1. EntriesOf(lruMap, n, s) = [j \in 1..n |-> EntriesOf(lruMap, n, s)[j]]
    BY DEF EntriesOf
  <2>2. Len(EntriesOf(lruMap, n, s)) = n
    BY <1>1, <2>1 DEF EntriesOf
  <2>3. \A j \in 1..n : EntriesOf(lruMap, n, s)[j] = [key |-> s[j], expiresAt |-> lruMap[s[j]]]
    BY DEF EntriesOf
  <2> QED
    BY <1>3, <2>2, <2>3
<1>5. Len(lruEntries') = c /\ \A j \in 1..c : lruEntries'[j] = [key |-> t[j], expiresAt |-> lruMap'[t[j]]]
  <2>1. EntriesOf(lruMap', c, t) = [j \in 1..c |-> EntriesOf(lruMap', c, t)[j]]
    BY DEF EntriesOf
  <2>2. Len(EntriesOf(lruMap', c, t)) = c
    BY <1>2, <2>1 DEF EntriesOf
  <2>3. \A j \in 1..c : EntriesOf(lruMap', c, t)[j] = [key |-> t[j], expiresAt |-> lruMap'[t[j]]]
    BY DEF EntriesOf
  <2> QED
    BY <1>3, <2>2, <2>3
<1>6. lruEntries' = [j \in 1..c |-> lruEntries'[j]]
  BY <1>3 DEF EntriesOf
<1> DEFINE live == {i \in 1..n : ~Recency!Dead(lruEntries[i])}
<1>7. \A i \in 1..n : i \in live <=> s[i] \notin gone
  <2>1. \A i \in 1..n : s[i] \in DOMAIN lruMap
    BY <1>1 DEF Held
  <2>2. ASSUME NEW i \in 1..n PROVE Recency!Dead(lruEntries[i]) <=> isExpired(s[i])
    <3>1. lruEntries[i].expiresAt = lruMap[s[i]]
      BY <1>4
    <3> QED
      BY <3>1 DEF Recency!Dead, isExpired
  <2> QED
    BY <2>1, <2>2
<1> HIDE DEF live, lruEntries
<1>8. PICK kept \in [1..c -> 1..n] :
        /\ \A i, j \in 1..c : i < j => kept[i] < kept[j]
        /\ \A i \in 1..c : t[i] = s[kept[i]]
  BY DEF Thinned
<1>9. Held(c, t) = Held(n, s) \ gone
  BY DEF Thinned
<1>10. \A i \in 1..c : kept[i] \in live
  BY <1>7, <1>8, <1>9 DEF Held
<1>11. \A l \in live : \E i \in 1..c : kept[i] = l
  <2> SUFFICES ASSUME NEW l \in live PROVE \E i \in 1..c : kept[i] = l
    OBVIOUS
  <2>1. l \in 1..n /\ s[l] \notin gone
    BY <1>7 DEF live
  <2>2. s[l] \in Held(c, t)
    BY <1>9, <2>1 DEF Held
  <2>3. PICK i \in 1..c : s[l] = t[i]
    BY <2>2 DEF Held
  <2>4. s[l] = s[kept[i]] /\ kept[i] \in 1..n
    BY <1>8, <2>3
  <2> QED
    BY <1>1, <2>1, <2>4
<1>12. ASSUME NEW i \in 1..c PROVE lruEntries'[i] = lruEntries[kept[i]]
  <2>1. t[i] = s[kept[i]] /\ t[i] \in DOMAIN lruMap \ gone
    BY <1>1, <1>8, <1>9 DEF Held
  <2>2. lruMap'[t[i]] = lruMap[t[i]]
    BY <2>1 DEF forget, Restrict
  <2> QED
    BY <1>4, <1>5, <2>1, <2>2
<1>13. kept \in [1..c -> live]
  BY <1>8, <1>10
<1>14. lruEntries' = [i \in 1..c |-> lruEntries[kept[i]]]
  BY <1>6, <1>12
<1>15. \E f \in [1..Len(lruEntries') -> live] :
         /\ \A i, j \in 1..Len(lruEntries') : i < j => f[i] < f[j]
         /\ \A l \in live : \E i \in 1..Len(lruEntries') : f[i] = l
         /\ lruEntries' = [i \in 1..Len(lruEntries') |-> lruEntries[f[i]]]
  BY <1>5, <1>8, <1>11, <1>13, <1>14
<1>16. live = {i \in 1..Len(lruEntries) : ~Recency!Dead(lruEntries[i])}
  BY <1>4 DEF live
<1> QED
  BY <1>15, <1>16 DEF Recency!Sweep

(* prune()                                                                   *)
LEMMA PruneIs ==
  ASSUME LruInv, lruPrune
  PROVE  LruInv' /\ Recency!Sweep /\ UNCHANGED lruNow
<1>1. PICK n, s : LruAt(n, s)
  BY DEF LruInv
<1> DEFINE gone == {k \in DOMAIN lruMap : isExpired(k)}
<1>2. PICK victims \in SetToSeqs(gone) : becomes(removeAll(list, victims))
  BY DEF lruPrune
<1>3. forget(gone) /\ UNCHANGED lruNow
  BY DEF lruPrune
<1>4. gone \subseteq DOMAIN lruMap
  OBVIOUS
<1> HIDE DEF gone
<1>5. /\ n \in Nat /\ s \in [1..n -> LruKeys] /\ \A j, h \in 1..n : s[j] = s[h] => j = h
      /\ Linked(list, n, s) /\ DOMAIN lruMap = Held(n, s) /\ n <= LruMaxSize /\ LruMaxSize \in Nat /\ lruNow \in Nat
  BY <1>1, LruAssumption DEF LruAt, Linked, LruAssumption
<1>6. IsFiniteSet(Held(n, s)) /\ Cardinality(Held(n, s)) = n
  BY <1>5, KeysCounted
<1>7. IsFiniteSet(gone)
  BY <1>4, <1>5, <1>6, FS_Subset
<1>8. victims \in Seq(gone) /\ \A i, j \in 1..Len(victims) : i # j => victims[i] # victims[j]
  BY <1>2, <1>7, OrderIs, OrderHolds
<1>9. Held(Len(victims), victims) = gone
  <2>1. \A x \in gone : \E i \in 1..Len(victims) : victims[i] = x
    BY <1>2, <1>7, OrderHolds
  <2>2. \A i \in 1..Len(victims) : victims[i] \in gone
    BY <1>8
  <2> QED
    BY <2>1, <2>2 DEF Held
<1>10. victims \in Seq(Held(n, s))
  BY <1>4, <1>5, <1>8
<1>11. PICK c, t : Linked(removeAll(list, victims), c, t) /\ Thinned(n, s, c, t, gone)
  <2>1. \E c, t : Linked(removeAll(list, victims), c, t) /\ Thinned(n, s, c, t, Held(Len(victims), victims))
    BY <1>5, <1>8, <1>10, RemoveAllIs
  <2> QED
    BY <1>9, <2>1
<1>12. Linked(list, c, t)'
  BY <1>2, <1>11, BecomesIs
<1>13. Held(c, t) = Held(n, s) \ gone /\ DOMAIN lruMap' = Held(c, t)
  BY <1>3, <1>5, <1>11 DEF Thinned, forget, Restrict
<1>14. c <= n
  <2>1. c \in Nat /\ t \in [1..c -> LruKeys] /\ \A j, h \in 1..c : t[j] = t[h] => j = h
    BY <1>11 DEF Linked
  <2>2. Cardinality(Held(c, t)) = c
    BY <2>1, KeysCounted
  <2>3. Cardinality(Held(c, t)) <= Cardinality(Held(n, s))
    BY <1>6, <1>13, FS_Subset
  <2> QED
    BY <1>6, <2>2, <2>3
<1>15. LruAt(c, t)'
  <2>1. c <= LruMaxSize
    <3>1. c \in Nat
      BY <1>11 DEF Linked
    <3> QED
      BY <1>5, <1>14, <3>1
  <2> QED
    BY <1>3, <1>5, <1>12, <1>13, <2>1 DEF LruAt
<1>16. Recency!Sweep
  BY <1>1, <1>3, <1>11, <1>15, SweepIs DEF gone
<1>17. LruInv'
  BY <1>15 DEF LruInv
<1> QED
  BY <1>3, <1>16, <1>17

(* put()                                                                     *)
LEMMA PutIs ==
  ASSUME LruInv, NEW k \in LruKeys, NEW ttl \in {0, LruTtl}, lruPut(k, ttl)
  PROVE  /\ LruInv' /\ UNCHANGED lruNow
         /\ \E t \in {0} \cup (lruNow + 1)..(lruNow + 3) : Recency!Store(k, t)
<1> DEFINE t == IF ttl > 0 THEN lruNow + ttl ELSE 0
           larger == [x \in DOMAIN lruMap \cup {k} |-> IF x = k THEN t ELSE lruMap[x]]
           fronted == addToFront([list EXCEPT !.prev[k] = nil], k)
<1>1. UNCHANGED lruNow /\ t \in {0} \cup (lruNow + 1)..(lruNow + 3)
  BY TimesAre DEF lruPut
<1>2. DOMAIN larger = DOMAIN lruMap \cup {k}
  OBVIOUS
<1>3. \/ k \in DOMAIN lruMap /\ lruMap' = larger /\ becomes(moveToFront(list, k))
      \/ k \notin DOMAIN lruMap /\ Cardinality(DOMAIN larger) > LruMaxSize /\ evict(fronted, larger)
      \/ k \notin DOMAIN lruMap /\ Cardinality(DOMAIN larger) <= LruMaxSize /\ lruMap' = larger /\ becomes(fronted)
  BY DEF lruPut
<1> HIDE DEF t
<1>4. CASE k \in DOMAIN lruMap /\ lruMap' = larger /\ becomes(moveToFront(list, k))
  BY <1>1, <1>4, PutIsUpdate
<1>5. CASE k \notin DOMAIN lruMap /\ Cardinality(DOMAIN larger) > LruMaxSize /\ evict(fronted, larger)
  BY <1>1, <1>2, <1>5, PutEvicts
<1>6. CASE k \notin DOMAIN lruMap /\ Cardinality(DOMAIN larger) <= LruMaxSize /\ lruMap' = larger /\ becomes(fronted)
  BY <1>1, <1>2, <1>6, PutFits
<1> QED
  BY <1>3, <1>4, <1>5, <1>6

(* The empty list.                                                           *)
LEMMA EmptyIs ==
  ASSUME NEW l, l = [head |-> nil, tail |-> nil, prev |-> [k \in LruKeys |-> nil], next |-> [k \in LruKeys |-> nil]]
  PROVE  Linked(l, 0, [i \in 1..0 |-> nil])
<1>1. l \in Lists
  BY DEF Lists, Links
<1>2. [i \in 1..0 |-> nil] \in [1..0 -> LruKeys]
  OBVIOUS
<1>3. l.head = nil /\ l.tail = nil
  OBVIOUS
<1> QED
  BY <1>1, <1>2, <1>3 DEF Linked, At

(* clear()                                                                   *)
LEMMA ClearIs ==
  ASSUME LruInv, lruClear
  PROVE  LruInv' /\ Recency!Empty /\ UNCHANGED lruNow
<1> DEFINE s == [i \in 1..0 |-> nil]
           l == [head |-> nil, tail |-> nil, prev |-> [k \in LruKeys |-> nil], next |-> [k \in LruKeys |-> nil]]
<1>1. becomes(l) /\ lruMap' = <<>> /\ UNCHANGED lruNow
  BY DEF lruClear
<1>2. Linked(l, 0, s)
  BY EmptyIs
<1> HIDE DEF l, s
<1>3. Linked(list, 0, s)'
  BY <1>1, <1>2, BecomesIs
<1>4. LruMaxSize \in Nat /\ lruNow \in Nat
  BY LruAssumption DEF LruInv, LruAt, LruAssumption
<1>5. DOMAIN lruMap' = Held(0, s)
  BY <1>1 DEF Held
<1>6. LruAt(0, s)'
  BY <1>1, <1>3, <1>4, <1>5 DEF LruAt
<1>7. lruEntries' = EntriesOf(lruMap', 0, s)
  BY <1>6, EntriesNext
<1>8. EntriesOf(lruMap', 0, s) = <<>>
  BY DEF EntriesOf
<1> QED
  BY <1>1, <1>6, <1>7, <1>8 DEF LruInv, Recency!Empty

LEMMA ListStarts == lruInit => LruInv /\ Recency!Init
<1> SUFFICES ASSUME lruInit PROVE LruInv /\ Recency!Init
  OBVIOUS
<1> DEFINE s == [i \in 1..0 |-> nil]
<1>1. Linked(list, 0, s)
  BY EmptyIs DEF lruInit, list
<1> HIDE DEF s
<1>2. LruMaxSize \in Nat /\ lruNow = 0
  BY LruAssumption DEF lruInit, LruAssumption
<1>3. DOMAIN lruMap = Held(0, s)
  BY DEF lruInit, Held
<1>4. LruAt(0, s)
  BY <1>1, <1>2, <1>3 DEF LruAt
<1>5. lruEntries = <<>>
  <2>1. lruEntries = EntriesOf(lruMap, 0, s)
    BY <1>4, EntriesAre
  <2>2. EntriesOf(lruMap, 0, s) = <<>>
    BY DEF EntriesOf
  <2> QED
    BY <2>1, <2>2
<1> QED
  BY <1>2, <1>4, <1>5 DEF LruInv, Recency!Init

(* The clock, and nothing at all.                                            *)
LEMMA ListStays ==
  ASSUME LruInv, UNCHANGED <<lruMap, lruHead, lruTail, lruPrev, lruNext>>, lruNow' \in Nat
  PROVE  LruInv' /\ UNCHANGED lruEntries
<1>1. PICK n, s : LruAt(n, s)
  BY DEF LruInv
<1>2. LruAt(n, s)'
  BY <1>1 DEF LruAt, Linked, list
<1>3. lruEntries = EntriesOf(lruMap, n, s) /\ lruEntries' = EntriesOf(lruMap', n, s)
  BY <1>1, <1>2, EntriesAre, EntriesNext
<1> QED
  BY <1>2, <1>3 DEF LruInv

(* What the cache does, the recency list does.                               *)
LEMMA ListStep ==
  ASSUME LruInv, lruNextStep
  PROVE  LruInv' /\ [Recency!Next]_<<lruEntries, lruNow>>
<1>1. ASSUME NEW k \in LruKeys, lruGet(k) PROVE LruInv' /\ Recency!Next
  BY <1>1, GetIs DEF Recency!Next
<1>2. ASSUME NEW k \in LruKeys, lruHas(k) \/ lruDelete(k) PROVE LruInv' /\ Recency!Next
  BY <1>2, HasIs DEF Recency!Next
<1>3. ASSUME NEW k \in LruKeys, NEW ttl \in {0, LruTtl}, lruPut(k, ttl) PROVE LruInv' /\ Recency!Next
  BY <1>3, PutIs DEF Recency!Next
<1>4. ASSUME lruClear PROVE LruInv' /\ Recency!Next
  BY <1>4, ClearIs DEF Recency!Next
<1>5. ASSUME lruPrune PROVE LruInv' /\ Recency!Next
  BY <1>5, PruneIs DEF Recency!Next
<1>6. ASSUME lruTick PROVE LruInv' /\ Recency!Next
  <2>1. lruNow \in Nat
    BY DEF LruInv, LruAt
  <2>2. UNCHANGED <<lruMap, lruHead, lruTail, lruPrev, lruNext>> /\ lruNow' = lruNow + 1
    BY <1>6 DEF lruTick
  <2>3. LruInv' /\ UNCHANGED lruEntries
    BY <2>1, <2>2, ListStays
  <2> QED
    BY <2>2, <2>3 DEF Recency!Next
<1> QED
  BY <1>1, <1>2, <1>3, <1>4, <1>5, <1>6 DEF lruNextStep

(* The pointer surgery and the map are a recency list, for any keys, any     *)
(* size and any lifetime: whatever is looked up, stored, dropped, swept or   *)
(* left to expire, from the head along the next pointers are the map's keys, *)
(* each once and most recently used first, what a full cache loses is the    *)
(* key unused for longest, and an expired entry is never promoted            *)
(* (lru-cache.ts:74-210).                                                    *)
THEOREM ListIsRecency == LruSpec => ImplementsRecencyList
<1> DEFINE w == <<lruEntries, lruNow>>
<1>1. lruInit => LruInv /\ Recency!Init
  BY ListStarts
<1>2. LruInv /\ [lruNextStep]_lruVars => LruInv' /\ [Recency!Next]_w
  <2> SUFFICES ASSUME LruInv, [lruNextStep]_lruVars PROVE LruInv' /\ [Recency!Next]_w
    OBVIOUS
  <2>1. CASE lruNextStep
    BY <2>1, ListStep
  <2>2. CASE UNCHANGED lruVars
    <3>1. UNCHANGED <<lruMap, lruHead, lruTail, lruPrev, lruNext>> /\ lruNow' = lruNow
      BY <2>2 DEF lruVars
    <3>2. lruNow \in Nat
      BY DEF LruInv, LruAt
    <3>3. LruInv' /\ UNCHANGED lruEntries
      BY <3>1, <3>2, ListStays
    <3> QED
      BY <3>1, <3>3
  <2> QED
    BY <2>1, <2>2
<1> QED
  BY <1>1, <1>2, PTL DEF LruSpec, ImplementsRecencyList, Recency!Spec
==============================================================================
