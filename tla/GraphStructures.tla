--------------------------- MODULE GraphStructures ----------------------------
(* The structures of packages/algorithms/src over nodes and edges.           *)
EXTENDS Integers, FiniteSets, Sequences, SequencesExt

(***************************************************************************)
(* packages/algorithms/src/union-find.ts: the clusters of records that     *)
(* look alike, as trees of parent pointers with path compression and union *)
(* by rank; and clusterDuplicates(), which compares within blocks only.    *)
(***************************************************************************)
CONSTANTS
  Ids,       \* the records
  BlockOf    \* the blocking key of each record

ASSUME UnionFindAssumption == IsFiniteSet(Ids) /\ BlockOf \in [Ids -> Nat]

VARIABLES
  parent, rank,      \* the two maps
  componentCount,
  compared           \* history: the pairs union() was asked to merge

dsuVars == <<parent, rank, componentCount, compared>>

dsuInit == parent = <<>> /\ rank = <<>> /\ componentCount = 0 /\ compared = {}

forest == [parent |-> parent, rank |-> rank, count |-> componentCount]
forestBecomes(f) == parent' = f.parent /\ rank' = f.rank /\ componentCount' = f.count

(* makeSet()                                                                 *)
makeSet(f, x) ==
  IF x \in DOMAIN f.parent THEN f
  ELSE [parent |-> [y \in DOMAIN f.parent \cup {x} |-> IF y = x THEN x ELSE f.parent[y]],
        rank |-> [y \in DOMAIN f.rank \cup {x} |-> IF y = x THEN 0 ELSE f.rank[y]],
        count |-> f.count + 1]

(* The path find() climbs: the node after n steps.                           *)
climb(f, x) ==
  LET up[n \in 0..Cardinality(DOMAIN f.parent)] == IF n = 0 THEN x ELSE f.parent[up[n - 1]] IN up
rootOf(f, x) == climb(f, x)[Cardinality(DOMAIN f.parent)]

(* find(): every node on the path is pointed at the root.                    *)
find(f0, x) ==
  LET f == makeSet(f0, x)
      onPath == {climb(f, x)[n] : n \in 0..Cardinality(DOMAIN f.parent)}
  IN [f EXCEPT !.parent = [y \in DOMAIN f.parent |->
                             IF y \in onPath THEN rootOf(f, x) ELSE f.parent[y]]]

(* Mutant: the node itself is hung below the other root, not its root.       *)
unionAtNodes(f0, a, b) ==
  LET f == find(find(f0, a), b)
      ra == rootOf(f, a)
      rb == rootOf(f, b)
  IN IF ra = rb THEN f
     ELSE IF f.rank[ra] < f.rank[rb] THEN [f EXCEPT !.parent[a] = rb, !.count = @ - 1]
     ELSE [f EXCEPT !.parent[b] = ra, !.count = @ - 1,
                    !.rank[ra] = IF f.rank[ra] = f.rank[rb] THEN @ + 1 ELSE @]

(* union()                                                                   *)
union(f0, a, b) ==
  LET f == find(find(f0, a), b)
      ra == rootOf(f, a)
      rb == rootOf(f, b)
  IN IF ra = rb THEN f
     ELSE IF f.rank[ra] < f.rank[rb] THEN [f EXCEPT !.parent[ra] = rb, !.count = @ - 1]
     ELSE [f EXCEPT !.parent[rb] = ra, !.count = @ - 1,
                    !.rank[ra] = IF f.rank[ra] = f.rank[rb] THEN @ + 1 ELSE @]

(* groups(), duplicateClusters()                                             *)
groups(f) == {{y \in DOMAIN f.parent : rootOf(f, y) = r} : r \in {rootOf(f, x) : x \in DOMAIN f.parent}}
duplicateClusters(f) == {g \in groups(f) : Cardinality(g) > 1}

(* The constructor, or a caller, registers a record.                         *)
dsuMakeSet(x) == forestBecomes(makeSet(forest, x)) /\ UNCHANGED compared

(* connected(), groups(): both compress paths.                               *)
dsuFind(x) == forestBecomes(find(forest, x)) /\ UNCHANGED compared

(* The loops of clusterDuplicates(): a similar pair of one block is merged.  *)
dsuUnion(a, b) ==
  /\ BlockOf[a] = BlockOf[b]
  /\ forestBecomes(union(forest, a, b))
  /\ compared' = compared \cup {{a, b}}

dsuNext ==
  \/ \E x \in Ids : dsuMakeSet(x) \/ dsuFind(x)
  \/ \E a, b \in Ids : a # b /\ dsuUnion(a, b)

-----------------------------------------------------------------------------
(* What the clusters should be: the records a chain of merged pairs links.   *)
linked(x) ==
  LET reach[n \in 0..Cardinality(Ids)] ==
        IF n = 0 THEN {x}
        ELSE LET r == reach[n - 1] IN r \cup UNION {p \in compared : p \cap r # {}}
  IN reach[Cardinality(Ids)]

(* "If A matches B and B matches C, all three land in one cluster"           *)
(* (union-find.ts:12-14), and nothing else does: whatever the order of       *)
(* merges and compressions, two records have one root exactly when a chain   *)
(* of merged pairs links them, the clusters stay within a block, the count   *)
(* is the number of clusters, and a root of rank r leads at least 2^r.      *)
ClustersAreChains ==
  /\ \A x \in DOMAIN parent : \E g \in groups(forest) : x \in g /\ g = linked(x)
  /\ componentCount = Cardinality(groups(forest))
  /\ \A g \in duplicateClusters(forest) : Cardinality({BlockOf[x] : x \in g}) = 1
  /\ \A x \in DOMAIN parent : Cardinality({y \in DOMAIN parent : rootOf(forest, y) = x}) >=
       IF parent[x] = x THEN 2 ^ rank[x] ELSE 0

-----------------------------------------------------------------------------
(***************************************************************************)
(* packages/algorithms/src/graph.ts: the dependency graph of APIs.  The    *)
(* outgoing maps and the incoming sets are kept side by side, in insertion *)
(* order; the searches walk one or both.  A loop with a queue or a stack   *)
(* is a function of the number of its iterations.                          *)
(***************************************************************************)
CONSTANTS
  GraphIds,     \* the nodes there may be
  MaxEdges      \* bound: edges present at once

ASSUME GraphAssumption == IsFiniteSet(GraphIds) /\ MaxEdges \in Nat

VARIABLES
  nodes,       \* the keys of the nodes map, in insertion order
  outgoing,    \* the targets of each node's edges, in insertion order
  incoming,    \* the sources
  edges        \* history: the edges asked for and not removed

graphVars == <<nodes, outgoing, incoming, edges>>

graphInit ==
  /\ nodes = <<>> /\ edges = {}
  /\ outgoing = [x \in GraphIds |-> <<>>] /\ incoming = [x \in GraphIds |-> {}]

withNode(ns, x) == IF x \in Range(ns) THEN ns ELSE Append(ns, x)

(* addNode()                                                                 *)
addNode(x) == nodes' = withNode(nodes, x) /\ UNCHANGED <<outgoing, incoming, edges>>

(* addEdge(): both endpoints are made; an edge that is there keeps its place.*)
addEdge(x, y) ==
  /\ Cardinality(edges \cup {<<x, y>>}) <= MaxEdges
  /\ nodes' = withNode(withNode(nodes, x), y)
  /\ outgoing' = [outgoing EXCEPT ![x] = withNode(@, y)]
  /\ incoming' = [incoming EXCEPT ![y] = @ \cup {x}]
  /\ edges' = edges \cup {<<x, y>>}

(* Mutant: the edge is not taken out of the other end's set.                 *)
removeEdgeHalf(x, y) ==
  /\ y \in Range(outgoing[x])
  /\ outgoing' = [outgoing EXCEPT ![x] = SelectSeq(@, LAMBDA z : z # y)]
  /\ edges' = edges \ {<<x, y>>}
  /\ UNCHANGED <<nodes, incoming>>

(* removeEdge()                                                              *)
removeEdge(x, y) ==
  /\ y \in Range(outgoing[x])
  /\ outgoing' = [outgoing EXCEPT ![x] = SelectSeq(@, LAMBDA z : z # y)]
  /\ incoming' = [incoming EXCEPT ![y] = @ \ {x}]
  /\ edges' = edges \ {<<x, y>>}
  /\ UNCHANGED nodes

graphNext == \E x, y \in GraphIds : addNode(x) \/ addEdge(x, y) \/ removeEdge(x, y)

-----------------------------------------------------------------------------
(* The searches                                                              *)

size == Len(nodes)

(* The queue shared by bfs() and shortestPath() after n of its entries were  *)
(* handled: each entry tells its depth and who put it there.                 *)
bfsQueue(start, maxDepth) ==
  LET handled[n \in 0..size] ==
        IF n = 0 THEN <<[id |-> start, depth |-> 0, from |-> start]>>
        ELSE LET q == handled[n - 1] IN
             IF n > Len(q) \/ (n <= Len(q) /\ q[n].depth >= maxDepth) THEN q
             ELSE LET fresh == SelectSeq(outgoing[q[n].id], LAMBDA y : y \notin {e.id : e \in Range(q)})
                  IN q \o [i \in 1..Len(fresh) |->
                             [id |-> fresh[i], depth |-> q[n].depth + 1, from |-> q[n].id]]
  IN handled[size]

bfs(start, maxDepth) == IF start \in Range(nodes) THEN bfsQueue(start, maxDepth) ELSE <<>>

(* shortestPath(): the entries back from the target; <<>> when there is none.*)
shortestPath(x, y) ==
  LET q == bfsQueue(x, size)
      entry(z) == CHOOSE e \in Range(q) : e.id = z
      back[n \in 0..size] == IF n = 0 THEN <<y>>
                             ELSE LET p == back[n - 1] IN
                                  IF p[1] = x THEN p ELSE <<entry(p[1]).from>> \o p
  IN IF {x, y} \subseteq Range(nodes) /\ y \in {e.id : e \in Range(q)} THEN back[size] ELSE <<>>

(* dfs(): a stack of candidates, neighbours in insertion order.              *)
dfs(start) ==
  LET run[n \in 0..(size + Cardinality(edges) + 1)] ==
        IF n = 0 THEN [stack |-> <<start>>, order |-> <<>>]
        ELSE LET s == run[n - 1] IN
             CASE s.stack = <<>> -> s
               [] s.stack # <<>> /\ Head(s.stack) \in Range(s.order) -> [s EXCEPT !.stack = Tail(@)]
               [] OTHER -> [stack |-> outgoing[Head(s.stack)] \o Tail(s.stack),
                            order |-> Append(s.order, Head(s.stack))]
  IN IF start \in Range(nodes) THEN run[size + Cardinality(edges) + 1].order ELSE <<>>

(* topologicalSort(): Kahn's queue; a node enters it when the last of its    *)
(* sources was handled.                                                      *)
kahnQueue ==
  LET handled[n \in 0..size] ==
        IF n = 0 THEN SelectSeq(nodes, LAMBDA x : Cardinality(incoming[x]) = 0)
        ELSE LET q == handled[n - 1]
                 done == {q[i] : i \in 1..n}
             IN IF n > Len(q) THEN q
                ELSE q \o SelectSeq(outgoing[q[n]], LAMBDA y :
                       Cardinality({x \in done : y \in Range(outgoing[x])}) = Cardinality(incoming[y]))
  IN handled[size]
hasCycle == Len(kahnQueue) # size

(* findCycle(): depth-first with colours; on a grey neighbour the cycle is   *)
(* read off the stack, whose frames are each other's parents.                *)
findCycle ==
  LET steps == 2 * (size + Cardinality(edges)) + size
      next(s) ==
        LET top == Last(s.stack) IN
        CASE s.stack = <<>> /\ \A x \in Range(nodes) : s.colour[x] # "white" -> s
          [] s.stack = <<>> /\ \E x \in Range(nodes) : s.colour[x] = "white" ->
               LET x == SelectSeq(nodes, LAMBDA z : s.colour[z] = "white")[1]
               IN [s EXCEPT !.stack = <<[id |-> x, at |-> 1]>>, !.colour[x] = "grey"]
          [] s.stack # <<>> /\ top.at > Len(outgoing[top.id]) ->
               [s EXCEPT !.stack = Front(@), !.colour[top.id] = "black"]
          [] OTHER ->
               LET y == outgoing[top.id][top.at]
                   on == Front(s.stack) \o <<[top EXCEPT !.at = @ + 1]>>
               IN CASE s.colour[y] = "grey" ->
                         LET from == CHOOSE i \in 1..Len(on) : on[i].id = y
                         IN [s EXCEPT !.cycle = [i \in 1..(Len(on) + 1 - from) |-> on[from + i - 1].id] \o <<y>>]
                    [] s.colour[y] = "white" ->
                         [s EXCEPT !.stack = Append(on, [id |-> y, at |-> 1]), !.colour[y] = "grey"]
                    [] OTHER -> [s EXCEPT !.stack = on]
      run[n \in 0..steps] ==
        IF n = 0 THEN [stack |-> <<>>, colour |-> [x \in GraphIds |-> "white"], cycle |-> <<>>]
        ELSE LET s == run[n - 1] IN IF s.cycle # <<>> THEN s ELSE next(s)
  IN run[steps].cycle

(* connectedComponents(): neighbours and predecessors alike.                 *)
component(start) ==
  LET grown[n \in 0..size] ==
        IF n = 0 THEN {start}
        ELSE LET g == grown[n - 1] IN g \cup UNION {Range(outgoing[x]) \cup incoming[x] : x \in g}
  IN grown[size]
connectedComponents == {component(x) : x \in Range(nodes)}

-----------------------------------------------------------------------------
(* What the searches should find, from the edges alone.                      *)
pathsOf(x, y, n) ==
  {p \in [1..n -> Range(nodes)] : p[1] = x /\ p[n] = y /\ \A i \in 1..(n - 1) : <<p[i], p[i + 1]>> \in edges}
reaches(x, y) == \E n \in 1..size : pathsOf(x, y, n) # {}
cyclic == \E x, y \in Range(nodes) : <<x, y>> \in edges /\ reaches(y, x)

(* After any sequence of additions and removals: dfs() and bfs() visit what  *)
(* can be reached, each node once, and bfs() at its distance; shortestPath() *)
(* is a path and none is shorter; the topological order, when there is one,  *)
(* respects every edge, and there is none exactly when findCycle() finds a   *)
(* cycle, which is one; the components are closed under every edge.          *)
SearchesRight ==
  /\ \A x \in Range(nodes) :
       LET reachable == {y \in Range(nodes) : reaches(x, y)} IN
       /\ Range(dfs(x)) = reachable /\ Len(dfs(x)) = Cardinality(reachable)
       /\ {e.id : e \in Range(bfs(x, size))} = reachable /\ Len(bfs(x, size)) = Cardinality(reachable)
       /\ \A e \in Range(bfs(x, size)) : /\ pathsOf(x, e.id, e.depth + 1) # {}
                                         /\ \A n \in 1..e.depth : pathsOf(x, e.id, n) = {}
       /\ \A y \in Range(nodes) :
            LET p == shortestPath(x, y) IN
            IF y \in reachable THEN p \in pathsOf(x, y, Len(p)) /\ \A n \in 1..(Len(p) - 1) : pathsOf(x, y, n) = {}
            ELSE p = <<>>
  /\ hasCycle = cyclic /\ (findCycle # <<>>) = cyclic
  /\ ~hasCycle => \A i, j \in 1..size : <<kahnQueue[i], kahnQueue[j]>> \in edges => i < j
  /\ cyclic => LET c == findCycle IN
               Len(c) > 1 /\ c[1] = Last(c) /\ \A i \in 1..(Len(c) - 1) : <<c[i], c[i + 1]>> \in edges
  /\ \A e \in edges : \A c \in connectedComponents : e[1] \in c <=> e[2] \in c
=============================================================================
