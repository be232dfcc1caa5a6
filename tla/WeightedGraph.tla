---------------------------- MODULE WeightedGraph ----------------------------
(***************************************************************************)
(* graph.c as operators on adjacency lists: adj[v] is the list of the      *)
(* edges that leave v, the latest first. Weights are not negative: with a  *)
(* negative one the search of shortestPath need not end.                   *)
(***************************************************************************)
EXTENDS Integers, Sequences

Edge(to, w) == [dest |-> to, weight |-> w]

Prepend(adj, u, e) == [adj EXCEPT ![u] = <<e>> \o @]

AddEdge(adj, u, v, w, isDirected) ==
    LET out == Prepend(adj, u, Edge(v, w))
    IN  IF isDirected THEN out ELSE Prepend(out, v, Edge(u, w))

\* Where the first edge to v is in a list, or 0.
Place(list, v) ==
    LET at == {i \in 1 .. Len(list) : list[i].dest = v}
    IN  IF at = {} THEN 0 ELSE CHOOSE i \in at : \A j \in at : i <= j

\* Mutant: the edges in front of the one that is removed are lost.
RemoveFront(adj, u, v) ==
    [adj EXCEPT ![u] = SubSeq(@, Place(@, v) + 1, Len(@))]

RemoveEdge(adj, u, v) ==
    LET i == Place(adj[u], v)
    IN  [adj EXCEPT ![u] = SubSeq(@, 1, i - 1) \o SubSeq(@, i + 1, Len(@))]

Neighbors(adj, u) == [i \in 1 .. Len(adj[u]) |-> adj[u][i].dest]

\* The vertices of a list that are new, each once, in its order.
RECURSIVE Unvisited(_, _)
Unvisited(list, visited) ==
    IF list = <<>> THEN <<>>
    ELSE IF Head(list) \in visited THEN Unvisited(Tail(list), visited)
    ELSE <<Head(list)>> \o Unvisited(Tail(list), visited \cup {Head(list)})

Range(s) == {s[i] : i \in 1 .. Len(s)}

\* A vertex is marked when it enters the queue.
RECURSIVE Bfs(_, _, _, _)
Bfs(adj, queue, visited, out) ==
    IF queue = <<>> THEN out
    ELSE LET v == Head(queue)
             fresh == Unvisited(Neighbors(adj, v), visited)
         IN  Bfs(adj, Tail(queue) \o fresh, visited \cup Range(fresh), Append(out, v))

\* What dfs_helper has listed, and so visited, after going through a list.
RECURSIVE Dfs(_, _, _)
Dfs(adj, list, out) ==
    IF list = <<>> THEN out
    ELSE IF Head(list) \in Range(out) THEN Dfs(adj, Tail(list), out)
    ELSE Dfs(adj, Tail(list), Dfs(adj, Neighbors(adj, Head(list)), Append(out, Head(list))))

Far == 1000000   \* DBL_MAX
NoVertex == -1

Relax(s, u, e) ==
    IF s.dist[u] + e.weight < s.dist[e.dest]
    THEN [s EXCEPT !.dist[e.dest] = s.dist[u] + e.weight, !.prev[e.dest] = u] ELSE s

RECURSIVE RelaxAll(_, _, _)
RelaxAll(s, u, list) ==
    IF list = <<>> THEN s ELSE RelaxAll(Relax(s, u, Head(list)), u, Tail(list))

\* The first of the nearest vertices that have not been visited.
NearestOf(s) ==
    LET open == {v \in DOMAIN s.dist : v \notin s.visited /\ s.dist[v] < Far}
    IN  IF open = {} THEN NoVertex
        ELSE CHOOSE v \in open : \A w \in open :
               s.dist[v] < s.dist[w] \/ (s.dist[v] = s.dist[w] /\ v <= w)

RECURSIVE Dijkstra(_, _, _)
Dijkstra(adj, s, end) ==
    LET u == NearestOf(s)
    IN  IF u \in {NoVertex, end} THEN s
        ELSE Dijkstra(adj, RelaxAll([s EXCEPT !.visited = @ \cup {u}], u, adj[u]), end)

RECURSIVE Back(_, _)
Back(prev, v) == IF v = NoVertex THEN <<>> ELSE Append(Back(prev, prev[v]), v)

ShortestPath(adj, start, end) ==
    LET s == [dist    |-> [v \in DOMAIN adj |-> IF v = start THEN 0 ELSE Far],
              prev    |-> [v \in DOMAIN adj |-> NoVertex],
              visited |-> {}]
    IN  Back(Dijkstra(adj, s, end).prev, end)
=============================================================================
