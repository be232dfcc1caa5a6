----------------------------- MODULE Collections -----------------------------
(***************************************************************************)
(* What the containers of the data structures library promise in           *)
(* interfaces/interface_ds.kyl, whatever the code does: a container is a   *)
(* mathematical object, a call changes it and answers from it. An answer   *)
(* is a tuple of numbers: <<>> is nil or an empty array, <<1>> is true,    *)
(* <<0>> is false.                                                         *)
(***************************************************************************)
EXTENDS Integers, Sequences, FiniteSets

CONSTANTS Values, Priorities, Keys, Vertices, Weights

VARIABLES sort,     \* what kind of container it is
          content,  \* what is in it
          said      \* the last call, its arguments and its answer

Is(op, arg, got) == said'.op = op /\ said'.arg = arg /\ said'.got = got

Truth(b) == IF b THEN <<1>> ELSE <<0>>
True == <<1>>

\* A call that changes nothing.
Answers(op, arg, got) == Is(op, arg, got) /\ content' = content

Common(empty, size) ==
    \/ Is("clear", <<>>, True) /\ content' = empty
    \/ Answers("size", <<>>, <<size>>)
    \/ Answers("isEmpty", <<>>, Truth(size = 0))

----------------------------------------------------------------------------
Without(s, i) == SubSeq(s, 1, i - 1) \o SubSeq(s, i + 1, Len(s))

Queue ==
    \/ \E v \in Values : Is("put", <<v>>, True) /\ content' = Append(content, v)
    \/ content = <<>> /\ \E op \in {"take", "peek"} : Answers(op, <<>>, <<>>)
    \/ /\ content # <<>>
       /\ \/ Is("take", <<>>, <<Head(content)>>) /\ content' = Tail(content)
          \/ Answers("peek", <<>>, <<Head(content)>>)
    \/ Common(<<>>, Len(content))

\* The content of a stack begins with its top.
Stack ==
    \/ \E v \in Values : Is("put", <<v>>, True) /\ content' = <<v>> \o content
    \/ content = <<>> /\ \E op \in {"take", "peek"} : Answers(op, <<>>, <<>>)
    \/ /\ content # <<>>
       /\ \/ Is("take", <<>>, <<Head(content)>>) /\ content' = Tail(content)
          \/ Answers("peek", <<>>, <<Head(content)>>)
    \/ Common(<<>>, Len(content))

\* Positions count from 0; those outside the list are refused.
Position(i) == i \in 0 .. Len(content) - 1
First(v) == {i \in 1 .. Len(content) : content[i] = v /\ \A j \in 1 .. i - 1 : content[j] # v}

Times(v, s) == Cardinality({i \in DOMAIN s : s[i] = v})

List ==
    \/ \E v \in Values :
         \/ Is("add", <<v>>, True) /\ content' = Append(content, v)
         \/ \E i \in -1 .. Len(content) + 1 :
              \/ /\ i \in 0 .. Len(content)
                 /\ Is("insert", <<i, v>>, True)
                 /\ content' = SubSeq(content, 1, i) \o <<v>> \o SubSeq(content, i + 1, Len(content))
              \/ i \notin 0 .. Len(content) /\ Answers("insert", <<i, v>>, Truth(FALSE))
              \/ Position(i) /\ Is("set", <<i, v>>, True) /\ content' = [content EXCEPT ![i + 1] = v]
              \/ ~Position(i) /\ Answers("set", <<i, v>>, Truth(FALSE))
         \/ \E i \in First(v) : \/ Is("remove", <<v>>, True) /\ content' = Without(content, i)
                                \/ Answers("indexOf", <<v>>, <<i - 1>>)
         \/ First(v) = {} /\ \/ Answers("remove", <<v>>, Truth(FALSE))
                             \/ Answers("indexOf", <<v>>, <<-1>>)
         \/ Answers("contains", <<v>>, Truth(First(v) # {}))
    \/ \E i \in -1 .. Len(content) :
         \/ Position(i) /\ \/ Is("removeAt", <<i>>, <<content[i + 1]>>) /\ content' = Without(content, i + 1)
                           \/ Answers("get", <<i>>, <<content[i + 1]>>)
         \/ ~Position(i) /\ \E op \in {"removeAt", "get"} : Answers(op, <<i>>, <<>>)
    \/ /\ Is("sort", <<>>, True)
       /\ Len(content') = Len(content)
       /\ \A v \in Values : Times(v, content') = Times(v, content)
       /\ \A i, j \in DOMAIN content : i < j => content'[i] <= content'[j]
    \/ Is("reverse", <<>>, True) /\ content' = [i \in DOMAIN content |-> content[Len(content) + 1 - i]]
    \/ Answers("toArray", <<>>, content)
    \/ Common(<<>>, Len(content))

----------------------------------------------------------------------------
\* How often each pair of a priority and a value is in the queue. sort says
\* which end is served first; among equals any may be. The pair is the answer
\* ("Returns {priority, value} or nil", line 39).
Items == Priorities \X Values
NoItems == [x \in Items |-> 0]
Inside == LET n == content IN {x \in Items : n[x] > 0}

Best == LET S == Inside
        IN  {x \in S : \A y \in S : IF sort = "maxHeap" THEN y[1] <= x[1] ELSE x[1] <= y[1]}

RECURSIVE Total(_, _)
Total(f, S) == IF S = {} THEN 0 ELSE LET x == CHOOSE y \in S : TRUE IN f[x] + Total(f, S \ {x})

PriorityQueue ==
    \/ \E x \in Items : Is("insert", <<x[1], x[2]>>, True) /\ content' = [content EXCEPT ![x] = @ + 1]
    \/ content = NoItems /\ \E op \in {"extract", "peek"} : Answers(op, <<>>, <<>>)
    \/ \E x \in Best :
         \/ Is("extract", <<>>, x) /\ content' = [content EXCEPT ![x] = @ - 1]
         \/ Answers("peek", <<>>, x)
    \/ \E v \in Values, p, q \in Priorities :
         \/ /\ <<p, v>> \in Inside
            /\ Is("changePriority", <<p, q, v>>, True)
            /\ content' = [x \in Items |-> content[x] - (IF x = <<p, v>> THEN 1 ELSE 0)
                                                     + (IF x = <<q, v>> THEN 1 ELSE 0)]
         \/ <<p, v>> \notin Inside /\ Answers("changePriority", <<p, q, v>>, Truth(FALSE))
    \/ Common(NoItems, Total(content, Items))

----------------------------------------------------------------------------
\* A sorted map is a function on a finite set of keys.
Ascending(S) ==
    CHOOSE s \in [1 .. Cardinality(S) -> S] : \A i, j \in DOMAIN s : i < j => s[i] < s[j]
Here == DOMAIN content
Greatest(S) == IF S = {} THEN <<>> ELSE <<CHOOSE k \in S : \A l \in S : l <= k>>
Least(S)    == IF S = {} THEN <<>> ELSE <<CHOOSE k \in S : \A l \in S : k <= l>>

SortedMap ==
    \/ \E k \in Keys :
         \/ \E v \in Values :
              /\ Is("put", <<k, v>>, True)
              /\ content' = [l \in Here \cup {k} |-> IF l = k THEN v ELSE content[l]]
         \/ Answers("get", <<k>>, IF k \in Here THEN <<content[k]>> ELSE <<>>)
         \/ Answers("contains", <<k>>, Truth(k \in Here))
         \/ Is("remove", <<k>>, Truth(k \in Here)) /\ content' = [l \in Here \ {k} |-> content[l]]
         \/ Answers("floorKey", <<k>>, Greatest({l \in Here : l <= k}))
         \/ Answers("ceilingKey", <<k>>, Least({l \in Here : k <= l}))
    \/ Answers("firstKey", <<>>, Least(Here))
    \/ Answers("lastKey", <<>>, Greatest(Here))
    \/ Answers("keys", <<>>, Ascending(Here))
    \/ Answers("values", <<>>, [i \in 1 .. Cardinality(Here) |-> content[Ascending(Here)[i]]])
    \/ Common([k \in {} |-> 0], Cardinality(Here))

----------------------------------------------------------------------------
\* A graph is the bag of its arcs and the number of its edges; an undirected
\* edge is two arcs, which come and go together.
Arcs == Vertices \X Vertices \X Weights
Bag(arcs) == [a \in Arcs |-> IF a \in DOMAIN arcs THEN arcs[a] ELSE 0]
Present == LET n == content.arcs IN {a \in Arcs : n[a] > 0}
Between(u, v) == {a \in Present : a[1] = u /\ a[2] = v}
Near(u) == {a[2] : a \in {b \in Present : b[1] = u}}

\* The vertices reached in at most n steps; all that are reached.
Within(u, n) ==
    LET here == Present
        f[m \in 0 .. n] ==
          IF m = 0 THEN {u} ELSE f[m - 1] \cup {a[2] : a \in {b \in here : b[1] \in f[m - 1]}}
    IN  f[n]
Reached(u) == Within(u, Cardinality(Vertices))
Hops(u, v) == CHOOSE n \in 0 .. Cardinality(Vertices) :
                v \in Within(u, n) /\ \A m \in 0 .. n - 1 : v \notin Within(u, m)

Listing(s, S) == Len(s) = Cardinality(S) /\ {s[i] : i \in 1 .. Len(s)} = S

Breadth(u, s) ==
    /\ Listing(s, Reached(u))
    /\ \A i, j \in 1 .. Len(s) : i < j => Hops(u, s[i]) <= Hops(u, s[j])

\* Each vertex after the first is next to the latest one before it that
\* still has somewhere new to go.
Depth(u, s) ==
    /\ Listing(s, Reached(u)) /\ s[1] = u
    /\ \A i \in 2 .. Len(s) :
         LET before == {s[j] : j \in 1 .. i - 1}
             open   == {j \in 1 .. i - 1 : ~ (Near(s[j]) \subseteq before)}
         IN  \E j \in open : (\A l \in open : l <= j) /\ s[i] \in Near(s[j])

Cheapest(u, v) ==
    CHOOSE w \in {a[3] : a \in Between(u, v)} : \A a \in Between(u, v) : w <= a[3]
RECURSIVE Cost(_)
Cost(s) == IF Len(s) <= 1 THEN 0 ELSE Cheapest(s[1], s[2]) + Cost(Tail(s))
Paths(u, v) ==
    LET near == [x \in Vertices |-> Near(x)]
    IN  {s \in UNION {[1 .. n -> Vertices] : n \in 1 .. Cardinality(Vertices)} :
           s[1] = u /\ s[Len(s)] = v /\ \A i \in 1 .. Len(s) - 1 : s[i + 1] \in near[s[i]]}

\* The path from u to v is a cheapest one; without any the array is empty.
Shortest(u, v, s) ==
    IF v \in Reached(u) THEN s \in Paths(u, v) /\ \A p \in Paths(u, v) : Cost(s) <= Cost(p)
    ELSE s = <<>>

\* How many arcs a an edge <<u, v, w>> is made of.
Part(a, u, v, w) == (IF a = <<u, v, w>> THEN 1 ELSE 0)
                    + (IF sort = "undirected" /\ a = <<v, u, w>> THEN 1 ELSE 0)

Graph ==
    \/ \E u, v \in Vertices :
         \/ \E w \in Weights :
              /\ Is("addEdge", <<u, v, w>>, True)
              /\ content' = [arcs  |-> [a \in Arcs |-> content.arcs[a] + Part(a, u, v, w)],
                             edges |-> content.edges + 1]
         \/ /\ Is("removeEdge", <<u, v>>, True)
            /\ \E e \in Between(u, v) :
                 content' = [arcs  |-> [a \in Arcs |-> content.arcs[a] - Part(a, u, v, e[3])],
                             edges |-> content.edges - 1]
         \/ Answers("removeEdge", <<u, v>>, Truth(FALSE)) /\ Between(u, v) = {}
         \/ Answers("hasEdge", <<u, v>>, Truth(Between(u, v) # {}))
         \/ /\ said'.op = "shortestPath" /\ said'.arg = <<u, v>>
            /\ Shortest(u, v, said'.got) /\ content' = content
    \/ \E u \in Vertices :
         /\ said'.arg = <<u>>
         /\ \/ said'.op = "bfs" /\ Breadth(u, said'.got)
            \/ said'.op = "dfs" /\ Depth(u, said'.got)
            \/ said'.op = "neighbors" /\ {said'.got[i] : i \in 1 .. Len(said'.got)} = Near(u)
         /\ content' = content
    \/ Answers("vertexCount", <<>>, <<Cardinality(Vertices)>>)
    \/ Answers("edgeCount", <<>>, <<content.edges>>)

----------------------------------------------------------------------------
Sorts == {"queue", "stack", "list", "minHeap", "maxHeap", "tree", "directed", "undirected"}

Empty(s) ==
    CASE s \in {"queue", "stack", "list"} -> <<>>
      [] s \in {"minHeap", "maxHeap"}     -> NoItems
      [] s = "tree"                       -> [k \in {} |-> 0]
      [] OTHER                            -> [arcs |-> [a \in Arcs |-> 0], edges |-> 0]

Init == sort \in Sorts /\ content = Empty(sort) /\ said = [op |-> "create", arg |-> <<>>, got |-> True]

Next ==
    /\ sort' = sort
    /\ \/ sort = "queue" /\ Queue
       \/ sort = "stack" /\ Stack
       \/ sort = "list" /\ List
       \/ sort \in {"minHeap", "maxHeap"} /\ PriorityQueue
       \/ sort = "tree" /\ SortedMap
       \/ sort \in {"directed", "undirected"} /\ Graph

Spec == Init /\ [][Next]_<<sort, content, said>>
=============================================================================
