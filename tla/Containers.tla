------------------------------ MODULE Containers ------------------------------
(***************************************************************************)
(* The sequential containers of shared_libs/ds as a script uses them: one  *)
(* object and any sequence of calls. obj holds the fields of the object's  *)
(* struct, node the list nodes that malloc has given out. Calls with wrong *)
(* arguments, which all containers refuse first, are left out, as is       *)
(* failing malloc; keys and list values are numbers.                       *)
(***************************************************************************)
EXTENDS SearchTree, WeightedGraph, FiniteSets, TLC

CONSTANTS Values, Priorities, Keys, Vertices, Weights,
          CreatedSorts,      \* which containers to create
          InitialCapacity,   \* 16 in the code
          MaxSize,           \* bound: elements of a container
          Links,             \* the edges a script adds: from, to, weight
          MaxDegree          \* bound: arcs of a vertex

VARIABLES sort, obj, node, said

vars == <<sort, obj, node, said>>

Nil == 0
Nodes == 1 .. MaxSize
FreeNode == [live |-> FALSE, value |-> Nil, next |-> Nil]

Truth(b) == IF b THEN <<1>> ELSE <<0>>
True == <<1>>

Says(op, arg, got) == said' = [op |-> op, arg |-> arg, got |-> got]
Reads(op, arg, got) == Says(op, arg, got) /\ UNCHANGED <<sort, obj, node>>
Sets(o) == obj' = o /\ UNCHANGED <<sort, node>>

Junk == 0
NoItem == <<Junk, Junk>>

New(s) ==
    CASE s = "queue" -> [front |-> Nil, rear |-> Nil, size |-> 0]
      [] s = "stack" -> [top |-> Nil, size |-> 0]
      [] s = "list"  -> [values |-> [i \in 0 .. InitialCapacity - 1 |-> Junk],
                         size |-> 0, capacity |-> InitialCapacity]
      [] s \in {"minHeap", "maxHeap"} ->
           [items |-> [i \in 0 .. InitialCapacity - 1 |-> NoItem], size |-> 0,
            capacity |-> InitialCapacity, isMaxHeap |-> s = "maxHeap"]
      [] s = "tree" -> [root |-> Leaf, size |-> 0]
      [] OTHER -> [adj |-> [v \in Vertices |-> <<>>], edgeCount |-> 0, isDirected |-> s = "directed"]

Init ==
    /\ sort \in CreatedSorts
    /\ obj = New(sort)
    /\ node = [n \in Nodes |-> FreeNode]
    /\ said = [op |-> "create", arg |-> <<>>, got |-> True]

SizeOf    == Reads("size", <<>>, <<obj.size>>)
IsEmpty   == Reads("isEmpty", <<>>, Truth(obj.size = 0))

----------------------------------------------------------------------------
(* queue.c *)

Fresh == CHOOSE n \in Nodes : ~node[n].live
Made(v, next) == [live |-> TRUE, value |-> v, next |-> next]

Enqueue(v) ==
    /\ obj.size < MaxSize
    /\ LET n == Fresh
       IN  /\ node' = [m \in Nodes |->
                         CASE m = n -> Made(v, Nil)
                           [] m = obj.rear -> [node[m] EXCEPT !.next = n]
                           [] OTHER -> node[m]]
           /\ obj' = [front |-> IF obj.rear = Nil THEN n ELSE obj.front, rear |-> n,
                      size |-> obj.size + 1]
    /\ Says("put", <<v>>, True)
    /\ UNCHANGED sort

Dequeue ==
    IF obj.front = Nil THEN Reads("take", <<>>, <<>>)
    ELSE LET n == obj.front
             next == node[n].next
         IN  /\ obj' = [front |-> next, rear |-> IF next = Nil THEN Nil ELSE obj.rear,
                        size |-> obj.size - 1]
             /\ node' = [node EXCEPT ![n] = FreeNode]
             /\ Says("take", <<>>, <<node[n].value>>)
             /\ UNCHANGED sort

Peek(n) == Reads("peek", <<>>, IF n = Nil THEN <<>> ELSE <<node[n].value>>)

\* The nodes from n on, as they are linked.
RECURSIVE From(_)
From(n) == IF n = Nil THEN <<>> ELSE <<n>> \o From(node[n].next)

FreeFrom(n) == node' = [m \in Nodes |-> IF m \in Range(From(n)) THEN FreeNode ELSE node[m]]

QueueClear ==
    /\ FreeFrom(obj.front)
    /\ obj' = New("queue")
    /\ Says("clear", <<>>, True) /\ UNCHANGED sort

QueueCall ==
    /\ sort = "queue"
    /\ (\E v \in Values : Enqueue(v)) \/ Dequeue \/ Peek(obj.front) \/ QueueClear \/ SizeOf \/ IsEmpty

----------------------------------------------------------------------------
(* stack.c *)

Push(v) ==
    /\ obj.size < MaxSize
    /\ node' = [node EXCEPT ![Fresh] = Made(v, obj.top)]
    /\ obj' = [top |-> Fresh, size |-> obj.size + 1]
    /\ Says("put", <<v>>, True) /\ UNCHANGED sort

Pop ==
    IF obj.top = Nil THEN Reads("take", <<>>, <<>>)
    ELSE /\ obj' = [top |-> node[obj.top].next, size |-> obj.size - 1]
         /\ node' = [node EXCEPT ![obj.top] = FreeNode]
         /\ Says("take", <<>>, <<node[obj.top].value>>)
         /\ UNCHANGED sort

StackClear ==
    /\ FreeFrom(obj.top)
    /\ obj' = New("stack")
    /\ Says("clear", <<>>, True) /\ UNCHANGED sort

StackCall ==
    /\ sort = "stack"
    /\ (\E v \in Values : Push(v)) \/ Pop \/ Peek(obj.top) \/ StackClear \/ SizeOf \/ IsEmpty

----------------------------------------------------------------------------
(* list.c *)

\* What realloc gives: the old elements, then whatever was there.
Resized(a, junk) ==
    LET n == Cardinality(DOMAIN a) IN [i \in 0 .. 2 * n - 1 |-> IF i < n THEN a[i] ELSE junk]

WithRoom ==
    IF obj.size >= obj.capacity
    THEN [obj EXCEPT !.values = Resized(@, Junk), !.capacity = 2 * @] ELSE obj

\* Elements from i on move to the right and v takes their place.
Shifted(a, i, v) ==
    [j \in DOMAIN a |-> CASE j = i -> v
                          [] j > i /\ j <= obj.size -> a[j - 1]
                          [] OTHER -> a[j]]

ListInsert(i, v) ==
    IF i < 0 \/ i > obj.size THEN Reads("insert", <<i, v>>, Truth(FALSE))
    ELSE /\ obj.size < MaxSize
         /\ Sets([WithRoom EXCEPT !.values = Shifted(@, i, v), !.size = @ + 1])
         /\ Says("insert", <<i, v>>, True)

ListAdd(v) ==
    /\ obj.size < MaxSize
    /\ Sets([WithRoom EXCEPT !.values[obj.size] = v, !.size = @ + 1])
    /\ Says("add", <<v>>, True)

\* Elements behind i move to the left; the last one stays where it was, too.
Closed(i) ==
    [obj EXCEPT !.values = [j \in DOMAIN @ |-> IF j >= i /\ j < obj.size - 1 THEN @[j + 1] ELSE @[j]],
                !.size = @ - 1]

Outside(i) == i < 0 \/ i >= obj.size

ListRemoveAt(i) ==
    IF Outside(i) THEN Reads("removeAt", <<i>>, <<>>)
    ELSE Sets(Closed(i)) /\ Says("removeAt", <<i>>, <<obj.values[i]>>)

\* The first place of v, or -1.
IndexOf(v) ==
    LET at == {i \in 0 .. obj.size - 1 : obj.values[i] = v}
    IN  IF at = {} THEN -1 ELSE CHOOSE i \in at : \A j \in at : i <= j

ListRemove(v) ==
    IF IndexOf(v) = -1 THEN Reads("remove", <<v>>, Truth(FALSE))
    ELSE Sets(Closed(IndexOf(v))) /\ Says("remove", <<v>>, True)

ListGet(i) == Reads("get", <<i>>, IF Outside(i) THEN <<>> ELSE <<obj.values[i]>>)

ListSet(i, v) ==
    IF Outside(i) THEN Reads("set", <<i, v>>, Truth(FALSE))
    ELSE Sets([obj EXCEPT !.values[i] = v]) /\ Says("set", <<i, v>>, True)

Elements == [i \in 1 .. obj.size |-> obj.values[i - 1]]

Rearranged(s) ==
    Sets([obj EXCEPT !.values = [j \in DOMAIN @ |-> IF j < obj.size THEN s[j + 1] ELSE @[j]]])

\* qsort, for numbers.
ListSort == Rearranged(SortSeq(Elements, LAMBDA a, b : a < b)) /\ Says("sort", <<>>, True)

\* Of an empty list the code computes size - 1 and runs away; not modelled.
ListReverse ==
    /\ obj.size > 0
    /\ Rearranged([i \in DOMAIN Elements |-> Elements[obj.size + 1 - i]])
    /\ Says("reverse", <<>>, True)

ListClear == Sets([obj EXCEPT !.size = 0]) /\ Says("clear", <<>>, True)

Indices == -1 .. obj.size + 1

ListCall ==
    /\ sort = "list"
    /\ \/ \E v \in Values :
            \/ ListAdd(v) \/ ListRemove(v)
            \/ Reads("contains", <<v>>, Truth(IndexOf(v) # -1))
            \/ Reads("indexOf", <<v>>, <<IndexOf(v)>>)
            \/ \E i \in Indices : ListInsert(i, v) \/ ListSet(i, v)
       \/ \E i \in -1 .. obj.size : ListRemoveAt(i) \/ ListGet(i)
       \/ ListSort \/ ListReverse \/ ListClear \/ SizeOf \/ IsEmpty
       \/ Reads("toArray", <<>>, Elements)

----------------------------------------------------------------------------
(* priority_queue.c: a binary heap in an array. *)

Parent(i) == (i - 1) \div 2
LeftChild(i) == 2 * i + 1
RightChild(i) == 2 * i + 2

Better(x, y) == IF obj.isMaxHeap THEN x[1] > y[1] ELSE x[1] < y[1]

Swapped(a, i, j) == [a EXCEPT ![i] = a[j], ![j] = a[i]]

RECURSIVE SiftUp(_, _)
SiftUp(a, i) ==
    IF i > 0 /\ Better(a[i], a[Parent(i)]) THEN SiftUp(Swapped(a, i, Parent(i)), Parent(i)) ELSE a

\* The best of i and its children among the first n elements.
BestOf(a, i, n) ==
    LET l == LeftChild(i)
        r == RightChild(i)
        b == IF l < n /\ Better(a[l], a[i]) THEN l ELSE i
    IN  IF r < n /\ Better(a[r], a[b]) THEN r ELSE b

RECURSIVE SiftDown(_, _, _)
SiftDown(a, i, n) ==
    LET b == BestOf(a, i, n) IN IF b = i THEN a ELSE SiftDown(Swapped(a, i, b), b, n)

HeapInsert(p, v) ==
    /\ obj.size < MaxSize
    /\ LET full  == obj.size >= obj.capacity
           items == IF full THEN Resized(obj.items, NoItem) ELSE obj.items
       IN  Sets([obj EXCEPT !.items = SiftUp([items EXCEPT ![obj.size] = <<p, v>>], obj.size),
                            !.size = @ + 1,
                            !.capacity = IF full THEN 2 * @ ELSE @])
    /\ Says("insert", <<p, v>>, True)

HeapExtract ==
    IF obj.size = 0 THEN Reads("extract", <<>>, <<>>)
    ELSE LET n == obj.size - 1
         IN  /\ Sets([obj EXCEPT !.size = n,
                        !.items = IF n = 0 THEN @ ELSE SiftDown([@ EXCEPT ![0] = obj.items[n]], 0, n)])
             /\ Says("extract", <<>>, <<obj.items[0][2]>>)

HeapPeek == Reads("peek", <<>>, IF obj.size = 0 THEN <<>> ELSE <<obj.items[0][2]>>)

\* Only the number of arguments is looked at; the array is made a heap again.
RECURSIVE Heapify(_, _)
Heapify(a, i) == IF i < 0 THEN a ELSE Heapify(SiftDown(a, i, obj.size), i - 1)

HeapChangePriority(p, q, v) ==
    /\ Sets([obj EXCEPT !.items = Heapify(@, obj.size \div 2 - 1)])
    /\ Says("changePriority", <<p, q, v>>, True)

HeapClear == Sets([obj EXCEPT !.size = 0]) /\ Says("clear", <<>>, True)

HeapCall ==
    /\ sort \in {"minHeap", "maxHeap"}
    /\ \/ \E p \in Priorities, v \in Values :
            HeapInsert(p, v) \/ \E q \in Priorities : HeapChangePriority(p, q, v)
       \/ HeapExtract \/ HeapPeek \/ HeapClear \/ SizeOf \/ IsEmpty

----------------------------------------------------------------------------
(* treemap.c *)

Found(k) == Lookup(obj.root, k)

TreePut(k, v) ==
    /\ obj.size < MaxSize \/ Found(k) # Leaf
    /\ Sets([root |-> Insert(obj.root, k, v),
             size |-> IF Found(k) = Leaf THEN obj.size + 1 ELSE obj.size])
    /\ Says("put", <<k, v>>, True)

TreeGet(k) == Reads("get", <<k>>, IF Found(k) = Leaf THEN <<>> ELSE <<Found(k).value>>)
TreeContains(k) == Reads("contains", <<k>>, Truth(Found(k) # Leaf))

\* "Remove is complex in AVL, return false for now".
TreeRemove(k) == Reads("remove", <<k>>, Truth(FALSE))

TreeClear == Sets(New("tree")) /\ Says("clear", <<>>, True)

TreeFirstKey == Reads("firstKey", <<>>, IF obj.root = Leaf THEN <<>> ELSE <<Leftmost(obj.root).key>>)
TreeLastKey  == Reads("lastKey", <<>>, IF obj.root = Leaf THEN <<>> ELSE <<Rightmost(obj.root).key>>)
TreeKeys == Reads("keys", <<>>, [i \in 1 .. obj.size |-> InOrder(obj.root)[i].key])
TreeValues == Reads("values", <<>>, [i \in 1 .. obj.size |-> InOrder(obj.root)[i].value])

TreeCall ==
    /\ sort = "tree"
    /\ \/ \E k \in Keys :
            \/ \E v \in Values : TreePut(k, v)
            \/ TreeGet(k) \/ TreeContains(k) \/ TreeRemove(k)
            \/ Reads("floorKey", <<k>>, Floor(obj.root, k, <<>>))
            \/ Reads("ceilingKey", <<k>>, Ceiling(obj.root, k, <<>>))
       \/ TreeClear \/ TreeFirstKey \/ TreeLastKey \/ TreeKeys \/ TreeValues \/ SizeOf \/ IsEmpty

----------------------------------------------------------------------------
(* graph.c *)

GraphAddEdge(u, v, w) ==
    /\ \A x \in {u, v} : Len(obj.adj[x]) < MaxDegree
    /\ Sets([obj EXCEPT !.adj = AddEdge(@, u, v, w, obj.isDirected), !.edgeCount = @ + 1])
    /\ Says("addEdge", <<u, v, w>>, True)

\* The edge back of an undirected graph stays; removed in its turn it counts
\* as an edge again, so that the number of edges falls below zero: once,
\* here.
GraphRemoveEdge(u, v) ==
    IF Place(obj.adj[u], v) = 0 THEN Reads("removeEdge", <<u, v>>, Truth(FALSE))
    ELSE /\ obj.edgeCount >= 0
         /\ Sets([obj EXCEPT !.adj = RemoveEdge(@, u, v), !.edgeCount = @ - 1])
         /\ Says("removeEdge", <<u, v>>, True)

GraphHasEdge(u, v) == Reads("hasEdge", <<u, v>>, Truth(Place(obj.adj[u], v) # 0))

GraphCall ==
    /\ sort \in {"directed", "undirected"}
    /\ \/ \E e \in Links : GraphAddEdge(e[1], e[2], e[3])
       \/ \E u, v \in Vertices :
            \/ GraphRemoveEdge(u, v) \/ GraphHasEdge(u, v)
            \/ Reads("shortestPath", <<u, v>>, ShortestPath(obj.adj, u, v))
       \/ \E u \in Vertices :
            \/ Reads("neighbors", <<u>>, Neighbors(obj.adj, u))
            \/ Reads("bfs", <<u>>, Bfs(obj.adj, <<u>>, {u}, <<>>))
            \/ Reads("dfs", <<u>>, Dfs(obj.adj, <<u>>, <<>>))
       \/ Reads("vertexCount", <<>>, <<Cardinality(Vertices)>>)
       \/ Reads("edgeCount", <<>>, <<obj.edgeCount>>)

----------------------------------------------------------------------------
\* What may follow a question may also follow the call before it, which
\* leaves the same object: a behaviour ends with its first question. So it
\* does with changePriority, which finds a heap and rearranges nothing.
Questions ==
    {"size", "isEmpty", "peek", "contains", "indexOf", "get", "toArray", "floorKey", "ceilingKey",
     "firstKey", "lastKey", "keys", "values", "hasEdge", "shortestPath", "neighbors", "bfs", "dfs",
     "vertexCount", "edgeCount", "changePriority"}

Next ==
    /\ said.op \notin Questions
    /\ QueueCall \/ StackCall \/ ListCall \/ HeapCall \/ TreeCall \/ GraphCall

Spec == Init /\ [][Next]_vars

----------------------------------------------------------------------------
(* Properties. *)

\* queue.c, stack.c: the nodes reached from the front (the top) are exactly
\* those malloc has given out, each once, as many as size says, and rear is
\* the last of them: nothing is leaked, freed twice or linked to freed memory.
Linked(n) ==
    /\ \A i \in 1 .. Len(From(n)) : node[From(n)[i]].live
    /\ Len(From(n)) = obj.size
    /\ Range(From(n)) = {m \in Nodes : node[m].live}
    /\ sort = "queue" => obj.rear = IF n = Nil THEN Nil ELSE From(n)[obj.size]

ListsLinked ==
    CASE sort = "queue" -> Linked(obj.front)
      [] sort = "stack" -> Linked(obj.top)
      [] OTHER -> TRUE

\* priority_queue.c: no element is better than its parent.
HeapOrdered ==
    sort \in {"minHeap", "maxHeap"} =>
      \A i \in 1 .. obj.size - 1 : ~Better(obj.items[i], obj.items[Parent(i)])

\* treemap.c: the stored heights are right and the tree is balanced.
TreeBalanced == sort = "tree" => Balanced(obj.root)

\* Whatever was called before, the representation is sound: nodes linked,
\* heap ordered, tree balanced.
WellFormed == ListsLinked /\ HeapOrdered /\ TreeBalanced

\* What each object stands for.
Times(s, x) == Cardinality({i \in 1 .. Len(s) : s[i] = x})
Abstract ==
    CASE sort = "queue" -> [i \in 1 .. Len(From(obj.front)) |-> node[From(obj.front)[i]].value]
      [] sort = "stack" -> [i \in 1 .. Len(From(obj.top)) |-> node[From(obj.top)[i]].value]
      [] sort = "list"  -> Elements
      [] sort \in {"minHeap", "maxHeap"} ->
           [x \in Priorities \X Values |-> Times([i \in 1 .. obj.size |-> obj.items[i - 1]], x)]
      [] sort = "tree" ->
           LET s == InOrder(obj.root)
           IN  [k \in {s[i].key : i \in 1 .. Len(s)} |-> s[CHOOSE i \in 1 .. Len(s) : s[i].key = k].value]
      [] OTHER ->
           [arcs  |-> [a \in Vertices \X Vertices \X Weights |-> Times(obj.adj[a[1]], Edge(a[2], a[3]))],
            edges |-> obj.edgeCount]

Promised == INSTANCE Collections WITH content <- Abstract

\* interface_ds.kyl keeps its promises: refuted, in each of the five calls
\* below (README, section 7).
ImplementsCollections == Promised!Spec

\* The calls that do something else than the interface says, and what they do.
Call(op, arg, got) == said'.op = op /\ said'.arg = arg /\ said'.got = got
Stays == Abstract' = Abstract

\* ds_priorityQueueExtract "Returns {priority, value} or nil" (line 39), and
\* peek is of the same kind: the code takes, or looks at, an item that is
\* best and answers its value alone.
ValueAlone ==
    \E x \in Promised!Best :
      \/ Call("extract", <<>>, <<x[2]>>) /\ Abstract' = [Abstract EXCEPT ![x] = @ - 1]
      \/ Call("peek", <<>>, <<x[2]>>) /\ Stays

\* ds_priorityQueueChangePriority(pq, oldPriority, newPriority, value): true,
\* and no priority changes.
PriorityStays == \E v \in Values, p, q \in Priorities : Call("changePriority", <<p, q, v>>, True) /\ Stays

\* ds_treeMapRemove, "Remove by key" (line 77): false, and the key stays.
KeyStays == \E k \in Promised!Here : Call("remove", <<k>>, Truth(FALSE)) /\ Stays

\* ds_graphRemoveEdge of an undirected graph: one of the two arcs goes.
ReverseStays ==
    \E u, v \in Vertices :
      /\ Call("removeEdge", <<u, v>>, True)
      /\ \E a \in Promised!Between(u, v) :
           Abstract' = [arcs |-> [Abstract.arcs EXCEPT ![a] = @ - 1], edges |-> Abstract.edges - 1]

\* ds_graphShortestPath, "Dijkstra's algorithm" (line 104), to a vertex that
\* cannot be reached: a path of that vertex alone.
PathFromNowhere ==
    \E u, v \in Vertices :
      Call("shortestPath", <<u, v>>, <<v>>) /\ v \notin Promised!Reached(u) /\ Stays

Departs ==
    \/ sort \in {"minHeap", "maxHeap"} /\ (ValueAlone \/ PriorityStays)
    \/ sort = "tree" /\ KeyStays
    \/ sort = "undirected" /\ ReverseStays
    \/ sort \in {"directed", "undirected"} /\ PathFromNowhere

\* Every call of every sequence changes what the container stands for as
\* interface_ds.kyl says and answers from it (FIFO, LIFO, positions, best
\* first, sorted keys, reachable vertices, cheapest paths), but for the calls
\* of Departs, which do exactly what is written there and no harm beyond it.
PromisedOrDeparts == Promised!Init /\ [][Promised!Next \/ Departs]_<<sort, Abstract, said>>
=============================================================================
