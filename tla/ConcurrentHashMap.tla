--------------------------- MODULE ConcurrentHashMap ---------------------------
(***************************************************************************)
(* src/shared_libs/ds/concurrent_hashmap.c: a table of linked lists under  *)
(* lock striping.  The list of a key is its hash modulo the capacity, its  *)
(* lock the hash modulo the number of locks; map->size belongs to no lock, *)
(* so its ++ and -- are a load and a store.                                *)
(*                                                                         *)
(* A node is named by the number of the call that allocates it; MaxCalls   *)
(* bounds the calls.  A search walks its list in one step: the lists it    *)
(* could be disturbed in are those of its own stripe.                      *)
(***************************************************************************)
EXTENDS Naturals, FiniteSets

CONSTANTS
  Thread, Key, Value, Absent,
  Hash,        \* the hash of each key, before the modulo
  Capacity,    \* map->capacity: the caller's choice, at least 4
  LockCount,   \* map->lock_count: 16
  SizeModulus, \* size_t is a number modulo 2^64
  MaxCalls,
  NoThread

ASSUME HashAssumption == Hash \in [Key -> Nat]
ASSUME CapacityAssumption == Capacity \in Nat \ {0} /\ LockCount \in Nat \ {0}
ASSUME NullAssumption == Absent \notin Value /\ NoThread \notin Thread
ASSUME BoundsAssumption == SizeModulus \in Nat \ {0} /\ MaxCalls \in Nat

WriteOp == {"put", "putIfAbsent", "replace"}
ReadOp == {"get", "contains", "remove"}
WholeOp == {"clear", "keys", "size"}
Call == [op : WriteOp \ {"replace"}, key : Key, val : Value]
          \cup [op : {"replace"}, key : Key, old : Value, val : Value]
          \cup [op : ReadOp, key : Key] \cup [op : WholeOp]
NoCall == [op |-> "none"]

Bucket == 0 .. Capacity - 1
Lock == 0 .. LockCount - 1
Node == 1 .. MaxCalls
Null == 0

BucketOf(k) == Hash[k] % Capacity
LockOf(k) == Hash[k] % LockCount

VARIABLES
  buckets,     \* map->buckets: the first node of each list
  next,        \* node->next
  nodeKey, nodeVal,  \* node->key, node->value
  size,        \* map->size
  owner,       \* which thread holds each lock
  pc,          \* where each thread is in its call
  call,        \* the call: operation, key and value
  node, prev,  \* the search's local variables; node is also the new node
  sizeRead,    \* the value of size the thread has loaded
  turn,        \* the loop variable i of clear and keys
  result,      \* what the call returns, once that is decided
  calls        \* how many calls were made

nodeVars == <<buckets, next, nodeKey, nodeVal>>
localVars == <<node, prev, sizeRead, turn>>
vars == <<nodeVars, size, owner, pc, call, localVars, result, calls>>

PC == {"idle", "lock", "search", "publish", "unlink", "sizeLoad", "sizeStore",
       "unlock", "lockAll", "body", "unlockAll"}

TypeOK ==
  /\ buckets \in [Bucket -> Node \cup {Null}]
  /\ next \in [Node -> Node \cup {Null}]
  /\ nodeKey \in [Node -> Key \cup {Absent}]
  /\ nodeVal \in [Node -> Value \cup {Absent}]
  /\ size \in 0 .. SizeModulus - 1
  /\ owner \in [Lock -> Thread \cup {NoThread}]
  /\ pc \in [Thread -> PC]
  /\ call \in [Thread -> Call \cup {NoCall}]
  /\ node \in [Thread -> Node \cup {Null}]
  /\ prev \in [Thread -> Node \cup {Null}]
  /\ sizeRead \in [Thread -> 0 .. SizeModulus - 1]
  /\ turn \in [Thread -> 0 .. LockCount]
  /\ calls \in 0 .. MaxCalls

Init ==
  /\ buckets = [b \in Bucket |-> Null]
  /\ next = [n \in Node |-> Null]
  /\ nodeKey = [n \in Node |-> Absent]
  /\ nodeVal = [n \in Node |-> Absent]
  /\ size = 0
  /\ owner = [l \in Lock |-> NoThread]
  /\ pc = [t \in Thread |-> "idle"]
  /\ call = [t \in Thread |-> NoCall]
  /\ node = [t \in Thread |-> Null]
  /\ prev = [t \in Thread |-> Null]
  /\ sizeRead = [t \in Thread |-> 0]
  /\ turn = [t \in Thread |-> 0]
  /\ result = [t \in Thread |-> {}]
  /\ calls = 0

Goes(t, from, to) == pc[t] = from /\ pc' = [pc EXCEPT ![t] = to]
Op(t) == call[t].op
MyBucket(t) == BucketOf(call[t].key)
MyLock(t) == LockOf(call[t].key)
Answer(t, a) == result' = [result EXCEPT ![t] = a]

\* The nodes of the list that starts with node n: those in every set of nodes that
\* has n and, with a node, the next one.
Closed(links, S) == \A m \in S : links[m] \in S \cup {Null}
From(links, n) ==
  {m \in Node : n # Null /\ \A S \in SUBSET Node : n \in S /\ Closed(links, S) => m \in S}
List(n) == From(next, n)

Linked == UNION {List(buckets[b]) : b \in Bucket}

-----------------------------------------------------------------------------
\* A call starts.  The node it may allocate is number calls + 1.
Begin(t) ==
  /\ calls < MaxCalls
  /\ pc[t] = "idle"
  /\ calls' = calls + 1
  /\ \E c \in Call :
       /\ call' = [call EXCEPT ![t] = c]
       /\ pc' = [pc EXCEPT ![t] = CASE c.op \in WriteOp \cup ReadOp -> "lock"
                                    [] c.op \in {"clear", "keys"} -> "lockAll"
                                    [] OTHER -> "body"]
  /\ node' = [node EXCEPT ![t] = calls + 1]
  /\ UNCHANGED <<nodeVars, size, owner, prev, sizeRead, turn, result>>

\* size and isEmpty read map->size under no lock at all.
ReadSize(t) ==
  /\ Op(t) = "size"
  /\ Goes(t, "body", "unlockAll")
  /\ Answer(t, {size})
  /\ turn' = [turn EXCEPT ![t] = LockCount]
  /\ UNCHANGED <<nodeVars, size, owner, call, node, prev, sizeRead, calls>>

Acquire(t) ==
  /\ Goes(t, "lock", "search")
  /\ owner[MyLock(t)] = NoThread
  /\ owner' = [owner EXCEPT ![MyLock(t)] = t]
  /\ UNCHANGED <<nodeVars, size, call, localVars, result, calls>>

-----------------------------------------------------------------------------
(* The search, and what each operation does with its outcome *)

Found(t) == {n \in List(buckets[MyBucket(t)]) : nodeKey[n] = call[t].key}
Before(t, n) == {m \in List(buckets[MyBucket(t)]) : next[m] = n}

SearchHits(t, n) ==
  /\ pc[t] = "search"
  /\ n \in Found(t)
  /\ IF Op(t) = "remove"
     THEN /\ pc' = [pc EXCEPT ![t] = "unlink"]
          /\ node' = [node EXCEPT ![t] = n]
          /\ prev' = [prev EXCEPT ![t] =
               IF Before(t, n) = {} THEN Null ELSE CHOOSE m \in Before(t, n) : TRUE]
          /\ UNCHANGED result
     ELSE /\ pc' = [pc EXCEPT ![t] = "unlock"]
          /\ Answer(t, CASE Op(t) = "get" -> {nodeVal[n]}
                         [] Op(t) = "putIfAbsent" -> {FALSE}
                         [] OTHER -> {TRUE})
          /\ UNCHANGED <<node, prev>>
  /\ nodeVal' = IF Op(t) \in {"put", "replace"}
                THEN [nodeVal EXCEPT ![n] = call[t].val] ELSE nodeVal
  /\ UNCHANGED <<buckets, next, nodeKey, size, owner, call, sizeRead, turn, calls>>

\* put and putIfAbsent prepare the new node: it points to the first of the list.
SearchMisses(t) ==
  /\ pc[t] = "search"
  /\ Found(t) = {}
  /\ IF Op(t) \in {"put", "putIfAbsent"}
     THEN /\ pc' = [pc EXCEPT ![t] = "publish"]
          /\ nodeKey' = [nodeKey EXCEPT ![node[t]] = call[t].key]
          /\ nodeVal' = [nodeVal EXCEPT ![node[t]] = call[t].val]
          /\ next' = [next EXCEPT ![node[t]] = buckets[MyBucket(t)]]
          /\ UNCHANGED result
     ELSE /\ pc' = [pc EXCEPT ![t] = "unlock"]
          /\ Answer(t, IF Op(t) = "get" THEN {Absent} ELSE {FALSE})
          /\ UNCHANGED <<nodeKey, nodeVal, next>>
  /\ UNCHANGED <<buckets, size, owner, call, localVars, calls>>

Publish(t) ==
  /\ Goes(t, "publish", "sizeLoad")
  /\ buckets' = [buckets EXCEPT ![MyBucket(t)] = node[t]]
  /\ Answer(t, {TRUE})
  /\ UNCHANGED <<next, nodeKey, nodeVal, size, owner, call, localVars, calls>>

\* Mutant: remove forgets the nodes in front of the one it removes.
UnlinkHead(t) ==
  /\ Goes(t, "unlink", "sizeLoad")
  /\ buckets' = [buckets EXCEPT ![MyBucket(t)] = next[node[t]]]
  /\ Answer(t, {TRUE})
  /\ UNCHANGED <<next, nodeKey, nodeVal, size, owner, call, localVars, calls>>

Unlink(t) ==
  /\ Goes(t, "unlink", "sizeLoad")
  /\ IF prev[t] = Null
     THEN buckets' = [buckets EXCEPT ![MyBucket(t)] = next[node[t]]] /\ UNCHANGED next
     ELSE next' = [next EXCEPT ![prev[t]] = next[node[t]]] /\ UNCHANGED buckets
  /\ nodeKey' = [nodeKey EXCEPT ![node[t]] = Absent]
  /\ nodeVal' = [nodeVal EXCEPT ![node[t]] = Absent]
  /\ Answer(t, {TRUE})
  /\ UNCHANGED <<size, owner, call, localVars, calls>>

LoadSize(t) ==
  /\ Goes(t, "sizeLoad", "sizeStore")
  /\ sizeRead' = [sizeRead EXCEPT ![t] = size]
  /\ UNCHANGED <<nodeVars, size, owner, call, node, prev, turn, result, calls>>

StoreSize(t) ==
  /\ Goes(t, "sizeStore", "unlock")
  /\ size' = (IF Op(t) = "remove" THEN sizeRead[t] + SizeModulus - 1 ELSE sizeRead[t] + 1)
             % SizeModulus
  /\ UNCHANGED <<nodeVars, owner, call, localVars, result, calls>>

\* The call returns: its local variables are gone.
Leave(t) ==
  /\ pc' = [pc EXCEPT ![t] = "idle"]
  /\ call' = [call EXCEPT ![t] = NoCall]
  /\ node' = [node EXCEPT ![t] = Null]
  /\ prev' = [prev EXCEPT ![t] = Null]
  /\ sizeRead' = [sizeRead EXCEPT ![t] = 0]
  /\ turn' = [turn EXCEPT ![t] = 0]
  /\ Answer(t, {})

Release(t) ==
  /\ pc[t] = "unlock"
  /\ owner' = [owner EXCEPT ![MyLock(t)] = NoThread]
  /\ Leave(t)
  /\ UNCHANGED <<nodeVars, size, calls>>

-----------------------------------------------------------------------------
(* clear and keys take all locks in ascending order *)

\* Mutant: each of them starts at another end.
AcquireNextDisordered(t) ==
  LET l == IF Op(t) = "keys" THEN turn[t] ELSE LockCount - 1 - turn[t]
  IN /\ pc[t] = "lockAll"
     /\ owner[l] = NoThread
     /\ owner' = [owner EXCEPT ![l] = t]
     /\ turn' = [turn EXCEPT ![t] = (@ + 1) % LockCount]
     /\ pc' = [pc EXCEPT ![t] = IF turn[t] + 1 < LockCount THEN "lockAll" ELSE "body"]
     /\ UNCHANGED <<nodeVars, size, call, node, prev, sizeRead, result, calls>>

AcquireNext(t) ==
  /\ pc[t] = "lockAll"
  /\ owner[turn[t]] = NoThread
  /\ owner' = [owner EXCEPT ![turn[t]] = t]
  /\ turn' = [turn EXCEPT ![t] = (@ + 1) % LockCount]
  /\ pc' = [pc EXCEPT ![t] = IF turn[t] + 1 < LockCount THEN "lockAll" ELSE "body"]
  /\ UNCHANGED <<nodeVars, size, call, node, prev, sizeRead, result, calls>>

Clear(t) ==
  /\ Op(t) = "clear"
  /\ Goes(t, "body", "unlockAll")
  /\ buckets' = [b \in Bucket |-> Null]
  /\ nodeKey' = [n \in Node |-> Absent]
  /\ nodeVal' = [n \in Node |-> Absent]
  /\ size' = 0
  /\ Answer(t, {TRUE})
  /\ UNCHANGED <<next, owner, call, localVars, calls>>

\* keys writes one key per node into an array of size elements.
ListKeys(t) ==
  /\ Op(t) = "keys"
  /\ Goes(t, "body", "unlockAll")
  /\ Answer(t, {nodeKey[n] : n \in Linked})
  /\ UNCHANGED <<nodeVars, size, owner, call, localVars, calls>>

ReleaseNext(t) ==
  /\ pc[t] = "unlockAll"
  /\ IF turn[t] < LockCount
     THEN /\ owner' = [owner EXCEPT ![turn[t]] = NoThread]
          /\ turn' = [turn EXCEPT ![t] = @ + 1]
          /\ UNCHANGED <<pc, call, node, prev, sizeRead, result>>
     ELSE UNCHANGED owner /\ Leave(t)
  /\ UNCHANGED <<nodeVars, size, calls>>

-----------------------------------------------------------------------------
InCall(t) ==
  \/ ReadSize(t) \/ Acquire(t)
  \/ (\E n \in Node : SearchHits(t, n)) \/ SearchMisses(t)
  \/ Publish(t) \/ Unlink(t) \/ LoadSize(t) \/ StoreSize(t) \/ Release(t)
  \/ AcquireNext(t) \/ Clear(t) \/ ListKeys(t) \/ ReleaseNext(t)

Next == \E t \in Thread : Begin(t) \/ InCall(t)

Spec == Init /\ [][Next]_vars

-----------------------------------------------------------------------------
(* Properties *)

\* Two threads are never at work in the same list.
InList(t) == pc[t] \in {"search", "publish", "unlink", "sizeLoad", "sizeStore", "unlock"}
ListExclusion ==
  \A t, u \in Thread : t # u /\ InList(t) /\ InList(u) => MyBucket(t) # MyBucket(u)

\* While clear or keys is at work on the whole table, no other thread is at work
\* in any list, nor at such a call itself.
WholeExclusion ==
  \A t, u \in Thread :
    t # u /\ pc[t] = "body" /\ Op(t) # "size"
      => ~ InList(u) /\ ~ (pc[u] = "body" /\ Op(u) # "size")

\* Refinement: the map is atomic, though its replace compares nothing.
ValueOf(k) ==
  LET nodes == {n \in List(buckets[BucketOf(k)]) : nodeKey[n] = k}
  IN IF nodes = {} THEN Absent ELSE nodeVal[CHOOSE n \in nodes : TRUE]

Phase(t) ==
  CASE pc[t] = "idle" -> "idle"
    [] pc[t] \in {"lock", "search", "publish", "unlink", "lockAll", "body"} -> "invoked"
    [] OTHER -> "decided"

Abs == INSTANCE AtomicMap WITH
         content <- [k \in Key |-> ValueOf(k)],
         phase <- [t \in Thread |-> Phase(t)],
         answer <- result,
         Compares <- FALSE

Documented == INSTANCE AtomicMap WITH
                content <- [k \in Key |-> ValueOf(k)],
                phase <- [t \in Thread |-> Phase(t)],
                answer <- result,
                Compares <- TRUE

\* Every call of the map takes effect at one instant (linearizability), size and
\* isEmpty excepted; the effect of replace is that of a put on a key that is there.
ImplementsAtomicMap == Abs!Map

\* interface_ds.kyl:126, "CAS operation": replace takes effect only if the key has
\* the old value it was given.
ReplaceCompares == Documented!Map

\* Threads inside calls never all wait for a lock: neither for each other's, as
\* put against clear or clear against keys might, nor for one nobody holds.
NoDeadlock == (\E t \in Thread : pc[t] # "idle") => ENABLED (\E t \in Thread : InCall(t))

\* concurrent_hashmap.c:351, "Lock all locks for snapshot": under all the locks,
\* the array that keys allocates has room for the keys it writes.
SnapshotFits ==
  \A t \in Thread : pc[t] = "body" /\ Op(t) = "keys" => Cardinality(Linked) <= size
=============================================================================
