------------------------ MODULE ConcurrentHashMapProofs ------------------------
(***************************************************************************)
(* Mutual exclusion under lock striping, for any number of threads, keys,  *)
(* lists and locks: the lists are protected as long as two keys of one     *)
(* list have one lock, which holds when the number of locks divides the    *)
(* capacity, and the calls that take all the locks are alone with the map. *)
(* From that: what the lists hold, and that the table is an atomic map.    *)
(***************************************************************************)
EXTENDS ConcurrentHashMap, Integers, TLAPS

KeyedOp == WriteOp \cup ReadOp

\* The part of the state the locks are about.
LocksTyped ==
  /\ owner \in [Lock -> Thread \cup {NoThread}]
  /\ pc \in [Thread -> PC]
  /\ call \in [Thread -> Call \cup {NoCall}]
  /\ turn \in [Thread -> 0 .. LockCount]

\* A call with a key holds the lock of its key from the search to the release.
HoldsItsLock(t) ==
  /\ pc[t] \in {"lock", "search", "publish", "unlink", "sizeLoad", "sizeStore", "unlock"}
       => call[t].op \in KeyedOp
  /\ InList(t) => owner[MyLock(t)] = t

\* clear and keys hold the locks they passed on the way up, and those they have
\* not passed yet on the way down.
HoldsAllLocks(t) ==
  /\ pc[t] = "lockAll" =>
       /\ Op(t) \in {"clear", "keys"}
       /\ turn[t] < LockCount
       /\ \A l \in Lock : l < turn[t] => owner[l] = t
  /\ pc[t] = "body" /\ Op(t) # "size" =>
       turn[t] = 0 /\ \A l \in Lock : owner[l] = t
  /\ pc[t] = "unlockAll" => \A l \in Lock : l >= turn[t] => owner[l] = t
  /\ pc[t] = "body" => turn[t] = 0 /\ Op(t) \in WholeOp
  /\ pc[t] \in {"idle", "lock"} => turn[t] = 0

Holds == \A t \in Thread : HoldsItsLock(t) /\ HoldsAllLocks(t)

LockInv == LocksTyped /\ Holds

\* Two keys of one list have one lock.
LocksCoverLists == \A j, k \in Key : BucketOf(j) = BucketOf(k) => LockOf(j) = LockOf(k)

-----------------------------------------------------------------------------
(* Remainders *)

\* Integer division: a number is quotient times divisor plus remainder,
LEMMA Quotient ==
  ASSUME NEW h \in Nat, NEW d \in Nat \ {0}
  PROVE  h = d * (h \div d) + (h % d)
OBVIOUS

\* with the remainder below the divisor,
LEMMA Remainder ==
  ASSUME NEW h \in Nat, NEW d \in Nat \ {0}
  PROVE  h \div d \in Nat /\ h % d \in 0 .. d - 1
OBVIOUS

\* and there is only one such remainder.
LEMMA RemainderUnique ==
  ASSUME NEW d \in Nat \ {0}, NEW x \in Int, NEW y \in Int,
         NEW s \in 0 .. d - 1, NEW r \in 0 .. d - 1, d * x + s = d * y + r
  PROVE  s = r
<1>1. CASE x = y
  BY <1>1
<1>2. CASE x < y
  <2>1. d * (y - x) = s - r
    OBVIOUS
  <2>2. d * (y - x) >= d
    BY <1>2
  <2> QED BY <2>1, <2>2
<1>3. CASE y < x
  <2>1. d * (x - y) = r - s
    OBVIOUS
  <2>2. d * (x - y) >= d
    BY <1>3
  <2> QED BY <2>1, <2>2
<1> QED BY <1>1, <1>2, <1>3

\* Two facts about products.
LEMMA Regroup ==
  ASSUME NEW m \in Nat, NEW d \in Nat, NEW x \in Nat, NEW y \in Nat, NEW z \in Nat
  PROVE  (m * d) * x + (d * y + z) = d * (m * x + y) + z
OBVIOUS

LEMMA Product ==
  ASSUME NEW m \in Nat \ {0}, NEW d \in Nat \ {0}
  PROVE  m * d \in Nat \ {0}
OBVIOUS

\* The three facts about division as one.
LEMMA Divide ==
  ASSUME NEW h \in Nat, NEW d \in Nat \ {0}
  PROVE  \E q \in Nat, r \in 0 .. d - 1 : r = h % d /\ h = d * q + r
<1>1. h \div d \in Nat /\ h % d \in 0 .. d - 1
  BY Remainder
<1>2. h = d * (h \div d) + (h % d)
  BY Quotient
<1> QED BY <1>1, <1>2, Zenon

\* The remainder by d is determined by the remainder by a multiple of d.
LEMMA ModOfMultiple ==
  ASSUME NEW h \in Nat, NEW d \in Nat \ {0}, NEW m \in Nat \ {0}
  PROVE  h % d = (h % (m * d)) % d
<1> DEFINE c == m * d
<1>1. c \in Nat \ {0}
  BY Product
<1> HIDE DEF c
<1>2. PICK x \in Nat, r \in 0 .. c - 1 : r = h % c /\ h = c * x + r
  BY <1>1, Divide, Zenon
<1>3. r \in Nat
  BY <1>1
<1>4. PICK y \in Nat, z \in 0 .. d - 1 : z = r % d /\ r = d * y + z
  BY <1>3, Divide, Zenon
<1>5. PICK w \in Nat, u \in 0 .. d - 1 : u = h % d /\ h = d * w + u
  BY Divide, Zenon
<1>6. h = d * (m * x + y) + z
  <2>1. h = (m * d) * x + (d * y + z)
    BY <1>2, <1>4 DEF c
  <2> QED BY <2>1, Regroup
<1>7. m * x + y \in Int
  OBVIOUS
<1>8. u = z
  BY <1>5, <1>6, <1>7, RemainderUnique
<1> QED BY <1>2, <1>4, <1>5, <1>8 DEF c

-----------------------------------------------------------------------------
(* What each thread holds *)

\* A call of an operation with a key has one.
LEMMA KeyedCalls ==
  ASSUME NEW c \in Call \cup {NoCall}, c.op \in KeyedOp
  PROVE  c.key \in Key
BY DEF Call, NoCall, KeyedOp, WriteOp, ReadOp, WholeOp

\* The lock of a key is a lock.
LEMMA LockOfKey ==
  ASSUME NEW k \in Key
  PROVE  LockOf(k) \in Lock
BY HashAssumption, CapacityAssumption DEF LockOf, Lock

\* A step of a call that stays in its list.
LEMMA StaysInList ==
  ASSUME LockInv, NEW p \in Thread, InList(p), UNCHANGED <<owner, call, turn>>,
         NEW q \in {"publish", "unlink", "sizeLoad", "sizeStore", "unlock"},
         pc' = [pc EXCEPT ![p] = q]
  PROVE  LockInv'
<1>1. LocksTyped'
  BY DEF LockInv, LocksTyped, PC
<1>2. ASSUME NEW t \in Thread PROVE HoldsItsLock(t)' /\ HoldsAllLocks(t)'
  <2>1. CASE t = p
    BY <2>1 DEF LockInv, LocksTyped, Holds, HoldsItsLock, HoldsAllLocks, InList, MyLock, LockOf
  <2>2. CASE t # p
    BY <2>2 DEF LockInv, LocksTyped, Holds, HoldsItsLock, HoldsAllLocks, InList, MyLock,
                LockOf, Op
  <2> QED BY <2>1, <2>2
<1> QED BY <1>1, <1>2 DEF LockInv, Holds

\* A step that leaves the locks alone and what the other threads know of them.
LEMMA OthersKeepLocks ==
  ASSUME LockInv, LocksTyped', NEW p \in Thread, NEW t \in Thread, t # p,
         pc'[t] = pc[t], call'[t] = call[t], turn'[t] = turn[t],
         \A l \in Lock : owner[l] = t => owner'[l] = t
  PROVE  HoldsItsLock(t)' /\ HoldsAllLocks(t)'
<1>1. HoldsItsLock(t) /\ HoldsAllLocks(t)
  BY DEF LockInv, Holds
<1>2. HoldsAllLocks(t)'
  BY <1>1 DEF HoldsAllLocks, Op
<1>3. HoldsItsLock(t)'
  <2>1. ASSUME InList(t) PROVE MyLock(t) \in Lock
    BY <2>1, <1>1, KeyedCalls, LockOfKey
       DEF HoldsItsLock, InList, MyLock, LockInv, LocksTyped
  <2> QED BY <1>1, <2>1 DEF HoldsItsLock, InList, MyLock, LockOf
<1> QED BY <1>2, <1>3

\* The lock invariant holds at first, and every step preserves it.
LEMMA LockInit == Init => LockInv
<1> SUFFICES ASSUME Init PROVE LockInv
  OBVIOUS
<1>1. LocksTyped
  BY CapacityAssumption DEF Init, LocksTyped, PC
<1>2. Holds
  BY DEF Init, Holds, HoldsItsLock, HoldsAllLocks, InList
<1> QED BY <1>1, <1>2 DEF LockInv

\* One step per action.
LEMMA LockStep == LockInv /\ [Next]_vars => LockInv'
<1> SUFFICES ASSUME LockInv, [Next]_vars PROVE LockInv'
  OBVIOUS
<1> USE DEF LockInv
<1>1. CASE UNCHANGED vars
  BY <1>1 DEF vars, localVars, LocksTyped, Holds, HoldsItsLock, HoldsAllLocks, InList, MyLock,
              LockOf, Op
<1>2. ASSUME NEW p \in Thread, Begin(p) PROVE LockInv'
  <2>1. PICK c \in Call : /\ call' = [call EXCEPT ![p] = c]
                         /\ pc' = [pc EXCEPT ![p] =
                              CASE c.op \in WriteOp \cup ReadOp -> "lock"
                                [] c.op \in {"clear", "keys"} -> "lockAll"
                                [] OTHER -> "body"]
    BY <1>2 DEF Begin
  <2>2. pc[p] = "idle" /\ UNCHANGED <<owner, turn>>
    BY <1>2 DEF Begin
  <2>3. LocksTyped'
    BY <2>1, <2>2 DEF LocksTyped, PC
  <2>4. c.op \in KeyedOp \cup {"clear", "keys", "size"}
    BY DEF Call, KeyedOp, WholeOp, WriteOp
  <2>5. HoldsItsLock(p)' /\ HoldsAllLocks(p)'
    <3>1. turn'[p] = 0
      BY <2>2 DEF Holds, HoldsAllLocks
    <3>2. call'[p] = c
      BY <2>1 DEF LocksTyped
    <3>3. CASE c.op \in KeyedOp
      <4>1. pc'[p] = "lock"
        BY <3>3, <2>1 DEF LocksTyped, KeyedOp, WriteOp, ReadOp
      <4> QED BY <4>1, <3>1, <3>2, <3>3 DEF HoldsItsLock, HoldsAllLocks, InList
    <3>4. CASE c.op \in {"clear", "keys"}
      <4>1. pc'[p] = "lockAll"
        BY <3>4, <2>1 DEF LocksTyped, WriteOp, ReadOp
      <4> QED BY <4>1, <3>1, <3>2, <3>4, CapacityAssumption DEF HoldsItsLock, HoldsAllLocks, InList, Op, Lock
    <3>5. CASE c.op = "size"
      <4>1. pc'[p] = "body"
        BY <3>5, <2>1 DEF LocksTyped, WriteOp, ReadOp
      <4> QED BY <4>1, <3>1, <3>2, <3>5 DEF HoldsItsLock, HoldsAllLocks, InList, Op, WholeOp
    <3> QED BY <3>3, <3>4, <3>5, <2>4
  <2>6. ASSUME NEW t \in Thread, t # p PROVE HoldsItsLock(t)' /\ HoldsAllLocks(t)'
    BY <2>6, <2>1, <2>2, <2>3, OthersKeepLocks DEF LocksTyped
  <2> QED BY <2>3, <2>5, <2>6 DEF Holds
<1>3. ASSUME NEW p \in Thread, ReadSize(p) PROVE LockInv'
  <2>1. LocksTyped'
    BY <1>3, CapacityAssumption DEF ReadSize, Goes, LocksTyped, PC
  <2>2. HoldsItsLock(p)' /\ HoldsAllLocks(p)'
    BY <1>3, CapacityAssumption
       DEF ReadSize, Goes, LocksTyped, HoldsItsLock, HoldsAllLocks, InList, Lock
  <2>3. ASSUME NEW t \in Thread, t # p PROVE HoldsItsLock(t)' /\ HoldsAllLocks(t)'
    BY <2>3, <2>1, <1>3, OthersKeepLocks DEF ReadSize, Goes, LocksTyped
  <2> QED BY <2>1, <2>2, <2>3 DEF Holds
<1>4. ASSUME NEW p \in Thread, Acquire(p) PROVE LockInv'
  <2>1. call[p].op \in KeyedOp /\ MyLock(p) \in Lock
    BY <1>4, KeyedCalls, LockOfKey DEF Acquire, Goes, Holds, HoldsItsLock, LocksTyped, MyLock
  <2>2. LocksTyped'
    BY <1>4, <2>1 DEF Acquire, Goes, LocksTyped, PC, localVars
  <2>3. HoldsItsLock(p)' /\ HoldsAllLocks(p)'
    BY <1>4, <2>1
       DEF Acquire, Goes, LocksTyped, HoldsItsLock, HoldsAllLocks, InList, MyLock, LockOf
  <2>4. ASSUME NEW t \in Thread, t # p PROVE HoldsItsLock(t)' /\ HoldsAllLocks(t)'
    BY <2>4, <2>1, <2>2, <1>4, OthersKeepLocks, NullAssumption
       DEF Acquire, Goes, LocksTyped, localVars
  <2> QED BY <2>2, <2>3, <2>4 DEF Holds
<1>5. ASSUME NEW p \in Thread, NEW n \in Node, SearchHits(p, n) PROVE LockInv'
  BY <1>5, StaysInList DEF SearchHits, InList
<1>6. ASSUME NEW p \in Thread, SearchMisses(p) PROVE LockInv'
  BY <1>6, StaysInList DEF SearchMisses, InList, localVars
<1>7. ASSUME NEW p \in Thread, Publish(p) \/ Unlink(p) \/ LoadSize(p) \/ StoreSize(p)
      PROVE LockInv'
  BY <1>7, StaysInList DEF Publish, Unlink, LoadSize, StoreSize, Goes, InList, localVars
<1>8. ASSUME NEW p \in Thread, Release(p) PROVE LockInv'
  <2>1. InList(p) /\ owner[MyLock(p)] = p
    BY <1>8 DEF Release, InList, Holds, HoldsItsLock
  <2>2. LocksTyped'
    <3>1. owner' \in [Lock -> Thread \cup {NoThread}]
      BY <1>8 DEF Release, LocksTyped
    <3>2. pc' \in [Thread -> PC]
      BY <1>8 DEF Release, Leave, LocksTyped, PC
    <3>3. call' \in [Thread -> Call \cup {NoCall}]
      BY <1>8 DEF Release, Leave, LocksTyped
    <3>4. turn' \in [Thread -> 0 .. LockCount]
      BY <1>8, CapacityAssumption DEF Release, Leave, LocksTyped
    <3> QED BY <3>1, <3>2, <3>3, <3>4 DEF LocksTyped
  <2>3. HoldsItsLock(p)' /\ HoldsAllLocks(p)'
    BY <1>8 DEF Release, Leave, LocksTyped, HoldsItsLock, HoldsAllLocks, InList
  <2>4. ASSUME NEW t \in Thread, t # p PROVE HoldsItsLock(t)' /\ HoldsAllLocks(t)'
    BY <2>1, <2>2, <2>4, <1>8, OthersKeepLocks DEF Release, Leave, LocksTyped
  <2> QED BY <2>2, <2>3, <2>4 DEF Holds
<1>9. ASSUME NEW p \in Thread, AcquireNext(p) PROVE LockInv'
  <2>1. Op(p) \in {"clear", "keys"} /\ turn[p] \in Lock
    BY <1>9, CapacityAssumption DEF AcquireNext, Holds, HoldsAllLocks, LocksTyped, Lock
  <2>2. /\ turn[p] + 1 < LockCount => turn'[p] = turn[p] + 1
        /\ turn[p] + 1 = LockCount => turn'[p] = 0
    <3>1. turn'[p] = (turn[p] + 1) % LockCount
      BY <1>9 DEF AcquireNext, LocksTyped
    <3>2. LockCount \in Nat \ {0} /\ turn[p] \in 0 .. LockCount - 1
      BY <2>1, CapacityAssumption DEF Lock
    <3>3. /\ turn[p] + 1 < LockCount => (turn[p] + 1) % LockCount = turn[p] + 1
          /\ turn[p] + 1 = LockCount => (turn[p] + 1) % LockCount = 0
      BY <3>2
    <3> QED BY <3>1, <3>3
  <2>3. LocksTyped'
    <3>1. owner' \in [Lock -> Thread \cup {NoThread}]
      BY <1>9 DEF AcquireNext, LocksTyped
    <3>2. pc' \in [Thread -> PC]
      BY <1>9 DEF AcquireNext, LocksTyped, PC
    <3>3. call' \in [Thread -> Call \cup {NoCall}]
      BY <1>9 DEF AcquireNext, LocksTyped
    <3>4. (turn[p] + 1) % LockCount \in 0 .. LockCount
      BY <2>1, CapacityAssumption DEF Lock
    <3>5. turn' \in [Thread -> 0 .. LockCount]
      BY <1>9, <3>4 DEF AcquireNext, LocksTyped
    <3> QED BY <3>1, <3>2, <3>3, <3>5 DEF LocksTyped
  <2>4. HoldsItsLock(p)' /\ HoldsAllLocks(p)'
    <3>1. \A l \in Lock : l < turn[p] + 1 => owner'[l] = p
      BY <1>9, <2>1 DEF AcquireNext, Holds, HoldsAllLocks, LocksTyped, Lock
    <3>2. CASE turn[p] + 1 < LockCount
      BY <1>9, <2>1, <2>2, <3>1, <3>2
         DEF AcquireNext, LocksTyped, HoldsItsLock, HoldsAllLocks, InList, Op, Lock
    <3>3. CASE turn[p] + 1 = LockCount
      BY <1>9, <2>1, <2>2, <3>1, <3>3, CapacityAssumption
         DEF AcquireNext, LocksTyped, HoldsItsLock, HoldsAllLocks, InList, Op, Lock, WholeOp
    <3> QED BY <2>1, <3>2, <3>3, CapacityAssumption DEF Lock
  <2>5. ASSUME NEW t \in Thread, t # p PROVE HoldsItsLock(t)' /\ HoldsAllLocks(t)'
    BY <2>1, <2>3, <2>5, <1>9, OthersKeepLocks, NullAssumption DEF AcquireNext, LocksTyped
  <2> QED BY <2>3, <2>4, <2>5 DEF Holds
<1>10. ASSUME NEW p \in Thread, Clear(p) \/ ListKeys(p) PROVE LockInv'
  <2>1. /\ pc[p] = "body" /\ Op(p) # "size"
        /\ pc' = [pc EXCEPT ![p] = "unlockAll"]
        /\ UNCHANGED <<owner, call, turn>>
    BY <1>10 DEF Clear, ListKeys, Goes, localVars
  <2>2. LocksTyped'
    BY <2>1 DEF LocksTyped, PC
  <2>3. HoldsItsLock(p)' /\ HoldsAllLocks(p)'
    BY <2>1 DEF LocksTyped, Holds, HoldsItsLock, HoldsAllLocks, InList
  <2>4. ASSUME NEW t \in Thread, t # p PROVE HoldsItsLock(t)' /\ HoldsAllLocks(t)'
    BY <2>1, <2>2, <2>4, OthersKeepLocks DEF LocksTyped
  <2> QED BY <2>2, <2>3, <2>4 DEF Holds
<1>11. ASSUME NEW p \in Thread, ReleaseNext(p) PROVE LockInv'
  <2>1. CASE turn[p] < LockCount
    <3>1. turn[p] \in Lock /\ owner[turn[p]] = p
      BY <2>1, <1>11, CapacityAssumption
         DEF ReleaseNext, LocksTyped, Holds, HoldsAllLocks, Lock
    <3>2. LocksTyped'
      <4>1. owner' \in [Lock -> Thread \cup {NoThread}]
        BY <1>11, <2>1 DEF ReleaseNext, LocksTyped
      <4>2. turn[p] + 1 \in 0 .. LockCount
        BY <3>1, CapacityAssumption DEF Lock
      <4>3. turn' \in [Thread -> 0 .. LockCount]
        BY <1>11, <2>1, <4>2 DEF ReleaseNext, LocksTyped
      <4> QED BY <4>1, <4>3, <1>11, <2>1 DEF ReleaseNext, LocksTyped
    <3>3. HoldsItsLock(p)' /\ HoldsAllLocks(p)'
      <4>1. \A l \in Lock : l >= turn[p] => owner[l] = p
        BY <1>11 DEF ReleaseNext, Holds, HoldsAllLocks
      <4>2. turn'[p] = turn[p] + 1 /\ pc'[p] = "unlockAll"
        BY <1>11, <2>1 DEF ReleaseNext, LocksTyped
      <4>3. \A l \in Lock : l >= turn[p] + 1 => owner'[l] = p
        <5>1. owner' = [owner EXCEPT ![turn[p]] = NoThread]
          BY <1>11, <2>1 DEF ReleaseNext
        <5>2. ASSUME NEW l \in Lock, l >= turn[p] + 1 PROVE owner'[l] = owner[l]
          BY <5>1, <5>2, <3>1 DEF LocksTyped, Lock
        <5>3. ASSUME NEW l \in Lock, l >= turn[p] + 1 PROVE l >= turn[p]
          BY <5>3, <3>1, CapacityAssumption DEF Lock
        <5> QED BY <4>1, <5>2, <5>3
      <4> QED BY <4>2, <4>3 DEF HoldsItsLock, HoldsAllLocks, InList
    <3>4. ASSUME NEW t \in Thread, t # p PROVE HoldsItsLock(t)' /\ HoldsAllLocks(t)'
      BY <2>1, <3>1, <3>2, <3>4, <1>11, OthersKeepLocks DEF ReleaseNext, LocksTyped
    <3> QED BY <3>2, <3>3, <3>4 DEF Holds
  <2>2. CASE ~ (turn[p] < LockCount)
    <3>1. LocksTyped'
      BY <1>11, <2>2, CapacityAssumption DEF ReleaseNext, Leave, LocksTyped, PC
    <3>2. HoldsItsLock(p)' /\ HoldsAllLocks(p)'
      BY <1>11, <2>2
         DEF ReleaseNext, Leave, LocksTyped, HoldsItsLock, HoldsAllLocks, InList
    <3>3. ASSUME NEW t \in Thread, t # p PROVE HoldsItsLock(t)' /\ HoldsAllLocks(t)'
      BY <2>2, <3>1, <3>3, <1>11, OthersKeepLocks DEF ReleaseNext, Leave, LocksTyped
    <3> QED BY <3>1, <3>2, <3>3 DEF Holds
  <2> QED BY <2>1, <2>2
<1> QED BY <1>1, <1>2, <1>3, <1>4, <1>5, <1>6, <1>7, <1>8, <1>9, <1>10, <1>11
        DEF Next, InCall

-----------------------------------------------------------------------------
\* The locks do what the two lock functions of concurrent_hashmap.c are for: a
\* call with a key holds the lock of its key while it is in its list, clear and
\* keys hold every lock while they read or empty the table.
THEOREM LocksHeld == Spec => []LockInv
BY LockInit, LockStep, PTL DEF Spec

\* Where two keys of one list have one lock, two threads are never at work in
\* the same list, however many threads, keys, lists and locks there are.
THEOREM ListsExclusive ==
  ASSUME LocksCoverLists
  PROVE  Spec => []ListExclusion
<1>1. LockInv => ListExclusion
  <2> SUFFICES ASSUME LockInv, NEW t \in Thread, NEW u \in Thread,
                      t # u, InList(t), InList(u), MyBucket(t) = MyBucket(u)
               PROVE  FALSE
    BY DEF ListExclusion
  <2>1. owner[MyLock(t)] = t /\ owner[MyLock(u)] = u
    BY DEF LockInv, Holds, HoldsItsLock
  <2>2. call[t].key \in Key /\ call[u].key \in Key
    BY KeyedCalls DEF LockInv, LocksTyped, Holds, HoldsItsLock, InList
  <2>3. MyLock(t) = MyLock(u)
    BY <2>2, LocksCoverLists DEF LocksCoverLists, MyLock, MyBucket
  <2> QED BY <2>1, <2>3
<1> QED BY <1>1, LocksHeld, PTL

\* That is so when the capacity is a multiple of the number of locks, as the
\* default of 16 lists for the 16 locks of concurrent_hashmap.c is.
THEOREM DivisorCovers ==
  ASSUME NEW m \in Nat \ {0}, Capacity = m * LockCount
  PROVE  LocksCoverLists
<1> SUFFICES ASSUME NEW j \in Key, NEW k \in Key, Hash[j] % Capacity = Hash[k] % Capacity
             PROVE  Hash[j] % LockCount = Hash[k] % LockCount
  BY DEF LocksCoverLists, BucketOf, LockOf
<1>1. Hash[j] \in Nat /\ Hash[k] \in Nat /\ LockCount \in Nat \ {0}
  BY HashAssumption, CapacityAssumption
<1>2. Hash[j] % LockCount = (Hash[j] % (m * LockCount)) % LockCount
  BY <1>1, ModOfMultiple, Zenon
<1>3. Hash[k] % LockCount = (Hash[k] % (m * LockCount)) % LockCount
  BY <1>1, ModOfMultiple, Zenon
<1> QED BY <1>2, <1>3, Zenon

\* clear and keys are alone with the table; this needs no assumption on the hash,
\* the capacity or the number of locks.
THEOREM SnapshotsExclusive == Spec => []WholeExclusion
<1>1. LockInv => WholeExclusion
  <2> SUFFICES ASSUME LockInv, NEW t \in Thread, NEW u \in Thread, t # u,
                      pc[t] = "body", Op(t) # "size"
               PROVE  ~ InList(u) /\ ~ (pc[u] = "body" /\ Op(u) # "size")
    BY DEF WholeExclusion
  <2>1. \A l \in Lock : owner[l] = t
    BY DEF LockInv, Holds, HoldsAllLocks
  <2>2. ~ InList(u)
    <3> SUFFICES ASSUME InList(u) PROVE FALSE
      OBVIOUS
    <3>1. owner[MyLock(u)] = u
      BY DEF LockInv, Holds, HoldsItsLock
    <3>2. MyLock(u) \in Lock
      BY KeyedCalls, LockOfKey DEF LockInv, LocksTyped, Holds, HoldsItsLock, InList, MyLock
    <3> QED BY <2>1, <3>1, <3>2
  <2>3. ~ (pc[u] = "body" /\ Op(u) # "size")
    <3>1. 0 \in Lock
      BY CapacityAssumption DEF Lock
    <3> QED BY <2>1, <3>1 DEF LockInv, Holds, HoldsAllLocks
  <2> QED BY <2>2, <2>3
<1> QED BY <1>1, LocksHeld, PTL
-----------------------------------------------------------------------------
(* Lists *)

Links == [Node -> Node \cup {Null}]

\* A list holds its first node, with each node the next one, and nothing that a
\* set with these could do without.
LEMMA FromIsClosed ==
  ASSUME NEW f \in Links, NEW n \in Node \cup {Null}
  PROVE  /\ From(f, n) \subseteq Node
         /\ n = Null => From(f, n) = {}
         /\ n # Null => n \in From(f, n)
         /\ Closed(f, From(f, n))
<1>1. Closed(f, From(f, n))
  <2> SUFFICES ASSUME NEW m \in From(f, n), f[m] # Null PROVE f[m] \in From(f, n)
    BY DEF Closed
  <2>1. m \in Node /\ f[m] \in Node  BY DEF From, Links
  <2>2. ASSUME NEW S \in SUBSET Node, n \in S, Closed(f, S) PROVE f[m] \in S
    BY <2>2 DEF From, Closed
  <2> QED  BY <2>1, <2>2 DEF From
<1> QED  BY <1>1 DEF From

LEMMA FromIsLeast ==
  ASSUME NEW f \in Links, NEW n \in Node \cup {Null}, NEW S \in SUBSET Node,
         n \in S \cup {Null}, Closed(f, S)
  PROVE  From(f, n) \subseteq S
BY DEF From

\* What follows a node of a list is in the list.
LEMMA FromRest ==
  ASSUME NEW f \in Links, NEW n \in Node \cup {Null}, NEW m \in From(f, n)
  PROVE  From(f, m) \subseteq From(f, n) /\ From(f, f[m]) \subseteq From(f, n)
<1>1. From(f, n) \in SUBSET Node /\ Closed(f, From(f, n))  BY FromIsClosed
<1>2. m \in Node /\ f[m] \in Node \cup {Null}  BY <1>1 DEF Links
<1>3. f[m] \in From(f, n) \cup {Null}  BY <1>1 DEF Closed
<1> QED  BY <1>1, <1>2, <1>3, FromIsLeast

\* A list is its first node and the list that follows it.
LEMMA FromCons ==
  ASSUME NEW f \in Links, NEW n \in Node
  PROVE  From(f, n) = {n} \cup From(f, f[n])
<1> DEFINE S == {n} \cup From(f, f[n])
<1>1. f[n] \in Node \cup {Null}  BY DEF Links
<1>2. /\ From(f, f[n]) \subseteq Node /\ Closed(f, From(f, f[n]))
      /\ f[n] # Null => f[n] \in From(f, f[n])
  BY <1>1, FromIsClosed
<1>3. S \in SUBSET Node /\ Closed(f, S)  BY <1>2 DEF Closed
<1>4. From(f, n) \subseteq S  BY <1>3, FromIsLeast
<1>5. n \in From(f, n)  BY FromIsClosed DEF Node, Null
<1>6. From(f, f[n]) \subseteq From(f, n)  BY <1>5, FromRest
<1> QED  BY <1>4, <1>5, <1>6

\* Links outside of a list are not part of it.
LEMMA FromSame ==
  ASSUME NEW f \in Links, NEW g \in Links, NEW n \in Node \cup {Null},
         \A m \in From(f, n) : g[m] = f[m]
  PROVE  From(g, n) = From(f, n)
<1>1. /\ From(f, n) \in SUBSET Node /\ Closed(f, From(f, n))
      /\ n \in From(f, n) \cup {Null}
  BY FromIsClosed
<1>2. Closed(g, From(f, n))  BY <1>1 DEF Closed
<1>3. From(g, n) \subseteq From(f, n)  BY <1>1, <1>2, FromIsLeast
<1>4. /\ From(g, n) \in SUBSET Node /\ Closed(g, From(g, n))
      /\ n \in From(g, n) \cup {Null}
  BY FromIsClosed
<1>5. Closed(f, From(g, n))  BY <1>3, <1>4 DEF Closed
<1> QED  BY <1>3, <1>4, <1>5, FromIsLeast

\* A node of a list is the first or the next one of another.
LEMMA FromPrevious ==
  ASSUME NEW f \in Links, NEW n \in Node \cup {Null}, NEW m \in From(f, n), m # n
  PROVE  \E k \in From(f, n) : f[k] = m
<1> SUFFICES ASSUME \A k \in From(f, n) : f[k] # m PROVE FALSE
  OBVIOUS
<1>1. From(f, n) \in SUBSET Node /\ Closed(f, From(f, n)) /\ n \in From(f, n)
  <2>1. n # Null  BY FromIsClosed
  <2> QED  BY <2>1, FromIsClosed
<1>2. From(f, n) \ {m} \in SUBSET Node /\ n \in From(f, n) \ {m}  BY <1>1
<1>3. Closed(f, From(f, n) \ {m})  BY <1>1 DEF Closed
<1>4. From(f, n) \subseteq From(f, n) \ {m}  BY <1>2, <1>3, FromIsLeast
<1> QED  BY <1>4

\* A list does not come back to a node, nor to any node from two.
Acyclic(f, n) == \A m \in From(f, n) : m \notin From(f, f[m])
Linear(f, n) == \A m, k \in From(f, n) : f[m] = f[k] /\ f[m] # Null => m = k

\* No node leads back to the first.
LEMMA FirstIsFirst ==
  ASSUME NEW f \in Links, NEW n \in Node \cup {Null}, Acyclic(f, n), NEW m \in From(f, n)
  PROVE  f[m] # n
<1>1. m \in Node /\ n # Null  BY FromIsClosed
<1>2. m \notin From(f, f[m])  BY DEF Acyclic
<1> QED  BY <1>2

\* A new node in front of a list.
LEMMA FromInsert ==
  ASSUME NEW f \in Links, NEW n \in Node \cup {Null}, Acyclic(f, n), Linear(f, n),
         NEW m \in Node, m \notin From(f, n), f[m] = n
  PROVE  /\ From(f, m) = {m} \cup From(f, n)
         /\ Acyclic(f, m)
         /\ Linear(f, m)
<1>1. From(f, m) = {m} \cup From(f, n)  BY FromCons
<1>2. Acyclic(f, m)  BY <1>1 DEF Acyclic
<1>3. \A k \in From(f, n) : f[k] # n  BY FirstIsFirst
<1>4. Linear(f, m)  BY <1>1, <1>3 DEF Linear
<1> QED  BY <1>1, <1>2, <1>4

\* The first node is removed.
LEMMA FromTail ==
  ASSUME NEW f \in Links, NEW n \in Node, Acyclic(f, n), Linear(f, n)
  PROVE  /\ From(f, f[n]) = From(f, n) \ {n}
         /\ Acyclic(f, f[n])
         /\ Linear(f, f[n])
<1>1. From(f, n) = {n} \cup From(f, f[n]) /\ n \notin From(f, f[n])
  BY FromCons DEF Acyclic
<1> QED  BY <1>1 DEF Acyclic, Linear

\* Another node is removed: the one before it, p, leads to the one behind it.
LEMMA FromUnlink ==
  ASSUME NEW f \in Links, NEW n \in Node \cup {Null}, Acyclic(f, n), Linear(f, n),
         NEW p \in From(f, n), NEW m \in From(f, n), f[p] = m,
         NEW g \in Links, g[p] = f[m], \A k \in Node : k # p => g[k] = f[k]
  PROVE  /\ From(g, n) = From(f, n) \ {m}
         /\ Acyclic(g, n)
         /\ Linear(g, n)
<1> DEFINE L == From(f, n)  R == From(f, n) \ {m}
<1>1. /\ L \in SUBSET Node /\ Closed(f, L) /\ n # Null /\ n \in L
  <2>1. n # Null  BY FromIsClosed
  <2> QED  BY <2>1, FromIsClosed
<1>2. m \in Node /\ p \in Node /\ f[m] \in Node \cup {Null}  BY <1>1 DEF Links
<1>3. g \in Links /\ g[p] = f[m] /\ \A k \in Node : k # p => g[k] = f[k]
  OBVIOUS
<1>4. m # n  BY FirstIsFirst
<1>5. f[m] # m /\ p # m
  <2>1. m \in From(f, m)  BY <1>2, FromIsClosed DEF Node, Null
  <2>2. m \notin From(f, f[m])  BY DEF Acyclic
  <2> QED  BY <2>1, <2>2
<1>6. From(g, n) \subseteq R
  <2>1. Closed(g, R)
    <3> SUFFICES ASSUME NEW k \in R PROVE g[k] \in R \cup {Null}
      BY DEF Closed
    <3>1. CASE k = p  BY <1>1, <1>3, <1>5, <3>1 DEF Closed
    <3>2. CASE k # p
      <4>1. f[k] # m  BY <1>1, <1>2, <3>2 DEF Linear, Node, Null
      <4> QED  BY <1>1, <1>3, <3>2, <4>1 DEF Closed
    <3> QED  BY <3>1, <3>2
  <2> QED  BY <1>1, <1>3, <1>4, <2>1, FromIsLeast
<1>7. R \subseteq From(g, n)
  <2> DEFINE T == From(g, n)
  <2>1. T \in SUBSET Node /\ Closed(g, T) /\ n \in T  BY <1>1, <1>3, FromIsClosed
  <2>2. T \cup {m} \in SUBSET Node  BY <1>2, <2>1
  <2>3. p \in T
    <3> SUFFICES ASSUME p \notin T PROVE FALSE
      OBVIOUS
    <3>1. Closed(f, T)  BY <1>3, <2>1 DEF Closed
    <3>2. L \subseteq T  BY <2>1, <3>1, FromIsLeast
    <3> QED  BY <3>2
  <2>4. Closed(f, T \cup {m})
    <3> SUFFICES ASSUME NEW k \in T \cup {m} PROVE f[k] \in T \cup {m} \cup {Null}
      BY DEF Closed
    <3>1. CASE k = m
      <4>1. g[p] \in T \cup {Null}  BY <2>1, <2>3 DEF Closed
      <4> QED  BY <1>3, <3>1, <4>1
    <3>2. CASE k = p  BY <3>2
    <3>3. CASE k # p /\ k \in T
      <4>1. g[k] \in T \cup {Null} /\ g[k] = f[k]  BY <1>3, <2>1, <3>3 DEF Closed
      <4> QED  BY <4>1
    <3> QED  BY <3>1, <3>2, <3>3
  <2>5. n \in T \cup {m} \cup {Null}  BY <2>1
  <2>6. From(f, n) \subseteq T \cup {m}
    <3> HIDE DEF T, L, R
    <3> QED  BY <2>2, <2>4, <2>5, FromIsLeast
  <2> QED  BY <2>6
<1>8. \A x \in Node \cup {Null} : From(g, x) \subseteq From(f, x)
  <2> TAKE x \in Node \cup {Null}
  <2>1. From(f, x) \in SUBSET Node /\ Closed(f, From(f, x)) /\ x \in From(f, x) \cup {Null}
    BY FromIsClosed
  <2>2. Closed(g, From(f, x))
    <3> SUFFICES ASSUME NEW k \in From(f, x) PROVE g[k] \in From(f, x) \cup {Null}
      BY DEF Closed
    <3>1. f[k] \in From(f, x) \cup {Null} /\ k \in Node  BY <2>1 DEF Closed
    <3>2. CASE k = p
      <4>1. m \in From(f, x)  BY <1>2, <3>1, <3>2 DEF Node, Null
      <4> QED  BY <1>3, <2>1, <3>2, <4>1 DEF Closed
    <3>3. CASE k # p  BY <1>3, <3>1, <3>3
    <3> QED  BY <3>2, <3>3
  <2> QED  BY <1>3, <2>1, <2>2, FromIsLeast
<1>9. Acyclic(g, n)
  <2> SUFFICES ASSUME NEW k \in R PROVE k \notin From(g, g[k])
    BY <1>6 DEF Acyclic
  <2>1. k \in Node /\ f[k] \in Node \cup {Null} /\ k \notin From(f, f[k])
    BY <1>1 DEF Acyclic, Links
  <2>2. CASE k = p
    <3>1. From(f, f[m]) \subseteq From(f, m)
      <4>1. m \in From(f, m)  BY <1>2, FromIsClosed DEF Node, Null
      <4> QED  BY <1>2, <4>1, FromRest
    <3>2. From(g, f[m]) \subseteq From(f, f[m])  BY <1>2, <1>8
    <3> QED  BY <1>3, <2>1, <2>2, <3>1, <3>2
  <2>3. CASE k # p
    <3>1. g[k] = f[k]  BY <1>3, <2>1, <2>3
    <3>2. From(g, f[k]) \subseteq From(f, f[k])  BY <1>8, <2>1
    <3> QED  BY <2>1, <3>1, <3>2
  <2> QED  BY <2>2, <2>3
<1>10. Linear(g, n)
  <2> SUFFICES ASSUME NEW j \in R, NEW k \in R, g[j] = g[k], g[j] # Null PROVE j = k
    BY <1>6 DEF Linear
  <2>1. j \in Node /\ k \in Node  BY <1>1
  <2>2. ASSUME NEW i \in R, i # p, g[i] = g[p], g[i] # Null PROVE FALSE
    <3>1. f[i] = f[m] /\ f[i] # Null  BY <1>1, <1>3, <2>2
    <3>2. i = m  BY <3>1 DEF Linear
    <3> QED  BY <3>2
  <2>3. CASE j = p \/ k = p  BY <2>2, <2>3
  <2>4. CASE j # p /\ k # p  BY <1>3, <2>1, <2>4 DEF Linear
  <2> QED  BY <2>3, <2>4
<1> QED  BY <1>6, <1>7, <1>9, <1>10
-----------------------------------------------------------------------------
(* What the lists hold, and what a call knows of its list *)

NodesTyped ==
  /\ buckets \in [Bucket -> Node \cup {Null}]
  /\ next \in Links
  /\ nodeKey \in [Node -> Key \cup {Absent}]
  /\ nodeVal \in [Node -> Value \cup {Absent}]
  /\ node \in [Thread -> Node \cup {Null}]
  /\ prev \in [Thread -> Node \cup {Null}]
  /\ calls \in 0 .. MaxCalls
  /\ DOMAIN result = Thread /\ result = [t \in Thread |-> result[t]]

InBucket(b) == List(buckets[b])

\* The list of bucket b is a list, of nodes with the keys of the bucket, each of
\* which occurs once.
BucketInv(b) ==
  /\ Acyclic(next, buckets[b]) /\ Linear(next, buckets[b])
  /\ \A n \in InBucket(b) :
       /\ nodeKey[n] \in Key /\ BucketOf(nodeKey[n]) = b /\ nodeVal[n] \in Value
       /\ n <= calls
  /\ \A m, n \in InBucket(b) : nodeKey[m] = nodeKey[n] => m = n

\* A call still has the node it may insert.
Fresh(t) == pc[t] \in {"lock", "search", "publish"}

FreshInv(t) ==
  /\ node[t] \in Node /\ node[t] <= calls
  /\ \A b \in Bucket : node[t] \notin InBucket(b)
  /\ \A u \in Thread : Fresh(u) /\ node[u] = node[t] => u = t

\* The new node is ready and its key is not in the list.
PublishReady(t) ==
  /\ Op(t) \in {"put", "putIfAbsent"}
  /\ nodeKey[node[t]] = call[t].key /\ nodeVal[node[t]] = call[t].val
  /\ next[node[t]] = buckets[MyBucket(t)]
  /\ \A n \in InBucket(MyBucket(t)) : nodeKey[n] # call[t].key

\* The node to remove is in the list, behind prev or at its head.
UnlinkReady(t) ==
  /\ Op(t) = "remove"
  /\ node[t] \in InBucket(MyBucket(t)) /\ nodeKey[node[t]] = call[t].key
  /\ IF prev[t] = Null THEN buckets[MyBucket(t)] = node[t]
     ELSE prev[t] \in InBucket(MyBucket(t)) /\ next[prev[t]] = node[t]

CallInv(t) ==
  /\ Fresh(t) => FreshInv(t)
  /\ pc[t] = "publish" => PublishReady(t)
  /\ pc[t] = "unlink" => UnlinkReady(t)

ListsInv ==
  /\ NodesTyped
  /\ \A b \in Bucket : BucketInv(b)
  /\ \A t \in Thread : CallInv(t)

MapInv == LockInv /\ ListsInv

LEMMA ListsInit == Init => ListsInv
<1> SUFFICES ASSUME Init PROVE ListsInv
  OBVIOUS
<1>1. NodesTyped
  <2>1. 0 \in 0 .. MaxCalls  BY BoundsAssumption
  <2> QED  BY <2>1 DEF Init, NodesTyped, Links
<1>2. \A b \in Bucket : buckets[b] = Null /\ InBucket(b) = {}
  BY FromIsClosed, <1>1 DEF Init, InBucket, List, NodesTyped
<1>3. \A b \in Bucket : BucketInv(b)
  BY <1>2 DEF BucketInv, Acyclic, Linear, InBucket, List
<1>4. \A t \in Thread : CallInv(t)
  BY DEF Init, CallInv, Fresh
<1> QED  BY <1>1, <1>3, <1>4 DEF ListsInv

\* A key belongs to a bucket, and a call with a key to the bucket of its key.
LEMMA BucketOfKey == \A k \in Key : BucketOf(k) \in Bucket
BY HashAssumption, CapacityAssumption DEF BucketOf, Bucket

LEMMA CallOfList ==
  ASSUME LockInv, NEW t \in Thread,
         pc[t] \in {"lock", "search", "publish", "unlink", "sizeLoad", "sizeStore", "unlock"}
  PROVE  /\ call[t] \in Call /\ Op(t) \in KeyedOp
         /\ call[t].key \in Key /\ MyBucket(t) \in Bucket
         /\ Op(t) \in WriteOp => call[t].val \in Value
<1>1. call[t] \in Call \cup {NoCall} /\ call[t].op \in KeyedOp
  BY DEF LockInv, LocksTyped, Holds, HoldsItsLock
<1>2. call[t] \in Call /\ call[t].key \in Key
  BY <1>1 DEF Call, NoCall, KeyedOp, WriteOp, ReadOp, WholeOp
<1>3. call[t].op \in WriteOp => call[t].val \in Value
  BY <1>1, <1>2 DEF Call, WriteOp, ReadOp, WholeOp
<1> QED  BY <1>1, <1>2, <1>3, BucketOfKey DEF Op, MyBucket

\* The lists of two buckets have no node in common.
LEMMA ListsApart ==
  ASSUME ListsInv, NEW b \in Bucket, NEW c \in Bucket, NEW n \in InBucket(b), n \in InBucket(c)
  PROVE  b = c
BY DEF ListsInv, BucketInv

\* A step leaves a node alone, or all but the values of a list.
SameLink(n) == next'[n] = next[n] /\ nodeKey'[n] = nodeKey[n]
SameNode(n) == SameLink(n) /\ nodeVal'[n] = nodeVal[n]
SameBucket(b) == buckets'[b] = buckets[b] /\ \A n \in InBucket(b) : SameLink(n)

LEMMA BucketStays ==
  ASSUME NodesTyped, NodesTyped', NEW b \in Bucket, BucketInv(b), SameBucket(b),
         \A n \in InBucket(b) : nodeVal'[n] \in Value, calls <= calls'
  PROVE  InBucket(b)' = InBucket(b) /\ BucketInv(b)'
<1>1. buckets[b] \in Node \cup {Null} /\ buckets'[b] = buckets[b]
      /\ next \in Links /\ next' \in Links
  BY DEF NodesTyped, SameBucket
<1>2. InBucket(b)' = InBucket(b)
  BY <1>1, FromSame DEF SameBucket, SameLink, InBucket, List
<1>3. \A m \in InBucket(b) : From(next', next'[m]) = From(next, next[m])
  <2> TAKE m \in InBucket(b)
  <2>1. next'[m] = next[m] /\ next[m] \in Node \cup {Null} /\ From(next, next[m]) \subseteq InBucket(b)
    BY <1>1, FromIsClosed, FromRest DEF SameBucket, SameLink, InBucket, List, Links
  <2> QED  BY <1>1, <2>1, FromSame DEF SameBucket, SameLink
<1>4. Acyclic(next', buckets'[b])
  BY <1>1, <1>2, <1>3 DEF BucketInv, Acyclic, InBucket, List
<1>5. Linear(next', buckets'[b])
  BY <1>1, <1>2 DEF BucketInv, Linear, InBucket, List, SameBucket, SameLink
<1>6. \A n \in InBucket(b) : n \in Node  BY <1>1, FromIsClosed DEF InBucket, List
<1>7. \A n \in InBucket(b)' :
        /\ nodeKey'[n] \in Key /\ BucketOf(nodeKey'[n]) = b /\ nodeVal'[n] \in Value
        /\ n <= calls'
  BY <1>2, <1>6 DEF BucketInv, SameBucket, SameLink, NodesTyped, Node
<1>8. \A m, n \in InBucket(b)' : nodeKey'[m] = nodeKey'[n] => m = n
  BY <1>2 DEF BucketInv, SameBucket, SameLink
<1> QED  BY <1>2, <1>4, <1>5, <1>7, <1>8 DEF BucketInv

\* What a call knows stays true while its own variables, its list and its node do.
LEMMA CallStays ==
  ASSUME LockInv, ListsInv, NodesTyped', NEW t \in Thread,
         pc'[t] = pc[t], call'[t] = call[t], node'[t] = node[t], prev'[t] = prev[t],
         pc[t] \in {"publish", "unlink"} => SameBucket(MyBucket(t)),
         pc[t] = "publish" => SameNode(node[t]),
         Fresh(t) => FreshInv(t)'
  PROVE  CallInv(t)'
<1>1. CASE pc[t] = "publish"
  <2>1. MyBucket(t) \in Bucket /\ MyBucket(t)' = MyBucket(t) /\ Op(t)' = Op(t)
    BY <1>1, CallOfList DEF MyBucket, Op, BucketOf
  <2>2. InBucket(MyBucket(t))' = InBucket(MyBucket(t))
    BY <1>1, <2>1, FromSame DEF ListsInv, NodesTyped, SameBucket, SameLink, InBucket, List
  <2>3. PublishReady(t)'
    BY <1>1, <2>1, <2>2 DEF ListsInv, CallInv, PublishReady, SameBucket, SameNode, SameLink
  <2> QED  BY <1>1, <2>3 DEF CallInv, Fresh
<1>2. CASE pc[t] = "unlink"
  <2>1. MyBucket(t) \in Bucket /\ MyBucket(t)' = MyBucket(t) /\ Op(t)' = Op(t)
    BY <1>2, CallOfList DEF MyBucket, Op, BucketOf
  <2>2. InBucket(MyBucket(t))' = InBucket(MyBucket(t))
    BY <1>2, <2>1, FromSame DEF ListsInv, NodesTyped, SameBucket, SameLink, InBucket, List
  <2>3. UnlinkReady(t)'
    BY <1>2, <2>1, <2>2 DEF ListsInv, CallInv, UnlinkReady, SameBucket, SameLink
  <2> QED  BY <1>2, <2>3 DEF CallInv, Fresh
<1> QED  BY <1>1, <1>2 DEF CallInv, Fresh
\* A step of p keeps the invariant if it keeps each list, what p knows, and what
\* the others know.
LEMMA StepOf ==
  ASSUME LockInv, ListsInv, NodesTyped', NEW p \in Thread, calls <= calls',
         \A t \in Thread : t # p =>
           /\ pc'[t] = pc[t] /\ call'[t] = call[t] /\ node'[t] = node[t] /\ prev'[t] = prev[t]
           /\ pc[t] \in {"publish", "unlink"} => SameBucket(MyBucket(t))
           /\ pc[t] = "publish" => SameNode(node[t])
           /\ Fresh(t) => \A b \in Bucket : node[t] \notin InBucket(b)'
           /\ Fresh(t) /\ Fresh(p)' => node[t] # node'[p],
         \A b \in Bucket : BucketInv(b)',
         CallInv(p)'
  PROVE  ListsInv'
<1>1. ASSUME NEW t \in Thread, t # p PROVE CallInv(t)'
  <2>1. Fresh(t) => FreshInv(t)'
    <3> SUFFICES ASSUME Fresh(t) PROVE FreshInv(t)'
      OBVIOUS
    <3>1. FreshInv(t)  BY DEF ListsInv, CallInv
    <3>2. node'[t] \in Node /\ node'[t] <= calls'
      BY <1>1, <3>1 DEF FreshInv, Node, ListsInv, NodesTyped
    <3>3. \A b \in Bucket : node'[t] \notin InBucket(b)'  BY <1>1
    <3>4. \A u \in Thread : Fresh(u)' /\ node'[u] = node'[t] => u = t
      BY <1>1, <3>1 DEF Fresh, FreshInv
    <3> QED  BY <3>2, <3>3, <3>4 DEF FreshInv
  <2> QED  BY <1>1, <2>1, CallStays
<1> QED  BY <1>1 DEF ListsInv

\* Most steps leave all nodes alone.
LEMMA QuietStep ==
  ASSUME LockInv, ListsInv, NodesTyped', NEW p \in Thread, calls <= calls', UNCHANGED nodeVars,
         \A t \in Thread : t # p =>
           pc'[t] = pc[t] /\ call'[t] = call[t] /\ node'[t] = node[t] /\ prev'[t] = prev[t],
         \A t \in Thread : t # p /\ Fresh(t) /\ Fresh(p)' => node[t] # node'[p],
         CallInv(p)'
  PROVE  ListsInv'
<1> USE DEF nodeVars
<1>1. \A b \in Bucket : SameBucket(b) /\ InBucket(b)' = InBucket(b)
  BY DEF SameBucket, SameLink, InBucket, List
<1>2. \A b \in Bucket : BucketInv(b)'
  <2> TAKE b \in Bucket
  <2>1. NodesTyped /\ BucketInv(b) /\ \A n \in InBucket(b) : nodeVal'[n] \in Value
    BY DEF ListsInv, BucketInv
  <2> QED  BY <1>1, <2>1, BucketStays
<1>3. ASSUME NEW t \in Thread, t # p
      PROVE  /\ pc[t] \in {"publish", "unlink"} => SameBucket(MyBucket(t))
             /\ pc[t] = "publish" => SameNode(node[t])
             /\ Fresh(t) => \A b \in Bucket : node[t] \notin InBucket(b)'
  BY <1>1, CallOfList DEF SameNode, SameLink, ListsInv, CallInv, FreshInv
<1> QED  BY <1>2, <1>3, StepOf

\* Two calls that insert have two nodes, and who unlinks has one in its list.
LEMMA FreshNodes ==
  ASSUME ListsInv, NEW p \in Thread, Fresh(p), NEW t \in Thread, Fresh(t), t # p
  PROVE  node[t] # node[p]
BY DEF ListsInv, CallInv, FreshInv

LEMMA BeginLists ==
  ASSUME MapInv, NEW p \in Thread, Begin(p)
  PROVE  ListsInv'
<1>1. NodesTyped /\ calls \in Nat /\ calls' = calls + 1 /\ calls + 1 \in Node
  BY BoundsAssumption DEF MapInv, ListsInv, NodesTyped, Begin, Node
<1>2. NodesTyped' /\ node'[p] = calls + 1
  BY <1>1 DEF Begin, NodesTyped, nodeVars, Node
<1>3. PICK c \in Call :
        pc' = [pc EXCEPT ![p] = CASE c.op \in WriteOp \cup ReadOp -> "lock"
                                  [] c.op \in {"clear", "keys"} -> "lockAll"
                                  [] OTHER -> "body"]
        /\ call' = [call EXCEPT ![p] = c]
  BY DEF Begin
<1>4. pc'[p] \in {"lock", "lockAll", "body"}
  BY <1>3 DEF MapInv, LockInv, LocksTyped, WriteOp, ReadOp
<1>5. \A t \in Thread : t # p =>
        pc'[t] = pc[t] /\ call'[t] = call[t] /\ node'[t] = node[t] /\ prev'[t] = prev[t]
  BY <1>1, <1>3 DEF Begin, MapInv, LockInv, LocksTyped, NodesTyped
<1>6. \A t \in Thread : t # p /\ Fresh(t) => node[t] # node'[p]
  BY <1>1, <1>2 DEF MapInv, ListsInv, CallInv, FreshInv, Node
<1>7. CallInv(p)'
  <2>1. \A b \in Bucket : InBucket(b)' = InBucket(b) /\ node'[p] \notin InBucket(b)
    BY <1>1, <1>2 DEF Begin, nodeVars, InBucket, List, MapInv, ListsInv, BucketInv, Node
  <2>2. FreshInv(p)'
    <3>1. \A u \in Thread : Fresh(u)' /\ node'[u] = node'[p] => u = p
      BY <1>5, <1>6 DEF Fresh
    <3> QED  BY <1>1, <1>2, <2>1, <3>1 DEF FreshInv, Node
  <2> QED  BY <1>4, <2>2 DEF CallInv
<1> QED  BY <1>1, <1>2, <1>5, <1>6, <1>7, QuietStep DEF MapInv, Begin

\* The steps that read, wait or let go.
LEMMA PassiveLists ==
  ASSUME MapInv, NEW p \in Thread,
         \/ ReadSize(p) \/ LoadSize(p) \/ StoreSize(p) \/ Release(p)
         \/ AcquireNext(p) \/ ListKeys(p) \/ ReleaseNext(p)
  PROVE  ListsInv'
<1> USE DEF nodeVars, localVars, Goes, Leave, Answer
<1>1. LocksTyped /\ NodesTyped  BY DEF MapInv, LockInv, ListsInv
<1>2. /\ UNCHANGED nodeVars /\ calls' = calls
      /\ NodesTyped'
  BY <1>1 DEF NodesTyped, ReadSize, LoadSize, StoreSize, Release, AcquireNext, ListKeys,
              ReleaseNext
<1>3. \A t \in Thread : t # p =>
        pc'[t] = pc[t] /\ call'[t] = call[t] /\ node'[t] = node[t] /\ prev'[t] = prev[t]
  BY <1>1 DEF NodesTyped, LocksTyped, ReadSize, LoadSize, StoreSize, Release, AcquireNext,
              ListKeys, ReleaseNext
<1>4. pc'[p] \notin {"lock", "search", "publish", "unlink"}
  BY <1>1 DEF LocksTyped, ReadSize, LoadSize, StoreSize, Release, AcquireNext, ListKeys,
              ReleaseNext
<1>5. CallInv(p)' /\ ~Fresh(p)'  BY <1>4 DEF CallInv, Fresh
<1>6. calls <= calls'  BY <1>1, <1>2 DEF NodesTyped
<1> QED  BY <1>2, <1>3, <1>5, <1>6, QuietStep DEF MapInv

LEMMA AcquireLists ==
  ASSUME MapInv, NEW p \in Thread, Acquire(p)
  PROVE  ListsInv'
<1> USE DEF nodeVars, localVars, Goes
<1>1. LocksTyped /\ NodesTyped  BY DEF MapInv, LockInv, ListsInv
<1>2. UNCHANGED <<nodeVars, node, prev, call, calls>> /\ NodesTyped'
  BY <1>1 DEF NodesTyped, Acquire
<1>3. /\ pc[p] = "lock" /\ pc'[p] = "search"
      /\ \A t \in Thread : t # p => pc'[t] = pc[t]
  BY <1>1 DEF Acquire, LocksTyped
<1>4. \A t \in Thread : Fresh(t)' <=> Fresh(t)  BY <1>3 DEF Fresh
<1>5. CallInv(p)'
  <2>1. \A b \in Bucket : InBucket(b)' = InBucket(b)  BY <1>2 DEF InBucket, List
  <2>2. FreshInv(p)  BY <1>3 DEF MapInv, ListsInv, CallInv, Fresh
  <2>3. FreshInv(p)'  BY <1>2, <1>4, <2>1, <2>2 DEF FreshInv
  <2> QED  BY <1>3, <2>3 DEF CallInv
<1>6. \A t \in Thread : t # p /\ Fresh(t) => node[t] # node'[p]
  BY <1>2, <1>3, FreshNodes DEF MapInv, Fresh
<1>7. calls <= calls'  BY <1>1, <1>2 DEF NodesTyped
<1> QED  BY <1>2, <1>3, <1>5, <1>6, <1>7, QuietStep DEF MapInv
\* Lists are exclusive, also in terms of what other threads are about to do.
LEMMA OtherLists ==
  ASSUME MapInv, LocksCoverLists, NEW p \in Thread, InList(p), NEW t \in Thread, t # p, InList(t)
  PROVE  MyBucket(t) # MyBucket(p) /\ MyBucket(t) \in Bucket /\ MyBucket(p) \in Bucket
<1>1. /\ call[t].key \in Key /\ call[p].key \in Key
      /\ MyBucket(t) \in Bucket /\ MyBucket(p) \in Bucket
  BY CallOfList DEF MapInv, InList
<1>2. owner[MyLock(t)] = t /\ owner[MyLock(p)] = p
  BY DEF MapInv, LockInv, Holds, HoldsItsLock
<1>3. MyLock(t) # MyLock(p)  BY <1>2
<1> QED  BY <1>1, <1>3 DEF LocksCoverLists, MyBucket, MyLock

LEMMA HitsLists ==
  ASSUME MapInv, NEW p \in Thread, NEW n \in Node, SearchHits(p, n)
  PROVE  ListsInv'
<1> DEFINE b == MyBucket(p)
<1> USE DEF Answer
<1>1. LocksTyped /\ NodesTyped  BY DEF MapInv, LockInv, ListsInv
<1>2. /\ call[p].key \in Key /\ b \in Bucket /\ pc[p] = "search"
      /\ Op(p) \in WriteOp => call[p].val \in Value
      /\ n \in InBucket(b) /\ nodeKey[n] = call[p].key
      /\ UNCHANGED <<buckets, next, nodeKey, call, calls>>
  BY CallOfList DEF MapInv, SearchHits, Found, InBucket
<1>3. \A m \in Node : nodeVal'[m] = nodeVal[m] \/ (m = n /\ nodeVal'[m] \in Value)
  BY <1>1, <1>2 DEF SearchHits, NodesTyped, WriteOp
<1>4. NodesTyped'
  <2>1. nodeVal' \in [Node -> Value \cup {Absent}]
    BY <1>1, <1>2 DEF SearchHits, NodesTyped, WriteOp
  <2>2. node' \in [Thread -> Node \cup {Null}]  BY <1>1 DEF SearchHits, NodesTyped
  <2>3. prev' \in [Thread -> Node \cup {Null}]
    <3>1. ASSUME Before(p, n) # {} PROVE (CHOOSE m \in Before(p, n) : TRUE) \in Node
      <4>1. Before(p, n) \subseteq Node  BY DEF Before, List, From
      <4> QED  BY <3>1, <4>1
    <3>2. PICK x \in Node \cup {Null} : prev' = [prev EXCEPT ![p] = x] \/ prev' = prev
      BY <3>1 DEF SearchHits
    <3> QED  BY <1>1, <3>2 DEF NodesTyped
  <2>4. DOMAIN result' = Thread /\ result' = [t \in Thread |-> result'[t]]
    BY <1>1 DEF SearchHits, NodesTyped
  <2> QED  BY <1>1, <1>2, <2>1, <2>2, <2>3, <2>4 DEF NodesTyped
<1>5. \A c \in Bucket : SameBucket(c) /\ InBucket(c)' = InBucket(c)
  BY <1>2 DEF SameBucket, SameLink, InBucket, List
<1>6. \A c \in Bucket : BucketInv(c)'
  <2> TAKE c \in Bucket
  <2>1. NodesTyped /\ BucketInv(c)  BY DEF MapInv, ListsInv
  <2>2. \A m \in InBucket(c) : m \in Node /\ nodeVal'[m] \in Value
    BY <1>3, <2>1 DEF BucketInv, InBucket, List, From
  <2>3. calls <= calls'  BY <1>1, <1>2 DEF NodesTyped
  <2> QED  BY <1>4, <1>5, <2>1, <2>2, <2>3, BucketStays
<1>7. \A t \in Thread : t # p =>
        pc'[t] = pc[t] /\ call'[t] = call[t] /\ node'[t] = node[t] /\ prev'[t] = prev[t]
  BY <1>1 DEF SearchHits, LocksTyped, NodesTyped
<1>8. ASSUME NEW t \in Thread, t # p
      PROVE  /\ pc[t] = "publish" => SameNode(node[t])
             /\ Fresh(t) => \A c \in Bucket : node[t] \notin InBucket(c)'
  <2>1. Fresh(t) => node[t] \in Node /\ \A c \in Bucket : node[t] \notin InBucket(c)
    BY DEF MapInv, ListsInv, CallInv, FreshInv
  <2>2. Fresh(t) => node[t] # n  BY <1>2, <2>1
  <2> QED  BY <1>2, <1>3, <1>5, <2>1, <2>2 DEF SameNode, SameLink, Fresh
<1>9. ~Fresh(p)' /\ (pc'[p] = "unlink" \/ pc'[p] = "unlock")
  BY <1>1 DEF SearchHits, LocksTyped, Fresh
<1>10. ASSUME pc'[p] = "unlink" PROVE UnlinkReady(p)'
  <2>1. Op(p) = "remove"  BY <1>1, <1>10 DEF SearchHits, LocksTyped
  <2>2. /\ node'[p] = n
        /\ prev'[p] = IF Before(p, n) = {} THEN Null ELSE CHOOSE m \in Before(p, n) : TRUE
    BY <1>1, <2>1 DEF SearchHits, NodesTyped
  <2>3. Op(p)' = Op(p) /\ MyBucket(p)' = b /\ call'[p] = call[p]
    BY <1>2 DEF Op, MyBucket, BucketOf
  <2>4. CASE Before(p, n) = {}
    <3>1. \A k \in From(next, buckets[b]) : next[k] # n
      BY <2>4 DEF Before, List
    <3>2. buckets[b] = n
      BY <1>1, <1>2, <3>1, FromPrevious DEF NodesTyped, InBucket, List
    <3>3. buckets'[b] = node'[p] /\ node'[p] \in InBucket(b)' /\ nodeKey'[node'[p]] = call'[p].key
      BY <1>2, <1>5, <2>2, <2>3, <3>2
    <3>4. prev'[p] = Null  BY <2>2, <2>4
    <3> QED  BY <2>1, <2>3, <3>3, <3>4 DEF UnlinkReady, InBucket, List
  <2>5. CASE Before(p, n) # {}
    <3>1. prev'[p] \in Before(p, n)  BY <2>2, <2>5
    <3>2. prev'[p] \in InBucket(b) /\ next[prev'[p]] = n /\ prev'[p] # Null
      BY <3>1 DEF Before, InBucket, List, From, Node, Null
    <3>3. /\ node'[p] \in InBucket(b)' /\ nodeKey'[node'[p]] = call'[p].key
          /\ prev'[p] \in InBucket(b)' /\ next'[prev'[p]] = node'[p]
      BY <1>2, <1>5, <2>2, <2>3, <3>2
    <3> QED  BY <2>1, <2>3, <3>2, <3>3 DEF UnlinkReady, InBucket, List
  <2> QED  BY <2>4, <2>5
<1>11. CallInv(p)'  BY <1>9, <1>10 DEF CallInv, Fresh
<1>12. ASSUME NEW t \in Thread, pc[t] \in {"publish", "unlink"}
       PROVE  SameBucket(MyBucket(t))
  BY <1>5, <1>12, CallOfList DEF MapInv
<1>13. calls <= calls'  BY <1>1, <1>2 DEF NodesTyped
<1> QED  BY <1>4, <1>6, <1>7, <1>8, <1>9, <1>11, <1>12, <1>13, StepOf DEF MapInv

LEMMA MissesLists ==
  ASSUME MapInv, NEW p \in Thread, SearchMisses(p)
  PROVE  ListsInv'
<1> DEFINE b == MyBucket(p)  m == node[p]
<1> USE DEF Answer, localVars
<1>1. LocksTyped /\ NodesTyped  BY DEF MapInv, LockInv, ListsInv
<1>2. /\ call[p].key \in Key /\ b \in Bucket /\ pc[p] = "search" /\ Fresh(p)
      /\ Op(p) \in WriteOp => call[p].val \in Value
      /\ \A n \in InBucket(b) : nodeKey[n] # call[p].key
      /\ UNCHANGED <<buckets, node, prev, call, calls>>
      /\ \A t \in Thread : t # p => pc'[t] = pc[t]
  BY <1>1, CallOfList DEF MapInv, SearchMisses, Found, InBucket, Fresh, LocksTyped
<1>3. /\ m \in Node /\ FreshInv(p)
      /\ \A c \in Bucket : m \notin InBucket(c)
  BY <1>2 DEF MapInv, ListsInv, CallInv, FreshInv
<1>4. CASE Op(p) \in {"put", "putIfAbsent"}
  <2>1. /\ pc'[p] = "publish" /\ UNCHANGED result
        /\ nodeKey' = [nodeKey EXCEPT ![m] = call[p].key]
        /\ nodeVal' = [nodeVal EXCEPT ![m] = call[p].val]
        /\ next' = [next EXCEPT ![m] = buckets[b]]
        /\ call[p].val \in Value
    BY <1>1, <1>2, <1>4 DEF SearchMisses, LocksTyped, WriteOp
  <2>2. NodesTyped'
    BY <1>1, <1>2, <1>3, <2>1 DEF NodesTyped, Links
  <2>3. \A n \in Node : n # m => SameNode(n)
    BY <1>1, <2>1 DEF SameNode, SameLink, NodesTyped, Links
  <2>4. \A c \in Bucket : InBucket(c) \subseteq Node \ {m}
    BY <1>3 DEF InBucket, List, From
  <2>5. \A c \in Bucket : SameBucket(c) /\ BucketInv(c)' /\ InBucket(c)' = InBucket(c)
    <3> TAKE c \in Bucket
    <3>1. SameBucket(c)  BY <1>2, <2>3, <2>4 DEF SameBucket, SameNode
    <3>2. BucketInv(c)  BY DEF MapInv, ListsInv
    <3>3. \A n \in InBucket(c) : nodeVal'[n] \in Value
      BY <2>3, <2>4, <3>2 DEF BucketInv, SameNode
    <3>4. calls <= calls'  BY <1>1, <1>2 DEF NodesTyped
    <3> QED  BY <1>1, <2>2, <3>1, <3>2, <3>3, <3>4, BucketStays
  <2>6. ASSUME NEW t \in Thread, t # p
        PROVE  /\ pc[t] \in {"publish", "unlink"} => SameBucket(MyBucket(t))
               /\ pc[t] = "publish" => SameNode(node[t])
               /\ Fresh(t) => \A c \in Bucket : node[t] \notin InBucket(c)'
               /\ Fresh(t) => node[t] # node'[p]
    <3>1. Fresh(t) => node[t] \in Node /\ node[t] # m
                      /\ \A c \in Bucket : node[t] \notin InBucket(c)
      BY <1>2, <2>6, FreshNodes DEF MapInv, ListsInv, CallInv, FreshInv
    <3> QED  BY <1>2, <2>3, <2>5, <3>1, CallOfList DEF MapInv, Fresh
  <2>7. CallInv(p)'
    <3>1. \A t \in Thread : Fresh(t)' <=> Fresh(t)  BY <1>2, <2>1 DEF Fresh
    <3>2. FreshInv(p)'  BY <1>2, <1>3, <2>5, <3>1 DEF FreshInv
    <3>3. Op(p)' = Op(p) /\ MyBucket(p)' = b /\ call'[p] = call[p] /\ node'[p] = m
      BY <1>2 DEF Op, MyBucket, BucketOf
    <3>4. nodeKey'[m] = call[p].key /\ nodeVal'[m] = call[p].val /\ next'[m] = buckets[b]
      BY <1>1, <1>3, <2>1 DEF NodesTyped, Links
    <3>5. \A n \in InBucket(b) : nodeKey'[n] = nodeKey[n]
      BY <2>3, <2>4, <1>2 DEF SameNode, SameLink
    <3>6. \A n \in InBucket(b)' : nodeKey'[n] # call[p].key
      <4>1. InBucket(b)' = From(next', buckets'[b])  BY <3>3 DEF InBucket, List
      <4>2. From(next', buckets'[b]) = InBucket(b)  BY <1>2, <2>5 DEF InBucket, List
      <4> QED  BY <1>2, <3>5, <4>1, <4>2
    <3>7. InBucket(MyBucket(p))' = InBucket(b)'  BY <1>2, <3>3 DEF InBucket, List
    <3>8. PublishReady(p)'
      BY <1>2, <1>4, <3>3, <3>4, <3>6, <3>7 DEF PublishReady
    <3> QED  BY <2>1, <3>2, <3>8 DEF CallInv
  <2>8. calls <= calls'  BY <1>1, <1>2 DEF NodesTyped
  <2> QED  BY <1>2, <2>2, <2>5, <2>6, <2>7, <2>8, StepOf DEF MapInv
<1>5. CASE Op(p) \notin {"put", "putIfAbsent"}
  <2>1. pc'[p] = "unlock" /\ UNCHANGED nodeVars
    BY <1>1, <1>5 DEF SearchMisses, LocksTyped, nodeVars
  <2>2. NodesTyped'
    BY <1>1, <1>2, <1>5, <2>1 DEF SearchMisses, NodesTyped, nodeVars
  <2>3. CallInv(p)' /\ ~Fresh(p)'  BY <2>1 DEF CallInv, Fresh
  <2>4. calls <= calls'  BY <1>1, <1>2 DEF NodesTyped
  <2> QED  BY <1>2, <2>1, <2>2, <2>3, <2>4, QuietStep DEF MapInv
<1> QED  BY <1>4, <1>5
\* Publishing puts the new node in front of the list of its key.
LEMMA PublishedList ==
  ASSUME MapInv, NEW p \in Thread, Publish(p)
  PROVE  /\ node[p] \in Node /\ MyBucket(p) \in Bucket
         /\ call[p].key \in Key /\ BucketOf(call[p].key) = MyBucket(p)
         /\ \A c \in Bucket : node[p] \notin InBucket(c)
         /\ nodeKey[node[p]] = call[p].key /\ nodeVal[node[p]] = call[p].val
         /\ call[p].val \in Value /\ node[p] <= calls /\ PublishReady(p)
         /\ buckets' = [buckets EXCEPT ![MyBucket(p)] = node[p]]
         /\ From(next, node[p]) = {node[p]} \cup InBucket(MyBucket(p))
         /\ Acyclic(next, node[p]) /\ Linear(next, node[p])
         /\ \A c \in Bucket : InBucket(c)' = IF c = MyBucket(p) THEN {node[p]} \cup InBucket(c)
                                             ELSE InBucket(c)
<1> DEFINE b == MyBucket(p)  m == node[p]
<1>1. NodesTyped  BY DEF MapInv, ListsInv
<1>2. /\ call[p].key \in Key /\ b \in Bucket /\ pc[p] = "publish"
      /\ Op(p) \in WriteOp => call[p].val \in Value
  BY CallOfList DEF MapInv, Publish, Goes
<1>3. PublishReady(p) /\ FreshInv(p)
  BY <1>2 DEF MapInv, ListsInv, CallInv, Fresh
<1>4. call[p].val \in Value  BY <1>2, <1>3 DEF PublishReady, WriteOp
<1>5. /\ m \in Node /\ \A c \in Bucket : m \notin InBucket(c)
      /\ next[m] = buckets[b] /\ m <= calls
  BY <1>3 DEF PublishReady, FreshInv
<1>6. Acyclic(next, buckets[b]) /\ Linear(next, buckets[b]) /\ m \notin From(next, buckets[b])
  BY <1>2, <1>5 DEF MapInv, ListsInv, BucketInv, InBucket, List
<1>7. next \in Links /\ buckets[b] \in Node \cup {Null}  BY <1>1, <1>2 DEF NodesTyped
<1>8. /\ From(next, m) = {m} \cup InBucket(b)
      /\ Acyclic(next, m) /\ Linear(next, m)
  BY <1>5, <1>6, <1>7, FromInsert DEF InBucket, List
<1>9. buckets' = [buckets EXCEPT ![b] = m] /\ next' = next  BY DEF Publish
<1>10. \A c \in Bucket : InBucket(c)' = IF c = b THEN {m} \cup InBucket(c) ELSE InBucket(c)
  BY <1>1, <1>2, <1>8, <1>9 DEF InBucket, List, NodesTyped
<1> QED  BY <1>2, <1>3, <1>4, <1>5, <1>8, <1>9, <1>10 DEF MyBucket, PublishReady

LEMMA PublishLists ==
  ASSUME MapInv, LocksCoverLists, NEW p \in Thread, Publish(p)
  PROVE  ListsInv'
<1> DEFINE b == MyBucket(p)  m == node[p]
<1> USE DEF Answer, localVars, Goes
<1>1. LocksTyped /\ NodesTyped  BY DEF MapInv, LockInv, ListsInv
<1>2. PICK d \in Bucket : d = b  BY PublishedList
<1>3. PICK x \in Node : x = m  BY PublishedList
<1>4. /\ pc[p] = "publish" /\ pc'[p] = "sizeLoad"
      /\ UNCHANGED <<next, nodeKey, nodeVal, call, node, prev, calls>>
      /\ \A t \in Thread : t # p => pc'[t] = pc[t]
      /\ buckets' = [buckets EXCEPT ![d] = x]
  BY <1>1, <1>2, <1>3 DEF Publish, LocksTyped
<1>5. NodesTyped'  BY <1>1, <1>4 DEF NodesTyped, Publish
<1>6. /\ \A c \in Bucket : InBucket(c)' = IF c = d THEN {x} \cup InBucket(c) ELSE InBucket(c)
      /\ \A c \in Bucket : x \notin InBucket(c)
      /\ nodeKey[x] \in Key /\ BucketOf(nodeKey[x]) = d /\ nodeVal[x] \in Value /\ x <= calls
      /\ \A n \in InBucket(d) : nodeKey[n] # nodeKey[x]
      /\ From(next, x) = {x} \cup InBucket(d)
      /\ Acyclic(next, x) /\ Linear(next, x)
  BY <1>2, <1>3, PublishedList DEF PublishReady
<1>7. \A c \in Bucket : c # d => SameBucket(c)
  BY <1>1, <1>4 DEF SameBucket, SameLink, NodesTyped
<1>8. calls <= calls' /\ calls' = calls  BY <1>1, <1>4 DEF NodesTyped
<1>9. \A c \in Bucket : BucketInv(c)'
  <2> TAKE c \in Bucket
  <2>1. BucketInv(c)  BY DEF MapInv, ListsInv
  <2>2. CASE c # d
    <3>1. \A n \in InBucket(c) : nodeVal'[n] \in Value  BY <1>4, <2>1 DEF BucketInv
    <3> QED  BY <1>1, <1>5, <1>7, <1>8, <2>1, <2>2, <3>1, BucketStays
  <2>3. CASE c = d
    <3>1. buckets'[c] = x /\ next' = next  BY <1>1, <1>4, <2>3 DEF NodesTyped
    <3>2. InBucket(c)' = {x} \cup InBucket(c)  BY <1>6, <2>3
    <3>3. \A n \in InBucket(c)' :
            /\ nodeKey'[n] \in Key /\ BucketOf(nodeKey'[n]) = c /\ nodeVal'[n] \in Value
            /\ n <= calls'
      BY <1>4, <1>6, <1>8, <2>1, <2>3, <3>2 DEF BucketInv
    <3>4. \A j, n \in InBucket(c)' : nodeKey'[j] = nodeKey'[n] => j = n
      BY <1>4, <1>6, <2>1, <2>3, <3>2 DEF BucketInv
    <3> QED  BY <1>6, <3>1, <3>3, <3>4 DEF BucketInv
  <2> QED  BY <2>2, <2>3
<1>10. ASSUME NEW t \in Thread, t # p
       PROVE  /\ pc[t] \in {"publish", "unlink"} => SameBucket(MyBucket(t))
              /\ pc[t] = "publish" => SameNode(node[t])
              /\ Fresh(t) => \A c \in Bucket : node[t] \notin InBucket(c)'
  <2>1. pc[t] \in {"publish", "unlink"} => SameBucket(MyBucket(t))
    BY <1>2, <1>4, <1>7, <1>10, OtherLists DEF InList
  <2>2. Fresh(t) => node[t] # x /\ \A c \in Bucket : node[t] \notin InBucket(c)
    BY <1>3, <1>4, <1>10, FreshNodes DEF MapInv, ListsInv, CallInv, FreshInv, Fresh
  <2>3. pc[t] = "publish" => SameNode(node[t])  BY <1>4 DEF SameNode, SameLink
  <2> QED  BY <1>6, <2>1, <2>2, <2>3
<1>11. CallInv(p)' /\ ~Fresh(p)'  BY <1>4 DEF CallInv, Fresh
<1> QED  BY <1>4, <1>5, <1>8, <1>9, <1>10, <1>11, StepOf DEF MapInv

\* Unlinking takes one node out of the list of its key.
LEMMA UnlinkedList ==
  ASSUME MapInv, NEW p \in Thread, Unlink(p)
  PROVE  /\ MyBucket(p) \in Bucket /\ call[p].key \in Key
         /\ BucketOf(call[p].key) = MyBucket(p)
         /\ node[p] \in InBucket(MyBucket(p)) /\ node[p] \in Node
         /\ nodeKey[node[p]] = call[p].key
         /\ next' \in Links /\ buckets' \in [Bucket -> Node \cup {Null}]
         /\ \A c \in Bucket : c # MyBucket(p) =>
              buckets'[c] = buckets[c] /\ \A n \in InBucket(c) : next'[n] = next[n]
         /\ Acyclic(next', buckets'[MyBucket(p)]) /\ Linear(next', buckets'[MyBucket(p)])
         /\ From(next', buckets'[MyBucket(p)]) = InBucket(MyBucket(p)) \ {node[p]}
         /\ \A n \in Node : next'[n] = next[n] \/ n \in InBucket(MyBucket(p))
<1> DEFINE b == MyBucket(p)  m == node[p]  L == InBucket(MyBucket(p))
<1> USE DEF Answer, localVars, Goes
<1>1. NodesTyped  BY DEF MapInv, ListsInv
<1>2. call[p].key \in Key /\ b \in Bucket /\ pc[p] = "unlink"
  BY CallOfList DEF MapInv, Unlink
<1>3. UnlinkReady(p) /\ BucketInv(b)  BY <1>2 DEF MapInv, ListsInv, CallInv
<1>4. /\ m \in L /\ nodeKey[m] = call[p].key /\ L \subseteq Node
      /\ Acyclic(next, buckets[b]) /\ Linear(next, buckets[b])
      /\ next \in Links /\ buckets[b] \in Node \cup {Null} /\ L = From(next, buckets[b])
  BY <1>1, <1>2, <1>3 DEF UnlinkReady, BucketInv, InBucket, List, From, NodesTyped
<1>5. CASE prev[p] = Null
  <2>1. buckets[b] = m /\ m \in Node  BY <1>3, <1>4, <1>5 DEF UnlinkReady
  <2>2. /\ buckets' = [buckets EXCEPT ![b] = next[m]] /\ next' = next
        /\ next[m] \in Node \cup {Null}
    BY <1>4, <1>5 DEF Unlink, Links
  <2>3. /\ From(next, next[m]) = From(next, m) \ {m}
        /\ Acyclic(next, next[m]) /\ Linear(next, next[m])
    BY <1>4, <2>1, FromTail
  <2>4. buckets'[b] = next[m] /\ \A c \in Bucket : c # b => buckets'[c] = buckets[c]
    BY <1>1, <1>2, <2>2 DEF NodesTyped
  <2>5. buckets' \in [Bucket -> Node \cup {Null}]  BY <1>1, <2>2 DEF NodesTyped
  <2> QED  BY <1>2, <1>4, <2>1, <2>2, <2>3, <2>4, <2>5 DEF MyBucket
<1>6. CASE prev[p] # Null
  <2>1. prev[p] \in L /\ next[prev[p]] = m  BY <1>3, <1>6 DEF UnlinkReady
  <2>2. next' = [next EXCEPT ![prev[p]] = next[m]] /\ buckets' = buckets
    BY <1>6 DEF Unlink
  <2>3. /\ next' \in Links
        /\ \A n \in Node : n # prev[p] => next'[n] = next[n]
    BY <1>4, <2>1, <2>2 DEF Links
  <2>4. /\ From(next', buckets[b]) = From(next, buckets[b]) \ {m}
        /\ Acyclic(next', buckets[b]) /\ Linear(next', buckets[b])
    <3> DEFINE n == buckets[b]  q == prev[p]
    <3>1. n \in Node \cup {Null} /\ q \in From(next, n) /\ m \in From(next, n) /\ next[q] = m
      BY <1>4, <2>1
    <3>2. next \in Links /\ next' \in Links /\ Acyclic(next, n) /\ Linear(next, n)
      BY <1>4, <2>3
    <3>3. next'[q] = next[m] /\ \A k \in Node : k # q => next'[k] = next[k]
      BY <1>4, <2>1, <2>2, <2>3 DEF Links
    <3> HIDE DEF n, q, m
    <3>4. From(next', n) = From(next, n) \ {m} /\ Acyclic(next', n) /\ Linear(next', n)
      BY <3>1, <3>2, <3>3, FromUnlink
    <3> QED  BY <3>4 DEF n
  <2>5. \A c \in Bucket : c # b => InBucket(c) \subseteq Node /\ prev[p] \notin InBucket(c)
    BY <1>2, <2>1, ListsApart DEF MapInv, InBucket, List, From
  <2>6. buckets' \in [Bucket -> Node \cup {Null}]  BY <1>1, <2>2 DEF NodesTyped
  <2> QED  BY <1>2, <1>4, <2>1, <2>2, <2>3, <2>4, <2>5, <2>6 DEF MyBucket
<1> QED  BY <1>5, <1>6

LEMMA UnlinkLists ==
  ASSUME MapInv, LocksCoverLists, NEW p \in Thread, Unlink(p)
  PROVE  ListsInv'
<1> USE DEF Answer, localVars, Goes
<1>1. LocksTyped /\ NodesTyped  BY DEF MapInv, LockInv, ListsInv
<1>2. PICK d \in Bucket : d = MyBucket(p)  BY UnlinkedList
<1>3. PICK x \in Node : x = node[p]  BY UnlinkedList
<1>4. /\ pc[p] = "unlink" /\ pc'[p] = "sizeLoad"
      /\ UNCHANGED <<call, node, prev, calls>>
      /\ \A t \in Thread : t # p => pc'[t] = pc[t]
      /\ nodeKey' = [nodeKey EXCEPT ![x] = Absent]
      /\ nodeVal' = [nodeVal EXCEPT ![x] = Absent]
      /\ result' = [result EXCEPT ![p] = {TRUE}]
  BY <1>1, <1>3 DEF Unlink, LocksTyped
<1>5. /\ x \in InBucket(d)
      /\ next' \in Links /\ buckets' \in [Bucket -> Node \cup {Null}]
      /\ \A c \in Bucket : c # d =>
           buckets'[c] = buckets[c] /\ \A n \in InBucket(c) : next'[n] = next[n]
      /\ Acyclic(next', buckets'[d]) /\ Linear(next', buckets'[d])
      /\ From(next', buckets'[d]) = InBucket(d) \ {x}
      /\ \A n \in Node : next'[n] = next[n] \/ n \in InBucket(d)
  BY <1>2, <1>3, UnlinkedList
<1>6. NodesTyped'  BY <1>1, <1>4, <1>5 DEF NodesTyped
<1>7. \A n \in Node : n # x => nodeKey'[n] = nodeKey[n] /\ nodeVal'[n] = nodeVal[n]
  BY <1>1, <1>4 DEF NodesTyped
<1>8. \A c \in Bucket : InBucket(c) \subseteq Node  BY DEF InBucket, List, From
<1>9. \A c \in Bucket : c # d => x \notin InBucket(c)
  BY <1>5, ListsApart DEF MapInv
<1>10. \A c \in Bucket : c # d => SameBucket(c)
  BY <1>5, <1>7, <1>8, <1>9 DEF SameBucket, SameLink
<1>11. calls <= calls' /\ calls' = calls  BY <1>1, <1>4 DEF NodesTyped
<1>12. \A c \in Bucket : BucketInv(c)' /\ InBucket(c)' \subseteq InBucket(c)
  <2> TAKE c \in Bucket
  <2>1. BucketInv(c)  BY DEF MapInv, ListsInv
  <2>2. CASE c # d
    <3>1. \A n \in InBucket(c) : nodeVal'[n] \in Value
      BY <1>7, <1>8, <1>9, <2>1, <2>2 DEF BucketInv
    <3> QED  BY <1>1, <1>6, <1>10, <1>11, <2>1, <2>2, <3>1, BucketStays
  <2>3. CASE c = d
    <3>1. InBucket(c)' = InBucket(c) \ {x}  BY <1>5, <2>3 DEF InBucket, List
    <3>2. \A n \in InBucket(c)' :
            /\ nodeKey'[n] \in Key /\ BucketOf(nodeKey'[n]) = c /\ nodeVal'[n] \in Value
            /\ n <= calls'
      BY <1>7, <1>8, <1>11, <2>1, <3>1 DEF BucketInv
    <3>3. \A j, n \in InBucket(c)' : nodeKey'[j] = nodeKey'[n] => j = n
      BY <1>7, <1>8, <2>1, <3>1 DEF BucketInv
    <3> QED  BY <1>5, <2>3, <3>1, <3>2, <3>3 DEF BucketInv
  <2> QED  BY <2>2, <2>3
<1>13. ASSUME NEW t \in Thread, t # p
       PROVE  /\ pc[t] \in {"publish", "unlink"} => SameBucket(MyBucket(t))
              /\ pc[t] = "publish" => SameNode(node[t])
              /\ Fresh(t) => \A c \in Bucket : node[t] \notin InBucket(c)'
  <2>1. pc[t] \in {"publish", "unlink"} => SameBucket(MyBucket(t))
    BY <1>2, <1>4, <1>10, <1>13, OtherLists DEF InList
  <2>2. Fresh(t) => node[t] \in Node /\ \A c \in Bucket : node[t] \notin InBucket(c)
    BY DEF MapInv, ListsInv, CallInv, FreshInv
  <2>3. Fresh(t) => SameNode(node[t])
    BY <1>5, <1>7, <2>2 DEF SameNode, SameLink
  <2> QED  BY <1>12, <2>1, <2>2, <2>3 DEF Fresh
<1>14. CallInv(p)' /\ ~Fresh(p)'  BY <1>4 DEF CallInv, Fresh
<1> QED  BY <1>4, <1>6, <1>11, <1>12, <1>13, <1>14, StepOf DEF MapInv

LEMMA ClearLists ==
  ASSUME MapInv, NEW p \in Thread, Clear(p)
  PROVE  ListsInv' /\ \A b \in Bucket : InBucket(b)' = {}
<1> USE DEF Answer, localVars, Goes
<1>1. LocksTyped /\ NodesTyped  BY DEF MapInv, LockInv, ListsInv
<1>2. /\ pc[p] = "body" /\ Op(p) = "clear" /\ pc'[p] = "unlockAll"
      /\ UNCHANGED <<next, call, node, prev, calls>>
      /\ \A t \in Thread : t # p => pc'[t] = pc[t]
      /\ buckets' = [b \in Bucket |-> Null]
  BY <1>1 DEF Clear, LocksTyped
<1>3. NodesTyped'  BY <1>1, <1>2 DEF Clear, NodesTyped
<1>4. \A b \in Bucket : buckets'[b] = Null /\ InBucket(b)' = {}
  BY <1>2, <1>3, FromIsClosed DEF InBucket, List, NodesTyped
<1>5. \A b \in Bucket : BucketInv(b)'
  BY <1>4 DEF BucketInv, Acyclic, Linear, InBucket, List
<1>6. \A t \in Thread : t # p => ~InList(t)
  <2>1. ASSUME NEW t \in Thread, t # p, InList(t) PROVE FALSE
    <3>1. MyLock(t) \in Lock /\ owner[MyLock(t)] = t
      BY <2>1, CallOfList, LockOfKey
      DEF MapInv, InList, LockInv, Holds, HoldsItsLock, MyLock
    <3>2. owner[MyLock(t)] = p
      BY <1>2, <3>1 DEF MapInv, LockInv, Holds, HoldsAllLocks
    <3> QED  BY <2>1, <3>1, <3>2
  <2> QED  BY <2>1
<1>7. \A t \in Thread : t # p => pc[t] \notin {"publish", "unlink"}
  BY <1>6 DEF InList
<1>8. CallInv(p)' /\ ~Fresh(p)'  BY <1>2 DEF CallInv, Fresh
<1>9. calls <= calls'  BY <1>1, <1>2 DEF NodesTyped
<1>10. ListsInv'
  BY <1>2, <1>3, <1>4, <1>5, <1>7, <1>8, <1>9, StepOf DEF MapInv
<1> QED  BY <1>4, <1>10

LEMMA MapStep ==
  ASSUME LocksCoverLists, MapInv, [Next]_vars
  PROVE  MapInv'
<1>1. LockInv'  BY LockStep DEF MapInv
<1>2. CASE UNCHANGED vars
  BY <1>1, <1>2 DEF vars, nodeVars, localVars, MapInv, ListsInv, NodesTyped, BucketInv, InBucket,
     List, CallInv, Fresh, FreshInv, PublishReady, UnlinkReady, Op, MyBucket, BucketOf
<1>3. ASSUME NEW p \in Thread, Begin(p) \/ InCall(p) PROVE ListsInv'
  BY <1>3, BeginLists, PassiveLists, AcquireLists, HitsLists, MissesLists, PublishLists,
     UnlinkLists, ClearLists
  DEF InCall
<1> QED  BY <1>1, <1>2, <1>3 DEF Next, MapInv

\* The lists of the table are lists, each key is in its own bucket and once there,
\* and a call that inserts or removes goes by what is still so.
THEOREM ListsSound ==
  ASSUME LocksCoverLists
  PROVE  Spec => []MapInv
<1>1. Init => MapInv  BY LockInit, ListsInit DEF MapInv
<1>2. MapInv /\ [Next]_vars => MapInv'  BY MapStep
<1> QED  BY <1>1, <1>2, PTL DEF Spec
-----------------------------------------------------------------------------
(* The table is the map of AtomicMap *)

Stores(n, k) == n \in InBucket(BucketOf(k)) /\ nodeKey[n] = k

\* What ValueOf finds: the value of the node that stores the key.
ValuesFound ==
  \A k \in Key :
    /\ \A n \in Node : Stores(n, k) => ValueOf(k) = nodeVal[n] /\ ValueOf(k) \in Value
    /\ (\A n \in Node : ~Stores(n, k)) => ValueOf(k) = Absent

LEMMA ValueIs == ListsInv => ValuesFound
<1> SUFFICES ASSUME ListsInv, NEW k \in Key
             PROVE  /\ \A n \in Node : Stores(n, k) => /\ ValueOf(k) = nodeVal[n]
                                                       /\ ValueOf(k) \in Value
                    /\ (\A n \in Node : ~Stores(n, k)) => ValueOf(k) = Absent
  BY DEF ValuesFound
<1> DEFINE nodes == {n \in InBucket(BucketOf(k)) : nodeKey[n] = k}
<1>1. BucketInv(BucketOf(k))  BY BucketOfKey DEF ListsInv
<1>2. ValueOf(k) = IF nodes = {} THEN Absent ELSE nodeVal[CHOOSE n \in nodes : TRUE]
  BY DEF ValueOf, InBucket
<1>3. InBucket(BucketOf(k)) \subseteq Node  BY DEF InBucket, List, From
<1>4. ASSUME NEW n \in Node, Stores(n, k)
      PROVE  ValueOf(k) = nodeVal[n] /\ ValueOf(k) \in Value
  <2>1. nodes = {n}  BY <1>1, <1>4 DEF Stores, BucketInv
  <2>2. (CHOOSE m \in nodes : TRUE) = n  BY <2>1
  <2>3. nodeVal[n] \in Value  BY <1>1, <1>4 DEF Stores, BucketInv
  <2> QED  BY <1>2, <2>1, <2>2, <2>3
<1>5. ASSUME \A n \in Node : ~Stores(n, k) PROVE ValueOf(k) = Absent
  <2>1. nodes = {}  BY <1>3, <1>5 DEF Stores
  <2> QED  BY <1>2, <2>1
<1> QED  BY <1>4, <1>5

LEMMA ValueIsNext == ListsInv' => ValuesFound'
BY ValueIs, PTL

\* A key is in the map if a node stores it.
LEMMA PresentIs ==
  ASSUME ListsInv, NEW k \in Key
  PROVE  ValueOf(k) # Absent <=> \E n \in Node : Stores(n, k)
BY ValueIs, NullAssumption DEF ValuesFound

\* A key keeps its value while the node that stores it and its value stay.
LEMMA ValueStays ==
  ASSUME ListsInv, ListsInv', NEW k \in Key,
         \A n \in Node : Stores(n, k)' <=> Stores(n, k),
         \A n \in Node : Stores(n, k) => nodeVal'[n] = nodeVal[n]
  PROVE  ValueOf(k)' = ValueOf(k)
<1>1. ValuesFound /\ ValuesFound'  BY ValueIs, ValueIsNext
<1> QED  BY <1>1 DEF ValuesFound

LEMMA ValuesStay ==
  ASSUME UNCHANGED nodeVars, NEW k \in Key
  PROVE  ValueOf(k)' = ValueOf(k)
BY DEF nodeVars, ValueOf, List, BucketOf

\* What a call shows of itself.
LEMMA PhaseIs ==
  ASSUME LocksTyped, NEW p \in Thread, NEW place, pc' = [pc EXCEPT ![p] = place]
  PROVE  /\ \A t \in Thread : t # p => Phase(t)' = Phase(t)
         /\ pc'[p] = place
BY DEF LocksTyped, Phase

\* Nothing that shows changes.
LEMMA Unseen ==
  ASSUME \A k \in Key : ValueOf(k)' = ValueOf(k), \A t \in Thread : Phase(t)' = Phase(t),
         UNCHANGED <<call, result>>
  PROVE  UNCHANGED Abs!absVars
BY DEF Abs!absVars

\* Most calls that are decided leave the map as it is.
ReadsOnly(c, a) ==
  \/ c.op \in {"get", "contains", "keys"}
       /\ a = CASE c.op = "get" -> {ValueOf(c.key)}
                [] c.op = "contains" -> {ValueOf(c.key) # Absent}
                [] OTHER -> {k \in Key : ValueOf(k) # Absent}
  \/ c.op = "putIfAbsent" /\ ValueOf(c.key) # Absent /\ a = {FALSE}
  \/ c.op \in {"replace", "remove"} /\ ValueOf(c.key) = Absent /\ a = {FALSE}
  \/ c.op = "size"

LEMMA ReadsTakeEffect ==
  ASSUME NodesTyped, NEW p \in Thread, call[p].op \in KeyedOp => call[p].key \in Key,
         Phase(p) = "invoked", Phase(p)' = "decided",
         \A t \in Thread : t # p => Phase(t)' = Phase(t),
         UNCHANGED call, NEW a, result' = [result EXCEPT ![p] = a],
         \A k \in Key : ValueOf(k)' = ValueOf(k),
         ReadsOnly(call[p], a)
  PROVE  Abs!TakeEffect(p)
<1>1. result'[p] = a /\ \A u \in Thread \ {p} : result'[u] = result[u]
  BY DEF NodesTyped
<1>2. [k \in Key |-> ValueOf(k)]' = [k \in Key |-> ValueOf(k)]
  OBVIOUS
<1>3. Abs!Effect(call[p], a)
  BY <1>2 DEF ReadsOnly, Abs!Effect, Abs!Matches, Abs!Present, Abs!Keys, KeyedOp, WriteOp, ReadOp
<1>4. [t \in Thread |-> Phase(t)]' = [[t \in Thread |-> Phase(t)] EXCEPT ![p] = "decided"]
  OBVIOUS
<1> QED  BY <1>1, <1>3, <1>4 DEF Abs!TakeEffect

\* The others change the value of their key.
Writes(c, v, a) ==
  /\ a = {TRUE}
  /\ \/ c.op = "put" /\ v = c.val
     \/ c.op = "putIfAbsent" /\ v = c.val /\ ValueOf(c.key) = Absent
     \/ c.op = "replace" /\ v = c.val /\ ValueOf(c.key) # Absent
     \/ c.op = "remove" /\ v = Absent /\ ValueOf(c.key) # Absent

LEMMA WritesTakeEffect ==
  ASSUME NodesTyped, NEW p \in Thread, call[p].key \in Key,
         Phase(p) = "invoked", Phase(p)' = "decided",
         \A t \in Thread : t # p => Phase(t)' = Phase(t),
         UNCHANGED call, NEW a, result' = [result EXCEPT ![p] = a],
         NEW v, \A k \in Key : ValueOf(k)' = IF k = call[p].key THEN v ELSE ValueOf(k),
         Writes(call[p], v, a)
  PROVE  Abs!TakeEffect(p)
<1>1. result'[p] = a /\ \A u \in Thread \ {p} : result'[u] = result[u]
  BY DEF NodesTyped
<1>2. Abs!Set(call[p].key, v)
  BY DEF Abs!Set
<1>3. Abs!Effect(call[p], a)
  BY <1>2 DEF Writes, Abs!Effect, Abs!Matches, Abs!Present
<1>4. [t \in Thread |-> Phase(t)]' = [[t \in Thread |-> Phase(t)] EXCEPT ![p] = "decided"]
  OBVIOUS
<1> QED  BY <1>1, <1>3, <1>4 DEF Abs!TakeEffect

LEMMA BeginInvokes ==
  ASSUME MapInv, NEW p \in Thread, Begin(p)
  PROVE  Abs!Invoke(p)
<1>1. LocksTyped /\ NodesTyped  BY DEF MapInv, LockInv, ListsInv
<1>2. PICK c \in Call, place \in {"lock", "lockAll", "body"} :
        call' = [call EXCEPT ![p] = c] /\ pc' = [pc EXCEPT ![p] = place]
  BY DEF Begin
<1>3. \A k \in Key : ValueOf(k)' = ValueOf(k)  BY ValuesStay DEF Begin
<1>4. [k \in Key |-> ValueOf(k)]' = [k \in Key |-> ValueOf(k)]
  BY <1>3
<1>5. Phase(p) = "idle" /\ Phase(p)' = "invoked"
  BY <1>1, <1>2, PhaseIs DEF Begin, Phase
<1>6. \A t \in Thread : t # p => Phase(t)' = Phase(t)  BY <1>1, <1>2, PhaseIs
<1>7. [t \in Thread |-> Phase(t)]' = [[t \in Thread |-> Phase(t)] EXCEPT ![p] = "invoked"]
  BY <1>5, <1>6
<1> QED  BY <1>2, <1>4, <1>5, <1>7 DEF Abs!Invoke, Begin

\* A call returns when it leaves.
LEMMA LeaveReturns ==
  ASSUME MapInv, NEW p \in Thread, Leave(p), UNCHANGED nodeVars, pc[p] \in {"unlock", "unlockAll"}
  PROVE  Abs!Return(p)
<1>1. LocksTyped /\ NodesTyped  BY DEF MapInv, LockInv, ListsInv
<1>2. \A k \in Key : ValueOf(k)' = ValueOf(k)  BY ValuesStay
<1>3. [k \in Key |-> ValueOf(k)]' = [k \in Key |-> ValueOf(k)]
  BY <1>2
<1>4. Phase(p) = "decided" /\ Phase(p)' = "idle"
  BY <1>1, PhaseIs DEF Leave, Phase
<1>5. \A t \in Thread : t # p => Phase(t)' = Phase(t)  BY <1>1, PhaseIs DEF Leave
<1>6. [t \in Thread |-> Phase(t)]' = [[t \in Thread |-> Phase(t)] EXCEPT ![p] = "idle"]
  BY <1>4, <1>5
<1> QED  BY <1>3, <1>4, <1>6 DEF Abs!Return, Leave, Answer, NoCall, Abs!NoCall

\* Waiting for a lock, counting, and giving locks back do not show.
LEMMA WaitsUnseen ==
  ASSUME MapInv, NEW p \in Thread,
         \/ Acquire(p) \/ AcquireNext(p) \/ LoadSize(p) \/ StoreSize(p)
         \/ ReleaseNext(p) /\ turn[p] < LockCount
  PROVE  UNCHANGED Abs!absVars
<1> USE DEF Goes, localVars
<1>1. LocksTyped  BY DEF MapInv, LockInv
<1>2. UNCHANGED <<nodeVars, call, result>>
  BY DEF Acquire, AcquireNext, LoadSize, StoreSize, ReleaseNext
<1>3. \A t \in Thread : Phase(t)' = Phase(t)
  <2>1. CASE ReleaseNext(p) /\ turn[p] < LockCount  BY <2>1 DEF ReleaseNext, Phase
  <2>2. CASE Acquire(p)  BY <1>1, <2>2 DEF Acquire, Phase, LocksTyped
  <2>3. CASE AcquireNext(p)  BY <1>1, <2>3 DEF AcquireNext, Phase, LocksTyped
  <2>4. CASE LoadSize(p) \/ StoreSize(p)
    BY <1>1, <2>4 DEF LoadSize, StoreSize, Phase, LocksTyped
  <2> QED  BY <2>1, <2>2, <2>3, <2>4
<1> QED  BY <1>2, <1>3, ValuesStay, Unseen

\* A step of the search that ends in place, seen from outside.
LEMMA SearchSeen ==
  ASSUME LocksTyped, NEW p \in Thread, pc[p] = "search",
         NEW place \in {"unlink", "publish", "unlock"}, pc' = [pc EXCEPT ![p] = place]
  PROVE  /\ Phase(p) = "invoked"
         /\ Phase(p)' = IF place = "unlock" THEN "decided" ELSE "invoked"
         /\ \A t \in Thread : t # p => Phase(t)' = Phase(t)
BY PhaseIs DEF Phase

LEMMA HitsMap ==
  ASSUME MapInv, ListsInv', NEW p \in Thread, NEW n \in Node, SearchHits(p, n)
  PROVE  Abs!TakeEffect(p) \/ UNCHANGED Abs!absVars
<1> USE DEF Answer
<1>0. ListsInv /\ LocksTyped /\ NodesTyped  BY DEF MapInv, LockInv, ListsInv
<1>1. /\ pc[p] = "search" /\ call[p] \in Call /\ Op(p) \in KeyedOp
      /\ call[p].key \in Key /\ UNCHANGED <<buckets, next, nodeKey, call>>
  BY CallOfList DEF MapInv, SearchHits
<1>2. Stores(n, call[p].key)
  BY DEF SearchHits, Found, MyBucket, InBucket, Stores
<1>3. ValueOf(call[p].key) = nodeVal[n] /\ ValueOf(call[p].key) # Absent
  BY <1>0, <1>1, <1>2, ValueIs, NullAssumption DEF ValuesFound
<1>4. CASE Op(p) = "remove"
  <2>1. pc' = [pc EXCEPT ![p] = "unlink"] /\ UNCHANGED <<nodeVars, result>>
    BY <1>1, <1>4 DEF SearchHits, nodeVars
  <2>2. \A t \in Thread : Phase(t)' = Phase(t)  BY <1>0, <1>1, <2>1, SearchSeen
  <2> QED  BY <1>1, <2>1, <2>2, ValuesStay, Unseen
<1>5. CASE Op(p) \in {"get", "contains", "putIfAbsent"}
  <2> DEFINE a == CASE Op(p) = "get" -> {nodeVal[n]}
                    [] Op(p) = "putIfAbsent" -> {FALSE}
                    [] OTHER -> {TRUE}
  <2>1. /\ pc' = [pc EXCEPT ![p] = "unlock"] /\ UNCHANGED nodeVars
        /\ result' = [result EXCEPT ![p] = a]
    BY <1>1, <1>5 DEF SearchHits, nodeVars
  <2>2. ReadsOnly(call[p], a)  BY <1>3, <1>5 DEF ReadsOnly, Op
  <2> HIDE DEF a
  <2> QED  BY <1>0, <1>1, <2>1, <2>2, SearchSeen, ValuesStay, ReadsTakeEffect
<1>6. CASE Op(p) \in {"put", "replace"}
  <2>1. /\ pc' = [pc EXCEPT ![p] = "unlock"] /\ nodeVal' = [nodeVal EXCEPT ![n] = call[p].val]
        /\ result' = [result EXCEPT ![p] = {TRUE}]
    BY <1>1, <1>6 DEF SearchHits
  <2>2. \A k \in Key : \A m \in Node : Stores(m, k)' <=> Stores(m, k)
    BY <1>1 DEF Stores, InBucket, List, BucketOf
  <2>3. ValueOf(call[p].key)' = call[p].val
    <3> DEFINE j == call[p].key
    <3>1. PICK k \in Key : k = j  BY <1>1
    <3>2. Stores(n, k)'  BY <1>2, <2>2, <3>1
    <3>3. ValueOf(k)' = nodeVal'[n]  BY <3>2, ValueIsNext DEF ValuesFound
    <3>4. nodeVal'[n] = call[p].val  BY <1>0, <2>1 DEF NodesTyped
    <3>5. call'[p].key = k  BY <1>1, <3>1
    <3> QED  BY <3>1, <3>3, <3>4, <3>5
  <2>4. ASSUME NEW k \in Key, k # call[p].key PROVE ValueOf(k)' = ValueOf(k)
    <3>1. \A m \in Node : Stores(m, k) => nodeVal'[m] = nodeVal[m]
      BY <1>0, <1>2, <2>1, <2>4 DEF Stores, NodesTyped
    <3> QED  BY <1>0, <2>2, <3>1, ValueStays
  <2>5. \A k \in Key : ValueOf(k)' = IF k = call[p].key THEN call[p].val ELSE ValueOf(k)
    <3>1. \A k \in Key : k = call[p].key => ValueOf(k)' = call[p].val
      BY <1>1, <2>3
    <3> QED  BY <2>4, <3>1
  <2>6. Writes(call[p], call[p].val, {TRUE})  BY <1>3, <1>6 DEF Writes, Op
  <2> QED  BY <1>0, <1>1, <2>1, <2>5, <2>6, SearchSeen, WritesTakeEffect
<1> QED  BY <1>1, <1>4, <1>5, <1>6 DEF KeyedOp, WriteOp, ReadOp

LEMMA MissesMap ==
  ASSUME MapInv, ListsInv', NEW p \in Thread, SearchMisses(p)
  PROVE  Abs!TakeEffect(p) \/ UNCHANGED Abs!absVars
<1> USE DEF Answer
<1>0. ListsInv /\ LocksTyped /\ NodesTyped /\ NodesTyped'
  BY DEF MapInv, LockInv, ListsInv
<1>1. /\ pc[p] = "search" /\ Op(p) \in KeyedOp
      /\ call[p].key \in Key /\ UNCHANGED <<buckets, call>>
  BY CallOfList DEF MapInv, SearchMisses
<1>2. \A n \in Node : ~Stores(n, call[p].key)
  BY DEF SearchMisses, Found, MyBucket, InBucket, Stores
<1>3. ValueOf(call[p].key) = Absent
  BY <1>0, <1>1, <1>2, ValueIs DEF ValuesFound
<1>4. CASE Op(p) \in {"put", "putIfAbsent"}
  <2>1. /\ pc' = [pc EXCEPT ![p] = "publish"] /\ UNCHANGED result
        /\ nodeKey' = [nodeKey EXCEPT ![node[p]] = call[p].key]
        /\ nodeVal' = [nodeVal EXCEPT ![node[p]] = call[p].val]
        /\ next' = [next EXCEPT ![node[p]] = buckets[MyBucket(p)]]
    BY <1>4 DEF SearchMisses
  <2>2. \A c \in Bucket : node[p] \notin InBucket(c)
    BY <1>1 DEF MapInv, ListsInv, CallInv, Fresh, FreshInv
  <2>3. \A c \in Bucket : InBucket(c) \subseteq Node \ {node[p]}
    BY <2>2 DEF InBucket, List, From
  <2>4. \A n \in Node \ {node[p]} : SameNode(n)
    BY <1>0, <2>1 DEF SameNode, SameLink, NodesTyped, Links
  <2>5. ASSUME NEW c \in Bucket PROVE InBucket(c)' = InBucket(c)
    <3>1. buckets[c] \in Node \cup {Null} /\ next \in Links /\ next' \in Links
      BY <1>0 DEF NodesTyped
    <3>2. \A n \in From(next, buckets[c]) : next'[n] = next[n]
      BY <2>3, <2>4 DEF SameNode, SameLink, InBucket, List
    <3>3. From(next', buckets[c]) = From(next, buckets[c])
      BY <3>1, <3>2, FromSame
    <3> QED  BY <1>1, <3>3 DEF InBucket, List
  <2>6. ASSUME NEW k \in Key PROVE ValueOf(k)' = ValueOf(k)
    <3>1. BucketOf(k) \in Bucket /\ BucketOf(k)' = BucketOf(k)
      BY BucketOfKey DEF BucketOf
    <3>2. InBucket(BucketOf(k))' = InBucket(BucketOf(k))
      <4>1. PICK c \in Bucket : c = BucketOf(k)  BY <3>1
      <4> QED  BY <2>5, <3>1, <4>1 DEF InBucket
    <3>3. \A n \in Node : Stores(n, k)' <=> Stores(n, k)
      BY <2>3, <2>4, <3>1, <3>2 DEF Stores, SameNode, SameLink
    <3>4. \A n \in Node : Stores(n, k) => nodeVal'[n] = nodeVal[n]
      BY <2>3, <2>4, <3>1 DEF Stores, SameNode
    <3> QED  BY <1>0, <3>3, <3>4, ValueStays
  <2>7. \A t \in Thread : Phase(t)' = Phase(t)  BY <1>0, <1>1, <2>1, SearchSeen
  <2> QED  BY <1>1, <2>1, <2>6, <2>7, Unseen
<1>5. CASE Op(p) \notin {"put", "putIfAbsent"}
  <2> DEFINE a == IF Op(p) = "get" THEN {Absent} ELSE {FALSE}
  <2>1. /\ pc' = [pc EXCEPT ![p] = "unlock"] /\ UNCHANGED nodeVars
        /\ result' = [result EXCEPT ![p] = a]
    BY <1>1, <1>5 DEF SearchMisses, nodeVars
  <2>2. ReadsOnly(call[p], a)
    BY <1>1, <1>3, <1>5 DEF ReadsOnly, Op, KeyedOp, WriteOp, ReadOp
  <2> HIDE DEF a
  <2> QED  BY <1>0, <1>1, <2>1, <2>2, SearchSeen, ValuesStay, ReadsTakeEffect
<1> QED  BY <1>4, <1>5

\* The instant of an insertion is the store into buckets[bucket_idx].
LEMMA PublishMap ==
  ASSUME MapInv, ListsInv', NEW p \in Thread, Publish(p)
  PROVE  Abs!TakeEffect(p)
<1> DEFINE j == call[p].key  b == MyBucket(p)  x == node[p]
<1> USE DEF Answer, Goes, localVars
<1>0. ListsInv /\ LocksTyped /\ NodesTyped  BY DEF MapInv, LockInv, ListsInv
<1>1. /\ pc[p] = "publish" /\ pc' = [pc EXCEPT ![p] = "sizeLoad"]
      /\ result' = [result EXCEPT ![p] = {TRUE}]
      /\ UNCHANGED <<next, nodeKey, nodeVal, call, node>>
  BY DEF Publish
<1>2. /\ x \in Node /\ b \in Bucket /\ j \in Key /\ BucketOf(j) = b
      /\ \A c \in Bucket : x \notin InBucket(c)
      /\ nodeKey[x] = j /\ nodeVal[x] = call[p].val /\ PublishReady(p)
      /\ \A c \in Bucket : InBucket(c)' = IF c = b THEN {x} \cup InBucket(c) ELSE InBucket(c)
  BY PublishedList
<1>3. ValueOf(j) = Absent
  <2>1. \A n \in Node : ~Stores(n, j)  BY <1>2 DEF PublishReady, Stores
  <2> QED  BY <1>0, <1>2, <2>1, ValueIs DEF ValuesFound
<1>4. ASSUME NEW k \in Key
      PROVE  InBucket(BucketOf(k))' =
               IF BucketOf(k) = b THEN {x} \cup InBucket(BucketOf(k)) ELSE InBucket(BucketOf(k))
  <2>1. PICK c \in Bucket : c = BucketOf(k)  BY BucketOfKey
  <2>2. BucketOf(k)' = BucketOf(k)  BY DEF BucketOf
  <2> HIDE DEF b, x
  <2> QED  BY <1>2, <2>1, <2>2 DEF InBucket
<1>5. ASSUME NEW k \in Key, k = j PROVE ValueOf(k)' = call[p].val
  <2>1. PICK n \in Node : n = x  BY <1>2
  <2>2. Stores(n, k)'  BY <1>1, <1>2, <1>4, <1>5, <2>1 DEF Stores
  <2>3. ValueOf(k)' = nodeVal'[n]  BY <2>2, ValueIsNext DEF ValuesFound
  <2> QED  BY <1>1, <1>2, <2>1, <2>3
<1>6. ASSUME NEW k \in Key, k # j PROVE ValueOf(k)' = ValueOf(k)
  <2>1. \A n \in Node : Stores(n, k)' <=> Stores(n, k)
    BY <1>1, <1>2, <1>4, <1>6, BucketOfKey DEF Stores
  <2> QED  BY <1>0, <1>1, <2>1, ValueStays
<1>7. \A k \in Key : ValueOf(k)' = IF k = call[p].key THEN call[p].val ELSE ValueOf(k)
  BY <1>5, <1>6
<1>8. Writes(call[p], call[p].val, {TRUE})  BY <1>2, <1>3 DEF Writes, PublishReady, Op
<1>9. /\ Phase(p) = "invoked" /\ Phase(p)' = "decided"
      /\ \A t \in Thread : t # p => Phase(t)' = Phase(t)
  <2>1. pc'[p] = "sizeLoad" /\ \A t \in Thread : t # p => Phase(t)' = Phase(t)
    BY <1>0, <1>1, PhaseIs
  <2> QED  BY <1>1, <2>1 DEF Phase
<1> QED  BY <1>0, <1>1, <1>2, <1>7, <1>8, <1>9, WritesTakeEffect

\* That of a removal is the store that leads around the node.
LEMMA UnlinkMap ==
  ASSUME MapInv, ListsInv', NEW p \in Thread, Unlink(p)
  PROVE  Abs!TakeEffect(p)
<1> USE DEF Answer, Goes, localVars
<1>0. ListsInv /\ LocksTyped /\ NodesTyped  BY DEF MapInv, LockInv, ListsInv
<1>1. /\ pc[p] = "unlink" /\ pc' = [pc EXCEPT ![p] = "sizeLoad"]
      /\ result' = [result EXCEPT ![p] = {TRUE}] /\ UNCHANGED call
      /\ Op(p) = "remove"
  BY DEF Unlink, MapInv, ListsInv, CallInv, UnlinkReady
<1>2. PICK j \in Key : j = call[p].key  BY UnlinkedList
<1>3. PICK b \in Bucket : b = MyBucket(p)  BY UnlinkedList
<1>4. PICK x \in Node : x = node[p]  BY UnlinkedList
<1>5. /\ BucketOf(j) = b /\ x \in InBucket(b) /\ nodeKey[x] = j
      /\ next' \in Links /\ buckets' \in [Bucket -> Node \cup {Null}]
      /\ \A c \in Bucket : c # b =>
           buckets'[c] = buckets[c] /\ \A n \in InBucket(c) : next'[n] = next[n]
      /\ From(next', buckets'[b]) = InBucket(b) \ {x}
  BY <1>2, <1>3, <1>4, UnlinkedList
<1>6. \A n \in Node : n # x => nodeKey'[n] = nodeKey[n] /\ nodeVal'[n] = nodeVal[n]
  BY <1>0, <1>4 DEF Unlink, NodesTyped
<1>7. ASSUME NEW c \in Bucket
      PROVE  /\ InBucket(c)' = InBucket(c) \ {x}
             /\ InBucket(c) \subseteq Node
             /\ c # b => x \notin InBucket(c)
  <2>1. InBucket(c) \subseteq Node  BY DEF InBucket, List, From
  <2>2. c # b => x \notin InBucket(c)  BY <1>0, <1>5, ListsApart
  <2>3. CASE c = b  BY <1>5, <2>1, <2>2, <2>3 DEF InBucket, List
  <2>4. CASE c # b
    <3>1. buckets[c] \in Node \cup {Null} /\ next \in Links  BY <1>0 DEF NodesTyped
    <3>2. \A n \in From(next, buckets[c]) : next'[n] = next[n]
      BY <1>5, <2>4 DEF InBucket, List
    <3>3. From(next', buckets[c]) = From(next, buckets[c])  BY <1>5, <3>1, <3>2, FromSame
    <3>4. InBucket(c)' = InBucket(c)  BY <1>5, <2>4, <3>3 DEF InBucket, List
    <3> QED  BY <2>1, <2>2, <2>4, <3>4
  <2> QED  BY <2>3, <2>4
<1>8. ASSUME NEW k \in Key, NEW n \in Node
      PROVE  Stores(n, k)' <=> Stores(n, k) /\ n # x
  <2>1. PICK c \in Bucket : c = BucketOf(k)  BY BucketOfKey
  <2>2. BucketOf(k)' = c  BY <2>1 DEF BucketOf
  <2>3. InBucket(BucketOf(k))' = InBucket(c) \ {x}
    BY <1>7, <2>2 DEF InBucket
  <2> QED  BY <1>6, <2>1, <2>3 DEF Stores
<1>9. Stores(x, j)  BY <1>5 DEF Stores
<1>10. \A n \in Node : Stores(n, j) => n = x
  BY <1>0, <1>3, <1>5 DEF ListsInv, BucketInv, Stores
<1>11. ValueOf(j) # Absent  BY <1>0, <1>9, PresentIs
<1>12. ASSUME NEW k \in Key, k = j PROVE ValueOf(k)' = Absent
  <2>1. \A n \in Node : ~Stores(n, k)'  BY <1>8, <1>10, <1>12
  <2> QED  BY <2>1, ValueIsNext DEF ValuesFound
<1>13. ASSUME NEW k \in Key, k # j PROVE ValueOf(k)' = ValueOf(k)
  <2>1. ~Stores(x, k)  BY <1>5, <1>13 DEF Stores
  <2>2. \A n \in Node : Stores(n, k)' <=> Stores(n, k)  BY <1>8, <2>1
  <2>3. \A n \in Node : Stores(n, k) => nodeVal'[n] = nodeVal[n]  BY <1>6, <2>1
  <2> QED  BY <1>0, <2>2, <2>3, ValueStays
<1>14. \A k \in Key : ValueOf(k)' = IF k = call[p].key THEN Absent ELSE ValueOf(k)
  BY <1>2, <1>12, <1>13
<1>15. Writes(call[p], Absent, {TRUE})  BY <1>1, <1>2, <1>11 DEF Writes, Op
<1>16. /\ Phase(p) = "invoked" /\ Phase(p)' = "decided"
       /\ \A t \in Thread : t # p => Phase(t)' = Phase(t)
  <2>1. pc'[p] = "sizeLoad" /\ \A t \in Thread : t # p => Phase(t)' = Phase(t)
    BY <1>0, <1>1, PhaseIs
  <2> QED  BY <1>1, <2>1 DEF Phase
<1> QED  BY <1>0, <1>1, <1>2, <1>14, <1>15, <1>16, WritesTakeEffect

\* What clear, keys and size do is done under all the locks, or needs none.
LEMMA BodySeen ==
  ASSUME LocksTyped, NEW p \in Thread, Goes(p, "body", "unlockAll")
  PROVE  /\ Phase(p) = "invoked" /\ Phase(p)' = "decided"
         /\ \A t \in Thread : t # p => Phase(t)' = Phase(t)
<1>1. pc'[p] = "unlockAll" /\ \A t \in Thread : t # p => Phase(t)' = Phase(t)
  BY PhaseIs DEF Goes
<1> QED  BY <1>1 DEF Phase, Goes

LEMMA ReadSizeMap ==
  ASSUME MapInv, NEW p \in Thread, ReadSize(p)
  PROVE  Abs!TakeEffect(p)
<1>1. LocksTyped /\ NodesTyped  BY DEF MapInv, LockInv, ListsInv
<1>2. result' = [result EXCEPT ![p] = {size}] /\ UNCHANGED <<nodeVars, call>>
      /\ call[p].op = "size"
  BY DEF ReadSize, Answer, Op
<1>3. ReadsOnly(call[p], {size}) /\ call[p].op \notin KeyedOp
  BY <1>2 DEF ReadsOnly, KeyedOp, WriteOp, ReadOp
<1> QED  BY <1>1, <1>2, <1>3, BodySeen, ValuesStay, ReadsTakeEffect DEF ReadSize

LEMMA ListKeysMap ==
  ASSUME MapInv, NEW p \in Thread, ListKeys(p)
  PROVE  Abs!TakeEffect(p)
<1> DEFINE a == {nodeKey[n] : n \in Linked}
<1>1. ListsInv /\ LocksTyped /\ NodesTyped  BY DEF MapInv, LockInv, ListsInv
<1>2. result' = [result EXCEPT ![p] = a] /\ UNCHANGED <<nodeVars, call>>
      /\ call[p].op = "keys"
  BY DEF ListKeys, Answer, Op
<1>3. Linked = UNION {InBucket(b) : b \in Bucket} /\ Linked \subseteq Node
  BY DEF Linked, InBucket, List, From
<1>4. a = {k \in Key : ValueOf(k) # Absent}
  <2>1. ASSUME NEW n \in Linked
        PROVE  nodeKey[n] \in Key /\ ValueOf(nodeKey[n]) # Absent
    <3>1. PICK b \in Bucket : n \in InBucket(b)  BY <1>3
    <3>2. nodeKey[n] \in Key /\ BucketOf(nodeKey[n]) = b  BY <1>1, <3>1 DEF ListsInv, BucketInv
    <3>3. Stores(n, nodeKey[n])  BY <3>1, <3>2 DEF Stores
    <3> QED  BY <1>1, <1>3, <3>2, <3>3, PresentIs
  <2>2. ASSUME NEW k \in Key, ValueOf(k) # Absent PROVE k \in a
    <3>1. PICK n \in Node : Stores(n, k)  BY <1>1, <2>2, PresentIs
    <3> QED  BY <1>3, <3>1, BucketOfKey DEF Stores
  <2> QED  BY <2>1, <2>2
<1>5. ReadsOnly(call[p], a) /\ call[p].op \notin KeyedOp
  BY <1>2, <1>4 DEF ReadsOnly, KeyedOp, WriteOp, ReadOp
<1> HIDE DEF a
<1> QED  BY <1>1, <1>2, <1>5, BodySeen, ValuesStay, ReadsTakeEffect DEF ListKeys

LEMMA ClearMap ==
  ASSUME MapInv, ListsInv', NEW p \in Thread, Clear(p)
  PROVE  Abs!TakeEffect(p)
<1>1. LocksTyped /\ NodesTyped  BY DEF MapInv, LockInv, ListsInv
<1>2. result' = [result EXCEPT ![p] = {TRUE}] /\ UNCHANGED call /\ call[p].op = "clear"
  BY DEF Clear, Answer, Op
<1>3. \A k \in Key : ValueOf(k)' = Absent
  <2> TAKE k \in Key
  <2>1. PICK c \in Bucket : c = BucketOf(k)  BY BucketOfKey
  <2>2. BucketOf(k)' = c  BY <2>1 DEF BucketOf
  <2>3. InBucket(BucketOf(k))' = {}  BY <2>2, ClearLists DEF InBucket
  <2>4. \A n \in Node : ~Stores(n, k)'  BY <2>3 DEF Stores
  <2> QED  BY <2>4, ValueIsNext DEF ValuesFound
<1>4. [k \in Key |-> ValueOf(k)]' = [k \in Key |-> Absent]  BY <1>3
<1>5. Abs!Effect(call[p], {TRUE})  BY <1>2, <1>4 DEF Abs!Effect
<1>6. result'[p] = {TRUE} /\ \A u \in Thread \ {p} : result'[u] = result[u]
  BY <1>1, <1>2 DEF NodesTyped
<1>7. /\ Phase(p) = "invoked" /\ Phase(p)' = "decided"
      /\ \A t \in Thread : t # p => Phase(t)' = Phase(t)
  BY <1>1, BodySeen DEF Clear
<1>8. [t \in Thread |-> Phase(t)]' = [[t \in Thread |-> Phase(t)] EXCEPT ![p] = "decided"]
  BY <1>7
<1> QED  BY <1>2, <1>5, <1>6, <1>7, <1>8 DEF Abs!TakeEffect

\* Every step of the table is a step of the map or does not show.
LEMMA StepIsAtomic ==
  ASSUME LocksCoverLists, MapInv, [Next]_vars
  PROVE  [Abs!Next]_(Abs!absVars)
<1>0. ListsInv'  BY MapStep DEF MapInv
<1>1. CASE UNCHANGED vars
  <2>1. \A t \in Thread : Phase(t)' = Phase(t)  BY <1>1 DEF vars, Phase
  <2> QED  BY <1>1, <2>1, ValuesStay, Unseen DEF vars
<1>2. ASSUME NEW p \in Thread, Begin(p) \/ InCall(p)
      PROVE  Abs!Invoke(p) \/ Abs!TakeEffect(p) \/ Abs!Return(p) \/ UNCHANGED Abs!absVars
  <2>1. CASE Begin(p)  BY <2>1, BeginInvokes
  <2>2. CASE Release(p)
    BY <2>2, LeaveReturns DEF Release
  <2>3. CASE ReleaseNext(p)
    <3>1. CASE turn[p] < LockCount  BY <2>3, <3>1, WaitsUnseen
    <3>2. CASE ~(turn[p] < LockCount)  BY <2>3, <3>2, LeaveReturns DEF ReleaseNext
    <3> QED  BY <3>1, <3>2
  <2>4. CASE Acquire(p) \/ AcquireNext(p) \/ LoadSize(p) \/ StoreSize(p)
    BY <2>4, WaitsUnseen
  <2>5. CASE (\E n \in Node : SearchHits(p, n)) \/ SearchMisses(p)
    BY <1>0, <2>5, HitsMap, MissesMap
  <2>6. CASE Publish(p) \/ Unlink(p)
    BY <1>0, <2>6, PublishMap, UnlinkMap
  <2>7. CASE ReadSize(p) \/ Clear(p) \/ ListKeys(p)
    BY <1>0, <2>7, ReadSizeMap, ClearMap, ListKeysMap
  <2> QED  BY <1>2, <2>1, <2>2, <2>3, <2>4, <2>5, <2>6, <2>7 DEF InCall
<1> QED  BY <1>1, <1>2 DEF Next, Abs!Next

LEMMA InitIsAtomic == Init => Abs!Init
<1> SUFFICES ASSUME Init PROVE Abs!Init
  OBVIOUS
<1>1. ListsInv  BY ListsInit
<1>2. ASSUME NEW k \in Key PROVE ValueOf(k) = Absent
  <2>1. BucketOf(k) \in Bucket  BY BucketOfKey
  <2>2. buckets[BucketOf(k)] = Null  BY <2>1 DEF Init
  <2>3. \A n \in Node : ~Stores(n, k)  BY <2>2 DEF Stores, InBucket, List, From
  <2> QED  BY <1>1, <2>3, ValueIs DEF ValuesFound
<1>3. \A t \in Thread : Phase(t) = "idle"  BY DEF Init, Phase
<1> QED  BY <1>2, <1>3 DEF Init, Abs!Init, NoCall, Abs!NoCall

\* The table is linearizable, size and isEmpty excepted: for any number of threads,
\* keys, lists and locks with one lock for two keys of one list, every call takes
\* effect at one instant between its invocation and its return, and answers for it.
THEOREM Linearizable ==
  ASSUME LocksCoverLists
  PROVE  Spec => ImplementsAtomicMap
<1>1. Init => Abs!Init  BY InitIsAtomic
<1>2. MapInv /\ [Next]_vars => [Abs!Next]_(Abs!absVars)  BY StepIsAtomic
<1> QED  BY <1>1, <1>2, ListsSound, PTL DEF Spec, ImplementsAtomicMap, Abs!Map
=============================================================================
