--------------------------- MODULE HttpBridgeProofs ---------------------------
(***************************************************************************)
(* Proofs about HttpBridge.tla and the ring buffer of TaskQueue.tla under  *)
(* it, for every number of requests, every capacity of the queue and every *)
(* size of the registry.  The inductive invariant is the conjunction of    *)
(*   TypeOK     types, from the model;                                     *)
(*   RingInv    where the ring keeps what was accepted and not yet taken;  *)
(*   GivenOnce  who has a task in the queue's history: nobody twice, and   *)
(*              nobody who fell back;                                      *)
(*   ContextInv who has a context, and that no two live ones share a       *)
(*              block of memory;                                           *)
(*   RegistryInv what the handles stand for, and what handlers have got;   *)
(*   MainInv    what the main thread works on was taken from the queue,    *)
(*              and so was what it completed, unless the block was another *)
(*              context's before.                                          *)
(* RoomInv, about the threads that wait for room, is proved on top of it.  *)
(***************************************************************************)
EXTENDS HttpBridge, TLAPS, SequenceTheorems, FiniteSetTheorems

\* The slot k places after slot h.
Ahead(h, k) == (h + k) % Capacity

RingCounts ==
  /\ count + Len(processed) = Len(enqueued)
  /\ tail = Ahead(head, count)

RingHolds ==
  /\ \A i \in 1 .. Len(processed) : processed[i] = enqueued[i]
  /\ \A k \in 0 .. count - 1 : tasks[Ahead(head, k)] = enqueued[Len(processed) + k + 1]

RingInv == RingCounts /\ RingHolds

Taken(r) == \E i \in 1 .. Len(processed) : processed[i] = r

GivenOnce ==
  /\ \A i, j \in 1 .. Len(enqueued) : enqueued[i] = enqueued[j] => i = j
  /\ \A i \in 1 .. Len(enqueued) : /\ pc[enqueued[i]] \in {"waiting", "done"}
                                   /\ result[enqueued[i]] # "fallback"
  /\ \A r \in Request : result[r] # "none" => pc[r] = "done"

\* The main thread has a context in hand while it runs a task.
MainTyped == main \in {"task", "calling", "signalling"} <=> current # None

Early == {"req", "reqStore", "res", "resStore", "lookup"}

ContextInv ==
  /\ \A q, r \in Request :
       context[q] = "live" /\ context[r] = "live" /\ block[q] = block[r] => q = r
  /\ \A r \in Request : pc[r] \in Early => context[r] = "unused"
  /\ \A r \in Request : pc[r] \in {"enqueue", "waiting"} => context[r] = "live"
  /\ \A r \in Request : pc[r] = "done" =>
       \/ result[r] = "fallback"
       \/ result[r] \in {"completed", "timeout"} /\ context[r] = "freed"
  /\ \A r \in Request : completed[r] => context[r] # "unused"

MainInv ==
  /\ current # None => Taken(current)
  /\ \A r \in Request : completed[r] => (Taken(r) /\ current # r) \/ Inherited(r)
  /\ \A r \in Request : result[r] = "completed" => completed[r]

\* What h stands for was given h; the handles of a request stay what they are from
\* the time they are given, and the main thread sees them, unless it came too late.
RegistryInv ==
  /\ \A r \in Request : pc[r] \in {"req", "reqStore"} => handle[r] = NoHandles
  /\ \A r \in Request : pc[r] \in {"res", "resStore"} => handle[r]["res"] = 0
  /\ \A r \in Request : pc[r] \in {"reqStore", "resStore"} => loaded[r] # 0
  /\ \A h \in Handle : ptrs[h] # None => h # 0 /\ handle[ptrs[h][1]][ptrs[h][2]] = h
  /\ main = "calling" /\ ~stale => view = handle[current]
  /\ \A u \in uses : ~u.stale => Taken(u.for) /\ Shares(u.for, u.ptr[1])

\* The inductive invariant.
BridgeInv ==
  TypeOK /\ MainTyped /\ RingInv /\ GivenOnce /\ ContextInv /\ MainInv /\ RegistryInv

\* The steps in which the main thread serves a request.
Serving == ReadContext \/ (\E k \in Kind : UseHandle(k)) \/ Signal

-----------------------------------------------------------------------------
(* The ring *)

\* Between head and any slot in use the ring wraps once at most.
LEMMA Lap ==
  ASSUME NEW h \in 0 .. Capacity - 1, NEW k \in 0 .. Capacity
  PROVE  /\ Ahead(h, k) = IF h + k < Capacity THEN h + k ELSE h + k - Capacity
         /\ Ahead(h, k) \in 0 .. Capacity - 1
<1> USE CapacityAssumption
<1>1. CASE h + k < Capacity
  <2>1. (h + k) % Capacity = h + k  BY <1>1
  <2> QED  BY <1>1, <2>1 DEF Ahead
<1>2. CASE h + k >= Capacity
  <2>1. h + k \in Capacity .. 2 * Capacity - 1  BY <1>2
  <2>2. (h + k) % Capacity = h + k - Capacity  BY <2>1
  <2> QED  BY <1>2, <2>2 DEF Ahead
<1> QED  BY <1>1, <1>2

\* What the types say of the numbers of the ring.
RingNumbers ==
  /\ Capacity \in Nat \ {0} /\ head \in 0 .. Capacity - 1 /\ count \in 0 .. Capacity
  /\ Len(enqueued) \in Nat /\ Len(processed) \in Nat

LEMMA RingTypes ==
  ASSUME QueueTypeOK
  PROVE  RingNumbers /\ enqueued \in Seq(Item) /\ processed \in Seq(Item)
<1>1. enqueued \in Seq(Item) /\ processed \in Seq(Item)  BY DEF QueueTypeOK
<1>2. Len(enqueued) \in Nat /\ Len(processed) \in Nat  BY <1>1, LenProperties
<1> QED  BY <1>1, <1>2, CapacityAssumption DEF QueueTypeOK, RingNumbers, Slot

LEMMA PutRing ==
  ASSUME QueueTypeOK, RingInv, NEW t \in Item, Put(t)
  PROVE  RingInv'
<1>1. RingNumbers /\ count \in 0 .. Capacity - 1 /\ RingCounts /\ RingHolds
  BY RingTypes DEF Put, Full, RingNumbers, RingInv
<1>2. /\ Len(enqueued') = Len(enqueued) + 1
      /\ \A i \in 1 .. Len(enqueued) : enqueued'[i] = enqueued[i]
      /\ enqueued'[Len(enqueued) + 1] = t
  BY RingTypes, AppendProperties DEF Put
<1>3. count' = count + 1 /\ head' = head /\ processed' = processed
  BY DEF Put
<1>4. tail = Ahead(head, count) /\ tail \in 0 .. Capacity - 1
      /\ tail = IF head + count < Capacity THEN head + count ELSE head + count - Capacity
  BY <1>1, Lap DEF RingCounts, RingNumbers
<1>5. ASSUME NEW k \in 0 .. count - 1
      PROVE  Ahead(head, k) # tail /\ Ahead(head, k) \in 0 .. Capacity - 1
  <2>1. k \in 0 .. Capacity  BY <1>1 DEF RingNumbers
  <2>2. /\ Ahead(head, k) = IF head + k < Capacity THEN head + k ELSE head + k - Capacity
        /\ Ahead(head, k) \in 0 .. Capacity - 1
    BY <1>1, <2>1, Lap DEF RingNumbers
  <2> QED  BY <1>1, <1>4, <2>2 DEF RingNumbers
<1>6. tail' = Ahead(head', count')
  <2>1. tail' = Ahead(tail, 1)  BY DEF Put, After, Ahead
  <2>2. Ahead(tail, 1) = IF tail + 1 < Capacity THEN tail + 1 ELSE tail + 1 - Capacity
    <3>1. 1 \in 0 .. Capacity  BY <1>1 DEF RingNumbers
    <3> QED  BY <1>4, <3>1, Lap
  <2>3. Ahead(head, count + 1) = IF head + (count + 1) < Capacity THEN head + (count + 1)
                                 ELSE head + (count + 1) - Capacity
    <3>1. count + 1 \in 0 .. Capacity /\ head \in 0 .. Capacity - 1  BY <1>1 DEF RingNumbers
    <3> QED  BY <3>1, Lap
  <2>4. Ahead(tail, 1) = Ahead(head, count + 1)
    BY <1>1, <1>4, <2>2, <2>3 DEF RingNumbers
  <2> QED  BY <1>3, <2>1, <2>4
<1>7. ASSUME NEW k \in 0 .. count' - 1
      PROVE  tasks'[Ahead(head', k)] = enqueued'[Len(processed') + k + 1]
  <2>0. tasks \in [0 .. Capacity - 1 -> Item \cup {NoItem}] /\ tasks' = [tasks EXCEPT ![tail] = t]
    BY DEF QueueTypeOK, Slot, Put
  <2>1. CASE k \in 0 .. count - 1
    <3>1. tasks'[Ahead(head, k)] = tasks[Ahead(head, k)]  BY <1>5, <2>0, <2>1
    <3>2. Len(processed) + k + 1 \in 1 .. Len(enqueued)
      BY <1>1, <2>1 DEF RingCounts, RingNumbers
    <3> QED  BY <1>1, <1>2, <1>3, <2>1, <3>1, <3>2 DEF RingHolds
  <2>2. CASE k = count
    <3>1. tasks'[Ahead(head, k)] = t  BY <1>4, <2>0, <2>2
    <3>2. Len(processed) + k + 1 = Len(enqueued) + 1
      BY <1>1, <2>2 DEF RingCounts, RingNumbers
    <3> QED  BY <1>2, <1>3, <3>1, <3>2
  <2>3. k \in 0 .. count - 1 \/ k = count  BY <1>1, <1>3 DEF RingNumbers
  <2> QED  BY <2>1, <2>2, <2>3
<1>8. count' + Len(processed') = Len(enqueued')
  BY <1>1, <1>2, <1>3 DEF RingCounts, RingNumbers
<1>9. ASSUME NEW i \in 1 .. Len(processed') PROVE processed'[i] = enqueued'[i]
  <2>1. i \in 1 .. Len(processed) /\ i \in 1 .. Len(enqueued)
    BY <1>1, <1>3 DEF RingCounts, RingNumbers
  <2> QED  BY <1>1, <1>2, <1>3, <2>1 DEF RingHolds
<1> QED  BY <1>6, <1>7, <1>8, <1>9 DEF RingInv, RingCounts, RingHolds

\* What Pop takes is the oldest accepted task that was not taken before.
LEMMA PopRing ==
  ASSUME QueueTypeOK, RingInv, Pop
  PROVE  /\ RingInv'
         /\ tasks[head] = enqueued[Len(processed) + 1]
         /\ tasks[head] \in Item
         /\ Len(processed) + 1 \in 1 .. Len(enqueued)
         /\ Len(processed') = Len(processed) + 1
         /\ \A i \in 1 .. Len(processed) : processed'[i] = processed[i]
         /\ processed'[Len(processed) + 1] = tasks[head]
<1>1. RingNumbers /\ count \in 1 .. Capacity /\ RingCounts /\ RingHolds
  BY RingTypes DEF Pop, RingNumbers, RingInv
<1>2. head = Ahead(head, 0)
  <2>1. 0 \in 0 .. Capacity /\ head \in 0 .. Capacity - 1 /\ head + 0 = head /\ head < Capacity
    BY <1>1 DEF RingNumbers
  <2> QED  BY <2>1, Lap
<1>3. Len(processed) + 1 \in 1 .. Len(enqueued)
  BY <1>1 DEF RingCounts, RingNumbers
<1>4. tasks[head] = enqueued[Len(processed) + 1] /\ tasks[head] \in Item
  <2>1. 0 \in 0 .. count - 1 /\ Len(processed) + 0 + 1 = Len(processed) + 1
    BY <1>1 DEF RingNumbers
  <2>2. tasks[head] = enqueued[Len(processed) + 1]  BY <1>1, <1>2, <2>1 DEF RingHolds
  <2> QED  BY <1>3, <2>2, RingTypes, ElementOfSeq
<1>5. /\ count' = count - 1 /\ head' = Ahead(head, 1)
      /\ processed' = Append(processed, tasks[head])
      /\ tasks' = tasks /\ tail' = tail /\ enqueued' = enqueued
  BY DEF Pop, After, Ahead
<1>6. /\ Len(processed') = Len(processed) + 1
      /\ \A i \in 1 .. Len(processed) : processed'[i] = processed[i]
      /\ processed'[Len(processed) + 1] = tasks[head]
  BY RingTypes, <1>4, <1>5, AppendProperties
<1>7. ASSUME NEW k \in 0 .. Capacity - 1
      PROVE  Ahead(head', k) = Ahead(head, k + 1)
  <2>1. k \in 0 .. Capacity /\ k + 1 \in 0 .. Capacity /\ 1 \in 0 .. Capacity
    BY <1>1 DEF RingNumbers
  <2>2. /\ head' \in 0 .. Capacity - 1
        /\ head' = IF head + 1 < Capacity THEN head + 1 ELSE head + 1 - Capacity
    BY <1>1, <1>5, <2>1, Lap DEF RingNumbers
  <2>3. Ahead(head', k) = IF head' + k < Capacity THEN head' + k ELSE head' + k - Capacity
    BY <2>1, <2>2, Lap
  <2>4. Ahead(head, k + 1) = IF head + (k + 1) < Capacity THEN head + (k + 1)
                             ELSE head + (k + 1) - Capacity
    BY <1>1, <2>1, Lap DEF RingNumbers
  <2> QED  BY <1>1, <2>1, <2>2, <2>3, <2>4 DEF RingNumbers
<1>8. tail' = Ahead(head', count')
  <2>1. count' \in 0 .. Capacity - 1 /\ count' + 1 = count  BY <1>1, <1>5 DEF RingNumbers
  <2> QED  BY <1>1, <1>5, <1>7, <2>1 DEF RingCounts
<1>9. ASSUME NEW k \in 0 .. count' - 1
      PROVE  tasks'[Ahead(head', k)] = enqueued'[Len(processed') + k + 1]
  <2>1. k \in 0 .. Capacity - 1 /\ k + 1 \in 0 .. count - 1
    BY <1>1, <1>5 DEF RingNumbers
  <2>2. Len(processed') + k + 1 = Len(processed) + (k + 1) + 1
    BY <1>1, <1>6, <2>1 DEF RingNumbers
  <2> QED  BY <1>1, <1>5, <1>7, <2>1, <2>2 DEF RingHolds
<1>10. count' + Len(processed') = Len(enqueued')
  BY <1>1, <1>5, <1>6 DEF RingCounts, RingNumbers
<1>11. ASSUME NEW i \in 1 .. Len(processed') PROVE processed'[i] = enqueued'[i]
  <2>1. i \in 1 .. Len(processed) \/ i = Len(processed) + 1
    BY <1>1, <1>6 DEF RingNumbers
  <2> QED  BY <1>1, <1>4, <1>5, <1>6, <2>1 DEF RingHolds
<1> QED  BY <1>3, <1>4, <1>6, <1>8, <1>9, <1>10, <1>11 DEF RingInv, RingCounts, RingHolds

\* What the main thread has taken, followed by what the ring holds, is what was
\* accepted.
LEMMA FifoOfRing == TypeOK /\ RingInv => RingIsFifo
<1> SUFFICES ASSUME TypeOK, RingInv PROVE RingIsFifo
  OBVIOUS
<1> DEFINE C == Content
<1>1. /\ RingNumbers /\ RingCounts /\ RingHolds
      /\ enqueued \in Seq(Item) /\ processed \in Seq(Item)
  BY RingTypes DEF TypeOK, RingInv
<1>2. ASSUME NEW i \in 1 .. count
      PROVE  C[i] = enqueued[Len(processed) + i] /\ C[i] \in Item
  <2>1. /\ i - 1 \in 0 .. count - 1
        /\ Len(processed) + (i - 1) + 1 = Len(processed) + i
        /\ head + i - 1 = head + (i - 1)
        /\ Len(processed) + i \in 1 .. Len(enqueued)
    BY <1>1 DEF RingNumbers, RingCounts
  <2>2. C[i] = tasks[Ahead(head, i - 1)]  BY <2>1 DEF Content, Ahead
  <2>3. C[i] = enqueued[Len(processed) + i]  BY <1>1, <2>1, <2>2 DEF RingHolds
  <2> QED  BY <1>1, <2>1, <2>3, ElementOfSeq
<1>3. C \in Seq(Item) /\ Len(C) = count
  <2>1. C = [i \in 1 .. count |-> C[i]] /\ count \in Nat  BY <1>1 DEF Content, RingNumbers
  <2> QED  BY <1>2, <2>1, IsASeq
<1> HIDE DEF C
<1>4. processed \o C \in Seq(Item) /\ Len(processed \o C) = Len(enqueued)
  <2>1. processed \o C \in Seq(Item) /\ Len(processed \o C) = Len(processed) + Len(C)
    BY <1>1, <1>3, ConcatProperties
  <2> QED  BY <1>1, <1>3, <2>1 DEF RingNumbers, RingCounts
<1>5. ASSUME NEW i \in 1 .. Len(enqueued) PROVE enqueued[i] = (processed \o C)[i]
  <2>0. i \in 1 .. Len(processed) + Len(C)  BY <1>1, <1>3 DEF RingNumbers, RingCounts
  <2>1. CASE i <= Len(processed)
    <3>1. (processed \o C)[i] = processed[i]  BY <1>1, <1>3, <2>0, <2>1, ConcatProperties
    <3>2. i \in 1 .. Len(processed)  BY <1>1, <2>1 DEF RingNumbers
    <3> QED  BY <1>1, <3>1, <3>2 DEF RingHolds
  <2>2. CASE ~(i <= Len(processed))
    <3>1. (processed \o C)[i] = C[i - Len(processed)]
      BY <1>1, <1>3, <2>0, <2>2, ConcatProperties
    <3>2. i - Len(processed) \in 1 .. count /\ Len(processed) + (i - Len(processed)) = i
      BY <1>1, <1>3, <2>0, <2>2 DEF RingNumbers
    <3> QED  BY <1>2, <3>1, <3>2
  <2> QED  BY <2>1, <2>2
<1>6. enqueued = processed \o C  BY <1>1, <1>4, <1>5, SeqEqual
<1> QED  BY <1>6 DEF RingIsFifo, C

LEMMA RingInit == Init => RingInv
<1> SUFFICES ASSUME Init PROVE RingInv
  OBVIOUS
<1>1. 0 \in 0 .. Capacity - 1 /\ 0 \in 0 .. Capacity /\ 0 < Capacity
  BY CapacityAssumption
<1>2. head = 0 /\ count = 0 /\ tail = 0 /\ enqueued = << >> /\ processed = << >>
  BY DEF Init, QueueInit
<1>3. Ahead(0, 0) = 0  BY <1>1, Lap
<1>4. Len(<< >>) = 0  BY EmptySeq
<1> QED  BY <1>2, <1>3, <1>4 DEF RingInv, RingCounts, RingHolds

\* Only Enqueue and TakeTask touch the ring.
LEMMA RingKept ==
  ASSUME [Next]_vars
  PROVE  (\E r \in Request : Enqueue(r)) \/ TakeTask \/ UNCHANGED ringVars
<1> USE DEF queueVars
<1>1. ASSUME NEW r \in Request, Thread(r), ~Enqueue(r)
      PROVE  UNCHANGED ringVars
  BY <1>1 DEF Thread, RegisterLoad, RegisterStore, CreateContext, UseFallback, WaitForRoom,
              WaitNotFull, EnqueueTimesOut, StopWaiting, EnqueueRefused, Refused,
              EnqueueUndefined, WaitTimesOut, WaitReturns, ReturnWith, Fallback
<1>2. ASSUME NEW r \in Request, SpuriousWakeup(r) PROVE UNCHANGED ringVars
  BY <1>2 DEF SpuriousWakeup, StopWaiting
<1>3. CASE Serving \/ FreeShutdown \/ FreeQueue
  BY <1>3 DEF Serving, ReadContext, UseHandle, Signal, FreeShutdown, FreeQueue, Shutdown
<1>4. CASE UNCHANGED vars  BY <1>4 DEF vars
<1> QED  BY <1>1, <1>2, <1>3, <1>4 DEF Next, Serving

LEMMA RingStep ==
  ASSUME TypeOK, RingInv, [Next]_vars
  PROVE  RingInv'
<1>1. ASSUME NEW r \in Request, Enqueue(r) PROVE RingInv'
  BY <1>1, PutRing DEF Enqueue, Request, TypeOK
<1>2. CASE TakeTask  BY <1>2, PopRing DEF TakeTask, TypeOK
<1>3. CASE UNCHANGED ringVars  BY <1>3 DEF ringVars, RingInv, RingCounts, RingHolds
<1> QED  BY <1>1, <1>2, <1>3, RingKept

-----------------------------------------------------------------------------
(* Types *)

LEMMA TypesInit == Init => TypeOK /\ MainTyped
<1> SUFFICES ASSUME Init PROVE TypeOK /\ MainTyped
  OBVIOUS
<1>1. QueueTypeOK
  <2>1. 0 \in Slot /\ 0 \in 0 .. Capacity  BY CapacityAssumption DEF Slot
  <2>2. << >> \in Seq(Item)  BY EmptySeq
  <2> QED  BY <2>1, <2>2 DEF Init, QueueInit, QueueTypeOK
<1>2. 0 \in Handle /\ 1 \in 1 .. MaxPointers  BY MaxPointersAssumption DEF Handle
<1>3. NoHandles \in [Kind -> Handle]  BY <1>2 DEF NoHandles
<1> QED  BY <1>1, <1>2, <1>3 DEF Init, TypeOK, MainTyped, PC

LEMMA QueueTypesStep ==
  ASSUME TypeOK, RingInv, [Next]_vars
  PROVE  QueueTypeOK'
<1>0. QueueTypeOK /\ Item = Request  BY DEF TypeOK, Request
<1> USE DEF queueVars, ringVars, QueueTypeOK
<1>1. ASSUME NEW r \in Request, Enqueue(r) PROVE QueueTypeOK'
  <2>1. Put(r)  BY <1>1 DEF Enqueue
  <2>2. /\ tail' = Ahead(tail, 1) /\ tail \in 0 .. Capacity - 1 /\ 1 \in 0 .. Capacity
    BY <1>0, <2>1, CapacityAssumption DEF Put, After, Ahead, Slot
  <2>3. tail' \in Slot  BY <2>2, Lap DEF Slot
  <2>4. count' \in 0 .. Capacity  BY <1>0, <2>1, CapacityAssumption DEF Put, Full
  <2>5. enqueued' \in Seq(Item)  BY <1>0, <2>1, AppendProperties DEF Put
  <2>6. tasks' \in [Slot -> Item \cup {NoItem}]  BY <1>0, <2>1 DEF Put
  <2> QED  BY <1>0, <2>1, <2>3, <2>4, <2>5, <2>6 DEF Put
<1>2. CASE TakeTask
  <2>1. Pop  BY <1>2 DEF TakeTask
  <2>2. /\ head' = Ahead(head, 1) /\ head \in 0 .. Capacity - 1 /\ 1 \in 0 .. Capacity
    BY <1>0, <2>1, CapacityAssumption DEF Pop, After, Ahead, Slot
  <2>3. head' \in Slot  BY <2>2, Lap DEF Slot
  <2>4. count' \in 0 .. Capacity  BY <1>0, <2>1, CapacityAssumption DEF Pop
  <2>5. processed' \in Seq(Item)
    <3>1. tasks[head] \in Item  BY <1>0, <2>1, PopRing
    <3> QED  BY <1>0, <2>1, <3>1, AppendProperties DEF Pop
  <2>6. asleep' \in SUBSET Item  BY <1>0, <2>1 DEF Pop, SignalNotFull
  <2> QED  BY <1>0, <2>1, <2>3, <2>4, <2>5, <2>6 DEF Pop
<1>3. ASSUME UNCHANGED ringVars, shutdown' \in BOOLEAN, asleep' \in SUBSET Item
      PROVE  QueueTypeOK'
  BY <1>0, <1>3
<1>4. ASSUME NEW r \in Request, Thread(r), ~Enqueue(r)
      PROVE  UNCHANGED ringVars /\ shutdown' \in BOOLEAN /\ asleep' \in SUBSET Item
  BY <1>0, <1>4
     DEF Thread, RegisterLoad, RegisterStore, CreateContext, UseFallback, WaitForRoom,
         WaitNotFull, EnqueueTimesOut, StopWaiting, EnqueueRefused, Refused,
         EnqueueUndefined, WaitTimesOut, WaitReturns, ReturnWith, Fallback
<1>5. ASSUME NEW r \in Request, SpuriousWakeup(r)
      PROVE  UNCHANGED ringVars /\ shutdown' \in BOOLEAN /\ asleep' \in SUBSET Item
  BY <1>0, <1>5 DEF SpuriousWakeup, StopWaiting
<1>6. CASE Serving \/ FreeShutdown \/ FreeQueue
  BY <1>0, <1>6 DEF Serving, ReadContext, UseHandle, Signal, FreeShutdown, FreeQueue, Shutdown
<1>7. CASE UNCHANGED vars  BY <1>0, <1>7 DEF vars
<1> QED  BY <1>1, <1>2, <1>3, <1>4, <1>5, <1>6, <1>7 DEF Next, Serving

BridgeTyped ==
  /\ pc \in [Request -> PC]
  /\ result \in [Request -> {"none", "completed", "timeout", "fallback"}]
  /\ context \in [Request -> {"unused", "live", "freed"}]
  /\ block \in [Request -> Request]
  /\ completed \in [Request -> BOOLEAN]

RegistryTyped ==
  /\ loaded \in [Request -> Handle]
  /\ handle \in [Request -> [Kind -> Handle]]
  /\ nextPtr \in 1 .. MaxPointers
  /\ ptrs \in [Handle -> Pointer \cup {None}]

HandlerTyped ==
  /\ main \in {"idle", "task", "calling", "signalling", "closing", "closed"}
  /\ current \in Request \cup {None}
  /\ view \in [Kind -> Handle]
  /\ stale \in BOOLEAN
  /\ uses \in SUBSET Use

LEMMA ThreadTypes ==
  ASSUME BridgeTyped, RegistryTyped, NEW r \in Request, Thread(r)
  PROVE  BridgeTyped' /\ RegistryTyped'
<1> USE DEF BridgeTyped, RegistryTyped, Goes, PC, Kind, registryVars, contextVars, bridgeVars
<1>1. ASSUME NEW k \in Kind, RegisterLoad(r, k) PROVE BridgeTyped' /\ RegistryTyped'
  <2>1. nextPtr < MaxPointers => nextPtr \in Handle  BY MaxPointersAssumption DEF Handle
  <2>2. loaded' \in [Request -> Handle]  BY <1>1, <2>1 DEF RegisterLoad
  <2>3. pc' \in [Request -> PC]  BY <1>1 DEF RegisterLoad
  <2> QED  BY <1>1, <2>2, <2>3 DEF RegisterLoad
<1>2. ASSUME NEW k \in Kind, RegisterStore(r, k) PROVE BridgeTyped' /\ RegistryTyped'
  <2>1. loaded[r] + 1 \in 1 .. MaxPointers  BY MaxPointersAssumption DEF Handle
  <2>2. <<r, k>> \in Pointer  BY DEF Pointer
  <2>3. pc' \in [Request -> PC]  BY <1>2 DEF RegisterStore
  <2>4. handle' \in [Request -> [Kind -> Handle]]
    <3>1. handle' = [handle EXCEPT ![r] = [handle[r] EXCEPT ![k] = loaded[r]]]
      BY <1>2 DEF RegisterStore
    <3>2. [handle[r] EXCEPT ![k] = loaded[r]] \in [Kind -> Handle]  OBVIOUS
    <3> QED  BY <3>1, <3>2
  <2>5. ptrs' \in [Handle -> Pointer \cup {None}]  BY <1>2, <2>2 DEF RegisterStore
  <2> QED  BY <1>2, <2>1, <2>3, <2>4, <2>5 DEF RegisterStore
<1>3. ASSUME CreateContext(r) \/ UseFallback(r) \/ Enqueue(r) \/ WaitForRoom(r)
             \/ EnqueueTimesOut(r) \/ EnqueueRefused(r) \/ EnqueueUndefined(r)
      PROVE  BridgeTyped' /\ RegistryTyped'
  <2>1. UNCHANGED <<loaded, handle, nextPtr, ptrs, completed, result>>
    BY <1>3 DEF CreateContext, UseFallback, Enqueue, WaitForRoom, EnqueueTimesOut,
                EnqueueRefused, EnqueueUndefined
  <2>2. pc' \in [Request -> PC]
    BY <1>3 DEF CreateContext, UseFallback, Enqueue, WaitForRoom, EnqueueTimesOut,
                EnqueueRefused, EnqueueUndefined
  <2>3. context' \in [Request -> {"unused", "live", "freed"}]
    BY <1>3 DEF CreateContext, UseFallback, Enqueue, WaitForRoom, EnqueueTimesOut,
                EnqueueRefused, EnqueueUndefined
  <2>4. block' \in [Request -> Request]
    <3>1. ASSUME CreateContext(r) PROVE block' \in [Request -> Request]
      <4>1. PICK b \in Request : block' = [block EXCEPT ![r] = b]  BY <3>1 DEF CreateContext
      <4> QED  BY <4>1
    <3>2. ASSUME ~CreateContext(r) PROVE UNCHANGED block
      BY <1>3, <3>2 DEF UseFallback, Enqueue, WaitForRoom, EnqueueTimesOut, EnqueueRefused,
                        EnqueueUndefined
    <3> QED  BY <3>1, <3>2
  <2> QED  BY <2>1, <2>2, <2>3, <2>4
<1>4. ASSUME Unregister(r) PROVE ptrs' \in [Handle -> Pointer \cup {None}]
  BY <1>4 DEF Unregister
<1>5. ASSUME WaitTimesOut(r) \/ WaitReturns(r) \/ Fallback(r)
      PROVE  BridgeTyped' /\ RegistryTyped'
  BY <1>4, <1>5 DEF WaitTimesOut, WaitReturns, ReturnWith, Fallback
<1> QED  BY <1>1, <1>2, <1>3, <1>5 DEF Thread

LEMMA MainTypes ==
  ASSUME BridgeTyped, RegistryTyped, HandlerTyped, MainTyped, QueueTypeOK, RingInv,
         TakeTask \/ Serving \/ FreeShutdown \/ FreeQueue
  PROVE  BridgeTyped' /\ RegistryTyped' /\ HandlerTyped' /\ MainTyped'
<1> USE DEF BridgeTyped, RegistryTyped, HandlerTyped, MainTyped, MainGoes, registryVars,
            contextVars, bridgeVars
<1>1. CASE TakeTask
  <2>1. tasks[head] \in Request /\ tasks[head] # None
    BY <1>1, PopRing, ItemAssumption DEF TakeTask, Request, None
  <2> QED  BY <1>1, <2>1 DEF TakeTask
<1>2. CASE ReadContext
  <2>1. current \in Request /\ main' \in {"calling", "signalling"}  BY <1>2 DEF ReadContext
  <2>2. view' \in [Kind -> Handle]  BY <1>2, <2>1 DEF ReadContext, Tenant, Tenants
  <2>3. stale' \in BOOLEAN  BY <1>2 DEF ReadContext
  <2> QED  BY <1>2, <2>1, <2>2, <2>3 DEF ReadContext
<1>3. ASSUME NEW k \in Kind, UseHandle(k)
      PROVE  BridgeTyped' /\ RegistryTyped' /\ HandlerTyped' /\ MainTyped'
  <2>1. current \in Request /\ ptrs[view[k]] \in Pointer  BY <1>3 DEF UseHandle
  <2>2. [for |-> current, stale |-> stale, ptr |-> ptrs[view[k]]] \in Use  BY <2>1 DEF Use
  <2>3. uses' \in SUBSET Use  BY <1>3, <2>2 DEF UseHandle
  <2> QED  BY <1>3, <2>3 DEF UseHandle
<1>5. CASE Signal
  <2>1. view' \in [Kind -> Handle]
    <3>1. 0 \in Handle  BY MaxPointersAssumption DEF Handle
    <3> QED  BY <1>5, <3>1 DEF Signal, NoHandles
  <2>2. completed' \in [Request -> BOOLEAN]  BY <1>5 DEF Signal
  <2>3. /\ UNCHANGED <<queueVars, bridgeVars, registryVars, context, block, uses>>
        /\ main' = "idle" /\ current' = None /\ stale' = FALSE
    BY <1>5 DEF Signal
  <2> QED  BY <2>1, <2>2, <2>3
<1>4. CASE FreeShutdown \/ FreeQueue  BY <1>4 DEF FreeShutdown, FreeQueue
<1> QED  BY <1>1, <1>2, <1>3, <1>4, <1>5 DEF Serving

\* No thread of the server touches what is the main thread's.
LEMMA MainUntouched ==
  ASSUME NEW r \in Request, Thread(r) \/ SpuriousWakeup(r)
  PROVE  UNCHANGED mainVars
  BY DEF Thread, RegisterLoad, RegisterStore, CreateContext, UseFallback, Enqueue, WaitForRoom,
         EnqueueTimesOut, EnqueueRefused, EnqueueUndefined, WaitTimesOut, WaitReturns,
         ReturnWith, Fallback, SpuriousWakeup, mainVars

LEMMA TypesStep ==
  ASSUME TypeOK, MainTyped, RingInv, [Next]_vars
  PROVE  TypeOK' /\ MainTyped'
<1>0. QueueTypeOK /\ BridgeTyped /\ RegistryTyped /\ HandlerTyped
  BY DEF TypeOK, BridgeTyped, RegistryTyped, HandlerTyped
<1>1. QueueTypeOK'  BY QueueTypesStep
<1>2. ASSUME NEW r \in Request, Thread(r)
      PROVE  BridgeTyped' /\ RegistryTyped' /\ HandlerTyped' /\ MainTyped'
  <2>1. UNCHANGED mainVars  BY <1>2, MainUntouched
  <2> QED  BY <1>0, <1>2, <2>1, ThreadTypes DEF mainVars, HandlerTyped, MainTyped
<1>3. ASSUME NEW r \in Request, SpuriousWakeup(r)
      PROVE  BridgeTyped' /\ RegistryTyped' /\ HandlerTyped' /\ MainTyped'
  BY <1>0, <1>3 DEF SpuriousWakeup, bridgeVars, registryVars, contextVars, mainVars, BridgeTyped,
                    RegistryTyped, HandlerTyped, MainTyped
<1>4. ASSUME UNCHANGED vars
      PROVE  BridgeTyped' /\ RegistryTyped' /\ HandlerTyped' /\ MainTyped'
  <2>1. UNCHANGED <<pc, result, loaded, handle, nextPtr, ptrs, context, block, completed,
                    main, current, view, stale, uses>>
    BY <1>4 DEF vars, bridgeVars, registryVars, contextVars, mainVars
  <2> QED  BY <1>0, <2>1 DEF BridgeTyped, RegistryTyped, HandlerTyped, MainTyped
<1>5. ASSUME TakeTask \/ Serving \/ FreeShutdown \/ FreeQueue
      PROVE  BridgeTyped' /\ RegistryTyped' /\ HandlerTyped' /\ MainTyped'
  BY <1>0, <1>5, MainTypes
<1>6. BridgeTyped' /\ RegistryTyped' /\ HandlerTyped' /\ MainTyped'
  BY <1>2, <1>3, <1>4, <1>5 DEF Next, Serving
<1> QED  BY <1>1, <1>6 DEF TypeOK, BridgeTyped, RegistryTyped, HandlerTyped

\* The ring keeps the order in which tasks were accepted, across every wrap.
THEOREM Fifo == Spec => []RingIsFifo
<1>1. TypeOK /\ RingInv /\ MainTyped /\ [Next]_vars => TypeOK' /\ RingInv' /\ MainTyped'
  BY TypesStep, RingStep
<1> QED  BY TypesInit, RingInit, <1>1, FifoOfRing, PTL DEF Spec

-----------------------------------------------------------------------------
(* Who is in the queue's history *)

\* What was taken was accepted.
LEMMA TakenWasAccepted ==
  ASSUME TypeOK, RingInv, NEW r \in Request, Taken(r)
  PROVE  \E i \in 1 .. Len(processed) : i \in 1 .. Len(enqueued) /\ enqueued[i] = r
<1>1. RingNumbers  BY RingTypes DEF TypeOK
<1>2. Len(processed) <= Len(enqueued)  BY <1>1 DEF RingInv, RingCounts, RingNumbers
<1>3. PICK i \in 1 .. Len(processed) : processed[i] = r  BY DEF Taken
<1>4. i \in 1 .. Len(enqueued)  BY <1>1, <1>2 DEF RingNumbers
<1> QED  BY <1>3, <1>4 DEF RingInv, RingHolds

LEMMA GivenInit == Init => GivenOnce
<1>1. Len(<< >>) = 0  BY EmptySeq
<1> QED  BY <1>1 DEF Init, QueueInit, GivenOnce

\* A step of a thread that has no task in the history, or that returns.
LEMMA GivenByPlace ==
  ASSUME TypeOK, GivenOnce, UNCHANGED enqueued, NEW r \in Request, NEW to \in PC, NEW how,
         pc' = [pc EXCEPT ![r] = to],
         result' = [result EXCEPT ![r] = how],
         \/ pc[r] \notin {"waiting", "done"} /\ (how = "none" \/ to = "done")
         \/ to = "done" /\ how # "fallback"
  PROVE  GivenOnce'
<1>1. pc \in [Request -> PC] /\ DOMAIN result = Request  BY DEF TypeOK
<1>2. enqueued \in Seq(Request)  BY DEF TypeOK, QueueTypeOK, Request
<1>3. ASSUME NEW i \in 1 .. Len(enqueued)
      PROVE  pc'[enqueued[i]] \in {"waiting", "done"} /\ result'[enqueued[i]] # "fallback"
  <2>1. enqueued[i] \in Request  BY <1>2, ElementOfSeq
  <2>2. pc[enqueued[i]] \in {"waiting", "done"} /\ result[enqueued[i]] # "fallback"
    BY DEF GivenOnce
  <2> QED  BY <1>1, <2>1, <2>2
<1>4. ASSUME NEW q \in Request, result'[q] # "none" PROVE pc'[q] = "done"
  BY <1>1, <1>4 DEF GivenOnce
<1> QED  BY <1>3, <1>4 DEF GivenOnce

LEMMA GivenStep ==
  ASSUME TypeOK, RingInv, GivenOnce, [Next]_vars
  PROVE  GivenOnce'
<1> USE DEF queueVars, ringVars, bridgeVars
<1>0. /\ pc \in [Request -> PC] /\ enqueued \in Seq(Request)
      /\ result \in [Request -> {"none", "completed", "timeout", "fallback"}]
  BY DEF TypeOK, QueueTypeOK, Request
<1>1. ASSUME NEW r \in Request, Enqueue(r) PROVE GivenOnce'
  <2>1. /\ pc[r] = "enqueue" /\ pc' = [pc EXCEPT ![r] = "waiting"] /\ result' = result
        /\ enqueued' = Append(enqueued, r)
    BY <1>1 DEF Enqueue, Goes, Put
  <2>2. /\ Len(enqueued) \in Nat /\ Len(enqueued') = Len(enqueued) + 1
        /\ \A i \in 1 .. Len(enqueued) : enqueued'[i] = enqueued[i]
        /\ enqueued'[Len(enqueued) + 1] = r
    BY <1>0, <2>1, AppendProperties, LenProperties
  <2>3. \A i \in 1 .. Len(enqueued) : enqueued[i] # r  BY <2>1 DEF GivenOnce
  <2>4. \A i \in 1 .. Len(enqueued') : i \in 1 .. Len(enqueued) \/ i = Len(enqueued) + 1
    BY <2>2
  <2>5. \A i, j \in 1 .. Len(enqueued') : enqueued'[i] = enqueued'[j] => i = j
    BY <2>2, <2>3, <2>4 DEF GivenOnce
  <2>6. ASSUME NEW i \in 1 .. Len(enqueued')
        PROVE  pc'[enqueued'[i]] \in {"waiting", "done"} /\ result'[enqueued'[i]] # "fallback"
    <3>1. CASE i \in 1 .. Len(enqueued)
      <4>1. enqueued[i] \in Request  BY <1>0, <3>1, ElementOfSeq
      <4> QED  BY <1>0, <2>1, <2>2, <3>1, <4>1 DEF GivenOnce
    <3>2. CASE i = Len(enqueued) + 1  BY <1>0, <2>1, <2>2, <3>2 DEF GivenOnce
    <3> QED  BY <2>4, <3>1, <3>2
  <2>7. ASSUME NEW q \in Request, result'[q] # "none" PROVE pc'[q] = "done"
    BY <1>0, <2>1, <2>7 DEF GivenOnce
  <2> QED  BY <2>5, <2>6, <2>7 DEF GivenOnce
<1>2. ASSUME UNCHANGED <<enqueued, pc, result>> PROVE GivenOnce'
  BY <1>2 DEF GivenOnce
<1>3. ASSUME NEW r \in Request, NEW k \in Kind, RegisterLoad(r, k) \/ RegisterStore(r, k)
      PROVE  GivenOnce'
  <2>1. PICK to \in PC : pc' = [pc EXCEPT ![r] = to]
    BY <1>3 DEF RegisterLoad, RegisterStore, Goes, PC
  <2>2. pc[r] \notin {"waiting", "done"}
    BY <1>3 DEF RegisterLoad, RegisterStore, Goes, Kind
  <2>3. UNCHANGED <<result, enqueued>>
    BY <1>3 DEF RegisterLoad, RegisterStore
  <2>4. result[r] = "none"  BY <2>2 DEF GivenOnce
  <2>5. result' = [result EXCEPT ![r] = "none"]  BY <1>0, <2>3, <2>4
  <2> QED  BY <2>1, <2>2, <2>3, <2>5, GivenByPlace
<1>4. ASSUME NEW r \in Request,
             CreateContext(r) \/ UseFallback(r) \/ EnqueueTimesOut(r) \/ EnqueueRefused(r)
             \/ EnqueueUndefined(r)
      PROVE  GivenOnce'
  <2>1. PICK to \in PC : pc' = [pc EXCEPT ![r] = to]
    BY <1>4 DEF CreateContext, UseFallback, EnqueueTimesOut, EnqueueRefused, EnqueueUndefined,
                Goes, PC
  <2>2. pc[r] \notin {"waiting", "done"}
    BY <1>4 DEF CreateContext, UseFallback, EnqueueTimesOut, EnqueueRefused, EnqueueUndefined,
                Goes
  <2>3. UNCHANGED <<result, enqueued>>
    BY <1>4 DEF CreateContext, UseFallback, EnqueueTimesOut, StopWaiting, EnqueueRefused,
                Refused, EnqueueUndefined
  <2>4. result[r] = "none"  BY <2>2 DEF GivenOnce
  <2>5. result' = [result EXCEPT ![r] = "none"]  BY <1>0, <2>3, <2>4
  <2> QED  BY <2>1, <2>2, <2>3, <2>5, GivenByPlace
<1>5. ASSUME NEW r \in Request, WaitTimesOut(r) \/ WaitReturns(r) PROVE GivenOnce'
  <2>1. "done" \in PC  BY DEF PC
  <2> QED  BY <1>5, <2>1, GivenByPlace DEF WaitTimesOut, WaitReturns, ReturnWith, Goes
<1>6. ASSUME NEW r \in Request, Fallback(r) PROVE GivenOnce'
  <2>1. "done" \in PC /\ "fallback" \notin {"waiting", "done"}  BY DEF PC
  <2> QED  BY <1>6, <2>1, GivenByPlace DEF Fallback, Goes
<1>7. ASSUME NEW r \in Request, WaitForRoom(r) \/ SpuriousWakeup(r) PROVE GivenOnce'
  BY <1>2, <1>7 DEF WaitForRoom, WaitNotFull, SpuriousWakeup, StopWaiting
<1>8. CASE TakeTask \/ Serving \/ FreeShutdown \/ FreeQueue
  BY <1>2, <1>8 DEF TakeTask, Pop, Serving, ReadContext, UseHandle, Signal, FreeShutdown, Shutdown, FreeQueue
<1>9. CASE UNCHANGED vars  BY <1>2, <1>9 DEF vars
<1> QED  BY <1>1, <1>3, <1>4, <1>5, <1>6, <1>7, <1>8, <1>9 DEF Next, Thread, Serving

-----------------------------------------------------------------------------
(* Contexts and their memory *)

LEMMA ContextInit == Init => ContextInv /\ MainInv /\ RegistryInv
  BY DEF Init, ContextInv, MainInv, RegistryInv, Early

LEMMA ContextStep ==
  ASSUME TypeOK, GivenOnce, ContextInv, [Next]_vars
  PROVE  ContextInv'
<1> USE DEF queueVars, bridgeVars, contextVars, mainVars, Goes, Early
<1>0. /\ pc \in [Request -> PC] /\ context \in [Request -> {"unused", "live", "freed"}]
      /\ block \in [Request -> Request] /\ completed \in [Request -> BOOLEAN]
      /\ result \in [Request -> {"none", "completed", "timeout", "fallback"}]
  BY DEF TypeOK
<1>1. ASSUME UNCHANGED <<pc, context, block, result, completed>> PROVE ContextInv'
  BY <1>1 DEF ContextInv
<1>2. ASSUME NEW r \in Request, NEW k \in Kind, RegisterLoad(r, k) \/ RegisterStore(r, k)
      PROVE  ContextInv'
  <2>1. PICK to \in Early : pc' = [pc EXCEPT ![r] = to] /\ pc[r] \in Early
    BY <1>2 DEF RegisterLoad, RegisterStore, Kind
  <2>2. UNCHANGED <<context, block, result, completed>>
    BY <1>2 DEF RegisterLoad, RegisterStore
  <2> QED  BY <1>0, <2>1, <2>2 DEF ContextInv
<1>3. ASSUME NEW r \in Request, CreateContext(r) PROVE ContextInv'
  <2>1. PICK b \in Request : Tenants(b) = {} /\ block' = [block EXCEPT ![r] = b]
    BY <1>3 DEF CreateContext
  <2>2. /\ pc[r] = "lookup" /\ pc' = [pc EXCEPT ![r] = "enqueue"]
        /\ context' = [context EXCEPT ![r] = "live"] /\ UNCHANGED <<result, completed>>
    BY <1>3 DEF CreateContext
  <2>3. \A q \in Request : context[q] = "live" => block[q] # b  BY <2>1 DEF Tenants
  <2>4. ASSUME NEW p \in Request, NEW q \in Request,
               context'[p] = "live", context'[q] = "live", block'[p] = block'[q]
        PROVE  p = q
    BY <1>0, <2>1, <2>2, <2>3, <2>4 DEF ContextInv
  <2>5. \A q \in Request : pc'[q] \in Early => context'[q] = "unused"
    BY <1>0, <2>2 DEF ContextInv
  <2>6. \A q \in Request : pc'[q] \in {"enqueue", "waiting"} => context'[q] = "live"
    BY <1>0, <2>2 DEF ContextInv
  <2>7. \A q \in Request : pc'[q] = "done" =>
           \/ result'[q] = "fallback"
           \/ result'[q] \in {"completed", "timeout"} /\ context'[q] = "freed"
    BY <1>0, <2>2 DEF ContextInv
  <2>8. \A q \in Request : completed'[q] => context'[q] # "unused"
    BY <1>0, <2>2 DEF ContextInv
  <2> QED  BY <2>4, <2>5, <2>6, <2>7, <2>8 DEF ContextInv
<1>4. ASSUME NEW r \in Request, UseFallback(r) \/ EnqueueUndefined(r) PROVE ContextInv'
  <2>1. PICK to \in {"fallback", "undefined"} : pc' = [pc EXCEPT ![r] = to]
    BY <1>4 DEF UseFallback, EnqueueUndefined
  <2>2. UNCHANGED <<context, block, result, completed>>
    BY <1>4 DEF UseFallback, EnqueueUndefined
  <2> QED  BY <1>0, <2>1, <2>2 DEF ContextInv
<1>5. ASSUME NEW r \in Request, Enqueue(r) PROVE ContextInv'
  <2>1. /\ pc[r] = "enqueue" /\ pc' = [pc EXCEPT ![r] = "waiting"]
        /\ UNCHANGED <<context, block, result, completed>>
    BY <1>5 DEF Enqueue
  <2> QED  BY <1>0, <2>1 DEF ContextInv
<1>6. ASSUME NEW r \in Request, EnqueueTimesOut(r) \/ EnqueueRefused(r) PROVE ContextInv'
  <2>1. /\ pc' = [pc EXCEPT ![r] = "fallback"] /\ context' = [context EXCEPT ![r] = "freed"]
        /\ UNCHANGED <<block, result, completed>>
    BY <1>6 DEF EnqueueTimesOut, EnqueueRefused
  <2> QED  BY <1>0, <2>1 DEF ContextInv
<1>7. ASSUME NEW r \in Request, WaitTimesOut(r) \/ WaitReturns(r) PROVE ContextInv'
  <2>1. PICK how \in {"completed", "timeout"} : ReturnWith(r, how)
    BY <1>7 DEF WaitTimesOut, WaitReturns
  <2>2. /\ pc' = [pc EXCEPT ![r] = "done"] /\ context' = [context EXCEPT ![r] = "freed"]
        /\ result' = [result EXCEPT ![r] = how] /\ UNCHANGED <<block, completed>>
    BY <2>1 DEF ReturnWith
  <2> QED  BY <1>0, <2>2 DEF ContextInv
<1>8. ASSUME NEW r \in Request, Fallback(r) PROVE ContextInv'
  <2>1. /\ pc' = [pc EXCEPT ![r] = "done"] /\ result' = [result EXCEPT ![r] = "fallback"]
        /\ UNCHANGED <<context, block, completed>>
    BY <1>8 DEF Fallback
  <2> QED  BY <1>0, <2>1 DEF ContextInv
<1>9. CASE Signal
  <2>1. /\ completed' = [r \in Request |-> completed[r] \/ r \in Tenant]
        /\ UNCHANGED <<pc, context, block, result>>
    BY <1>9 DEF Signal
  <2>2. \A r \in Request : completed'[r] => context[r] # "unused"
    BY <2>1 DEF Tenant, Tenants, ContextInv
  <2> QED  BY <2>1, <2>2 DEF ContextInv
<1>10. ASSUME NEW r \in Request, WaitForRoom(r) \/ SpuriousWakeup(r) PROVE ContextInv'
  BY <1>1, <1>10 DEF WaitForRoom, SpuriousWakeup
<1>11. CASE TakeTask \/ ReadContext \/ (\E k \in Kind : UseHandle(k)) \/ FreeShutdown \/ FreeQueue
  BY <1>1, <1>11 DEF TakeTask, ReadContext, UseHandle, FreeShutdown, FreeQueue
<1>12. CASE UNCHANGED vars  BY <1>1, <1>12 DEF vars
<1> QED  BY <1>2, <1>3, <1>4, <1>5, <1>6, <1>7, <1>8, <1>9, <1>10, <1>11, <1>12 DEF Next, Thread

-----------------------------------------------------------------------------
(* What the main thread did *)

\* Whoever was taken waits for the main thread, or did so.
LEMMA TakenWaits ==
  ASSUME TypeOK, RingInv, GivenOnce, NEW r \in Request, Taken(r)
  PROVE  pc[r] \in {"waiting", "done"} /\ result[r] # "fallback"
  BY TakenWasAccepted DEF GivenOnce

\* The signal through a context that was freed completes one that inherited its block.
LEMMA SignalReaches ==
  ASSUME TypeOK, RingInv, GivenOnce, ContextInv, MainInv, current \in Request,
         NEW r \in Tenant, r # current
  PROVE  Inherited(r)
<1>1. r \in Request /\ context[r] = "live" /\ block[r] = block[current] /\ current # None
  BY ItemAssumption DEF Tenant, Tenants, Request, None
<1>2. pc[current] \in {"waiting", "done"} /\ result[current] # "fallback"
  BY <1>1, TakenWaits DEF MainInv
<1>3. context[current] # "live"  BY <1>1 DEF ContextInv
<1>4. result[current] \in {"completed", "timeout"}  BY <1>2, <1>3 DEF ContextInv
<1>5. CASE result[current] = "timeout"  BY <1>1, <1>5 DEF Inherited
<1>6. CASE result[current] = "completed"
  <2>1. Inherited(current)  BY <1>6 DEF MainInv
  <2>2. PICK q \in Request \ {current} : block[q] = block[current] /\ result[q] = "timeout"
    BY <2>1 DEF Inherited
  <2>3. context[q] = "freed"  BY <2>2 DEF GivenOnce, ContextInv
  <2> QED  BY <1>1, <2>2, <2>3 DEF Inherited
<1> QED  BY <1>4, <1>5, <1>6

LEMMA MainStep ==
  ASSUME TypeOK, MainTyped, RingInv, GivenOnce, ContextInv, MainInv, [Next]_vars
  PROVE  MainInv'
<1> USE DEF queueVars, ringVars, bridgeVars, contextVars, mainVars
<1>0. /\ current \in Request \cup {None} /\ completed \in [Request -> BOOLEAN]
      /\ DOMAIN result = Request /\ block \in [Request -> Request]
  BY DEF TypeOK
<1>1. CASE TakeTask
  <2> USE DEF Taken
  <2>1. Pop /\ current' = tasks[head] /\ UNCHANGED <<result, block, completed>>
    BY <1>1 DEF TakeTask
  <2>2. /\ tasks[head] = enqueued[Len(processed) + 1] /\ tasks[head] \in Request
        /\ Len(processed) + 1 \in 1 .. Len(enqueued)
        /\ Len(processed') = Len(processed) + 1
        /\ \A i \in 1 .. Len(processed) : processed'[i] = processed[i]
        /\ processed'[Len(processed) + 1] = tasks[head]
    BY <2>1, PopRing DEF TypeOK, Request
  <2>3. Len(processed) \in Nat  BY RingTypes DEF TypeOK, RingNumbers
  <2>4. ASSUME NEW r \in Request, Taken(r) PROVE Taken(r)' /\ current' # r
    <3>1. PICK i \in 1 .. Len(processed) : i \in 1 .. Len(enqueued) /\ enqueued[i] = r
      BY <2>4, TakenWasAccepted
    <3>2. i # Len(processed) + 1  BY <2>3
    <3>3. current' # r  BY <2>1, <2>2, <3>1, <3>2 DEF GivenOnce
    <3>4. Taken(r)'  BY <2>2, <2>3, <2>4
    <3> QED  BY <3>3, <3>4
  <2>5. Taken(current)'  BY <2>1, <2>2, <2>3
  <2>6. \A r \in Request : Inherited(r)' <=> Inherited(r)  BY <2>1 DEF Inherited
  <2> QED  BY <2>1, <2>4, <2>5, <2>6 DEF MainInv
<1>2. CASE Signal
  <2>1. current \in Request /\ current' = None /\ None \notin Request
    BY <1>0, <1>2, ItemAssumption DEF Signal, MainTyped, None, Request
  <2>2. Taken(current)  BY <2>1 DEF MainInv
  <2>3. UNCHANGED <<processed, result, block>>  BY <1>2 DEF Signal
  <2>4. \A r \in Request : completed'[r] <=> completed[r] \/ r \in Tenant
    BY <1>2 DEF Signal
  <2>5. \A r \in Request : (Taken(r)' <=> Taken(r)) /\ (Inherited(r)' <=> Inherited(r))
    BY <2>3 DEF Taken, Inherited
  <2>6. ASSUME NEW r \in Request, completed'[r]
        PROVE  (Taken(r)' /\ current' # r) \/ Inherited(r)'
    BY <2>1, <2>2, <2>4, <2>5, <2>6, SignalReaches DEF MainInv
  <2> QED  BY <2>1, <2>3, <2>4, <2>6 DEF MainInv
<1>3. ASSUME UNCHANGED <<processed, completed, current>>,
             \A r \in Request : result'[r] = "completed" => completed[r],
             \A r \in Request : completed[r] /\ Inherited(r) => Inherited(r)'
      PROVE  MainInv'
  BY <1>3 DEF MainInv, Taken
<1>4. ASSUME UNCHANGED <<processed, completed, current, result, block>> PROVE MainInv'
  BY <1>4 DEF MainInv, Taken, Inherited
<1>5. ASSUME NEW r \in Request, WaitTimesOut(r) \/ WaitReturns(r) \/ Fallback(r)
      PROVE  MainInv'
  <2>1. UNCHANGED <<processed, completed, current, block>>
    BY <1>5 DEF WaitTimesOut, WaitReturns, ReturnWith, Fallback
  <2>2. \A q \in Request : result'[q] = "completed" => completed[q]
    BY <1>0, <1>5 DEF WaitTimesOut, WaitReturns, ReturnWith, Fallback, MainInv
  <2>3. pc[r] # "done"  BY <1>5 DEF WaitTimesOut, WaitReturns, ReturnWith, Fallback, Goes
  <2>4. \A q \in Request : result[q] = "timeout" => result'[q] = "timeout"
    BY <1>0, <1>5, <2>3 DEF WaitTimesOut, WaitReturns, ReturnWith, Fallback, GivenOnce
  <2> QED  BY <1>3, <2>1, <2>2, <2>4 DEF Inherited
<1>6. ASSUME NEW r \in Request, CreateContext(r) PROVE MainInv'
  <2>1. PICK b \in Request : block' = [block EXCEPT ![r] = b]  BY <1>6 DEF CreateContext
  <2>2. UNCHANGED <<processed, completed, current, result>> /\ pc[r] = "lookup"
    BY <1>6 DEF CreateContext, Goes
  <2>3. ~completed[r] /\ result[r] = "none"
    <3>1. ~completed[r]  BY <2>2 DEF ContextInv, Early
    <3> QED  BY <3>1, <2>2 DEF GivenOnce
  <2>4. \A q \in Request : q # r => block'[q] = block[q]  BY <1>0, <2>1
  <2>5. \A q \in Request : completed[q] /\ Inherited(q) => Inherited(q)'
    BY <2>2, <2>3, <2>4 DEF Inherited
  <2> QED  BY <1>3, <2>2, <2>5 DEF MainInv
<1>7. ASSUME NEW r \in Request, Thread(r) \/ SpuriousWakeup(r),
             ~WaitTimesOut(r), ~WaitReturns(r), ~Fallback(r), ~CreateContext(r)
      PROVE  UNCHANGED <<processed, completed, current, result, block>>
  BY <1>7 DEF Thread, RegisterLoad, RegisterStore, UseFallback, Enqueue, Put,
              WaitForRoom, WaitNotFull, EnqueueTimesOut, StopWaiting, EnqueueRefused, Refused,
              EnqueueUndefined, SpuriousWakeup
<1>8. CASE ReadContext \/ (\E k \in Kind : UseHandle(k)) \/ FreeShutdown \/ FreeQueue
  BY <1>4, <1>8 DEF ReadContext, UseHandle, FreeShutdown, Shutdown, FreeQueue
<1>9. CASE UNCHANGED vars  BY <1>4, <1>9 DEF vars
<1>10. ASSUME NEW r \in Request, Thread(r) \/ SpuriousWakeup(r) PROVE MainInv'
  BY <1>4, <1>5, <1>6, <1>7, <1>10
<1> QED  BY <1>1, <1>2, <1>8, <1>9, <1>10 DEF Next

-----------------------------------------------------------------------------
(* The registry *)

\* What was taken stays so.
LEMMA TakenStays ==
  ASSUME TypeOK, RingInv, [Next]_vars, NEW r \in Request, Taken(r)
  PROVE  Taken(r)'
<1> USE DEF Taken
<1>1. CASE TakeTask
  <2>1. /\ Len(processed) \in Nat /\ Len(processed') = Len(processed) + 1
        /\ \A i \in 1 .. Len(processed) : processed'[i] = processed[i]
    BY <1>1, PopRing, RingTypes DEF TakeTask, TypeOK, RingNumbers
  <2> QED  BY <2>1
<1>2. ASSUME NEW q \in Request, Enqueue(q) PROVE Taken(r)'
  BY <1>2 DEF Enqueue, Put
<1>3. CASE UNCHANGED ringVars  BY <1>3 DEF ringVars
<1> QED  BY <1>1, <1>2, <1>3, RingKept

LEMMA RegistryStep ==
  ASSUME TypeOK, MainTyped, RingInv, GivenOnce, ContextInv, MainInv, RegistryInv, [Next]_vars
  PROVE  RegistryInv'
<1> USE DEF bridgeVars, registryVars, contextVars, mainVars, Goes
<1>0. /\ pc \in [Request -> PC] /\ current \in Request \cup {None} /\ None \notin Request
      /\ loaded \in [Request -> Handle] /\ handle \in [Request -> [Kind -> Handle]]
      /\ nextPtr \in 1 .. MaxPointers /\ ptrs \in [Handle -> Pointer \cup {None}]
      /\ uses \in SUBSET Use /\ view \in [Kind -> Handle] /\ stale \in BOOLEAN
  BY ItemAssumption DEF TypeOK, Request, None
<1>1. \A u \in uses : u.for \in Request /\ u.ptr[1] \in Request
  BY <1>0 DEF Use, Pointer
<1>2. \A r \in Request : Taken(r) => Taken(r)'  BY TakenStays
<1>3. \A h \in Handle : ptrs[h] # None => ptrs[h][1] \in Request /\ ptrs[h][2] \in Kind
  BY <1>0 DEF Pointer
<1>4. ASSUME UNCHANGED <<handle, loaded, uses>>,
             \A h \in Handle : ptrs'[h] # None => ptrs'[h] = ptrs[h],
             main' = "calling" /\ ~stale' => view' = handle[current'],
             NEW r \in Request, NEW to \in PC \ {"req", "reqStore", "res", "resStore"},
             pc' = [pc EXCEPT ![r] = to] \/ pc' = pc
      PROVE  RegistryInv'
  BY <1>0, <1>1, <1>2, <1>4 DEF RegistryInv, Shares
<1>5. ASSUME NEW r \in Request, UNCHANGED mainVars,
             \/ CreateContext(r) \/ UseFallback(r) \/ Enqueue(r) \/ WaitForRoom(r)
             \/ EnqueueTimesOut(r) \/ EnqueueRefused(r) \/ EnqueueUndefined(r)
             \/ WaitTimesOut(r) \/ WaitReturns(r) \/ Fallback(r) \/ SpuriousWakeup(r)
      PROVE  RegistryInv'
  <2>1. UNCHANGED <<handle, loaded>>
    BY <1>5 DEF CreateContext, UseFallback, Enqueue, WaitForRoom, EnqueueTimesOut, EnqueueRefused,
                EnqueueUndefined, WaitTimesOut, WaitReturns, ReturnWith, Fallback, SpuriousWakeup
  <2>2. \A h \in Handle : ptrs'[h] # None => ptrs'[h] = ptrs[h]
    BY <1>5 DEF CreateContext, UseFallback, Enqueue, WaitForRoom, EnqueueTimesOut, EnqueueRefused,
                EnqueueUndefined, WaitTimesOut, WaitReturns, ReturnWith, Fallback, SpuriousWakeup,
                Unregister
  <2>3. \E to \in PC \ {"req", "reqStore", "res", "resStore"} :
           pc' = [pc EXCEPT ![r] = to] \/ pc' = pc
    BY <1>5 DEF CreateContext, UseFallback, Enqueue, WaitForRoom, EnqueueTimesOut, EnqueueRefused,
                EnqueueUndefined, WaitTimesOut, WaitReturns, ReturnWith, Fallback, SpuriousWakeup,
                PC
  <2> QED  BY <1>4, <1>5, <2>1, <2>2, <2>3 DEF RegistryInv
<1>6. ASSUME UNCHANGED <<pc, handle, loaded, ptrs, uses>>,
             main' = "calling" /\ ~stale' => view' = handle[current']
      PROVE  RegistryInv'
  BY <1>0, <1>1, <1>2, <1>6 DEF RegistryInv, Shares
<1>7. ASSUME NEW r \in Request, NEW k \in Kind, RegisterLoad(r, k) PROVE RegistryInv'
  <2>1. UNCHANGED <<handle, ptrs, uses, main, stale, view, current>>
    BY <1>7 DEF RegisterLoad
  <2>2. nextPtr # 0  BY <1>0, MaxPointersAssumption
  <2>3. /\ pc[r] = k /\ pc' = [pc EXCEPT ![r] = pc'[r]]
        /\ pc'[r] \in IF k = "req" THEN {"reqStore", "res"} ELSE {"resStore", "lookup"}
        /\ pc'[r] \in {"reqStore", "resStore"} => loaded'[r] # 0
        /\ \A q \in Request : q # r => loaded'[q] = loaded[q]
    BY <1>0, <1>7, <2>2 DEF RegisterLoad, Kind
  <2>4. ASSUME NEW q \in Request
        PROVE  /\ pc'[q] \in {"req", "reqStore"} => handle[q] = NoHandles
               /\ pc'[q] \in {"res", "resStore"} => handle[q]["res"] = 0
               /\ pc'[q] \in {"reqStore", "resStore"} => loaded'[q] # 0
    <3>1. CASE q # r  BY <1>0, <2>3, <3>1 DEF RegistryInv
    <3>2. CASE q = r /\ k = "req"
      <4>1. handle[r] = NoHandles  BY <2>3, <3>2 DEF RegistryInv
      <4>2. handle[r]["res"] = 0  BY <4>1 DEF NoHandles, Kind
      <4> QED  BY <2>3, <3>2, <4>1, <4>2
    <3>3. CASE q = r /\ k = "res"
      <4>1. handle[r]["res"] = 0  BY <2>3, <3>3 DEF RegistryInv
      <4> QED  BY <2>3, <3>3, <4>1
    <3> QED  BY <3>1, <3>2, <3>3 DEF Kind
  <2> QED  BY <1>1, <1>2, <2>1, <2>4 DEF RegistryInv, Shares
<1>8. ASSUME NEW r \in Request, NEW k \in Kind, RegisterStore(r, k) PROVE RegistryInv'
  <2> DEFINE l == loaded[r]
  <2>1. /\ UNCHANGED <<loaded, uses, main, stale, view, current>>
        /\ pc[r] \in {"reqStore", "resStore"} /\ (pc[r] = "reqStore" <=> k = "req")
        /\ pc' = [pc EXCEPT ![r] = IF k = "req" THEN "res" ELSE "lookup"]
        /\ handle' = [handle EXCEPT ![r][k] = l] /\ ptrs' = [ptrs EXCEPT ![l] = <<r, k>>]
    BY <1>8 DEF RegisterStore, Kind
  <2>2. l \in Handle /\ l # 0 /\ handle[r][k] = 0
    <3>1. l \in Handle /\ l # 0  BY <1>0, <2>1 DEF RegistryInv
    <3>2. ASSUME k = "req" PROVE handle[r][k] = 0
      BY <2>1, <3>2 DEF RegistryInv, NoHandles
    <3>3. ASSUME k = "res" PROVE handle[r][k] = 0
      <4>1. pc[r] = "resStore"  BY <2>1, <3>3
      <4> QED  BY <3>3, <4>1 DEF RegistryInv
    <3> QED  BY <3>1, <3>2, <3>3 DEF Kind
  <2>3. /\ handle'[r][k] = l
        /\ \A q \in Request, j \in Kind : <<q, j>> # <<r, k>> => handle'[q][j] = handle[q][j]
        /\ \A q \in Request : q # r => handle'[q] = handle[q]
    BY <1>0, <2>1
  <2>4. \A q \in Request, j \in Kind : handle[q][j] # 0 => handle'[q][j] = handle[q][j]
    BY <2>2, <2>3
  <2>5. ASSUME NEW h \in Handle, ptrs'[h] # None
        PROVE  h # 0 /\ handle'[ptrs'[h][1]][ptrs'[h][2]] = h
    <3>1. CASE h = l  BY <1>0, <2>1, <2>2, <2>3, <3>1
    <3>2. CASE h # l
      <4>1. ptrs'[h] = ptrs[h]  BY <1>0, <2>1, <2>2, <3>2
      <4> QED  BY <1>3, <2>4, <2>5, <4>1 DEF RegistryInv
    <3> QED  BY <3>1, <3>2
  <2>6. ASSUME main' = "calling", ~stale' PROVE view' = handle'[current']
    <3>1. current \in Request /\ Taken(current)
      BY <1>0, <2>1, <2>6 DEF MainTyped, MainInv
    <3>2. current # r  BY <2>1, <3>1, TakenWaits
    <3> QED  BY <2>1, <2>3, <2>6, <3>1, <3>2 DEF RegistryInv
  <2>7. ASSUME NEW u \in uses, ~u.stale PROVE Taken(u.for)' /\ Shares(u.for, u.ptr[1])'
    <3>1. Taken(u.for)' /\ Shares(u.for, u.ptr[1])  BY <1>1, <1>2, <2>7 DEF RegistryInv
    <3>2. PICK i, j \in Kind : handle[u.for][i] = handle[u.ptr[1]][j] /\ handle[u.for][i] # 0
      BY <3>1 DEF Shares
    <3>3. handle'[u.for][i] = handle'[u.ptr[1]][j] /\ handle'[u.for][i] # 0
      BY <1>1, <2>4, <3>2
    <3> QED  BY <3>1, <3>3 DEF Shares
  <2>8. ASSUME NEW q \in Request
        PROVE  /\ pc'[q] \in {"req", "reqStore"} => handle'[q] = NoHandles
               /\ pc'[q] \in {"res", "resStore"} => handle'[q]["res"] = 0
               /\ pc'[q] \in {"reqStore", "resStore"} => loaded'[q] # 0
    <3>1. CASE q # r  BY <1>0, <2>1, <2>3, <3>1 DEF RegistryInv
    <3>2. CASE q = r /\ k = "req"
      <4>1. handle[r]["res"] = 0  BY <2>1, <3>2 DEF RegistryInv, NoHandles, Kind
      <4>2. handle'[r]["res"] = 0  BY <2>3, <3>2, <4>1 DEF Kind
      <4> QED  BY <1>0, <2>1, <3>2, <4>2
    <3>3. CASE q = r /\ k = "res"  BY <1>0, <2>1, <3>3
    <3> QED  BY <3>1, <3>2, <3>3 DEF Kind
  <2> QED  BY <2>1, <2>5, <2>6, <2>7, <2>8 DEF RegistryInv
<1>9. CASE ReadContext
  <2>1. ASSUME main' = "calling", ~stale' PROVE view' = handle[current]
    <3>1. current \in Request /\ context[current] = "live"
      BY <1>0, <1>9, <2>1 DEF ReadContext, MainTyped
    <3>2. Tenant = {current}  BY <3>1 DEF Tenant, Tenants, ContextInv
    <3> QED  BY <1>9, <3>2 DEF ReadContext
  <2> QED  BY <1>6, <1>9, <2>1 DEF ReadContext
<1>10. ASSUME NEW k \in Kind, UseHandle(k) PROVE RegistryInv'
  <2> DEFINE u == [for |-> current, stale |-> stale, ptr |-> ptrs[view[k]]]
  <2>1. /\ main = "calling" /\ ptrs[view[k]] # None /\ uses' = uses \cup {u}
        /\ UNCHANGED <<pc, handle, loaded, ptrs, processed, main, stale, view, current>>
    BY <1>10 DEF UseHandle, queueVars, ringVars
  <2>2. current \in Request /\ Taken(current)  BY <1>0, <2>1 DEF MainTyped, MainInv
  <2>3. ASSUME ~stale PROVE Shares(current, u.ptr[1])
    <3>1. view[k] = handle[current][k] /\ view[k] \in Handle  BY <1>0, <2>1, <2>3 DEF RegistryInv
    <3>2. /\ view[k] # 0 /\ ptrs[view[k]][2] \in Kind
          /\ handle[ptrs[view[k]][1]][ptrs[view[k]][2]] = view[k]
      BY <1>3, <2>1, <3>1 DEF RegistryInv
    <3> QED  BY <3>1, <3>2 DEF Shares
  <2>4. \A x, y : Shares(x, y)' <=> Shares(x, y)  BY <2>1 DEF Shares
  <2>5. ASSUME NEW w \in uses', ~w.stale PROVE Taken(w.for)' /\ Shares(w.for, w.ptr[1])'
    <3>1. CASE w \in uses  BY <1>1, <1>2, <2>4, <2>5, <3>1 DEF RegistryInv
    <3>2. CASE w = u  BY <1>2, <2>2, <2>3, <2>4, <2>5, <3>2
    <3> QED  BY <2>1, <3>1, <3>2
  <2> QED  BY <2>1, <2>5 DEF RegistryInv
<1>11. CASE TakeTask \/ Signal \/ FreeShutdown \/ FreeQueue
  BY <1>6, <1>11 DEF TakeTask, Signal, FreeShutdown, FreeQueue, MainGoes
<1>12. CASE UNCHANGED vars  BY <1>6, <1>12 DEF vars, RegistryInv
<1>13. ASSUME NEW r \in Request, Thread(r) \/ SpuriousWakeup(r) PROVE RegistryInv'
  BY <1>5, <1>7, <1>8, <1>13, MainUntouched DEF Thread
<1> QED  BY <1>9, <1>10, <1>11, <1>12, <1>13 DEF Next

-----------------------------------------------------------------------------
(* The theorems about requests *)

\* The inductive invariant holds in every reachable state.
THEOREM Inductive == Spec => []BridgeInv
<1>1. Init => BridgeInv
  BY TypesInit, RingInit, GivenInit, ContextInit DEF BridgeInv
<1>2. BridgeInv /\ [Next]_vars => BridgeInv'
  BY TypesStep, RingStep, GivenStep, ContextStep, MainStep, RegistryStep DEF BridgeInv
<1> QED  BY <1>1, <1>2, PTL DEF Spec

\* A request that falls back to the C handler is in nobody's hands: the main thread
\* neither works on it nor will, and no handler has got at its request or builder,
\* unless two requests had the same handle or the handles of a freed context were read.
THEOREM FallbackIsExclusive == Spec => []FallbackExcludesHandler
<1>1. BridgeInv => FallbackExcludesHandler
  <2> SUFFICES ASSUME BridgeInv, NEW r \in Request, pc[r] = "fallback" \/ result[r] = "fallback"
               PROVE  /\ current # r /\ \A i \in DOMAIN enqueued : enqueued[i] # r
                      /\ \A u \in uses : u.ptr[1] = r /\ ~u.stale =>
                           u.for # r /\ Shares(u.for, r)
    BY DEF FallbackExcludesHandler
  <2>1. \A i \in 1 .. Len(enqueued) : enqueued[i] # r  BY DEF BridgeInv, GivenOnce
  <2>2. ~Taken(r)  BY <2>1, TakenWasAccepted DEF BridgeInv
  <2>3. DOMAIN enqueued = 1 .. Len(enqueued)
    BY LenProperties DEF BridgeInv, TypeOK, QueueTypeOK
  <2>4. r # None  BY ItemAssumption DEF Request, None
  <2>5. current # r  BY <2>2, <2>4 DEF BridgeInv, MainInv
  <2>6. \A u \in uses : u.ptr[1] = r /\ ~u.stale => u.for # r /\ Shares(u.for, r)
    BY <2>2 DEF BridgeInv, RegistryInv
  <2> QED  BY <2>1, <2>3, <2>5, <2>6
<1> QED  BY <1>1, Inductive, PTL

\* A thread that was told of a completion destroys a context that neither the
\* main thread nor the queue refers to any more, unless its context lies where that of
\* a thread lay that had given up.
THEOREM CompletionIsFinal == Spec => []CompletedMeansOver
<1>1. BridgeInv => CompletedMeansOver
  <2> SUFFICES ASSUME BridgeInv, NEW r \in Request, result[r] = "completed", ~Inherited(r)
               PROVE  /\ current # r
                      /\ \E i \in DOMAIN processed : processed[i] = r
                      /\ \A i \in DOMAIN Content : Content[i] # r
    BY DEF CompletedMeansOver
  <2>1. Taken(r) /\ current # r  BY DEF BridgeInv, MainInv
  <2>2. RingNumbers /\ RingCounts /\ RingHolds /\ processed \in Seq(Item)
    BY RingTypes DEF BridgeInv, TypeOK, RingInv
  <2>3. PICK j \in 1 .. Len(processed) : j \in 1 .. Len(enqueued) /\ enqueued[j] = r
    BY <2>1, TakenWasAccepted DEF BridgeInv
  <2>4. ASSUME NEW i \in 1 .. count PROVE Content[i] # r
    <3>1. /\ i - 1 \in 0 .. count - 1 /\ head + i - 1 = head + (i - 1)
          /\ Len(processed) + (i - 1) + 1 = Len(processed) + i
          /\ Len(processed) + i \in 1 .. Len(enqueued) /\ Len(processed) + i # j
      BY <2>2 DEF RingNumbers, RingCounts
    <3>2. Content[i] = tasks[Ahead(head, i - 1)]  BY <3>1 DEF Content, Ahead
    <3>3. Content[i] = enqueued[Len(processed) + i]  BY <2>2, <3>1, <3>2 DEF RingHolds
    <3> QED  BY <2>3, <3>1, <3>3 DEF BridgeInv, GivenOnce
  <2>5. DOMAIN Content = 1 .. count /\ DOMAIN processed = 1 .. Len(processed)
    BY <2>2, LenProperties DEF Content
  <2> QED  BY <2>1, <2>4, <2>5 DEF Taken
<1> QED  BY <1>1, Inductive, PTL

-----------------------------------------------------------------------------
(* Waiting for room.  Requests need not be finitely many: those inside      *)
(* enqueue always are.                                                      *)

Inside == {r \in Request : pc[r] = "enqueue"}
Runnable == {r \in Request : pc[r] = "enqueue" /\ r \notin asleep}

RoomInv ==
  /\ IsFiniteSet(Inside)
  /\ asleep \subseteq Inside
  /\ main \in {"closing", "closed"} => shutdown
  /\ shutdown => asleep = {}
  /\ asleep # {} => count + Cardinality(Runnable) >= Capacity

\* One thread more or less changes the number of threads by one at most.
LEMMA OneMore ==
  ASSUME NEW S, IsFiniteSet(S), NEW x
  PROVE  /\ IsFiniteSet(S \cup {x}) /\ IsFiniteSet(S \ {x})
         /\ Cardinality(S) \in Nat /\ Cardinality(S \cup {x}) \in Nat
         /\ Cardinality(S \ {x}) \in Nat
         /\ Cardinality(S \cup {x}) >= Cardinality(S)
         /\ x \notin S => Cardinality(S \cup {x}) = Cardinality(S) + 1
         /\ x \in S => Cardinality(S \ {x}) = Cardinality(S) - 1
  BY FS_AddElement, FS_RemoveElement, FS_CardinalityType

LEMMA RoomInit == Init => RoomInv
<1> SUFFICES ASSUME Init PROVE RoomInv
  OBVIOUS
<1>1. Inside = {}  BY DEF Init, Inside
<1>2. IsFiniteSet(Inside)  BY <1>1, FS_EmptySet
<1> QED  BY <1>2 DEF Init, QueueInit, RoomInv

\* Whoever leaves a sleep is runnable, and whoever is not inside is no sleeper.
LEMMA RoomStep ==
  ASSUME TypeOK, RingInv, RoomInv, [Next]_vars
  PROVE  RoomInv'
<1> USE DEF queueVars, ringVars, bridgeVars, contextVars, mainVars, MainGoes
<1>0. /\ pc \in [Request -> PC] /\ asleep \subseteq Request /\ count \in Nat /\ Capacity \in Nat
      /\ main \in {"idle", "task", "calling", "signalling", "closing", "closed"}
  BY CapacityAssumption DEF TypeOK, QueueTypeOK, Request
<1>1. Runnable = Inside \ asleep /\ Runnable' = Inside' \ asleep'
  BY DEF Runnable, Inside
<1>2. IsFiniteSet(Inside) /\ IsFiniteSet(Runnable) /\ Cardinality(Runnable) \in Nat
  BY <1>1, FS_Subset, FS_CardinalityType DEF RoomInv
<1>3. ASSUME UNCHANGED <<Inside, asleep, shutdown, count>>,
             main' \in {"closing", "closed"} => shutdown
      PROVE  RoomInv'
  BY <1>1, <1>3 DEF RoomInv
<1>4. ASSUME UNCHANGED <<pc, asleep, shutdown, count, main>> PROVE RoomInv'
  BY <1>3, <1>4 DEF RoomInv, Inside
<1>5. ASSUME NEW r \in Request, NEW from \in PC, NEW to \in PC, from # "enqueue",
             to # "enqueue", Goes(r, from, to), UNCHANGED <<asleep, shutdown, count, main>>
      PROVE  RoomInv'
  <2>1. Inside' = Inside  BY <1>0, <1>5 DEF Inside, Goes
  <2> QED  BY <1>3, <1>5, <2>1 DEF RoomInv
<1>6. ASSUME NEW r \in Request, NEW k \in Kind, RegisterLoad(r, k) \/ RegisterStore(r, k)
      PROVE  RoomInv'
  <2>1. PICK from \in PC \ {"enqueue"}, to \in PC \ {"enqueue"} : Goes(r, from, to)
    BY <1>6 DEF RegisterLoad, RegisterStore, Kind, PC
  <2>2. UNCHANGED <<asleep, shutdown, count, main>>  BY <1>6 DEF RegisterLoad, RegisterStore
  <2> QED  BY <1>5, <2>1, <2>2
<1>7. ASSUME NEW r \in Request,
             UseFallback(r) \/ WaitTimesOut(r) \/ WaitReturns(r) \/ Fallback(r)
      PROVE  RoomInv'
  <2>1. PICK from \in PC \ {"enqueue"}, to \in PC \ {"enqueue"} : Goes(r, from, to)
    BY <1>7 DEF UseFallback, WaitTimesOut, WaitReturns, ReturnWith, Fallback, PC
  <2>2. UNCHANGED <<asleep, shutdown, count, main>>
    BY <1>7 DEF UseFallback, WaitTimesOut, WaitReturns, ReturnWith, Fallback
  <2> QED  BY <1>5, <2>1, <2>2
<1>8. ASSUME NEW r \in Request, CreateContext(r) PROVE RoomInv'
  <2>1. /\ pc[r] = "lookup" /\ pc' = [pc EXCEPT ![r] = "enqueue"]
        /\ UNCHANGED <<asleep, shutdown, count, main>>
    BY <1>8 DEF CreateContext, Goes
  <2>2. Inside' = Inside \cup {r} /\ r \notin Inside  BY <1>0, <2>1 DEF Inside
  <2>3. Runnable' = Runnable \cup {r}  BY <1>1, <2>1, <2>2 DEF RoomInv
  <2>4. /\ IsFiniteSet(Inside') /\ Cardinality(Runnable') \in Nat
        /\ Cardinality(Runnable') >= Cardinality(Runnable)
    BY <1>2, <2>2, <2>3, OneMore
  <2>5. asleep' # {} => count' + Cardinality(Runnable') >= Capacity
    BY <1>0, <1>2, <2>1, <2>4 DEF RoomInv
  <2> QED  BY <2>1, <2>2, <2>4, <2>5 DEF RoomInv
<1>9. ASSUME NEW r \in Request, Enqueue(r) PROVE RoomInv'
  <2>1. /\ pc[r] = "enqueue" /\ pc' = [pc EXCEPT ![r] = "waiting"] /\ r \notin asleep
        /\ UNCHANGED <<asleep, shutdown, main>> /\ count' = count + 1
    BY <1>9 DEF Enqueue, Goes, Put
  <2>2. Inside' = Inside \ {r} /\ r \in Inside  BY <1>0, <2>1 DEF Inside
  <2>3. Runnable' = Runnable \ {r} /\ r \in Runnable  BY <1>1, <2>1, <2>2
  <2>4. /\ IsFiniteSet(Inside')
        /\ Cardinality(Runnable') = Cardinality(Runnable) - 1
    BY <1>2, <2>2, <2>3, OneMore
  <2>5. asleep' # {} => count' + Cardinality(Runnable') >= Capacity
    BY <1>0, <1>2, <2>1, <2>4 DEF RoomInv
  <2> QED  BY <2>1, <2>2, <2>4, <2>5 DEF RoomInv
<1>10. ASSUME NEW r \in Request, WaitForRoom(r) PROVE RoomInv'
  <2>1. /\ pc[r] = "enqueue" /\ UNCHANGED <<pc, count, shutdown, main>>
        /\ count >= Capacity /\ ~shutdown /\ asleep' = asleep \cup {r}
    BY <1>10 DEF WaitForRoom, WaitNotFull, Full
  <2>2. Inside' = Inside /\ r \in Inside  BY <2>1 DEF Inside
  <2>3. Cardinality(Runnable') \in Nat
    <3>1. IsFiniteSet(Runnable')  BY <1>1, <1>2, <2>2, FS_Subset
    <3> QED  BY <3>1, FS_CardinalityType
  <2>4. count' + Cardinality(Runnable') >= Capacity  BY <1>0, <2>1, <2>3
  <2> QED  BY <2>1, <2>2, <2>4 DEF RoomInv
<1>11. ASSUME NEW r \in Request, SpuriousWakeup(r) PROVE RoomInv'
  <2>1. r \in asleep /\ asleep' = asleep \ {r} /\ UNCHANGED <<pc, count, shutdown, main>>
    BY <1>11 DEF SpuriousWakeup, StopWaiting
  <2>2. Inside' = Inside /\ r \in Inside  BY <2>1 DEF Inside, RoomInv
  <2>3. Runnable' = Runnable \cup {r}  BY <1>1, <2>1, <2>2 DEF RoomInv
  <2>4. /\ Cardinality(Runnable') \in Nat
        /\ Cardinality(Runnable') >= Cardinality(Runnable)
    BY <1>2, <2>3, OneMore
  <2>5. asleep' # {} => count' + Cardinality(Runnable') >= Capacity
    BY <1>0, <1>2, <2>1, <2>4 DEF RoomInv
  <2> QED  BY <2>1, <2>2, <2>5 DEF RoomInv
<1>12. ASSUME NEW r \in Request, EnqueueTimesOut(r) PROVE RoomInv'
  <2>1. /\ pc[r] = "enqueue" /\ pc' = [pc EXCEPT ![r] = "fallback"] /\ r \in asleep
        /\ asleep' = asleep \ {r} /\ UNCHANGED <<count, shutdown, main>>
    BY <1>12 DEF EnqueueTimesOut, Goes, StopWaiting
  <2>2. Inside' = Inside \ {r}  BY <1>0, <2>1 DEF Inside
  <2>3. Runnable' = Runnable  BY <1>1, <2>1, <2>2
  <2>4. IsFiniteSet(Inside')  BY <1>2, <2>2, OneMore
  <2> QED  BY <2>1, <2>2, <2>3, <2>4 DEF RoomInv
<1>13. ASSUME NEW r \in Request, EnqueueRefused(r) \/ EnqueueUndefined(r) PROVE RoomInv'
  <2>1. PICK to \in PC \ {"enqueue"} : pc' = [pc EXCEPT ![r] = to]
    BY <1>13 DEF EnqueueRefused, EnqueueUndefined, Goes, PC
  <2>2. shutdown /\ UNCHANGED <<asleep, shutdown, main>>
    BY <1>13 DEF EnqueueRefused, Refused, EnqueueUndefined, QueueFreed, RoomInv
  <2>3. Inside' = Inside \ {r}  BY <1>0, <2>1 DEF Inside
  <2>4. IsFiniteSet(Inside')  BY <1>2, <2>3, OneMore
  <2> QED  BY <2>2, <2>4 DEF RoomInv
<1>14. CASE TakeTask
  <2>1. /\ count > 0 /\ count' = count - 1 /\ SignalNotFull /\ main' = "task"
        /\ UNCHANGED <<pc, shutdown>>
    BY <1>14 DEF TakeTask, Pop
  <2>2. Inside' = Inside  BY <2>1 DEF Inside
  <2>3. CASE asleep = {}  BY <1>1, <2>1, <2>2, <2>3 DEF SignalNotFull, RoomInv
  <2>4. CASE asleep # {}
    <3>1. PICK r \in asleep : asleep' = asleep \ {r}  BY <2>1, <2>4 DEF SignalNotFull
    <3>2. Runnable' = Runnable \cup {r} /\ r \notin Runnable
      BY <1>1, <2>2, <3>1 DEF RoomInv
    <3>3. Cardinality(Runnable') = Cardinality(Runnable) + 1  BY <1>2, <3>2, OneMore
    <3>4. count' + Cardinality(Runnable') >= Capacity
      BY <1>0, <1>2, <2>1, <2>4, <3>3 DEF RoomInv
    <3> QED  BY <2>1, <2>2, <3>1, <3>4 DEF RoomInv
  <2> QED  BY <2>3, <2>4
<1>15. CASE Serving
  <2>1. UNCHANGED <<pc, asleep, shutdown, count>> /\ main' \in {"calling", "signalling", "idle"}
    BY <1>15 DEF Serving, ReadContext, UseHandle, Signal
  <2> QED  BY <1>3, <2>1 DEF Inside
<1>16. CASE FreeShutdown
  <2>1. shutdown' /\ asleep' = {} /\ UNCHANGED pc
    BY <1>16 DEF FreeShutdown, Shutdown
  <2> QED  BY <1>2, <2>1 DEF RoomInv, Inside
<1>17. CASE FreeQueue
  <2>1. UNCHANGED <<pc, asleep, shutdown, count>> /\ main = "closing"
    BY <1>17 DEF FreeQueue
  <2> QED  BY <1>3, <2>1 DEF RoomInv, Inside
<1>18. CASE UNCHANGED vars  BY <1>4, <1>18 DEF vars
<1> QED  BY <1>6, <1>7, <1>8, <1>9, <1>10, <1>11, <1>12, <1>13, <1>14, <1>15, <1>16, <1>17,
            <1>18 DEF Next, Thread, Serving

\* No wakeup for room is lost: a thread sleeps only while the ring is full, or
\* while as many threads as there is room are awake to take it; and after the
\* shutdown nobody sleeps.
THEOREM RoomIsNotMissed == Spec => []RoomIsOffered
<1>1. RoomInv => RoomIsOffered
  BY DEF RoomInv, RoomIsOffered, WaitersCovered, Runnable
<1>2. TypeOK /\ RingInv /\ RoomInv /\ [Next]_vars => RoomInv'
  BY RoomStep
<1>3. BridgeInv => TypeOK /\ RingInv  BY DEF BridgeInv
<1> QED  BY RoomInit, <1>1, <1>2, <1>3, Inductive, PTL DEF Spec
=============================================================================
