--------------------------- MODULE ThreadPoolProofs ---------------------------
(***************************************************************************)
(* Proofs about ThreadPool.tla, for every number of threads, of tasks and  *)
(* of pollers.  The inductive invariant is the conjunction of              *)
(*   Typed      types, and pending counts the backlog (the decrement);     *)
(*   Lifecycle  what each stage of the owner says about the workers;       *)
(*   Ordered    the accepted tasks are those started, then the queue;      *)
(*   RunOnce    a started task is being run or has been, once;             *)
(*   HandedOn   a finished task with a callback is in one place on its way *)
(*              to the callback: with its worker, completed, or polled;    *)
(*   NoLostWakeup  as the model states it.                                 *)
(***************************************************************************)
EXTENDS ThreadPool, TLAPS, SequenceTheorems, FiniteSetTheorems

HoldingTask == \A w \in Worker : pc[w] \in {"run", "push"} => holding[w] \in Task

Typed == TypeOK /\ PendingIsBacklog /\ HoldingTask

Lifecycle ==
  /\ \A w \in Worker : pc[w] = "unborn" <=> w > spawned
  /\ Usable => spawned = NumThreads
  /\ shutdown <=> stage \notin {"creating", "up"}
  /\ stage \notin {"up", "joining"} => queue = << >>
  /\ stage = "freed" => \A w \in Worker : pc[w] \in {"unborn", "exited"}
  /\ (\E w \in Worker : pc[w] = "exited") => shutdown /\ queue = << >>

Ordered == accepted = started \o queue

Runs(w, t) == pc[w] = "run" /\ holding[w] = t
RunOnce ==
  /\ \A w \in Worker : pc[w] = "run" =>
       /\ \E i \in DOMAIN started : started[i] = holding[w]
       /\ runs[holding[w]] = 0
       /\ \A v \in Worker : Runs(v, holding[w]) => v = w
  /\ \A i \in DOMAIN started :
       runs[started[i]] = 1 \/ \E w \in Worker : Runs(w, started[i])
  /\ \A i, j \in DOMAIN accepted : accepted[i] = accepted[j] => i = j
  /\ \A t \in Task : runs[t] # 0 => \E i \in DOMAIN started : started[i] = t

\* The callback of t is still to come.
Outstanding(t) == t \in Callback /\ runs[t] = 1 /\ deliveries[t] = 0
HandedOn ==
  /\ \A t \in Task : runs[t] = 0 => deliveries[t] = 0
  /\ \A w \in Worker : pc[w] = "push" =>
       /\ Outstanding(holding[w])
       /\ \A v \in Worker : pc[v] = "push" /\ holding[v] = holding[w] => v = w
       /\ \A i \in DOMAIN completions : completions[i] # holding[w]
       /\ \A p \in Poller : polling[p] # holding[w]
  /\ \A i \in DOMAIN completions :
       /\ Outstanding(completions[i])
       /\ \A j \in DOMAIN completions : completions[j] = completions[i] => j = i
       /\ \A p \in Poller : polling[p] # completions[i]
  /\ \A p \in Poller : polling[p] # None =>
       /\ Outstanding(polling[p])
       /\ \A q \in Poller : polling[q] = polling[p] => q = p
  /\ ~Usable => \A p \in Poller : polling[p] = None

\* The inductive invariant.
IInv == Typed /\ Lifecycle /\ Ordered /\ RunOnce /\ HandedOn /\ NoLostWakeup

-----------------------------------------------------------------------------
(* Sequences of tasks *)

\* How often a task occurs in a queue is a number.
LEMMA OccurrencesType ==
  ASSUME NEW s \in Seq(Task), NEW t \in Task
  PROVE  Cardinality({i \in DOMAIN s : s[i] = t}) \in Nat
<1>1. DOMAIN s = 1 .. Len(s) /\ Len(s) \in Nat  BY LenProperties
<1>2. IsFiniteSet(1 .. Len(s))  BY <1>1, FS_Interval
<1>3. IsFiniteSet({i \in DOMAIN s : s[i] = t})  BY <1>1, <1>2, FS_Subset
<1> QED  BY <1>3, FS_CardinalityType

\* Taking the head of the queue shortens it by one.
LEMMA TailType ==
  ASSUME NEW s \in Seq(Task), s # << >>
  PROVE  /\ Head(s) \in Task
         /\ Tail(s) \in Seq(Task)
         /\ Len(s) \in Nat \ {0}
         /\ Len(Tail(s)) = Len(s) - 1
  BY HeadTailProperties, EmptySeq

\* When destroy frees the pool its workers have left, so the queue is empty.
LEMMA NothingLeft ==
  ASSUME Lifecycle, DestroyFree
  PROVE  queue = << >> /\ \A w \in Worker : pc[w] = "exited"
<1>1. 1 \in Worker /\ 1 .. spawned = Worker
  BY NumThreadsAssumption DEF Lifecycle, DestroyFree, Usable, Worker
<1> QED  BY <1>1 DEF Lifecycle, DestroyFree, AllExited

-----------------------------------------------------------------------------
(* Types *)

\* Waking sleepers moves them to the head of their loop and nobody else.
Wakes == \A w \in Worker : pc'[w] = pc[w] \/ (pc[w] = "waiting" /\ pc'[w] = "loop")

LEMMA WokenType ==
  ASSUME TypeOK, NEW S \in SUBSET Asleep, pc' = Woken(S)
  PROVE  pc' \in [Worker -> PC] /\ Wakes
  BY DEF TypeOK, Woken, PC, Wakes, Asleep

LEMMA SignalType ==
  ASSUME TypeOK, Signal
  PROVE  pc' \in [Worker -> PC] /\ Wakes
<1>1. CASE Asleep = {}  BY <1>1 DEF Signal, TypeOK, Wakes
<1>2. CASE Asleep # {}
  <2>1. PICK w \in Asleep : pc' = Woken({w})  BY <1>2 DEF Signal
  <2>2. {w} \in SUBSET Asleep  OBVIOUS
  <2> QED  BY <2>1, <2>2, WokenType
<1> QED  BY <1>1, <1>2

LEMMA TypedInit == Init => Typed
<1> SUFFICES ASSUME Init PROVE Typed
  OBVIOUS
<1>1. << >> \in Seq(Task) /\ Len(<< >>) = 0  BY EmptySeq
<1>2. TypeOK
  <2>1. 0 \in 0 .. NumThreads  BY NumThreadsAssumption
  <2>2. /\ pc \in [Worker -> PC]
        /\ holding \in [Worker -> Task \cup {None}]
        /\ polling \in [Poller -> Task \cup {None}]
    BY DEF Init, PC
  <2>3. runs \in [Task -> Nat] /\ deliveries \in [Task -> Nat] /\ frees \in [Task -> Nat]
    BY DEF Init
  <2> QED  BY <1>1, <2>1, <2>2, <2>3 DEF Init, TypeOK, Stage
<1>3. PendingIsBacklog /\ HoldingTask  BY <1>1 DEF Init, PendingIsBacklog, HoldingTask
<1> QED  BY <1>2, <1>3 DEF Typed

LEMMA TypesStep ==
  ASSUME Typed, Lifecycle, [Next]_vars
  PROVE  TypeOK' /\ PendingIsBacklog'
<1> DEFINE Goal == TypeOK' /\ PendingIsBacklog'
<1> USE NumThreadsAssumption
<1>T. TypeOK /\ pending = Len(queue)  BY DEF Typed, PendingIsBacklog
<1> USE DEF poolVars, queueVars, history, PendingIsBacklog
<1>L. Len(queue) \in Nat /\ Len(queue)' = Len(queue')  BY <1>T, LenProperties DEF TypeOK
<1>1. CASE Spawn
  <2>1. spawned' \in 0 .. NumThreads  BY <1>T, <1>1 DEF Spawn, TypeOK
  <2>2. pc' \in [Worker -> PC]  BY <1>T, <1>1 DEF Spawn, TypeOK, PC
  <2> QED  BY <1>T, <1>1, <2>1, <2>2 DEF Spawn, TypeOK
<1>2. CASE CreateReturns  BY <1>T, <1>2 DEF CreateReturns, TypeOK, Stage
<1>3. CASE SpawnFails  BY <1>T, <1>3 DEF SpawnFails, TypeOK, Stage
<1>4. CASE FailBroadcast
  <2>1. pc' \in [Worker -> PC]  BY <1>T, <1>4, WokenType DEF FailBroadcast
  <2> QED  BY <1>T, <1>4, <2>1 DEF FailBroadcast, TypeOK, Stage
<1>5. CASE FailFree  BY <1>T, <1>5 DEF FailFree, TypeOK, Stage
<1>6. CASE Destroy
  <2>1. pc' \in [Worker -> PC]  BY <1>T, <1>6, WokenType DEF Destroy
  <2> QED  BY <1>T, <1>6, <2>1 DEF Destroy, TypeOK, Stage
<1>7. CASE DestroyFree
  <2>1. \A t \in Task : /\ Cardinality({i \in DOMAIN queue : queue[i] = t}) \in Nat
                        /\ Cardinality({i \in DOMAIN completions : completions[i] = t}) \in Nat
    BY <1>T, OccurrencesType DEF TypeOK
  <2>2. \A t \in Task : frees'[t] \in Nat
    <3> TAKE t \in Task
    <3>1. PICK m \in Nat : m = Cardinality({i \in DOMAIN queue : queue[i] = t})
      BY <2>1
    <3>2. PICK n \in Nat : n = Cardinality({i \in DOMAIN completions : completions[i] = t})
      BY <2>1
    <3>3. frees'[t] = frees[t] + m + n  BY <1>7, <3>1, <3>2, Zenon DEF DestroyFree
    <3> QED  BY <1>T, <3>3 DEF TypeOK
  <2>3. frees' \in [Task -> Nat]  BY <1>7, <2>2 DEF DestroyFree
  <2>4. queue = << >>  BY <1>7, NothingLeft
  <2> QED  BY <1>T, <1>7, <2>3, <2>4, EmptySeq DEF DestroyFree, TypeOK, Stage
<1>8. ASSUME NEW t \in Task, Submit(t) PROVE Goal
  <2>1. pc' \in [Worker -> PC]  BY <1>T, <1>8, SignalType DEF Submit
  <2>2. /\ queue' \in Seq(Task) /\ Len(queue') = Len(queue) + 1
        /\ accepted' \in Seq(Task)
    BY <1>T, <1>8, AppendProperties DEF Submit, TypeOK
  <2> QED  BY <1>T, <1>L, <1>8, <2>1, <2>2 DEF Submit, TypeOK
<1>9. ASSUME NEW t \in Task, Refuse(t) PROVE Goal
  BY <1>T, <1>9 DEF Refuse, TypeOK
<1>10. ASSUME NEW w \in Worker, GoToSleep(w) \/ Sleep(w) \/ SpuriousWakeup(w) \/ Exit(w)
       PROVE  Goal
  BY <1>T, <1>10 DEF GoToSleep, Sleep, SpuriousWakeup, Exit, TypeOK, PC
<1>11. ASSUME NEW w \in Worker, Take(w) PROVE Goal
  <2>1. /\ Head(queue) \in Task /\ queue' \in Seq(Task)
        /\ Len(queue) \in Nat \ {0} /\ Len(queue') = Len(queue) - 1
    BY <1>T, <1>11, TailType DEF Take, TypeOK
  <2>2. started' \in Seq(Task)  BY <1>T, <1>11, <2>1, AppendProperties DEF Take, TypeOK
  <2> QED  BY <1>T, <1>11, <2>1, <2>2 DEF Take, TypeOK, PC
<1>12. ASSUME NEW w \in Worker, Run(w) PROVE Goal
  <2>1. holding[w] \in Task  BY <1>12 DEF Run, Typed, HoldingTask
  <2>2. runs' \in [Task -> Nat]  BY <1>T, <1>12, <2>1 DEF Run, TypeOK
  <2>3. frees' \in [Task -> Nat]  BY <1>T, <1>12, <2>1 DEF Run, TypeOK
  <2>4. pc' \in [Worker -> PC]  BY <1>T, <1>12 DEF Run, TypeOK, PC
  <2>5. holding' \in [Worker -> Task \cup {None}]  BY <1>T, <1>12 DEF Run, TypeOK
  <2> QED  BY <1>T, <1>12, <2>2, <2>3, <2>4, <2>5 DEF Run, TypeOK
<1>13. ASSUME NEW w \in Worker, Push(w) PROVE Goal
  <2> holding[w] \in Task  BY <1>13 DEF Push, Typed, HoldingTask
  <2>1. completions' \in Seq(Task)  BY <1>T, <1>13, AppendProperties DEF Push, TypeOK
  <2> QED  BY <1>T, <1>13, <2>1 DEF Push, TypeOK, PC
<1>14. ASSUME NEW p \in Poller, PollTake(p) PROVE Goal
  <2>1. Head(completions) \in Task /\ completions' \in Seq(Task)
    BY <1>T, <1>14, TailType DEF PollTake, TypeOK
  <2> QED  BY <1>T, <1>14, <2>1 DEF PollTake, TypeOK
<1>15. ASSUME NEW p \in Poller, PollCallback(p) PROVE Goal
  BY <1>T, <1>15 DEF PollCallback, TypeOK
<1>16. CASE UNCHANGED vars  BY <1>T, <1>16 DEF vars, TypeOK
<1> QED  BY <1>1, <1>2, <1>3, <1>4, <1>5, <1>6, <1>7, <1>8, <1>9, <1>10, <1>11,
            <1>12, <1>13, <1>14, <1>15, <1>16
         DEF Next, Owner, WorkerStep, PollerStep
\* A worker that runs or pushes a task holds one.
LEMMA HoldingStep ==
  ASSUME Typed, [Next]_vars
  PROVE  HoldingTask'
<1> USE DEF poolVars, queueVars, history, Typed, HoldingTask
<1>1. CASE Spawn \/ CreateReturns \/ SpawnFails \/ FailFree \/ DestroyFree
  BY <1>1 DEF Spawn, CreateReturns, SpawnFails, FailFree, DestroyFree, TypeOK, PC
<1>2. ASSUME Wakes, UNCHANGED holding PROVE HoldingTask'
  BY <1>2 DEF Wakes
<1>3. CASE FailBroadcast \/ Destroy
  BY <1>2, <1>3, WokenType DEF FailBroadcast, Destroy
<1>4. ASSUME NEW t \in Task, Submit(t) \/ Refuse(t) PROVE HoldingTask'
  BY <1>2, <1>4, SignalType DEF Submit, Refuse
<1>5. ASSUME NEW w \in Worker, GoToSleep(w) \/ Sleep(w) \/ SpuriousWakeup(w) \/ Exit(w)
      PROVE  HoldingTask'
  BY <1>5 DEF GoToSleep, Sleep, SpuriousWakeup, Exit, TypeOK, PC
<1>6. ASSUME NEW w \in Worker, Take(w) PROVE HoldingTask'
  <2>1. Head(queue) \in Task  BY <1>6, TailType DEF Take, TypeOK
  <2> QED  BY <1>6, <2>1 DEF Take, TypeOK
<1>7. ASSUME NEW w \in Worker, Run(w) \/ Push(w) PROVE HoldingTask'
  BY <1>7 DEF Run, Push, TypeOK
<1>8. ASSUME NEW p \in Poller, PollTake(p) \/ PollCallback(p) PROVE HoldingTask'
  BY <1>8 DEF PollTake, PollCallback
<1>9. CASE UNCHANGED vars  BY <1>9 DEF vars
<1> QED  BY <1>1, <1>3, <1>4, <1>5, <1>6, <1>7, <1>8, <1>9
         DEF Next, Owner, WorkerStep, PollerStep

-----------------------------------------------------------------------------
(* The stages of the owner *)

LEMMA LifecycleInit == Init => Lifecycle
  BY NumThreadsAssumption DEF Init, Lifecycle, Usable, Worker

\* No thread disturbs what the owner's stage says about the workers.
LEMMA LifecycleStep ==
  ASSUME Typed, Lifecycle, [Next]_vars
  PROVE  Lifecycle'
<1> USE DEF Lifecycle, Usable, poolVars, queueVars, history
<1>T. TypeOK  BY DEF Typed
<1>1. CASE Spawn
  <2>1. spawned \in Nat /\ spawned + 1 \in Worker
    BY <1>T, <1>1, NumThreadsAssumption DEF Spawn, TypeOK, Worker
  <2>2. \A w \in Worker : pc'[w] = "unborn" <=> w > spawned'
    BY <1>T, <1>1, <2>1 DEF Spawn, TypeOK, Worker
  <2> QED  BY <1>T, <1>1, <2>1, <2>2 DEF Spawn, TypeOK
<1>2. CASE CreateReturns \/ SpawnFails
  BY <1>2 DEF CreateReturns, SpawnFails
<1>3. CASE FailBroadcast \/ Destroy
  <2>1. Wakes  BY <1>T, <1>3, WokenType DEF FailBroadcast, Destroy
  <2> QED  BY <1>3, <2>1 DEF FailBroadcast, Destroy, Wakes
<1>4. CASE FailFree
  BY <1>T, <1>4 DEF FailFree, AllExited, TypeOK, Worker
<1>5. CASE DestroyFree
  BY <1>5, NothingLeft DEF DestroyFree
<1>6. ASSUME NEW t \in Task, Submit(t) PROVE Lifecycle'
  <2>1. Wakes  BY <1>T, <1>6, SignalType DEF Submit
  <2> QED  BY <1>6, <2>1 DEF Submit, Wakes
<1>7. ASSUME NEW t \in Task, Refuse(t) PROVE Lifecycle'
  BY <1>7 DEF Refuse
<1>M. ASSUME UNCHANGED poolVars,
             NEW w \in Worker, pc[w] \notin {"unborn", "exited"},
             NEW x \in PC \ {"unborn", "exited"}, pc' = [pc EXCEPT ![w] = x],
             queue' = queue
      PROVE  Lifecycle'
  <2>1. \A v \in Worker : /\ pc'[v] = "unborn" <=> pc[v] = "unborn"
                          /\ pc'[v] = "exited" <=> pc[v] = "exited"
    BY <1>T, <1>M DEF TypeOK
  <2>2. stage # "freed"  BY <1>M
  <2> QED  BY <1>M, <2>1, <2>2
<1>8. ASSUME NEW w \in Worker, GoToSleep(w) \/ Sleep(w) \/ SpuriousWakeup(w)
      PROVE  Lifecycle'
  <2>1. CASE GoToSleep(w)  BY <1>M, <2>1 DEF GoToSleep, PC
  <2>2. CASE Sleep(w)  BY <1>M, <2>2 DEF Sleep, PC
  <2>3. CASE SpuriousWakeup(w)  BY <1>M, <2>3 DEF SpuriousWakeup, PC
  <2> QED  BY <1>8, <2>1, <2>2, <2>3
<1>9. ASSUME NEW w \in Worker, Exit(w) PROVE Lifecycle'
  BY <1>T, <1>9 DEF Exit, MayExit, TypeOK
<1>10. ASSUME NEW w \in Worker, Take(w) PROVE Lifecycle'
  BY <1>T, <1>10 DEF Take, TypeOK
<1>11. ASSUME NEW w \in Worker, Run(w) \/ Push(w) PROVE Lifecycle'
  <2>1. CASE Run(w) /\ holding[w] \in Callback  BY <1>M, <2>1 DEF Run, PC
  <2>2. CASE Run(w) /\ holding[w] \notin Callback  BY <1>M, <2>2 DEF Run, PC
  <2>3. CASE Push(w)  BY <1>M, <2>3 DEF Push, PC
  <2> QED  BY <1>11, <2>1, <2>2, <2>3
<1>12. ASSUME NEW p \in Poller, PollTake(p) \/ PollCallback(p) PROVE Lifecycle'
  BY <1>12 DEF PollTake, PollCallback
<1>13. CASE UNCHANGED vars  BY <1>13 DEF vars
<1> QED  BY <1>1, <1>2, <1>3, <1>4, <1>5, <1>6, <1>7, <1>8, <1>9, <1>10, <1>11,
            <1>12, <1>13
         DEF Next, Owner, WorkerStep, PollerStep

\* Type correctness: whatever the threads do, the state keeps its types; with it,
\* pending_count is the length of the backlog and its decrement never wraps.
THEOREM TypeCorrect == Spec => [](TypeOK /\ PendingIsBacklog)
<1>1. Typed /\ Lifecycle /\ [Next]_vars => Typed' /\ Lifecycle'
  BY TypesStep, HoldingStep, LifecycleStep DEF Typed
<1>2. Typed => TypeOK /\ PendingIsBacklog  BY DEF Typed
<1> QED  BY TypedInit, LifecycleInit, <1>1, <1>2, PTL DEF Spec


-----------------------------------------------------------------------------
(* The order of the queue *)

\* Appending to the queue appends to what was started and queued.
LEMMA AppendLast ==
  ASSUME NEW s \in Seq(Task), NEW q \in Seq(Task), NEW t \in Task
  PROVE  Append(s \o q, t) = s \o Append(q, t)
<1>1. s \o q \in Seq(Task) /\ Append(q, t) \in Seq(Task)
  BY ConcatProperties, AppendProperties
<1>2. Append(s \o q, t) \in Seq(Task) /\ s \o Append(q, t) \in Seq(Task)
  BY <1>1, ConcatProperties, AppendProperties
<1>3. Len(Append(s \o q, t)) = Len(s \o Append(q, t))
  BY <1>1, ConcatProperties, AppendProperties, LenProperties
<1>4. ASSUME NEW i \in 1 .. Len(Append(s \o q, t))
      PROVE  Append(s \o q, t)[i] = (s \o Append(q, t))[i]
  <2>1. Len(s) \in Nat /\ Len(q) \in Nat /\ Len(Append(q, t)) = Len(q) + 1
    BY LenProperties, AppendProperties
  <2>2. Len(s \o q) = Len(s) + Len(q) /\ Len(s \o Append(q, t)) = Len(s) + Len(q) + 1
    BY <1>1, <2>1, ConcatProperties
  <2>3. i \in 1 .. Len(s) + Len(q) + 1
    BY <1>1, <2>2, AppendProperties
  <2>4. CASE i \in 1 .. Len(s)
    <3>1. i \in 1 .. Len(s \o q)
      BY <2>1, <2>2, <2>4
    <3>2. Append(s \o q, t)[i] = (s \o q)[i]
      BY <1>1, <3>1, AppendProperties
    <3>3. (s \o q)[i] = s[i]
      BY <2>1, <2>2, <3>1, <2>4, ConcatProperties
    <3>4. (s \o Append(q, t))[i] = s[i]
      BY <1>1, <2>1, <2>2, <2>3, <2>4, ConcatProperties
    <3> QED  BY <3>2, <3>3, <3>4
  <2>5. CASE i \in Len(s) + 1 .. Len(s) + Len(q)
    <3>1. i \in 1 .. Len(s \o q) /\ i - Len(s) \in 1 .. Len(q)
      BY <2>1, <2>2, <2>5
    <3>2. Append(s \o q, t)[i] = (s \o q)[i]
      BY <1>1, <3>1, AppendProperties
    <3>3. (s \o q)[i] = q[i - Len(s)]
      BY <2>1, <2>2, <3>1, <2>5, ConcatProperties
    <3>4. (s \o Append(q, t))[i] = Append(q, t)[i - Len(s)]
      BY <1>1, <2>1, <2>2, <2>3, <2>5, ConcatProperties
    <3>5. Append(q, t)[i - Len(s)] = q[i - Len(s)]
      BY <3>1, AppendProperties
    <3> QED  BY <3>2, <3>3, <3>4, <3>5
  <2>6. CASE i = Len(s) + Len(q) + 1
    <3>1. Append(s \o q, t)[i] = t
      BY <1>1, <2>1, <2>2, <2>6, AppendProperties
    <3>2. (s \o Append(q, t))[i] = Append(q, t)[i - Len(s)]
      BY <1>1, <2>1, <2>2, <2>3, <2>6, ConcatProperties
    <3>3. Append(q, t)[i - Len(s)] = t
      BY <2>1, <2>6, AppendProperties
    <3> QED  BY <3>1, <3>2, <3>3
  <2> QED  BY <2>1, <2>3, <2>4, <2>5, <2>6
<1> QED  BY <1>2, <1>3, <1>4, SeqEqual

\* Moving the head of the queue to what was started changes nothing in between.
LEMMA MoveHead ==
  ASSUME NEW s \in Seq(Task), NEW q \in Seq(Task), q # << >>
  PROVE  Append(s, Head(q)) \o Tail(q) = s \o q
<1>1. /\ Head(q) \in Task /\ Tail(q) \in Seq(Task) /\ Append(s, Head(q)) \in Seq(Task)
      /\ Len(Tail(q)) = Len(q) - 1 /\ Len(q) \in Nat \ {0} /\ Len(s) \in Nat
  BY TailType, AppendProperties, LenProperties
<1>2. Append(s, Head(q)) \o Tail(q) \in Seq(Task) /\ s \o q \in Seq(Task)
  BY <1>1, ConcatProperties
<1>3. Len(Append(s, Head(q)) \o Tail(q)) = Len(s \o q)
  BY <1>1, ConcatProperties, AppendProperties
<1>4. \A i \in 1 .. Len(s \o q) : (Append(s, Head(q)) \o Tail(q))[i] = (s \o q)[i]
  BY <1>1, ConcatProperties, AppendProperties, HeadTailProperties
<1> QED  BY <1>2, <1>3, <1>4, SeqEqual

LEMMA OrderedInit == Init => Ordered
  BY ConcatEmptySeq, EmptySeq DEF Init, Ordered

\* Only submit and the workers' dequeue touch the three sequences.
LEMMA OrderedStep ==
  ASSUME Typed, Lifecycle, Ordered, [Next]_vars
  PROVE  Ordered'
<1> USE DEF Ordered, poolVars, queueVars, history
<1>T. TypeOK  BY DEF Typed
<1>1. ASSUME NEW t \in Task, Submit(t) PROVE Ordered'
  BY <1>T, <1>1, AppendLast DEF Submit, TypeOK
<1>2. ASSUME NEW w \in Worker, Take(w) PROVE Ordered'
  BY <1>T, <1>2, MoveHead DEF Take, TypeOK
<1>3. CASE DestroyFree  BY <1>3, NothingLeft DEF DestroyFree
<1>4. CASE Spawn \/ CreateReturns \/ SpawnFails \/ FailBroadcast \/ FailFree \/ Destroy
  BY <1>4 DEF Spawn, CreateReturns, SpawnFails, FailBroadcast, FailFree, Destroy
<1>5. ASSUME NEW t \in Task, Refuse(t) PROVE Ordered'  BY <1>5 DEF Refuse
<1>6. ASSUME NEW w \in Worker, GoToSleep(w) \/ Sleep(w) \/ SpuriousWakeup(w) \/ Exit(w)
      PROVE  Ordered'
  BY <1>6 DEF GoToSleep, Sleep, SpuriousWakeup, Exit
<1>7. ASSUME NEW w \in Worker, Run(w) \/ Push(w) PROVE Ordered'
  BY <1>7 DEF Run, Push
<1>8. ASSUME NEW p \in Poller, PollTake(p) \/ PollCallback(p) PROVE Ordered'
  BY <1>8 DEF PollTake, PollCallback
<1>9. CASE UNCHANGED vars  BY <1>9 DEF vars
<1> QED  BY <1>1, <1>2, <1>3, <1>4, <1>5, <1>6, <1>7, <1>8, <1>9
         DEF Next, Owner, WorkerStep, PollerStep

\* Tasks are started in the order submit accepted them, none skipped, none twice,
\* whatever the number of workers that share the queue.
THEOREM InOrder == Spec => []StartedInOrder
<1>1. Typed /\ Lifecycle /\ Ordered /\ [Next]_vars => Typed' /\ Lifecycle' /\ Ordered'
  BY TypesStep, HoldingStep, LifecycleStep, OrderedStep DEF Typed
<1>2. Ordered => StartedInOrder  BY DEF Ordered, StartedInOrder
<1> QED  BY TypedInit, LifecycleInit, OrderedInit, <1>1, <1>2, PTL DEF Spec

-----------------------------------------------------------------------------
(* The wake-up of submit *)

Attended == \E w \in Worker : pc[w] \in {"loop", "run", "push"}

\* After submit some worker is on its way to the queue: one was woken, or none
\* slept, and then none is about to sleep or gone either.
LEMMA SubmitAttended ==
  ASSUME Typed, Lifecycle, NEW t \in Task, Submit(t)
  PROVE  Attended'
<1>1. CASE Asleep = {}
  <2>1. 1 \in Worker /\ pc'[1] = pc[1]
    BY <1>1, NumThreadsAssumption DEF Submit, Signal, Worker
  <2>2. pc[1] # "toWait" /\ pc[1] # "waiting"
    BY <1>1, <2>1 DEF Submit, MutexFree, Asleep
  <2>3. pc[1] # "exited"  BY <2>1 DEF Submit, Lifecycle
  <2>4. pc[1] # "unborn"
    BY <2>1, NumThreadsAssumption DEF Submit, Lifecycle, Worker
  <2>5. pc[1] \in PC  BY <2>1 DEF Typed, TypeOK
  <2> QED  BY <2>1, <2>2, <2>3, <2>4, <2>5 DEF Attended, PC
<1>2. CASE Asleep # {}
  <2>1. PICK w \in Asleep : pc' = Woken({w})  BY <1>2 DEF Submit, Signal
  <2>2. w \in Worker /\ pc'[w] = "loop"  BY <2>1 DEF Asleep, Woken
  <2> QED  BY <2>2 DEF Attended
<1> QED  BY <1>1, <1>2

LEMMA AttendedStep ==
  ASSUME Typed, Lifecycle, NoLostWakeup, [Next]_vars
  PROVE  NoLostWakeup'
<1> USE DEF poolVars, queueVars, history
<1>T. TypeOK  BY DEF Typed
<1>1. ASSUME queue' = queue, Wakes PROVE NoLostWakeup'
  BY <1>1 DEF NoLostWakeup, Wakes
<1>2. ASSUME NEW w \in Worker, NEW x, pc' = [pc EXCEPT ![w] = x],
             x \in {"loop", "run", "push"}
      PROVE  NoLostWakeup'
  <2>1. pc'[w] = x  BY <1>T, <1>2 DEF TypeOK
  <2> QED  BY <1>2, <2>1 DEF NoLostWakeup
<1>3. CASE Spawn
  <2>1. spawned + 1 \in Worker  BY <1>T, <1>3, NumThreadsAssumption DEF Spawn, TypeOK, Worker
  <2> QED  BY <1>2, <1>3, <2>1 DEF Spawn
<1>4. CASE FailBroadcast \/ Destroy
  BY <1>T, <1>1, <1>4, WokenType DEF FailBroadcast, Destroy
<1>5. CASE CreateReturns \/ SpawnFails \/ FailFree
  BY <1>5 DEF CreateReturns, SpawnFails, FailFree, NoLostWakeup
<1>6. CASE DestroyFree  BY <1>6 DEF DestroyFree, NoLostWakeup
<1>7. ASSUME NEW t \in Task, Submit(t) PROVE NoLostWakeup'
  BY <1>7, SubmitAttended DEF Attended, NoLostWakeup
<1>8. ASSUME NEW t \in Task, Refuse(t) PROVE NoLostWakeup'
  BY <1>8 DEF Refuse, NoLostWakeup
<1>9. ASSUME NEW w \in Worker, GoToSleep(w) \/ Exit(w) PROVE NoLostWakeup'
  BY <1>9 DEF GoToSleep, Exit, MayExit, NoLostWakeup
<1>10. ASSUME NEW w \in Worker, Sleep(w) PROVE NoLostWakeup'
  BY <1>T, <1>10 DEF Sleep, NoLostWakeup, TypeOK
<1>11. ASSUME NEW w \in Worker, SpuriousWakeup(w) \/ Take(w) \/ Run(w) \/ Push(w)
       PROVE  NoLostWakeup'
  BY <1>2, <1>11 DEF SpuriousWakeup, Take, Run, Push
<1>12. ASSUME NEW p \in Poller, PollTake(p) \/ PollCallback(p) PROVE NoLostWakeup'
  BY <1>12 DEF PollTake, PollCallback, NoLostWakeup
<1>13. CASE UNCHANGED vars  BY <1>13 DEF vars, NoLostWakeup
<1> QED  BY <1>3, <1>4, <1>5, <1>6, <1>7, <1>8, <1>9, <1>10, <1>11, <1>12, <1>13
         DEF Next, Owner, WorkerStep, PollerStep

\* One signal per submit is enough for any number of workers: the queue is never
\* left with work while every worker sleeps, is about to sleep or is gone.
THEOREM NothingLost == Spec => []NoLostWakeup
<1>1. Init => NoLostWakeup  BY DEF Init, NoLostWakeup
<1>2. Typed /\ Lifecycle /\ NoLostWakeup /\ [Next]_vars
        => Typed' /\ Lifecycle' /\ NoLostWakeup'
  BY TypesStep, HoldingStep, LifecycleStep, AttendedStep DEF Typed
<1> QED  BY TypedInit, LifecycleInit, <1>1, <1>2, PTL DEF Spec

-----------------------------------------------------------------------------
(* Every accepted task runs once *)

\* RunOnce speaks of the running workers, of runs, started and accepted alone.
LEMMA RunOnceStable ==
  ASSUME RunOnce, UNCHANGED <<started, accepted, runs>>,
         \A w \in Worker : pc[w] = "run" <=> pc'[w] = "run",
         \A w \in Worker : pc[w] = "run" => holding'[w] = holding[w]
  PROVE  RunOnce'
  BY DEF RunOnce, Runs

LEMMA RunOnceSubmit ==
  ASSUME Typed, RunOnce, NEW t \in Task, Submit(t)
  PROVE  RunOnce'
<1> USE DEF history
<1>1. Wakes  BY SignalType DEF Typed, Submit
<1>2. \A i, j \in DOMAIN accepted' : accepted'[i] = accepted'[j] => i = j
  <2>1. /\ accepted \in Seq(Task)
        /\ DOMAIN accepted = 1 .. Len(accepted) /\ Len(accepted) \in Nat
    BY LenProperties DEF Typed, TypeOK
  <2>2. /\ DOMAIN accepted' = 1 .. Len(accepted) + 1
        /\ \A i \in 1 .. Len(accepted) : accepted'[i] = accepted[i] /\ accepted[i] # t
        /\ accepted'[Len(accepted) + 1] = t
    BY <2>1, AppendProperties, LenProperties DEF Submit, Fresh
  <2> QED  BY <2>1, <2>2 DEF RunOnce
<1> QED  BY <1>1, <1>2 DEF Submit, Wakes, RunOnce, Runs

\* The task a worker dequeues has never been dequeued before.
LEMMA HeadIsNew ==
  ASSUME Typed, Ordered, RunOnce, queue # << >>
  PROVE  /\ Head(queue) \in Task
         /\ \A i \in DOMAIN started : started[i] # Head(queue)
<1>1. /\ started \in Seq(Task) /\ queue \in Seq(Task)
      /\ DOMAIN started = 1 .. Len(started) /\ Len(started) \in Nat
      /\ Len(queue) \in Nat \ {0} /\ Head(queue) = queue[1] /\ Head(queue) \in Task
  BY LenProperties, TailType, HeadTailProperties DEF Typed, TypeOK
<1>2. /\ DOMAIN accepted = 1 .. Len(started) + Len(queue)
      /\ \A i \in 1 .. Len(started) : accepted[i] = started[i]
      /\ accepted[Len(started) + 1] = queue[1]
  BY <1>1, ConcatProperties, LenProperties DEF Ordered
<1> QED  BY <1>1, <1>2 DEF RunOnce

LEMMA RunOnceTake ==
  ASSUME Typed, Ordered, RunOnce, NEW w \in Worker, Take(w)
  PROVE  RunOnce'
<1> DEFINE h == Head(queue)
<1>T. TypeOK  BY DEF Typed
<1>1. h \in Task /\ \A i \in DOMAIN started : started[i] # h
  BY HeadIsNew DEF Take
<1>2. /\ pc' = [pc EXCEPT ![w] = "run"] /\ holding' = [holding EXCEPT ![w] = h]
      /\ UNCHANGED <<accepted, runs>> /\ started' = Append(started, h)
      /\ pc[w] # "run"
  BY DEF Take
<1>3. /\ DOMAIN started = 1 .. Len(started) /\ Len(started) \in Nat
      /\ DOMAIN started' = 1 .. Len(started) + 1
      /\ \A i \in DOMAIN started : started'[i] = started[i]
      /\ started'[Len(started) + 1] = h
  <2>1. started \in Seq(Task)  BY <1>T DEF TypeOK
  <2>2. DOMAIN started = 1 .. Len(started) /\ Len(started) \in Nat
    BY <2>1, LenProperties
  <2>3. /\ Append(started, h) \in Seq(Task)
        /\ Len(Append(started, h)) = Len(started) + 1
        /\ \A i \in 1 .. Len(started) : Append(started, h)[i] = started[i]
        /\ Append(started, h)[Len(started) + 1] = h
    BY <1>1, <2>1, AppendProperties
  <2>4. DOMAIN Append(started, h) = 1 .. Len(started) + 1  BY <2>3, LenProperties
  <2> QED  BY <1>2, <2>2, <2>3, <2>4
<1>4. \A v \in Worker : v # w => pc'[v] = pc[v] /\ holding'[v] = holding[v]
  BY <1>T, <1>2 DEF TypeOK
<1>5. pc'[w] = "run" /\ holding'[w] = h  BY <1>T, <1>2 DEF TypeOK
<1>6. runs[h] = 0  BY <1>1 DEF RunOnce
<1>7. \A v \in Worker : pc[v] = "run" => holding[v] # h  BY <1>1 DEF RunOnce
<1>8. ASSUME NEW v \in Worker, pc'[v] = "run"
      PROVE  /\ \E i \in DOMAIN started' : started'[i] = holding'[v]
             /\ runs'[holding'[v]] = 0
             /\ \A u \in Worker : pc'[u] = "run" /\ holding'[u] = holding'[v] => u = v
  <2>1. CASE v = w
    BY <1>2, <1>3, <1>4, <1>5, <1>6, <1>7, <2>1
  <2>2. CASE v # w
    BY <1>2, <1>3, <1>4, <1>5, <1>7, <1>8, <2>2 DEF RunOnce, Runs
  <2> QED  BY <2>1, <2>2
<1>9. ASSUME NEW i \in DOMAIN started'
      PROVE  \/ runs'[started'[i]] = 1
             \/ \E v \in Worker : pc'[v] = "run" /\ holding'[v] = started'[i]
  <2>1. CASE i = Len(started) + 1  BY <1>3, <1>5, <2>1
  <2>2. CASE i # Len(started) + 1
    <3>1. i \in DOMAIN started /\ started'[i] = started[i]  BY <1>3, <2>2
    <3> QED  BY <1>2, <1>4, <3>1 DEF RunOnce, Runs
  <2> QED  BY <2>1, <2>2
<1>10. \A t \in Task : runs'[t] # 0 => \E i \in DOMAIN started' : started'[i] = t
  BY <1>2, <1>3 DEF RunOnce
<1> QED  BY <1>2, <1>8, <1>9, <1>10 DEF RunOnce, Runs

LEMMA RunOnceRun ==
  ASSUME Typed, RunOnce, NEW w \in Worker, Run(w)
  PROVE  RunOnce'
<1> DEFINE h == holding[w]
<1> USE DEF history
<1>T. TypeOK  BY DEF Typed
<1>1. h \in Task /\ runs[h] = 0 /\ \E i \in DOMAIN started : started[i] = h
  BY DEF Run, Typed, HoldingTask, RunOnce
<1>2. /\ runs'[h] = 1
      /\ \A t \in Task : t # h => runs'[t] = runs[t]
      /\ UNCHANGED <<started, accepted>>
  BY <1>T, <1>1 DEF Run, TypeOK
<1>3. /\ pc'[w] # "run"
      /\ \A v \in Worker : v # w => pc'[v] = pc[v] /\ holding'[v] = holding[v]
  BY <1>T DEF Run, TypeOK
<1>4. \A v \in Worker : v # w /\ pc[v] = "run" => holding[v] # h /\ holding[v] \in Task
  BY DEF Run, RunOnce, Runs, Typed, HoldingTask
<1>5. \A i \in DOMAIN started : started[i] \in Task
  BY <1>T, ElementOfSeq, LenProperties DEF TypeOK
<1>6. ASSUME NEW v \in Worker, pc'[v] = "run"
      PROVE  /\ \E i \in DOMAIN started' : started'[i] = holding'[v]
             /\ runs'[holding'[v]] = 0
             /\ \A u \in Worker : pc'[u] = "run" /\ holding'[u] = holding'[v] => u = v
  BY <1>2, <1>3, <1>4, <1>6 DEF RunOnce, Runs
<1>7. ASSUME NEW i \in DOMAIN started'
      PROVE  \/ runs'[started'[i]] = 1
             \/ \E v \in Worker : pc'[v] = "run" /\ holding'[v] = started'[i]
  BY <1>2, <1>3, <1>5 DEF RunOnce, Runs
<1>8. \A t \in Task : runs'[t] # 0 => \E i \in DOMAIN started' : started'[i] = t
  BY <1>1, <1>2 DEF RunOnce
<1> QED  BY <1>2, <1>6, <1>7, <1>8 DEF RunOnce, Runs

LEMMA RunOnceStep ==
  ASSUME Typed, Lifecycle, Ordered, RunOnce, [Next]_vars
  PROVE  RunOnce'
<1> USE DEF poolVars, queueVars, history
<1>T. TypeOK  BY DEF Typed
<1>1. CASE Spawn
  BY <1>T, <1>1, RunOnceStable, NumThreadsAssumption DEF Spawn, Lifecycle, TypeOK, Worker
<1>2. CASE CreateReturns \/ SpawnFails \/ FailFree \/ DestroyFree
  BY <1>2, RunOnceStable DEF CreateReturns, SpawnFails, FailFree, DestroyFree
<1>3. CASE FailBroadcast \/ Destroy
  <2>1. Wakes  BY <1>T, <1>3, WokenType DEF FailBroadcast, Destroy
  <2> QED  BY <1>3, <2>1, RunOnceStable DEF FailBroadcast, Destroy, Wakes
<1>4. ASSUME NEW t \in Task, Refuse(t) PROVE RunOnce'
  BY <1>4, RunOnceStable DEF Refuse
<1>5. ASSUME NEW w \in Worker, GoToSleep(w) \/ Sleep(w) \/ SpuriousWakeup(w) \/ Exit(w)
      PROVE  RunOnce'
  <2>1. \A v \in Worker : pc[v] = "run" <=> pc'[v] = "run"
    BY <1>T, <1>5 DEF GoToSleep, Sleep, SpuriousWakeup, Exit, TypeOK
  <2> QED  BY <1>5, <2>1, RunOnceStable DEF GoToSleep, Sleep, SpuriousWakeup, Exit
<1>6. ASSUME NEW w \in Worker, Push(w) PROVE RunOnce'
  BY <1>T, <1>6, RunOnceStable DEF Push, TypeOK
<1>7. ASSUME NEW p \in Poller, PollTake(p) \/ PollCallback(p) PROVE RunOnce'
  BY <1>7, RunOnceStable DEF PollTake, PollCallback
<1>8. CASE UNCHANGED vars  BY <1>8, RunOnceStable DEF vars
<1> QED  BY <1>1, <1>2, <1>3, <1>4, <1>5, <1>6, <1>7, <1>8,
            RunOnceSubmit, RunOnceTake, RunOnceRun
         DEF Next, Owner, WorkerStep, PollerStep

-----------------------------------------------------------------------------
(* The way to the callback *)

\* HandedOn speaks of the pushing workers, the completions and the pollers alone.
LEMMA HandedOnStable ==
  ASSUME HandedOn, UNCHANGED <<completions, polling, runs, deliveries>>,
         \A w \in Worker : pc[w] = "push" <=> pc'[w] = "push",
         \A w \in Worker : pc[w] = "push" => holding'[w] = holding[w],
         Usable => Usable'
  PROVE  HandedOn'
  BY DEF HandedOn, Outstanding

LEMMA HandedOnRun ==
  ASSUME Typed, RunOnce, HandedOn, NEW w \in Worker, Run(w)
  PROVE  HandedOn'
<1> DEFINE h == holding[w]
<1> USE DEF poolVars, queueVars
<1>T. TypeOK  BY DEF Typed
<1>1. h \in Task /\ runs[h] = 0 /\ deliveries[h] = 0
  BY DEF Run, Typed, HoldingTask, RunOnce, HandedOn
<1>2. /\ runs'[h] = 1
      /\ \A t \in Task : t # h => runs'[t] = runs[t]
      /\ UNCHANGED <<completions, polling, deliveries, stage>>
  BY <1>T, <1>1 DEF Run, TypeOK
<1>3. /\ \A v \in Worker : v # w => pc'[v] = pc[v] /\ holding'[v] = holding[v]
      /\ pc'[w] = "push" => h \in Callback /\ holding'[w] = h
  BY <1>T DEF Run, TypeOK
<1>4. /\ \A v \in Worker : pc[v] = "push" => holding[v] # h /\ holding[v] \in Task
      /\ \A i \in DOMAIN completions : completions[i] # h /\ completions[i] \in Task
      /\ \A p \in Poller : polling[p] # h /\ (polling[p] # None => polling[p] \in Task)
  <2>1. \A t : Outstanding(t) => t # h  BY <1>1 DEF Outstanding
  <2>2. \A p \in Poller : polling[p] # h  BY <1>1, <2>1, TaskAssumption DEF HandedOn
  <2>3. \A i \in DOMAIN completions : completions[i] \in Task
    BY <1>T, ElementOfSeq, LenProperties DEF TypeOK
  <2> QED  BY <1>T, <2>1, <2>2, <2>3 DEF HandedOn, Typed, HoldingTask, TypeOK
<1>5. \A t \in Task : (t = h /\ h \in Callback) \/ (t # h /\ Outstanding(t)) => Outstanding(t)'
  BY <1>1, <1>2 DEF Outstanding
<1>6. \A t \in Task : runs'[t] = 0 => deliveries'[t] = 0  BY <1>2 DEF HandedOn
<1>7. ASSUME NEW v \in Worker, pc'[v] = "push"
      PROVE  /\ Outstanding(holding[v])'
             /\ \A u \in Worker : pc'[u] = "push" /\ holding'[u] = holding'[v] => u = v
             /\ \A i \in DOMAIN completions' : completions'[i] # holding'[v]
             /\ \A p \in Poller : polling'[p] # holding'[v]
  <2>1. CASE v = w
    <3>1. holding'[v] = h /\ h \in Callback  BY <1>3, <1>7, <2>1
    <3>2. Outstanding(holding[v])'  BY <1>1, <1>5, <3>1 DEF Outstanding
    <3> QED  BY <1>2, <1>3, <1>4, <2>1, <3>1, <3>2
  <2>2. CASE v # w
    <3>1. pc[v] = "push" /\ holding'[v] = holding[v] /\ holding[v] \in Task /\ holding[v] # h
      BY <1>3, <1>4, <1>7, <2>2
    <3>2. Outstanding(holding[v])'  BY <1>5, <3>1 DEF HandedOn, Outstanding
    <3> QED  BY <1>2, <1>3, <3>1, <3>2 DEF HandedOn
  <2> QED  BY <2>1, <2>2
<1>8. ASSUME NEW i \in DOMAIN completions'
      PROVE  Outstanding(completions[i])'
  BY <1>2, <1>4, <1>5 DEF HandedOn, Outstanding
<1>9. ASSUME NEW p \in Poller, polling'[p] # None
      PROVE  Outstanding(polling[p])'
  BY <1>2, <1>4, <1>5, <1>9 DEF HandedOn, Outstanding
<1> QED  BY <1>2, <1>6, <1>7, <1>8, <1>9 DEF HandedOn, Usable

LEMMA HandedOnPush ==
  ASSUME Typed, HandedOn, NEW w \in Worker, Push(w)
  PROVE  HandedOn'
<1> DEFINE h == holding[w]  n == Len(completions)
<1> USE DEF poolVars, history
<1>T. TypeOK  BY DEF Typed
<1>1. /\ UNCHANGED <<runs, deliveries, polling, stage>>
      /\ completions' = Append(completions, h) /\ h \in Task
      /\ Outstanding(h) /\ \A p \in Poller : polling[p] # h
      /\ \A i \in DOMAIN completions : completions[i] # h
  BY DEF Push, Typed, HoldingTask, HandedOn
<1>2. /\ DOMAIN completions = 1 .. n /\ n \in Nat
      /\ DOMAIN completions' = 1 .. n + 1
      /\ \A i \in DOMAIN completions : completions'[i] = completions[i]
      /\ completions'[n + 1] = h
  <2>1. completions \in Seq(Task)  BY <1>T DEF TypeOK
  <2>2. DOMAIN completions = 1 .. n /\ n \in Nat  BY <2>1, LenProperties
  <2>3. /\ Append(completions, h) \in Seq(Task)
        /\ Len(Append(completions, h)) = n + 1
        /\ \A i \in 1 .. n : Append(completions, h)[i] = completions[i]
        /\ Append(completions, h)[n + 1] = h
    BY <1>1, <2>1, AppendProperties
  <2>4. DOMAIN Append(completions, h) = 1 .. n + 1  BY <2>3, LenProperties
  <2> QED  BY <1>1, <2>2, <2>3, <2>4
<1>3. /\ pc'[w] # "push"
      /\ \A v \in Worker : v # w => pc'[v] = pc[v] /\ holding'[v] = holding[v]
  BY <1>T DEF Push, TypeOK
<1>4. \A t : Outstanding(t) => Outstanding(t)'  BY <1>1 DEF Outstanding
<1>5. ASSUME NEW v \in Worker, pc'[v] = "push"
      PROVE  /\ Outstanding(holding[v])'
             /\ \A u \in Worker : pc'[u] = "push" /\ holding'[u] = holding'[v] => u = v
             /\ \A i \in DOMAIN completions' : completions'[i] # holding'[v]
             /\ \A p \in Poller : polling'[p] # holding'[v]
  <2>1. v # w /\ pc[v] = "push" /\ holding'[v] = holding[v]  BY <1>3, <1>5
  <2>2. holding[v] # h  BY <2>1 DEF Push, HandedOn
  <2>3. Outstanding(holding[v])'  BY <1>4, <2>1 DEF HandedOn, Outstanding
  <2>4. \A i \in DOMAIN completions' : completions'[i] # holding[v]
    BY <1>2, <2>1, <2>2 DEF HandedOn
  <2> QED  BY <1>1, <1>3, <2>1, <2>3, <2>4 DEF HandedOn
<1>6. ASSUME NEW i \in DOMAIN completions'
      PROVE  /\ Outstanding(completions[i])'
             /\ \A j \in DOMAIN completions' : completions'[j] = completions'[i] => j = i
             /\ \A p \in Poller : polling'[p] # completions'[i]
  <2>1. CASE i = n + 1
    <3>1. Outstanding(completions[i])'  BY <1>1, <1>2, <1>4, <2>1 DEF Outstanding
    <3> QED  BY <1>1, <1>2, <2>1, <3>1
  <2>2. CASE i \in DOMAIN completions
    <3>1. Outstanding(completions[i])'  BY <1>2, <1>4, <2>2 DEF HandedOn, Outstanding
    <3> QED  BY <1>1, <1>2, <2>2, <3>1 DEF HandedOn
  <2> QED  BY <1>2, <2>1, <2>2
<1> QED  BY <1>1, <1>5, <1>6 DEF HandedOn, Outstanding, Usable

LEMMA HandedOnPollTake ==
  ASSUME Typed, HandedOn, NEW p \in Poller, PollTake(p)
  PROVE  HandedOn'
<1> DEFINE h == Head(completions)  n == Len(completions)
<1> USE DEF poolVars, history
<1>T. TypeOK  BY DEF Typed
<1>1. /\ UNCHANGED <<runs, deliveries, stage, pc, holding>>
      /\ polling' = [polling EXCEPT ![p] = h]
      /\ completions' = Tail(completions) /\ completions # << >>
  BY DEF PollTake
<1>2. /\ n \in Nat \ {0} /\ h = completions[1] /\ h \in Task
      /\ DOMAIN completions = 1 .. n
      /\ DOMAIN completions' = 1 .. n - 1
      /\ \A i \in 1 .. n - 1 : completions'[i] = completions[i + 1]
  <2>1. completions \in Seq(Task)  BY <1>T DEF TypeOK
  <2>2. n \in Nat \ {0} /\ h = completions[1] /\ h \in Task
    BY <1>1, <2>1, HeadTailProperties, TailType
  <2>3. Tail(completions) \in Seq(Task) /\ Len(Tail(completions)) = n - 1
        /\ \A i \in 1 .. n - 1 : Tail(completions)[i] = completions[i + 1]
    BY <1>1, <2>1, HeadTailProperties
  <2> QED  BY <1>1, <2>1, <2>2, <2>3, LenProperties
<1>3. \A i \in DOMAIN completions' :
        /\ i + 1 \in DOMAIN completions /\ completions'[i] = completions[i + 1]
        /\ i \in Nat /\ i + 1 # 1
  BY <1>2
<1>4. 1 \in DOMAIN completions  BY <1>2
<1>5. /\ polling'[p] = h
      /\ \A q \in Poller : q # p => polling'[q] = polling[q] /\ polling[q] # h
  <2>1. polling \in [Poller -> Task \cup {None}]  BY <1>T DEF TypeOK
  <2>2. \A q \in Poller : polling[q] # h  BY <1>2, <1>4 DEF HandedOn
  <2> QED  BY <1>1, <2>1, <2>2
<1>6. Outstanding(h) /\ \A t : Outstanding(t) => Outstanding(t)'
  BY <1>1, <1>2, <1>4 DEF Outstanding, HandedOn
<1>7. ASSUME NEW v \in Worker, pc'[v] = "push"
      PROVE  /\ Outstanding(holding[v])'
             /\ \A i \in DOMAIN completions' : completions'[i] # holding'[v]
             /\ \A q \in Poller : polling'[q] # holding'[v]
  <2>1. pc[v] = "push" /\ holding'[v] = holding[v]  BY <1>1, <1>7
  <2>2. Outstanding(holding[v])'  BY <1>6, <2>1 DEF HandedOn, Outstanding
  <2>3. holding[v] # h  BY <1>2, <1>4, <2>1 DEF HandedOn
  <2> QED  BY <1>3, <1>5, <2>1, <2>2, <2>3 DEF HandedOn
<1>8. ASSUME NEW i \in DOMAIN completions'
      PROVE  /\ Outstanding(completions[i])'
             /\ \A j \in DOMAIN completions' : completions'[j] = completions'[i] => j = i
             /\ \A q \in Poller : polling'[q] # completions'[i]
  <2>1. Outstanding(completions[i])'  BY <1>3, <1>6 DEF HandedOn, Outstanding
  <2>2. \A j \in DOMAIN completions' : completions'[j] = completions'[i] => j = i
    BY <1>3 DEF HandedOn
  <2>3. completions'[i] # h  BY <1>2, <1>3, <1>4 DEF HandedOn
  <2> QED  BY <1>3, <1>5, <2>1, <2>2, <2>3 DEF HandedOn
<1>9. ASSUME NEW q \in Poller, polling'[q] # None
      PROVE  /\ Outstanding(polling[q])'
             /\ \A r \in Poller : polling'[r] = polling'[q] => r = q
  BY <1>5, <1>6, <1>9 DEF HandedOn, Outstanding
<1>10. Usable /\ Usable'  BY <1>1 DEF PollTake, Usable
<1> QED  BY <1>1, <1>7, <1>8, <1>9, <1>10 DEF HandedOn, Outstanding

LEMMA HandedOnCallback ==
  ASSUME Typed, HandedOn, NEW p \in Poller, PollCallback(p)
  PROVE  HandedOn'
<1> DEFINE h == polling[p]
<1> USE DEF poolVars, queueVars
<1>T. TypeOK  BY DEF Typed
<1>1. /\ UNCHANGED <<runs, completions, stage, pc, holding>>
      /\ h # None /\ h \in Task /\ Outstanding(h)
      /\ \A t \in Task : t # h => deliveries'[t] = deliveries[t]
      /\ polling'[p] = None
      /\ \A q \in Poller : q # p => polling'[q] = polling[q]
  BY <1>T DEF PollCallback, HandedOn, TypeOK
<1>2. \A t \in Task : t # h /\ Outstanding(t) => Outstanding(t)'
  BY <1>1 DEF Outstanding
<1>3. /\ \A v \in Worker : pc[v] = "push" => holding[v] \in Task /\ holding[v] # h
      /\ \A i \in DOMAIN completions : completions[i] \in Task /\ completions[i] # h
      /\ \A q \in Poller : q # p => polling[q] # h
  <2>1. \A i \in DOMAIN completions : completions[i] \in Task
    BY <1>T, ElementOfSeq, LenProperties DEF TypeOK
  <2> QED  BY <1>1, <2>1 DEF HandedOn, Typed, HoldingTask
<1>4. \A t \in Task : runs'[t] = 0 => deliveries'[t] = 0
  BY <1>1 DEF HandedOn, Outstanding
<1>5. \A v \in Worker : pc'[v] = "push" => Outstanding(holding[v])'
  BY <1>1, <1>2, <1>3 DEF HandedOn, Outstanding
<1>6. \A i \in DOMAIN completions' : Outstanding(completions[i])'
  BY <1>1, <1>2, <1>3 DEF HandedOn, Outstanding
<1>7. ASSUME NEW q \in Poller, polling'[q] # None
      PROVE  Outstanding(polling[q])'
  <2>1. q # p /\ polling'[q] = polling[q] /\ polling[q] # h  BY <1>1, <1>3, <1>7
  <2>2. Outstanding(polling[q]) /\ polling[q] \in Task  BY <1>T, <1>7, <2>1 DEF HandedOn, TypeOK
  <2>3. \A t \in Task : t = polling[q] => Outstanding(t)'  BY <1>2, <2>1, <2>2
  <2> QED  BY <2>1, <2>2, <2>3 DEF Outstanding
<1>8. \A v \in Worker : pc'[v] = "push" => holding'[v] # None
  BY <1>1, <1>3, TaskAssumption
<1>9. \A i \in DOMAIN completions' : completions'[i] # None
  BY <1>1, <1>3, TaskAssumption
<1> QED  BY <1>1, <1>4, <1>5, <1>6, <1>7, <1>8, <1>9 DEF HandedOn, Usable

LEMMA HandedOnStep ==
  ASSUME Typed, Lifecycle, RunOnce, HandedOn, [Next]_vars
  PROVE  HandedOn'
<1> USE DEF poolVars, queueVars, history
<1>T. TypeOK  BY DEF Typed
<1>1. CASE Spawn
  BY <1>T, <1>1, HandedOnStable, NumThreadsAssumption
  DEF Spawn, Lifecycle, TypeOK, Worker, Usable
<1>2. CASE CreateReturns \/ SpawnFails \/ FailFree
  BY <1>2, HandedOnStable DEF CreateReturns, SpawnFails, FailFree, Usable
<1>3. CASE FailBroadcast \/ Destroy
  <2>1. Wakes  BY <1>T, <1>3, WokenType DEF FailBroadcast, Destroy
  <2> QED  BY <1>3, <2>1, HandedOnStable DEF FailBroadcast, Destroy, Wakes, Usable
<1>4. CASE DestroyFree
  <2>1. \A w \in Worker : pc'[w] = "exited"  BY <1>4, NothingLeft DEF DestroyFree
  <2>2. DOMAIN completions' = {}  BY <1>4 DEF DestroyFree
  <2> QED  BY <1>4, <2>1, <2>2 DEF DestroyFree, HandedOn
<1>5. ASSUME NEW t \in Task, Submit(t) PROVE HandedOn'
  <2>1. Wakes  BY <1>T, <1>5, SignalType DEF Submit
  <2> QED  BY <1>5, <2>1, HandedOnStable DEF Submit, Wakes, Usable
<1>6. ASSUME NEW t \in Task, Refuse(t) PROVE HandedOn'
  BY <1>6, HandedOnStable DEF Refuse, Usable
<1>7. ASSUME NEW w \in Worker,
             GoToSleep(w) \/ Sleep(w) \/ SpuriousWakeup(w) \/ Exit(w) \/ Take(w)
      PROVE  HandedOn'
  <2>1. \A v \in Worker : /\ pc[v] = "push" <=> pc'[v] = "push"
                          /\ pc[v] = "push" => holding'[v] = holding[v]
    BY <1>T, <1>7 DEF GoToSleep, Sleep, SpuriousWakeup, Exit, Take, TypeOK
  <2> QED  BY <1>7, <2>1, HandedOnStable
           DEF GoToSleep, Sleep, SpuriousWakeup, Exit, Take, Usable
<1>8. CASE UNCHANGED vars  BY <1>8, HandedOnStable DEF vars, Usable
<1> QED  BY <1>1, <1>2, <1>3, <1>4, <1>5, <1>6, <1>7, <1>8,
            HandedOnRun, HandedOnPush, HandedOnPollTake, HandedOnCallback
         DEF Next, Owner, WorkerStep, PollerStep

\* The inductive invariant, which TLC also checks on the small instance.
THEOREM Inductive == Spec => []IInv
<1>1. Init => RunOnce /\ HandedOn /\ NoLostWakeup
  BY EmptySeq DEF Init, RunOnce, HandedOn, NoLostWakeup
<1>2. Init => IInv  BY <1>1, TypedInit, LifecycleInit, OrderedInit DEF IInv
<1>3. IInv /\ [Next]_vars => IInv'
  BY TypesStep, HoldingStep, LifecycleStep, OrderedStep, AttendedStep, RunOnceStep,
     HandedOnStep
  DEF IInv, Typed
<1> QED  BY <1>2, <1>3, PTL DEF Spec

\* thread_pool_destroy drains: the pool is freed only after every task that submit
\* accepted has run, exactly once.
THEOREM Drains == Spec => []DestroyDrains
<1>1. IInv => DestroyDrains
  <2> SUFFICES ASSUME IInv, stage = "freed", NEW t \in Task, IsAccepted(t)
               PROVE  runs[t] = 1
    BY DEF DestroyDrains
  <2>1. queue = << >> /\ \A w \in Worker : pc[w] # "run"
    BY DEF IInv, Lifecycle
  <2>2. accepted = started  BY <2>1, ConcatEmptySeq DEF IInv, Ordered, Typed, TypeOK
  <2> QED  BY <2>1, <2>2 DEF IInv, RunOnce, Runs, IsAccepted
<1> QED  BY <1>1, Inductive, PTL

-----------------------------------------------------------------------------
(* The refinement of TaskService *)

Queued(t) == \E i \in DOMAIN queue : queue[i] = t
Begun(t) == \E i \in DOMAIN started : started[i] = t

\* The accepted tasks are the started and the queued ones, none is both, and none
\* is queued twice.
LEMMA Acceptance ==
  ASSUME IInv
  PROVE  /\ \A t \in Task : IsAccepted(t) <=> Begun(t) \/ Queued(t)
         /\ \A t \in Task : Begun(t) => ~Queued(t)
         /\ \A i, j \in DOMAIN queue : queue[i] = queue[j] => i = j
<1> DEFINE m == Len(started)  n == Len(queue)
<1>1. started \in Seq(Task) /\ queue \in Seq(Task)  BY DEF IInv, Typed, TypeOK
<1>2. /\ DOMAIN started = 1 .. m /\ m \in Nat
      /\ DOMAIN queue = 1 .. n /\ n \in Nat
  BY <1>1, LenProperties
<1>3. /\ DOMAIN accepted = 1 .. m + n
      /\ \A i \in 1 .. m : accepted[i] = started[i]
      /\ \A i \in 1 .. n : accepted[m + i] = queue[i]
  <2>1. /\ started \o queue \in Seq(Task) /\ Len(started \o queue) = m + n
        /\ \A i \in 1 .. m + n :
             (started \o queue)[i] = IF i <= m THEN started[i] ELSE queue[i - m]
    BY <1>1, ConcatProperties
  <2>2. DOMAIN (started \o queue) = 1 .. m + n  BY <2>1, LenProperties
  <2> QED  BY <1>2, <2>1, <2>2 DEF IInv, Ordered
<1>4. \A i, j \in 1 .. m + n : accepted[i] = accepted[j] => i = j
  BY <1>3 DEF IInv, RunOnce
<1>5. \A i \in 1 .. n : m + i \in 1 .. m + n  BY <1>2
<1>6. \A i \in 1 .. m : i \in 1 .. m + n  BY <1>2
<1>7. ASSUME NEW t \in Task, IsAccepted(t) PROVE Begun(t) \/ Queued(t)
  <2>1. PICK i \in 1 .. m + n : accepted[i] = t  BY <1>3, <1>7 DEF IsAccepted
  <2>2. CASE i <= m
    <3>1. i \in DOMAIN started /\ started[i] = t  BY <1>2, <1>3, <2>1, <2>2
    <3> QED  BY <3>1 DEF Begun
  <2>3. CASE i > m
    <3>1. i - m \in 1 .. n /\ m + (i - m) = i  BY <1>2, <2>3
    <3>2. queue[i - m] = t  BY <1>3, <2>1, <3>1
    <3> QED  BY <1>2, <3>1, <3>2 DEF Queued
  <2> QED  BY <1>2, <2>2, <2>3
<1>8. ASSUME NEW t \in Task, Begun(t) \/ Queued(t) PROVE IsAccepted(t)
  BY <1>2, <1>3, <1>5, <1>6, <1>8 DEF IsAccepted, Begun, Queued
<1>9. ASSUME NEW i \in 1 .. m, NEW j \in 1 .. n PROVE started[i] # queue[j]
  <2>1. i # m + j  BY <1>2
  <2> QED  BY <1>3, <1>4, <1>5, <1>6, <2>1
<1>10. ASSUME NEW i \in 1 .. n, NEW j \in 1 .. n, queue[i] = queue[j] PROVE i = j
  <2>1. m + i = m + j  BY <1>3, <1>4, <1>5, <1>10
  <2> QED  BY <1>2, <2>1
<1> QED  BY <1>2, <1>7, <1>8, <1>9, <1>10 DEF Begun, Queued

\* Where each task is in its life, by what the pool knows of it.
LEMMA LifeIs ==
  ASSUME IInv, NEW t \in Task
  PROVE  /\ ~IsAccepted(t) => Life(t) = "new"
         /\ Queued(t) => Life(t) = "queued" /\ runs[t] = 0
         /\ Begun(t) /\ runs[t] = 0 => Life(t) = "running"
         /\ Outstanding(t) => Life(t) = IF stage = "freed" THEN "dropped" ELSE "finished"
         /\ runs[t] = 1 /\ ~Outstanding(t) => Life(t) = "done"
         /\ runs[t] \in {0, 1}
         /\ IsAccepted(t) <=> Begun(t) \/ Queued(t)
         /\ Begun(t) => ~Queued(t)
         /\ runs[t] = 1 => Begun(t)
<1>1. /\ IsAccepted(t) <=> Begun(t) \/ Queued(t)
      /\ Begun(t) => ~Queued(t)
  BY Acceptance
<1>2. runs[t] # 0 => Begun(t)  BY DEF IInv, RunOnce, Begun
<1>3. runs[t] \in {0, 1}
  <2>1. CASE ~Begun(t)  BY <1>2, <2>1
  <2>2. CASE Begun(t)  BY <2>2 DEF IInv, RunOnce, Runs, Begun
  <2> QED  BY <2>1, <2>2
<1>4. deliveries[t] \in Nat  BY DEF IInv, Typed, TypeOK
<1> QED  BY <1>1, <1>2, <1>3, <1>4 DEF Life, Queued, Outstanding

\* A step that touches none of this is no step of the service, or closes it.
LEMMA LifeStable ==
  ASSUME UNCHANGED <<queue, accepted, runs, deliveries>>, stage = "freed" <=> stage' = "freed"
  PROVE  \A t \in Task : Life(t)' = Life(t)
  BY DEF Life, IsAccepted

\* One task moves on in its life.
Moves(t, phase) == \A u \in Task : Life(u)' = IF u = t THEN phase ELSE Life(u)

LEMMA SubmitAccepts ==
  ASSUME IInv, NEW t \in Task, Submit(t)
  PROVE  Abs!Accept(t)
<1> USE DEF poolVars
<1>T. queue \in Seq(Task) /\ accepted \in Seq(Task)  BY DEF IInv, Typed, TypeOK
<1>1. \A u \in Task : /\ Queued(u)' <=> Queued(u) \/ u = t
                      /\ IsAccepted(u)' <=> IsAccepted(u) \/ u = t
  <2>1. ASSUME NEW s \in Seq(Task)
        PROVE  /\ DOMAIN s = 1 .. Len(s) /\ Len(s) \in Nat
               /\ DOMAIN Append(s, t) = 1 .. Len(s) + 1
               /\ \A i \in 1 .. Len(s) : Append(s, t)[i] = s[i]
               /\ Append(s, t)[Len(s) + 1] = t
    <3>1. Append(s, t) \in Seq(Task) /\ Len(Append(s, t)) = Len(s) + 1
      BY AppendProperties
    <3> QED  BY <3>1, AppendProperties, LenProperties
  <2>2. queue' = Append(queue, t) /\ accepted' = Append(accepted, t)  BY DEF Submit
  <2>3. ASSUME NEW s \in Seq(Task), NEW u
        PROVE  (\E i \in DOMAIN Append(s, t) : Append(s, t)[i] = u)
                 <=> (\E i \in DOMAIN s : s[i] = u) \/ u = t
    BY <2>1
  <2>4. \A u \in Task : Queued(u)' <=> Queued(u) \/ u = t
    BY <1>T, <2>2, <2>3 DEF Queued
  <2>5. \A u \in Task : IsAccepted(u)' <=> IsAccepted(u) \/ u = t
    BY <1>T, <2>2, <2>3 DEF IsAccepted
  <2> QED  BY <2>4, <2>5
<1>2. ~IsAccepted(t)  BY DEF Submit, Fresh, IsAccepted
<1>3. Life(t) = "new" /\ runs[t] = 0  BY <1>2, LifeIs
<1>4. Moves(t, "queued")
  <2> SUFFICES ASSUME NEW u \in Task PROVE Life(u)' = IF u = t THEN "queued" ELSE Life(u)
    BY DEF Moves
  <2>1. UNCHANGED <<stage, runs, deliveries>>  BY DEF Submit
  <2>2. CASE u = t  BY <1>1, <1>3, <2>1, <2>2 DEF Life, Queued
  <2>3. CASE u # t
    <3>1. (Queued(u)' <=> Queued(u)) /\ (IsAccepted(u)' <=> IsAccepted(u))  BY <1>1, <2>3
    <3> QED  BY <2>1, <2>3, <3>1 DEF Life, Queued
  <2> QED  BY <2>2, <2>3
<1> QED  BY <1>3, <1>4 DEF Submit, Moves, Abs!Accept

LEMMA TakeStarts ==
  ASSUME IInv, NEW w \in Worker, Take(w)
  PROVE  Abs!Start(Head(queue)) /\ Head(queue) \in Task
<1> DEFINE n == Len(queue)
<1> USE DEF poolVars
<1>1. PICK h \in Task : h = Head(queue)
  BY TailType DEF Take, IInv, Typed, TypeOK
<1>2. /\ n \in Nat \ {0} /\ h = queue[1]
      /\ DOMAIN queue = 1 .. n
      /\ DOMAIN queue' = 1 .. n - 1
      /\ \A i \in 1 .. n - 1 : queue'[i] = queue[i + 1]
  <2>1. queue \in Seq(Task) /\ queue # << >> /\ queue' = Tail(queue)
    BY DEF Take, IInv, Typed, TypeOK
  <2>2. /\ n \in Nat \ {0} /\ h = queue[1] /\ Tail(queue) \in Seq(Task)
        /\ Len(Tail(queue)) = n - 1
        /\ \A i \in 1 .. n - 1 : Tail(queue)[i] = queue[i + 1]
    BY <1>1, <2>1, HeadTailProperties, TailType
  <2> QED  BY <2>1, <2>2, LenProperties
<1>3. \A i, j \in DOMAIN queue : queue[i] = queue[j] => i = j  BY Acceptance
<1>4. \A u \in Task : Queued(u)' <=> Queued(u) /\ u # h
  <2>1. ASSUME NEW i \in DOMAIN queue' PROVE queue'[i] # h /\ i + 1 \in DOMAIN queue
    <3>1. i + 1 \in DOMAIN queue /\ 1 \in DOMAIN queue /\ i + 1 # 1  BY <1>2
    <3> QED  BY <1>2, <1>3, <3>1
  <2>2. ASSUME NEW i \in DOMAIN queue, queue[i] # h
        PROVE  i - 1 \in DOMAIN queue' /\ queue'[i - 1] = queue[i]
    <3>1. i # 1 /\ i \in 1 .. n  BY <1>2, <2>2
    <3>2. i - 1 \in 1 .. n - 1 /\ (i - 1) + 1 = i  BY <1>2, <3>1
    <3> QED  BY <1>2, <3>2
  <2> QED  BY <1>2, <2>1, <2>2 DEF Queued
<1>5. Queued(h)  BY <1>2 DEF Queued
<1>6. Life(h) = "queued" /\ runs[h] = 0 /\ IsAccepted(h)  BY <1>5, LifeIs
<1>7. UNCHANGED <<stage, accepted, runs, deliveries>>  BY DEF Take
<1>8. Moves(h, "running")
  <2> SUFFICES ASSUME NEW u \in Task PROVE Life(u)' = IF u = h THEN "running" ELSE Life(u)
    BY DEF Moves
  <2>1. IsAccepted(u)' <=> IsAccepted(u)  BY <1>7 DEF IsAccepted
  <2>2. CASE u = h  BY <1>4, <1>6, <1>7, <2>1, <2>2 DEF Life, Queued
  <2>3. CASE u # h
    <3>1. Queued(u)' <=> Queued(u)  BY <1>4, <2>3
    <3> QED  BY <1>7, <2>1, <2>3, <3>1 DEF Life, Queued
  <2> QED  BY <2>2, <2>3
<1>9. Abs!Start(h)  BY <1>1, <1>6, <1>8 DEF Take, Moves, Abs!Start
<1> QED  BY <1>1, <1>9

LEMMA RunFinishes ==
  ASSUME IInv, NEW w \in Worker, Run(w)
  PROVE  Abs!Finish(holding[w]) /\ holding[w] \in Task
<1> USE DEF poolVars, queueVars
<1>1. PICK h \in Task : h = holding[w]  BY DEF Run, IInv, Typed, HoldingTask
<1>2. Begun(h) /\ runs[h] = 0 /\ deliveries[h] = 0 /\ stage # "freed"
  BY <1>1 DEF Run, IInv, RunOnce, HandedOn, Lifecycle, Begun
<1>3. Life(h) = "running"  BY <1>2, LifeIs
<1>4. /\ UNCHANGED <<stage, queue, accepted, deliveries>>
      /\ runs' = [runs EXCEPT ![h] = @ + 1]
      /\ runs \in [Task -> Nat]
  BY <1>1 DEF Run, IInv, Typed, TypeOK
<1>5. Moves(h, IF h \in Callback THEN "finished" ELSE "done")
  <2> SUFFICES ASSUME NEW u \in Task
               PROVE  Life(u)' = IF u = h THEN IF h \in Callback THEN "finished" ELSE "done"
                                 ELSE Life(u)
    BY DEF Moves
  <2>1. (IsAccepted(u)' <=> IsAccepted(u)) /\ (Queued(u)' <=> Queued(u))
    BY <1>4 DEF IsAccepted, Queued
  <2>2. CASE u = h
    <3>1. IsAccepted(h) /\ ~Queued(h)  BY <1>2, LifeIs
    <3>2. runs'[h] = 1  BY <1>2, <1>4
    <3> QED  BY <1>2, <1>4, <2>1, <2>2, <3>1, <3>2 DEF Life, Queued
  <2>3. CASE u # h
    <3>1. runs'[u] = runs[u]  BY <1>4, <2>3
    <3> QED  BY <1>4, <2>1, <2>3, <3>1 DEF Life, Queued
  <2> QED  BY <2>2, <2>3
<1>6. shutdown' = shutdown  BY DEF Run
<1>7. Abs!Finish(h)  BY <1>3, <1>4, <1>5, <1>6 DEF Moves, Abs!Finish
<1> QED  BY <1>1, <1>7

LEMMA CallbackDelivers ==
  ASSUME IInv, NEW p \in Poller, PollCallback(p)
  PROVE  Abs!Deliver(polling[p]) /\ polling[p] \in Task
<1> USE DEF poolVars, queueVars
<1>1. PICK h \in Task : h = polling[p]
  BY DEF PollCallback, IInv, Typed, TypeOK
<1>2. Outstanding(h) /\ stage # "freed"
  BY <1>1 DEF PollCallback, IInv, HandedOn, Usable
<1>3. Life(h) = "finished" /\ Begun(h) /\ ~Queued(h) /\ IsAccepted(h)
  BY <1>2, LifeIs DEF Outstanding
<1>4. /\ UNCHANGED <<stage, queue, accepted, runs, shutdown>>
      /\ deliveries' = [deliveries EXCEPT ![h] = @ + 1]
      /\ deliveries \in [Task -> Nat]
  BY <1>1 DEF PollCallback, IInv, Typed, TypeOK
<1>5. Moves(h, "done")
  <2> SUFFICES ASSUME NEW u \in Task PROVE Life(u)' = IF u = h THEN "done" ELSE Life(u)
    BY DEF Moves
  <2>1. (IsAccepted(u)' <=> IsAccepted(u)) /\ (Queued(u)' <=> Queued(u))
    BY <1>4 DEF IsAccepted, Queued
  <2>2. CASE u = h
    <3>1. deliveries'[h] = 1 /\ runs'[h] = 1  BY <1>2, <1>4 DEF Outstanding
    <3> QED  BY <1>3, <2>1, <2>2, <3>1 DEF Life, Queued
  <2>3. CASE u # h
    <3>1. deliveries'[u] = deliveries[u]  BY <1>4, <2>3
    <3> QED  BY <1>4, <2>1, <2>3, <3>1 DEF Life, Queued
  <2> QED  BY <2>2, <2>3
<1>6. Abs!Deliver(h)  BY <1>3, <1>4, <1>5 DEF Moves, Abs!Deliver
<1> QED  BY <1>1, <1>6

\* The pool is freed: every accepted task has run, so what is left is dropped.
LEMMA FreeDrops ==
  ASSUME IInv, IInv', stage # "freed", stage' = "freed",
         UNCHANGED <<shutdown, pc, accepted, started, runs, deliveries>>,
         queue = << >>, queue' = << >>
  PROVE  Abs!Drop
<1>1. shutdown  BY DEF IInv, Lifecycle
<1>2. \A w \in Worker : pc[w] # "run"  BY DEF IInv, Lifecycle
<1>3. \A t \in Task : ~Queued(t)  BY DEF Queued
<1>4. \A t \in Task : Begun(t) => runs[t] = 1  BY <1>2 DEF IInv, RunOnce, Runs, Begun
<1>5. ASSUME NEW t \in Task
      PROVE  /\ Life(t) \notin {"queued", "running"}
             /\ Life(t)' = IF Life(t) = "finished" THEN "dropped" ELSE Life(t)
  <2>1. (IsAccepted(t)' <=> IsAccepted(t)) /\ ~Queued(t)'  BY DEF IsAccepted, Queued
  <2>2. CASE ~IsAccepted(t)  BY <2>1, <2>2 DEF Life
  <2>3. CASE IsAccepted(t)
    <3>1. Begun(t) /\ runs[t] = 1  BY <1>3, <1>4, <2>3, LifeIs
    <3> QED  BY <1>3, <2>1, <2>3, <3>1 DEF Life, Queued
  <2> QED  BY <2>2, <2>3
<1> QED  BY <1>1, <1>5 DEF Abs!Drop

\* Every step of the pool is a step of the service or changes nothing it shows.
LEMMA StepImplements ==
  ASSUME IInv, IInv', [Next]_vars
  PROVE  [Abs!Next]_(Abs!absVars)
<1> DEFINE Goal == [Abs!Next]_(Abs!absVars)
<1> USE DEF poolVars, queueVars, history
<1>S. ASSUME UNCHANGED <<queue, accepted, runs, deliveries, shutdown>>,
             stage = "freed" <=> stage' = "freed"
      PROVE  UNCHANGED Abs!absVars
  BY <1>S, LifeStable DEF Abs!absVars
<1>1. CASE Spawn \/ CreateReturns \/ FailBroadcast
  BY <1>S, <1>1 DEF Spawn, CreateReturns, FailBroadcast
<1>2. CASE SpawnFails \/ Destroy
  <2>1. ~shutdown /\ shutdown'  BY <1>2 DEF SpawnFails, Destroy, IInv, Lifecycle
  <2>2. /\ queue' = queue
        /\ \A t \in Task : Life(t)' = Life(t)
    BY <1>2, LifeStable DEF SpawnFails, Destroy
  <2>3. Abs!Close  BY <2>1, <2>2 DEF Abs!Close
  <2> QED  BY <2>3 DEF Abs!Next
<1>3. CASE FailFree \/ DestroyFree
  <2>1. queue = << >> /\ queue' = << >>
    BY <1>3, NothingLeft DEF FailFree, DestroyFree, IInv, Lifecycle, Usable
  <2>2. Abs!Drop  BY <1>3, <2>1, FreeDrops DEF FailFree, DestroyFree
  <2> QED  BY <2>2 DEF Abs!Next
<1>4. ASSUME NEW t \in Task, Submit(t) PROVE Goal
  BY <1>4, SubmitAccepts DEF Abs!Next
<1>5. ASSUME NEW t \in Task, Refuse(t) PROVE Goal
  BY <1>S, <1>5 DEF Refuse
<1>6. ASSUME NEW w \in Worker,
             GoToSleep(w) \/ Sleep(w) \/ SpuriousWakeup(w) \/ Exit(w) \/ Push(w)
      PROVE  Goal
  BY <1>S, <1>6 DEF GoToSleep, Sleep, SpuriousWakeup, Exit, Push
<1>7. ASSUME NEW w \in Worker, Take(w) PROVE Goal
  BY <1>7, TakeStarts DEF Abs!Next
<1>8. ASSUME NEW w \in Worker, Run(w) PROVE Goal
  BY <1>8, RunFinishes DEF Abs!Next
<1>9. ASSUME NEW p \in Poller, PollTake(p) PROVE Goal
  BY <1>S, <1>9 DEF PollTake
<1>10. ASSUME NEW p \in Poller, PollCallback(p) PROVE Goal
  BY <1>10, CallbackDelivers DEF Abs!Next
<1>11. CASE UNCHANGED vars  BY <1>S, <1>11 DEF vars
<1> QED  BY <1>1, <1>2, <1>3, <1>4, <1>5, <1>6, <1>7, <1>8, <1>9, <1>10, <1>11
         DEF Next, Owner, WorkerStep, PollerStep

\* The pool is the service of TaskService: tasks start in the order of acceptance,
\* each runs once, a callback is called at most once and after the run, destroy
\* refuses new tasks, lets the accepted ones run and drops the callbacks left.
THEOREM Implements == Spec => ImplementsService
<1>1. Init => Abs!Init
  BY DEF Init, Abs!Init, Life, IsAccepted
<1>2. IInv /\ IInv' /\ [Next]_vars => [Abs!Next]_(Abs!absVars)
  BY StepImplements
<1> QED  BY <1>1, <1>2, Inductive, PTL DEF Spec, ImplementsService, Abs!Service
=============================================================================
