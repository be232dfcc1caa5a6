------------------------------ MODULE TaskQueue ------------------------------
(***************************************************************************)
(* src/src/vm_task_queue.c: the bounded ring buffer through which threads  *)
(* hand tasks to the main thread.  Every operation here is one critical    *)
(* section of queue->mutex.  A thread and the task it enqueues share one   *)
(* name: no thread has two enqueues in progress.  Nobody ever waits for    *)
(* not_empty, so its signals are left out.                                 *)
(***************************************************************************)
EXTENDS Naturals, Sequences, FiniteSets

CONSTANTS Item,          \* the tasks
          Capacity,      \* queue->capacity
          NoItem         \* what calloc leaves in a slot

ASSUME CapacityAssumption == Capacity \in Nat \ {0}
ASSUME ItemAssumption == NoItem \notin Item

VARIABLES
  tasks,       \* queue->tasks
  head,        \* queue->head
  tail,        \* queue->tail
  count,       \* queue->count
  shutdown,    \* queue->shutdown
  asleep,      \* threads in pthread_cond_(timed)wait on not_full
  enqueued,    \* history: tasks whose enqueue returned true, in order
  processed    \* history: tasks taken by task_queue_process, in order

ringVars == <<tasks, head, tail, count, enqueued, processed>>
queueVars == <<ringVars, shutdown, asleep>>

Slot == 0 .. Capacity - 1

QueueTypeOK ==
  /\ tasks \in [Slot -> Item \cup {NoItem}]
  /\ head \in Slot
  /\ tail \in Slot
  /\ count \in 0 .. Capacity
  /\ shutdown \in BOOLEAN
  /\ asleep \in SUBSET Item
  /\ enqueued \in Seq(Item)
  /\ processed \in Seq(Item)

QueueInit ==
  /\ tasks = [i \in Slot |-> NoItem]
  /\ head = 0
  /\ tail = 0
  /\ count = 0
  /\ shutdown = FALSE
  /\ asleep = {}
  /\ enqueued = << >>
  /\ processed = << >>

Full == count >= Capacity
After(i) == (i + 1) % Capacity

-----------------------------------------------------------------------------
(* task_queue_enqueue and task_queue_enqueue_timeout *)

Put(t) ==
  /\ t \notin asleep
  /\ ~Full /\ ~shutdown
  /\ tasks' = [tasks EXCEPT ![tail] = t]
  /\ tail' = After(tail)
  /\ count' = count + 1
  /\ enqueued' = Append(enqueued, t)
  /\ UNCHANGED <<head, processed, shutdown, asleep>>

WaitNotFull(t) ==
  /\ t \notin asleep
  /\ Full /\ ~shutdown
  /\ asleep' = asleep \cup {t}
  /\ UNCHANGED <<ringVars, shutdown>>

\* A spurious wakeup, or the time limit of the second function, which then gives
\* up without another look at the queue.
StopWaiting(t) ==
  /\ t \in asleep
  /\ asleep' = asleep \ {t}
  /\ UNCHANGED <<ringVars, shutdown>>

Refused(t) ==
  /\ t \notin asleep
  /\ shutdown
  /\ UNCHANGED queueVars

-----------------------------------------------------------------------------
(* One round of task_queue_process, and task_queue_shutdown *)

\* Mutant: the room that was made is kept quiet.
NoSignal == UNCHANGED asleep

SignalNotFull ==
  IF asleep = {} THEN UNCHANGED asleep ELSE \E t \in asleep : asleep' = asleep \ {t}

Pop ==
  /\ count > 0
  /\ head' = After(head)
  /\ count' = count - 1
  /\ processed' = Append(processed, tasks[head])
  /\ SignalNotFull
  /\ UNCHANGED <<tasks, tail, enqueued, shutdown>>

Shutdown ==
  /\ shutdown' = TRUE
  /\ asleep' = {}
  /\ UNCHANGED ringVars

-----------------------------------------------------------------------------
(* Properties of the ring *)

\* The slots from head on, oldest first.
Content == [i \in 1 .. count |-> tasks[(head + i - 1) % Capacity]]

\* Across every wrap of head and tail, the ring holds exactly the tasks that were
\* accepted and not yet taken, in order: none is overwritten, lost or repeated.
RingIsFifo == enqueued = processed \o Content

\* A thread sleeps for room only while the ring is full or another thread,
\* woken for the room there is, has yet to take it; and not after a shutdown.
\* Runnable is the set of threads inside enqueue that do not sleep.
WaitersCovered(Runnable) ==
  asleep # {} => ~shutdown /\ count + Cardinality(Runnable) >= Capacity
=============================================================================
