------------------------------ MODULE ThreadPool ------------------------------
(***************************************************************************)
(* src/src/thread_pool.c: worker threads that share one work queue under   *)
(* one mutex and one condition variable, and hand finished tasks to the    *)
(* thread that polls thread_pool_process_completions.                      *)
(*                                                                         *)
(* A critical section of the pool mutex that does not block is one step.   *)
(* The exception is the worker's wait: it tests its condition and only     *)
(* then enters pthread_cond_wait, still holding the mutex ("toWait"), so   *)
(* that a broadcast sent without the mutex can fall between the two.       *)
(*                                                                         *)
(* A call of thread_pool_process_completions is a run of PollTake and      *)
(* PollCallback steps; max_tasks only says where such a run ends.          *)
(***************************************************************************)
EXTENDS Naturals, Sequences, FiniteSets

CONSTANTS NumThreads,    \* pool->num_threads
          Task,          \* the task blocks thread_pool_submit may allocate
          Callback,      \* those with a completion_func
          Poller,        \* threads that call thread_pool_process_completions
          None           \* the null task pointer

ASSUME NumThreadsAssumption == NumThreads \in Nat \ {0}
ASSUME TaskAssumption == Callback \subseteq Task /\ None \notin Task

Worker == 1 .. NumThreads

VARIABLES
  stage,         \* where the owner is in create ... destroy
  spawned,       \* how many pthread_create calls have succeeded
  shutdown,      \* pool->shutdown
  pc,            \* where each worker is in worker_thread
  holding,       \* the local variable task of each worker
  queue,         \* work_queue_head ... work_queue_tail
  pending,       \* pool->pending_count
  completions,   \* completion_queue_head ... completion_queue_tail
  polling,       \* the local variable task of each poller
  accepted,      \* history: tasks for which submit returned true, in order
  started,       \* history: tasks dequeued by the workers, in order
  runs,          \* history: how often task_func was called for the task
  deliveries,    \* history: how often completion_func was called for it
  frees          \* history: how often its block was passed to free

poolVars  == <<stage, spawned, shutdown>>
queueVars == <<queue, pending, completions>>
history   == <<accepted, started, runs, deliveries, frees>>
vars == <<poolVars, pc, holding, queueVars, polling, history>>

Stage == {"creating", "failed", "failJoin", "up", "joining", "freed"}
PC == {"unborn", "loop", "toWait", "waiting", "run", "push", "exited"}

TypeOK ==
  /\ stage \in Stage
  /\ spawned \in 0 .. NumThreads
  /\ shutdown \in BOOLEAN
  /\ pc \in [Worker -> PC]
  /\ holding \in [Worker -> Task \cup {None}]
  /\ queue \in Seq(Task)
  /\ pending \in Nat
  /\ completions \in Seq(Task)
  /\ polling \in [Poller -> Task \cup {None}]
  /\ accepted \in Seq(Task)
  /\ started \in Seq(Task)
  /\ runs \in [Task -> Nat]
  /\ deliveries \in [Task -> Nat]
  /\ frees \in [Task -> Nat]

Init ==
  /\ stage = "creating"
  /\ spawned = 0
  /\ shutdown = FALSE
  /\ pc = [w \in Worker |-> "unborn"]
  /\ holding = [w \in Worker |-> None]
  /\ queue = << >>
  /\ pending = 0
  /\ completions = << >>
  /\ polling = [p \in Poller |-> None]
  /\ accepted = << >>
  /\ started = << >>
  /\ runs = [t \in Task |-> 0]
  /\ deliveries = [t \in Task |-> 0]
  /\ frees = [t \in Task |-> 0]

\* pool->mutex is free: only a worker about to wait keeps it between two steps.
MutexFree == \A w \in Worker : pc[w] # "toWait"

Asleep == {w \in Worker : pc[w] = "waiting"}
Woken(S) == [w \in Worker |-> IF w \in S THEN "loop" ELSE pc[w]]
AllExited == \A w \in 1 .. spawned : pc[w] = "exited"
\* The pool may be called: thread_pool_create has returned it, nothing freed it.
Usable == stage \in {"up", "joining"}

-----------------------------------------------------------------------------
(* The owner: thread_pool_create and thread_pool_destroy. *)

Spawn ==
  /\ stage = "creating"
  /\ spawned < NumThreads
  /\ spawned' = spawned + 1
  /\ pc' = [pc EXCEPT ![spawned + 1] = "loop"]
  /\ UNCHANGED <<stage, shutdown, holding, queueVars, polling, history>>

CreateReturns ==
  /\ stage = "creating"
  /\ spawned = NumThreads
  /\ stage' = "up"
  /\ UNCHANGED <<spawned, shutdown, pc, holding, queueVars, polling, history>>

\* pthread_create failed: shutdown is set without the mutex.
SpawnFails ==
  /\ stage = "creating"
  /\ spawned < NumThreads
  /\ stage' = "failed"
  /\ shutdown' = TRUE
  /\ UNCHANGED <<spawned, pc, holding, queueVars, polling, history>>

\* ... and so is the broadcast that must wake the workers created so far.
FailBroadcast ==
  /\ stage = "failed"
  /\ stage' = "failJoin"
  /\ pc' = Woken(Asleep)
  /\ UNCHANGED <<spawned, shutdown, holding, queueVars, polling, history>>

FailFree ==
  /\ stage = "failJoin"
  /\ AllExited
  /\ stage' = "freed"
  /\ UNCHANGED <<spawned, shutdown, pc, holding, queueVars, polling, history>>

\* Mutant: destroy signals one worker where it has to wake them all.
DestroyWakesOne ==
  /\ stage = "up"
  /\ MutexFree
  /\ stage' = "joining"
  /\ shutdown' = TRUE
  /\ IF Asleep = {} THEN UNCHANGED pc ELSE \E w \in Asleep : pc' = Woken({w})
  /\ UNCHANGED <<spawned, holding, queueVars, polling, history>>

Destroy ==
  /\ stage = "up"
  /\ MutexFree
  /\ stage' = "joining"
  /\ shutdown' = TRUE
  /\ pc' = Woken(Asleep)
  /\ UNCHANGED <<spawned, holding, queueVars, polling, history>>

\* All threads joined.  What is left of either queue is freed, no callback is
\* called.  The caller's side of the contract: nobody is inside a poll then.
DestroyFree ==
  /\ stage = "joining"
  /\ AllExited
  /\ \A p \in Poller : polling[p] = None
  /\ stage' = "freed"
  /\ queue' = << >>
  /\ completions' = << >>
  /\ frees' = [t \in Task |->
       frees[t] + Cardinality({i \in DOMAIN queue : queue[i] = t})
                + Cardinality({i \in DOMAIN completions : completions[i] = t})]
  /\ UNCHANGED <<spawned, shutdown, pc, holding, pending, polling,
                 accepted, started, runs, deliveries>>

-----------------------------------------------------------------------------
(* Any thread: thread_pool_submit of a freshly allocated task. *)

Fresh(t) == frees[t] = 0 /\ \A i \in DOMAIN accepted : accepted[i] # t

\* A signal wakes one sleeping worker, if there is one.
\* Mutant: the signal is forgotten.
NoSignal == UNCHANGED pc

Signal == IF Asleep = {} THEN UNCHANGED pc ELSE \E w \in Asleep : pc' = Woken({w})

\* Mutants: the task is put in front; its arrival is not counted; it is accepted
\* while the pool shuts down.
SubmitAs(t, open, q, n) ==
  /\ Usable
  /\ MutexFree
  /\ Fresh(t)
  /\ open
  /\ queue' = q
  /\ pending' = n
  /\ Signal
  /\ accepted' = Append(accepted, t)
  /\ UNCHANGED <<poolVars, holding, completions, polling, started, runs,
                 deliveries, frees>>
SubmitInFront(t) == SubmitAs(t, ~shutdown, <<t>> \o queue, pending + 1)
SubmitUncounted(t) == SubmitAs(t, ~shutdown, Append(queue, t), pending)
SubmitLate(t) == SubmitAs(t, TRUE, Append(queue, t), pending + 1)

Submit(t) ==
  /\ Usable
  /\ MutexFree
  /\ Fresh(t)
  /\ ~shutdown
  /\ queue' = Append(queue, t)
  /\ pending' = pending + 1
  /\ Signal
  /\ accepted' = Append(accepted, t)
  /\ UNCHANGED <<poolVars, holding, completions, polling, started, runs,
                 deliveries, frees>>

Refuse(t) ==
  /\ Usable
  /\ MutexFree
  /\ Fresh(t)
  /\ shutdown
  /\ frees' = [frees EXCEPT ![t] = @ + 1]
  /\ UNCHANGED <<poolVars, pc, holding, queueVars, polling, accepted, started,
                 runs, deliveries>>

-----------------------------------------------------------------------------
(* A worker: worker_thread. *)

GoToSleep(w) ==
  /\ pc[w] = "loop"
  /\ MutexFree
  /\ ~shutdown /\ queue = << >>
  /\ pc' = [pc EXCEPT ![w] = "toWait"]
  /\ UNCHANGED <<poolVars, holding, queueVars, polling, history>>

Sleep(w) ==
  /\ pc[w] = "toWait"
  /\ pc' = [pc EXCEPT ![w] = "waiting"]
  /\ UNCHANGED <<poolVars, holding, queueVars, polling, history>>

\* pthread_cond_wait may return although nobody signalled.
SpuriousWakeup(w) ==
  /\ pc[w] = "waiting"
  /\ pc' = [pc EXCEPT ![w] = "loop"]
  /\ UNCHANGED <<poolVars, holding, queueVars, polling, history>>

\* Mutant: a worker leaves as soon as it sees the shutdown.
MayExitEarly == shutdown

MayExit == shutdown /\ queue = << >>

Exit(w) ==
  /\ pc[w] = "loop"
  /\ MutexFree
  /\ MayExit
  /\ pc' = [pc EXCEPT ![w] = "exited"]
  /\ UNCHANGED <<poolVars, holding, queueVars, polling, history>>

Take(w) ==
  /\ pc[w] = "loop"
  /\ MutexFree
  /\ queue # << >>
  /\ pc' = [pc EXCEPT ![w] = "run"]
  /\ holding' = [holding EXCEPT ![w] = Head(queue)]
  /\ queue' = Tail(queue)
  /\ pending' = pending - 1
  /\ started' = Append(started, Head(queue))
  /\ UNCHANGED <<poolVars, completions, polling, accepted, runs, deliveries, frees>>

\* task_func returns.  A task without a callback is freed by the worker.
Run(w) ==
  /\ pc[w] = "run"
  /\ runs' = [runs EXCEPT ![holding[w]] = @ + 1]
  /\ IF holding[w] \in Callback
     THEN /\ pc' = [pc EXCEPT ![w] = "push"]
          /\ UNCHANGED <<holding, frees>>
     ELSE /\ pc' = [pc EXCEPT ![w] = "loop"]
          /\ frees' = [frees EXCEPT ![holding[w]] = @ + 1]
          /\ holding' = [holding EXCEPT ![w] = None]
  /\ UNCHANGED <<poolVars, queueVars, polling, accepted, started, deliveries>>

Push(w) ==
  /\ pc[w] = "push"
  /\ completions' = Append(completions, holding[w])
  /\ pc' = [pc EXCEPT ![w] = "loop"]
  /\ holding' = [holding EXCEPT ![w] = None]
  /\ UNCHANGED <<poolVars, queue, pending, polling, history>>

-----------------------------------------------------------------------------
(* A poller: thread_pool_process_completions. *)

PollTake(p) ==
  /\ Usable
  /\ polling[p] = None
  /\ completions # << >>
  /\ polling' = [polling EXCEPT ![p] = Head(completions)]
  /\ completions' = Tail(completions)
  /\ UNCHANGED <<poolVars, pc, holding, queue, pending, history>>

PollCallback(p) ==
  /\ polling[p] # None
  /\ deliveries' = [deliveries EXCEPT ![polling[p]] = @ + 1]
  /\ frees' = [frees EXCEPT ![polling[p]] = @ + 1]
  /\ polling' = [polling EXCEPT ![p] = None]
  /\ UNCHANGED <<poolVars, pc, holding, queueVars, accepted, started, runs>>

-----------------------------------------------------------------------------
Owner == Spawn \/ CreateReturns \/ FailBroadcast \/ FailFree \/ DestroyFree
WorkerStep(w) == GoToSleep(w) \/ Sleep(w) \/ Exit(w) \/ Take(w) \/ Run(w) \/ Push(w)
PollerStep(p) == PollTake(p) \/ PollCallback(p)

Next ==
  \/ Owner
  \/ SpawnFails
  \/ Destroy
  \/ \E t \in Task : Submit(t) \/ Refuse(t)
  \/ \E w \in Worker : WorkerStep(w) \/ SpuriousWakeup(w)
  \/ \E p \in Poller : PollerStep(p)

Spec == Init /\ [][Next]_vars

\* Threads are scheduled: a worker, the owner inside create or destroy, and the
\* poller that has taken a task go on.  Nothing makes anybody call destroy,
\* submit or process_completions, and pthread_create need not fail.
Fairness ==
  /\ WF_vars(Owner)
  /\ \A w \in Worker : WF_vars(WorkerStep(w))
  /\ \A p \in Poller : WF_vars(PollCallback(p))

FairSpec == Spec /\ Fairness

-----------------------------------------------------------------------------
(* Properties *)

Occurrences(s, t) == Cardinality({i \in DOMAIN s : s[i] = t})
IsAccepted(t) == \E i \in DOMAIN accepted : accepted[i] = t

\* Memory discipline of the task blocks across submitters, workers, pollers and
\* the destroyer: a block that submit accepted is always referenced from exactly
\* one place or has been freed exactly once, never both, never twice.
OneOwner ==
  \A t \in Task : IsAccepted(t) =>
    Occurrences(queue, t) + Occurrences(completions, t)
      + Cardinality({w \in Worker : holding[w] = t})
      + Cardinality({p \in Poller : polling[p] = t})
      + frees[t] = 1

\* Tasks start in the order submit accepted them, none is skipped or repeated
\* (the tail pointer is reset whenever the head runs off the list).
StartedInOrder == stage # "freed" => accepted = started \o queue

\* pending_count is the length of the backlog, so the unsigned decrement never
\* wraps.
PendingIsBacklog == pending = Len(queue)

\* The signal in submit is enough: work never waits in the queue while every
\* worker sleeps or is gone.
NoLostWakeup ==
  queue # << >> => \E w \in Worker : pc[w] \in {"loop", "run", "push"}

\* thread_pool_destroy frees the pool only after every accepted task has run
\* exactly once, however late it was submitted.
DestroyDrains ==
  stage = "freed" => \A t \in Task : IsAccepted(t) => runs[t] = 1

\* Refinement: the pool implements TaskService.
Life(t) ==
  CASE ~IsAccepted(t) -> "new"
    [] IsAccepted(t) /\ \E i \in DOMAIN queue : queue[i] = t -> "queued"
    [] IsAccepted(t) /\ runs[t] = 0 /\ (\A i \in DOMAIN queue : queue[i] # t) -> "running"
    [] t \in Callback /\ runs[t] > 0 /\ deliveries[t] = 0 /\ stage # "freed" -> "finished"
    [] t \in Callback /\ runs[t] > 0 /\ deliveries[t] = 0 /\ stage = "freed" -> "dropped"
    [] OTHER -> "done"

Abs == INSTANCE TaskService WITH
         backlog <- queue,
         life <- [t \in Task |-> Life(t)],
         open <- ~shutdown

\* The abstract service of TaskService.tla, whose steps the pool's steps are.
ImplementsService == Abs!Service

\* An accepted task is eventually run, also when destroy is called meanwhile.
AcceptedRuns == \A t \in Task : IsAccepted(t) ~> runs[t] = 1

\* thread_pool_destroy returns.
DestroyReturns == stage = "joining" ~> stage = "freed"

\* thread_pool.h: thread_pool_create returns NULL on failure - so it returns.
FailedCreateReturns == stage = "failed" ~> stage = "freed"
=============================================================================
