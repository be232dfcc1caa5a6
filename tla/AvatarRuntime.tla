---------------------------- MODULE AvatarRuntime ----------------------------
(***************************************************************************)
(* src/src/avatar_runtime.c: one handle per avatar, a task of the thread   *)
(* pool per handle.  The pool is used through the promises of TaskService, *)
(* which ThreadPool.tla is shown to keep; every avatar has a completion    *)
(* callback, avatar_completion_func, which alone marks the handle          *)
(* completed.  This module has no caller: AvatarVM and AsyncHttpServer     *)
(* build theirs from its operations.                                       *)
(***************************************************************************)
EXTENDS Naturals, Sequences, FiniteSets

CONSTANT Avatar          \* the handles avatar_runtime_submit may allocate

VARIABLES
  backlog, life, open,   \* the thread pool, see TaskService
  handle,                \* the memory of each handle and its place in the list
  pendingCount,          \* runtime->pending_count
  completed,             \* handle->completed
  outcome                \* handle->result / handle->has_error, as written so far

poolVars == <<backlog, life, open>>
handleVars == <<handle, pendingCount>>
runtimeVars == <<poolVars, handleVars, completed, outcome>>

Pool == INSTANCE TaskService WITH Task <- Avatar, Callback <- Avatar

HandleState == {"unused", "listed", "freed"}
Outcome == {"none", "value", "error"}

RuntimeTypeOK ==
  /\ Pool!TypeOK
  /\ handle \in [Avatar -> HandleState]
  /\ pendingCount \in Nat
  /\ completed \in [Avatar -> BOOLEAN]
  /\ outcome \in [Avatar -> Outcome]

RuntimeInit ==
  /\ Pool!Init
  /\ handle = [a \in Avatar |-> "unused"]
  /\ pendingCount = 0
  /\ completed = [a \in Avatar |-> FALSE]
  /\ outcome = [a \in Avatar |-> "none"]

-----------------------------------------------------------------------------
(* avatar_runtime_submit, up to and after the unlock of handles_mutex *)

ListHandle(a) ==
  /\ handle[a] = "unused"
  /\ handle' = [handle EXCEPT ![a] = "listed"]
  /\ pendingCount' = pendingCount + 1
  /\ UNCHANGED <<poolVars, completed, outcome>>

QueueHandle(a) ==
  /\ Pool!Accept(a)
  /\ UNCHANGED <<handleVars, completed, outcome>>

\* thread_pool_submit returned false: no memory for the task block, or shutdown.
Unlist(a) ==
  /\ handle' = [handle EXCEPT ![a] = "freed"]
  /\ pendingCount' = pendingCount - 1
  /\ UNCHANGED <<poolVars, completed, outcome>>

-----------------------------------------------------------------------------
(* A worker of the pool inside avatar_task_func *)

Begin(a) ==
  /\ Pool!Start(a)
  /\ UNCHANGED <<handleVars, completed, outcome>>

\* The body ends: has_error or result is written, without the handle's mutex.  A
\* body may also wait in a native call for ever.
WriteOutcome(a) ==
  /\ life[a] = "running"
  /\ outcome[a] = "none"
  /\ \E o \in {"value", "error"} : outcome' = [outcome EXCEPT ![a] = o]
  /\ UNCHANGED <<poolVars, handleVars, completed>>

\* Mutant: the task returns before it has written its outcome.
ReturnEarly(a) ==
  /\ Pool!Finish(a)
  /\ UNCHANGED <<handleVars, completed, outcome>>

Return(a) ==
  /\ outcome[a] # "none"
  /\ Pool!Finish(a)
  /\ UNCHANGED <<handleVars, completed, outcome>>

-----------------------------------------------------------------------------
(* avatar_completion_func, called by whoever processes completions, and    *)
(* avatar_runtime_cancel                                                   *)

Complete(a) ==
  /\ Pool!Deliver(a)
  /\ completed' = [completed EXCEPT ![a] = TRUE]
  /\ UNCHANGED <<handleVars, outcome>>

Cancel(a) ==
  /\ completed' = [completed EXCEPT ![a] = TRUE]
  /\ UNCHANGED <<poolVars, handleVars, outcome>>

-----------------------------------------------------------------------------
(* avatar_runtime_destroy: the pool is shut down and drained, then every   *)
(* listed handle is freed.                                                 *)

ShutDownPool ==
  /\ Pool!Close
  /\ UNCHANGED <<handleVars, completed, outcome>>

FreeHandles ==
  /\ Pool!Drop
  /\ handle' = [a \in Avatar |-> IF handle[a] = "listed" THEN "freed" ELSE handle[a]]
  /\ UNCHANGED <<pendingCount, completed, outcome>>

WorkerStep(a) == Begin(a) \/ WriteOutcome(a) \/ Return(a)

-----------------------------------------------------------------------------
(* Invariants of every caller that keeps the runtime's contract *)

InPool(a) == life[a] \in {"queued", "running", "finished"}

\* A worker or the completion queue never refers to a freed handle: neither the
\* failed submit nor destroy frees one that the pool still holds.
PoolHandlesLive == \A a \in Avatar : InPool(a) => handle[a] = "listed"

Listed == {a \in Avatar : handle[a] = "listed"}

\* The counter counts the handles in the list: the failed submit takes back
\* exactly what it added, whatever other threads submitted in between.
CountIsListLength == open => pendingCount = Cardinality(Listed)

\* What the inductive invariants of the callers say of list and counter.
Counted ==
  /\ handle \in [Avatar -> HandleState]
  /\ pendingCount \in Nat
  /\ IsFiniteSet(Listed)
  /\ CountIsListLength
=============================================================================
