----------------------------- MODULE TaskService -----------------------------
(***************************************************************************)
(* What thread_pool.h promises a caller, with no worker, lock or condition *)
(* variable in sight: a task that was accepted is started in the order of  *)
(* acceptance, runs exactly once, and its completion callback, when it has *)
(* one, is called at most once and only after the run.  Closing the        *)
(* service refuses new tasks, lets every accepted task run, and then drops *)
(* the callbacks nobody has collected.                                     *)
(***************************************************************************)
EXTENDS Naturals, Sequences

CONSTANTS Task,       \* the tasks a caller may submit
          Callback    \* those submitted with a completion callback, a subset of Task

VARIABLES backlog,    \* accepted tasks that have not started, oldest first
          life,       \* where each task is in its life
          open        \* does the service still accept tasks?

absVars == <<backlog, life, open>>

Phase == {"new", "queued", "running", "finished", "done", "dropped"}

TypeOK ==
  /\ backlog \in Seq(Task)
  /\ life \in [Task -> Phase]
  /\ open \in BOOLEAN

Init ==
  /\ backlog = << >>
  /\ life = [t \in Task |-> "new"]
  /\ open = TRUE

Accept(t) ==
  /\ open
  /\ life[t] = "new"
  /\ backlog' = Append(backlog, t)
  /\ life' = [life EXCEPT ![t] = "queued"]
  /\ UNCHANGED open

Start(t) ==
  /\ backlog # << >>
  /\ t = Head(backlog)
  /\ life[t] = "queued"
  /\ backlog' = Tail(backlog)
  /\ life' = [life EXCEPT ![t] = "running"]
  /\ UNCHANGED open

Finish(t) ==
  /\ life[t] = "running"
  /\ life' = [life EXCEPT ![t] = IF t \in Callback THEN "finished" ELSE "done"]
  /\ UNCHANGED <<backlog, open>>

Deliver(t) ==
  /\ life[t] = "finished"
  /\ life' = [life EXCEPT ![t] = "done"]
  /\ UNCHANGED <<backlog, open>>

Close ==
  /\ open
  /\ open' = FALSE
  /\ UNCHANGED <<backlog, life>>

Drop ==
  /\ ~open
  /\ \A t \in Task : life[t] \notin {"queued", "running"}
  /\ life' = [t \in Task |-> IF life[t] = "finished" THEN "dropped" ELSE life[t]]
  /\ UNCHANGED <<backlog, open>>

Next ==
  \/ Close
  \/ Drop
  \/ \E t \in Task : Accept(t) \/ Start(t) \/ Finish(t) \/ Deliver(t)

Service == Init /\ [][Next]_absVars
=============================================================================
