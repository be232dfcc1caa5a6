------------------------------- MODULE BgTasks -------------------------------
(***************************************************************************)
(* green_threads.c: background tasks and the job queue their threads write *)
(* to, as a script uses them. The script runs on one thread; every task    *)
(* has a thread of its own. The calls of the script are refused with wrong *)
(* arguments first, which is left out, as is a pthread_create or malloc    *)
(* that fails. Observables are left out, too: only the script's thread     *)
(* touches them, and connected_observable of a task is never set.          *)
(***************************************************************************)
EXTENDS Integers, Sequences, FiniteSets

CONSTANTS
    MaxTasks,         \* MAX_BG_TASKS, 256 in the code; handle 0 is not used
    MaxStarts,        \* bound: tasks started
    JobsPerCall,      \* messages per vm_process_background_jobs, 10 in the code
    HostProcesses     \* whether the embedding program calls it; kuyil does not

VARIABLES
    task,     \* the BGTask objects in the order of their ids
    g_tasks,  \* handle -> task
    main,     \* where the script's thread is
    reply,    \* the answer of its last call: the values of tasks, or a handle
    jobs,     \* the messages of g_vm_message_queue, by task
    wild      \* freed memory was written or freed again: anything may follow

vars == <<task, g_tasks, main, reply, jobs, wild>>

Tasks == 1 .. Len(task)
Handles == 1 .. MaxTasks - 1
Nobody == 0
Nil == "nil"
Whole == "Background task completed"

Idle == [at |-> "idle"]

Init ==
    /\ task = <<>> /\ g_tasks = [h \in Handles |-> Nobody]
    /\ main = Idle /\ reply = <<>>
    /\ jobs = <<>>
    /\ wild = FALSE

TaskVars == <<task, g_tasks, jobs>>

FirstFree ==
    LET S == {h \in Handles : g_tasks[h] = Nobody}
    IN  IF S = {} THEN -1 ELSE CHOOSE h \in S : \A g \in S : h <= g

----------------------------------------------------------------------------
(* The script's thread: tasks. *)

\* start_bg and start_bg_enhanced start the thread before they register it.
Start(kind) ==
    /\ main = Idle /\ Len(task) < MaxStarts
    /\ task' = Append(task, [kind |-> kind, memory |-> "live", completed |-> FALSE,
                             result |-> Nil, runner |-> "started"])
    /\ main' = [at |-> "registering", t |-> Len(task) + 1]
    /\ UNCHANGED <<g_tasks, reply, jobs, wild>>

\* With the table full the task is destroyed, whatever its thread does.
Register ==
    /\ main.at = "registering"
    /\ LET h == FirstFree
       IN  \/ h # -1 /\ g_tasks' = [g_tasks EXCEPT ![h] = main.t] /\ UNCHANGED task
           \/ h = -1 /\ task' = [task EXCEPT ![main.t].memory = "freed"] /\ UNCHANGED g_tasks
    /\ main' = Idle /\ reply' = <<>>
    /\ UNCHANGED <<jobs, wild>>

Waits == {<<h>> : h \in Handles} \cup {<<g, h>> : g, h \in Handles}

\* wait_bg and wait_bg_enhanced with one handle, wait_two_bg with two.
WaitBg ==
    /\ main = Idle
    /\ \E hs \in Waits :
         LET ts == [i \in DOMAIN hs |-> g_tasks[hs[i]]]
         IN  IF \E i \in DOMAIN hs : ts[i] = Nobody THEN UNCHANGED main /\ reply' = <<>>
             ELSE main' = [at |-> "waiting", hs |-> hs, ts |-> ts, i |-> 1] /\ UNCHANGED reply
    /\ UNCHANGED <<TaskVars, wild>>

Looked == main.ts[main.i]
NextWait == main' = IF main.i = Len(main.ts) THEN [main EXCEPT !.at = "collecting"]
                    ELSE [main EXCEPT !.at = "waiting", !.i = @ + 1]

\* A completed task is not joined.
LookAtTask ==
    /\ main.at = "waiting"
    /\ IF task[Looked].completed THEN NextWait ELSE main' = [main EXCEPT !.at = "joining"]
    /\ UNCHANGED <<TaskVars, reply, wild>>

Join ==
    /\ main.at = "joining" /\ task[Looked].runner = "ended"
    /\ NextWait
    /\ UNCHANGED <<TaskVars, reply, wild>>

\* Mutant: only the first handle is given back.
CollectFirst ==
    /\ main.at = "collecting"
    /\ LET ts == main.ts
           of == {ts[i] : i \in DOMAIN ts}
       IN  /\ reply' = [i \in DOMAIN ts |-> [t |-> ts[i], value |-> task[ts[i]].result]]
           /\ g_tasks' = [g_tasks EXCEPT ![main.hs[1]] = Nobody]
           /\ task' = [t \in Tasks |-> IF t \in of THEN [task[t] EXCEPT !.memory = "freed"] ELSE task[t]]
           /\ wild' = (Cardinality(of) # Len(ts))
    /\ main' = Idle
    /\ UNCHANGED <<jobs>>

\* The results are taken and the tasks destroyed: twice, when both handles
\* of wait_two_bg are the same.
Collect ==
    /\ main.at = "collecting"
    /\ LET ts == main.ts
           of == {ts[i] : i \in DOMAIN ts}
       IN  /\ reply' = [i \in DOMAIN ts |-> [t |-> ts[i], value |-> task[ts[i]].result]]
           /\ g_tasks' = [h \in Handles |-> IF \E i \in DOMAIN ts : main.hs[i] = h THEN Nobody ELSE g_tasks[h]]
           /\ task' = [t \in Tasks |-> IF t \in of THEN [task[t] EXCEPT !.memory = "freed"] ELSE task[t]]
           /\ wild' = (Cardinality(of) # Len(ts))
    /\ main' = Idle
    /\ UNCHANGED <<jobs>>

\* process_bg_jobs: answers 0.
ProcessBgJobs ==
    /\ main = Idle /\ reply' = <<>>
    /\ UNCHANGED <<TaskVars, main, wild>>

\* vm_process_background_jobs: the oldest messages, a placeholder for their
\* execution.
ProcessBackgroundJobs ==
    /\ HostProcesses /\ main = Idle /\ jobs # <<>>
    /\ LET n == IF Len(jobs) < JobsPerCall THEN Len(jobs) ELSE JobsPerCall
       IN  jobs' = SubSeq(jobs, n + 1, Len(jobs))
    /\ UNCHANGED <<task, g_tasks, main, reply, wild>>

----------------------------------------------------------------------------
(* The threads of the tasks. *)

At(t, place) == t \in Tasks /\ task[t].runner = place
Alive(t) == task[t].memory = "live"

\* A write into the task: what it does to memory that was freed is unknown.
Writes(t, new) ==
    /\ IF Alive(t) THEN task' = [task EXCEPT ![t] = new] /\ wild' = FALSE
       ELSE wild' = TRUE /\ UNCHANGED task
    /\ UNCHANGED <<g_tasks, main, reply>>

\* task_runner
RunBasic(t) ==
    /\ At(t, "started") /\ task[t].kind = "basic"
    /\ Writes(t, [task[t] EXCEPT !.result = Nil, !.runner = "storing"])
    /\ UNCHANGED jobs

\* enhanced_task_runner: the message is queued and its id stored; after 100 ms
\* message_queue_get_completed makes up a result.
Post(t) ==
    /\ At(t, "started") /\ task[t].kind = "enhanced"
    /\ jobs' = IF Alive(t) THEN Append(jobs, t) ELSE jobs
    /\ Writes(t, [task[t] EXCEPT !.runner = "sleeping"])

\* Mutant: the task is marked as completed first.
TakeResultLate(t) ==
    /\ At(t, "sleeping")
    /\ IF task[t].completed
       THEN Writes(t, [task[t] EXCEPT !.result = Whole, !.runner = "storing"])
       ELSE Writes(t, [task[t] EXCEPT !.completed = TRUE])
    /\ UNCHANGED jobs

TakeResult(t) ==
    /\ At(t, "sleeping")
    /\ Writes(t, [task[t] EXCEPT !.result = Whole, !.runner = "storing"])
    /\ UNCHANGED jobs

Complete(t) ==
    /\ At(t, "storing")
    /\ Writes(t, [task[t] EXCEPT !.completed = TRUE, !.runner = "leaving"])
    /\ UNCHANGED jobs

\* The last look at the task: its id for the log and, of an enhanced one,
\* connected_observable, which is NULL. Memory that was freed may have been
\* given out again and hold anything.
Leave(t) ==
    /\ At(t, "leaving")
    /\ task' = [task EXCEPT ![t].runner = "ended"]
    /\ wild' \in IF Alive(t) \/ task[t].kind = "basic" THEN {FALSE} ELSE BOOLEAN
    /\ UNCHANGED <<g_tasks, main, reply, jobs>>

Runner(t) == RunBasic(t) \/ Post(t) \/ TakeResult(t) \/ Complete(t) \/ Leave(t)

----------------------------------------------------------------------------
TaskCall == (\E kind \in {"basic", "enhanced"} : Start(kind)) \/ WaitBg \/ ProcessBgJobs \/ ProcessBackgroundJobs
Proceed == Register \/ LookAtTask \/ Join \/ Collect

Next ==
    /\ ~wild
    /\ TaskCall \/ Proceed \/ \E t \in Tasks : Runner(t)

Spec == Init /\ [][Next]_vars

\* Threads run and the script's thread goes on with a call it has begun.
FairSpec ==
    /\ Spec
    /\ WF_vars(~wild /\ Proceed)
    /\ \A t \in 1 .. MaxStarts : WF_vars(~wild /\ Runner(t))

----------------------------------------------------------------------------
(* Properties. *)

\* green_threads.c:53: a handle of the table names a task that has not been
\* destroyed, and no task has two handles, whichever handles scripts wait
\* for, twice or together.
HandlesNameLive ==
    /\ \A h \in Handles : g_tasks[h] # Nobody => task[g_tasks[h]].memory = "live"
    /\ \A g, h \in Handles : g_tasks[g] = g_tasks[h] /\ g_tasks[g] # Nobody => g = h

\* kuyil_wait_bg, kuyil_start_bg: only a task whose thread has stored the
\* result and marked it is destroyed, except for the one that finds the table
\* full, which is destroyed whatever its thread does (green_threads.c:95).
FreesCompleted ==
    \A t \in Tasks :
      task[t].memory = "live" /\ task'[t].memory = "freed" =>
        task[t].completed \/ main.at = "registering"

\* kuyil_wait_bg_enhanced, kuyil_wait_two_bg: what a wait answers is what
\* each task ended with, never the nil it was created with.
ResultsWhole ==
    \A i \in DOMAIN reply :
      reply[i].t # Nobody =>
        reply[i].value = IF task[reply[i].t].kind = "enhanced" THEN Whole ELSE Nil

\* A wait comes back: a thread marks its task or ends, and join finds it.
WaitReturns == (main # Idle) ~> (main = Idle \/ wild)

\* docs/implementation/reactive-complete.md: "Memory Management: Proper
\* cleanup and resource management". TLC refutes it three ways: the table is
\* full, wait_two_bg is given one handle twice, or an enhanced task is
\* waited for between its mark and its last look.
MemorySound == ~wild
=============================================================================
