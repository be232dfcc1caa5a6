---------------------------- MODULE BgTasksProofs ----------------------------
(***************************************************************************)
(* Proofs about BgTasks.tla, for tables of every size, any number of tasks *)
(* and whether or not the host empties the job queue.  The inductive       *)
(* invariant is the conjunction of                                         *)
(*   Typed        types of the tasks, the table and the script's thread;   *)
(*   RunnerInv    what the place of a task's thread says of its fields;    *)
(*   HandlesNameLive   as the model states it;                             *)
(*   MainInv      what the script's thread holds while it registers or     *)
(*                waits: handles it waits for still name the same tasks;   *)
(*   ReplyInv     what was answered.                                       *)
(***************************************************************************)
EXTENDS BgTasks, TLAPS, SequenceTheorems

BGTask == [kind : {"basic", "enhanced"}, memory : {"live", "freed"},
           completed : BOOLEAN, result : {Nil, Whole},
           runner : {"started", "sleeping", "storing", "leaving", "ended"}]

WaitPlace == {"waiting", "joining", "collecting"}
WaitState == [at : WaitPlace, hs : Seq(Handles), ts : Seq(Nat), i : Nat]
RegisterState == [at : {"registering"}, t : Nat]

Typed ==
  /\ task \in Seq(BGTask)
  /\ g_tasks \in [Handles -> 0 .. Len(task)]
  /\ main = Idle \/ main \in RegisterState \/ main \in WaitState

Expected(t) == IF task[t].kind = "enhanced" THEN Whole ELSE Nil

RunnerInv ==
  \A t \in Tasks :
    /\ task[t].runner = "sleeping" => task[t].kind = "enhanced"
    /\ task[t].runner \in {"storing", "leaving", "ended"} => task[t].result = Expected(t)
    /\ task[t].completed <=> task[t].runner \in {"leaving", "ended"}

MainInv ==
  /\ main.at = "registering" =>
       /\ main.t \in Tasks /\ task[main.t].memory = "live"
       /\ \A h \in Handles : g_tasks[h] # main.t
  /\ main.at \in WaitPlace =>
       /\ DOMAIN main.hs = 1 .. Len(main.ts) /\ main.i \in 1 .. Len(main.ts)
       /\ \A j \in 1 .. Len(main.ts) :
            g_tasks[main.hs[j]] = main.ts[j] /\ main.ts[j] \in Tasks
       /\ \A j \in 1 .. Len(main.ts) :
            j < main.i \/ main.at = "collecting" => task[main.ts[j]].completed

ReplyInv ==
  \A i \in DOMAIN reply :
    reply[i].t # Nobody => reply[i].t \in Tasks /\ reply[i].value = Expected(reply[i].t)

\* The inductive invariant.
TasksInv == Typed /\ RunnerInv /\ HandlesNameLive /\ MainInv /\ ReplyInv

-----------------------------------------------------------------------------
(* Facts about the places of the script's thread and about the tasks *)

LEMMA Places ==
  ASSUME Typed
  PROVE  /\ main = Idle => main.at = "idle"
         /\ main.at \in {"idle", "registering"} \cup WaitPlace
         /\ main.at \in WaitPlace => main \in WaitState
         /\ main.at = "registering" => main \in RegisterState
  BY DEF Typed, Idle, RegisterState, WaitState, WaitPlace

LEMMA TaskTypes ==
  ASSUME Typed
  PROVE  /\ Len(task) \in Nat /\ DOMAIN task = Tasks
         /\ \A t \in Tasks : task[t] \in BGTask
  BY LenProperties, ElementOfSeq DEF Typed, Tasks

\* A task of the table is in use.
LEMMA NamedIsTask ==
  ASSUME Typed, NEW h \in Handles, g_tasks[h] # Nobody
  PROVE  g_tasks[h] \in Tasks
<1>1. g_tasks[h] \in 0 .. Len(task) /\ Len(task) \in Nat  BY TaskTypes DEF Typed
<1> QED  BY <1>1 DEF Tasks, Nobody

LEMMA TasksInit == Init => TasksInv
<1> SUFFICES ASSUME Init PROVE TasksInv
  OBVIOUS
<1>1. task \in Seq(BGTask) /\ Len(task) = 0  BY EmptySeq DEF Init
<1>2. Typed  BY <1>1 DEF Init, Typed, Nobody
<1>3. Tasks = {}  BY <1>1 DEF Tasks
<1>4. main.at = "idle" /\ DOMAIN reply = {}  BY DEF Init, Idle
<1> QED  BY <1>2, <1>3, <1>4
         DEF TasksInv, RunnerInv, HandlesNameLive, MainInv, ReplyInv, Init, WaitPlace

-----------------------------------------------------------------------------
(* The threads of the tasks *)

\* What the fields of a task have to do with the place of its thread.
Sound(x) ==
  /\ x.runner = "sleeping" => x.kind = "enhanced"
  /\ x.runner \in {"storing", "leaving", "ended"} =>
       x.result = IF x.kind = "enhanced" THEN Whole ELSE Nil
  /\ x.completed <=> x.runner \in {"leaving", "ended"}

LEMMA SoundTasks == RunnerInv <=> \A t \in Tasks : Sound(task[t])
  BY DEF RunnerInv, Sound, Expected

\* A thread that writes to its own task, without undoing what was promised.
LEMMA OwnTask ==
  ASSUME TasksInv, NEW t \in Tasks, NEW new \in BGTask, Sound(new),
         new.kind = task[t].kind, new.memory = task[t].memory,
         task[t].completed => new.completed,
         task' = [task EXCEPT ![t] = new], UNCHANGED <<g_tasks, main, reply>>
  PROVE  TasksInv'
<1>0. Typed /\ RunnerInv /\ HandlesNameLive /\ MainInv /\ ReplyInv  BY DEF TasksInv
<1>1. DOMAIN task = Tasks /\ Len(task) \in Nat /\ \A u \in Tasks : task[u] \in BGTask
  BY <1>0, TaskTypes
<1>2. task' \in Seq(BGTask) /\ Len(task') = Len(task)
  BY <1>0, ExceptSeq DEF Typed, Tasks
<1>3. Tasks' = Tasks  BY <1>2 DEF Tasks
<1>4. \A u \in Tasks : task'[u] = IF u = t THEN new ELSE task[u]
  BY <1>1
<1>5. \A u \in Tasks : /\ task'[u].kind = task[u].kind
                       /\ task'[u].memory = task[u].memory
                       /\ task[u].completed => task'[u].completed
  BY <1>4
<1>6. Typed'  BY <1>0, <1>2 DEF Typed
<1>7. RunnerInv'
  <2>1. \A u \in Tasks : Sound(task'[u])  BY <1>0, <1>4, SoundTasks
  <2>2. \A u \in Tasks' : Sound(task[u])'  BY <1>3, <2>1 DEF Sound
  <2> QED  BY <2>2 DEF RunnerInv, Sound, Expected
<1>8. HandlesNameLive'
  <2>1. \A h \in Handles : g_tasks[h] # Nobody => g_tasks[h] \in Tasks
    BY <1>0, NamedIsTask
  <2> QED  BY <1>0, <1>5, <2>1 DEF HandlesNameLive
<1>9. MainInv'  BY <1>0, <1>3, <1>5 DEF MainInv
<1>10. ReplyInv'  BY <1>0, <1>3, <1>5 DEF ReplyInv, Expected
<1> QED  BY <1>6, <1>7, <1>8, <1>9, <1>10 DEF TasksInv

LEMMA Nothing ==
  ASSUME TasksInv, UNCHANGED <<task, g_tasks, main, reply>>
  PROVE  TasksInv'
  BY DEF TasksInv, Typed, RunnerInv, HandlesNameLive, MainInv, ReplyInv, Tasks, Expected

LEMMA RunnerStep ==
  ASSUME TasksInv, NEW t \in Tasks, Runner(t)
  PROVE  TasksInv'
<1>0. task[t] \in BGTask /\ Sound(task[t])
  BY TaskTypes, SoundTasks DEF TasksInv
<1>1. ASSUME NEW new \in BGTask, Sound(new), new.kind = task[t].kind,
             new.memory = task[t].memory, task[t].completed => new.completed,
             Writes(t, new)
      PROVE  TasksInv'
  <2>1. CASE Alive(t)
    <3>1. task' = [task EXCEPT ![t] = new] /\ UNCHANGED <<g_tasks, main, reply>>
      BY <1>1, <2>1 DEF Writes
    <3> QED  BY <1>1, <3>1, OwnTask
  <2>2. CASE ~Alive(t)  BY <1>1, <2>2, Nothing DEF Writes
  <2> QED  BY <2>1, <2>2
<1>2. CASE RunBasic(t)
  <2> DEFINE new == [task[t] EXCEPT !.result = Nil, !.runner = "storing"]
  <2>1. task[t].runner = "started" /\ task[t].kind = "basic" /\ Writes(t, new)
    BY <1>2 DEF RunBasic, At
  <2>2. new \in BGTask /\ new.kind = task[t].kind /\ new.memory = task[t].memory
        /\ new.completed = task[t].completed
    BY <1>0 DEF BGTask
  <2>3. Sound(new)  BY <1>0, <2>1 DEF BGTask, Sound
  <2> QED  BY <1>1, <2>1, <2>2, <2>3
<1>3. CASE Post(t)
  <2> DEFINE new == [task[t] EXCEPT !.runner = "sleeping"]
  <2>1. task[t].runner = "started" /\ task[t].kind = "enhanced" /\ Writes(t, new)
    BY <1>3 DEF Post, At
  <2>2. new \in BGTask /\ new.kind = task[t].kind /\ new.memory = task[t].memory
        /\ new.completed = task[t].completed
    BY <1>0 DEF BGTask
  <2>3. Sound(new)  BY <1>0, <2>1 DEF BGTask, Sound
  <2> QED  BY <1>1, <2>1, <2>2, <2>3
<1>4. CASE TakeResult(t)
  <2> DEFINE new == [task[t] EXCEPT !.result = Whole, !.runner = "storing"]
  <2>1. task[t].runner = "sleeping" /\ Writes(t, new)
    BY <1>4 DEF TakeResult, At
  <2>2. new \in BGTask /\ new.kind = task[t].kind /\ new.memory = task[t].memory
        /\ new.completed = task[t].completed
    BY <1>0 DEF BGTask
  <2>3. Sound(new)  BY <1>0, <2>1 DEF BGTask, Sound
  <2> QED  BY <1>1, <2>1, <2>2, <2>3
<1>5. CASE Complete(t)
  <2> DEFINE new == [task[t] EXCEPT !.completed = TRUE, !.runner = "leaving"]
  <2>1. task[t].runner = "storing" /\ Writes(t, new)
    BY <1>5 DEF Complete, At
  <2>2. new \in BGTask /\ new.kind = task[t].kind /\ new.memory = task[t].memory
        /\ new.completed
    BY <1>0 DEF BGTask
  <2>3. Sound(new)  BY <1>0, <2>1 DEF BGTask, Sound
  <2> QED  BY <1>1, <2>1, <2>2, <2>3
<1>6. CASE Leave(t)
  <2> DEFINE new == [task[t] EXCEPT !.runner = "ended"]
  <2>1. task[t].runner = "leaving" /\ UNCHANGED <<g_tasks, main, reply>>
    BY <1>6 DEF Leave, At
  <2>2. task' = [task EXCEPT ![t] = new]  BY <1>6 DEF Leave
  <2>3. new \in BGTask /\ new.kind = task[t].kind /\ new.memory = task[t].memory
        /\ new.completed = task[t].completed
    BY <1>0 DEF BGTask
  <2>4. Sound(new)  BY <1>0, <2>1 DEF BGTask, Sound
  <2> HIDE DEF new
  <2> QED  BY <2>1, <2>2, <2>3, <2>4, OwnTask
<1> QED  BY <1>2, <1>3, <1>4, <1>5, <1>6 DEF Runner

-----------------------------------------------------------------------------
(* The script's thread *)

LEMMA StartStep ==
  ASSUME TasksInv, NEW kind \in {"basic", "enhanced"}, Start(kind)
  PROVE  TasksInv'
<1> DEFINE new == [kind |-> kind, memory |-> "live", completed |-> FALSE, result |-> Nil,
                   runner |-> "started"]
<1>0. Typed /\ RunnerInv /\ HandlesNameLive /\ ReplyInv  BY DEF TasksInv
<1>1. /\ task' = Append(task, new) /\ main' = [at |-> "registering", t |-> Len(task) + 1]
      /\ UNCHANGED <<g_tasks, reply>>
  BY DEF Start
<1>2. /\ task \in Seq(BGTask) /\ new \in BGTask /\ Len(task) \in Nat
      /\ g_tasks \in [Handles -> 0 .. Len(task)] /\ Sound(new)
  BY <1>0, TaskTypes DEF Typed, BGTask, Sound
<1> HIDE DEF new
<1>3. /\ task' \in Seq(BGTask) /\ Len(task') = Len(task) + 1
      /\ \A t \in 1 .. Len(task) : task'[t] = task[t]
      /\ task'[Len(task) + 1] = new
  BY <1>1, <1>2, AppendProperties
<1>4. /\ \A t \in Tasks : t \in Tasks' /\ task'[t] = task[t]
      /\ Len(task) + 1 \in Tasks' /\ Len(task) + 1 \notin 0 .. Len(task)
      /\ \A t \in Tasks' : t \in Tasks \/ t = Len(task) + 1
  BY <1>2, <1>3 DEF Tasks
<1>5. Typed'
  <2>1. main' \in RegisterState  BY <1>1, <1>2 DEF RegisterState
  <2>2. g_tasks' \in [Handles -> 0 .. Len(task')]
    <3>1. 0 .. Len(task) \subseteq 0 .. Len(task')  BY <1>2, <1>3
    <3> QED  BY <1>1, <1>2, <3>1
  <2> QED  BY <1>3, <2>1, <2>2 DEF Typed
<1>6. RunnerInv'
  <2>1. \A t \in Tasks' : Sound(task'[t])  BY <1>0, <1>2, <1>3, <1>4, SoundTasks
  <2> QED  BY <2>1 DEF RunnerInv, Sound, Expected
<1>7. HandlesNameLive'
  <2>1. \A h \in Handles : g_tasks[h] # Nobody => g_tasks[h] \in Tasks  BY <1>0, NamedIsTask
  <2> QED  BY <1>0, <1>1, <1>4, <2>1 DEF HandlesNameLive
<1>8. MainInv'
  <2>1. main'.at = "registering" /\ main'.t = Len(task) + 1  BY <1>1
  <2>2. task'[Len(task) + 1].memory = "live"  BY <1>3 DEF new
  <2>3. \A h \in Handles : g_tasks'[h] # Len(task) + 1  BY <1>1, <1>2, <1>4
  <2> QED  BY <1>4, <2>1, <2>2, <2>3 DEF MainInv, WaitPlace
<1>9. ReplyInv'  BY <1>0, <1>1, <1>4 DEF ReplyInv, Expected
<1> QED  BY <1>5, <1>6, <1>7, <1>8, <1>9 DEF TasksInv

\* The handle that is written may be any: HandlesNameLive needs only that the
\* new task has no other.
LEMMA RegisterStep ==
  ASSUME TasksInv, Register
  PROVE  TasksInv'
<1>0. Typed /\ RunnerInv /\ HandlesNameLive /\ MainInv  BY DEF TasksInv
<1>1. /\ main.at = "registering" /\ main.t \in Tasks /\ task[main.t].memory = "live"
      /\ \A h \in Handles : g_tasks[h] # main.t
  BY <1>0 DEF Register, MainInv
<1>2. main' = Idle /\ reply' = << >>  BY DEF Register
<1>3. DOMAIN task = Tasks /\ Len(task) \in Nat /\ task[main.t] \in BGTask
  BY <1>0, <1>1, TaskTypes
<1>4. MainInv' /\ ReplyInv'  BY <1>2 DEF MainInv, ReplyInv, Idle, WaitPlace
<1>5. ASSUME NEW h, g_tasks' = [g_tasks EXCEPT ![h] = main.t], UNCHANGED task
      PROVE  TasksInv'
  <2>1. /\ g_tasks \in [Handles -> 0 .. Len(task)] /\ main.t \in 0 .. Len(task)
        /\ task \in Seq(BGTask)
    BY <1>0, <1>1, <1>3 DEF Typed, Tasks
  <2>2. g_tasks' \in [Handles -> 0 .. Len(task)]  BY <1>5, <2>1
  <2>3. Typed'  BY <1>2, <1>5, <2>1, <2>2 DEF Typed
  <2>4. RunnerInv'  BY <1>0, <1>5 DEF RunnerInv, Tasks, Expected
  <2>5. \A g \in Handles : g_tasks'[g] = IF g = h THEN main.t ELSE g_tasks[g]
    BY <1>5, <2>1
  <2>6. \A g \in Handles : g_tasks'[g] # Nobody => task[g_tasks'[g]].memory = "live"
    BY <1>0, <1>1, <2>5 DEF HandlesNameLive
  <2>7. \A f, g \in Handles : g_tasks'[f] = g_tasks'[g] /\ g_tasks'[f] # Nobody => f = g
    BY <1>0, <1>1, <2>5 DEF HandlesNameLive
  <2>8. HandlesNameLive'  BY <1>5, <2>6, <2>7 DEF HandlesNameLive
  <2> QED  BY <1>4, <2>3, <2>4, <2>8 DEF TasksInv
<1>6. ASSUME task' = [task EXCEPT ![main.t].memory = "freed"], UNCHANGED g_tasks
      PROVE  TasksInv'
  <2> DEFINE new == [task[main.t] EXCEPT !.memory = "freed"]
  <2>1. new \in BGTask /\ new.kind = task[main.t].kind /\ new.completed = task[main.t].completed
        /\ new.runner = task[main.t].runner /\ new.result = task[main.t].result
        /\ new.memory = "freed"
    BY <1>3 DEF BGTask
  <2>2. task' = [task EXCEPT ![main.t] = new]  BY <1>6
  <2> HIDE DEF new
  <2>3. task' \in Seq(BGTask) /\ Len(task') = Len(task)
    BY <1>0, <1>1, <2>1, <2>2, ExceptSeq DEF Typed, Tasks
  <2>4. Tasks' = Tasks /\ \A t \in Tasks : task'[t] = IF t = main.t THEN new ELSE task[t]
    BY <1>3, <2>2, <2>3 DEF Tasks
  <2>5. Typed'  BY <1>0, <1>2, <1>6, <2>3 DEF Typed
  <2>6. RunnerInv'
    <3>1. Sound(new)  BY <1>0, <1>1, <2>1, SoundTasks DEF Sound
    <3>2. \A t \in Tasks : Sound(task'[t])  BY <1>0, <2>4, <3>1, SoundTasks
    <3> QED  BY <2>4, <3>2 DEF RunnerInv, Sound, Expected
  <2>7. HandlesNameLive'
    <3>1. \A h \in Handles : g_tasks[h] # Nobody => g_tasks[h] \in Tasks
      BY <1>0, NamedIsTask
    <3> QED  BY <1>0, <1>1, <1>6, <2>4, <3>1 DEF HandlesNameLive
  <2> QED  BY <1>4, <2>5, <2>6, <2>7 DEF TasksInv
<1> QED  BY <1>5, <1>6 DEF Register

\* Only the script's thread has changed its place or its answer.
LEMMA MainMoves ==
  ASSUME TasksInv, UNCHANGED <<task, g_tasks>>, MainInv', ReplyInv',
         main' = Idle \/ main' \in WaitState
  PROVE  TasksInv'
<1>1. Typed /\ RunnerInv /\ HandlesNameLive  BY DEF TasksInv
<1>2. Typed'  BY <1>1 DEF Typed
<1>3. RunnerInv' /\ HandlesNameLive'  BY <1>1 DEF RunnerInv, HandlesNameLive, Tasks, Expected
<1> QED  BY <1>2, <1>3 DEF TasksInv

LEMMA SameReply ==
  ASSUME TasksInv, UNCHANGED <<task, reply>>
  PROVE  ReplyInv'
  BY DEF TasksInv, ReplyInv, Tasks, Expected

LEMMA WaitStep ==
  ASSUME TasksInv, WaitBg
  PROVE  TasksInv'
<1>0. Typed /\ HandlesNameLive  BY DEF TasksInv
<1>1. main = Idle /\ UNCHANGED <<task, g_tasks>>  BY DEF WaitBg, TaskVars
<1>2. PICK hs \in Waits :
        LET ts == [i \in DOMAIN hs |-> g_tasks[hs[i]]]
        IN  IF \E i \in DOMAIN hs : ts[i] = Nobody THEN UNCHANGED main /\ reply' = << >>
            ELSE main' = [at |-> "waiting", hs |-> hs, ts |-> ts, i |-> 1] /\ UNCHANGED reply
  BY DEF WaitBg
<1> DEFINE ts == [i \in DOMAIN hs |-> g_tasks[hs[i]]]
<1>3. CASE \E i \in DOMAIN hs : ts[i] = Nobody
  <2>1. main' = Idle /\ reply' = << >>  BY <1>1, <1>2, <1>3
  <2>2. MainInv' /\ ReplyInv'  BY <2>1 DEF MainInv, ReplyInv, Idle, WaitPlace
  <2> QED  BY <1>1, <2>1, <2>2, MainMoves
<1>4. CASE ~\E i \in DOMAIN hs : ts[i] = Nobody
  <2>1. main' = [at |-> "waiting", hs |-> hs, ts |-> ts, i |-> 1] /\ UNCHANGED reply
    BY <1>2, <1>4
  <2>2. PICK n \in {1, 2} : DOMAIN hs = 1 .. n /\ hs \in Seq(Handles) /\ hs \in [1 .. n -> Handles]
    <3>1. CASE \E h \in Handles : hs = <<h>>  BY <3>1
    <3>2. CASE \E g, h \in Handles : hs = <<g, h>>  BY <3>2
    <3> QED  BY <3>1, <3>2 DEF Waits
  <2>3. \A i \in 1 .. n : ts[i] = g_tasks[hs[i]] /\ ts[i] # Nobody /\ hs[i] \in Handles
    BY <1>4, <2>2
  <2>4. \A i \in 1 .. n : ts[i] \in Tasks
    BY <1>0, <2>3, NamedIsTask
  <2>5. ts \in Seq(Nat) /\ Len(ts) = n
    <3>1. ts = [i \in 1 .. n |-> ts[i]] /\ n \in Nat  BY <2>2
    <3> HIDE DEF ts
    <3>2. Tasks \subseteq Nat  BY <1>0, TaskTypes DEF Tasks
    <3>3. \A i \in 1 .. n : ts[i] \in Nat  BY <2>4, <3>2
    <3> QED  BY <3>1, <3>3, IsASeq
  <2> HIDE DEF ts
  <2>6. main' \in WaitState  BY <2>1, <2>2, <2>5 DEF WaitState, WaitPlace
  <2>7. /\ main'.at = "waiting" /\ main'.hs = hs /\ main'.ts = ts /\ main'.i = 1
        /\ 1 \in 1 .. n /\ \A j \in 1 .. n : ~(j < 1)
    BY <2>1
  <2>8. MainInv'
    BY <1>1, <2>2, <2>3, <2>4, <2>5, <2>7 DEF MainInv, Tasks
  <2> QED  BY <1>1, <2>1, <2>6, <2>8, MainMoves, SameReply
<1> QED  BY <1>3, <1>4

\* Going on to the next handle once this one's task is completed.
LEMMA NextWaitStep ==
  ASSUME TasksInv, main.at \in {"waiting", "joining"}, NextWait, task[Looked].completed,
         UNCHANGED <<task, g_tasks, reply>>
  PROVE  TasksInv'
<1>1. /\ main \in WaitState /\ Len(main.ts) \in Nat /\ main.at \in WaitPlace
      /\ main.at # "collecting"
  BY Places, LenProperties DEF TasksInv, WaitState, WaitPlace
<1>2. /\ DOMAIN main.hs = 1 .. Len(main.ts) /\ main.i \in 1 .. Len(main.ts)
      /\ \A j \in 1 .. Len(main.ts) :
            g_tasks[main.hs[j]] = main.ts[j] /\ main.ts[j] \in Tasks
      /\ \A j \in 1 .. Len(main.ts) : j < main.i => task[main.ts[j]].completed
  BY <1>1 DEF TasksInv, MainInv
<1>3. \A j \in 1 .. Len(main.ts) : j <= main.i => task[main.ts[j]].completed
  BY <1>1, <1>2 DEF Looked
<1>4. CASE main.i = Len(main.ts)
  <2>1. main' = [main EXCEPT !.at = "collecting"]  BY <1>4 DEF NextWait
  <2>2. /\ main' \in WaitState /\ main'.at = "collecting" /\ main'.hs = main.hs
        /\ main'.ts = main.ts /\ main'.i = main.i
    BY <1>1, <2>1 DEF WaitState, WaitPlace
  <2>3. \A j \in 1 .. Len(main.ts) : task[main.ts[j]].completed  BY <1>1, <1>3, <1>4
  <2>4. MainInv'  BY <1>2, <2>2, <2>3 DEF MainInv, Tasks
  <2> QED  BY <2>2, <2>4, MainMoves, SameReply
<1>5. CASE main.i # Len(main.ts)
  <2>1. main' = [main EXCEPT !.at = "waiting", !.i = @ + 1]  BY <1>5 DEF NextWait
  <2>2. /\ main' \in WaitState /\ main'.at = "waiting" /\ main'.hs = main.hs
        /\ main'.ts = main.ts /\ main'.i = main.i + 1
    <3>1. /\ main.i \in Nat /\ main.ts \in Seq(Nat) /\ main.hs \in Seq(Handles)
          /\ main = [at |-> main.at, hs |-> main.hs, ts |-> main.ts, i |-> main.i]
      BY <1>1 DEF WaitState
    <3>2. main' = [at |-> "waiting", hs |-> main.hs, ts |-> main.ts, i |-> main.i + 1]
      BY <2>1, <3>1
    <3>3. main.i + 1 \in Nat  BY <3>1
    <3> QED  BY <3>1, <3>2, <3>3 DEF WaitState, WaitPlace
  <2>3. /\ main.i + 1 \in 1 .. Len(main.ts)
        /\ \A j \in 1 .. Len(main.ts) : j < main.i + 1 => task[main.ts[j]].completed
    BY <1>1, <1>2, <1>3, <1>5
  <2>4. MainInv'  BY <1>2, <2>2, <2>3 DEF MainInv, Tasks
  <2> QED  BY <2>2, <2>4, MainMoves, SameReply
<1> QED  BY <1>4, <1>5

\* What the script's thread waits for, in any of the places of a wait.
LEMMA WaitFacts ==
  ASSUME TasksInv, main.at \in WaitPlace
  PROVE  /\ main \in WaitState /\ main.hs \in Seq(Handles) /\ Len(main.ts) \in Nat
         /\ DOMAIN main.ts = 1 .. Len(main.ts)
         /\ DOMAIN main.hs = 1 .. Len(main.ts) /\ main.i \in 1 .. Len(main.ts)
         /\ \A j \in 1 .. Len(main.ts) : /\ main.hs[j] \in Handles
                                         /\ g_tasks[main.hs[j]] = main.ts[j]
                                         /\ main.ts[j] \in Tasks
<1>1. main \in WaitState  BY Places DEF TasksInv
<1>2. main.hs \in Seq(Handles) /\ main.ts \in Seq(Nat)  BY <1>1 DEF WaitState
<1>3. Len(main.ts) \in Nat /\ DOMAIN main.ts = 1 .. Len(main.ts)  BY <1>2, LenProperties
<1>4. /\ DOMAIN main.hs = 1 .. Len(main.ts) /\ main.i \in 1 .. Len(main.ts)
      /\ \A j \in 1 .. Len(main.ts) :
            g_tasks[main.hs[j]] = main.ts[j] /\ main.ts[j] \in Tasks
  BY DEF TasksInv, MainInv
<1>5. \A j \in 1 .. Len(main.ts) : main.hs[j] \in Handles
  <2>1. DOMAIN main.hs = 1 .. Len(main.hs)  BY <1>2, LenProperties
  <2> QED  BY <1>2, <1>4, <2>1, ElementOfSeq
<1> QED  BY <1>1, <1>2, <1>3, <1>4, <1>5

LEMMA LookStep ==
  ASSUME TasksInv, LookAtTask
  PROVE  TasksInv'
<1>1. main.at = "waiting" /\ UNCHANGED <<task, g_tasks, reply>>
  BY DEF LookAtTask, TaskVars
<1>2. CASE task[Looked].completed  BY <1>1, <1>2, NextWaitStep DEF LookAtTask
<1>3. CASE ~task[Looked].completed
  <2>1. main' = [main EXCEPT !.at = "joining"]  BY <1>3 DEF LookAtTask
  <2>2. main \in WaitState  BY <1>1, WaitFacts DEF WaitPlace
  <2>3. /\ main' \in WaitState /\ main'.at = "joining" /\ main'.hs = main.hs
        /\ main'.ts = main.ts /\ main'.i = main.i
    BY <2>1, <2>2 DEF WaitState, WaitPlace
  <2>4. MainInv'  BY <1>1, <2>3 DEF TasksInv, MainInv, Tasks, WaitPlace
  <2> QED  BY <1>1, <2>3, <2>4, MainMoves, SameReply
<1> QED  BY <1>2, <1>3

LEMMA JoinStep ==
  ASSUME TasksInv, Join
  PROVE  TasksInv'
<1>1. /\ main.at = "joining" /\ task[Looked].runner = "ended" /\ NextWait
      /\ UNCHANGED <<task, g_tasks, reply>>
  BY DEF Join, TaskVars
<1>2. Looked \in Tasks  BY <1>1, WaitFacts DEF Looked, WaitPlace
<1>3. task[Looked].completed  BY <1>1, <1>2 DEF TasksInv, RunnerInv
<1> QED  BY <1>1, <1>3, NextWaitStep

\* A handle that is not given back names none of the tasks that are destroyed,
\* because no two handles name one task.
LEMMA CollectStep ==
  ASSUME TasksInv, Collect
  PROVE  TasksInv'
<1> DEFINE n == Len(main.ts)
           of == {main.ts[i] : i \in DOMAIN main.ts}
<1>0. Typed /\ RunnerInv /\ HandlesNameLive  BY DEF TasksInv
<1>1. main.at = "collecting" /\ main' = Idle  BY DEF Collect
<1>2. /\ reply' = [i \in DOMAIN main.ts |-> [t |-> main.ts[i], value |-> task[main.ts[i]].result]]
      /\ g_tasks' = [h \in Handles |->
                       IF \E i \in DOMAIN main.ts : main.hs[i] = h THEN Nobody ELSE g_tasks[h]]
      /\ task' = [t \in Tasks |->
                    IF t \in of THEN [task[t] EXCEPT !.memory = "freed"] ELSE task[t]]
  BY DEF Collect
<1>3. /\ n \in Nat /\ DOMAIN main.ts = 1 .. n
      /\ \A j \in 1 .. n : /\ main.hs[j] \in Handles
                           /\ g_tasks[main.hs[j]] = main.ts[j]
                           /\ main.ts[j] \in Tasks
  BY <1>1, WaitFacts DEF WaitPlace
<1>4. \A t \in of : t \in Tasks /\ task[t].completed
  BY <1>1, <1>3 DEF TasksInv, MainInv, WaitPlace
<1> HIDE DEF of
<1>5. Len(task) \in Nat /\ \A t \in Tasks : task[t] \in BGTask
  BY <1>0, TaskTypes
<1>6. \A t \in Tasks :
        /\ task'[t] \in BGTask /\ task'[t].kind = task[t].kind
        /\ task'[t].completed = task[t].completed /\ task'[t].result = task[t].result
        /\ task'[t].runner = task[t].runner
        /\ task'[t].memory = IF t \in of THEN "freed" ELSE task[t].memory
  BY <1>2, <1>5 DEF BGTask
<1>7. task' \in Seq(BGTask) /\ Len(task') = Len(task) /\ Tasks' = Tasks
  <2>1. task' = [t \in 1 .. Len(task) |-> task'[t]]  BY <1>2 DEF Tasks
  <2>2. \A t \in 1 .. Len(task) : task'[t] \in BGTask  BY <1>6 DEF Tasks
  <2>3. task' \in Seq(BGTask) /\ Len(task') = Len(task)  BY <1>5, <2>1, <2>2, IsASeq
  <2> QED  BY <2>3 DEF Tasks
<1>8. Typed'
  <2>1. g_tasks' \in [Handles -> 0 .. Len(task)]
    <3>1. Nobody \in 0 .. Len(task) /\ g_tasks \in [Handles -> 0 .. Len(task)]
      BY <1>0, <1>5 DEF Typed, Nobody
    <3> QED  BY <1>2, <3>1
  <2> QED  BY <1>1, <1>7, <2>1 DEF Typed
<1>9. RunnerInv'
  <2>1. \A t \in Tasks : Sound(task'[t])
    BY <1>0, <1>4, <1>6, SoundTasks DEF Sound
  <2> QED  BY <1>7, <2>1 DEF RunnerInv, Sound, Expected
<1>10. HandlesNameLive'
  <2>1. ASSUME NEW h \in Handles, g_tasks'[h] # Nobody
        PROVE  g_tasks'[h] = g_tasks[h] /\ g_tasks[h] \in Tasks /\ g_tasks[h] \notin of
    <3>1. g_tasks'[h] = g_tasks[h] /\ ~\E i \in 1 .. n : main.hs[i] = h
      BY <1>2, <1>3, <2>1
    <3>2. g_tasks[h] \in Tasks  BY <1>0, <2>1, <3>1, NamedIsTask
    <3>3. g_tasks[h] \notin of
      <4>1. SUFFICES ASSUME NEW i \in 1 .. n, g_tasks[h] = main.ts[i] PROVE FALSE
        BY <1>3 DEF of
      <4>2. g_tasks[main.hs[i]] = g_tasks[h] /\ main.hs[i] \in Handles  BY <1>3, <4>1
      <4> QED  BY <1>0, <2>1, <3>1, <4>2 DEF HandlesNameLive
    <3> QED  BY <3>1, <3>2, <3>3
  <2> QED  BY <1>0, <1>6, <2>1 DEF HandlesNameLive
<1>11. MainInv'  BY <1>1 DEF MainInv, Idle, WaitPlace
<1>12. ReplyInv'
  <2> SUFFICES ASSUME NEW i \in DOMAIN reply'
               PROVE  /\ reply'[i].t \in Tasks'
                      /\ reply'[i].value = IF task'[reply'[i].t].kind = "enhanced" THEN Whole ELSE Nil
    BY DEF ReplyInv, Expected
  <2>1. i \in 1 .. n /\ reply'[i].t = main.ts[i] /\ reply'[i].value = task[main.ts[i]].result
    BY <1>2, <1>3
  <2>2. main.ts[i] \in of /\ main.ts[i] \in Tasks  BY <1>3, <2>1 DEF of
  <2>3. task[main.ts[i]].result = Expected(main.ts[i])
    BY <1>0, <1>4, <2>2 DEF RunnerInv
  <2> QED  BY <1>6, <1>7, <2>1, <2>2, <2>3 DEF Expected
<1> QED  BY <1>8, <1>9, <1>10, <1>11, <1>12 DEF TasksInv

\* A call that answers nothing of a task.
LEMMA OtherCall ==
  ASSUME TasksInv, UNCHANGED <<task, g_tasks, main>>,
         \A i \in DOMAIN reply' : reply'[i].t # Nobody => i \in DOMAIN reply /\ reply'[i] = reply[i]
  PROVE  TasksInv'
  BY DEF TasksInv, Typed, RunnerInv, HandlesNameLive, MainInv, ReplyInv, Tasks, Expected

LEMMA TasksStep ==
  ASSUME TasksInv, [Next]_vars
  PROVE  TasksInv'
<1>1. CASE UNCHANGED vars  BY <1>1, Nothing DEF vars
<1>2. ASSUME NEW kind \in {"basic", "enhanced"}, Start(kind) PROVE TasksInv'
  BY <1>2, StartStep
<1>3. CASE ProcessBgJobs
  <2>1. UNCHANGED <<task, g_tasks, main>> /\ reply' = << >>
    BY <1>3 DEF ProcessBgJobs, TaskVars
  <2> QED  BY <2>1, OtherCall
<1>4. CASE ProcessBackgroundJobs  BY <1>4, Nothing DEF ProcessBackgroundJobs
<1>5. ASSUME NEW t \in Tasks, Runner(t) PROVE TasksInv'  BY <1>5, RunnerStep
<1> QED  BY <1>1, <1>2, <1>3, <1>4, <1>5, WaitStep, RegisterStep, LookStep,
            JoinStep, CollectStep DEF Next, TaskCall, Proceed

\* The inductive invariant holds in every reachable state.
THEOREM Inductive == Spec => []TasksInv
<1> QED  BY TasksInit, TasksStep, PTL DEF Spec

\* A handle of the table names a task that was not destroyed, and no task has
\* two: whichever handles are waited for, alone, together or twice.
THEOREM HandlesStayLive == Spec => []HandlesNameLive
<1>1. TasksInv => HandlesNameLive  BY DEF TasksInv
<1> QED  BY <1>1, Inductive, PTL

LEMMA MemoryKept ==
  ASSUME TasksInv, [Next]_vars, NEW t \in Tasks, task[t].memory = "live",
         task'[t].memory = "freed"
  PROVE  Register \/ Collect
<1>1. DOMAIN task = Tasks /\ Len(task) \in Nat  BY TaskTypes DEF TasksInv
<1>2. CASE \E kind \in {"basic", "enhanced"} : Start(kind)
  <2>1. PICK new : task' = Append(task, new)  BY <1>2 DEF Start
  <2>2. task'[t] = task[t]  BY <1>1, <2>1, AppendProperties DEF TasksInv, Typed, Tasks
  <2> QED  BY <2>2
<1>3. ASSUME NEW u \in Tasks, Runner(u)  PROVE FALSE
  <2>1. PICK new : \/ task' = [task EXCEPT ![u] = new] /\ new.memory = task[u].memory
                   \/ UNCHANGED task
    <3>1. task[u] \in BGTask  BY TaskTypes DEF TasksInv
    <3> QED  BY <1>3, <3>1
             DEF Runner, RunBasic, Post, TakeResult, Complete, Leave, Writes, At, BGTask
  <2> QED  BY <1>1, <2>1
<1>4. CASE WaitBg \/ ProcessBgJobs \/ ProcessBackgroundJobs \/ LookAtTask \/ Join \/ UNCHANGED vars
  <2>1. UNCHANGED task
    BY <1>4 DEF WaitBg, ProcessBgJobs, ProcessBackgroundJobs, LookAtTask, Join, TaskVars, vars
  <2> QED  BY <2>1
<1> QED  BY <1>2, <1>3, <1>4 DEF Next, TaskCall, Proceed

\* Only a task whose thread has stored the result and marked it is destroyed,
\* in whatever order scripts wait, except for the one that finds the table
\* full: that one is destroyed with its thread running.
THEOREM WaitsFreeLast == Spec => [][FreesCompleted]_vars
<1>1. ASSUME TasksInv, [Next]_vars  PROVE [FreesCompleted]_vars
  <2> SUFFICES ASSUME NEW t \in Tasks, task[t].memory = "live", task'[t].memory = "freed"
               PROVE  task[t].completed \/ main.at = "registering"
    BY DEF FreesCompleted
  <2>1. CASE Register  BY <2>1 DEF Register
  <2>2. CASE Collect
    <3> DEFINE of == {main.ts[i] : i \in DOMAIN main.ts}
    <3>1. task' = [u \in Tasks |-> IF u \in of THEN [task[u] EXCEPT !.memory = "freed"] ELSE task[u]]
      BY <2>2 DEF Collect
    <3>2. main.at = "collecting" /\ DOMAIN main.ts = 1 .. Len(main.ts)
      BY <1>1, <2>2, WaitFacts DEF Collect, WaitPlace
    <3>3. \A j \in 1 .. Len(main.ts) : task[main.ts[j]].completed
      BY <1>1, <3>2 DEF TasksInv, MainInv, WaitPlace
    <3>4. t \in of  BY <3>1
    <3> QED  BY <3>2, <3>3, <3>4
  <2> QED  BY <1>1, <2>1, <2>2, MemoryKept
<1> QED  BY <1>1, Inductive, PTL DEF Spec

\* A wait answers what the tasks ended with, never what they were created with.
THEOREM WholeResults == Spec => []ResultsWhole
<1>1. TasksInv => ResultsWhole
  BY DEF TasksInv, ReplyInv, ResultsWhole, Expected
<1> QED  BY <1>1, Inductive, PTL

=============================================================================
