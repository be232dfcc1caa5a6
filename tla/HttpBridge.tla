------------------------------ MODULE HttpBridge ------------------------------
(***************************************************************************)
(* src/shared_libs/http/libkylhttp.c: route_handler_bridge, on one thread  *)
(* per connection, hands the call of a Kuyil handler to the main thread    *)
(* through the task queue and waits for it; execute_kuyil_handler_main_    *)
(* thread runs it.  Request and response builder travel as numbers of the  *)
(* unsynchronised g_http_ptrs registry.                                    *)
(*                                                                         *)
(* A request, its thread and its HttpTaskContext share one name; the block *)
(* of memory a context lies in is a name of its own, given out again once  *)
(* the context is freed.  The two time limits (5 s for room in the queue,  *)
(* 30 s for the handler) are steps that may always happen.  The main       *)
(* thread may hold a context that was freed: it then reads, completes and  *)
(* signals the context that has the block by now, and where there is none  *)
(* it reads any value.  A thread that goes on with the freed queue is not  *)
(* followed further ("undefined").                                         *)
(***************************************************************************)
EXTENDS TaskQueue

CONSTANT MaxPointers     \* HTTP_MAX_POINTERS

ASSUME MaxPointersAssumption == MaxPointers \in Nat \ {0}

Request == Item
Kind == {"req", "res"}
Handle == 0 .. MaxPointers - 1

VARIABLES
  pc,         \* where each thread is in route_handler_bridge
  loaded,     \* the value of g_http_next a thread has read in http_register_ptr
  handle,     \* req_h and res_h, 0 when the registry is full
  nextPtr,    \* g_http_next
  ptrs,       \* g_http_ptrs: whose request or builder a handle stands for
  context,    \* the life of each HttpTaskContext
  block,      \* the memory it lies in
  completed,  \* ctx->completed
  result,     \* how the call of the bridge ended
  main,       \* what the main thread is doing
  current,    \* the context it works on
  view,       \* the handles it read from that context
  stale,      \* it read them after the context was freed
  uses        \* history: the pointers handlers got for their handles

bridgeVars == <<pc, result>>
registryVars == <<loaded, handle, nextPtr, ptrs>>
contextVars == <<context, block, completed>>
mainVars == <<main, current, view, stale, uses>>
vars == <<queueVars, bridgeVars, registryVars, contextVars, mainVars>>

None == NoItem
Pointer == {<<r, k>> : r \in Request, k \in Kind}
\* A handler asked the registry: the request it was called for, whether with the
\* handles of a freed context, and the pointer it got.
Use == [for : Request, stale : BOOLEAN, ptr : Pointer]
PC == {"req", "reqStore", "res", "resStore", "lookup", "enqueue", "waiting",
       "fallback", "done", "undefined"}

TypeOK ==
  /\ QueueTypeOK
  /\ pc \in [Request -> PC]
  /\ result \in [Request -> {"none", "completed", "timeout", "fallback"}]
  /\ loaded \in [Request -> Handle]
  /\ handle \in [Request -> [Kind -> Handle]]
  /\ nextPtr \in 1 .. MaxPointers
  /\ ptrs \in [Handle -> Pointer \cup {None}]
  /\ context \in [Request -> {"unused", "live", "freed"}]
  /\ block \in [Request -> Request]
  /\ completed \in [Request -> BOOLEAN]
  /\ main \in {"idle", "task", "calling", "signalling", "closing", "closed"}
  /\ current \in Request \cup {None}
  /\ view \in [Kind -> Handle]
  /\ stale \in BOOLEAN
  /\ uses \in SUBSET Use

NoHandles == [k \in Kind |-> 0]

Init ==
  /\ QueueInit
  /\ pc = [r \in Request |-> "req"]
  /\ result = [r \in Request |-> "none"]
  /\ loaded = [r \in Request |-> 0]
  /\ handle = [r \in Request |-> NoHandles]
  /\ nextPtr = 1
  /\ ptrs = [h \in Handle |-> None]
  /\ context = [r \in Request |-> "unused"]
  /\ block = [r \in Request |-> r]
  /\ completed = [r \in Request |-> FALSE]
  /\ main = "idle"
  /\ current = None
  /\ view = NoHandles
  /\ stale = FALSE
  /\ uses = {}

Goes(r, from, to) == pc[r] = from /\ pc' = [pc EXCEPT ![r] = to]
MainGoes(from, to) == main = from /\ main' = to
QueueFreed == main = "closed"

-----------------------------------------------------------------------------
(* The pointer registry *)

\* int h = g_http_next++ reads, and only then writes, on any thread ...
RegisterLoad(r, k) ==
  /\ IF nextPtr < MaxPointers
     THEN /\ Goes(r, k, IF k = "req" THEN "reqStore" ELSE "resStore")
          /\ loaded' = [loaded EXCEPT ![r] = nextPtr]
     ELSE /\ Goes(r, k, IF k = "req" THEN "res" ELSE "lookup")
          /\ UNCHANGED loaded
  /\ UNCHANGED <<queueVars, result, handle, nextPtr, ptrs, contextVars, mainVars>>

RegisterStore(r, k) ==
  /\ IF k = "req" THEN Goes(r, "reqStore", "res") ELSE Goes(r, "resStore", "lookup")
  /\ nextPtr' = loaded[r] + 1
  /\ handle' = [handle EXCEPT ![r][k] = loaded[r]]
  /\ ptrs' = [ptrs EXCEPT ![loaded[r]] = <<r, k>>]
  /\ UNCHANGED <<queueVars, result, loaded, contextVars, mainVars>>

\* http_unregister_ptr of both handles; handle 0 is ignored.
Unregister(r) ==
  ptrs' = [h \in Handle |->
             IF h # 0 /\ h \in {handle[r]["req"], handle[r]["res"]} THEN None ELSE ptrs[h]]

-----------------------------------------------------------------------------
(* route_handler_bridge *)

\* The context that lies in block b now, if any.
Tenants(b) == {q \in Request : context[q] = "live" /\ block[q] = b}

\* The route has a handler and vm_get_task_queue returns the queue: malloc gives
\* any block that is free ...
CreateContext(r) ==
  /\ Goes(r, "lookup", "enqueue")
  /\ ~QueueFreed
  /\ context' = [context EXCEPT ![r] = "live"]
  /\ \E b \in Request : Tenants(b) = {} /\ block' = [block EXCEPT ![r] = b]
  /\ UNCHANGED <<queueVars, result, registryVars, completed, mainVars>>

\* ... or the handler is missing, or ___C_FALLBACK___, or there is no queue.
UseFallback(r) ==
  /\ Goes(r, "lookup", "fallback")
  /\ UNCHANGED <<queueVars, result, registryVars, contextVars, mainVars>>

Enqueue(r) ==
  /\ Goes(r, "enqueue", "waiting")
  /\ ~QueueFreed
  /\ Put(r)
  /\ UNCHANGED <<result, registryVars, contextVars, mainVars>>

WaitForRoom(r) ==
  /\ pc[r] = "enqueue"
  /\ ~QueueFreed
  /\ WaitNotFull(r)
  /\ UNCHANGED <<bridgeVars, registryVars, contextVars, mainVars>>

SpuriousWakeup(r) ==
  /\ StopWaiting(r)
  /\ UNCHANGED <<bridgeVars, registryVars, contextVars, mainVars>>

\* Mutant: the thread that gives up has enqueued its task all the same.
EnqueueTimesOutLate(r) ==
  /\ Goes(r, "enqueue", "fallback")
  /\ ~QueueFreed
  /\ Put(r)
  /\ context' = [context EXCEPT ![r] = "freed"]
  /\ UNCHANGED <<result, registryVars, block, completed, mainVars>>

\* Five seconds without room.
EnqueueTimesOut(r) ==
  /\ Goes(r, "enqueue", "fallback")
  /\ StopWaiting(r)
  /\ context' = [context EXCEPT ![r] = "freed"]
  /\ UNCHANGED <<result, registryVars, block, completed, mainVars>>

EnqueueRefused(r) ==
  /\ Goes(r, "enqueue", "fallback")
  /\ ~QueueFreed
  /\ Refused(r)
  /\ context' = [context EXCEPT ![r] = "freed"]
  /\ UNCHANGED <<result, registryVars, block, completed, mainVars>>

\* vm_free has freed the queue under the thread.
EnqueueUndefined(r) ==
  /\ Goes(r, "enqueue", "undefined")
  /\ QueueFreed
  /\ UNCHANGED <<queueVars, result, registryVars, contextVars, mainVars>>

\* http_task_context_wait returns nothing: after 30 seconds as after the signal
\* the context is destroyed and both handles are taken back.
ReturnWith(r, how) ==
  /\ Goes(r, "waiting", "done")
  /\ result' = [result EXCEPT ![r] = how]
  /\ context' = [context EXCEPT ![r] = "freed"]
  /\ Unregister(r)
  /\ UNCHANGED <<queueVars, loaded, handle, nextPtr, block, completed, mainVars>>

\* Mutant: the wait has no time limit.
NoTimeLimit(r) == FALSE /\ UNCHANGED vars

WaitTimesOut(r) == ~completed[r] /\ ReturnWith(r, "timeout")

\* Mutant: the wait does not test the flag again after a wakeup.
WaitReturnsUntested(r) == ReturnWith(r, "completed")

WaitReturns(r) == completed[r] /\ ReturnWith(r, "completed")

Fallback(r) ==
  /\ Goes(r, "fallback", "done")
  /\ result' = [result EXCEPT ![r] = "fallback"]
  /\ Unregister(r)
  /\ UNCHANGED <<queueVars, loaded, handle, nextPtr, contextVars, mainVars>>

-----------------------------------------------------------------------------
(* The main thread: vm_process_pending_tasks, execute_kuyil_handler_main_   *)
(* thread, and vm_free                                                      *)

TakeTask ==
  /\ MainGoes("idle", "task")
  /\ Pop
  /\ current' = tasks[head]
  /\ UNCHANGED <<bridgeVars, registryVars, contextVars, view, stale, uses>>

Tenant == Tenants(block[current])

\* The handler is called if both pointers are there and its global is a function.
ReadContext ==
  /\ main = "task"
  /\ view' \in IF Tenant = {} THEN [Kind -> Handle] ELSE {handle[q] : q \in Tenant}
  /\ stale' = (context[current] # "live")
  /\ main' \in {"signalling"} \cup {x \in {"calling"} : \A k \in Kind : ptrs[view'[k]] # None}
  /\ UNCHANGED <<queueVars, bridgeVars, registryVars, contextVars, current, uses>>

\* Every operation of the handler on one of its handles asks the registry again.
UseHandle(k) ==
  /\ main = "calling"
  /\ ptrs[view[k]] # None
  /\ uses' = uses \cup {[for |-> current, stale |-> stale, ptr |-> ptrs[view[k]]]}
  /\ UNCHANGED <<queueVars, bridgeVars, registryVars, contextVars, main, current, view, stale>>

\* http_task_context_signal, on whatever lies at the context's address.
Signal ==
  /\ main \in {"calling", "signalling"}
  /\ main' = "idle"
  /\ completed' = [r \in Request |-> completed[r] \/ r \in Tenant]
  /\ current' = None
  /\ view' = NoHandles
  /\ stale' = FALSE
  /\ UNCHANGED <<queueVars, bridgeVars, registryVars, context, block, uses>>

FreeShutdown ==
  /\ MainGoes("idle", "closing")
  /\ Shutdown
  /\ UNCHANGED <<bridgeVars, registryVars, contextVars, current, view, stale, uses>>

FreeQueue ==
  /\ MainGoes("closing", "closed")
  /\ UNCHANGED <<queueVars, bridgeVars, registryVars, contextVars, current, view, stale, uses>>

-----------------------------------------------------------------------------
Thread(r) ==
  \/ \E k \in Kind : RegisterLoad(r, k) \/ RegisterStore(r, k)
  \/ CreateContext(r) \/ UseFallback(r)
  \/ Enqueue(r) \/ WaitForRoom(r)
  \/ EnqueueTimesOut(r) \/ EnqueueRefused(r) \/ EnqueueUndefined(r)
  \/ WaitTimesOut(r) \/ WaitReturns(r)
  \/ Fallback(r)

Next ==
  \/ \E r \in Request : Thread(r) \/ SpuriousWakeup(r)
  \/ TakeTask \/ ReadContext \/ (\E k \in Kind : UseHandle(k)) \/ Signal
  \/ FreeShutdown \/ FreeQueue

Spec == Init /\ [][Next]_vars

\* The threads of the server are scheduled.  The time limit of enqueue is an
\* absolute time, so wakeups do not put it off (strong fairness).  No fairness
\* for the main thread: the script need not poll, a handler may block.
FairSpec ==
  /\ Spec
  /\ \A r \in Request : WF_vars(Thread(r)) /\ SF_vars(EnqueueTimesOut(r))

-----------------------------------------------------------------------------
(* Properties *)

\* A thread sleeps for room only while there is none that is not spoken for.
RoomIsOffered == WaitersCovered({r \in Request : pc[r] = "enqueue" /\ r \notin asleep})

\* Two requests were given one handle (libkylhttp.c:148 is not atomic).
Shares(q, r) == \E j, k \in Kind : handle[q][j] = handle[r][k] /\ handle[q][j] # 0

\* The C fallback and the Kuyil handler never both answer one request: a thread
\* that falls back has left no task behind, not even one that was about to fit.  If
\* a handler still gets at its request or builder, it was called for a request that
\* was registered under the same handle, or with the handles of a freed context.
FallbackExcludesHandler ==
  \A r \in Request :
    pc[r] = "fallback" \/ result[r] = "fallback" =>
      /\ current # r /\ \A i \in DOMAIN enqueued : enqueued[i] # r
      /\ \A u \in uses : u.ptr[1] = r /\ ~u.stale => u.for # r /\ Shares(u.for, r)

\* Its context lies in the block of one whose thread had given up before: the
\* main thread may have meant that one when it completed this.
Inherited(r) == \E q \in Request \ {r} : block[q] = block[r] /\ result[q] = "timeout"

\* A thread is told of a completion only after the main thread is through with
\* its context, so what it destroys then nobody else uses; but for the threads
\* that can be told of the completion of a context that was freed before.
CompletedMeansOver ==
  \A r \in Request : result[r] = "completed" /\ ~Inherited(r) =>
    /\ current # r
    /\ \E i \in DOMAIN processed : processed[i] = r
    /\ \A i \in DOMAIN Content : Content[i] # r

\* Every connection's thread leaves the bridge, whether or not the main thread
\* ever processes a task; unless vm_free takes the queue away under it.
BridgeReturns == \A r \in Request : <>(pc[r] \in {"done", "undefined"})

\* libkylhttp.c:809, "Handler executed successfully on main thread", and so the
\* context is destroyed: no task in the queue or on the main thread refers to it.
ExecutedBeforeDestroy ==
  \A r \in Request : context[r] = "freed" =>
    current # r /\ \A i \in DOMAIN Content : Content[i] # r

\* libkylhttp.c:140, a registry "to safely pass C pointers to Kuyil": the handler
\* that is called for a request gets at that request and its builder only.
HandlerGetsItsRequest == \A u \in uses : u.ptr[1] = u.for
=============================================================================
