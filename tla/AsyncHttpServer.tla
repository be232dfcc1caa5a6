--------------------------- MODULE AsyncHttpServer ---------------------------
(***************************************************************************)
(* src/src/async_http_server.c, handle_request: every connection runs on a *)
(* thread of the I/O pool, submits the route's handler as an avatar, and   *)
(* polls for it under the server's vm_lock, giving the lock up for each    *)
(* 10 ms sleep.  The handler writes its response into a builder that it    *)
(* finds through the kyl_aio pointer registry of src/src/async_http.c.     *)
(*                                                                         *)
(* A request and its avatar share one name.  MaxAttempts stands for the    *)
(* 30000 polls, MaxPointers for KYL_AIO_MAX_POINTERS (2048).  The limits   *)
(* of 10 completions a poll and of 4 I/O threads are not reached.  Static  *)
(* files and unmatched routes are one action: they are answered without    *)
(* the lock and without a builder.  The server may have answered others    *)
(* before: the registry starts with any number of handles given out.       *)
(***************************************************************************)
EXTENDS AvatarRuntime

CONSTANTS MaxAttempts, MaxPointers, NoRequest

ASSUME LimitsAssumption == MaxAttempts \in Nat \ {0} /\ MaxPointers \in Nat \ {0}
ASSUME NoRequestAssumption == NoRequest \notin Avatar

Request == Avatar

VARIABLES
  pc,          \* where the thread of a request is in handle_request
  vmLock,      \* the request whose thread holds server->vm_lock
  attempts,    \* attempts
  status,      \* the response that was returned
  refCount,    \* response_builder->ref_count
  builder,     \* the builder of each request
  responseId,  \* response_id, 0 when the registry had no room
  registry,    \* g_kyl_aio_ptrs, slots 1 .. MaxPointers - 1
  nextId,      \* g_kyl_aio_next
  keys,        \* the keys array the response object of the handler points to
  fetched      \* the builder pointer a handler has fetched and not used yet

serverVars == <<pc, vmLock, attempts, status>>
builderVars == <<refCount, builder, responseId, registry, nextId, keys>>
vars == <<runtimeVars, serverVars, builderVars, fetched>>

PC == {"new", "looking", "prepared", "submitting", "polling", "asleep", "timedOut", "done"}
Status == {"none", "direct", "noHandler", "submitFailed", "handlerError", "timeout", "lost",
           "blank", "written"}
Memory == {"unused", "blank", "written", "freed"}

TypeOK ==
  /\ RuntimeTypeOK
  /\ pc \in [Request -> PC]
  /\ vmLock \in Request \cup {NoRequest}
  /\ attempts \in [Request -> 0 .. MaxAttempts]
  /\ status \in [Request -> Status]
  /\ refCount \in [Request -> Nat]
  /\ builder \in [Request -> Memory]
  /\ responseId \in [Request -> 0 .. MaxPointers - 1]
  /\ registry \in [1 .. MaxPointers - 1 -> Request \cup {NoRequest}]
  /\ nextId \in 1 .. MaxPointers
  /\ keys \in [Request -> {"unused", "live", "freed"}]
  /\ fetched \in [Request -> Request \cup {NoRequest}]

Init ==
  /\ RuntimeInit
  /\ pc = [r \in Request |-> "new"]
  /\ vmLock = NoRequest
  /\ attempts = [r \in Request |-> 0]
  /\ status = [r \in Request |-> "none"]
  /\ refCount = [r \in Request |-> 0]
  /\ builder = [r \in Request |-> "unused"]
  /\ responseId = [r \in Request |-> 0]
  /\ registry = [i \in 1 .. MaxPointers - 1 |-> NoRequest]
  /\ nextId \in 1 .. MaxPointers
  /\ keys = [r \in Request |-> "unused"]
  /\ fetched = [r \in Request |-> NoRequest]

Goes(r, from, to) == pc[r] = from /\ pc' = [pc EXCEPT ![r] = to]
Answer(r, s) == status' = [status EXCEPT ![r] = s]
Lock(r) == vmLock = NoRequest /\ vmLock' = r
Unlock == vmLock' = NoRequest

-----------------------------------------------------------------------------
(* The kyl_aio registry and the reference count of a builder *)

\* kyl_aio_register_ptr: a handle is never given out twice, nor after the last.
Register(r) ==
  IF nextId < MaxPointers
  THEN /\ responseId' = [responseId EXCEPT ![r] = nextId]
       /\ registry' = [registry EXCEPT ![nextId] = r]
       /\ nextId' = nextId + 1
  ELSE /\ responseId' = [responseId EXCEPT ![r] = 0]
       /\ UNCHANGED <<registry, nextId>>

\* kyl_aio_get_ptr
GetPtr(id) == IF id \in DOMAIN registry THEN registry[id] ELSE NoRequest

\* response_builder_release, n times
Release(r, n) ==
  /\ refCount' = [refCount EXCEPT ![r] = @ - n]
  /\ builder' = IF refCount[r] - n <= 0 THEN [builder EXCEPT ![r] = "freed"] ELSE builder

-----------------------------------------------------------------------------
(* handle_request *)

AnswerDirectly(r) ==
  /\ Goes(r, "new", "done")
  /\ Answer(r, "direct")
  /\ UNCHANGED <<runtimeVars, vmLock, attempts, builderVars, fetched>>

\* The lock is taken to look for the handler among the globals of the VM.
LookUp(r) ==
  /\ Goes(r, "new", "looking")
  /\ Lock(r)
  /\ UNCHANGED <<runtimeVars, attempts, status, builderVars, fetched>>

\* Mutant: the exit of a missing handler keeps vm_lock.
NoHandlerKeepsLock(r) ==
  /\ Goes(r, "looking", "done")
  /\ Answer(r, "noHandler")
  /\ UNCHANGED <<runtimeVars, vmLock, attempts, builderVars, fetched>>

\* No global of that name is a function, or the VM has no avatar runtime: 500.
NoHandler(r) ==
  /\ Goes(r, "looking", "done")
  /\ Answer(r, "noHandler")
  /\ Unlock
  /\ UNCHANGED <<runtimeVars, attempts, builderVars, fetched>>

\* The builder is created, registered, and retained once for the avatar.
Prepare(r) ==
  /\ Goes(r, "looking", "prepared")
  /\ refCount' = [refCount EXCEPT ![r] = 2]
  /\ builder' = [builder EXCEPT ![r] = "blank"]
  /\ Register(r)
  /\ keys' = [keys EXCEPT ![r] = "live"]
  /\ UNCHANGED <<runtimeVars, vmLock, attempts, status, fetched>>

SubmitList(r) ==
  /\ Goes(r, "prepared", "submitting")
  /\ ListHandle(r)
  /\ UNCHANGED <<vmLock, attempts, status, builderVars, fetched>>

SubmitQueue(r) ==
  /\ Goes(r, "submitting", "polling")
  /\ QueueHandle(r)
  /\ UNCHANGED <<vmLock, attempts, status, builderVars, fetched>>

\* The 500 of a failed submit leaves the builder and its handle behind.
SubmitFails(r) ==
  /\ Goes(r, "submitting", "done")
  /\ Unlist(r)
  /\ Answer(r, "submitFailed")
  /\ Unlock
  /\ UNCHANGED <<attempts, builderVars, fetched>>

\* avatar_runtime_process_completions calls back for any finished avatar.
Process(r, b) ==
  /\ pc[r] = "polling"
  /\ Complete(b)
  /\ UNCHANGED <<serverVars, builderVars, fetched>>

Collected == \A a \in Avatar : life[a] # "finished"

PollSleeps(r) ==
  /\ Goes(r, "polling", "asleep")
  /\ Collected
  /\ ~completed[r]
  /\ Unlock
  /\ UNCHANGED <<runtimeVars, attempts, status, builderVars, fetched>>

Wake(r) ==
  /\ Goes(r, "asleep", IF attempts[r] + 1 < MaxAttempts THEN "polling" ELSE "timedOut")
  /\ Lock(r)
  /\ attempts' = [attempts EXCEPT ![r] = @ + 1]
  /\ UNCHANGED <<runtimeVars, status, builderVars, fetched>>

\* So does the 500 of a handler that failed.
PollError(r) ==
  /\ Goes(r, "polling", "done")
  /\ Collected
  /\ completed[r] /\ outcome[r] = "error"
  /\ Answer(r, "handlerError")
  /\ Unlock
  /\ UNCHANGED <<runtimeVars, attempts, builderVars, fetched>>

\* Mutant: the answer does not wait for the handler.
PollAnswerEarly(r) ==
  /\ Goes(r, "polling", "done")
  /\ keys' = [keys EXCEPT ![r] = "freed"]
  /\ Answer(r, builder[r])
  /\ Release(r, 2)
  /\ Unlock
  /\ UNCHANGED <<runtimeVars, attempts, responseId, registry, nextId, fetched>>

\* The builder is copied, unregistered, and both references are released.
PollAnswer(r) ==
  /\ Goes(r, "polling", "done")
  /\ Collected
  /\ completed[r] /\ outcome[r] # "error"
  /\ keys' = [keys EXCEPT ![r] = "freed"]
  /\ IF GetPtr(responseId[r]) = NoRequest
     THEN Answer(r, "lost") /\ UNCHANGED <<refCount, builder, registry>>
     ELSE /\ Answer(r, builder[GetPtr(responseId[r])])
          /\ registry' = [registry EXCEPT ![responseId[r]] = NoRequest]
          /\ Release(GetPtr(responseId[r]), 2)
  /\ Unlock
  /\ UNCHANGED <<runtimeVars, attempts, responseId, nextId, fetched>>

\* Mutant: the timeout also releases the reference of the avatar.
TimeOutReleasesBoth(r) ==
  /\ Goes(r, "timedOut", "done")
  /\ keys' = [keys EXCEPT ![r] = "freed"]
  /\ Cancel(r)
  /\ Release(r, 2)
  /\ Answer(r, "timeout")
  /\ Unlock
  /\ UNCHANGED <<attempts, responseId, registry, nextId, fetched>>

\* The avatar may still run: only the server's reference is released.
TimeOut(r) ==
  /\ Goes(r, "timedOut", "done")
  /\ keys' = [keys EXCEPT ![r] = "freed"]
  /\ Cancel(r)
  /\ IF GetPtr(responseId[r]) = NoRequest
     THEN UNCHANGED <<refCount, builder, registry>>
     ELSE /\ registry' = [registry EXCEPT ![responseId[r]] = NoRequest]
          /\ Release(GetPtr(responseId[r]), 1)
  /\ Answer(r, "timeout")
  /\ Unlock
  /\ UNCHANGED <<attempts, responseId, nextId, fetched>>

-----------------------------------------------------------------------------
(* The route's handler on a worker of the avatar runtime: it calls the      *)
(* response functions any number of times; each takes the id out of the     *)
(* response object, fetches the builder, and only then writes to it.        *)

InBody(r) == life[r] = "running" /\ outcome[r] = "none"

\* After a timeout the keys and values of the response object are freed memory:
\* the handler may read any handle out of them, or none.
ReadId(r) == IF keys[r] = "live" THEN {responseId[r]} ELSE 0 .. MaxPointers - 1

FetchBuilder(r) ==
  /\ InBody(r)
  /\ fetched[r] = NoRequest
  /\ \E id \in ReadId(r) : fetched' = [fetched EXCEPT ![r] = GetPtr(id)]
  /\ UNCHANGED <<runtimeVars, serverVars, builderVars>>

WriteBuilder(r) ==
  /\ InBody(r)
  /\ fetched[r] # NoRequest
  /\ builder' = [builder EXCEPT ![fetched[r]] = IF @ = "freed" THEN "freed" ELSE "written"]
  /\ fetched' = [fetched EXCEPT ![r] = NoRequest]
  /\ UNCHANGED <<runtimeVars, serverVars, refCount, responseId, registry, nextId, keys>>

Worker(r) ==
  /\ fetched[r] = NoRequest
  /\ WorkerStep(r)
  /\ UNCHANGED <<serverVars, builderVars, fetched>>

-----------------------------------------------------------------------------
HandlerThread(r) ==
  \/ AnswerDirectly(r) \/ LookUp(r) \/ NoHandler(r) \/ Prepare(r)
  \/ SubmitList(r) \/ SubmitQueue(r) \/ SubmitFails(r)
  \/ PollSleeps(r) \/ Wake(r) \/ PollError(r) \/ PollAnswer(r) \/ TimeOut(r)
  \/ \E b \in Avatar : Process(r, b)

Next == \E r \in Request :
  HandlerThread(r) \/ FetchBuilder(r) \/ WriteBuilder(r) \/ Worker(r)

Spec == Init /\ [][Next]_vars

\* The threads of the I/O pool are scheduled and vm_lock is given to each of
\* them in turn (strong fairness: it is free again and again).  No fairness for
\* the handlers' bodies: one may block for ever.
FairSpec == Spec /\ \A r \in Request : SF_vars(HandlerThread(r))

-----------------------------------------------------------------------------
(* Properties *)

\* vm_lock is held exactly by the one thread that is inside the locked part of
\* handle_request: every path, error and timeout included, gives it back.
LockReleased ==
  \A r \in Request :
    vmLock = r <=> pc[r] \in {"looking", "prepared", "submitting", "polling", "timedOut"}

\* The reference count protects a handler that outlives its request: as long as
\* it may run its builder is not freed, and until its request gives up, the only
\* builder it reaches is its own.
BuilderOutlivesHandler ==
  \A r \in Request :
    /\ life[r] \in {"queued", "running"} => builder[r] # "freed" /\ refCount[r] >= 1
    /\ keys[r] = "live" => fetched[r] \in {r, NoRequest}

\* A response is copied out of a builder only after the handler that writes to
\* it has returned without error, so it is never a half-written one; a timeout
\* is never reported for a request whose builder was already answered from.
AnswersAreComplete ==
  \A r \in Request :
    /\ status[r] \in {"blank", "written", "lost"} => life[r] = "done" /\ outcome[r] = "value"
    /\ status[r] = "handlerError" => outcome[r] = "error"
    /\ status[r] = "timeout" => attempts[r] = MaxAttempts /\ builder[r] # "freed"

\* A handle of the registry belongs to at most one builder for ever: a late
\* handler can miss its builder, but never reach that of another request.
HandlesNotReused ==
  \A r, q \in Request :
    /\ r # q /\ responseId[r] = responseId[q] => responseId[r] = 0
    /\ GetPtr(responseId[r]) \in {r, NoRequest}

\* Every connection whose request was read is answered, also when its handler
\* never returns.
EveryRequestAnswered == \A r \in Request : <>(pc[r] = "done")

\* async_http_server.c:1073: freeing the keys after the poll loop "is safe".
KeysOutliveHandler == \A r \in Request : InBody(r) => keys[r] = "live"

-----------------------------------------------------------------------------
(* The inductive invariant: where the lock is, that a handle belongs to    *)
(* one request for ever, and what each place in handle_request knows about *)
(* the request's avatar and builder.                                       *)

Typed ==
  /\ pc \in [Request -> PC]
  /\ vmLock \in Request \cup {NoRequest}
  /\ attempts \in [Request -> Nat]
  /\ status \in [Request -> Status]
  /\ refCount \in [Request -> Nat]
  /\ builder \in [Request -> Memory]
  /\ responseId \in [Request -> 0 .. MaxPointers - 1]
  /\ registry \in [1 .. MaxPointers - 1 -> Request \cup {NoRequest}]
  /\ nextId \in 1 .. MaxPointers
  /\ keys \in [Request -> {"unused", "live", "freed"}]
  /\ fetched \in [Request -> Request \cup {NoRequest}]
  /\ life \in [Request -> Pool!Phase]
  /\ completed \in [Request -> BOOLEAN]
  /\ outcome \in [Request -> Outcome]

\* Handles are given out once, in ascending order, each to one request.
Numbered ==
  /\ \A r \in Request : responseId[r] < nextId
  /\ \A r \in Request : pc[r] \in {"new", "looking"} => responseId[r] = 0
  /\ \A r, q \in Request : r # q /\ responseId[r] = responseId[q] => responseId[r] = 0
  /\ \A i \in 1 .. MaxPointers - 1 : registry[i] # NoRequest => responseId[registry[i]] = i

Waiting(r) == pc[r] \in {"prepared", "submitting", "polling", "asleep", "timedOut"}
Intact(r) == builder[r] \in {"blank", "written"}

\* What a request's thread may rely on.
ThreadKnows(r) ==
  /\ pc[r] \in {"new", "looking"} => status[r] = "none" /\ keys[r] = "unused"
  /\ pc[r] \in {"new", "looking", "prepared", "submitting"} => life[r] = "new" /\ ~completed[r]
  /\ pc[r] \in {"prepared", "submitting", "polling", "asleep"} => attempts[r] < MaxAttempts
  /\ pc[r] \in {"new", "looking"} => attempts[r] = 0
  /\ pc[r] = "timedOut" => attempts[r] = MaxAttempts
  /\ Waiting(r) =>
       status[r] = "none" /\ refCount[r] = 2 /\ Intact(r) /\ keys[r] = "live"
  /\ pc[r] = "done" => status[r] # "none"

\* What the answer of a request says of its avatar and its builder.
AnswerMeans(r) ==
  /\ status[r] \in {"direct", "noHandler", "submitFailed"} => life[r] = "new"
  /\ status[r] = "handlerError" => life[r] = "done" /\ outcome[r] = "error"
  /\ status[r] \in {"blank", "written", "lost"} => life[r] = "done" /\ outcome[r] = "value"
  /\ status[r] = "timeout" =>
       attempts[r] = MaxAttempts /\ Intact(r) /\ refCount[r] \in 1 .. 2

\* What is known of an avatar.
AvatarKnows(r) ==
  /\ completed[r] => life[r] = "done" \/ status[r] = "timeout"
  /\ life[r] \in {"finished", "done"} => outcome[r] # "none"
  /\ fetched[r] # NoRequest => life[r] = "running"
  /\ keys[r] = "live" => fetched[r] \in {r, NoRequest}

Knows(r) == ThreadKnows(r) /\ AnswerMeans(r) /\ AvatarKnows(r)
Consistent == \A r \in Request : Knows(r)

\* The list of handles, to which several threads add: a refused submission finds
\* its own handle there.
Listing ==
  /\ Counted /\ open
  /\ \A r \in Request : pc[r] = "submitting" => handle[r] = "listed"

Handling == Typed /\ LockReleased /\ Numbered /\ Consistent
ServerInv == Handling /\ Listing
=============================================================================
