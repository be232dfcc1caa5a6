----------------------------- MODULE AvatarProofs -----------------------------
(***************************************************************************)
(* Proofs about the two users of the avatar runtime, AvatarVM.tla and      *)
(* AsyncHttpServer.tla, for every number of avatars, of requests, of polls *)
(* and of registry slots.  Both share the runtime's variables; the         *)
(* inductive invariants VMInv and ServerInv stand in their modules.        *)
(***************************************************************************)
EXTENDS AvatarVM, AsyncHttpServer, FiniteSetTheorems, TLAPS

-----------------------------------------------------------------------------
(* The list of handles and its counter (AvatarRuntime)                     *)

\* Nothing is listed or unlisted.
LEMMA CountedStays ==
  ASSUME Counted, UNCHANGED handleVars, open' => open
  PROVE  Counted'
<1>1. Listed' = Listed
  BY DEF Listed, handleVars
<1> QED BY <1>1 DEF Counted, CountIsListLength, handleVars

\* A submission lists one handle more.
LEMMA CountedLists ==
  ASSUME Counted, NEW a \in Avatar, ListHandle(a)
  PROVE  Counted'
<1>1. Listed' = Listed \cup {a} /\ a \notin Listed
  BY DEF Listed, ListHandle, Counted
<1>2. IsFiniteSet(Listed') /\ Cardinality(Listed') = Cardinality(Listed) + 1
  BY <1>1, FS_AddElement DEF Counted
<1>3. handle' \in [Avatar -> HandleState] /\ pendingCount' \in Nat
  BY DEF Counted, ListHandle, HandleState
<1> QED BY <1>2, <1>3 DEF Counted, CountIsListLength, ListHandle, poolVars

\* A refused submission takes back what it added.
LEMMA CountedUnlists ==
  ASSUME Counted, NEW a \in Avatar, handle[a] = "listed", open, Unlist(a)
  PROVE  Counted'
<1>1. Listed' = Listed \ {a} /\ a \in Listed
  BY DEF Listed, Unlist, Counted
<1>2. /\ IsFiniteSet(Listed') /\ Cardinality(Listed') = Cardinality(Listed) - 1
      /\ Cardinality(Listed) \in Nat /\ Cardinality(Listed') \in Nat
  BY <1>1, FS_RemoveElement, FS_CardinalityType DEF Counted
<1>3. pendingCount' = Cardinality(Listed')
  BY <1>2 DEF Counted, CountIsListLength, Unlist
<1>4. handle' \in [Avatar -> HandleState]
  BY DEF Counted, Unlist, HandleState
<1> QED BY <1>2, <1>3, <1>4 DEF Counted, CountIsListLength

\* destroy frees them all.
LEMMA CountedFreed ==
  ASSUME Counted, ~open, FreeHandles
  PROVE  Counted'
<1>1. Listed' = {} /\ ~open'
  BY DEF Listed, FreeHandles, Counted, Pool!Drop
<1>2. IsFiniteSet(Listed')
  BY <1>1, FS_EmptySet
<1>3. handle' \in [Avatar -> HandleState] /\ pendingCount' \in Nat
  BY DEF Counted, FreeHandles, HandleState
<1> QED BY <1>1, <1>2, <1>3 DEF Counted, CountIsListLength

\* At first no handle is listed.
LEMMA CountedStarts == RuntimeInit => Counted
<1> SUFFICES ASSUME RuntimeInit PROVE Counted
  OBVIOUS
<1>1. Listed = {}
  BY DEF Listed, RuntimeInit
<1>2. IsFiniteSet(Listed) /\ Cardinality(Listed) = 0
  BY <1>1, FS_EmptySet
<1> QED BY <1>2 DEF Counted, CountIsListLength, RuntimeInit, HandleState

-----------------------------------------------------------------------------
(* A script and its avatars (AvatarVM)                                     *)

\* What does not concern an avatar leaves what is known of it as it is.
LEMMA HandleKnowsStays ==
  ASSUME NEW a \in Avatar, HandleKnows(a), life'[a] = life[a], completed'[a] = completed[a],
         outcome'[a] = outcome[a], awaited'[a] = awaited[a],
         handle'[a] = handle[a], main = "freed" => main' = "freed"
  PROVE  HandleKnows(a)'
BY DEF HandleKnows

\* The invariant holds at first.
LEMMA VMStarts == VMInit => VMInv
<1> SUFFICES ASSUME VMInit PROVE VMInv
  OBVIOUS
<1> USE DEF VMInit, RuntimeInit, Pool!Init
<1>1. VMTyped
  BY CountedStarts DEF VMTyped, Main, Pool!Phase, HandleState, Outcome
<1>2. Targeted /\ Closing
  BY DEF Targeted, Closing
<1>3. ASSUME NEW a \in Avatar PROVE HandleKnows(a)
  BY DEF HandleKnows
<1> QED BY <1>1, <1>2, <1>3 DEF VMInv

\* OP_AVATAR, first half.
LEMMA LaunchStep ==
  ASSUME VMInv, NEW a \in Avatar, LaunchList(a)
  PROVE  VMInv'
<1> USE DEF VMInv, LaunchList, MainGoes, ListHandle, poolVars
<1>1. VMTyped'
  BY CountedLists DEF VMTyped, Main
<1>2. Targeted' /\ Closing'
  BY DEF VMTyped, Counted, Targeted, Closing, HandleKnows
<1>3. HandleKnows(a)'
  BY DEF VMTyped, Counted, HandleKnows
<1>4. ASSUME NEW b \in Avatar, b # a PROVE HandleKnows(b)'
  BY <1>4, HandleKnowsStays DEF VMTyped
<1> QED BY <1>1, <1>2, <1>3, <1>4

\* OP_AVATAR, second half and its failure.
LEMMA LaunchEndsStep ==
  ASSUME VMInv, LaunchQueue \/ LaunchFails
  PROVE  VMInv'
<1> USE DEF VMInv, LaunchQueue, LaunchFails, MainGoes, QueueHandle, Unlist, Pool!Accept,
            poolVars, handleVars
<1>0. target \in Avatar /\ handle[target] = "listed" /\ life[target] = "new"
  BY DEF Targeted
<1>1. VMTyped'
  BY <1>0, CountedStays, CountedUnlists DEF VMTyped, Main, Closing, Pool!Phase
<1>2. Targeted' /\ Closing'
  BY DEF VMTyped, Targeted, Closing
<1>3. ASSUME NEW b \in Avatar, b # target PROVE HandleKnows(b)'
  <2>1. handle'[b] = handle[b] /\ life'[b] = life[b]
    BY <1>3 DEF VMTyped, Counted
  <2> QED BY <2>1, HandleKnowsStays
<1>4. ASSUME NEW b \in Avatar, b = target PROVE HandleKnows(b)'
  BY <1>0, <1>4 DEF VMTyped, Counted, HandleKnows
<1> QED BY <1>1, <1>2, <1>3, <1>4

\* The steps of the main thread that only move it on.
LEMMA MainStep ==
  ASSUME VMInv, (\E a \in Avatar : Await(a)) \/ Poll \/ AwaitSleeps \/ AwaitFails
                  \/ EnterEvents \/ LeaveEvents
  PROVE  VMInv'
<1> USE DEF VMInv, Await, Poll, AwaitSleeps, AwaitFails, EnterEvents, LeaveEvents, MainGoes,
            runtimeVars, poolVars, handleVars
<1>1. VMTyped'
  BY CountedStays DEF VMTyped, Main
<1>2. Targeted' /\ Closing'
  BY DEF VMTyped, Targeted, Closing
<1>3. ASSUME NEW b \in Avatar PROVE HandleKnows(b)'
  BY HandleKnowsStays
<1> QED BY <1>1, <1>2, <1>3

\* OP_AWAIT of a completed avatar.
LEMMA AwaitReturnsStep ==
  ASSUME VMInv, AwaitReturns
  PROVE  VMInv'
<1> USE DEF VMInv, AwaitReturns, MainGoes, runtimeVars, poolVars, handleVars
<1>0. target \in Avatar
  BY DEF Targeted
<1>1. VMTyped'
  BY <1>0, CountedStays DEF VMTyped, Main
<1>2. Targeted' /\ Closing'
  BY DEF VMTyped, Targeted, Closing
<1>3. ASSUME NEW b \in Avatar, b # target PROVE HandleKnows(b)'
  BY <1>3, HandleKnowsStays DEF VMTyped
<1>4. ASSUME NEW b \in Avatar, b = target PROVE HandleKnows(b)'
  BY <1>4 DEF VMTyped, Counted, HandleKnows, Outcome
<1> QED BY <1>1, <1>2, <1>3, <1>4

\* One completion callback.
LEMMA CollectOneStep ==
  ASSUME VMInv, NEW a \in Avatar, CollectOne(a)
  PROVE  VMInv'
<1> USE DEF VMInv, CollectOne, Complete, Pool!Deliver, mainVars, handleVars
<1>1. VMTyped'
  BY CountedStays DEF VMTyped, Pool!Phase
<1>2. Targeted' /\ Closing'
  BY DEF VMTyped, Targeted, Closing
<1>3. HandleKnows(a)'
  BY DEF VMTyped, Counted, HandleKnows
<1>4. ASSUME NEW b \in Avatar, b # a PROVE HandleKnows(b)'
  BY <1>4, HandleKnowsStays DEF VMTyped
<1> QED BY <1>1, <1>2, <1>3, <1>4

\* vm_free starts.
LEMMA VmFreeStep ==
  ASSUME VMInv, VmFree
  PROVE  VMInv'
<1> USE DEF VMInv, VmFree, ShutDownPool, Pool!Close, handleVars
<1>1. VMTyped'
  BY CountedStays DEF VMTyped, Main
<1>2. Targeted' /\ Closing'
  BY DEF VMTyped, Targeted, Closing
<1>3. ASSUME NEW b \in Avatar PROVE HandleKnows(b)'
  BY HandleKnowsStays
<1> QED BY <1>1, <1>2, <1>3

\* destroy has waited for the pool: nothing is queued or running.
LEMMA VmFreedStep ==
  ASSUME VMInv, VmFreed
  PROVE  VMInv'
<1> USE DEF VMInv, VmFreed, MainGoes, FreeHandles, Pool!Drop
<1>1. VMTyped'
  BY CountedFreed DEF VMTyped, Closing, Main, Pool!Phase
<1>2. Targeted'
  BY DEF Targeted
<1>3. Closing'
  BY DEF VMTyped, Closing, Pool!Phase
<1>4. ASSUME NEW b \in Avatar PROVE HandleKnows(b)'
  BY DEF VMTyped, Counted, HandleKnows
<1> QED BY <1>1, <1>2, <1>3, <1>4

\* A worker in avatar_task_func.
LEMMA WorkerKeeps ==
  ASSUME VMInv, NEW a \in Avatar, WorkerStep(a), UNCHANGED mainVars
  PROVE  VMInv'
<1> USE DEF VMInv, WorkerStep, Begin, WriteOutcome, Return, Pool!Start, Pool!Finish,
            mainVars, poolVars, handleVars
<1>1. VMTyped'
  BY CountedStays DEF VMTyped, Pool!Phase, Outcome
<1>2. Targeted' /\ Closing'
  BY DEF VMTyped, Targeted, Closing
<1>3. HandleKnows(a)'
  BY DEF VMTyped, Counted, HandleKnows
<1>4. ASSUME NEW b \in Avatar, b # a PROVE HandleKnows(b)'
  BY <1>4, HandleKnowsStays DEF VMTyped
<1> QED BY <1>1, <1>2, <1>3, <1>4

\* Every step preserves the invariant.
LEMMA VMStep == VMInv /\ [VMNext]_vmVars => VMInv'
<1> SUFFICES ASSUME VMInv, [VMNext]_vmVars PROVE VMInv'
  OBVIOUS
<1>1. CASE UNCHANGED vmVars
  BY <1>1, CountedStays
     DEF VMInv, VMTyped, Targeted, Closing, HandleKnows, vmVars, runtimeVars, poolVars, handleVars,
         mainVars
<1>2. ASSUME NEW a \in Avatar, LaunchList(a) \/ Await(a) PROVE VMInv'
  BY <1>2, LaunchStep, MainStep
<1>3. CASE EnterEvents \/ VmFree
  BY <1>3, MainStep, VmFreeStep
<1>4. CASE InOperation
  BY <1>4, LaunchEndsStep, MainStep, AwaitReturnsStep, VmFreedStep, CollectOneStep DEF InOperation
<1>5. CASE AvatarRuns
  BY <1>5, WorkerKeeps DEF AvatarRuns
<1> QED BY <1>1, <1>2, <1>3, <1>4, <1>5 DEF VMNext

-----------------------------------------------------------------------------
\* The invariant holds in every reachable state.
THEOREM VMConsistency == VMSpec => []VMInv
BY VMStarts, VMStep, PTL DEF VMSpec

\* The pool never refers to a freed handle, and the handle of an accepted avatar
\* stays allocated for the script until vm_free is over.
THEOREM HandlesLive == VMSpec => [](PoolHandlesLive /\ HandleOutlivesScript)
<1>1. VMInv => PoolHandlesLive /\ HandleOutlivesScript
  BY DEF VMInv, VMTyped, Counted, Closing, HandleKnows, PoolHandlesLive, HandleOutlivesScript, InPool, HandleState
<1> QED BY <1>1, VMConsistency, PTL

\* A script never reads a result that is not yet written, although the worker
\* writes it without the handle's mutex, and await pushes what was written.
THEOREM ResultsComplete == VMSpec => []CompletedHasOutcome
<1>1. VMInv => CompletedHasOutcome
  BY DEF VMInv, VMTyped, Counted, HandleKnows, CompletedHasOutcome
<1> QED BY <1>1, VMConsistency, PTL

\* When vm_free has returned every accepted avatar has run to its end.
THEOREM FreeWaits == VMSpec => []DestroyWaits
<1>1. VMInv => DestroyWaits
  BY DEF VMInv, VMTyped, Counted, Closing, HandleKnows, DestroyWaits
<1> QED BY <1>1, VMConsistency, PTL

-----------------------------------------------------------------------------
(* The registry *)

\* A request finds its own builder, or none.
LEMMA OwnBuilder ==
  ASSUME Typed, Numbered, NEW r \in Request
  PROVE  GetPtr(responseId[r]) \in {r, NoRequest}
<1> SUFFICES ASSUME responseId[r] \in 1 .. MaxPointers - 1, registry[responseId[r]] # NoRequest
             PROVE  registry[responseId[r]] = r
  BY DEF GetPtr, Typed
<1>1. registry[responseId[r]] \in Request
  BY DEF Typed
<1>2. responseId[registry[responseId[r]]] = responseId[r]
  BY DEF Numbered
<1> QED BY <1>1, <1>2 DEF Numbered

\* Taking pointers out of the registry keeps the rest of it in order.
LEMMA NumberedStays ==
  ASSUME Typed, Numbered, UNCHANGED <<responseId, nextId>>,
         \A r \in Request : pc'[r] \in {"new", "looking"} => pc[r] \in {"new", "looking"},
         \A i \in 1 .. MaxPointers - 1 : registry'[i] \in {registry[i], NoRequest}
  PROVE  Numbered'
BY DEF Typed, Numbered

\* What does not concern a request leaves its knowledge as it is.
LEMMA KnowsStays ==
  ASSUME NEW r \in Request, Knows(r), pc'[r] = pc[r], status'[r] = status[r],
         life'[r] = life[r], completed'[r] = completed[r], outcome'[r] = outcome[r],
         attempts'[r] = attempts[r], refCount'[r] = refCount[r], builder'[r] = builder[r],
         keys'[r] = keys[r], fetched'[r] = fetched[r]
  PROVE  Knows(r)'
BY DEF Knows, ThreadKnows, AnswerMeans, AvatarKnows, Waiting, Intact

\* The lock changes hands with the program counter of its holder.
LEMMA LockStays ==
  ASSUME Typed, LockReleased, NEW p \in Request, NEW to \in PC,
         pc' = [pc EXCEPT ![p] = to],
         \/ UNCHANGED vmLock /\ (pc[p] \in {"looking", "prepared", "submitting", "polling", "timedOut"}
                                   <=> to \in {"looking", "prepared", "submitting", "polling", "timedOut"})
         \/ Lock(p) /\ to \in {"looking", "prepared", "submitting", "polling", "timedOut"}
         \/ /\ Unlock /\ to \notin {"looking", "prepared", "submitting", "polling", "timedOut"}
            /\ pc[p] \in {"looking", "prepared", "submitting", "polling", "timedOut"}
  PROVE  LockReleased'
BY NoRequestAssumption DEF Typed, LockReleased, Lock, Unlock, Request

-----------------------------------------------------------------------------
\* The invariant holds at first.
LEMMA HandlingStarts == Init => Handling
<1> SUFFICES ASSUME Init PROVE Handling
  OBVIOUS
<1> USE DEF Init, RuntimeInit, Pool!Init, Request
<1>1. Typed
  BY LimitsAssumption DEF Typed, PC, Status, Memory, Pool!Phase, Outcome
<1>2. LockReleased
  BY NoRequestAssumption DEF LockReleased
<1>3. Numbered
  BY DEF Numbered
<1>4. Consistent
  BY LimitsAssumption
     DEF Consistent, Knows, ThreadKnows, AnswerMeans, AvatarKnows, Waiting, Intact
<1> QED BY <1>1, <1>2, <1>3, <1>4 DEF Handling

-----------------------------------------------------------------------------
(* One lemma per step *)

\* An answer without a handler.
LEMMA AnswerDirectlyStep ==
  ASSUME Handling, NEW p \in Request, AnswerDirectly(p)
  PROVE  Handling'
<1> USE DEF Handling, AnswerDirectly, Goes, Answer, runtimeVars, poolVars, handleVars,
            builderVars
<1>1. Typed'
  BY DEF Typed, PC, Status
<1>2. LockReleased'
  BY LockStays DEF PC
<1>3. Numbered'
  BY NumberedStays DEF Typed
<1>4. Knows(p)'
  BY DEF Typed, Consistent, Knows, ThreadKnows, AnswerMeans, AvatarKnows, Waiting, Intact
<1>5. ASSUME NEW r \in Request, r # p PROVE Knows(r)'
  BY <1>5, KnowsStays DEF Typed, Consistent
<1> QED BY <1>1, <1>2, <1>3, <1>4, <1>5 DEF Consistent

\* The handler is looked for under the lock, perhaps in vain.
LEMMA LookUpStep ==
  ASSUME Handling, NEW p \in Request, LookUp(p) \/ NoHandler(p)
  PROVE  Handling'
<1> USE DEF Handling, LookUp, NoHandler, Goes, Answer, runtimeVars, poolVars, handleVars,
            builderVars
<1>1. Typed'
  BY DEF Typed, PC, Status, Lock, Unlock
<1>2. LockReleased'
  BY LockStays DEF PC
<1>3. Numbered'
  BY NumberedStays DEF Typed
<1>4. Knows(p)'
  BY DEF Typed, Consistent, Knows, ThreadKnows, AnswerMeans, AvatarKnows, Waiting, Intact
<1>5. ASSUME NEW r \in Request, r # p PROVE Knows(r)'
  BY <1>5, KnowsStays DEF Typed, Consistent
<1> QED BY <1>1, <1>2, <1>3, <1>4, <1>5 DEF Consistent

\* The builder is created and registered.
LEMMA PrepareStep ==
  ASSUME Handling, NEW p \in Request, Prepare(p)
  PROVE  Handling'
<1> USE DEF Handling, Prepare, Goes, runtimeVars, poolVars, handleVars
<1>1. Typed'
  <2>1. /\ responseId' \in [Request -> 0 .. MaxPointers - 1]
        /\ registry' \in [1 .. MaxPointers - 1 -> Request \cup {NoRequest}]
        /\ nextId' \in 1 .. MaxPointers
    <3>1. CASE nextId < MaxPointers
      <4>1. nextId \in 1 .. MaxPointers - 1 /\ nextId + 1 \in 1 .. MaxPointers
        BY <3>1, LimitsAssumption DEF Typed
      <4>2. nextId \in 0 .. MaxPointers - 1
        BY <4>1, LimitsAssumption
      <4> QED BY <3>1, <4>1, <4>2 DEF Typed, Register
    <3>2. CASE ~ (nextId < MaxPointers)
      <4>1. 0 \in 0 .. MaxPointers - 1
        BY LimitsAssumption
      <4> QED BY <3>2, <4>1 DEF Typed, Register
    <3> QED BY <3>1, <3>2
  <2> QED BY <2>1 DEF Typed, PC, Memory, Lock
<1>2. LockReleased'
  BY LockStays DEF PC
<1>3. Numbered'
  <2>1. CASE nextId < MaxPointers
    <3>1. /\ responseId' = [responseId EXCEPT ![p] = nextId]
          /\ registry' = [registry EXCEPT ![nextId] = p]
          /\ nextId' = nextId + 1
      BY <2>1 DEF Register
    <3>2. \A r \in Request : responseId'[r] < nextId'
      BY <3>1, LimitsAssumption DEF Typed, Numbered
    <3>3. \A r \in Request : pc'[r] \in {"new", "looking"} => responseId'[r] = 0
      BY <3>1 DEF Typed, Numbered
    <3>4. \A r, q \in Request : r # q /\ responseId'[r] = responseId'[q] => responseId'[r] = 0
      BY <3>1, LimitsAssumption DEF Typed, Numbered
    <3>5. ASSUME NEW i \in 1 .. MaxPointers - 1, registry'[i] # NoRequest
          PROVE  responseId'[registry'[i]] = i
      <4>1. CASE i = nextId
        BY <4>1, <3>1 DEF Typed
      <4>2. CASE i # nextId
        <5>1. registry'[i] = registry[i]
          BY <4>2, <3>1 DEF Typed
        <5>2. responseId[registry[i]] = i /\ registry[i] \in Request
          BY <5>1, <3>5 DEF Typed, Numbered
        <5>3. registry[i] # p
          BY <5>2, LimitsAssumption DEF Numbered
        <5> QED BY <5>1, <5>2, <5>3, <3>1 DEF Typed
      <4> QED BY <4>1, <4>2
    <3> QED BY <3>2, <3>3, <3>4, <3>5 DEF Numbered
  <2>2. CASE ~ (nextId < MaxPointers)
    <3>1. responseId[p] = 0
      BY DEF Numbered
    <3>2. responseId' = responseId /\ UNCHANGED <<registry, nextId>>
      BY <2>2, <3>1 DEF Register, Typed
    <3> QED BY <3>2, NumberedStays DEF Typed
  <2> QED BY <2>1, <2>2
<1>4. Knows(p)'
  BY LimitsAssumption
     DEF Typed, Consistent, Knows, ThreadKnows, AnswerMeans, AvatarKnows, Waiting, Intact
<1>5. ASSUME NEW r \in Request, r # p PROVE Knows(r)'
  BY <1>5, KnowsStays DEF Typed, Consistent
<1> QED BY <1>1, <1>2, <1>3, <1>4, <1>5 DEF Consistent

\* The three outcomes of the submission.
LEMMA SubmitStep ==
  ASSUME Handling, NEW p \in Request, SubmitList(p) \/ SubmitQueue(p) \/ SubmitFails(p)
  PROVE  Handling'
<1> USE DEF Handling, SubmitList, SubmitQueue, SubmitFails, ListHandle, QueueHandle, Unlist,
            Pool!Accept, Goes, Answer, poolVars, handleVars, builderVars
<1>1. Typed'
  BY DEF Typed, PC, Status, Unlock, Pool!Phase
<1>2. LockReleased'
  BY LockStays DEF PC, Consistent, Knows, ThreadKnows
<1>3. Numbered'
  BY NumberedStays DEF Typed
<1>4. Knows(p)'
  BY DEF Typed, Consistent, Knows, ThreadKnows, AnswerMeans, AvatarKnows, Waiting, Intact
<1>5. ASSUME NEW r \in Request, r # p PROVE Knows(r)'
  BY <1>5, KnowsStays DEF Typed, Consistent
<1> QED BY <1>1, <1>2, <1>3, <1>4, <1>5 DEF Consistent

\* A completion callback, for this or another request.
LEMMA ProcessStep ==
  ASSUME Handling, NEW p \in Request, NEW b \in Request, Process(p, b)
  PROVE  Handling'
<1> USE DEF Handling, Process, Complete, Pool!Deliver, handleVars, serverVars, builderVars
<1>1. Typed'
  BY DEF Typed, Pool!Phase
<1>2. LockReleased'
  BY DEF LockReleased
<1>3. Numbered'
  BY NumberedStays DEF Typed
<1>4. Knows(b)'
  BY DEF Typed, Consistent, Knows, ThreadKnows, AnswerMeans, AvatarKnows, Waiting, Intact
<1>5. ASSUME NEW r \in Request, r # b PROVE Knows(r)'
  BY <1>5, KnowsStays DEF Typed, Consistent
<1> QED BY <1>1, <1>2, <1>3, <1>4, <1>5 DEF Consistent

\* The poll loop gives the lock up and takes it again.
LEMMA SleepWakeStep ==
  ASSUME Handling, NEW p \in Request, PollSleeps(p) \/ Wake(p)
  PROVE  Handling'
<1> USE DEF Handling, PollSleeps, Wake, Goes, runtimeVars, poolVars, handleVars, builderVars
<1>0. attempts[p] \in Nat /\ (pc[p] = "asleep" => attempts[p] < MaxAttempts)
  BY DEF Typed, Consistent, Knows, ThreadKnows
<1>1. Typed'
  <2>1. attempts' \in [Request -> Nat]
    <3>1. attempts \in [Request -> Nat] /\ attempts[p] + 1 \in Nat
      BY <1>0 DEF Typed
    <3>2. attempts' = attempts \/ attempts' = [attempts EXCEPT ![p] = attempts[p] + 1]
      OBVIOUS
    <3> QED BY <3>1, <3>2
  <2>2. pc' \in [Request -> PC] /\ vmLock' \in Request \cup {NoRequest}
    BY DEF Typed, PC, Lock, Unlock
  <2>3. UNCHANGED <<status, refCount, builder, responseId, registry, nextId, keys, fetched,
                    life, completed, outcome>>
    OBVIOUS
  <2> QED BY <2>1, <2>2, <2>3 DEF Typed
<1>2. LockReleased'
  BY LockStays DEF PC
<1>3. Numbered'
  BY NumberedStays DEF Typed
<1>4. Knows(p)'
  BY <1>0, LimitsAssumption
     DEF Typed, Consistent, Knows, ThreadKnows, AnswerMeans, AvatarKnows, Waiting, Intact
<1>5. ASSUME NEW r \in Request, r # p PROVE Knows(r)'
  BY <1>5, KnowsStays DEF Typed, Consistent
<1> QED BY <1>1, <1>2, <1>3, <1>4, <1>5 DEF Consistent

\* The handler failed.
LEMMA PollErrorStep ==
  ASSUME Handling, NEW p \in Request, PollError(p)
  PROVE  Handling'
<1> USE DEF Handling, PollError, Goes, Answer, runtimeVars, poolVars, handleVars, builderVars
<1>1. Typed'
  BY DEF Typed, PC, Status, Unlock
<1>2. LockReleased'
  BY LockStays DEF PC
<1>3. Numbered'
  BY NumberedStays DEF Typed
<1>4. Knows(p)'
  BY DEF Typed, Consistent, Knows, ThreadKnows, AnswerMeans, AvatarKnows, Waiting, Intact
<1>5. ASSUME NEW r \in Request, r # p PROVE Knows(r)'
  BY <1>5, KnowsStays DEF Typed, Consistent
<1> QED BY <1>1, <1>2, <1>3, <1>4, <1>5 DEF Consistent

\* The builder is copied and both references are released.
LEMMA PollAnswerStep ==
  ASSUME Handling, NEW p \in Request, PollAnswer(p)
  PROVE  Handling'
<1> USE DEF Handling, PollAnswer, Goes, Answer, runtimeVars, poolVars, handleVars
<1>1. GetPtr(responseId[p]) \in {p, NoRequest}
  BY OwnBuilder
<1>2. refCount[p] = 2 /\ Intact(p)
  BY DEF Consistent, Knows, ThreadKnows, Waiting
<1>3. \/ UNCHANGED <<refCount, builder, registry>> /\ status' = [status EXCEPT ![p] = "lost"]
      \/ /\ refCount' = [refCount EXCEPT ![p] = 0]
         /\ builder' = [builder EXCEPT ![p] = "freed"]
         /\ registry' = [registry EXCEPT ![responseId[p]] = NoRequest]
         /\ status' = [status EXCEPT ![p] = builder[p]]
  BY <1>1, <1>2, NoRequestAssumption DEF Release, Request
<1>4. Typed'
  <2>1. pc' \in [Request -> PC] /\ vmLock' \in Request \cup {NoRequest}
    BY DEF Typed, PC, Unlock
  <2>2. status' \in [Request -> Status]
    BY <1>2, <1>3 DEF Typed, Status, Intact
  <2>3. refCount' \in [Request -> Nat] /\ builder' \in [Request -> Memory]
    <3>1. refCount \in [Request -> Nat] /\ builder \in [Request -> Memory]
      BY DEF Typed
    <3>2. refCount' = refCount \/ refCount' = [refCount EXCEPT ![p] = 0]
      BY <1>3
    <3>3. builder' = builder \/ builder' = [builder EXCEPT ![p] = "freed"]
      BY <1>3
    <3>4. refCount' \in [Request -> Nat]
      BY <3>1, <3>2
    <3>5. builder' \in [Request -> Memory]
      BY <3>1, <3>3 DEF Memory
    <3> QED BY <3>4, <3>5
  <2>4. registry' \in [1 .. MaxPointers - 1 -> Request \cup {NoRequest}]
    BY <1>3 DEF Typed
  <2>5. keys' \in [Request -> {"unused", "live", "freed"}]
    BY DEF Typed
  <2>6. UNCHANGED <<attempts, responseId, nextId, fetched, life, outcome>>
    OBVIOUS
  <2>7. completed' \in [Request -> BOOLEAN]
    BY DEF Typed
  <2> QED BY <2>1, <2>2, <2>3, <2>4, <2>5, <2>6, <2>7 DEF Typed
<1>5. LockReleased'
  BY LockStays DEF PC
<1>6. Numbered'
  BY <1>3, NumberedStays DEF Typed
<1>7. Knows(p)'
  BY <1>2, <1>3
     DEF Typed, Consistent, Knows, ThreadKnows, AnswerMeans, AvatarKnows, Waiting, Intact, Outcome
<1>8. ASSUME NEW r \in Request, r # p PROVE Knows(r)'
  BY <1>3, <1>8, KnowsStays DEF Typed, Consistent
<1> QED BY <1>4, <1>5, <1>6, <1>7, <1>8 DEF Consistent

\* The builder is left to the handler.
LEMMA TimeOutStep ==
  ASSUME Handling, NEW p \in Request, TimeOut(p)
  PROVE  Handling'
<1> USE DEF Handling, TimeOut, Cancel, Goes, Answer, poolVars, handleVars
<1>1. GetPtr(responseId[p]) \in {p, NoRequest}
  BY OwnBuilder
<1>2. refCount[p] = 2 /\ Intact(p)
  BY DEF Consistent, Knows, ThreadKnows, Waiting
<1>3. /\ UNCHANGED builder
      /\ \/ UNCHANGED <<refCount, registry>>
         \/ /\ refCount' = [refCount EXCEPT ![p] = 1]
            /\ registry' = [registry EXCEPT ![responseId[p]] = NoRequest]
  BY <1>1, <1>2, NoRequestAssumption DEF Release, Request
<1>4. Typed'
  <2>1. pc' \in [Request -> PC] /\ vmLock' \in Request \cup {NoRequest}
    BY DEF Typed, PC, Unlock
  <2>2. status' \in [Request -> Status]
    BY <1>2, <1>3 DEF Typed, Status
  <2>3. refCount' \in [Request -> Nat] /\ builder' \in [Request -> Memory]
    <3>1. refCount \in [Request -> Nat] /\ builder \in [Request -> Memory]
      BY DEF Typed
    <3>2. refCount' = refCount \/ refCount' = [refCount EXCEPT ![p] = 1]
      BY <1>3
    <3>3. builder' = builder
      BY <1>3
    <3>4. refCount' \in [Request -> Nat]
      BY <3>1, <3>2
    <3>5. builder' \in [Request -> Memory]
      BY <3>1, <3>3 DEF Memory
    <3> QED BY <3>4, <3>5
  <2>4. registry' \in [1 .. MaxPointers - 1 -> Request \cup {NoRequest}]
    BY <1>3 DEF Typed
  <2>5. keys' \in [Request -> {"unused", "live", "freed"}]
    BY DEF Typed
  <2>6. UNCHANGED <<attempts, responseId, nextId, fetched, life, outcome>>
    OBVIOUS
  <2>7. completed' \in [Request -> BOOLEAN]
    BY DEF Typed
  <2> QED BY <2>1, <2>2, <2>3, <2>4, <2>5, <2>6, <2>7 DEF Typed
<1>5. LockReleased'
  BY LockStays DEF PC
<1>6. Numbered'
  BY <1>3, NumberedStays DEF Typed
<1>7. Knows(p)'
  BY <1>2, <1>3
     DEF Typed, Consistent, Knows, ThreadKnows, AnswerMeans, AvatarKnows, Waiting, Intact
<1>8. ASSUME NEW r \in Request, r # p PROVE Knows(r)'
  BY <1>3, <1>8, KnowsStays DEF Typed, Consistent
<1> QED BY <1>4, <1>5, <1>6, <1>7, <1>8 DEF Consistent

\* The handler looks its builder up; after a timeout under any handle.
LEMMA FetchStep ==
  ASSUME Handling, NEW p \in Request, FetchBuilder(p)
  PROVE  Handling'
<1> USE DEF Handling, FetchBuilder, InBody, runtimeVars, poolVars, handleVars, serverVars,
            builderVars
<1>1. PICK id \in ReadId(p) : fetched' = [fetched EXCEPT ![p] = GetPtr(id)]
  OBVIOUS
<1>2. Typed'
  BY <1>1 DEF Typed, GetPtr
<1>3. LockReleased'
  BY DEF LockReleased
<1>4. Numbered'
  BY NumberedStays DEF Typed
<1>5. keys[p] = "live" => GetPtr(id) \in {p, NoRequest}
  BY <1>1, OwnBuilder DEF ReadId
<1>6. Knows(p)'
  BY <1>1, <1>5
     DEF Typed, Consistent, Knows, ThreadKnows, AnswerMeans, AvatarKnows, Waiting, Intact
<1>7. ASSUME NEW r \in Request, r # p PROVE Knows(r)'
  BY <1>1, <1>7, KnowsStays DEF Typed, Consistent
<1> QED BY <1>2, <1>3, <1>4, <1>6, <1>7 DEF Consistent

\* The builder written to may be that of another request, or freed: it keeps
\* both its being intact and its being freed.
LEMMA WriteStep ==
  ASSUME Handling, NEW p \in Request, WriteBuilder(p)
  PROVE  Handling'
<1> USE DEF Handling, WriteBuilder, InBody, runtimeVars, poolVars, handleVars, serverVars
<1>1. Typed'
  BY DEF Typed, Memory
<1>2. LockReleased'
  BY DEF LockReleased
<1>3. Numbered'
  BY NumberedStays DEF Typed
<1>4. ASSUME NEW r \in Request PROVE Knows(r)'
  <2>1. Knows(r) /\ fetched'[r] \in {fetched[r], NoRequest}
    BY DEF Consistent, Typed
  <2>2. Intact(r) => Intact(r)'
    BY DEF Intact, Typed
  <2> QED BY <2>1, <2>2 DEF Knows, ThreadKnows, AnswerMeans, AvatarKnows, Waiting
<1> QED BY <1>1, <1>2, <1>3, <1>4 DEF Consistent

\* A worker in avatar_task_func.
LEMMA WorkerStepKeeps ==
  ASSUME Handling, NEW p \in Request, Worker(p)
  PROVE  Handling'
<1> USE DEF Handling, Worker, WorkerStep, Begin, WriteOutcome, Return, Pool!Start, Pool!Finish,
            poolVars, handleVars, serverVars, builderVars
<1>1. Typed'
  BY DEF Typed, Pool!Phase, Outcome, Request
<1>2. LockReleased'
  BY DEF LockReleased
<1>3. Numbered'
  BY NumberedStays DEF Typed
<1>4. Knows(p)'
  BY DEF Typed, Consistent, Knows, ThreadKnows, AnswerMeans, AvatarKnows, Waiting, Intact
<1>5. ASSUME NEW r \in Request, r # p PROVE Knows(r)'
  BY <1>5, KnowsStays DEF Typed, Consistent
<1> QED BY <1>1, <1>2, <1>3, <1>4, <1>5 DEF Consistent

\* Every step keeps what it says of requests, lock and registry.
LEMMA HandlingStep == Handling /\ [Next]_vars => Handling'
<1> SUFFICES ASSUME Handling, [Next]_vars PROVE Handling'
  OBVIOUS
<1>1. CASE UNCHANGED vars
  <2>1. Typed'
    BY <1>1 DEF Handling, Typed, vars, runtimeVars, poolVars, handleVars, serverVars, builderVars
  <2>2. LockReleased'
    BY <1>1 DEF Handling, LockReleased, vars, serverVars
  <2>3. Numbered'
    BY <1>1 DEF Handling, Numbered, vars, serverVars, builderVars
  <2>4. ASSUME NEW r \in Request PROVE Knows(r)'
    BY <1>1, KnowsStays
       DEF Handling, Consistent, vars, runtimeVars, poolVars, handleVars, serverVars, builderVars
  <2> QED BY <2>1, <2>2, <2>3, <2>4 DEF Handling, Consistent
<1>2. ASSUME NEW p \in Request, HandlerThread(p) PROVE Handling'
  BY <1>2, AnswerDirectlyStep, LookUpStep, PrepareStep, SubmitStep, ProcessStep, SleepWakeStep,
     PollErrorStep, PollAnswerStep, TimeOutStep DEF HandlerThread, Request
<1>3. ASSUME NEW p \in Request, FetchBuilder(p) \/ WriteBuilder(p) \/ Worker(p)
      PROVE  Handling'
  BY <1>3, FetchStep, WriteStep, WorkerStepKeeps
<1> QED BY <1>1, <1>2, <1>3 DEF Next

\* Only submissions touch the list of handles.
LEMMA ListingStep ==
  ASSUME Handling, Listing, [Next]_vars
  PROVE  Listing'
<1> USE DEF Listing, Handling, Typed, Request
<1>1. ASSUME NEW p \in Request, SubmitList(p) PROVE Listing'
  <2>1. Counted'
    BY <1>1, CountedLists DEF SubmitList
  <2> QED BY <1>1, <2>1 DEF SubmitList, Goes, ListHandle, Counted, poolVars
<1>2. ASSUME NEW p \in Request, SubmitFails(p) PROVE Listing'
  <2>1. handle[p] = "listed"
    BY <1>2 DEF SubmitFails, Goes
  <2>2. Counted'
    BY <1>2, <2>1, CountedUnlists DEF SubmitFails
  <2>3. ASSUME NEW r \in Request, pc'[r] = "submitting" PROVE handle'[r] = "listed"
    BY <1>2, <2>3 DEF SubmitFails, Goes, Unlist, Counted
  <2> QED BY <1>2, <2>2, <2>3 DEF SubmitFails, Unlist, poolVars
<1>3. ASSUME UNCHANGED <<handleVars, open>>,
             \A r \in Request : pc'[r] = "submitting" => pc[r] = "submitting"
      PROVE  Listing'
  BY <1>3, CountedStays DEF handleVars
<1>4. ASSUME NEW p \in Request,
             \/ AnswerDirectly(p) \/ LookUp(p) \/ NoHandler(p) \/ Prepare(p) \/ SubmitQueue(p)
             \/ PollSleeps(p) \/ Wake(p) \/ PollError(p) \/ PollAnswer(p) \/ TimeOut(p)
      PROVE  UNCHANGED <<handleVars, open>> /\
             \A r \in Request : pc'[r] = "submitting" => pc[r] = "submitting"
  BY <1>4 DEF AnswerDirectly, LookUp, NoHandler, Prepare, SubmitQueue, PollSleeps, Wake, PollError,
       PollAnswer, TimeOut, Goes, QueueHandle, Cancel, Pool!Accept, runtimeVars, poolVars, handleVars
<1>5. ASSUME NEW p \in Request,
             \/ FetchBuilder(p) \/ WriteBuilder(p) \/ Worker(p)
             \/ \E b \in Avatar : Process(p, b)
      PROVE  UNCHANGED <<handleVars, open>> /\
             \A r \in Request : pc'[r] = "submitting" => pc[r] = "submitting"
  BY <1>5 DEF FetchBuilder, WriteBuilder, Worker, WorkerStep, Begin, WriteOutcome, Return, Process,
       Complete, Pool!Start, Pool!Finish, Pool!Deliver, runtimeVars, poolVars, handleVars, serverVars
<1>6. CASE UNCHANGED vars
  BY <1>3, <1>6 DEF vars, runtimeVars, poolVars, handleVars, serverVars
<1> QED BY <1>1, <1>2, <1>3, <1>4, <1>5, <1>6 DEF Next, HandlerThread

\* The invariant holds at first.
LEMMA ServerInit == Init => ServerInv
<1>1. Init => Listing
  BY CountedStarts DEF Init, RuntimeInit, Pool!Init, Listing, Request
<1> QED BY <1>1, HandlingStarts DEF ServerInv

\* Every step preserves the invariant.
LEMMA ServerStep == ServerInv /\ [Next]_vars => ServerInv'
BY HandlingStep, ListingStep DEF ServerInv

-----------------------------------------------------------------------------
(* The theorems *)

\* The invariant holds in every reachable state.
THEOREM ServerConsistency == Spec => []ServerInv
BY ServerInit, ServerStep, PTL DEF Spec

\* Every path through handle_request gives vm_lock back, and no two requests are
\* inside the locked part, for any number of requests.
THEOREM LockDiscipline == Spec => []LockReleased
<1>1. ServerInv => LockReleased
  BY DEF ServerInv, Handling
<1> QED BY <1>1, ServerConsistency, PTL

\* However many requests there are and however small the registry is, the handle
\* of a request leads to its own builder or to none.
THEOREM HandlesUnique == Spec => []HandlesNotReused
<1>1. ServerInv => HandlesNotReused
  <2> SUFFICES ASSUME ServerInv PROVE HandlesNotReused
    OBVIOUS
  <2>1. \A r \in Request : GetPtr(responseId[r]) \in {r, NoRequest}
    BY OwnBuilder DEF ServerInv, Handling
  <2> QED BY <2>1 DEF ServerInv, Handling, Numbered, HandlesNotReused
<1> QED BY <1>1, ServerConsistency, PTL

\* response_builder_release never frees a builder whose handler may still run, in
\* whatever order timeouts, completions and writes happen.
THEOREM BuildersLive == Spec => []BuilderOutlivesHandler
<1>1. ServerInv => BuilderOutlivesHandler
  <2> SUFFICES ASSUME ServerInv, NEW r \in Request
               PROVE  /\ life[r] \in {"queued", "running"} =>
                           builder[r] # "freed" /\ refCount[r] >= 1
                      /\ keys[r] = "live" => fetched[r] \in {r, NoRequest}
    BY DEF BuilderOutlivesHandler
  <2>1. Typed /\ Knows(r)
    BY DEF ServerInv, Handling, Consistent
  <2>2. ASSUME life[r] \in {"queued", "running"}
        PROVE  builder[r] # "freed" /\ refCount[r] >= 1
    <3>1. pc[r] \in PC /\ status[r] \in Status
      BY <2>1 DEF Typed
    <3>2. Waiting(r) \/ status[r] = "timeout"
      BY <2>1, <2>2, <3>1 DEF Knows, ThreadKnows, AnswerMeans, Waiting, PC, Status
    <3>3. Intact(r) /\ refCount[r] \in 1 .. 2
      BY <2>1, <3>2 DEF Knows, ThreadKnows, AnswerMeans
    <3> QED BY <3>3 DEF Intact
  <2>3. keys[r] = "live" => fetched[r] \in {r, NoRequest}
    BY <2>1 DEF Knows, AvatarKnows
  <2> QED BY <2>2, <2>3
<1> QED BY <1>1, ServerConsistency, PTL

\* No answer is taken from a builder before its handler has returned, and a
\* timeout leaves the builder to the handler.
THEOREM AnswersComplete == Spec => []AnswersAreComplete
<1>1. ServerInv => AnswersAreComplete
  <2> SUFFICES ASSUME ServerInv, NEW r \in Request PROVE AnswerMeans(r)
    BY DEF AnswersAreComplete, AnswerMeans, Intact
  <2> QED BY DEF ServerInv, Handling, Consistent, Knows
<1> QED BY <1>1, ServerConsistency, PTL
===============================================================================
