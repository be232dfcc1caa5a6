------------------------------- MODULE AvatarVM -------------------------------
(***************************************************************************)
(* A Kuyil script on the main thread that launches avatars and awaits them *)
(* (OP_AVATAR and OP_AWAIT in src/src/vm.c), the host's event loop, and    *)
(* vm_free, composed with the avatar runtime.  The workers run between any *)
(* two steps of the main thread.                                           *)
(*                                                                         *)
(* MaxPolls stands for the 10000 polls of OP_AWAIT.  The limit of 100      *)
(* completions per poll is not reached: there are fewer avatars.           *)
(***************************************************************************)
EXTENDS AvatarRuntime

CONSTANTS MaxPolls, NoAvatar

ASSUME MaxPollsAssumption == MaxPolls \in Nat \ {0}
ASSUME NoAvatarAssumption == NoAvatar \notin Avatar

VARIABLES
  main,      \* what the main thread is doing
  target,    \* the handle OP_AVATAR or OP_AWAIT is working on
  polls,     \* polls, in OP_AWAIT
  awaited    \* what each finished await pushed on the stack of the script

mainVars == <<main, target, polls, awaited>>
vmVars == <<runtimeVars, mainVars>>

Main == {"script", "submitting", "await", "polling", "events", "error",
         "destroying", "freed"}

VMTypeOK ==
  /\ RuntimeTypeOK
  /\ main \in Main
  /\ target \in Avatar \cup {NoAvatar}
  /\ polls \in 0 .. MaxPolls
  /\ awaited \in [Avatar -> Outcome]

VMInit ==
  /\ RuntimeInit
  /\ main = "script"
  /\ target = NoAvatar
  /\ polls = 0
  /\ awaited = [a \in Avatar |-> "none"]

MainGoes(from, to) == main = from /\ main' = to

-----------------------------------------------------------------------------
(* OP_AVATAR *)

LaunchList(a) ==
  /\ MainGoes("script", "submitting")
  /\ ListHandle(a)
  /\ target' = a
  /\ UNCHANGED <<polls, awaited>>

LaunchQueue ==
  /\ MainGoes("submitting", "script")
  /\ QueueHandle(target)
  /\ target' = NoAvatar
  /\ UNCHANGED <<polls, awaited>>

\* "Failed to submit avatar" is a runtime error: the script is over.
LaunchFails ==
  /\ MainGoes("submitting", "error")
  /\ Unlist(target)
  /\ target' = NoAvatar
  /\ UNCHANGED <<polls, awaited>>

-----------------------------------------------------------------------------
(* OP_AWAIT of a handle the script got from OP_AVATAR; it may await it again *)

Await(a) ==
  /\ MainGoes("script", "await")
  /\ handle[a] = "listed"
  /\ target' = a
  /\ polls' = 0
  /\ UNCHANGED <<runtimeVars, awaited>>

Poll ==
  /\ MainGoes("await", "polling")
  /\ ~completed[target]
  /\ polls < MaxPolls
  /\ UNCHANGED <<runtimeVars, target, polls, awaited>>

\* avatar_runtime_process_completions calls back for one avatar after the other,
\* in OP_AWAIT as in the event loop.
CollectOne(a) ==
  /\ main \in {"polling", "events"}
  /\ Complete(a)
  /\ UNCHANGED mainVars

AllCollected == \A a \in Avatar : life[a] # "finished"

AwaitSleeps ==
  /\ MainGoes("polling", "await")
  /\ AllCollected
  /\ polls' = polls + 1
  /\ UNCHANGED <<runtimeVars, target, awaited>>

\* is_complete, then has_error, then get_result.
AwaitReturns ==
  /\ MainGoes("await", "script")
  /\ completed[target]
  /\ outcome[target] # "error"
  /\ awaited' = [awaited EXCEPT ![target] = outcome[target]]
  /\ target' = NoAvatar
  /\ UNCHANGED <<runtimeVars, polls>>

\* Mutant: await has no time limit.
AwaitFailsOnError ==
  /\ MainGoes("await", "error")
  /\ completed[target] /\ outcome[target] = "error"
  /\ target' = NoAvatar
  /\ UNCHANGED <<runtimeVars, polls, awaited>>

AwaitFails ==
  /\ MainGoes("await", "error")
  /\ IF completed[target]
     THEN outcome[target] = "error"
     ELSE polls = MaxPolls
  /\ target' = NoAvatar
  /\ UNCHANGED <<runtimeVars, polls, awaited>>

-----------------------------------------------------------------------------
(* vm_process_avatar_completions from the host's loop, and vm_free *)

EnterEvents ==
  /\ MainGoes("script", "events")
  /\ UNCHANGED <<runtimeVars, target, polls, awaited>>

LeaveEvents ==
  /\ MainGoes("events", "script")
  /\ AllCollected
  /\ UNCHANGED <<runtimeVars, target, polls, awaited>>

VmFree ==
  /\ main \in {"script", "error"}
  /\ main' = "destroying"
  /\ ShutDownPool
  /\ UNCHANGED <<target, polls, awaited>>

\* Mutant: vm_free waits for the pending count to reach zero.
VmFreedWhenNonePending ==
  /\ MainGoes("destroying", "freed")
  /\ pendingCount = 0
  /\ FreeHandles
  /\ UNCHANGED <<target, polls, awaited>>

VmFreed ==
  /\ MainGoes("destroying", "freed")
  /\ FreeHandles
  /\ UNCHANGED <<target, polls, awaited>>

-----------------------------------------------------------------------------
\* What the main thread does on its own once it is inside an operation.
InOperation ==
  \/ LaunchQueue \/ LaunchFails
  \/ Poll \/ AwaitSleeps \/ AwaitReturns \/ AwaitFails
  \/ LeaveEvents \/ VmFreed
  \/ \E a \in Avatar : CollectOne(a)

AvatarRuns == \E a \in Avatar : WorkerStep(a) /\ UNCHANGED mainVars

VMNext ==
  \/ \E a \in Avatar : LaunchList(a) \/ Await(a)
  \/ EnterEvents
  \/ VmFree
  \/ InOperation
  \/ AvatarRuns

VMSpec == VMInit /\ [][VMNext]_vmVars

\* The main thread is scheduled, and so is a worker whose body has returned.
\* Nothing makes the script launch, await or end, or a body return: the limit of
\* MAX_INSTRUCTIONS does not end a call into a library that waits.
VMFairSpec ==
  /\ VMSpec
  /\ WF_vmVars(InOperation)
  /\ \A a \in Avatar : WF_vmVars(Return(a) /\ UNCHANGED mainVars)

-----------------------------------------------------------------------------
(* Properties *)

\* The script never reads a result before the worker has written it, although
\* the worker writes without the handle's mutex: a completed handle has its
\* outcome, and it is the one await pushed.
CompletedHasOutcome ==
  \A a \in Avatar :
    /\ completed[a] => outcome[a] # "none" /\ life[a] = "done"
    /\ awaited[a] # "none" => awaited[a] = outcome[a] /\ awaited[a] = "value"

\* A script may await an avatar long after it completed, and again: the handle of
\* every avatar the pool accepted stays allocated until vm_free has destroyed the
\* runtime.
HandleOutlivesScript ==
  \A a \in Avatar : life[a] # "new" /\ main # "freed" => handle[a] = "listed"

\* avatar_runtime.h: destroy waits for all avatars to complete.  Every avatar
\* the pool accepted has run to its end when vm_free returns.
DestroyWaits ==
  main = "freed" => \A a \in Avatar :
    life[a] \in {"new", "done", "dropped"} /\ (life[a] # "new" => outcome[a] # "none")

\* Every await ends, in a result, an error or a timeout, also when no avatar's body
\* ever returns.
AwaitEnds == main \in {"await", "polling"} ~> main \in {"script", "error"}

\* The body of every avatar that was accepted is started and returns.
BodiesReturn == \A a \in Avatar : life[a] \in {"queued", "running"} ~> outcome[a] # "none"

\* vm_free returns if no body waits for ever: it needs nobody to collect the
\* completions, and no more of the script.
FreeEnds == BodiesReturn => (main = "destroying" ~> main = "freed")

-----------------------------------------------------------------------------
(* The inductive invariant: for each avatar, its phase in the pool, the    *)
(* memory of its handle, what the worker wrote and what the script saw     *)
(* agree, and the submission in progress is the main thread's.             *)

VMTyped ==
  /\ main \in Main
  /\ target \in Avatar \cup {NoAvatar}
  /\ open \in BOOLEAN
  /\ life \in [Avatar -> Pool!Phase]
  /\ Counted
  /\ completed \in [Avatar -> BOOLEAN]
  /\ outcome \in [Avatar -> Outcome]
  /\ awaited \in [Avatar -> Outcome]

\* The handle under submission is listed and not yet in the pool.
Targeted ==
  /\ main \in {"submitting", "await", "polling"} => target \in Avatar
  /\ main = "submitting" => handle[target] = "listed" /\ life[target] = "new"

Closing ==
  /\ main \in {"destroying", "freed"} <=> ~open
  /\ main = "freed" => \A a \in Avatar : life[a] \in {"new", "done", "dropped"}

\* What is known of an avatar.
HandleKnows(a) ==
  /\ handle[a] = "unused" => life[a] = "new"
  /\ handle[a] = "freed" /\ life[a] # "new" => main = "freed"
  /\ life[a] \in {"new", "queued"} => outcome[a] = "none"
  /\ life[a] \in {"finished", "done", "dropped"} => outcome[a] # "none"
  /\ completed[a] => life[a] = "done"
  /\ awaited[a] # "none" => completed[a] /\ awaited[a] = outcome[a] /\ awaited[a] = "value"

VMInv == VMTyped /\ Targeted /\ Closing /\ \A a \in Avatar : HandleKnows(a)
=============================================================================
