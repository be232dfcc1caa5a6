---------------------------- MODULE AsyncRequests ----------------------------
(***************************************************************************)
(* asyncio: the queue of requests (async_request_queue.c), the HTTP client *)
(* that carries some of them out (async_http.c), the script's functions    *)
(* (libasyncio.c) and the only step that makes anything happen,            *)
(* vm_process_events (vm.c), which only awaitResult calls.                 *)
(*                                                                         *)
(* Threads are the main thread and the avatars' workers. A critical        *)
(* section that does not block is one step. Reading and writing a file are *)
(* alike, and so are POST and GET. What curl does with a transfer is left  *)
(* open: it arrives some time, well or badly, with a body or without.      *)
(* The event loop's timer calls async_http_process, too, just before        *)
(* vm_process_events does; the two are one round here.                     *)
(*                                                                         *)
(* The client, curl's multi handle and the list of transfers, has no lock. *)
(* Each use of it is a section a thread enters and leaves in two steps; a  *)
(* thread that enters while another is inside has undefined behaviour, and *)
(* so has one whose walk of the list meets a freed transfer. The behaviour *)
(* ends there, since nothing can be said of what follows.                  *)
(***************************************************************************)
EXTENDS Naturals, Sequences, FiniteSets

CONSTANTS Threads,      \* threads that call the library
          Main,         \* the one that also frees the VM
          Pumps,        \* threads that call awaitResult
          N,            \* bound: requests created
          MaxRequests,  \* max_requests of a round of processing
          MaxRounds     \* bound: timeout_ms / sleep_interval of awaitResult

ASSUME MainIsThread == Main \in Threads
ASSUME PumpsAreThreads == Pumps \subseteq Threads
ASSUME BoundsAreNatural == N \in Nat /\ MaxRequests \in Nat /\ MaxRounds \in Nat

Requests == 1 .. N
None == 0

VARIABLES
    made,        \* requests allocated so far; objects are named in that order
    nextId,      \* queue->next_id
    list,        \* queue->head .. tail, linked by next
    id, kind, status, result,   \* fields of a request
    pc, req, limit,             \* per thread: where it is, its request, timed?
    round, cur, processed,      \* awaitResult's elapsed; the loop of process
    answer,                     \* what the thread's last call returned
    net,         \* curl's side of a transfer
    chead, cnext, cmem, seen,   \* client->requests, next, memory; a head read
    hasClient,   \* async_http_client_create succeeded
    undefined,   \* "overlap": two threads in the client; "freed": a freed
                 \* AsyncHttpRequest was read; "none" until then
    starts, ends \* history: how often a request was begun and was completed

queue  == <<made, nextId, list, id, kind>>
outcome == <<status, result, ends>>
client == <<net, chead, cnext, cmem, seen, hasClient, undefined>>
loop   == <<round, cur, processed>>
vars   == <<queue, outcome, pc, req, limit, loop, answer, client, starts>>

Terminal == {"completed", "error"}
NoAnswer == [of |-> None, got |-> None]

Init ==
    /\ made = 0 /\ nextId = 1 /\ list = <<>>
    /\ id = [r \in Requests |-> 0]
    /\ kind = [r \in Requests |-> "file"]
    /\ status = [r \in Requests |-> "none"]
    /\ result = [r \in Requests |-> None]
    /\ pc = [t \in Threads |-> "idle"]
    /\ req = [t \in Threads |-> None]
    /\ limit = [t \in Threads |-> FALSE]
    /\ round = [t \in Threads |-> 0]
    /\ cur = [t \in Threads |-> 0]
    /\ processed = [t \in Threads |-> 0]
    /\ answer = [t \in Threads |-> NoAnswer]
    /\ net = [r \in Requests |-> "none"]
    /\ chead = None
    /\ cnext = [r \in Requests |-> None]
    /\ cmem = [r \in Requests |-> "none"]
    /\ seen = [t \in Threads |-> None]
    /\ hasClient \in BOOLEAN
    /\ undefined = "none"
    /\ starts = [r \in Requests |-> 0]
    /\ ends = [r \in Requests |-> 0]

----------------------------------------------------------------------------
(* Calls. *)

Go(t, place) == pc' = [pc EXCEPT ![t] = place]

\* A call returns; its local variables are gone. nil says nothing.
Return(t, i, got) ==
    /\ Go(t, "idle")
    /\ answer' = [answer EXCEPT ![t] = IF got = None THEN NoAnswer ELSE [of |-> i, got |-> got]]
    /\ req' = [req EXCEPT ![t] = None]
    /\ limit' = [limit EXCEPT ![t] = FALSE]
    /\ round' = [round EXCEPT ![t] = 0]

\* vm_free has begun: the avatars' workers take no further task and the
\* main thread runs no further script.
Closing == pc[Main] \in {"joining", "freed"}

Calls(t) == pc[t] = "idle" /\ ~Closing

\* What a submit returns is the id; the call is over when it is queued.
Create(t, k) ==
    /\ Calls(t) /\ made < N
    /\ LET r == made + 1 IN
       /\ made' = r
       /\ id' = [id EXCEPT ![r] = nextId]
       /\ nextId' = nextId + 1
       /\ kind' = [kind EXCEPT ![r] = k]
       /\ status' = [status EXCEPT ![r] = "pending"]
       /\ req' = [req EXCEPT ![t] = r]
    /\ Go(t, "created")
    /\ UNCHANGED <<list, result, ends, limit, loop, answer, client, starts>>

\* httpPost, httpGet and their forms with options; fileRead, fileWrite.
SubmitHttp(t) == Create(t, "http")
SubmitFile(t) == Create(t, "file")

Enqueue(t) ==
    /\ pc[t] = "created"
    /\ list' = Append(list, req[t])
    /\ Go(t, "idle")
    /\ req' = [req EXCEPT ![t] = None]
    /\ UNCHANGED <<made, nextId, id, kind, outcome, limit, loop, answer, client, starts>>

\* The first request of the list with this id, or none.
Find(i) ==
    LET at == {n \in 1 .. Len(list) : id[list[n]] = i}
    IN  IF at = {} THEN None
        ELSE list[CHOOSE n \in at : \A m \in at : n <= m]

\* The script knows the ids it was given: those handed out so far.
Ids == 1 .. (nextId - 1)

\* Mutant: the body of an error is a result, too.
CopiedAnyway(r) == result[r]

Copied(r) == IF status[r] = "completed" THEN result[r] ELSE None

\* getResult; isComplete and get_status read the same field the same way.
GetResult(t, i) ==
    /\ Calls(t)
    /\ LET r == Find(i) IN Return(t, i, IF r = None THEN None ELSE Copied(r))
    /\ UNCHANGED <<queue, outcome, cur, processed, client, starts>>

WaitResult(t, i, timed) ==
    /\ Calls(t)
    /\ IF Find(i) = None
       THEN Return(t, i, None)
       ELSE /\ Go(t, "test")
            /\ req' = [req EXCEPT ![t] = Find(i)]
            /\ limit' = [limit EXCEPT ![t] = timed]
            /\ UNCHANGED <<answer, round>>
    /\ UNCHANGED <<queue, outcome, cur, processed, client, starts>>

\* The test and the wait are under the request's mutex.
WaitTest(t) ==
    /\ pc[t] = "test"
    /\ LET r == req[t] IN
       IF status[r] \in Terminal
       THEN Return(t, id[r], Copied(r))
       ELSE Go(t, "asleep") /\ UNCHANGED <<answer, req, limit, round>>
    /\ UNCHANGED <<queue, outcome, cur, processed, client, starts>>

WaitTimesOut(t) ==
    /\ pc[t] = "asleep" /\ limit[t]
    /\ Return(t, id[req[t]], None)
    /\ UNCHANGED <<queue, outcome, cur, processed, client, starts>>

SpuriousWakeup(t) ==
    /\ pc[t] = "asleep"
    /\ Go(t, "test")
    /\ UNCHANGED <<queue, outcome, req, limit, loop, answer, client, starts>>

----------------------------------------------------------------------------
(* awaitResult: poll, make things happen, sleep. *)

AwaitResult(t, i) ==
    /\ Calls(t) /\ t \in Pumps
    /\ Go(t, "check")
    /\ limit' = [limit EXCEPT ![t] = TRUE]
    /\ answer' = [answer EXCEPT ![t] = [of |-> i, got |-> None]]
    /\ UNCHANGED <<queue, outcome, req, loop, client, starts>>

IsComplete(i) == Find(i) # None /\ status[Find(i)] \in Terminal

AwaitCheck(t) ==
    /\ pc[t] = "check"
    /\ IF round[t] = MaxRounds THEN Return(t, answer[t].of, None)
       ELSE /\ Go(t, IF IsComplete(answer[t].of) THEN "collect" ELSE "perform")
            /\ UNCHANGED <<req, limit, round, answer>>
    /\ UNCHANGED <<queue, outcome, cur, processed, client, starts>>

AwaitCollect(t) ==
    /\ pc[t] = "collect"
    /\ LET i == answer[t].of IN Return(t, i, Copied(Find(i)))
    /\ UNCHANGED <<queue, outcome, cur, processed, client, starts>>

InClient == {"performing", "reading", "removing", "adding"}

\* The thread goes into the client, whoever is there.
Enters(t, place) ==
    /\ Go(t, place)
    /\ undefined' = IF \E u \in Threads \ {t} : pc[u] \in InClient THEN "overlap" ELSE undefined

WithoutClient(t) ==
    /\ pc[t] = "perform" /\ ~hasClient
    /\ Go(t, "process")
    /\ UNCHANGED <<queue, outcome, req, limit, loop, answer, client, starts>>

\* async_http_process calls curl_multi_perform, then curl_multi_info_read
\* until it gives none, and async_http_cancel after each callback.
ClientCall == [perform |-> "performing", messages |-> "reading", cancel |-> "removing"]

HttpEnter(t) ==
    /\ pc[t] \in DOMAIN ClientCall /\ hasClient
    /\ Enters(t, ClientCall[pc[t]])
    /\ UNCHANGED <<queue, outcome, req, limit, loop, answer, net, chead, cnext, cmem, seen,
                   hasClient, starts>>

\* What has arrived becomes messages.
HttpPerform(t) ==
    /\ pc[t] = "performing"
    /\ net' = [r \in Requests |-> IF net[r] = "arrived" THEN "message" ELSE net[r]]
    /\ Go(t, "messages")
    /\ UNCHANGED <<queue, outcome, req, limit, loop, answer, chead, cnext, cmem, seen,
                   hasClient, undefined, starts>>

HttpMessage(t) ==
    /\ pc[t] = "reading"
    /\ \E r \in Requests :
         /\ net[r] = "message"
         /\ net' = [net EXCEPT ![r] = "read"]
         /\ req' = [req EXCEPT ![t] = r]
    /\ Go(t, "callback")
    /\ UNCHANGED <<queue, outcome, limit, loop, answer, chead, cnext, cmem, seen,
                   hasClient, undefined, starts>>

Broadcast(r, t, place) ==
    pc' = [u \in Threads |-> CASE u = t -> place
                               [] pc[u] = "asleep" /\ req[u] = r -> "test"
                               [] OTHER -> pc[u]]

\* Status, result and wakeup are one critical section of the request.
Finish(t, r, s, body, place) ==
    /\ status' = [status EXCEPT ![r] = s]
    /\ result' = [result EXCEPT ![r] = body]
    /\ ends' = [ends EXCEPT ![r] = @ + 1]
    /\ Broadcast(r, t, place)

\* http_completion_callback: any code but 2xx is an error, with its body kept.
HttpCallback(t) ==
    /\ pc[t] = "callback"
    /\ \E s \in Terminal, body \in {None, req[t]} : Finish(t, req[t], s, body, "cancel")
    /\ UNCHANGED <<queue, req, limit, loop, answer, client, starts>>

\* Walking client->requests from its head gets to a node that is no longer
\* allocated: what is walked is the least set that has the head and the
\* successors of its nodes.
Walked ==
    {p \in Requests : \A S \in SUBSET Requests :
       /\ chead # None => chead \in S
       /\ \A q \in S : cmem[q] = "live" /\ cnext[q] # None => cnext[q] \in S
       => p \in S}

Broken == \E p \in Walked : cmem[p] # "live"

\* Mutant: only the head is taken off.
UnlinkHead(r) ==
    /\ chead' = IF chead = r THEN cnext[r] ELSE chead
    /\ UNCHANGED cnext

Unlink(r) ==
    IF chead = r THEN chead' = cnext[r] /\ UNCHANGED cnext
    ELSE /\ cnext' = [p \in Requests |-> IF cmem[p] = "live" /\ cnext[p] = r /\ p # r
                                         THEN cnext[r] ELSE cnext[p]]
         /\ UNCHANGED chead

Cancel(r) ==
    /\ Unlink(r)
    /\ cmem' = [cmem EXCEPT ![r] = "freed"]
    /\ net' = [net EXCEPT ![r] = "none"]

\* async_http_cancel after the callback.
HttpCancel(t) ==
    /\ pc[t] = "removing"
    /\ Cancel(req[t])
    /\ undefined' = IF chead # req[t] /\ Broken THEN "freed" ELSE undefined
    /\ req' = [req EXCEPT ![t] = None]
    /\ Go(t, "messages")
    /\ UNCHANGED <<queue, outcome, limit, loop, answer, seen, hasClient, starts>>

\* No message is left; the requests that remain are counted.
HttpCount(t) ==
    /\ pc[t] = "reading"
    /\ \A r \in Requests : net[r] # "message"
    /\ undefined' = IF Broken THEN "freed" ELSE undefined
    /\ Go(t, "process")
    /\ UNCHANGED <<queue, outcome, req, limit, loop, answer, net, chead, cnext, cmem, seen,
                   hasClient, starts>>

----------------------------------------------------------------------------
(* async_request_queue_process. *)

ProcessBegin(t) ==
    /\ pc[t] = "process"
    /\ cur' = [cur EXCEPT ![t] = IF list = <<>> THEN 0 ELSE 1]
    /\ Go(t, "scan")
    /\ UNCHANGED <<queue, outcome, req, limit, round, processed, answer, client, starts>>

\* Mutant: the walk ends at the first request that is not pending.
PendingAt(n) == IF n = 0 \/ status[list[n]] # "pending" THEN {} ELSE {n}

\* The pending requests from cur on; none when the walk ends first. The
\* successor is read with the queue locked, before the work: at the end of
\* the list it stays the end, whatever is appended meanwhile.
PendingFrom(n) ==
    IF n = 0 THEN {} ELSE {m \in n .. Len(list) : status[list[m]] = "pending"}

\* Mutant: the request is not marked before the queue is unlocked.
ProcessTakeUnmarked(t) ==
    /\ pc[t] = "scan" /\ processed[t] < MaxRequests
    /\ PendingFrom(cur[t]) # {}
    /\ LET n == CHOOSE m \in PendingFrom(cur[t]) : \A k \in PendingFrom(cur[t]) : m <= k
       IN  /\ req' = [req EXCEPT ![t] = list[n]]
           /\ cur' = [cur EXCEPT ![t] = IF n = Len(list) THEN 0 ELSE n + 1]
    /\ Go(t, "work")
    /\ UNCHANGED <<queue, outcome, limit, round, processed, answer, client, starts>>

ProcessTake(t) ==
    /\ pc[t] = "scan" /\ processed[t] < MaxRequests
    /\ PendingFrom(cur[t]) # {}
    /\ LET n == CHOOSE m \in PendingFrom(cur[t]) : \A k \in PendingFrom(cur[t]) : m <= k
           r == list[n]
       IN  /\ status' = [status EXCEPT ![r] = "processing"]
           /\ req' = [req EXCEPT ![t] = r]
           /\ cur' = [cur EXCEPT ![t] = IF n = Len(list) THEN 0 ELSE n + 1]
    /\ Go(t, "work")
    /\ UNCHANGED <<queue, result, ends, limit, round, processed, answer, client, starts>>

\* The round of awaitResult ends with its sleep.
ProcessEnd(t) ==
    /\ pc[t] = "scan"
    /\ processed[t] >= MaxRequests \/ PendingFrom(cur[t]) = {}
    /\ round' = [round EXCEPT ![t] = @ + 1]
    /\ cur' = [cur EXCEPT ![t] = 0]
    /\ processed' = [processed EXCEPT ![t] = 0]
    /\ Go(t, "check")
    /\ UNCHANGED <<queue, outcome, req, limit, answer, client, starts>>

Counted(t) == processed' = [processed EXCEPT ![t] = @ + 1]
Started(t) == starts' = [starts EXCEPT ![req[t]] = @ + 1]

\* process_file_read, process_file_write: an error leaves no result.
WorkFile(t) ==
    /\ pc[t] = "work" /\ kind[req[t]] = "file"
    /\ \/ Finish(t, req[t], "completed", req[t], "scan")
       \/ Finish(t, req[t], "error", None, "scan")
    /\ Counted(t) /\ Started(t)
    /\ req' = [req EXCEPT ![t] = None]
    /\ UNCHANGED <<queue, limit, round, cur, answer, client>>

\* No client: nothing is started, nothing counted, the request stays as it is.
WorkWithoutClient(t) ==
    /\ pc[t] = "work" /\ kind[req[t]] = "http" /\ ~hasClient
    /\ Go(t, "scan")
    /\ req' = [req EXCEPT ![t] = None]
    /\ UNCHANGED <<queue, outcome, limit, loop, answer, client, starts>>

\* async_http_post_ex gives NULL, which nobody looks at.
WorkFails(t) ==
    /\ pc[t] = "work" /\ kind[req[t]] = "http" /\ hasClient
    /\ Counted(t)
    /\ Go(t, "scan")
    /\ req' = [req EXCEPT ![t] = None]
    /\ UNCHANGED <<queue, outcome, limit, round, cur, answer, client, starts>>

\* async_http_post_ex, async_http_get_ex: the transfer is given to curl and
\* put in front of the list, a load and a store, and curl is set going.
HttpAdd(t) ==
    /\ pc[t] = "work" /\ kind[req[t]] = "http" /\ hasClient
    /\ net' = [net EXCEPT ![req[t]] = "active"]
    /\ cmem' = [cmem EXCEPT ![req[t]] = "live"]
    /\ seen' = [seen EXCEPT ![t] = chead]
    /\ Started(t)
    /\ Enters(t, "adding")
    /\ UNCHANGED <<queue, outcome, req, limit, loop, answer, chead, cnext, hasClient>>

HttpLink(t) ==
    /\ pc[t] = "adding"
    /\ cnext' = [cnext EXCEPT ![req[t]] = seen[t]]
    /\ chead' = req[t]
    /\ seen' = [seen EXCEPT ![t] = None]
    /\ Counted(t)
    /\ Go(t, "scan")
    /\ req' = [req EXCEPT ![t] = None]
    /\ UNCHANGED <<queue, outcome, limit, round, cur, answer, net, cmem, hasClient, undefined,
                   starts>>

\* The network, or one of the time limits every transfer has.
Arrive(r) ==
    /\ net[r] = "active"
    /\ net' = [net EXCEPT ![r] = "arrived"]
    /\ UNCHANGED <<queue, outcome, pc, req, limit, loop, answer, chead, cnext, cmem, seen,
                   hasClient, undefined, starts>>

----------------------------------------------------------------------------
(* vm_free: the avatars' workers are joined, then the client is destroyed,
   which cancels what is under way and calls nobody back. *)

FreeBegin ==
    /\ Calls(Main)
    /\ Go(Main, "joining")
    /\ UNCHANGED <<queue, outcome, req, limit, loop, answer, client, starts>>

FreeClient ==
    /\ pc[Main] = "joining"
    /\ \A t \in Threads \ {Main} : pc[t] = "idle"
    /\ Go(Main, "freed")
    /\ cmem' = [r \in Requests |-> IF cmem[r] = "live" THEN "freed" ELSE cmem[r]]
    /\ net' = [r \in Requests |-> "none"]
    /\ chead' = None
    /\ undefined' = IF Broken THEN "freed" ELSE undefined
    /\ UNCHANGED <<queue, outcome, req, limit, loop, answer, cnext, seen, hasClient, starts>>

----------------------------------------------------------------------------
Sound == undefined = "none"

Step(t) ==
    /\ Sound
    /\ \/ Enqueue(t) \/ WaitTest(t)
       \/ AwaitCheck(t) \/ AwaitCollect(t)
       \/ WithoutClient(t) \/ HttpEnter(t) \/ HttpPerform(t)
       \/ HttpMessage(t) \/ HttpCallback(t) \/ HttpCancel(t) \/ HttpCount(t)
       \/ ProcessBegin(t) \/ ProcessTake(t) \/ ProcessEnd(t)
       \/ WorkFile(t) \/ WorkWithoutClient(t) \/ WorkFails(t) \/ HttpAdd(t) \/ HttpLink(t)

Call(t) ==
    \/ SubmitHttp(t) \/ SubmitFile(t)
    \/ \E i \in Ids : \/ GetResult(t, i) \/ AwaitResult(t, i)
                      \/ \E timed \in BOOLEAN : WaitResult(t, i, timed)

Next ==
    \/ \E t \in Threads : Step(t)
    \/ \E t \in Threads : Sound /\ (Call(t) \/ WaitTimesOut(t) \/ SpuriousWakeup(t))
    \/ \E r \in Requests : Sound /\ Arrive(r)
    \/ Sound /\ (FreeBegin \/ FreeClient)

Spec == Init /\ [][Next]_vars

\* Threads run, transfers end (curl has a time limit for each), and a wait
\* ends at its time, which is absolute: wakeups do not defer it. Nobody is
\* made to call.
FairSpec ==
    /\ Spec
    /\ \A t \in Threads : WF_vars(Step(t)) /\ SF_vars(Sound /\ WaitTimesOut(t))
    /\ \A r \in Requests : WF_vars(Sound /\ Arrive(r))
    /\ WF_vars(Sound /\ FreeClient)

----------------------------------------------------------------------------
(* Properties. *)

Place == InClient \cup
         {"idle", "created", "test", "asleep", "check", "collect", "perform", "messages",
          "callback", "cancel", "process", "scan", "work", "joining", "freed"}

TypeOK ==
    /\ made \in 0 .. N /\ nextId = made + 1
    /\ list \in Seq(1 .. made)
    /\ id \in [Requests -> 0 .. N]
    /\ kind \in [Requests -> {"file", "http"}]
    /\ status \in [Requests -> {"none", "pending", "processing"} \cup Terminal]
    /\ result \in [Requests -> 0 .. N]
    /\ pc \in [Threads -> Place]
    /\ req \in [Threads -> 0 .. N]
    /\ limit \in [Threads -> BOOLEAN]
    /\ round \in [Threads -> 0 .. MaxRounds]
    /\ cur \in [Threads -> Nat] /\ \A t \in Threads : cur[t] <= Len(list)
    /\ processed \in [Threads -> 0 .. MaxRequests]
    /\ answer \in [Threads -> [of : 0 .. N, got : 0 .. N]]
    /\ net \in [Requests -> {"none", "active", "arrived", "message", "read"}]
    /\ chead \in 0 .. N /\ cnext \in [Requests -> 0 .. N]
    /\ cmem \in [Requests -> {"none", "live", "freed"}]
    /\ seen \in [Threads -> 0 .. N]
    /\ hasClient \in BOOLEAN /\ undefined \in {"none", "overlap", "freed"}
    /\ starts \in [Requests -> Nat] /\ ends \in [Requests -> Nat]

\* A script is given the result of the request it asked for, and only after
\* that request has completed: ids are taken and requests queued in two
\* critical sections, so the list need not be in the order of the ids.
AnswersBelong ==
    \A t \in Threads :
      LET r == answer[t].got
      IN  r # None => id[r] = answer[t].of /\ status[r] = "completed"

\* However many threads process the queue, a file is read or written, and a
\* transfer started, once per request, and a request is completed once; a
\* request under way has been started or its start has failed.
RunOnce ==
    \A r \in Requests :
      /\ starts[r] <= 1 /\ ends[r] <= starts[r]
      /\ ends[r] = 1 <=> status[r] \in Terminal

\* Nobody sleeps on a request that is over: the test and the wait are under
\* the mutex under which status is written.
NoSleeperMissed ==
    \A t \in Threads : pc[t] = "asleep" => status[req[t]] \notin Terminal

\* The client's list never leads to a freed request, however the calls of
\* several threads alternate: a transfer is taken off the list and freed in
\* one use of the client, and every callback runs between two of them. Where
\* two threads are in the client at once nothing holds (OneInClient).
ClientSound == undefined # "freed"

\* docs/avatars.md: avatars run at once and "Works seamlessly with all Kuyil
\* libraries"; each of them may call awaitResult.
OneInClient == undefined # "overlap"

\* While somebody goes on calling awaitResult, and no two threads meet in the
\* client, every queued request ends, except for those the client failed to
\* start: none is overtaken for ever because a round takes MaxRequests, or
\* skipped because the successor was read before it was appended.
QueuedEnds ==
    []<>(Sound /\ \E t \in Pumps : pc[t] = "process") =>
      \A r \in Requests :
        (\E n \in 1 .. Len(list) : list[n] = r) ~>
        (status[r] \in Terminal \/ (kind[r] = "http" /\ status[r] = "processing" /\ starts[r] = 0))

\* vm_free ends, unless an avatar waits without a time limit: the joined
\* worker's request is carried out by nobody.
FreeEnds ==
    (pc[Main] = "joining") ~>
    (pc[Main] = "freed" \/ \E t \in Threads : pc[t] = "asleep" /\ ~limit[t])

\* interface_asyncio.kyl: "All operations return a request ID and execute
\* asynchronously".
Executes ==
    \A r \in Requests : (\E n \in 1 .. Len(list) : list[n] = r) ~> status[r] \in Terminal
=============================================================================
