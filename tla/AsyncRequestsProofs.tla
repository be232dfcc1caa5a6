------------------------- MODULE AsyncRequestsProofs -------------------------
(***************************************************************************)
(* Proofs about AsyncRequests.tla, for any set of threads, any number of   *)
(* requests and of threads that call awaitResult, any max_requests and any *)
(* number of rounds.  The inductive invariant is the conjunction of        *)
(*   TypeOK       as the model states it;                                  *)
(*   PlaceInv     what a thread's place says of its request and counters;  *)
(*   StatusInv    what a request's status says of its fields and of the    *)
(*                transfer curl has for it;                                *)
(*   WorkInv      who holds a request: one worker, one completion;         *)
(*   AnswerInv    what was answered, and what is about to be.              *)
(***************************************************************************)
EXTENDS AsyncRequests, TLAPS, SequenceTheorems, NaturalsInduction,
        WellFoundedInduction

\* Places of a thread that has a request in hand.
Holding == {"created", "test", "asleep", "callback", "cancel", "removing", "work", "adding"}

\* Places of a round of awaitResult that has begun.
Round == {"collect", "perform", "performing", "messages", "reading", "callback", "cancel",
          "removing", "process", "scan", "work", "adding"}

PlaceInv ==
  \A t \in Threads :
    /\ pc[t] \in Holding => req[t] \in 1 .. made
    /\ pc[t] \in Round => round[t] < MaxRounds
    /\ pc[t] \in {"work", "adding"} => processed[t] < MaxRequests

StatusInv ==
  \A r \in Requests :
    /\ r > made <=> status[r] = "none"
    /\ status[r] \in {"none", "pending"} => starts[r] = 0 /\ ends[r] = 0 /\ net[r] = "none"
    /\ status[r] = "processing" => starts[r] \in {0, 1} /\ ends[r] = 0
    /\ status[r] \in Terminal => starts[r] = 1 /\ ends[r] = 1
    /\ status[r] = "completed" => result[r] \in {None, r}
    /\ net[r] \in {"active", "arrived", "message"} => status[r] = "processing" /\ starts[r] = 1

WorkInv ==
  \A t \in Threads :
    /\ pc[t] = "work" =>
         /\ status[req[t]] = "processing" /\ starts[req[t]] = 0 /\ net[req[t]] = "none"
         /\ \A u \in Threads \ {t} : pc[u] \in {"work", "callback"} => req[u] # req[t]
    /\ pc[t] = "callback" =>
         /\ status[req[t]] = "processing" /\ starts[req[t]] = 1 /\ net[req[t]] = "read"
         /\ \A u \in Threads \ {t} : pc[u] = "callback" => req[u] # req[t]
    /\ pc[t] \in {"cancel", "removing"} => status[req[t]] \in Terminal

AnswerInv ==
  \A t \in Threads :
    /\ answer[t].got # None =>
         /\ answer[t].got \in 1 .. made
         /\ id[answer[t].got] = answer[t].of /\ status[answer[t].got] = "completed"
    /\ pc[t] = "collect" => \E n \in 1 .. Len(list) : id[list[n]] = answer[t].of

\* The inductive invariant.
RequestsInv ==
  /\ TypeOK /\ PlaceInv /\ StatusInv /\ WorkInv /\ AnswerInv /\ NoSleeperMissed

-----------------------------------------------------------------------------
(* Facts about the queue *)

\* A nonempty set of numbers has a least one.
LEMMA Least ==
  ASSUME NEW S \in SUBSET Nat, S # {}
  PROVE  \E n \in S : \A m \in S : n <= m
<1>1. IsWellFoundedOn(OpToRel(<, Nat), Nat)  BY NatLessThanWellFounded
<1>2. PICK n \in S : \A m \in S : <<m, n>> \notin OpToRel(<, Nat)
  BY <1>1, WFMin
<1>3. \A m \in S : ~(m < n)  BY <1>2 DEF OpToRel
<1> QED  BY <1>3

LEMMA MadeTypes ==
  ASSUME TypeOK, NEW r \in 1 .. made
  PROVE  r \in Requests /\ r \in 0 .. N /\ r \in Nat /\ r # None
  BY BoundsAreNatural DEF TypeOK, Requests, None

LEMMA Zero == None \in 0 .. N /\ 0 \in 0 .. MaxRounds /\ 0 \in 0 .. MaxRequests
  BY BoundsAreNatural DEF None

\* The first request with an id has that id.
LEMMA FoundHasId ==
  ASSUME TypeOK, NEW i, Find(i) # None
  PROVE  Find(i) \in 1 .. made /\ id[Find(i)] = i
<1> DEFINE at == {n \in 1 .. Len(list) : id[list[n]] = i}
           first == CHOOSE n \in at : \A m \in at : n <= m
<1>1. Len(list) \in Nat /\ \A n \in 1 .. Len(list) : list[n] \in 1 .. made
  BY LenProperties, ElementOfSeq DEF TypeOK
<1>2. at # {} /\ Find(i) = list[first]  BY DEF Find
<1>3. at \in SUBSET Nat  BY <1>1
<1>4. \E n \in at : \A m \in at : n <= m  BY <1>2, <1>3, Least
<1>5. first \in at  BY <1>4
<1> QED  BY <1>1, <1>2, <1>5

LEMMA QueuedIsFound ==
  ASSUME NEW i, \E n \in 1 .. Len(list) : id[list[n]] = i, TypeOK
  PROVE  Find(i) # None
<1> DEFINE at == {n \in 1 .. Len(list) : id[list[n]] = i}
           first == CHOOSE n \in at : \A m \in at : n <= m
<1>1. Len(list) \in Nat /\ \A n \in 1 .. Len(list) : list[n] \in 1 .. made
  BY LenProperties, ElementOfSeq DEF TypeOK
<1>2. at # {} /\ Find(i) = list[first]  BY DEF Find
<1>3. at \in SUBSET Nat  BY <1>1
<1>4. \E n \in at : \A m \in at : n <= m  BY <1>2, <1>3, Least
<1>5. first \in at  BY <1>4
<1>6. 0 \notin 1 .. made  BY DEF TypeOK
<1> QED  BY <1>1, <1>2, <1>5, <1>6 DEF None

LEMMA FoundIsQueued ==
  ASSUME NEW i, Find(i) # None
  PROVE  \E n \in 1 .. Len(list) : id[list[n]] = i
  BY DEF Find

\* What is copied is the request's own body, of a request that completed.
LEMMA CopiedIsOwn ==
  ASSUME TypeOK, StatusInv, NEW r \in Requests
  PROVE  Copied(r) \in {None, r} /\ (Copied(r) # None => status[r] = "completed")
  BY DEF StatusInv, Copied

LEMMA RequestsInit == Init => RequestsInv
<1> SUFFICES ASSUME Init PROVE RequestsInv
  OBVIOUS
<1>0. N \in Nat /\ MaxRequests \in Nat /\ MaxRounds \in Nat  BY BoundsAreNatural
<1>1. list \in Seq(1 .. made) /\ Len(list) = 0  BY EmptySeq DEF Init
<1>2. TypeOK
  <2>1. NoAnswer \in [of : 0 .. N, got : 0 .. N]  BY <1>0 DEF NoAnswer, None
  <2>2. \A t \in Threads : cur[t] <= Len(list)  BY <1>1 DEF Init
  <2>4. /\ made \in 0 .. N /\ nextId = made + 1 /\ list \in Seq(1 .. made)
        /\ id \in [Requests -> 0 .. N] /\ kind \in [Requests -> {"file", "http"}]
        /\ result \in [Requests -> 0 .. N]
    BY <1>0, <1>1 DEF Init, None
  <2>5. /\ req \in [Threads -> 0 .. N] /\ limit \in [Threads -> BOOLEAN]
        /\ round \in [Threads -> 0 .. MaxRounds] /\ cur \in [Threads -> Nat]
        /\ processed \in [Threads -> 0 .. MaxRequests] /\ seen \in [Threads -> 0 .. N]
    BY <1>0 DEF Init, None
  <2>6. /\ net \in [Requests -> {"none", "active", "arrived", "message", "read"}]
        /\ chead \in 0 .. N /\ cnext \in [Requests -> 0 .. N]
        /\ cmem \in [Requests -> {"none", "live", "freed"}]
        /\ starts \in [Requests -> Nat] /\ ends \in [Requests -> Nat]
    BY <1>0 DEF Init, None
  <2>7. hasClient \in BOOLEAN /\ undefined \in {"none", "overlap", "freed"}  BY DEF Init
  <2>3. /\ pc \in [Threads -> Place] /\ answer \in [Threads -> [of : 0 .. N, got : 0 .. N]]
        /\ status \in [Requests -> {"none", "pending", "processing"} \cup Terminal]
    BY <2>1 DEF Init, Place
  <2> QED  BY <2>2, <2>3, <2>4, <2>5, <2>6, <2>7 DEF TypeOK
<1>3. PlaceInv  BY DEF Init, PlaceInv, Holding, Round
<1>4. StatusInv  BY <1>0 DEF Init, StatusInv, Terminal, Requests
<1>5. WorkInv  BY DEF Init, WorkInv
<1>6. AnswerInv  BY DEF Init, AnswerInv, NoAnswer
<1>7. NoSleeperMissed  BY DEF Init, NoSleeperMissed
<1> QED  BY <1>2, <1>3, <1>4, <1>5, <1>6, <1>7 DEF RequestsInv

-----------------------------------------------------------------------------
(* Steps that change nothing but where a thread is and what it remembers *)

\* The thread's place, request, counters and answer after such a step.
LEMMA Moves ==
  ASSUME RequestsInv, NEW t \in Threads, UNCHANGED <<queue, outcome, client, starts>>,
         NEW p \in Place, pc' = [pc EXCEPT ![t] = p],
         NEW q \in 0 .. N, req' = [req EXCEPT ![t] = q],
         limit' \in [Threads -> BOOLEAN],
         NEW n \in 0 .. MaxRounds, round' = [round EXCEPT ![t] = n],
         NEW c \in Nat, cur' = [cur EXCEPT ![t] = c], c <= Len(list),
         NEW m \in 0 .. MaxRequests, processed' = [processed EXCEPT ![t] = m],
         p \notin {"created", "work", "adding", "callback", "cancel", "removing"},
         p \in {"test", "asleep"} => q \in 1 .. made,
         p = "asleep" => status[q] \notin Terminal,
         p \in Round => n < MaxRounds,
         NEW a \in [of : 0 .. N, got : 0 .. N], answer' = [answer EXCEPT ![t] = a],
         a.got # None => /\ a.got \in 1 .. made
                         /\ id[a.got] = a.of /\ status[a.got] = "completed",
         p = "collect" => \E k \in 1 .. Len(list) : id[list[k]] = a.of
  PROVE  RequestsInv'
<1>0. TypeOK /\ PlaceInv /\ StatusInv /\ WorkInv /\ AnswerInv /\ NoSleeperMissed
  BY DEF RequestsInv
<1>1. /\ UNCHANGED <<made, nextId, list, id, kind, status, result, ends, starts>>
      /\ UNCHANGED <<net, chead, cnext, cmem, seen, hasClient, undefined>>
  BY DEF queue, outcome, client
<1>2. /\ pc \in [Threads -> Place] /\ req \in [Threads -> 0 .. N]
      /\ round \in [Threads -> 0 .. MaxRounds] /\ processed \in [Threads -> 0 .. MaxRequests]
      /\ cur \in [Threads -> Nat] /\ answer \in [Threads -> [of : 0 .. N, got : 0 .. N]]
  BY <1>0 DEF TypeOK
<1>3. TypeOK'
  <2>1. \A u \in Threads : cur'[u] <= Len(list)  BY <1>0, <1>2 DEF TypeOK
  <2> QED  BY <1>0, <1>1, <1>2, <2>1 DEF TypeOK, Requests
<1>4. \A u \in Threads :
         /\ pc'[u] = IF u = t THEN p ELSE pc[u]
         /\ req'[u] = IF u = t THEN q ELSE req[u]
         /\ answer'[u] = IF u = t THEN a ELSE answer[u]
         /\ round'[u] = IF u = t THEN n ELSE round[u]
         /\ processed'[u] = IF u = t THEN m ELSE processed[u]
  BY <1>2
<1>5. PlaceInv'  BY <1>0, <1>1, <1>4 DEF PlaceInv, Holding, Round
<1>6. StatusInv'  BY <1>0, <1>1 DEF StatusInv
<1>7. WorkInv'  BY <1>0, <1>1, <1>4 DEF WorkInv
<1>8. AnswerInv'
  <2> SUFFICES ASSUME NEW u \in Threads
               PROVE  /\ answer'[u].got # None =>
                           /\ answer'[u].got \in 1 .. made
                           /\ id[answer'[u].got] = answer'[u].of
                           /\ status[answer'[u].got] = "completed"
                      /\ pc'[u] = "collect" => \E k \in 1 .. Len(list) : id[list[k]] = answer'[u].of
    BY <1>1 DEF AnswerInv
  <2>1. CASE u = t  BY <1>4, <2>1
  <2>2. CASE u # t
    <3>1. pc'[u] = pc[u] /\ answer'[u] = answer[u]  BY <1>4, <2>2
    <3> QED  BY <1>0, <3>1 DEF AnswerInv
  <2> QED  BY <2>1, <2>2
<1>9. NoSleeperMissed'  BY <1>0, <1>1, <1>4 DEF NoSleeperMissed
<1> QED  BY <1>3, <1>5, <1>6, <1>7, <1>8, <1>9 DEF RequestsInv

\* A call returns with nothing, or with a body of its own request.
LEMMA Returns ==
  ASSUME RequestsInv, NEW t \in Threads, NEW i \in 0 .. N, NEW got \in 0 .. N, Return(t, i, got),
         got # None => got \in 1 .. made /\ id[got] = i /\ status[got] = "completed",
         UNCHANGED <<queue, outcome, cur, processed, client, starts>>
  PROVE  RequestsInv'
<1> DEFINE a == IF got = None THEN NoAnswer ELSE [of |-> i, got |-> got]
<1>0. TypeOK  BY DEF RequestsInv
<1>1. /\ N \in Nat /\ MaxRounds \in Nat /\ MaxRequests \in Nat /\ made \in 0 .. N
      /\ Len(list) \in Nat
  BY <1>0, BoundsAreNatural, LenProperties DEF TypeOK
<1>2. /\ cur' = [cur EXCEPT ![t] = cur[t]] /\ cur[t] \in Nat /\ cur[t] <= Len(list)
      /\ processed' = [processed EXCEPT ![t] = processed[t]] /\ processed[t] \in 0 .. MaxRequests
  BY <1>0 DEF TypeOK
<1>3. limit' \in [Threads -> BOOLEAN]  BY <1>0 DEF TypeOK, Return
<1>4. a \in [of : 0 .. N, got : 0 .. N] /\ (a.got # None => a.got = got /\ a.of = i)
  BY <1>1 DEF NoAnswer, None
<1>5. /\ pc' = [pc EXCEPT ![t] = "idle"] /\ req' = [req EXCEPT ![t] = 0]
      /\ round' = [round EXCEPT ![t] = 0] /\ answer' = [answer EXCEPT ![t] = a]
  BY DEF Return, Go, None
<1> HIDE DEF a
<1>6. "idle" \in Place /\ "idle" \notin Round /\ 0 \in 0 .. N /\ 0 \in 0 .. MaxRounds
  BY <1>1 DEF Place, Round
<1> QED  BY <1>2, <1>3, <1>4, <1>5, <1>6, Moves

\* A step of a thread that keeps its answer, its counters and its time limit.
LEMMA Walks ==
  ASSUME RequestsInv, NEW t \in Threads, NEW p \in Place,
         UNCHANGED <<queue, outcome, client, starts>>, UNCHANGED <<answer, loop>>,
         limit' \in [Threads -> BOOLEAN],
         pc' = [pc EXCEPT ![t] = p],
         p \notin {"created", "work", "adding", "callback", "cancel", "removing", "collect"},
         NEW q \in 0 .. N, req' = [req EXCEPT ![t] = q],
         p \in {"test", "asleep"} => q \in 1 .. made,
         p = "asleep" => status[q] \notin Terminal,
         p \in Round => round[t] < MaxRounds
  PROVE  RequestsInv'
<1>0. TypeOK /\ AnswerInv  BY DEF RequestsInv
<1>1. /\ cur' = [cur EXCEPT ![t] = cur[t]] /\ cur[t] \in Nat /\ cur[t] <= Len(list)
      /\ processed' = [processed EXCEPT ![t] = processed[t]] /\ processed[t] \in 0 .. MaxRequests
      /\ round' = [round EXCEPT ![t] = round[t]] /\ round[t] \in 0 .. MaxRounds
      /\ answer' = [answer EXCEPT ![t] = answer[t]] /\ answer[t] \in [of : 0 .. N, got : 0 .. N]
  BY <1>0 DEF TypeOK, loop
<1>2. answer[t].got # None =>
        /\ answer[t].got \in 1 .. made
        /\ id[answer[t].got] = answer[t].of /\ status[answer[t].got] = "completed"
  BY <1>0 DEF AnswerInv
<1> QED  BY <1>1, <1>2, Moves

-----------------------------------------------------------------------------
(* Calls that ask *)

LEMMA IdsTypes ==
  ASSUME TypeOK, NEW i \in Ids
  PROVE  i \in 0 .. N
  BY BoundsAreNatural DEF TypeOK, Ids

\* What is found and copied for an id is the body of a request with that id.
LEMMA CopyOfFound ==
  ASSUME RequestsInv, NEW i, Find(i) # None
  PROVE  /\ Copied(Find(i)) \in 0 .. N
         /\ Copied(Find(i)) # None =>
              /\ Copied(Find(i)) \in 1 .. made /\ id[Copied(Find(i))] = i
              /\ status[Copied(Find(i))] = "completed"
<1>0. TypeOK /\ StatusInv  BY DEF RequestsInv
<1>1. Find(i) \in 1 .. made /\ id[Find(i)] = i  BY <1>0, FoundHasId
<1>2. Find(i) \in Requests /\ Find(i) \in 0 .. N /\ 0 \in 0 .. N
  BY <1>0, <1>1, MadeTypes, Zero DEF None
<1>3. Copied(Find(i)) \in {None, Find(i)} /\ (Copied(Find(i)) # None => status[Find(i)] = "completed")
  BY <1>0, <1>2, CopiedIsOwn
<1> QED  BY <1>1, <1>2, <1>3 DEF None

LEMMA GetResultStep ==
  ASSUME RequestsInv, NEW t \in Threads, NEW i \in Ids, GetResult(t, i)
  PROVE  RequestsInv'
<1>0. TypeOK  BY DEF RequestsInv
<1> DEFINE got == IF Find(i) = None THEN None ELSE Copied(Find(i))
<1>1. Return(t, i, got) /\ UNCHANGED <<queue, outcome, cur, processed, client, starts>>
  BY DEF GetResult
<1>2. got \in 0 .. N
      /\ (got # None => got \in 1 .. made /\ id[got] = i /\ status[got] = "completed")
  BY <1>0, CopyOfFound, BoundsAreNatural DEF None
<1> HIDE DEF got
<1> QED  BY <1>0, <1>1, <1>2, IdsTypes, Returns

LEMMA WaitResultStep ==
  ASSUME RequestsInv, NEW t \in Threads, NEW i \in Ids, NEW timed \in BOOLEAN,
         WaitResult(t, i, timed)
  PROVE  RequestsInv'
<1>0. TypeOK  BY DEF RequestsInv
<1>1. UNCHANGED <<queue, outcome, cur, processed, client, starts>>  BY DEF WaitResult
<1>2. CASE Find(i) = None
  <2>1. Return(t, i, None)  BY <1>2 DEF WaitResult
  <2> QED  BY <1>0, <1>1, <2>1, IdsTypes, Returns, BoundsAreNatural DEF None
<1>3. CASE Find(i) # None
  <2> DEFINE r == Find(i)
  <2>1. pc' = [pc EXCEPT ![t] = "test"] /\ req' = [req EXCEPT ![t] = r]
        /\ UNCHANGED <<answer, round>> /\ limit' = [limit EXCEPT ![t] = timed]
    BY <1>3 DEF WaitResult, Go
  <2>2. r \in 1 .. made /\ r \in 0 .. N
    BY <1>0, <1>3, FoundHasId, MadeTypes
  <2> HIDE DEF r
  <2>3. "test" \in Place /\ "test" \notin Round  BY DEF Place, Round
  <2>4. limit' \in [Threads -> BOOLEAN]  BY <1>0, <2>1 DEF TypeOK
  <2>5. UNCHANGED <<answer, loop>>  BY <1>1, <2>1 DEF loop
  <2> QED  BY <1>1, <2>1, <2>2, <2>3, <2>4, <2>5, Walks
<1> QED  BY <1>2, <1>3

LEMMA WaitTestStep ==
  ASSUME RequestsInv, NEW t \in Threads, WaitTest(t)
  PROVE  RequestsInv'
<1>0. TypeOK /\ PlaceInv /\ StatusInv  BY DEF RequestsInv
<1>1. pc[t] = "test" /\ UNCHANGED <<queue, outcome, cur, processed, client, starts>>
  BY DEF WaitTest
<1>2. req[t] \in 1 .. made /\ req[t] \in Requests /\ req[t] \in 0 .. N
  BY <1>0, <1>1, MadeTypes DEF PlaceInv, Holding
<1>3. CASE status[req[t]] \in Terminal
  <2>1. Return(t, id[req[t]], Copied(req[t]))  BY <1>3 DEF WaitTest
  <2>2. Copied(req[t]) \in {None, req[t]}
        /\ (Copied(req[t]) # None => status[req[t]] = "completed")
    BY <1>0, <1>2, CopiedIsOwn
  <2>3. id[req[t]] \in 0 .. N /\ None \in 0 .. N
    BY <1>0, <1>2, BoundsAreNatural DEF TypeOK, None
  <2> QED  BY <1>1, <1>2, <2>1, <2>2, <2>3, Returns
<1>4. CASE status[req[t]] \notin Terminal
  <2>1. pc' = [pc EXCEPT ![t] = "asleep"] /\ UNCHANGED <<answer, req, limit, round>>
    BY <1>4 DEF WaitTest, Go
  <2>2. "asleep" \in Place /\ "asleep" \notin Round  BY DEF Place, Round
  <2>3. /\ req' = [req EXCEPT ![t] = req[t]] /\ UNCHANGED <<answer, loop>>
        /\ limit' \in [Threads -> BOOLEAN]
    BY <1>0, <1>1, <2>1 DEF TypeOK, loop
  <2> QED  BY <1>1, <1>2, <1>4, <2>1, <2>2, <2>3, Walks
<1> QED  BY <1>3, <1>4

LEMMA WaitEndsSteps ==
  ASSUME RequestsInv, NEW t \in Threads, WaitTimesOut(t) \/ SpuriousWakeup(t)
  PROVE  RequestsInv'
<1>0. TypeOK /\ PlaceInv  BY DEF RequestsInv
<1>1. pc[t] = "asleep"  BY DEF WaitTimesOut, SpuriousWakeup
<1>2. req[t] \in 1 .. made /\ req[t] \in Requests /\ req[t] \in 0 .. N
  BY <1>0, <1>1, MadeTypes DEF PlaceInv, Holding
<1>3. CASE WaitTimesOut(t)
  <2>1. Return(t, id[req[t]], None)
        /\ UNCHANGED <<queue, outcome, cur, processed, client, starts>>
    BY <1>3 DEF WaitTimesOut
  <2>2. id[req[t]] \in 0 .. N /\ None \in 0 .. N
    BY <1>0, <1>2, BoundsAreNatural DEF TypeOK, None
  <2> QED  BY <2>1, <2>2, Returns
<1>4. CASE SpuriousWakeup(t)
  <2>1. pc' = [pc EXCEPT ![t] = "test"] /\ UNCHANGED <<queue, outcome, client, starts>>
        /\ UNCHANGED <<answer, loop>> /\ UNCHANGED <<req, limit>>
    BY <1>4 DEF SpuriousWakeup, Go
  <2>2. req' = [req EXCEPT ![t] = req[t]] /\ limit' \in [Threads -> BOOLEAN]
    BY <1>0, <2>1 DEF TypeOK
  <2>3. "test" \in Place /\ "test" \notin Round  BY DEF Place, Round
  <2> QED  BY <1>2, <2>1, <2>2, <2>3, Walks
<1> QED  BY <1>3, <1>4

-----------------------------------------------------------------------------
(* awaitResult and the walk over the queue, without the work *)

\* What a step of Moves says of what stays.
LEMMA Kept ==
  ASSUME RequestsInv, NEW t \in Threads
  PROVE  /\ cur[t] \in Nat /\ cur[t] <= Len(list) /\ [cur EXCEPT ![t] = cur[t]] = cur
         /\ processed[t] \in 0 .. MaxRequests
         /\ [processed EXCEPT ![t] = processed[t]] = processed
         /\ round[t] \in 0 .. MaxRounds /\ [round EXCEPT ![t] = round[t]] = round
         /\ req[t] \in 0 .. N /\ [req EXCEPT ![t] = req[t]] = req
         /\ answer[t] \in [of : 0 .. N, got : 0 .. N] /\ [answer EXCEPT ![t] = answer[t]] = answer
         /\ limit \in [Threads -> BOOLEAN]
         /\ answer[t].got # None =>
              /\ answer[t].got \in 1 .. made
              /\ id[answer[t].got] = answer[t].of /\ status[answer[t].got] = "completed"
<1>0. TypeOK /\ AnswerInv  BY DEF RequestsInv
<1>1. answer[t].got # None =>
        /\ answer[t].got \in 1 .. made
        /\ id[answer[t].got] = answer[t].of /\ status[answer[t].got] = "completed"
  BY <1>0 DEF AnswerInv
<1> QED  BY <1>0, <1>1 DEF TypeOK

\* A step within awaitResult that keeps the thread's answer.
LEMMA Counts ==
  ASSUME RequestsInv, NEW t \in Threads, UNCHANGED <<queue, outcome, client, starts>>,
         UNCHANGED <<answer, limit>>,
         NEW p \in {"check", "scan"}, pc' = [pc EXCEPT ![t] = p],
         NEW q \in 0 .. N, req' = [req EXCEPT ![t] = q],
         NEW n \in 0 .. MaxRounds, round' = [round EXCEPT ![t] = n],
         NEW c \in Nat, cur' = [cur EXCEPT ![t] = c], c <= Len(list),
         NEW m \in 0 .. MaxRequests, processed' = [processed EXCEPT ![t] = m],
         p = "scan" => n < MaxRounds
  PROVE  RequestsInv'
<1> DEFINE a == answer[t]
<1>1. /\ a \in [of : 0 .. N, got : 0 .. N] /\ answer' = [answer EXCEPT ![t] = a]
      /\ limit' \in [Threads -> BOOLEAN]
      /\ a.got # None => a.got \in 1 .. made /\ id[a.got] = a.of /\ status[a.got] = "completed"
  BY Kept
<1>2. /\ p \in Place /\ (p \in Round => n < MaxRounds)
      /\ p \notin {"created", "work", "adding", "callback", "cancel", "removing"}
      /\ p # "test" /\ p # "asleep" /\ p # "collect"
  BY DEF Place, Round
<1> HIDE DEF a
<1> QED  BY <1>1, <1>2, Moves

LEMMA AwaitResultStep ==
  ASSUME RequestsInv, NEW t \in Threads, NEW i \in Ids, AwaitResult(t, i)
  PROVE  RequestsInv'
<1>0. TypeOK  BY DEF RequestsInv
<1> DEFINE a == [of |-> i, got |-> None]
<1>1. /\ pc' = [pc EXCEPT ![t] = "check"] /\ limit' = [limit EXCEPT ![t] = TRUE]
      /\ answer' = [answer EXCEPT ![t] = a]
      /\ UNCHANGED <<queue, outcome, client, starts>> /\ UNCHANGED req /\ UNCHANGED loop
  BY DEF AwaitResult, Go
<1>2. limit' \in [Threads -> BOOLEAN]  BY <1>0, <1>1 DEF TypeOK
<1>3. a \in [of : 0 .. N, got : 0 .. N] /\ a.got = None  BY <1>0, IdsTypes, Zero
<1>4. UNCHANGED <<cur, processed, round>>  BY <1>1 DEF loop
<1> HIDE DEF a
<1>5. "check" \in Place /\ "check" \notin Round  BY DEF Place, Round
<1> QED  BY <1>1, <1>2, <1>3, <1>4, <1>5, Kept, Moves

LEMMA AwaitCheckStep ==
  ASSUME RequestsInv, NEW t \in Threads, AwaitCheck(t)
  PROVE  RequestsInv'
<1>0. TypeOK  BY DEF RequestsInv
<1>1. UNCHANGED <<queue, outcome, cur, processed, client, starts>>  BY DEF AwaitCheck
<1>2. CASE round[t] = MaxRounds
  <2>1. Return(t, answer[t].of, None)  BY <1>2 DEF AwaitCheck
  <2>2. answer[t].of \in 0 .. N  BY Kept
  <2> QED  BY <1>1, <2>1, <2>2, Returns, Zero
<1>3. CASE round[t] # MaxRounds
  <2>1. /\ pc' = [pc EXCEPT ![t] = IF IsComplete(answer[t].of) THEN "collect" ELSE "perform"]
        /\ UNCHANGED <<req, limit, round, answer>>
    BY <1>3 DEF AwaitCheck, Go
  <2>2. round[t] < MaxRounds  BY <1>3, Kept, BoundsAreNatural
  <2>3. "collect" \in Place /\ "perform" \in Place  BY DEF Place
  <2>4. UNCHANGED <<answer, loop>> /\ limit' \in [Threads -> BOOLEAN]
    BY <1>1, <2>1, Kept DEF loop
  <2>5. CASE IsComplete(answer[t].of)
    <3>1. \E k \in 1 .. Len(list) : id[list[k]] = answer[t].of
      BY <2>5, FoundIsQueued DEF IsComplete
    <3>2. pc' = [pc EXCEPT ![t] = "collect"]  BY <2>1, <2>5
    <3>3. /\ req[t] \in 0 .. N /\ req' = [req EXCEPT ![t] = req[t]]
          /\ cur[t] \in Nat /\ cur[t] <= Len(list) /\ cur' = [cur EXCEPT ![t] = cur[t]]
          /\ processed[t] \in 0 .. MaxRequests /\ processed' = [processed EXCEPT ![t] = processed[t]]
          /\ round[t] \in 0 .. MaxRounds /\ round' = [round EXCEPT ![t] = round[t]]
          /\ answer[t] \in [of : 0 .. N, got : 0 .. N] /\ answer' = [answer EXCEPT ![t] = answer[t]]
          /\ limit' \in [Threads -> BOOLEAN]
          /\ answer[t].got # None =>
               /\ answer[t].got \in 1 .. made
               /\ id[answer[t].got] = answer[t].of /\ status[answer[t].got] = "completed"
      BY <1>1, <2>1, Kept
    <3> QED  BY <1>1, <2>2, <2>3, <3>1, <3>2, <3>3, Moves
  <2>6. CASE ~IsComplete(answer[t].of)
    <3>1. pc' = [pc EXCEPT ![t] = "perform"]  BY <2>1, <2>6
    <3>2. req[t] \in 0 .. N /\ req' = [req EXCEPT ![t] = req[t]]
      BY <2>1, Kept
    <3> QED  BY <1>1, <2>2, <2>3, <2>4, <3>1, <3>2, Walks
  <2> QED  BY <2>5, <2>6
<1> QED  BY <1>2, <1>3

LEMMA AwaitCollectStep ==
  ASSUME RequestsInv, NEW t \in Threads, AwaitCollect(t)
  PROVE  RequestsInv'
<1> DEFINE i == answer[t].of
<1>0. TypeOK /\ AnswerInv  BY DEF RequestsInv
<1>1. pc[t] = "collect" /\ Return(t, i, Copied(Find(i)))
      /\ UNCHANGED <<queue, outcome, cur, processed, client, starts>>
  BY DEF AwaitCollect
<1>2. Find(i) # None  BY <1>0, <1>1, QueuedIsFound DEF AnswerInv
<1>3. i \in 0 .. N  BY Kept
<1> HIDE DEF i
<1> QED  BY <1>1, <1>2, <1>3, CopyOfFound, Returns

LEMMA WalkSteps ==
  ASSUME RequestsInv, NEW t \in Threads, ProcessBegin(t) \/ ProcessEnd(t)
  PROVE  RequestsInv'
<1>0. TypeOK /\ PlaceInv  BY DEF RequestsInv
<1>1. CASE ProcessBegin(t)
  <2> DEFINE c == IF list = <<>> THEN 0 ELSE 1
  <2>1. /\ pc[t] = "process" /\ pc' = [pc EXCEPT ![t] = "scan"] /\ cur' = [cur EXCEPT ![t] = c]
        /\ UNCHANGED <<queue, outcome, client, starts>>
        /\ UNCHANGED <<req, limit, round, processed, answer>>
    BY <1>1 DEF ProcessBegin, Go
  <2>2. c \in Nat /\ c <= Len(list)  BY <1>0, EmptySeq, LenProperties DEF TypeOK
  <2>3. round[t] < MaxRounds  BY <1>0, <2>1 DEF PlaceInv, Round
  <2> HIDE DEF c
  <2>4. "scan" \in Place  BY DEF Place
  <2>5. /\ req[t] \in 0 .. N /\ req' = [req EXCEPT ![t] = req[t]]
        /\ processed[t] \in 0 .. MaxRequests /\ processed' = [processed EXCEPT ![t] = processed[t]]
        /\ round[t] \in 0 .. MaxRounds /\ round' = [round EXCEPT ![t] = round[t]]
        /\ answer[t] \in [of : 0 .. N, got : 0 .. N] /\ answer' = [answer EXCEPT ![t] = answer[t]]
        /\ limit' \in [Threads -> BOOLEAN]
        /\ answer[t].got # None =>
             /\ answer[t].got \in 1 .. made
             /\ id[answer[t].got] = answer[t].of /\ status[answer[t].got] = "completed"
    BY <2>1, Kept
  <2> QED  BY <2>1, <2>2, <2>3, <2>5, Counts
<1>2. CASE ProcessEnd(t)
  <2>1. /\ pc[t] = "scan" /\ pc' = [pc EXCEPT ![t] = "check"]
        /\ round' = [round EXCEPT ![t] = round[t] + 1]
        /\ cur' = [cur EXCEPT ![t] = 0] /\ processed' = [processed EXCEPT ![t] = 0]
        /\ UNCHANGED <<queue, outcome, client, starts>> /\ UNCHANGED <<req, limit, answer>>
    BY <1>2 DEF ProcessEnd, Go
  <2>2. 0 \in Nat /\ 0 <= Len(list)  BY <1>0, LenProperties DEF TypeOK
  <2>3. round[t] < MaxRounds  BY <1>0, <2>1 DEF PlaceInv, Round
  <2>4. round[t] + 1 \in 0 .. MaxRounds  BY <2>3, Kept, BoundsAreNatural
  <2>5. "check" \in Place /\ "check" \notin Round  BY DEF Place, Round
  <2>6. /\ req[t] \in 0 .. N /\ req' = [req EXCEPT ![t] = req[t]]
        /\ answer[t] \in [of : 0 .. N, got : 0 .. N] /\ answer' = [answer EXCEPT ![t] = answer[t]]
        /\ limit' \in [Threads -> BOOLEAN]
        /\ answer[t].got # None =>
             /\ answer[t].got \in 1 .. made
             /\ id[answer[t].got] = answer[t].of /\ status[answer[t].got] = "completed"
    BY <2>1, Kept
  <2> QED  BY <2>1, <2>2, <2>4, <2>6, Counts, Zero
<1> QED  BY <1>1, <1>2

LEMMA NotStartedSteps ==
  ASSUME RequestsInv, NEW t \in Threads, WorkWithoutClient(t) \/ WorkFails(t)
  PROVE  RequestsInv'
<1>0. TypeOK /\ PlaceInv  BY DEF RequestsInv
<1>1. /\ pc[t] = "work" /\ pc' = [pc EXCEPT ![t] = "scan"] /\ req' = [req EXCEPT ![t] = 0]
      /\ UNCHANGED <<queue, outcome, client, starts>>
      /\ UNCHANGED <<limit, round, cur, answer>>
  BY DEF WorkWithoutClient, WorkFails, Go, None, loop
<1>2. round[t] < MaxRounds /\ processed[t] < MaxRequests
  BY <1>0, <1>1 DEF PlaceInv, Round
<1>3. PICK m \in 0 .. MaxRequests : processed' = [processed EXCEPT ![t] = m]
  <2>1. processed[t] + 1 \in 0 .. MaxRequests  BY <1>2, Kept, BoundsAreNatural
  <2>2. CASE WorkWithoutClient(t)  BY <2>2, Kept DEF WorkWithoutClient, loop
  <2>3. CASE WorkFails(t)  BY <2>1, <2>3 DEF WorkFails, Counted
  <2> QED  BY <2>2, <2>3
<1>4. "scan" \in Place  BY DEF Place
<1>5. /\ cur[t] \in Nat /\ cur[t] <= Len(list) /\ cur' = [cur EXCEPT ![t] = cur[t]]
      /\ round[t] \in 0 .. MaxRounds /\ round' = [round EXCEPT ![t] = round[t]]
      /\ answer[t] \in [of : 0 .. N, got : 0 .. N] /\ answer' = [answer EXCEPT ![t] = answer[t]]
      /\ limit' \in [Threads -> BOOLEAN]
      /\ answer[t].got # None =>
           /\ answer[t].got \in 1 .. made
           /\ id[answer[t].got] = answer[t].of /\ status[answer[t].got] = "completed"
  BY <1>1, Kept
<1>6. 0 \in 0 .. N  BY Zero DEF None
<1> QED  BY <1>1, <1>2, <1>3, <1>5, <1>6, Counts

LEMMA FreeBeginStep ==
  ASSUME RequestsInv, FreeBegin
  PROVE  RequestsInv'
<1>1. /\ pc' = [pc EXCEPT ![Main] = "joining"] /\ UNCHANGED <<queue, outcome, client, starts>>
      /\ UNCHANGED <<answer, loop>> /\ UNCHANGED <<req, limit>>
  BY DEF FreeBegin, Go
<1>2. "joining" \in Place /\ "joining" \notin Round  BY DEF Place, Round
<1> QED  BY <1>1, <1>2, MainIsThread, Kept, Walks

-----------------------------------------------------------------------------
(* The client's steps *)

\* A step that leaves the queue and the outcomes alone and moves one thread:
\* no transfer begins, and a thread that completes one has read its message.
LEMMA Transfers ==
  ASSUME RequestsInv, UNCHANGED <<queue, outcome, starts>>, UNCHANGED <<answer, round>>,
         TypeOK', NEW t \in Threads,
         \A u \in Threads : u # t =>
           pc'[u] = pc[u] /\ req'[u] = req[u] /\ processed'[u] = processed[u],
         pc'[t] \in Round => pc[t] \in Round,
         pc'[t] \in {"created", "test", "asleep", "work", "adding", "collect", "cancel"} =>
           pc'[t] = pc[t] /\ req'[t] = req[t] /\ processed'[t] = processed[t],
         pc'[t] = "removing" => pc[t] \in {"cancel", "removing"} /\ req'[t] = req[t],
         pc'[t] = "callback" =>
           \/ pc[t] = "callback" /\ req'[t] = req[t]
           \/ req'[t] \in Requests /\ net[req'[t]] = "message" /\ net'[req'[t]] = "read",
         \A r \in Requests : net'[r] \in {"active", "arrived", "message"} =>
                               net[r] \in {"active", "arrived", "message"},
         \A r \in Requests : net[r] = "none" => net'[r] = "none",
         \A u \in Threads : pc'[u] = "callback" /\ pc[u] = "callback" /\ net[req[u]] = "read" =>
                              net'[req[u]] = "read"
  PROVE  RequestsInv'
<1>0. TypeOK /\ PlaceInv /\ StatusInv /\ WorkInv /\ AnswerInv /\ NoSleeperMissed
  BY DEF RequestsInv
<1>1. UNCHANGED <<made, list, id, status, result, starts, ends>>  BY DEF queue, outcome
<1>2. \A r \in Requests : net[r] = "message" => r \in 1 .. made /\ status[r] = "processing"
                                                /\ starts[r] = 1
  BY <1>0 DEF StatusInv, TypeOK, Requests
<1>3. PlaceInv'
  <2> SUFFICES ASSUME NEW u \in Threads
               PROVE  /\ pc'[u] \in Holding => req'[u] \in 1 .. made
                      /\ pc'[u] \in Round => round[u] < MaxRounds
                      /\ pc'[u] \in {"work", "adding"} => processed'[u] < MaxRequests
    BY <1>1 DEF PlaceInv
  <2>1. CASE u # t  BY <1>0, <2>1 DEF PlaceInv
  <2>2. CASE u = t
    <3>1. pc'[t] \in Round => round[t] < MaxRounds  BY <1>0 DEF PlaceInv
    <3>2. pc'[t] \in {"work", "adding"} => processed'[t] < MaxRequests  BY <1>0 DEF PlaceInv
    <3>3. pc'[t] \in Holding => req'[t] \in 1 .. made
      <4>1. CASE pc'[t] = "callback"  BY <1>0, <1>2, <4>1 DEF PlaceInv, Holding
      <4>2. CASE pc'[t] # "callback"  BY <1>0, <4>2 DEF PlaceInv, Holding
      <4> QED  BY <4>1, <4>2
    <3> QED  BY <2>2, <3>1, <3>2, <3>3
  <2> QED  BY <2>1, <2>2
<1>4. StatusInv'  BY <1>0, <1>1 DEF StatusInv
<1>5. \A u \in Threads : pc[u] \in {"work", "callback", "cancel", "removing"} =>
                           req[u] \in 1 .. made /\ req[u] \in Requests
  BY <1>0, MadeTypes DEF PlaceInv, Holding
<1>6. \A u \in Threads :
        /\ pc'[u] = "work" => pc[u] = "work" /\ req'[u] = req[u]
        /\ pc'[u] \in {"cancel", "removing"} =>
             pc[u] \in {"cancel", "removing"} /\ req'[u] = req[u]
  OBVIOUS
<1>7. \A u \in Threads : pc'[u] = "callback" =>
        \/ pc[u] = "callback" /\ req'[u] = req[u] /\ net[req[u]] = "read" /\ net'[req[u]] = "read"
        \/ u = t /\ req'[u] \in Requests /\ net[req'[u]] = "message" /\ net'[req'[u]] = "read"
  BY <1>0 DEF WorkInv
<1>8. WorkInv'
  <2>1. ASSUME NEW u \in Threads, pc'[u] = "work"
        PROVE  /\ status[req'[u]] = "processing" /\ starts[req'[u]] = 0 /\ net'[req'[u]] = "none"
               /\ \A v \in Threads \ {u} : pc'[v] \in {"work", "callback"} => req'[v] # req'[u]
    BY <1>0, <1>5, <1>6, <1>7, <2>1 DEF WorkInv
  <2>2. ASSUME NEW u \in Threads, pc'[u] = "callback"
        PROVE  /\ status[req'[u]] = "processing" /\ starts[req'[u]] = 1 /\ net'[req'[u]] = "read"
               /\ \A v \in Threads \ {u} : pc'[v] = "callback" => req'[v] # req'[u]
    BY <1>0, <1>2, <1>5, <1>7, <2>2 DEF WorkInv
  <2>3. ASSUME NEW u \in Threads, pc'[u] \in {"cancel", "removing"}
        PROVE  status[req'[u]] \in Terminal
    BY <1>0, <1>6, <2>3 DEF WorkInv
  <2> QED  BY <1>1, <2>1, <2>2, <2>3 DEF WorkInv
<1>9. AnswerInv'
  <2>1. \A u \in Threads : pc'[u] = "collect" => pc[u] = "collect"  OBVIOUS
  <2> QED  BY <1>0, <1>1, <2>1 DEF AnswerInv
<1>10. NoSleeperMissed'  BY <1>0, <1>1 DEF NoSleeperMissed
<1> QED  BY <1>3, <1>4, <1>8, <1>9, <1>10 DEF RequestsInv

\* Types after a step of the client.
LEMMA TransferTypes ==
  ASSUME TypeOK, UNCHANGED <<queue, outcome>>, UNCHANGED <<answer, round, limit, cur, hasClient>>,
         starts' \in [Requests -> Nat],
         pc' \in [Threads -> Place], req' \in [Threads -> 0 .. N],
         processed' \in [Threads -> 0 .. MaxRequests],
         net' \in [Requests -> {"none", "active", "arrived", "message", "read"}],
         chead' \in 0 .. N, cnext' \in [Requests -> 0 .. N],
         cmem' \in [Requests -> {"none", "live", "freed"}],
         seen' \in [Threads -> 0 .. N], undefined' \in {"none", "overlap", "freed"}
  PROVE  TypeOK'
<1>1. UNCHANGED <<made, nextId, list, id, kind, status, result, ends>>  BY DEF queue, outcome
<1> QED  BY <1>1 DEF TypeOK, Requests

LEMMA WithoutClientStep ==
  ASSUME RequestsInv, NEW t \in Threads, WithoutClient(t)
  PROVE  RequestsInv'
<1>0. PlaceInv  BY DEF RequestsInv
<1>1. /\ pc[t] = "perform" /\ pc' = [pc EXCEPT ![t] = "process"]
      /\ UNCHANGED <<queue, outcome, client, starts>> /\ UNCHANGED <<answer, loop>>
      /\ UNCHANGED <<req, limit>>
  BY DEF WithoutClient, Go
<1>2. "process" \in Place /\ round[t] < MaxRounds  BY <1>0, <1>1 DEF Place, PlaceInv, Round
<1> QED  BY <1>1, <1>2, Kept, Walks

\* What a thread finds when it enters the client.
LEMMA Entered ==
  ASSUME TypeOK, NEW t \in Threads, NEW p \in InClient, Enters(t, p)
  PROVE  /\ pc' = [pc EXCEPT ![t] = p] /\ pc' \in [Threads -> Place]
         /\ undefined' \in {"none", "overlap", "freed"}
         /\ undefined' \in {"overlap", undefined}
         /\ undefined' # "overlap" => \A u \in Threads \ {t} : pc[u] \notin InClient
  BY DEF Enters, Go, TypeOK, Place

LEMMA HttpEnterStep ==
  ASSUME RequestsInv, NEW t \in Threads, HttpEnter(t)
  PROVE  RequestsInv'
<1>0. TypeOK  BY DEF RequestsInv
<1>1. PICK p \in {"performing", "reading", "removing"} :
        /\ Enters(t, p) /\ pc[t] \in {"perform", "messages", "cancel"}
        /\ p = "removing" => pc[t] = "cancel"
  BY DEF HttpEnter, ClientCall
<1>2. /\ UNCHANGED <<queue, outcome, starts>> /\ UNCHANGED <<answer, round, limit, cur, hasClient>>
      /\ UNCHANGED <<req, processed, net, chead, cnext, cmem, seen>>
  BY DEF HttpEnter, loop
<1>3. /\ pc' = [pc EXCEPT ![t] = p] /\ pc' \in [Threads -> Place]
      /\ undefined' \in {"none", "overlap", "freed"}
  BY <1>0, <1>1, Entered DEF InClient
<1>4. TypeOK'  BY <1>0, <1>2, <1>3, TransferTypes DEF TypeOK
<1>5. pc'[t] = p /\ \A u \in Threads : u # t => pc'[u] = pc[u]  BY <1>0, <1>3 DEF TypeOK
<1>6. p \in Round /\ pc[t] \in Round  BY <1>1 DEF Round
<1> QED  BY <1>1, <1>2, <1>4, <1>5, <1>6, Transfers

LEMMA HttpPerformStep ==
  ASSUME RequestsInv, NEW t \in Threads, HttpPerform(t)
  PROVE  RequestsInv'
<1>0. TypeOK  BY DEF RequestsInv
<1>1. /\ pc[t] = "performing" /\ pc' = [pc EXCEPT ![t] = "messages"]
      /\ net' = [r \in Requests |-> IF net[r] = "arrived" THEN "message" ELSE net[r]]
      /\ UNCHANGED <<queue, outcome, starts>>
      /\ UNCHANGED <<answer, round, limit, cur, hasClient>>
      /\ UNCHANGED <<req, processed, chead, cnext, cmem, seen, undefined>>
  BY DEF HttpPerform, Go, loop
<1>2. net' \in [Requests -> {"none", "active", "arrived", "message", "read"}]
      /\ \A r \in Requests : net'[r] = net[r] \/ (net[r] = "arrived" /\ net'[r] = "message")
  <2>1. net \in [Requests -> {"none", "active", "arrived", "message", "read"}]
    BY <1>0 DEF TypeOK
  <2> QED  BY <1>1, <2>1
<1>3. pc' \in [Threads -> Place]  BY <1>0, <1>1 DEF TypeOK, Place
<1>4. TypeOK'  BY <1>0, <1>1, <1>2, <1>3, TransferTypes DEF TypeOK
<1>5. pc'[t] = "messages" /\ \A u \in Threads : u # t => pc'[u] = pc[u]  BY <1>0, <1>1 DEF TypeOK
<1>6. pc[t] \in Round  BY <1>1 DEF Round
<1>7. \A u \in Threads : pc[u] = "callback" => req[u] \in Requests
  BY <1>0, MadeTypes DEF RequestsInv, PlaceInv, Holding
<1> QED  BY <1>1, <1>2, <1>4, <1>5, <1>6, <1>7, Transfers

LEMMA HttpMessageStep ==
  ASSUME RequestsInv, NEW t \in Threads, HttpMessage(t)
  PROVE  RequestsInv'
<1>0. TypeOK  BY DEF RequestsInv
<1>1. PICK r \in Requests : /\ net[r] = "message" /\ net' = [net EXCEPT ![r] = "read"]
                            /\ req' = [req EXCEPT ![t] = r]
  BY DEF HttpMessage
<1>2. /\ pc[t] = "reading" /\ pc' = [pc EXCEPT ![t] = "callback"]
      /\ UNCHANGED <<queue, outcome, starts>>
      /\ UNCHANGED <<answer, round, limit, cur, hasClient>>
      /\ UNCHANGED <<processed, chead, cnext, cmem, seen, undefined>>
  BY DEF HttpMessage, Go, loop
<1>3. r \in 0 .. N  BY BoundsAreNatural DEF Requests
<1>4. pc' \in [Threads -> Place]  BY <1>0, <1>2 DEF TypeOK, Place
<1>5. req' \in [Threads -> 0 .. N]  BY <1>0, <1>1, <1>3 DEF TypeOK
<1>6. net' \in [Requests -> {"none", "active", "arrived", "message", "read"}]
  BY <1>0, <1>1 DEF TypeOK
<1>7. TypeOK'  BY <1>0, <1>2, <1>4, <1>5, <1>6, TransferTypes DEF TypeOK
<1>8. /\ pc'[t] = "callback" /\ req'[t] = r
      /\ \A u \in Threads : u # t => pc'[u] = pc[u] /\ req'[u] = req[u]
  BY <1>0, <1>1, <1>2 DEF TypeOK
<1>9. /\ net'[r] = "read" /\ net[r] = "message"
      /\ \A s \in Requests : s # r => net'[s] = net[s]
  BY <1>0, <1>1 DEF TypeOK
<1>10. pc[t] \in Round  BY <1>2 DEF Round
<1>11. \A u \in Threads : pc[u] = "callback" => req[u] \in Requests
  BY <1>0, MadeTypes DEF RequestsInv, PlaceInv, Holding
<1> QED  BY <1>2, <1>7, <1>8, <1>9, <1>10, <1>11, Transfers

LEMMA HttpCancelStep ==
  ASSUME RequestsInv, NEW t \in Threads, HttpCancel(t)
  PROVE  RequestsInv'
<1> DEFINE r == req[t]
<1>0. TypeOK /\ PlaceInv /\ WorkInv  BY DEF RequestsInv
<1>1. /\ pc[t] = "removing" /\ pc' = [pc EXCEPT ![t] = "messages"]
      /\ req' = [req EXCEPT ![t] = 0] /\ Unlink(r)
      /\ cmem' = [cmem EXCEPT ![r] = "freed"] /\ net' = [net EXCEPT ![r] = "none"]
      /\ UNCHANGED <<queue, outcome, starts>>
      /\ UNCHANGED <<answer, round, limit, cur, hasClient>> /\ UNCHANGED <<processed, seen>>
  BY DEF HttpCancel, Cancel, Go, loop, None
<1>2. r \in Requests  BY <1>0, <1>1, MadeTypes DEF PlaceInv, Holding
<1>3. pc' \in [Threads -> Place] /\ req' \in [Threads -> 0 .. N]
  BY <1>0, <1>1, Zero DEF TypeOK, Place, None
<1>4. net' \in [Requests -> {"none", "active", "arrived", "message", "read"}]
      /\ cmem' \in [Requests -> {"none", "live", "freed"}]
  BY <1>0, <1>1 DEF TypeOK
<1>5. chead' \in 0 .. N /\ cnext' \in [Requests -> 0 .. N]
  <2>0. chead \in 0 .. N /\ cnext \in [Requests -> 0 .. N]  BY <1>0 DEF TypeOK
  <2> HIDE DEF r
  <2>1. CASE chead = r  BY <1>1, <1>2, <2>0, <2>1 DEF Unlink
  <2>2. CASE chead # r
    <3>1. /\ chead' = chead
          /\ cnext' = [p \in Requests |-> IF cmem[p] = "live" /\ cnext[p] = r /\ p # r
                                          THEN cnext[r] ELSE cnext[p]]
      BY <1>1, <2>2 DEF Unlink
    <3> QED  BY <1>2, <2>0, <3>1
  <2> QED  BY <2>1, <2>2
<1>6. undefined' \in {"none", "overlap", "freed"}  BY <1>0 DEF HttpCancel, TypeOK
<1>7. TypeOK'  BY <1>0, <1>1, <1>3, <1>4, <1>5, <1>6, TransferTypes DEF TypeOK
<1>8. /\ pc'[t] = "messages"
      /\ \A u \in Threads : u # t => pc'[u] = pc[u] /\ req'[u] = req[u]
  BY <1>0, <1>1 DEF TypeOK
<1>9. \A s \in Requests : net'[s] = IF s = r THEN "none" ELSE net[s]
  BY <1>0, <1>1 DEF TypeOK
<1>10. pc[t] \in Round  BY <1>1 DEF Round
<1>11. \A u \in Threads : pc[u] = "callback" => req[u] \in Requests /\ req[u] # r
  BY <1>0, <1>1, MadeTypes DEF PlaceInv, WorkInv, Holding, Terminal
<1> HIDE DEF r
<1> QED  BY <1>1, <1>7, <1>8, <1>9, <1>10, <1>11, Transfers

LEMMA HttpCountStep ==
  ASSUME RequestsInv, NEW t \in Threads, HttpCount(t)
  PROVE  RequestsInv'
<1>0. TypeOK  BY DEF RequestsInv
<1>1. /\ pc[t] = "reading" /\ pc' = [pc EXCEPT ![t] = "process"]
      /\ UNCHANGED <<queue, outcome, starts>>
      /\ UNCHANGED <<answer, round, limit, cur, hasClient>>
      /\ UNCHANGED <<req, processed, net, chead, cnext, cmem, seen>>
  BY DEF HttpCount, Go, loop
<1>2. pc' \in [Threads -> Place]  BY <1>0, <1>1 DEF TypeOK, Place
<1>3. undefined' \in {"none", "overlap", "freed"}  BY <1>0 DEF HttpCount, TypeOK
<1>4. TypeOK'  BY <1>0, <1>1, <1>2, <1>3, TransferTypes DEF TypeOK
<1>5. pc'[t] = "process" /\ \A u \in Threads : u # t => pc'[u] = pc[u]  BY <1>0, <1>1 DEF TypeOK
<1>6. pc[t] \in Round  BY <1>1 DEF Round
<1> QED  BY <1>1, <1>4, <1>5, <1>6, Transfers

LEMMA HttpLinkStep ==
  ASSUME RequestsInv, NEW t \in Threads, HttpLink(t)
  PROVE  RequestsInv'
<1>0. TypeOK /\ PlaceInv  BY DEF RequestsInv
<1>1. /\ pc[t] = "adding" /\ pc' = [pc EXCEPT ![t] = "scan"] /\ req' = [req EXCEPT ![t] = 0]
      /\ chead' = req[t] /\ cnext' = [cnext EXCEPT ![req[t]] = seen[t]]
      /\ seen' = [seen EXCEPT ![t] = 0]
      /\ processed' = [processed EXCEPT ![t] = processed[t] + 1]
      /\ UNCHANGED <<queue, outcome, starts>>
      /\ UNCHANGED <<answer, round, limit, cur, hasClient>> /\ UNCHANGED <<net, cmem, undefined>>
  BY DEF HttpLink, Go, None, Counted
<1>2. pc' \in [Threads -> Place] /\ req' \in [Threads -> 0 .. N]
  BY <1>0, <1>1, Zero DEF TypeOK, Place, None
<1>3. chead' \in 0 .. N /\ cnext' \in [Requests -> 0 .. N] /\ seen' \in [Threads -> 0 .. N]
  BY <1>0, <1>1, Zero DEF TypeOK, None
<1>4. processed' \in [Threads -> 0 .. MaxRequests]
  <2>1. processed[t] < MaxRequests  BY <1>0, <1>1 DEF PlaceInv
  <2>2. processed[t] + 1 \in 0 .. MaxRequests  BY <1>0, <2>1, BoundsAreNatural DEF TypeOK
  <2> QED  BY <1>0, <1>1, <2>2 DEF TypeOK
<1>5. TypeOK'  BY <1>0, <1>1, <1>2, <1>3, <1>4, TransferTypes DEF TypeOK
<1>6. /\ pc'[t] = "scan"
      /\ \A u \in Threads :
           u # t => pc'[u] = pc[u] /\ req'[u] = req[u] /\ processed'[u] = processed[u]
  BY <1>0, <1>1 DEF TypeOK
<1>7. pc[t] \in Round  BY <1>1 DEF Round
<1> QED  BY <1>1, <1>5, <1>6, <1>7, Transfers

LEMMA ArriveStep ==
  ASSUME RequestsInv, NEW r \in Requests, Arrive(r)
  PROVE  RequestsInv'
<1>0. TypeOK  BY DEF RequestsInv
<1>1. /\ net[r] = "active" /\ net' = [net EXCEPT ![r] = "arrived"]
      /\ UNCHANGED <<queue, outcome, starts>>
      /\ UNCHANGED <<answer, round, limit, cur, hasClient>>
      /\ UNCHANGED <<pc, req, processed, chead, cnext, cmem, seen, undefined>>
  BY DEF Arrive, loop
<1>2. net' \in [Requests -> {"none", "active", "arrived", "message", "read"}]
      /\ \A s \in Requests : net'[s] = net[s] \/ (net[s] = "active" /\ net'[s] = "arrived")
  <2>1. net \in [Requests -> {"none", "active", "arrived", "message", "read"}]
    BY <1>0 DEF TypeOK
  <2> QED  BY <1>1, <2>1
<1>3. TypeOK'  BY <1>0, <1>1, <1>2, TransferTypes DEF TypeOK
<1>4. \A u \in Threads : pc[u] = "callback" => req[u] \in Requests
  BY <1>0, MadeTypes DEF RequestsInv, PlaceInv, Holding
<1> QED  BY <1>1, <1>2, <1>3, <1>4, MainIsThread, Transfers

LEMMA FreeClientStep ==
  ASSUME RequestsInv, FreeClient
  PROVE  RequestsInv'
<1>0. TypeOK  BY DEF RequestsInv
<1>1. /\ pc[Main] = "joining" /\ \A u \in Threads \ {Main} : pc[u] = "idle"
      /\ pc' = [pc EXCEPT ![Main] = "freed"] /\ net' = [r \in Requests |-> "none"]
      /\ chead' = 0 /\ cmem' = [r \in Requests |-> IF cmem[r] = "live" THEN "freed" ELSE cmem[r]]
      /\ UNCHANGED <<queue, outcome, starts>>
      /\ UNCHANGED <<answer, round, limit, cur, hasClient>>
      /\ UNCHANGED <<req, processed, cnext, seen>>
  BY DEF FreeClient, Go, loop, None
<1>2. pc' \in [Threads -> Place] /\ cmem' \in [Requests -> {"none", "live", "freed"}]
      /\ net' \in [Requests -> {"none", "active", "arrived", "message", "read"}]
      /\ chead' \in 0 .. N
  BY <1>0, <1>1, Zero DEF TypeOK, Place, None
<1>3. undefined' \in {"none", "overlap", "freed"}  BY <1>0 DEF FreeClient, TypeOK
<1>4. TypeOK'  BY <1>0, <1>1, <1>2, <1>3, TransferTypes DEF TypeOK
<1>5. /\ pc'[Main] = "freed" /\ pc'[Main] \notin Round
      /\ \A u \in Threads : u # Main => pc'[u] = pc[u]
      /\ \A u \in Threads : pc'[u] # "callback"
      /\ \A r \in Requests : net'[r] = "none"
  BY <1>0, <1>1, MainIsThread DEF TypeOK, Round
<1> QED  BY <1>1, <1>4, <1>5, MainIsThread, Transfers

-----------------------------------------------------------------------------
(* Steps that end a request *)

\* Where the threads are after a broadcast.
LEMMA Woken ==
  ASSUME pc \in [Threads -> Place], NEW t \in Threads, pc[t] # "asleep", NEW r, NEW p \in Place, Broadcast(r, t, p)
  PROVE  /\ pc' \in [Threads -> Place] /\ pc'[t] = p
         /\ \A u \in Threads :
              u # t => \/ pc'[u] = pc[u] /\ ~(pc[u] = "asleep" /\ req[u] = r)
                       \/ pc'[u] = "test" /\ pc[u] = "asleep" /\ req[u] = r
<1>1. pc' = [u \in Threads |-> CASE u = t -> p
                                 [] pc[u] = "asleep" /\ req[u] = r -> "test"
                                 [] OTHER -> pc[u]]
  BY DEF Broadcast
<1>2. \A u \in Threads : u = t => pc'[u] = p  BY <1>1
<1>3. \A u \in Threads : u # t /\ pc[u] = "asleep" /\ req[u] = r => pc'[u] = "test"  BY <1>1
<1>4. \A u \in Threads : u # t /\ ~(pc[u] = "asleep" /\ req[u] = r) => pc'[u] = pc[u]  BY <1>1
<1>5. DOMAIN pc' = Threads /\ pc' = [u \in Threads |-> pc'[u]]  BY <1>1
<1>6. \A u \in Threads : pc'[u] \in Place  BY <1>2, <1>3, <1>4 DEF Place
<1>7. pc' \in [Threads -> Place]  BY <1>5, <1>6
<1> QED  BY <1>2, <1>3, <1>4, <1>7

\* The thread that holds a request under way ends it, once: nobody else has it.
LEMMA Ends ==
  ASSUME RequestsInv, NEW t \in Threads, pc[t] \in {"work", "callback"},
         NEW s \in Terminal, NEW body \in {None, req[t]}, NEW p \in {"scan", "cancel"},
         Finish(t, req[t], s, body, p), UNCHANGED <<queue, limit, round, cur, answer, client>>,
         starts' \in [Requests -> Nat], starts'[req[t]] = 1,
         \A r \in Requests : r # req[t] => starts'[r] = starts[r],
         req' \in [Threads -> 0 .. N], \A u \in Threads : u # t => req'[u] = req[u],
         p = "cancel" => req'[t] = req[t],
         processed' \in [Threads -> 0 .. MaxRequests],
         \A u \in Threads : u # t => processed'[u] = processed[u]
  PROVE  RequestsInv'
<1> DEFINE q == req[t]
<1>0. TypeOK /\ PlaceInv /\ StatusInv /\ WorkInv /\ AnswerInv /\ NoSleeperMissed
  BY DEF RequestsInv
<1>1. /\ UNCHANGED <<made, nextId, list, id, kind>>
      /\ UNCHANGED <<net, chead, cnext, cmem, seen, hasClient, undefined>>
      /\ UNCHANGED <<limit, round, cur, answer>>
  BY DEF queue, client
<1>2. /\ status' = [status EXCEPT ![q] = s] /\ result' = [result EXCEPT ![q] = body]
      /\ ends' = [ends EXCEPT ![q] = ends[q] + 1] /\ Broadcast(q, t, p)
  BY DEF Finish
<1>3. q \in 1 .. made /\ q \in Requests /\ q \in 0 .. N /\ q # None
  BY <1>0, MadeTypes DEF PlaceInv, Holding
<1>4. /\ status[q] = "processing" /\ net[q] \in {"none", "read"} /\ ends[q] = 0
      /\ \A u \in Threads \ {t} : pc[u] \in {"work", "callback"} => req[u] # q
  BY <1>0, <1>3 DEF WorkInv, StatusInv
<1>5. body \in 0 .. N /\ body \in {None, q}  BY <1>3, Zero
<1>6. s \in {"completed", "error"} /\ s \in Terminal  BY DEF Terminal
<1>7. p \in Place /\ p \in {"scan", "cancel"}  BY DEF Place
<1>8. /\ pc' \in [Threads -> Place] /\ pc'[t] = p
      /\ \A u \in Threads :
           u # t => \/ pc'[u] = pc[u] /\ ~(pc[u] = "asleep" /\ req[u] = q)
                    \/ pc'[u] = "test" /\ pc[u] = "asleep" /\ req[u] = q
  <2> HIDE DEF q
  <2>1. pc \in [Threads -> Place]  BY <1>0 DEF TypeOK
  <2> QED  BY <1>2, <1>7, <2>1, Woken
<1>9. \A r \in Requests : /\ status'[r] = IF r = q THEN s ELSE status[r]
                          /\ result'[r] = IF r = q THEN body ELSE result[r]
                          /\ ends'[r] = IF r = q THEN 1 ELSE ends[r]
  BY <1>0, <1>2, <1>4 DEF TypeOK
<1> HIDE DEF q
<1>10. TypeOK'
  <2>1. status' \in [Requests -> {"none", "pending", "processing"} \cup Terminal]
    BY <1>0, <1>2 DEF TypeOK
  <2>2. result' \in [Requests -> 0 .. N]  BY <1>0, <1>2, <1>5 DEF TypeOK
  <2>3. ends' \in [Requests -> Nat]
    <3>1. ends \in [Requests -> Nat]  BY <1>0 DEF TypeOK
    <3>2. ends' = [ends EXCEPT ![q] = 1]  BY <1>2, <1>4
    <3> QED  BY <3>1, <3>2
  <2> QED  BY <1>0, <1>1, <1>8, <2>1, <2>2, <2>3 DEF TypeOK, Requests
<1>11. PlaceInv'
  <2> SUFFICES ASSUME NEW u \in Threads
               PROVE  /\ pc'[u] \in Holding => req'[u] \in 1 .. made
                      /\ pc'[u] \in Round => round[u] < MaxRounds
                      /\ pc'[u] \in {"work", "adding"} => processed'[u] < MaxRequests
    BY <1>1 DEF PlaceInv
  <2>1. CASE u = t
    <3>1. pc[t] \in Round  BY DEF Round
    <3> QED  BY <1>0, <1>3, <1>7, <1>8, <2>1, <3>1 DEF PlaceInv, Holding, q
  <2>2. CASE u # t  BY <1>0, <1>8, <2>2 DEF PlaceInv, Holding, Round
  <2> QED  BY <2>1, <2>2
<1>12. StatusInv'
  <2> SUFFICES ASSUME NEW r \in Requests
               PROVE  /\ r > made <=> status'[r] = "none"
                      /\ status'[r] \in {"none", "pending"} =>
                           starts'[r] = 0 /\ ends'[r] = 0 /\ net[r] = "none"
                      /\ status'[r] = "processing" => starts'[r] \in {0, 1} /\ ends'[r] = 0
                      /\ status'[r] \in Terminal => starts'[r] = 1 /\ ends'[r] = 1
                      /\ status'[r] = "completed" => result'[r] \in {None, r}
                      /\ net[r] \in {"active", "arrived", "message"} =>
                           status'[r] = "processing" /\ starts'[r] = 1
    BY <1>1 DEF StatusInv
  <2>1. CASE r = q
    <3>1. ~(q > made)  BY <1>0, <1>3 DEF TypeOK
    <3> QED  BY <1>4, <1>5, <1>6, <1>9, <2>1, <3>1 DEF q
  <2>2. CASE r # q  BY <1>0, <1>9, <2>2 DEF StatusInv, q
  <2> QED  BY <2>1, <2>2
<1>13. \A u \in Threads : pc[u] \in {"work", "callback", "cancel", "removing", "asleep"} => req[u] \in Requests
  BY <1>0, MadeTypes DEF PlaceInv, Holding
<1>14. \A u \in Threads : u # t => /\ pc'[u] \in {"work", "callback", "cancel", "removing", "asleep", "collect"} => pc[u] = pc'[u]
                                   /\ req'[u] = req[u]
  BY <1>8
<1>15. WorkInv'
  <2>1. ASSUME NEW u \in Threads, pc'[u] = "work"
        PROVE  /\ status'[req'[u]] = "processing" /\ starts'[req'[u]] = 0 /\ net[req'[u]] = "none"
               /\ \A v \in Threads \ {u} : pc'[v] \in {"work", "callback"} => req'[v] # req'[u]
    <3>1. u # t /\ pc[u] = "work" /\ req'[u] = req[u] /\ req[u] # q /\ req[u] \in Requests
      BY <1>4, <1>7, <1>8, <1>13, <1>14, <2>1
    <3>2. \A v \in Threads : pc'[v] \in {"work", "callback"} => v # t /\ pc'[v] = pc[v] /\ req'[v] = req[v]
      BY <1>7, <1>8, <1>14
    <3> QED  BY <1>0, <1>9, <3>1, <3>2 DEF WorkInv, q
  <2>2. ASSUME NEW u \in Threads, pc'[u] = "callback"
        PROVE  /\ status'[req'[u]] = "processing" /\ starts'[req'[u]] = 1 /\ net[req'[u]] = "read"
               /\ \A v \in Threads \ {u} : pc'[v] = "callback" => req'[v] # req'[u]
    <3>1. u # t /\ pc[u] = "callback" /\ req'[u] = req[u] /\ req[u] # q /\ req[u] \in Requests
      BY <1>4, <1>7, <1>8, <1>13, <1>14, <2>2
    <3>2. \A v \in Threads : pc'[v] = "callback" => v # t /\ pc'[v] = pc[v] /\ req'[v] = req[v]
      BY <1>7, <1>8, <1>14
    <3> QED  BY <1>0, <1>9, <3>1, <3>2 DEF WorkInv, q
  <2>3. ASSUME NEW u \in Threads, pc'[u] \in {"cancel", "removing"}
        PROVE  status'[req'[u]] \in Terminal
    <3>1. CASE u = t  BY <1>3, <1>6, <1>8, <1>9, <2>3, <3>1 DEF q
    <3>2. CASE u # t  BY <1>0, <1>6, <1>9, <1>13, <1>14, <2>3, <3>2 DEF WorkInv
    <3> QED  BY <3>1, <3>2
  <2> QED  BY <1>1, <2>1, <2>2, <2>3 DEF WorkInv
<1>16. AnswerInv'
  <2>1. \A u \in Threads : answer[u].got # None => answer[u].got \in Requests /\ answer[u].got # q
    BY <1>0, <1>4, MadeTypes DEF AnswerInv
  <2>2. \A u \in Threads : pc'[u] = "collect" => pc[u] = "collect"
    BY <1>7, <1>8, <1>14
  <2> QED  BY <1>0, <1>1, <1>9, <2>1, <2>2 DEF AnswerInv
<1>17. NoSleeperMissed'
  <2> SUFFICES ASSUME NEW u \in Threads, pc'[u] = "asleep"  PROVE status'[req'[u]] \notin Terminal
    BY DEF NoSleeperMissed
  <2>1. u # t /\ pc[u] = "asleep" /\ req'[u] = req[u] /\ req[u] # q /\ req[u] \in Requests
    BY <1>7, <1>8, <1>13, <1>14
  <2> QED  BY <1>0, <1>9, <2>1 DEF NoSleeperMissed
<1> QED  BY <1>10, <1>11, <1>12, <1>15, <1>16, <1>17 DEF RequestsInv

LEMMA WorkFileStep ==
  ASSUME RequestsInv, NEW t \in Threads, WorkFile(t)
  PROVE  RequestsInv'
<1>0. TypeOK /\ PlaceInv /\ WorkInv  BY DEF RequestsInv
<1>1. /\ pc[t] = "work" /\ processed' = [processed EXCEPT ![t] = processed[t] + 1]
      /\ starts' = [starts EXCEPT ![req[t]] = starts[req[t]] + 1]
      /\ req' = [req EXCEPT ![t] = 0]
      /\ UNCHANGED <<queue, limit, round, cur, answer, client>>
  BY DEF WorkFile, Counted, Started, None
<1>2. PICK s \in Terminal, body \in {None, req[t]} : Finish(t, req[t], s, body, "scan")
  BY DEF WorkFile, Terminal
<1>3. req[t] \in Requests  BY <1>0, <1>1, MadeTypes DEF PlaceInv, Holding
<1>4. starts[req[t]] = 0  BY <1>0, <1>1 DEF WorkInv
<1>5. /\ starts' \in [Requests -> Nat] /\ starts'[req[t]] = 1
      /\ \A r \in Requests : r # req[t] => starts'[r] = starts[r]
  BY <1>0, <1>1, <1>3, <1>4 DEF TypeOK
<1>6. req' \in [Threads -> 0 .. N] /\ \A u \in Threads : u # t => req'[u] = req[u]
  BY <1>0, <1>1, Zero DEF TypeOK, None
<1>7. /\ processed' \in [Threads -> 0 .. MaxRequests]
      /\ \A u \in Threads : u # t => processed'[u] = processed[u]
  <2>1. processed[t] < MaxRequests  BY <1>0, <1>1 DEF PlaceInv
  <2>2. processed[t] + 1 \in 0 .. MaxRequests  BY <1>0, <2>1, BoundsAreNatural DEF TypeOK
  <2> QED  BY <1>0, <1>1, <2>2 DEF TypeOK
<1> QED  BY <1>1, <1>2, <1>5, <1>6, <1>7, Ends

LEMMA HttpCallbackStep ==
  ASSUME RequestsInv, NEW t \in Threads, HttpCallback(t)
  PROVE  RequestsInv'
<1>0. TypeOK /\ WorkInv  BY DEF RequestsInv
<1>1. pc[t] = "callback" /\ UNCHANGED <<queue, limit, round, cur, answer, client>>
      /\ UNCHANGED <<req, processed, starts>>
  BY DEF HttpCallback, loop
<1>2. PICK s \in Terminal, body \in {None, req[t]} : Finish(t, req[t], s, body, "cancel")
  BY DEF HttpCallback
<1>3. starts[req[t]] = 1  BY <1>0, <1>1 DEF WorkInv
<1>4. starts \in [Requests -> Nat] /\ req \in [Threads -> 0 .. N]
      /\ processed \in [Threads -> 0 .. MaxRequests]
  BY <1>0 DEF TypeOK
<1> QED  BY <1>1, <1>2, <1>3, <1>4, Ends

-----------------------------------------------------------------------------
(* Steps of the queue, and the start of a transfer *)

LEMMA CreateStep ==
  ASSUME RequestsInv, NEW t \in Threads, NEW k \in {"http", "file"}, Create(t, k)
  PROVE  RequestsInv'
<1> DEFINE r == made + 1
<1>0. TypeOK /\ PlaceInv /\ StatusInv /\ WorkInv /\ AnswerInv /\ NoSleeperMissed
  BY DEF RequestsInv
<1>1. /\ pc[t] = "idle" /\ made < N /\ made' = r /\ id' = [id EXCEPT ![r] = nextId]
      /\ nextId' = nextId + 1 /\ kind' = [kind EXCEPT ![r] = k]
      /\ status' = [status EXCEPT ![r] = "pending"] /\ req' = [req EXCEPT ![t] = r]
      /\ pc' = [pc EXCEPT ![t] = "created"]
      /\ UNCHANGED <<list, result, ends, limit, round, cur, processed, answer, starts>>
      /\ UNCHANGED <<net, chead, cnext, cmem, seen, hasClient, undefined>>
  BY DEF Create, Calls, Go, loop, client
<1>2. /\ r \in Requests /\ r \in 0 .. N /\ r \in 1 .. r /\ r > made /\ r \notin 1 .. made
      /\ nextId = r /\ made \in Nat /\ 1 .. made \subseteq 1 .. r
  BY <1>0, <1>1, BoundsAreNatural DEF TypeOK, Requests
<1>3. status[r] = "none" /\ starts[r] = 0 /\ ends[r] = 0 /\ net[r] = "none"
  BY <1>0, <1>2 DEF StatusInv
<1>4. /\ pc \in [Threads -> Place] /\ req \in [Threads -> 0 .. N]
      /\ status \in [Requests -> {"none", "pending", "processing"} \cup Terminal]
      /\ id \in [Requests -> 0 .. N]
  BY <1>0 DEF TypeOK
<1>5. \A u \in Threads : /\ pc'[u] = IF u = t THEN "created" ELSE pc[u]
                         /\ req'[u] = IF u = t THEN r ELSE req[u]
  BY <1>1, <1>4
<1>6. \A s \in Requests : /\ status'[s] = IF s = r THEN "pending" ELSE status[s]
                          /\ id'[s] = IF s = r THEN nextId ELSE id[s]
  BY <1>1, <1>4
<1>7. Len(list) \in Nat /\ \A n \in 1 .. Len(list) : list[n] \in 1 .. made /\ list[n] # r
  <2>1. Len(list) \in Nat /\ \A n \in 1 .. Len(list) : list[n] \in 1 .. made
    BY <1>0, LenProperties, ElementOfSeq DEF TypeOK
  <2> HIDE DEF r
  <2> QED  BY <1>2, <2>1
<1>8. \A s \in 1 .. made : s \in Requests /\ s # r  BY <1>0, <1>2, MadeTypes
<1>9. TypeOK'
  <2>1. list' \in Seq(1 .. r)
    <3>1. list \in Seq(1 .. made) /\ list' = list  BY <1>0, <1>1 DEF TypeOK
    <3>2. Seq(1 .. made) \subseteq Seq(1 .. r)  BY <1>2, SeqMonotonic
    <3> QED  BY <3>1, <3>2
  <2>2. made' \in 0 .. N /\ nextId' = made' + 1  BY <1>0, <1>1, <1>2 DEF TypeOK
  <2>3. id' \in [Requests -> 0 .. N] /\ kind' \in [Requests -> {"file", "http"}]
    BY <1>0, <1>1, <1>2 DEF TypeOK
  <2>4. status' \in [Requests -> {"none", "pending", "processing"} \cup Terminal]
    BY <1>1, <1>4
  <2>5. pc' \in [Threads -> Place] /\ req' \in [Threads -> 0 .. N]
    BY <1>1, <1>2, <1>4 DEF Place
  <2> HIDE DEF r
  <2> QED  BY <1>0, <1>1, <2>1, <2>2, <2>3, <2>4, <2>5 DEF TypeOK, Requests
<1> HIDE DEF r
<1>10. PlaceInv'  BY <1>0, <1>1, <1>2, <1>5 DEF PlaceInv, Holding, Round
<1>11. StatusInv'
  <2> SUFFICES ASSUME NEW s \in Requests
               PROVE  /\ s > r <=> status'[s] = "none"
                      /\ status'[s] \in {"none", "pending"} =>
                           starts[s] = 0 /\ ends[s] = 0 /\ net[s] = "none"
                      /\ status'[s] = "processing" => starts[s] \in {0, 1} /\ ends[s] = 0
                      /\ status'[s] \in Terminal => starts[s] = 1 /\ ends[s] = 1
                      /\ status'[s] = "completed" => result[s] \in {None, s}
                      /\ net[s] \in {"active", "arrived", "message"} =>
                           status'[s] = "processing" /\ starts[s] = 1
    BY <1>1 DEF StatusInv
  <2>1. CASE s = r
    <3>1. ~(r > r)  BY <1>2, BoundsAreNatural
    <3> QED  BY <1>3, <1>6, <2>1, <3>1 DEF Terminal
  <2>2. CASE s # r
    <3>1. s > r <=> s > made  BY <1>2, <2>2 DEF Requests, r
    <3> QED  BY <1>0, <1>6, <2>2, <3>1 DEF StatusInv
  <2> QED  BY <2>1, <2>2
<1>12. \A u \in Threads : pc[u] \in {"work", "callback", "cancel", "removing", "asleep"} =>
                            req[u] \in Requests /\ req[u] # r
  BY <1>0, <1>8 DEF PlaceInv, Holding
<1>13. \A u \in Threads : pc'[u] \in {"work", "callback", "cancel", "removing", "asleep", "collect"} =>
                            pc'[u] = pc[u] /\ req'[u] = req[u]
  BY <1>5
<1>14. WorkInv'
  <2>1. ASSUME NEW u \in Threads, pc'[u] = "work"
        PROVE  /\ status'[req'[u]] = "processing" /\ starts[req'[u]] = 0 /\ net[req'[u]] = "none"
               /\ \A v \in Threads \ {u} : pc'[v] \in {"work", "callback"} => req'[v] # req'[u]
    BY <1>0, <1>6, <1>12, <1>13, <2>1 DEF WorkInv
  <2>2. ASSUME NEW u \in Threads, pc'[u] = "callback"
        PROVE  /\ status'[req'[u]] = "processing" /\ starts[req'[u]] = 1 /\ net[req'[u]] = "read"
               /\ \A v \in Threads \ {u} : pc'[v] = "callback" => req'[v] # req'[u]
    BY <1>0, <1>6, <1>12, <1>13, <2>2 DEF WorkInv
  <2>3. ASSUME NEW u \in Threads, pc'[u] \in {"cancel", "removing"}
        PROVE  status'[req'[u]] \in Terminal
    BY <1>0, <1>6, <1>12, <1>13, <2>3 DEF WorkInv
  <2> QED  BY <1>1, <2>1, <2>2, <2>3 DEF WorkInv
<1>15. AnswerInv'
  <2>1. \A u \in Threads : answer[u].got # None =>
          answer[u].got \in 1 .. r /\ answer[u].got \in Requests /\ answer[u].got # r
    BY <1>0, <1>2, <1>8 DEF AnswerInv
  <2>2. \A n \in 1 .. Len(list) : id'[list[n]] = id[list[n]]  BY <1>6, <1>7, <1>8
  <2> QED  BY <1>0, <1>1, <1>6, <1>13, <2>1, <2>2 DEF AnswerInv
<1>16. NoSleeperMissed'  BY <1>0, <1>6, <1>12, <1>13 DEF NoSleeperMissed
<1> QED  BY <1>9, <1>10, <1>11, <1>14, <1>15, <1>16 DEF RequestsInv

LEMMA EnqueueStep ==
  ASSUME RequestsInv, NEW t \in Threads, Enqueue(t)
  PROVE  RequestsInv'
<1>0. TypeOK /\ PlaceInv /\ StatusInv /\ WorkInv /\ AnswerInv /\ NoSleeperMissed
  BY DEF RequestsInv
<1>1. /\ pc[t] = "created" /\ list' = Append(list, req[t]) /\ pc' = [pc EXCEPT ![t] = "idle"]
      /\ req' = [req EXCEPT ![t] = 0]
      /\ UNCHANGED <<made, nextId, id, kind, status, result, ends, starts>>
      /\ UNCHANGED <<limit, round, cur, processed, answer>>
      /\ UNCHANGED <<net, chead, cnext, cmem, seen, hasClient, undefined>>
  BY DEF Enqueue, Go, None, outcome, loop, client
<1>2. req[t] \in 1 .. made  BY <1>0, <1>1 DEF PlaceInv, Holding
<1>3. /\ list' \in Seq(1 .. made) /\ Len(list') = Len(list) + 1 /\ Len(list) \in Nat
      /\ \A n \in 1 .. Len(list) : list'[n] = list[n]
  BY <1>0, <1>1, <1>2, AppendProperties, LenProperties DEF TypeOK
<1>4. /\ pc \in [Threads -> Place] /\ req \in [Threads -> 0 .. N] /\ 0 \in 0 .. N
  BY <1>0, Zero DEF TypeOK, None
<1>5. \A u \in Threads : /\ pc'[u] = IF u = t THEN "idle" ELSE pc[u]
                         /\ req'[u] = IF u = t THEN 0 ELSE req[u]
  BY <1>1, <1>4
<1>6. TypeOK'
  <2>1. pc' \in [Threads -> Place] /\ req' \in [Threads -> 0 .. N]  BY <1>1, <1>4 DEF Place
  <2>2. \A u \in Threads : cur[u] \in Nat /\ cur[u] <= Len(list')
    <3>1. \A u \in Threads : cur[u] \in Nat /\ cur[u] <= Len(list)  BY <1>0 DEF TypeOK
    <3> QED  BY <1>3, <3>1
  <2> QED  BY <1>0, <1>1, <1>3, <2>1, <2>2 DEF TypeOK, Requests
<1>7. PlaceInv'  BY <1>0, <1>1, <1>5 DEF PlaceInv, Holding, Round
<1>8. StatusInv'  BY <1>0, <1>1 DEF StatusInv
<1>9. WorkInv'  BY <1>0, <1>1, <1>5 DEF WorkInv
<1>10. AnswerInv'
  <2>1. \A n \in 1 .. Len(list) : n \in 1 .. Len(list')  BY <1>3
  <2>2. ASSUME NEW u \in Threads, pc'[u] = "collect"
        PROVE  \E n \in 1 .. Len(list') : id[list'[n]] = answer[u].of
    <3>1. pc[u] = "collect"  BY <1>5, <2>2
    <3> QED  BY <1>0, <1>3, <2>1, <3>1 DEF AnswerInv
  <2> QED  BY <1>0, <1>1, <2>2 DEF AnswerInv
<1>11. NoSleeperMissed'  BY <1>0, <1>1, <1>5 DEF NoSleeperMissed
<1> QED  BY <1>6, <1>7, <1>8, <1>9, <1>10, <1>11 DEF RequestsInv

LEMMA ProcessTakeStep ==
  ASSUME RequestsInv, NEW t \in Threads, ProcessTake(t)
  PROVE  RequestsInv'
<1> DEFINE at == PendingFrom(cur[t])
           n == CHOOSE m \in at : \A k \in at : m <= k
           r == list[n]
<1>0. TypeOK /\ PlaceInv /\ StatusInv /\ WorkInv /\ AnswerInv /\ NoSleeperMissed
  BY DEF RequestsInv
<1>1. /\ pc[t] = "scan" /\ processed[t] < MaxRequests /\ at # {}
      /\ status' = [status EXCEPT ![r] = "processing"] /\ req' = [req EXCEPT ![t] = r]
      /\ cur' = [cur EXCEPT ![t] = IF n = Len(list) THEN 0 ELSE n + 1]
      /\ pc' = [pc EXCEPT ![t] = "work"]
      /\ UNCHANGED <<made, nextId, list, id, kind, result, ends, starts>>
      /\ UNCHANGED <<limit, round, processed, answer>>
      /\ UNCHANGED <<net, chead, cnext, cmem, seen, hasClient, undefined>>
  BY DEF ProcessTake, Go, queue, client
<1>2. n \in at
  <2>1. cur[t] \in Nat /\ Len(list) \in Nat  BY <1>0, LenProperties DEF TypeOK
  <2>2. at \in SUBSET Nat  BY <2>1 DEF PendingFrom
  <2> HIDE DEF at
  <2>3. \E m \in at : \A k \in at : m <= k  BY <1>1, <2>2, Least
  <2> QED  BY <2>3
<1>3. n \in 1 .. Len(list) /\ status[r] = "pending"
  <2>1. cur[t] \in Nat /\ Len(list) \in Nat  BY <1>0, LenProperties DEF TypeOK
  <2>2. cur[t] # 0 /\ n \in cur[t] .. Len(list) /\ status[list[n]] = "pending"
    BY <1>2 DEF PendingFrom
  <2> HIDE DEF n
  <2> QED  BY <2>1, <2>2
<1> HIDE DEF at, n
<1>4. r \in 1 .. made /\ Len(list) \in Nat
  BY <1>0, <1>3, ElementOfSeq, LenProperties DEF TypeOK
<1>5. r \in Requests /\ r \in 0 .. N  BY <1>0, <1>4, MadeTypes
<1> HIDE DEF r
<1>6. /\ pc \in [Threads -> Place] /\ req \in [Threads -> 0 .. N]
      /\ status \in [Requests -> {"none", "pending", "processing"} \cup Terminal]
      /\ cur \in [Threads -> Nat] /\ \A u \in Threads : cur[u] <= Len(list)
  BY <1>0 DEF TypeOK
<1>7. \A u \in Threads : /\ pc'[u] = IF u = t THEN "work" ELSE pc[u]
                         /\ req'[u] = IF u = t THEN r ELSE req[u]
  BY <1>1, <1>6
<1>8. \A s \in Requests : status'[s] = IF s = r THEN "processing" ELSE status[s]
  BY <1>1, <1>6
<1>9. TypeOK'
  <2>1. pc' \in [Threads -> Place] /\ req' \in [Threads -> 0 .. N]
    BY <1>1, <1>5, <1>6 DEF Place
  <2>2. status' \in [Requests -> {"none", "pending", "processing"} \cup Terminal]
    BY <1>1, <1>6
  <2>3. cur' \in [Threads -> Nat] /\ \A u \in Threads : cur'[u] <= Len(list)
    <3> DEFINE c == IF n = Len(list) THEN 0 ELSE n + 1
    <3>1. c \in Nat /\ c <= Len(list)  BY <1>3, <1>4
    <3>2. cur' = [cur EXCEPT ![t] = c]  BY <1>1
    <3> HIDE DEF c
    <3> QED  BY <1>6, <3>1, <3>2
  <2> QED  BY <1>0, <1>1, <2>1, <2>2, <2>3 DEF TypeOK, Requests
<1>10. PlaceInv'
  <2>1. pc[t] \in Round  BY <1>1 DEF Round
  <2> QED  BY <1>0, <1>1, <1>4, <1>7, <2>1 DEF PlaceInv, Holding, Round
<1>11. StatusInv'
  <2> SUFFICES ASSUME NEW s \in Requests
               PROVE  /\ s > made <=> status'[s] = "none"
                      /\ status'[s] \in {"none", "pending"} =>
                           starts[s] = 0 /\ ends[s] = 0 /\ net[s] = "none"
                      /\ status'[s] = "processing" => starts[s] \in {0, 1} /\ ends[s] = 0
                      /\ status'[s] \in Terminal => starts[s] = 1 /\ ends[s] = 1
                      /\ status'[s] = "completed" => result[s] \in {None, s}
                      /\ net[s] \in {"active", "arrived", "message"} =>
                           status'[s] = "processing" /\ starts[s] = 1
    BY <1>1 DEF StatusInv
  <2>1. CASE s = r  BY <1>0, <1>3, <1>5, <1>8, <2>1 DEF StatusInv, Terminal
  <2>2. CASE s # r  BY <1>0, <1>8, <2>2 DEF StatusInv
  <2> QED  BY <2>1, <2>2
<1>12. \A u \in Threads : pc[u] \in {"work", "callback", "cancel", "removing", "asleep"} => req[u] \in Requests
  BY <1>0, MadeTypes DEF PlaceInv, Holding
<1>13. \A u \in Threads : pc[u] \in {"work", "callback", "cancel", "removing"} => req[u] # r
  BY <1>0, <1>3 DEF WorkInv, Terminal
<1>14. \A u \in Threads : u # t => pc'[u] = pc[u] /\ req'[u] = req[u]  BY <1>7
<1>15. pc'[t] = "work" /\ req'[t] = r  BY <1>7
<1>16. starts[r] = 0 /\ net[r] = "none"  BY <1>0, <1>3, <1>5 DEF StatusInv
<1>17. WorkInv'
  <2>1. ASSUME NEW u \in Threads, pc'[u] = "work"
        PROVE  /\ status'[req'[u]] = "processing" /\ starts[req'[u]] = 0 /\ net[req'[u]] = "none"
               /\ \A v \in Threads \ {u} : pc'[v] \in {"work", "callback"} => req'[v] # req'[u]
    <3>1. CASE u = t  BY <1>5, <1>8, <1>13, <1>14, <1>15, <1>16, <3>1
    <3>2. CASE u # t
      BY <1>0, <1>8, <1>12, <1>13, <1>14, <1>15, <2>1, <3>2 DEF WorkInv
    <3> QED  BY <3>1, <3>2
  <2>2. ASSUME NEW u \in Threads, pc'[u] = "callback"
        PROVE  /\ status'[req'[u]] = "processing" /\ starts[req'[u]] = 1 /\ net[req'[u]] = "read"
               /\ \A v \in Threads \ {u} : pc'[v] = "callback" => req'[v] # req'[u]
    <3>1. u # t  BY <1>15, <2>2
    <3> QED  BY <1>0, <1>8, <1>12, <1>13, <1>14, <1>15, <2>2, <3>1 DEF WorkInv
  <2>3. ASSUME NEW u \in Threads, pc'[u] \in {"cancel", "removing"}
        PROVE  status'[req'[u]] \in Terminal
    <3>1. u # t  BY <1>15, <2>3
    <3> QED  BY <1>0, <1>8, <1>12, <1>13, <1>14, <2>3, <3>1 DEF WorkInv
  <2> QED  BY <1>1, <2>1, <2>2, <2>3 DEF WorkInv
<1>18. AnswerInv'
  <2>1. \A u \in Threads : answer[u].got # None =>
          answer[u].got \in Requests /\ answer[u].got # r
    BY <1>0, <1>3, MadeTypes DEF AnswerInv
  <2> QED  BY <1>0, <1>1, <1>7, <1>8, <2>1 DEF AnswerInv
<1>19. NoSleeperMissed'
  BY <1>0, <1>7, <1>8, <1>12 DEF NoSleeperMissed, Terminal
<1> QED  BY <1>9, <1>10, <1>11, <1>17, <1>18, <1>19 DEF RequestsInv

LEMMA HttpAddStep ==
  ASSUME RequestsInv, NEW t \in Threads, HttpAdd(t)
  PROVE  RequestsInv'
<1> DEFINE r == req[t]
<1>0. TypeOK /\ PlaceInv /\ StatusInv /\ WorkInv /\ AnswerInv /\ NoSleeperMissed
  BY DEF RequestsInv
<1>1. /\ pc[t] = "work" /\ Enters(t, "adding")
      /\ net' = [net EXCEPT ![r] = "active"] /\ cmem' = [cmem EXCEPT ![r] = "live"]
      /\ seen' = [seen EXCEPT ![t] = chead] /\ starts' = [starts EXCEPT ![r] = starts[r] + 1]
      /\ UNCHANGED <<queue, outcome>> /\ UNCHANGED <<answer, round, limit, cur, hasClient>>
      /\ UNCHANGED <<req, processed, chead, cnext>>
  BY DEF HttpAdd, Started, loop
<1>2. UNCHANGED <<made, list, id, status, result, ends>>  BY <1>1 DEF queue, outcome
<1>3. r \in Requests /\ r \in 1 .. made  BY <1>0, <1>1, MadeTypes DEF PlaceInv, Holding
<1>4. /\ status[r] = "processing" /\ starts[r] = 0
      /\ \A u \in Threads \ {t} : pc[u] \in {"work", "callback"} => req[u] # r
  BY <1>0, <1>1 DEF WorkInv
<1>5. ends[r] = 0  BY <1>0, <1>3, <1>4 DEF StatusInv
<1>6. /\ pc \in [Threads -> Place] /\ starts \in [Requests -> Nat]
      /\ net \in [Requests -> {"none", "active", "arrived", "message", "read"}]
      /\ cmem \in [Requests -> {"none", "live", "freed"}]
      /\ seen \in [Threads -> 0 .. N] /\ chead \in 0 .. N
  BY <1>0 DEF TypeOK
<1> HIDE DEF r
<1>7. /\ pc' = [pc EXCEPT ![t] = "adding"] /\ pc' \in [Threads -> Place]
      /\ undefined' \in {"none", "overlap", "freed"}
      /\ net' \in [Requests -> {"none", "active", "arrived", "message", "read"}]
      /\ cmem' \in [Requests -> {"none", "live", "freed"}]
      /\ seen' \in [Threads -> 0 .. N]
  BY <1>0, <1>1, <1>6, Entered DEF InClient
<1>8. starts' \in [Requests -> Nat]
      /\ \A s \in Requests : starts'[s] = IF s = r THEN 1 ELSE starts[s]
  <2>1. starts' = [starts EXCEPT ![r] = 1]  BY <1>1, <1>4
  <2> QED  BY <1>6, <2>1
<1>9. TypeOK'  BY <1>0, <1>1, <1>7, <1>8, TransferTypes DEF TypeOK
<1>10. \A s \in Requests : net'[s] = IF s = r THEN "active" ELSE net[s]  BY <1>1, <1>6
<1>11. \A u \in Threads : pc'[u] = IF u = t THEN "adding" ELSE pc[u]  BY <1>6, <1>7
<1>12. PlaceInv'
  <2>1. pc[t] \in Round /\ pc[t] \in Holding  BY <1>1 DEF Round, Holding
  <2> QED  BY <1>0, <1>1, <1>2, <1>11, <2>1 DEF PlaceInv, Holding, Round
<1>13. StatusInv'
  BY <1>0, <1>2, <1>4, <1>5, <1>8, <1>10 DEF StatusInv, Terminal
<1>14. \A u \in Threads : pc'[u] \in {"work", "callback"} =>
          u # t /\ pc'[u] = pc[u] /\ req[u] \in Requests /\ req[u] # r
  BY <1>0, <1>4, <1>11, MadeTypes DEF PlaceInv, Holding
<1>15. WorkInv'
  <2>1. ASSUME NEW u \in Threads, pc'[u] = "work"
        PROVE  /\ status[req[u]] = "processing" /\ starts'[req[u]] = 0 /\ net'[req[u]] = "none"
               /\ \A v \in Threads \ {u} : pc'[v] \in {"work", "callback"} => req[v] # req[u]
    BY <1>0, <1>8, <1>10, <1>14, <2>1 DEF WorkInv
  <2>2. ASSUME NEW u \in Threads, pc'[u] = "callback"
        PROVE  /\ status[req[u]] = "processing" /\ starts'[req[u]] = 1 /\ net'[req[u]] = "read"
               /\ \A v \in Threads \ {u} : pc'[v] = "callback" => req[v] # req[u]
    BY <1>0, <1>8, <1>10, <1>14, <2>2 DEF WorkInv
  <2>3. ASSUME NEW u \in Threads, pc'[u] \in {"cancel", "removing"}
        PROVE  status[req[u]] \in Terminal
    BY <1>0, <1>11, <2>3 DEF WorkInv
  <2> QED  BY <1>1, <1>2, <2>1, <2>2, <2>3 DEF WorkInv
<1>16. AnswerInv'  BY <1>0, <1>1, <1>2, <1>11 DEF AnswerInv
<1>17. NoSleeperMissed'  BY <1>0, <1>1, <1>2, <1>11 DEF NoSleeperMissed
<1> QED  BY <1>9, <1>12, <1>13, <1>15, <1>16, <1>17 DEF RequestsInv

-----------------------------------------------------------------------------
(* The theorems *)

LEMMA RequestsUnchanged ==
  ASSUME RequestsInv, UNCHANGED vars
  PROVE  RequestsInv'
<1>1. /\ UNCHANGED <<made, nextId, list, id, kind, status, result, ends>>
      /\ UNCHANGED <<pc, req, limit, round, cur, processed, answer, starts>>
      /\ UNCHANGED <<net, chead, cnext, cmem, seen, hasClient, undefined>>
  BY DEF vars, queue, outcome, loop, client
<1>2. TypeOK' /\ PlaceInv' /\ StatusInv'
  BY <1>1 DEF RequestsInv, TypeOK, PlaceInv, StatusInv, Requests
<1>3. WorkInv' /\ AnswerInv' /\ NoSleeperMissed'
  BY <1>1 DEF RequestsInv, WorkInv, AnswerInv, NoSleeperMissed
<1> QED  BY <1>2, <1>3 DEF RequestsInv

LEMMA RequestsStep == RequestsInv /\ [Next]_vars => RequestsInv'
<1> SUFFICES ASSUME RequestsInv, [Next]_vars  PROVE RequestsInv'
  OBVIOUS
<1>1. CASE UNCHANGED vars  BY <1>1, RequestsUnchanged
<1>2. ASSUME NEW t \in Threads, Step(t)  PROVE RequestsInv'
  BY <1>2, EnqueueStep, WaitTestStep, AwaitCheckStep, AwaitCollectStep, WithoutClientStep,
     HttpEnterStep, HttpPerformStep, HttpMessageStep, HttpCallbackStep, HttpCancelStep, HttpCountStep, WalkSteps,
     ProcessTakeStep, WorkFileStep, NotStartedSteps, HttpAddStep, HttpLinkStep
  DEF Step
<1>3. ASSUME NEW t \in Threads, Call(t)  PROVE RequestsInv'
  BY <1>3, CreateStep, GetResultStep, AwaitResultStep, WaitResultStep
  DEF Call, SubmitHttp, SubmitFile
<1>4. ASSUME NEW t \in Threads, WaitTimesOut(t) \/ SpuriousWakeup(t)  PROVE RequestsInv'
  BY <1>4, WaitEndsSteps
<1>5. ASSUME NEW r \in Requests, Arrive(r)  PROVE RequestsInv'
  BY <1>5, ArriveStep
<1>6. CASE FreeBegin \/ FreeClient  BY <1>6, FreeBeginStep, FreeClientStep
<1> QED  BY <1>1, <1>2, <1>3, <1>4, <1>5, <1>6 DEF Next

\* The invariant holds in every state the queue, the client and the script's
\* functions get to.
THEOREM Inductive == Spec => []RequestsInv
<1>1. Init => RequestsInv  BY RequestsInit
<1>2. RequestsInv /\ [Next]_vars => RequestsInv'  BY RequestsStep
<1> QED  BY <1>1, <1>2, PTL DEF Spec

\* However many threads process the queue at once, no file is read or written
\* and no transfer started twice, and no request is completed twice: of the
\* threads past "work" and "callback" one at a time has a given request, and a
\* request is taken only while it is pending.
THEOREM OncePerRequest == Spec => []RunOnce
<1>1. RequestsInv => RunOnce
  <2> SUFFICES ASSUME RequestsInv, NEW r \in Requests
               PROVE  /\ starts[r] <= 1 /\ ends[r] <= starts[r]
                      /\ ends[r] = 1 <=> status[r] \in Terminal
    BY DEF RunOnce
  <2>1. TypeOK /\ StatusInv  BY DEF RequestsInv
  <2>2. status[r] \in {"none", "pending", "processing"} \cup Terminal  BY <2>1 DEF TypeOK
  <2>3. CASE status[r] \in {"none", "pending"}  BY <2>1, <2>3 DEF StatusInv, Terminal
  <2>4. CASE status[r] = "processing"  BY <2>1, <2>4 DEF StatusInv, Terminal
  <2>5. CASE status[r] \in Terminal  BY <2>1, <2>5 DEF StatusInv
  <2> QED  BY <2>2, <2>3, <2>4, <2>5
<1> QED  BY <1>1, Inductive, PTL

\* A script that gets a body gets the body of the request it asked for, which
\* has completed, whatever order the requests were queued in and whoever runs
\* at the same time.
THEOREM AnswersAreOwn == Spec => []AnswersBelong
<1>1. RequestsInv => AnswersBelong  BY DEF RequestsInv, AnswerInv, AnswersBelong
<1> QED  BY <1>1, Inductive, PTL

\* No thread sleeps on a request that is over.
THEOREM NobodyMissed == Spec => []NoSleeperMissed
<1>1. RequestsInv => NoSleeperMissed  BY DEF RequestsInv
<1> QED  BY <1>1, Inductive, PTL

\* A request is taken only while it is pending.
LEMMA TakenIsPending ==
  ASSUME TypeOK, NEW t \in Threads, ProcessTake(t)
  PROVE  \E q : status' = [status EXCEPT ![q] = "processing"] /\ status[q] = "pending"
                /\ result' = result
<1> DEFINE at == PendingFrom(cur[t])
           n == CHOOSE m \in at : \A k \in at : m <= k
<1>1. at # {} /\ status' = [status EXCEPT ![list[n]] = "processing"] /\ result' = result
  BY DEF ProcessTake
<1>2. cur[t] \in Nat /\ Len(list) \in Nat  BY LenProperties DEF TypeOK
<1>3. at \in SUBSET Nat /\ \A m \in at : status[list[m]] = "pending"
  BY <1>2 DEF PendingFrom
<1> HIDE DEF at
<1>4. \E m \in at : \A k \in at : m <= k  BY <1>1, <1>3, Least
<1>5. n \in at  BY <1>4
<1> QED  BY <1>1, <1>3, <1>5

\* What a request came to is never changed: a late message, a second pump or
\* the teardown cannot overwrite a status that scripts have been told.
THEOREM OutcomeIsFinal ==
  Spec => [][\A r \in Requests :
               status[r] \in Terminal => status'[r] = status[r] /\ result'[r] = result[r]]_vars
<1> DEFINE Final == \A r \in Requests :
                     status[r] \in Terminal => status'[r] = status[r] /\ result'[r] = result[r]
<1>1. ASSUME RequestsInv, [Next]_vars  PROVE [Final]_vars
  <2>0. TypeOK /\ PlaceInv /\ StatusInv /\ WorkInv  BY <1>1 DEF RequestsInv
  <2>1. /\ status \in [Requests -> {"none", "pending", "processing"} \cup Terminal]
        /\ result \in [Requests -> 0 .. N]
    BY <2>0 DEF TypeOK
  <2>2. CASE UNCHANGED <<status, result>>  BY <2>2
  <2>3. CASE UNCHANGED vars  BY <2>3
  <2>4. ASSUME NEW t \in Threads, NEW k \in {"http", "file"}, Create(t, k)  PROVE Final
    <3>1. status' = [status EXCEPT ![made + 1] = "pending"] /\ result' = result /\ made < N
      BY <2>4 DEF Create
    <3>2. made + 1 \in Requests /\ made + 1 > made  BY <2>0, <3>1, BoundsAreNatural DEF TypeOK, Requests
    <3>3. status[made + 1] \notin Terminal  BY <2>0, <3>2 DEF StatusInv, Terminal
    <3> QED  BY <2>1, <3>1, <3>3
  <2>5. ASSUME NEW t \in Threads, ProcessTake(t)  PROVE Final
    <3>1. PICK q : status' = [status EXCEPT ![q] = "processing"] /\ status[q] = "pending" /\ result' = result
      BY <2>0, <2>5, TakenIsPending
    <3> QED  BY <2>1, <3>1 DEF Terminal
  <2>6. ASSUME NEW t \in Threads, WorkFile(t) \/ HttpCallback(t)  PROVE Final
    <3>1. PICK s, body, p : Finish(t, req[t], s, body, p)  BY <2>6 DEF WorkFile, HttpCallback
    <3>2. status[req[t]] \notin Terminal
      BY <2>0, <2>6 DEF WorkInv, WorkFile, HttpCallback, Terminal
    <3> QED  BY <2>1, <3>1, <3>2 DEF Finish
  <2>7. ASSUME NEW t \in Threads, Step(t)  PROVE UNCHANGED <<status, result>> \/ Final
    <3>1. CASE ProcessTake(t)  BY <2>5, <3>1
    <3>2. CASE WorkFile(t) \/ HttpCallback(t)  BY <2>6, <3>2
    <3>3. CASE ~(ProcessTake(t) \/ WorkFile(t) \/ HttpCallback(t))
      BY <2>7, <3>3 DEF Step, outcome, Enqueue, WaitTest, AwaitCheck, AwaitCollect, WithoutClient,
         HttpEnter, HttpPerform, HttpMessage, HttpCancel, HttpCount, ProcessBegin, ProcessEnd, WorkWithoutClient,
         WorkFails, HttpAdd, HttpLink
    <3> QED  BY <3>1, <3>2, <3>3
  <2>8. ASSUME NEW t \in Threads, Call(t)  PROVE UNCHANGED <<status, result>> \/ Final
    <3>1. CASE SubmitHttp(t) \/ SubmitFile(t)  BY <2>4, <3>1 DEF SubmitHttp, SubmitFile
    <3>2. CASE \E i \in Ids : \/ GetResult(t, i) \/ AwaitResult(t, i)
                              \/ \E timed \in BOOLEAN : WaitResult(t, i, timed)
      BY <3>2 DEF GetResult, AwaitResult, WaitResult, outcome
    <3> QED  BY <2>8, <3>1, <3>2 DEF Call
  <2>9. CASE \/ \E t \in Threads : WaitTimesOut(t) \/ SpuriousWakeup(t)
             \/ \E r \in Requests : Arrive(r)
             \/ FreeBegin \/ FreeClient
    BY <2>9 DEF WaitTimesOut, SpuriousWakeup, Arrive, FreeBegin, FreeClient, outcome
  <2> HIDE DEF Final
  <2>10. UNCHANGED <<status, result>> => Final  BY DEF Final
  <2> QED  BY <1>1, <2>3, <2>7, <2>8, <2>9, <2>10 DEF Next
<1> QED  BY <1>1, Inductive, PTL DEF Spec

-----------------------------------------------------------------------------
(* The client's list, until two threads are in the client at once *)

Live(p) == p \in Requests /\ cmem[p] = "live"

\* The head and what live nodes point to are live; no node has two
\* predecessors, the head has none, and a request that is being added has none.
ListInv ==
  /\ \A r \in Requests : starts[r] = 0 => cmem[r] = "none" /\ cnext[r] = None
  /\ chead # None => Live(chead)
  /\ \A p \in Requests : Live(p) /\ cnext[p] # None => Live(cnext[p]) /\ cnext[p] # chead
  /\ \A p, q \in Requests :
       Live(p) /\ Live(q) /\ cnext[p] # None /\ cnext[p] = cnext[q] => p = q

\* One thread is in the client; the head has not moved while it adds.
AddInv ==
  /\ \A t, u \in Threads : pc[t] \in InClient /\ pc[u] \in InClient => t = u
  /\ \A t \in Threads : pc[t] = "adding" =>
       /\ Live(req[t]) /\ cnext[req[t]] = None /\ chead # req[t] /\ seen[t] = chead
       /\ starts[req[t]] = 1
       /\ \A p \in Requests : Live(p) => cnext[p] # req[t]

SoundInv == undefined # "freed" /\ (Sound => ListInv /\ AddInv)

\* The inductive invariant of the list.
ClientInv == RequestsInv /\ SoundInv

LEMMA ListIsSound ==
  ASSUME ListInv
  PROVE  ~Broken
<1> DEFINE L == {p \in Requests : cmem[p] = "live"}
<1>1. chead # None => chead \in L  BY DEF ListInv, Live
<1>2. \A q \in L : cmem[q] = "live" /\ cnext[q] # None => cnext[q] \in L  BY DEF ListInv, Live
<1>3. L \in SUBSET Requests  OBVIOUS
<1>4. \A p \in Walked : p \in L
  <2> HIDE DEF L
  <2> QED  BY <1>1, <1>2, <1>3 DEF Walked
<1> QED  BY <1>4 DEF Broken

\* A step that leaves the list as it is, and nobody in the client who was not.
LEMMA ListKept ==
  ASSUME ListInv, AddInv, Sound, UNCHANGED <<chead, cnext, cmem, seen, undefined>>,
         \A u \in Threads : pc'[u] \in InClient => pc[u] \in InClient,
         \A u \in Threads : pc'[u] = "adding" =>
           pc[u] = "adding" /\ req'[u] = req[u] /\ starts'[req[u]] = starts[req[u]],
         \A r \in Requests : starts'[r] = 0 => starts[r] = 0
  PROVE  SoundInv'
<1>1. ListInv'  BY DEF ListInv, Live
<1>2. AddInv'  BY DEF AddInv, Live
<1>3. undefined' # "freed"  BY DEF Sound
<1> QED  BY <1>1, <1>2, <1>3 DEF SoundInv

\* A thread that enters the client with the list as it is.
LEMMA ListEnters ==
  ASSUME ClientInv, Sound, NEW t \in Threads, HttpEnter(t)
  PROVE  SoundInv'
<1>0. TypeOK /\ ListInv /\ AddInv  BY DEF ClientInv, RequestsInv, SoundInv
<1>1. PICK p \in {"performing", "reading", "removing"} : Enters(t, p)
  BY DEF HttpEnter, ClientCall
<1>2. /\ pc' = [pc EXCEPT ![t] = p] /\ undefined' \in {"overlap", undefined}
      /\ undefined' # "overlap" => \A u \in Threads \ {t} : pc[u] \notin InClient
  BY <1>0, <1>1, Entered DEF InClient
<1>3. UNCHANGED <<chead, cnext, cmem, seen, req, starts>>  BY DEF HttpEnter
<1>4. \A u \in Threads : pc'[u] = IF u = t THEN p ELSE pc[u]  BY <1>0, <1>2 DEF TypeOK
<1>5. ListInv'  BY <1>0, <1>3 DEF ListInv, Live
<1>6. undefined' # "overlap" => AddInv'
  <2>1. \A u \in Threads : pc'[u] = "adding" => pc[u] = "adding"  BY <1>4
  <2>2. ASSUME undefined' # "overlap"  PROVE \A u \in Threads : pc'[u] \in InClient => u = t
    BY <1>2, <1>4, <2>2
  <2> QED  BY <1>0, <1>3, <2>1, <2>2 DEF AddInv, Live
<1>7. undefined' # "freed"  BY <1>2 DEF Sound
<1> QED  BY <1>5, <1>6, <1>7 DEF SoundInv, Sound

\* The steps of one thread that leave the list as it is.
LEMMA ListSteps ==
  ASSUME ClientInv, Sound, NEW t \in Threads,
         \/ Call(t) \/ WaitTimesOut(t) \/ SpuriousWakeup(t)
         \/ /\ Step(t)
            /\ ~(HttpEnter(t) \/ HttpCancel(t) \/ HttpCount(t) \/ HttpAdd(t) \/ HttpLink(t))
  PROVE  SoundInv'
<1>0. TypeOK /\ PlaceInv /\ WorkInv /\ ListInv /\ AddInv
  BY DEF ClientInv, RequestsInv, SoundInv
<1>1. /\ pc \in [Threads -> Place] /\ starts \in [Requests -> Nat]
      /\ req \in [Threads -> 0 .. N]
  BY <1>0 DEF TypeOK
<1>2. CASE \E k \in {"http", "file"} : Create(t, k)
  <2>1. /\ pc' = [pc EXCEPT ![t] = "created"] /\ UNCHANGED <<chead, cnext, cmem, seen, undefined, starts>>
        /\ req' = [req EXCEPT ![t] = made + 1]
    BY <1>2 DEF Create, Go, client
  <2> QED  BY <1>0, <1>1, <2>1, ListKept DEF InClient
<1>3. CASE \E p : pc' = [pc EXCEPT ![t] = p] /\ p \notin InClient /\ UNCHANGED <<client, starts>>
                  /\ \A u \in Threads : u # t => req'[u] = req[u]
  <2>1. UNCHANGED <<chead, cnext, cmem, seen, undefined, starts>>  BY <1>3 DEF client
  <2>2. \A u \in Threads : u # t => pc'[u] = pc[u] /\ req'[u] = req[u]  BY <1>1, <1>3
  <2>3. pc'[t] \notin InClient /\ pc'[t] # "adding"  BY <1>1, <1>3 DEF InClient
  <2> QED  BY <1>0, <2>1, <2>2, <2>3, ListKept
<1>4. ASSUME Enqueue(t) \/ WaitTest(t) \/ WaitTimesOut(t) \/ SpuriousWakeup(t)
      PROVE  SoundInv'
  <2>1. PICK p \in {"idle", "asleep", "test"} : pc' = [pc EXCEPT ![t] = p]
    BY <1>4 DEF Enqueue, WaitTest, WaitTimesOut, SpuriousWakeup, Return, Go
  <2>2. \A u \in Threads : u # t => req'[u] = req[u]
    BY <1>1, <1>4 DEF Enqueue, WaitTest, WaitTimesOut, SpuriousWakeup, Return
  <2>3. UNCHANGED <<client, starts>>
    BY <1>4 DEF Enqueue, WaitTest, WaitTimesOut, SpuriousWakeup
  <2> QED  BY <1>3, <2>1, <2>2, <2>3 DEF InClient
<1>5. ASSUME NEW i, \/ GetResult(t, i) \/ AwaitResult(t, i)
                    \/ \E timed \in BOOLEAN : WaitResult(t, i, timed)
      PROVE  SoundInv'
  <2>1. PICK p \in {"idle", "check", "test"} :
          pc' = [pc EXCEPT ![t] = p]
    BY <1>5 DEF GetResult, AwaitResult, WaitResult, Return, Go
  <2>2. \A u \in Threads : u # t => req'[u] = req[u]
    BY <1>1, <1>5 DEF GetResult, AwaitResult, WaitResult, Return
  <2>3. UNCHANGED <<client, starts>>  BY <1>5 DEF GetResult, AwaitResult, WaitResult
  <2> QED  BY <1>3, <2>1, <2>2, <2>3 DEF InClient
<1>6. ASSUME AwaitCheck(t) \/ AwaitCollect(t) \/ ProcessBegin(t) \/ ProcessTake(t) \/ ProcessEnd(t)
      PROVE  SoundInv'
  <2>1. PICK p \in {"idle", "collect", "perform", "scan", "work", "check"} :
          pc' = [pc EXCEPT ![t] = p]
    BY <1>6 DEF AwaitCheck, AwaitCollect, ProcessBegin, ProcessTake, ProcessEnd, Return, Go
  <2>2. \A u \in Threads : u # t => req'[u] = req[u]
    BY <1>1, <1>6 DEF AwaitCheck, AwaitCollect, ProcessBegin, ProcessTake, ProcessEnd, Return
  <2>3. UNCHANGED <<client, starts>>
    BY <1>6 DEF AwaitCheck, AwaitCollect, ProcessBegin, ProcessTake, ProcessEnd
  <2> QED  BY <1>3, <2>1, <2>2, <2>3 DEF InClient
<1>7. ASSUME WorkWithoutClient(t) \/ WorkFails(t) \/ WithoutClient(t)  PROVE SoundInv'
  <2>1. PICK p \in {"scan", "process"} : pc' = [pc EXCEPT ![t] = p]
    BY <1>7 DEF WorkWithoutClient, WorkFails, WithoutClient, Go
  <2>2. UNCHANGED <<client, starts>>
    BY <1>7 DEF WorkWithoutClient, WorkFails, WithoutClient
  <2>3. \A u \in Threads : u # t => req'[u] = req[u]
    BY <1>1, <1>7 DEF WorkWithoutClient, WorkFails, WithoutClient
  <2> QED  BY <1>3, <2>1, <2>2, <2>3 DEF InClient
<1>8. ASSUME HttpPerform(t) \/ HttpMessage(t)  PROVE SoundInv'
  <2>1. PICK p \in {"messages", "callback"} : pc' = [pc EXCEPT ![t] = p]
    BY <1>8 DEF HttpPerform, HttpMessage, Go
  <2>2. \A u \in Threads : u # t => req'[u] = req[u]  BY <1>1, <1>8 DEF HttpPerform, HttpMessage
  <2>3. UNCHANGED <<chead, cnext, cmem, seen, undefined, starts>>
    BY <1>8 DEF HttpPerform, HttpMessage
  <2>4. pc'[t] = p /\ \A u \in Threads : u # t => pc'[u] = pc[u]  BY <1>1, <2>1
  <2>5. pc'[t] \notin InClient /\ pc'[t] # "adding"  BY <2>4 DEF InClient
  <2> QED  BY <1>0, <2>2, <2>3, <2>4, <2>5, ListKept
<1>9. ASSUME WorkFile(t) \/ HttpCallback(t)  PROVE SoundInv'
  <2>1. PICK p \in {"scan", "cancel"} : Broadcast(req[t], t, p)
    BY <1>9 DEF WorkFile, HttpCallback, Finish
  <2>2. pc[t] \in {"work", "callback"}  BY <1>9 DEF WorkFile, HttpCallback
  <2>3. /\ pc'[t] = p
        /\ \A u \in Threads : u # t => pc'[u] = pc[u] \/ pc'[u] = "test"
    BY <1>1, <2>1, <2>2, Woken DEF Place
  <2>4. UNCHANGED <<chead, cnext, cmem, seen, undefined>>
    BY <1>9 DEF WorkFile, HttpCallback, client
  <2>5. req[t] \in Requests  BY <1>0, <2>2, MadeTypes DEF PlaceInv, Holding
  <2>6. /\ \A r \in Requests : starts'[r] = 0 => starts[r] = 0
        /\ \A r \in Requests : starts[r] = 1 => starts'[r] = starts[r]
    <3>1. CASE starts' = starts  BY <3>1
    <3>2. CASE starts' = [starts EXCEPT ![req[t]] = starts[req[t]] + 1] /\ pc[t] = "work"
      <4>1. starts[req[t]] = 0  BY <1>0, <3>2 DEF WorkInv
      <4>2. starts' = [starts EXCEPT ![req[t]] = 1]  BY <3>2, <4>1
      <4> QED  BY <1>1, <2>5, <4>1, <4>2
    <3> QED  BY <1>9, <3>1, <3>2 DEF WorkFile, HttpCallback, Started
  <2>7. \A u \in Threads : pc'[u] \in InClient => pc[u] \in InClient /\ pc'[u] = pc[u] /\ u # t
    BY <2>3 DEF InClient
  <2>8. \A u \in Threads : u # t => req'[u] = req[u]
    BY <1>1, <1>9 DEF WorkFile, HttpCallback
  <2>9. \A u \in Threads : pc'[u] = "adding" =>
          pc[u] = "adding" /\ req'[u] = req[u] /\ starts'[req[u]] = starts[req[u]]
    <3>1. \A u \in Threads : pc'[u] = "adding" => pc[u] = "adding" /\ u # t
      BY <2>7 DEF InClient
    <3>2. \A u \in Threads : pc[u] = "adding" => req[u] \in Requests /\ starts[req[u]] = 1
      BY <1>0 DEF AddInv, Live
    <3> QED  BY <2>6, <2>8, <3>1, <3>2
  <2> QED  BY <1>0, <2>4, <2>6, <2>7, <2>9, ListKept
<1> QED
  BY <1>2, <1>4, <1>5, <1>6, <1>7, <1>8, <1>9 DEF Step, Call, SubmitHttp, SubmitFile

LEMMA ListAdd ==
  ASSUME ClientInv, Sound, NEW t \in Threads, HttpAdd(t)
  PROVE  SoundInv'
<1> DEFINE r == req[t]
           Alive(p) == p \in Requests /\ cmem'[p] = "live"
<1>0. TypeOK /\ PlaceInv /\ WorkInv /\ ListInv /\ AddInv /\ undefined = "none"
  BY DEF ClientInv, RequestsInv, SoundInv, Sound
<1>1. /\ pc[t] = "work" /\ Enters(t, "adding")
      /\ cmem' = [cmem EXCEPT ![r] = "live"] /\ seen' = [seen EXCEPT ![t] = chead]
      /\ starts' = [starts EXCEPT ![r] = starts[r] + 1]
      /\ UNCHANGED <<req, chead, cnext>>
  BY DEF HttpAdd, Started
<1>2. r \in Requests /\ r # None /\ starts[r] = 0
  BY <1>0, <1>1, MadeTypes DEF PlaceInv, Holding, WorkInv
<1>3. cmem[r] = "none" /\ cnext[r] = None /\ ~Live(r)  BY <1>0, <1>2 DEF ListInv, Live, Alive
<1>4. /\ pc \in [Threads -> Place] /\ starts \in [Requests -> Nat]
      /\ cmem \in [Requests -> {"none", "live", "freed"}] /\ seen \in [Threads -> 0 .. N]
  BY <1>0 DEF TypeOK
<1>5. /\ pc' = [pc EXCEPT ![t] = "adding"] /\ undefined' \in {"overlap", undefined}
      /\ undefined' # "overlap" => \A u \in Threads \ {t} : pc[u] \notin InClient
  BY <1>0, <1>1, Entered DEF InClient
<1> HIDE DEF r
<1>6. starts' = [starts EXCEPT ![r] = 1]  BY <1>1, <1>2
<1>7. \A s \in Requests : /\ cmem'[s] = IF s = r THEN "live" ELSE cmem[s]
                          /\ starts'[s] = IF s = r THEN 1 ELSE starts[s]
  BY <1>1, <1>4, <1>6
<1>8. \A u \in Threads : pc'[u] = IF u = t THEN "adding" ELSE pc[u]  BY <1>4, <1>5
<1>9. \A p : Alive(p) <=> Live(p) \/ p = r  BY <1>2, <1>7 DEF Live
<1> HIDE DEF Alive
<1>10. ListInv'
  <2>1. \A s \in Requests : starts'[s] = 0 => cmem'[s] = "none" /\ cnext[s] = None
    BY <1>0, <1>7 DEF ListInv
  <2>2. chead # None => Alive(chead)  BY <1>0, <1>9 DEF ListInv
  <2>3. \A p \in Requests : Alive(p) /\ cnext[p] # None => Alive(cnext[p]) /\ cnext[p] # chead
    BY <1>0, <1>3, <1>9 DEF ListInv
  <2>4. \A p, q \in Requests :
          Alive(p) /\ Alive(q) /\ cnext[p] # None /\ cnext[p] = cnext[q] => p = q
    BY <1>0, <1>3, <1>9 DEF ListInv
  <2>5. chead' = chead /\ cnext' = cnext  BY <1>1
  <2> QED  BY <2>1, <2>2, <2>3, <2>4, <2>5 DEF ListInv, Live, Alive
<1>11. ASSUME undefined' # "overlap"  PROVE AddInv'
  <2>1. /\ Alive(r) /\ cnext[r] = None /\ chead # r /\ seen'[t] = chead /\ starts'[r] = 1
        /\ \A p \in Requests : Alive(p) => cnext[p] # r
    BY <1>0, <1>1, <1>2, <1>3, <1>4, <1>7, <1>9 DEF ListInv
  <2>2. \A u \in Threads : /\ pc'[u] \in InClient => u = t
                           /\ pc'[u] = "adding" => u = t
    BY <1>5, <1>8, <1>11 DEF InClient
  <2>3. chead' = chead /\ cnext' = cnext /\ req'[t] = r  BY <1>1 DEF r
  <2> QED  BY <2>1, <2>2, <2>3 DEF AddInv, Live, Alive
<1> QED  BY <1>0, <1>5, <1>10, <1>11 DEF SoundInv, Sound

LEMMA ListLink ==
  ASSUME ClientInv, Sound, NEW t \in Threads, HttpLink(t)
  PROVE  SoundInv'
<1> DEFINE r == req[t]
           Alive(p) == p \in Requests /\ cmem'[p] = "live"
<1>0. TypeOK /\ ListInv /\ AddInv /\ undefined = "none"  BY DEF ClientInv, RequestsInv, SoundInv, Sound
<1>1. /\ pc[t] = "adding" /\ pc' = [pc EXCEPT ![t] = "scan"]
      /\ cnext' = [cnext EXCEPT ![r] = seen[t]] /\ chead' = r
      /\ UNCHANGED <<cmem, starts, undefined>>
  BY DEF HttpLink, Go
<1>2. /\ Live(r) /\ r \in Requests /\ cnext[r] = None /\ chead # r /\ seen[t] = chead
      /\ starts[r] = 1 /\ \A p \in Requests : Live(p) => cnext[p] # r
  BY <1>0, <1>1 DEF AddInv, Live, Alive
<1>3. pc \in [Threads -> Place] /\ cnext \in [Requests -> 0 .. N]  BY <1>0 DEF TypeOK
<1>4. \A u \in Threads : u # t => pc[u] \notin InClient  BY <1>0, <1>1 DEF AddInv, InClient
<1> HIDE DEF r
<1>5. \A s \in Requests : cnext'[s] = IF s = r THEN chead ELSE cnext[s]  BY <1>1, <1>2, <1>3
<1>6. \A u \in Threads : pc'[u] = IF u = t THEN "scan" ELSE pc[u]  BY <1>1, <1>3
<1>7. \A p : Alive(p) <=> Live(p)  BY <1>1 DEF Live
<1> HIDE DEF Alive
<1>8. ListInv'
  <2>1. \A s \in Requests : starts[s] = 0 => cmem[s] = "none" /\ cnext'[s] = None
    BY <1>0, <1>2, <1>5 DEF ListInv
  <2>2. \A p \in Requests : Live(p) /\ cnext'[p] # None => Live(cnext'[p]) /\ cnext'[p] # r
    BY <1>0, <1>2, <1>5 DEF ListInv
  <2>3. \A p, q \in Requests :
          Live(p) /\ Live(q) /\ cnext'[p] # None /\ cnext'[p] = cnext'[q] => p = q
    BY <1>0, <1>2, <1>5 DEF ListInv
  <2> QED  BY <1>1, <1>2, <1>7, <2>1, <2>2, <2>3 DEF ListInv, Live, Alive
<1>9. AddInv'
  <2>1. \A u \in Threads : pc'[u] \notin InClient /\ pc'[u] # "adding"
    BY <1>4, <1>6 DEF InClient
  <2> QED  BY <2>1 DEF AddInv
<1> QED  BY <1>0, <1>1, <1>8, <1>9 DEF SoundInv

LEMMA ListCancel ==
  ASSUME ClientInv, Sound, NEW t \in Threads, HttpCancel(t)
  PROVE  SoundInv'
<1> DEFINE r == req[t]
           Alive(p) == p \in Requests /\ cmem'[p] = "live"
<1>0. TypeOK /\ PlaceInv /\ StatusInv /\ WorkInv /\ ListInv /\ AddInv /\ undefined = "none"
  BY DEF ClientInv, RequestsInv, SoundInv, Sound
<1>1. /\ pc[t] = "removing" /\ pc' = [pc EXCEPT ![t] = "messages"] /\ Unlink(r)
      /\ cmem' = [cmem EXCEPT ![r] = "freed"] /\ UNCHANGED starts
  BY DEF HttpCancel, Cancel, Go
<1>2. r \in Requests /\ r # None /\ starts[r] = 1
  BY <1>0, <1>1, MadeTypes DEF PlaceInv, Holding, WorkInv, StatusInv
<1>3. /\ pc \in [Threads -> Place] /\ cnext \in [Requests -> 0 .. N]
      /\ cmem \in [Requests -> {"none", "live", "freed"}]
  BY <1>0 DEF TypeOK
<1>4. \A u \in Threads : u # t => pc[u] \notin InClient  BY <1>0, <1>1 DEF AddInv, InClient
<1>5. undefined' = "none"  BY <1>0, ListIsSound DEF HttpCancel
<1> HIDE DEF r
<1>6. \A s \in Requests : cmem'[s] = IF s = r THEN "freed" ELSE cmem[s]  BY <1>1, <1>3
<1>7. \A u \in Threads : pc'[u] = IF u = t THEN "messages" ELSE pc[u]  BY <1>1, <1>3
<1>8. \A p : Alive(p) <=> Live(p) /\ p # r  BY <1>6 DEF Live
<1> HIDE DEF Alive
<1>9. AddInv'
  <2>1. \A u \in Threads : pc'[u] \notin InClient /\ pc'[u] # "adding"
    BY <1>4, <1>7 DEF InClient
  <2> QED  BY <2>1 DEF AddInv
<1>10. CASE chead = r
  <2>1. chead' = cnext[r] /\ cnext' = cnext  BY <1>1, <1>10 DEF Unlink
  <2>2. Live(r)  BY <1>0, <1>2, <1>10 DEF ListInv
  <2>3. \A s \in Requests : starts[s] = 0 => cmem'[s] = "none" /\ cnext[s] = None
    BY <1>0, <1>2, <1>6 DEF ListInv
  <2>4. cnext[r] # None => Alive(cnext[r])  BY <1>0, <1>2, <1>8, <1>10, <2>2 DEF ListInv
  <2>5. \A p \in Requests : Alive(p) /\ cnext[p] # None => Alive(cnext[p]) /\ cnext[p] # cnext[r]
    BY <1>0, <1>2, <1>8, <1>10, <2>2 DEF ListInv
  <2>6. \A p, q \in Requests :
          Alive(p) /\ Alive(q) /\ cnext[p] # None /\ cnext[p] = cnext[q] => p = q
    BY <1>0, <1>8 DEF ListInv
  <2>7. ListInv'  BY <1>1, <2>1, <2>3, <2>4, <2>5, <2>6 DEF ListInv, Live, Alive
  <2> QED  BY <1>5, <1>9, <2>7 DEF SoundInv
<1>11. CASE chead # r
  <2>1. /\ chead' = chead
        /\ cnext' = [p \in Requests |-> IF cmem[p] = "live" /\ cnext[p] = r /\ p # r
                                        THEN cnext[r] ELSE cnext[p]]
    BY <1>1, <1>11 DEF Unlink
  <2>2. \A p \in Requests : Alive(p) =>
          /\ Live(p) /\ p # r
          /\ cnext'[p] = IF cnext[p] = r THEN cnext[r] ELSE cnext[p]
    BY <1>8, <2>1 DEF Live
  <2>3. \A s \in Requests : starts[s] = 0 => cmem'[s] = "none" /\ cnext'[s] = None
    BY <1>0, <1>2, <1>6, <2>1 DEF ListInv
  <2>4. chead # None => Alive(chead)  BY <1>0, <1>8, <1>11 DEF ListInv
  <2>5. \A p \in Requests : Live(p) /\ cnext[p] = r => Live(r)  BY <1>0, <1>2 DEF ListInv
  <2>6. \A p \in Requests : Alive(p) /\ cnext'[p] # None => Alive(cnext'[p]) /\ cnext'[p] # chead
    BY <1>0, <1>2, <1>8, <2>2, <2>5 DEF ListInv
  <2>7. \A p, q \in Requests :
          Alive(p) /\ Alive(q) /\ cnext'[p] # None /\ cnext'[p] = cnext'[q] => p = q
    BY <1>0, <1>2, <2>2, <2>5 DEF ListInv
  <2>8. ListInv'  BY <1>1, <2>1, <2>3, <2>4, <2>6, <2>7 DEF ListInv, Live, Alive
  <2> QED  BY <1>5, <1>9, <2>8 DEF SoundInv
<1> QED  BY <1>10, <1>11

LEMMA ListOthers ==
  ASSUME ClientInv, Sound,
         \/ FreeBegin \/ FreeClient
         \/ \E r \in Requests : Arrive(r)
         \/ \E t \in Threads : HttpCount(t)
  PROVE  SoundInv'
<1>0. TypeOK /\ ListInv /\ AddInv /\ undefined = "none"
  BY DEF ClientInv, RequestsInv, SoundInv, Sound
<1>1. pc \in [Threads -> Place]  BY <1>0 DEF TypeOK
<1>2. CASE \E r \in Requests : Arrive(r)
  <2>1. UNCHANGED <<chead, cnext, cmem, seen, undefined, pc, req, starts>>
    BY <1>2 DEF Arrive
  <2> QED  BY <1>0, <2>1, ListKept
<1>3. CASE FreeBegin
  <2>1. pc' = [pc EXCEPT ![Main] = "joining"] /\ UNCHANGED <<req, starts>>
        /\ UNCHANGED <<chead, cnext, cmem, seen, undefined>>
    BY <1>3 DEF FreeBegin, Go, client
  <2>2. \A u \in Threads : pc'[u] = IF u = Main THEN "joining" ELSE pc[u]  BY <1>1, <2>1
  <2> QED  BY <1>0, <2>1, <2>2, ListKept DEF InClient
<1>4. ASSUME NEW t \in Threads, HttpCount(t)  PROVE SoundInv'
  <2>1. /\ pc[t] = "reading" /\ pc' = [pc EXCEPT ![t] = "process"] /\ UNCHANGED <<req, starts>>
        /\ UNCHANGED <<chead, cnext, cmem, seen>>
    BY <1>4 DEF HttpCount, Go
  <2>2. UNCHANGED undefined  BY <1>0, <1>4, ListIsSound DEF HttpCount
  <2>3. \A u \in Threads : pc'[u] = IF u = t THEN "process" ELSE pc[u]  BY <1>1, <2>1
  <2> QED  BY <1>0, <2>1, <2>2, <2>3, ListKept DEF InClient
<1>5. CASE FreeClient
  <2>1. /\ pc' = [pc EXCEPT ![Main] = "freed"] /\ \A u \in Threads \ {Main} : pc[u] = "idle"
        /\ cmem' = [r \in Requests |-> IF cmem[r] = "live" THEN "freed" ELSE cmem[r]]
        /\ chead' = None /\ UNCHANGED <<cnext, starts>>
    BY <1>5 DEF FreeClient, Go
  <2>2. undefined' = "none"  BY <1>0, <1>5, ListIsSound DEF FreeClient
  <2>3. \A p : ~(p \in Requests /\ cmem'[p] = "live")  BY <2>1 DEF Live
  <2>4. \A r \in Requests : starts[r] = 0 => cmem'[r] = "none" /\ cnext[r] = None
    BY <1>0, <2>1 DEF ListInv
  <2>5. ListInv'  BY <2>1, <2>3, <2>4 DEF ListInv, Live
  <2>6. \A u \in Threads : pc'[u] \notin InClient /\ pc'[u] # "adding"
    BY <1>1, <2>1, MainIsThread DEF InClient
  <2>7. AddInv'  BY <2>6 DEF AddInv
  <2> QED  BY <2>2, <2>5, <2>7 DEF SoundInv
<1> QED  BY <1>2, <1>3, <1>4, <1>5

\* Whatever threads call awaitResult, and however their calls alternate, the
\* client's list never leads to a freed request as long as no two of them are
\* in the client at once; from there on, which nothing prevents, the model
\* says nothing.
THEOREM ListStaysSound == Spec => []ClientSound
<1>1. Init => ClientInv
  <2> SUFFICES ASSUME Init PROVE SoundInv
    BY RequestsInit DEF ClientInv
  <2>1. ListInv  BY DEF Init, ListInv, Live
  <2>2. AddInv  BY DEF Init, AddInv, InClient
  <2> QED  BY <2>1, <2>2 DEF Init, SoundInv
<1>2. ASSUME ClientInv, [Next]_vars  PROVE ClientInv'
  <2>1. RequestsInv'  BY <1>2, RequestsStep DEF ClientInv
  <2>2. SoundInv'
    <3>1. CASE UNCHANGED vars
      <4>1. UNCHANGED <<chead, cnext, cmem, seen, undefined, pc, req, starts>>
        BY <3>1 DEF vars, client
      <4> QED  BY <1>2, <4>1 DEF ClientInv, SoundInv, Sound, ListInv, AddInv, Live
    <3>2. ASSUME NEW t \in Threads, Step(t)  PROVE SoundInv'
      BY <1>2, <3>2, ListEnters, ListSteps, ListAdd, ListLink, ListCancel, ListOthers DEF Step
    <3>3. ASSUME NEW t \in Threads, Sound, Call(t) \/ WaitTimesOut(t) \/ SpuriousWakeup(t)
          PROVE  SoundInv'
      BY <1>2, <3>3, ListSteps
    <3>4. CASE \/ \E r \in Requests : Sound /\ Arrive(r)
               \/ Sound /\ (FreeBegin \/ FreeClient)
      BY <1>2, <3>4, ListOthers
    <3> QED  BY <1>2, <3>1, <3>2, <3>3, <3>4 DEF Next
  <2> QED  BY <2>1, <2>2 DEF ClientInv
<1>3. ClientInv => ClientSound  BY DEF ClientInv, SoundInv, ClientSound
<1> QED  BY <1>1, <1>2, <1>3, PTL DEF Spec
=============================================================================
