------------------------------ MODULE AtomicMap ------------------------------
(***************************************************************************)
(* What a thread-safe map promises: every call takes effect at one instant *)
(* between its invocation and its return, and answers accordingly.         *)
(* src/interfaces/interface_ds.kyl:126 promises of replace that it is a    *)
(* compare-and-swap: that is Compares = TRUE.  The map of the code is one  *)
(* with Compares = FALSE, whose replace sets a key that is there whatever  *)
(* its value.                                                              *)
(***************************************************************************)
CONSTANTS Key, Thread,
          Absent,          \* the value of a key that is not in the map (nil)
          Call,            \* the calls: an operation, its key and its values
          Compares         \* replace looks at the old value it is given

VARIABLES content,         \* the map
          phase,           \* where each thread is in its call
          call,            \* its operation, key and value
          answer           \* what its call will return, once decided

NoCall == [op |-> "none"]

absVars == <<content, phase, call, answer>>

Present(k) == content[k] # Absent
Keys == {k \in Key : Present(k)}

Init ==
  /\ content = [k \in Key |-> Absent]
  /\ phase = [t \in Thread |-> "idle"]
  /\ call = [t \in Thread |-> NoCall]
  /\ answer = [t \in Thread |-> {}]

Invoke(t) ==
  /\ phase[t] = "idle"
  /\ phase' = [phase EXCEPT ![t] = "invoked"]
  /\ \E c \in Call : call' = [call EXCEPT ![t] = c]
  /\ UNCHANGED <<content, answer>>

Set(k, v) == content' = [content EXCEPT ![k] = v]

\* replace finds what it is to replace.
Matches(c) == Present(c.key) /\ (Compares => content[c.key] = c.old)

\* The effect of a keyed call and what it answers.
Effect(c, ans) ==
  \/ c.op = "put" /\ Set(c.key, c.val) /\ ans = {TRUE}
  \/ c.op = "putIfAbsent" /\ ~Present(c.key) /\ Set(c.key, c.val) /\ ans = {TRUE}
  \/ c.op = "replace" /\ Matches(c) /\ Set(c.key, c.val) /\ ans = {TRUE}
  \/ c.op = "remove" /\ Present(c.key) /\ Set(c.key, Absent) /\ ans = {TRUE}
  \/ c.op = "putIfAbsent" /\ Present(c.key) /\ UNCHANGED content /\ ans = {FALSE}
  \/ c.op = "replace" /\ ~Matches(c) /\ UNCHANGED content /\ ans = {FALSE}
  \/ c.op = "remove" /\ ~Present(c.key) /\ UNCHANGED content /\ ans = {FALSE}
  \/ c.op = "contains" /\ UNCHANGED content /\ ans = {Present(c.key)}
  \/ c.op = "get" /\ UNCHANGED content /\ ans = {content[c.key]}
  \/ c.op = "keys" /\ UNCHANGED content /\ ans = Keys
  \/ c.op = "clear" /\ content' = [k \in Key |-> Absent] /\ ans = {TRUE}
  \/ c.op = "size" /\ UNCHANGED content    \* nothing is promised of its answer

TakeEffect(t) ==
  /\ phase[t] = "invoked"
  /\ phase' = [phase EXCEPT ![t] = "decided"]
  /\ Effect(call[t], answer'[t])
  /\ \A u \in Thread \ {t} : answer'[u] = answer[u]
  /\ UNCHANGED call

Return(t) ==
  /\ phase[t] = "decided"
  /\ phase' = [phase EXCEPT ![t] = "idle"]
  /\ call' = [call EXCEPT ![t] = NoCall]
  /\ answer' = [answer EXCEPT ![t] = {}]
  /\ UNCHANGED content

Next == \E t \in Thread : Invoke(t) \/ TakeEffect(t) \/ Return(t)

Map == Init /\ [][Next]_absVars
=============================================================================
