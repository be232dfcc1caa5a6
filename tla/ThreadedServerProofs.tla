------------------------ MODULE ThreadedServerProofs ------------------------
(***************************************************************************)
(* Proofs about ThreadedServer.tla and the endpoints of Workspace.tla, for *)
(* every script, any number of connections, mounts and listeners, and any  *)
(* files.  The inductive invariant is the conjunction of                   *)
(*   Typed       which variables and records have which fields, and what   *)
(*               is a sequence;                                            *)
(*   AnswerInv   what a connection was sent, by the place it is at;        *)
(*   BypassInv   a file is looked up only for a path above every prefix    *)
(*               that was to bypass static serving when it connected;      *)
(*   OrphanInv   who does not belong to a server that is freed has one;    *)
(*   RootInv     unless two borrowings of static_root met, at most one     *)
(*               connection borrows it and has saved what the script set;  *)
(*   TodoInv     at the bottom of the stack of a delete is its own path.   *)
(* A step of a connection is summarised by Step, Borrows and Files, from   *)
(* which ConnectionStep proves the invariant once for all of them.         *)
(* Two theorems have invariants of their own: RangeInv, that the sizes of  *)
(* files are numbers and the requests can be read, for the one on ranges,  *)
(* and RoutesInv, that patterns are texts and the route that answers is    *)
(* the right one, for the one on routes.  PatternsFit says first that      *)
(* match_route_path, which goes from slash to slash, computes what a       *)
(* pattern means, segment by segment.                                      *)
(***************************************************************************)
EXTENDS ThreadedServer, TLAPS, SequenceTheorems, FiniteSetTheorems

LEMMA SeqFacts ==
  ASSUME NEW s, IsSeq(s)
  PROVE  Len(s) \in Nat /\ DOMAIN s = 1 .. Len(s)
  BY LenProperties DEF IsSeq

LEMMA AppendIsSeq ==
  ASSUME NEW s, IsSeq(s), NEW x
  PROVE  /\ IsSeq(Append(s, x))
         /\ Len(Append(s, x)) = Len(s) + 1
         /\ \A i \in 1 .. Len(s) : Append(s, x)[i] = s[i]
         /\ Append(s, x)[Len(s) + 1] = x
         /\ Append(s, x) # <<>>
         /\ ToSet(s) \subseteq ToSet(Append(s, x))
<1> DEFINE S == {s[i] : i \in DOMAIN s} \cup {x}
           t == Append(s, x)
<1>1. s \in Seq(S)
  BY SeqFacts, ElementOfSeq DEF IsSeq
<1>2. /\ t \in Seq(S) /\ Len(t) = Len(s) + 1 /\ Len(s) \in Nat
      /\ \A i \in 1 .. Len(s) : t[i] = s[i]
      /\ t[Len(s) + 1] = x
  BY <1>1, AppendProperties, LenProperties
<1>3. DOMAIN t = 1 .. Len(s) + 1 /\ DOMAIN s = 1 .. Len(s)
  BY <1>1, <1>2, LenProperties
<1>4. t \in Seq({t[i] : i \in DOMAIN t})
  <2>1. \A i \in 1 .. Len(t) : t[i] \in {t[j] : j \in DOMAIN t}
    BY <1>2, <1>3
  <2> QED  BY <2>1, <1>2, <1>3, SeqDef
<1>5. t # <<>>  BY <1>2, EmptySeq
<1>6. ToSet(s) \subseteq ToSet(t)
  BY <1>2, <1>3 DEF ToSet
<1> QED  BY <1>2, <1>4, <1>5, <1>6 DEF IsSeq

LEMMA EmptyIsSeq == IsSeq(<<>>) /\ Len(<<>>) = 0
  BY EmptySeq DEF IsSeq

\* A sequence over a set is one of anything.
LEMMA SeqIsSeq ==
  ASSUME NEW S, NEW s \in Seq(S)
  PROVE  IsSeq(s)
<1>1. Len(s) \in Nat /\ DOMAIN s = 1 .. Len(s)  BY LenProperties
<1>2. \A i \in 1 .. Len(s) : s[i] \in {s[j] : j \in DOMAIN s}  BY <1>1
<1>3. s = [i \in 1 .. Len(s) |-> s[i]]  BY SeqDef
<1> QED  BY <1>1, <1>2, <1>3, SeqDef DEF IsSeq

LEMMA FrontIsSeq ==
  ASSUME NEW s, IsSeq(s), s # <<>>
  PROVE  /\ IsSeq(Front(s)) /\ Len(Front(s)) = Len(s) - 1
         /\ \A i \in 1 .. Len(s) - 1 : Front(s)[i] = s[i]
         /\ Len(s) \in Nat \ {0} /\ Last(s) = s[Len(s)]
<1> DEFINE S == {s[i] : i \in DOMAIN s}
<1>1. Len(s) \in Nat \ {0} /\ DOMAIN s = 1 .. Len(s)
  BY SeqFacts, EmptySeq DEF IsSeq
<1>2. \A i \in 1 .. Len(s) - 1 : s[i] \in S  BY <1>1
<1> HIDE DEF S
<1>3. Front(s) = SubSeq(s, 1, Len(s) - 1)  BY DEF Front
<1>4. /\ Front(s) \in Seq(S) /\ Len(Front(s)) = Len(s) - 1
      /\ \A i \in 1 .. Len(s) - 1 : Front(s)[i] = s[i]
  BY <1>1, <1>2, <1>3, SubSeqProperties
<1> QED  BY <1>1, <1>4, SeqIsSeq DEF Last

LEMMA ConcatIsSeq ==
  ASSUME NEW s, IsSeq(s), NEW t, IsSeq(t)
  PROVE  /\ IsSeq(s \o t) /\ Len(s \o t) = Len(s) + Len(t)
         /\ \A i \in 1 .. Len(s) : (s \o t)[i] = s[i]
         /\ \A i \in 1 .. Len(t) : (s \o t)[Len(s) + i] = t[i]
<1> DEFINE S == {s[i] : i \in DOMAIN s}
           T == {t[i] : i \in DOMAIN t}
<1>1. s \in Seq(S \cup T) /\ t \in Seq(S \cup T)
  BY SeqFacts, ElementOfSeq DEF IsSeq
<1> HIDE DEF S, T
<1>2. Len(s) \in Nat /\ Len(t) \in Nat  BY SeqFacts
<1> DEFINE st == s \o t
<1>3. /\ st \in Seq(S \cup T) /\ Len(st) = Len(s) + Len(t)
      /\ \A i \in 1 .. Len(s) + Len(t) : st[i] = IF i <= Len(s) THEN s[i] ELSE t[i - Len(s)]
  BY <1>1, ConcatProperties
<1>4. \A i \in 1 .. Len(s) : st[i] = s[i]  BY <1>2, <1>3
<1> HIDE DEF st
<1>5. IsSeq(st)  BY <1>3, SeqIsSeq
<1>6. ASSUME NEW i \in 1 .. Len(t) PROVE st[Len(s) + i] = t[i]
  <2> DEFINE k == Len(s) + i
  <2>1. k \in 1 .. Len(s) + Len(t) /\ ~(k <= Len(s)) /\ k - Len(s) = i  BY <1>2
  <2> HIDE DEF k
  <2>2. st[k] = t[i]  BY <1>3, <2>1
  <2> QED  BY <2>2 DEF k
<1> QED  BY <1>3, <1>4, <1>5, <1>6 DEF st

LEMMA TailIsSeq ==
  ASSUME NEW s, IsSeq(s), s # <<>>
  PROVE  IsSeq(Tail(s)) /\ Tail(s) # s
<1> DEFINE S == {s[i] : i \in DOMAIN s}
<1>1. Tail(s) \in Seq(S) /\ Len(Tail(s)) = Len(s) - 1
  BY HeadTailProperties DEF IsSeq
<1>2. Len(s) \in Nat  BY SeqFacts
<1> HIDE DEF S
<1> DEFINE t == Tail(s)
<1>4. Len(t) # Len(s)
  <2>1. \A n \in Nat : n - 1 # n  OBVIOUS
  <2>2. Len(t) = Len(s) - 1  BY <1>1
  <2> QED  BY <1>2, <2>1, <2>2, Zenon
<1>3. t # s  BY <1>4
<1> QED  BY <1>1, <1>3, SeqIsSeq

-----------------------------------------------------------------------------
(* The invariants *)

\* A function on S, whatever its values.
On(f, S) == f = [x \in S |-> f[x]]

EndpointPlace == {"ensuring", "ensured", "endpoint", "writing", "switch", "switching", "split",
                  "mkdir", "rename", "delete", "unlink", "opendir", "rmdir"}
FilePlace == {"set", "open", "send", "restore", "again"}
Place == {"idle", "read", "more", "static", "route", "noRoute", "legacy", "fallback", "handler",
          "built", "notFound", "closed", "undefined"} \cup FilePlace \cup EndpointPlace
LocalField == {"got", "first", "ended", "mount", "moves", "file", "saved", "spa", "full", "size",
               "served", "fallback", "params", "route", "bypass"}
ServerField == {"exists", "running", "fd", "routes", "mounts", "capacity", "moves", "bypass",
                "serveStatic", "owned", "doing"}
RequestField == {"method", "path", "range", "spelling", "early", "boundary", "body", "json", "parts"}

Typed ==
  /\ pc \in [Client -> Place]
  /\ On(local, Client) /\ \A c \in Client : On(local[c], LocalField)
  /\ On(req, Client) /\ On(res, Client) /\ On(job, Client)
  /\ On(answer, Client) /\ \A c \in Client : IsSeq(answer[c])
  /\ On(server, ServerField) /\ IsSeq(server.owned) /\ IsSeq(server.bypass)
  /\ On(listener, Listener) /\ IsSeq(script)

\* What a connection was sent and where it is.
Answered(place, l, sent) ==
  /\ Len(sent) <= 1
  /\ place \notin {"restore", "closed", "undefined"} => Len(sent) = 0
  /\ place = "send" => l.served
  /\ place = "restore" => Len(sent) = IF l.served THEN 1 ELSE 0
  /\ place = "closed" => Len(sent) = 1 \/ l.got = 0

AnswerInv == \A c \in Client : Answered(pc[c], local[c], answer[c])

\* Once a file is looked up, the path is below no prefix that is bypassed.
Above(l, request) == \A prefix \in l.bypass : prefix = <<>> \/ ~IsPrefix(prefix, request.path)
NotBypassed(place, l, request) ==
  /\ place \in {"idle", "read", "more"} => l.mount = 0
  /\ place \in FilePlace \/ (place = "static" /\ l.mount # 0) => Above(l, request)

Serving == Place \ {"idle", "closed", "undefined"}
BypassInv ==
  \A c \in Client :
    /\ NotBypassed(pc[c], local[c], req[c])
    /\ pc[c] \in Serving /\ c \notin orphans => local[c].bypass \subseteq ToSet(server.bypass)

\* Who is no orphan has a server; without one there is no root.
OrphanInv ==
  /\ \A c \in Client : pc[c] \in Serving /\ c \notin orphans => server.exists
  /\ \A l \in Listener : listener[l] \in Running /\ l \notin orphans => server.exists
  /\ ~server.exists => staticRoot = Null

\* Whoever borrows static_root alone has saved what the script configured.
BorrowPlace == {"set", "open", "send", "restore", "undefined"}
Configured(s) == IF s.owned = <<>> THEN Null ELSE <<"own", Len(s.owned)>>
RootInv ==
  ~overlapped =>
    /\ \A c, d \in Client : pc[c] \in BorrowPlace /\ pc[d] \in BorrowPlace => c = d
    /\ server.exists /\ (\A c \in Client : pc[c] \notin BorrowPlace) => staticRoot = Configured(server)
    /\ \A c \in Client : pc[c] \in BorrowPlace \ {"undefined"} /\ c \notin orphans =>
         local[c].saved = Configured(server)

\* What is deleted last is what was asked for.
JobField == {"path", "to", "todo", "failed", "mixed"}
Deleting == {"delete", "unlink", "opendir", "rmdir"}
Todo(place, j) ==
  place \in Deleting =>
    /\ On(j, JobField) /\ j.failed \in BOOLEAN /\ IsSeq(j.todo) /\ j.todo # <<>>
    /\ \E b \in BOOLEAN : j.todo[1] = [path |-> j.path, processed |-> b]
TodoInv ==
  /\ IsFiniteSet(DOMAIN files) /\ On(files, DOMAIN files)
  /\ \A c \in Client : Todo(pc[c], job[c])

\* The inductive invariant.
ConnectionsInv == Typed /\ AnswerInv /\ BypassInv /\ OrphanInv /\ RootInv /\ TodoInv

LEMMA TypedInit == Init => Typed
<1> SUFFICES ASSUME Init PROVE Typed
  OBVIOUS
<1>1. pc \in [Client -> Place]  BY DEF Init, Place
<1>2. On(local, Client) /\ \A c \in Client : On(local[c], LocalField)
  BY DEF Init, On, LocalField, NoLocal
<1>3. On(req, Client) /\ On(res, Client) /\ On(job, Client) /\ On(answer, Client)
  BY DEF Init, On
<1>4. \A c \in Client : IsSeq(answer[c])  BY EmptyIsSeq DEF Init
<1>5. On(server, ServerField)  BY DEF Init, On, ServerField, NoServer
<1>6. IsSeq(server.owned) /\ IsSeq(server.bypass)  BY EmptyIsSeq DEF Init, NoServer
<1>7. IsSeq(script)  BY ScenarioAssumption DEF Init
<1>8. On(listener, Listener)  BY DEF Init, On
<1> QED  BY <1>1, <1>2, <1>3, <1>4, <1>5, <1>6, <1>7, <1>8 DEF Typed

\* Updates of a function or of a record of local variables.
LEMMA OnExcept ==
  ASSUME NEW S, NEW f, On(f, S), NEW a, NEW x
  PROVE  /\ On([f EXCEPT ![a] = x], S)
         /\ a \in S => [f EXCEPT ![a] = x][a] = x
         /\ \A b \in S : b # a => [f EXCEPT ![a] = x][b] = f[b]
  BY DEF On

LEMMA InvInit == Init => ConnectionsInv
<1> SUFFICES ASSUME Init PROVE ConnectionsInv
  OBVIOUS
<1>1. Typed  BY TypedInit
<1>2. \A c \in Client : pc[c] = "idle" /\ local[c] = NoLocal /\ answer[c] = <<>>
  BY DEF Init
<1>3. AnswerInv  BY <1>2, EmptyIsSeq DEF AnswerInv, Answered
<1>4. BypassInv  BY <1>2 DEF BypassInv, NotBypassed, FilePlace, Serving, NoLocal
<1>5. OrphanInv  BY <1>2 DEF OrphanInv, Serving, Init, Running
<1>6. RootInv  BY <1>2 DEF RootInv, BorrowPlace, Init, NoServer, Configured
<1>7. TodoInv  BY <1>2, FilesAssumption DEF TodoInv, Todo, Init, On, Deleting
<1> QED  BY <1>1, <1>3, <1>4, <1>5, <1>6, <1>7 DEF ConnectionsInv

-----------------------------------------------------------------------------
(* The connections *)

\* A step of connection c that puts it at place with other local variables, and
\* leaves what the script configured and who listens alone.
Step(c, place, new, request, sent) ==
  /\ pc' = [pc EXCEPT ![c] = place] /\ local' = [local EXCEPT ![c] = new]
  /\ req' = [req EXCEPT ![c] = request] /\ answer' = [answer EXCEPT ![c] = sent]
  /\ On(res', Client)
  /\ UNCHANGED <<server, script, listener, orphans>>

\* How it treats static_root.
Borrows(c, place, new) ==
  /\ place \in BorrowPlace \ {"undefined"} =>
       IF pc[c] \in BorrowPlace THEN new.saved = local[c].saved
       ELSE c \notin orphans /\ new.saved = staticRoot
  /\ place \notin BorrowPlace =>
       IF pc[c] \in BorrowPlace THEN c \notin orphans /\ staticRoot' = local[c].saved
       ELSE staticRoot' = staticRoot
  /\ c \in orphans => staticRoot' = staticRoot

\* What happens to the endpoints' variables and to the files.
Files(c, place) ==
  /\ On(job', Client) /\ Todo(place, job'[c])
  /\ \A d \in Client : d # c /\ pc[d] \in Deleting => job'[d] = job[d]
  /\ IsFiniteSet(DOMAIN files') /\ On(files', DOMAIN files')

Overlaps ==
  ~overlapped' =>
    ~overlapped /\ \A c, d \in Client : pc'[c] \in BorrowPlace /\ pc'[d] \in BorrowPlace => c = d

LEMMA ConnectionStep ==
  ASSUME ConnectionsInv, Overlaps, NEW c \in Client, pc[c] \in Serving,
         NEW place \in Place \ {"idle"}, NEW new, On(new, LocalField),
         NEW request, NEW sent, IsSeq(sent), Step(c, place, new, request, sent),
         new.bypass \subseteq local[c].bypass,
         Answered(place, new, sent), NotBypassed(place, new, request),
         Borrows(c, place, new), Files(c, place)
  PROVE  ConnectionsInv'
<1>0. Typed /\ AnswerInv /\ BypassInv /\ OrphanInv /\ RootInv /\ TodoInv
  BY DEF ConnectionsInv
<1>1. \A d \in Client : /\ pc'[d] = IF d = c THEN place ELSE pc[d]
                        /\ local'[d] = IF d = c THEN new ELSE local[d]
                        /\ req'[d] = IF d = c THEN request ELSE req[d]
                        /\ answer'[d] = IF d = c THEN sent ELSE answer[d]
  BY <1>0 DEF Step, Typed, On
<1>2. UNCHANGED <<server, script, listener, orphans>>  BY DEF Step
<1>3. Typed'
  <2>1. pc' \in [Client -> Place] /\ On(res', Client) /\ On(job', Client)
    BY <1>0, <1>1 DEF Step, Typed, Files
  <2>2. On(local', Client) /\ On(req', Client) /\ On(answer', Client)
    BY <1>0 DEF Step, Typed, On
  <2>3. \A d \in Client : On(local'[d], LocalField) /\ IsSeq(answer'[d])
    BY <1>0, <1>1 DEF Typed
  <2> QED  BY <1>0, <1>2, <2>1, <2>2, <2>3 DEF Typed
<1>4. AnswerInv'  BY <1>0, <1>1 DEF AnswerInv
<1>5. BypassInv'  BY <1>0, <1>1, <1>2 DEF BypassInv
<1>6. OrphanInv'
  <2>1. ~server.exists => staticRoot' = Null
    BY <1>0 DEF OrphanInv, Borrows
  <2> QED  BY <1>0, <1>1, <1>2, <2>1 DEF OrphanInv
<1>7. RootInv'
  <2> SUFFICES ASSUME ~overlapped'
               PROVE  /\ server'.exists /\ (\A d \in Client : pc'[d] \notin BorrowPlace) =>
                           staticRoot' = Configured(server')
                      /\ \A d \in Client : pc'[d] \in BorrowPlace \ {"undefined"} /\ d \notin orphans' =>
                           local'[d].saved = Configured(server')
    BY DEF RootInv, Overlaps, Configured
  <2>1. /\ \A d \in Client : pc[d] \in BorrowPlace \ {"undefined"} /\ d \notin orphans =>
             local[d].saved = Configured(server)
        /\ server.exists /\ (\A d \in Client : pc[d] \notin BorrowPlace) => staticRoot = Configured(server)
    BY <1>0 DEF RootInv, Overlaps
  <2>2. \A d, e \in Client : pc'[d] \in BorrowPlace /\ pc'[e] \in BorrowPlace => d = e
    BY DEF Overlaps
  <2>3. c \notin orphans => server.exists  BY <1>0 DEF OrphanInv
  <2>4. pc[c] # "undefined"  BY DEF Serving
  <2>5. ASSUME server'.exists, \A d \in Client : pc'[d] \notin BorrowPlace
        PROVE  staticRoot' = Configured(server)
    <3>1. \A d \in Client \ {c} : pc[d] \notin BorrowPlace  BY <1>1, <2>5
    <3>2. place \notin BorrowPlace  BY <1>1, <2>5
    <3> QED  BY <1>2, <2>1, <2>4, <2>5, <3>1, <3>2 DEF Borrows
  <2>6. ASSUME NEW d \in Client, pc'[d] \in BorrowPlace \ {"undefined"}, d \notin orphans
        PROVE  local'[d].saved = Configured(server)
    <3>1. CASE d # c  BY <1>1, <2>1, <2>6, <3>1
    <3>2. CASE d = c /\ pc[c] \in BorrowPlace
      BY <1>1, <2>1, <2>4, <2>6, <3>2 DEF Borrows
    <3>3. CASE d = c /\ pc[c] \notin BorrowPlace
      <4>1. \A e \in Client : pc[e] \notin BorrowPlace
        BY <1>1, <2>2, <2>6, <3>3
      <4> QED  BY <1>1, <2>1, <2>3, <2>6, <3>3, <4>1 DEF Borrows
    <3> QED  BY <3>1, <3>2, <3>3
  <2> QED  BY <1>2, <2>5, <2>6
<1>8. TodoInv'
  <2>1. ASSUME NEW d \in Client
        PROVE  Todo(pc'[d], job'[d])
    <3>1. CASE d = c  BY <1>1, <3>1 DEF Files
    <3>2. CASE d # c /\ pc[d] \in Deleting  BY <1>0, <1>1, <3>2 DEF TodoInv, Files
    <3>3. CASE d # c /\ pc[d] \notin Deleting  BY <1>1, <3>3 DEF Todo
    <3> QED  BY <3>1, <3>2, <3>3
  <2> QED  BY <2>1 DEF TodoInv, Files
<1> QED  BY <1>3, <1>4, <1>5, <1>6, <1>7, <1>8 DEF ConnectionsInv

\* A step that leaves the endpoints' variables and the files alone.
LEMMA LeavesFiles ==
  ASSUME ConnectionsInv, NEW c \in Client, NEW place \in Place \ Deleting,
         UNCHANGED workspaceVars
  PROVE  Files(c, place)
  BY DEF ConnectionsInv, Typed, TodoInv, Todo, Files, workspaceVars

LEMMA Unwritten ==
  ASSUME Typed, NEW c \in Client
  PROVE  /\ local = [local EXCEPT ![c] = local[c]] /\ req = [req EXCEPT ![c] = req[c]]
         /\ answer = [answer EXCEPT ![c] = answer[c]]
         /\ On(local[c], LocalField) /\ IsSeq(answer[c])
  BY DEF Typed, On

\* The end of a request.
LEMMA EndsStep ==
  ASSUME Typed, NEW c \in Client, Ends(c)
  PROVE  /\ local' = [local EXCEPT ![c] = [NoLocal EXCEPT !.got = local[c].got]]
         /\ req' = [req EXCEPT ![c] = NoRequest] /\ On(res', Client)
         /\ On([NoLocal EXCEPT !.got = local[c].got], LocalField)
         /\ [NoLocal EXCEPT !.got = local[c].got].bypass = {}
         /\ [NoLocal EXCEPT !.got = local[c].got].got = local[c].got
  BY DEF Typed, Ends, Sets, On, NoLocal, LocalField

\* Reading the request.
LEMMA ParsedStep ==
  ASSUME NEW c \in Client, NEW got, Parsed(c, got)
  PROVE  /\ Moves(c, "static")
         /\ \E request : req' = [req EXCEPT ![c] = request]
  BY DEF Parsed

LEMMA ReadStep ==
  ASSUME ConnectionsInv, Overlaps, NEW c \in Client, ReadFirst(c) \/ ReadMore(c)
  PROVE  ConnectionsInv'
<1>0. Typed /\ AnswerInv /\ BypassInv  BY DEF ConnectionsInv
<1>1. /\ pc[c] \in {"read", "more"} /\ UNCHANGED <<staticRoot, res, answer, workspaceVars>>
      /\ ConfigurationUnchanged
  BY DEF ReadFirst, ReadMore, At, Parsed, Moves
<1>2. PICK place, new :
        /\ place \in {"closed", "more", "static"} /\ pc' = [pc EXCEPT ![c] = place]
        /\ local' = [local EXCEPT ![c] = new] /\ On(new, LocalField)
        /\ new.bypass = local[c].bypass /\ new.mount = local[c].mount
        /\ place = "closed" => new.got = 0
  <2>1. ASSUME ReadFirst(c)
        PROVE  \E place, new :
                 /\ place \in {"closed", "more", "static"} /\ pc' = [pc EXCEPT ![c] = place]
                 /\ local' = [local EXCEPT ![c] = new] /\ On(new, LocalField)
                 /\ new.bypass = local[c].bypass /\ new.mount = local[c].mount
                 /\ place = "closed" => new.got = 0
    <3>1. PICK got : /\ Sets(c, [local[c] EXCEPT !.got = got, !.first = got])
                     /\ (Moves(c, "closed") /\ got = 0) \/ Moves(c, "more") \/ Moves(c, "static")
      BY <2>1, ParsedStep DEF ReadFirst
    <3> DEFINE l == [local[c] EXCEPT !.got = got, !.first = got]
    <3>2. On(l, LocalField) /\ l.bypass = local[c].bypass /\ l.mount = local[c].mount /\ l.got = got
      <4>1. On(local[c], LocalField)  BY <1>0 DEF Typed
      <4>2. {"bypass", "mount"} \subseteq LocalField \ {"got", "first"} /\ "got" \in LocalField
        BY DEF LocalField
      <4> QED  BY <4>1, <4>2 DEF On
    <3>3. local' = [local EXCEPT ![c] = l]  BY <3>1 DEF Sets
    <3> HIDE DEF l
    <3> QED  BY <3>1, <3>2, <3>3 DEF Moves, Goto
  <2>2. ASSUME ReadMore(c)
        PROVE  \E place, new :
                 /\ place \in {"more", "static"} /\ pc' = [pc EXCEPT ![c] = place]
                 /\ local' = [local EXCEPT ![c] = new] /\ On(new, LocalField)
                 /\ new.bypass = local[c].bypass /\ new.mount = local[c].mount
    <3>1. /\ \/ \E got : Sets(c, [local[c] EXCEPT !.got = got])
             \/ Sets(c, [local[c] EXCEPT !.ended = TRUE])
          /\ Moves(c, "more") \/ Moves(c, "static")
      BY <2>2, ParsedStep DEF ReadMore
    <3>2. PICK l : /\ local' = [local EXCEPT ![c] = l]
                   /\ On(l, LocalField) /\ l.bypass = local[c].bypass /\ l.mount = local[c].mount
      BY <1>0, <3>1 DEF Typed, On, LocalField, Sets
    <3> QED  BY <3>1, <3>2 DEF Moves, Goto
  <2> QED  BY <2>1, <2>2
<1>3. PICK request : req' = [req EXCEPT ![c] = request]
  BY <1>0, Unwritten, ParsedStep DEF ReadFirst, ReadMore
<1>4. local[c].mount = 0 /\ Len(answer[c]) = 0
  BY <1>0, <1>1 DEF BypassInv, NotBypassed, AnswerInv, Answered
<1>5. Step(c, place, new, request, answer[c])
  BY <1>0, <1>1, <1>2, <1>3, Unwritten DEF Step, ConfigurationUnchanged, listenVars, Typed
<1>6. Answered(place, new, answer[c]) /\ NotBypassed(place, new, request)
  BY <1>2, <1>4 DEF Answered, NotBypassed, FilePlace
<1>7. Borrows(c, place, new)
  BY <1>1, <1>2 DEF Borrows, BorrowPlace
<1>8. Files(c, place)  BY <1>1, <1>2, LeavesFiles DEF Place, Deleting
<1>9. pc[c] \in Serving /\ place \in Place \ {"idle"}
  BY <1>1, <1>2 DEF Serving, Place
<1> QED  BY <1>0, <1>2, <1>5, <1>6, <1>7, <1>8, <1>9, ConnectionStep, Unwritten

\* Looking up a file.
LEMMA AboveUnbypassed ==
  ASSUME ConnectionsInv, NEW c \in Client, pc[c] \in Serving, c \notin orphans,
         ~Bypassed(req[c].path)
  PROVE  Above(local[c], req[c])
<1>1. local[c].bypass \subseteq ToSet(server.bypass) /\ IsSeq(server.bypass)
  BY DEF ConnectionsInv, Typed, BypassInv
<1>2. ToSet(server.bypass) = {server.bypass[i] : i \in 1 .. Len(server.bypass)}
  BY <1>1, SeqFacts DEF ToSet
<1> QED  BY <1>1, <1>2 DEF Above, Bypassed

LEMMA SaveStep ==
  ASSUME ConnectionsInv, Overlaps, NEW c \in Client, pc[c] \in {"static", "again", "noRoute"},
         c \notin orphans, NEW l, On(l, LocalField), l.bypass = local[c].bypass,
         Above(local[c], req[c]), SaveRoot(c, l, "set")
  PROVE  ConnectionsInv'
<1> DEFINE new == [l EXCEPT !.saved = staticRoot]
<1>0. Typed /\ AnswerInv  BY DEF ConnectionsInv
<1>1. On(new, LocalField) /\ new.bypass = local[c].bypass /\ new.saved = staticRoot
  BY DEF On, LocalField
<1>2. UNCHANGED workspaceVars /\ staticRoot' = staticRoot /\ local' = [local EXCEPT ![c] = new]
  BY DEF SaveRoot, Moves, Sets
<1> HIDE DEF new
<1>3. Step(c, "set", new, req[c], answer[c])
  BY <1>0, <1>2, Unwritten
     DEF Step, SaveRoot, Moves, Goto, ConfigurationUnchanged, listenVars, Typed
<1>4. Answered("set", new, answer[c])
  BY <1>0 DEF AnswerInv, Answered
<1>5. NotBypassed("set", new, req[c])  BY <1>1 DEF NotBypassed, Above
<1>6. Borrows(c, "set", new)  BY <1>1 DEF Borrows, BorrowPlace
<1>7. Files(c, "set")  BY <1>2, LeavesFiles DEF Place, FilePlace, Deleting
<1>8. pc[c] \in Serving /\ "set" \in Place \ {"idle"}  BY DEF Serving, Place, FilePlace
<1> QED  BY <1>0, <1>1, <1>3, <1>4, <1>5, <1>6, <1>7, <1>8, ConnectionStep, Unwritten

\* A step that only moves the connection, and maybe fills its response.
LEMMA MoveStep ==
  ASSUME ConnectionsInv, Overlaps, NEW c \in Client, pc[c] \in Serving,
         NEW place \in Place \ ({"idle"} \cup Deleting), Moves(c, place),
         UNCHANGED <<local, req, answer>>, On(res', Client),
         Answered(place, local[c], answer[c]), NotBypassed(place, local[c], req[c]),
         Borrows(c, place, local[c])
  PROVE  ConnectionsInv'
<1>0. Typed  BY DEF ConnectionsInv
<1>1. UNCHANGED workspaceVars  BY DEF Moves
<1>2. Step(c, place, local[c], req[c], answer[c])
  BY <1>0, Unwritten DEF Step, Moves, Goto, ConfigurationUnchanged, listenVars
<1>3. Files(c, place)  BY <1>1, LeavesFiles
<1> QED  BY <1>0, <1>2, <1>3, ConnectionStep, Unwritten

LEMMA TryMountStep ==
  ASSUME ConnectionsInv, Overlaps, NEW c \in Client, TryMount(c)
  PROVE  ConnectionsInv'
<1>0. Typed /\ AnswerInv /\ BypassInv  BY DEF ConnectionsInv
<1>1. pc[c] = "static" /\ c \notin orphans /\ pc[c] \in Serving
  BY DEF TryMount, At, Serving, Place
<1>2. CASE Moves(c, "route") /\ Stays(c) /\ UNCHANGED local
  <2>1. Answered("route", local[c], answer[c])
    BY <1>0, <1>1 DEF AnswerInv, Answered
  <2>2. NotBypassed("route", local[c], req[c])  BY DEF NotBypassed, FilePlace
  <2>3. Borrows(c, "route", local[c])  BY <1>1, <1>2 DEF Borrows, BorrowPlace, Stays
  <2>4. On(res', Client)  BY <1>0, <1>2 DEF Typed, Stays
  <2> QED  BY <1>1, <1>2, <2>1, <2>2, <2>3, <2>4, MoveStep DEF Stays, Place, Deleting
<1>3. CASE ~(Moves(c, "route") /\ Stays(c) /\ UNCHANGED local)
  <2>1. local[c].mount # 0 \/ ~Bypassed(req[c].path)
    BY <1>3 DEF TryMount
  <2>2. Above(local[c], req[c])
    BY <1>0, <1>1, <2>1, AboveUnbypassed DEF BypassInv, NotBypassed
  <2>3. PICK next, file :
          SaveRoot(c, [local[c] EXCEPT !.mount = next, !.moves = server.moves, !.spa = FALSE,
                                       !.file = file], "set")
    BY <1>3 DEF TryMount
  <2> DEFINE l == [local[c] EXCEPT !.mount = next, !.moves = server.moves, !.spa = FALSE, !.file = file]
  <2>4. On(l, LocalField) /\ l.bypass = local[c].bypass
    BY <1>0 DEF Typed, On, LocalField
  <2> HIDE DEF l
  <2> QED  BY <1>1, <2>2, <2>3, <2>4, SaveStep DEF l
<1> QED  BY <1>2, <1>3

LEMMA TryIndexStep ==
  ASSUME ConnectionsInv, Overlaps, NEW c \in Client, TryIndex(c)
  PROVE  ConnectionsInv'
<1>0. Typed /\ BypassInv  BY DEF ConnectionsInv
<1>1. pc[c] = "again" /\ c \notin orphans  BY DEF TryIndex, At
<1>2. Above(local[c], req[c])  BY <1>0, <1>1 DEF BypassInv, NotBypassed, FilePlace
<1> DEFINE l == [local[c] EXCEPT !.spa = TRUE, !.file = <<Index>>]
<1>3. On(l, LocalField) /\ l.bypass = local[c].bypass  BY <1>0 DEF Typed, On, LocalField
<1>4. SaveRoot(c, l, "set")  BY DEF TryIndex
<1> HIDE DEF l
<1> QED  BY <1>1, <1>2, <1>3, <1>4, SaveStep

LEMMA NoRouteStep ==
  ASSUME ConnectionsInv, Overlaps, NEW c \in Client, NoRoute(c)
  PROVE  ConnectionsInv'
<1>0. Typed /\ AnswerInv  BY DEF ConnectionsInv
<1>1. pc[c] = "noRoute" /\ c \notin orphans /\ pc[c] \in Serving
  BY DEF NoRoute, At, Serving, Place
<1>2. CASE Moves(c, "notFound") /\ Stays(c) /\ UNCHANGED local
  <2>1. Answered("notFound", local[c], answer[c])
    BY <1>0, <1>1 DEF AnswerInv, Answered
  <2>2. NotBypassed("notFound", local[c], req[c])  BY DEF NotBypassed, FilePlace
  <2>3. Borrows(c, "notFound", local[c])  BY <1>1, <1>2 DEF Borrows, BorrowPlace, Stays
  <2>4. On(res', Client)  BY <1>0, <1>2 DEF Typed, Stays
  <2> QED  BY <1>1, <1>2, <2>1, <2>2, <2>3, <2>4, MoveStep DEF Stays, Place, Deleting
<1>3. CASE ~(Moves(c, "notFound") /\ Stays(c) /\ UNCHANGED local)
  <2>1. ~Bypassed(req[c].path)  BY <1>3 DEF NoRoute
  <2>2. Above(local[c], req[c])  BY <1>1, <2>1, AboveUnbypassed
  <2>3. PICK file : SaveRoot(c, [local[c] EXCEPT !.fallback = TRUE, !.file = file], "set")
    BY <1>3 DEF NoRoute
  <2> DEFINE l == [local[c] EXCEPT !.fallback = TRUE, !.file = file]
  <2>4. On(l, LocalField) /\ l.bypass = local[c].bypass
    BY <1>0 DEF Typed, On, LocalField
  <2> HIDE DEF l
  <2> QED  BY <1>1, <2>2, <2>3, <2>4, SaveStep DEF l
<1> QED  BY <1>2, <1>3

LEMMA SetRootStep ==
  ASSUME ConnectionsInv, Overlaps, NEW c \in Client, SetRoot(c)
  PROVE  ConnectionsInv'
<1>0. Typed /\ AnswerInv /\ BypassInv  BY DEF ConnectionsInv
<1>1. pc[c] = "set" /\ pc[c] \in Serving  BY DEF SetRoot, At, Serving, Place, FilePlace
<1>2. Moves(c, "open") /\ UNCHANGED <<local, req, res, answer>>  BY DEF SetRoot
<1>3. Answered("open", local[c], answer[c])  BY <1>0, <1>1 DEF AnswerInv, Answered
<1>4. NotBypassed("open", local[c], req[c])
  BY <1>0, <1>1 DEF BypassInv, NotBypassed, FilePlace
<1>5. Borrows(c, "open", local[c])  BY <1>1 DEF Borrows, BorrowPlace, SetRoot
<1>6. On(res', Client)  BY <1>0, <1>2 DEF Typed
<1> QED  BY <1>1, <1>2, <1>3, <1>4, <1>5, <1>6, MoveStep DEF Place, FilePlace, Deleting

LEMMA OpenFileStep ==
  ASSUME ConnectionsInv, Overlaps, NEW c \in Client, OpenFile(c)
  PROVE  ConnectionsInv'
<1>0. Typed /\ AnswerInv /\ BypassInv  BY DEF ConnectionsInv
<1>1. pc[c] = "open" /\ pc[c] \in Serving  BY DEF OpenFile, At, Serving, Place, FilePlace
<1> DEFINE full == FullPath(local[c].file)
           found == IsSafePath(local[c].file) /\ IsFile(full)
           place == IF found THEN "send" ELSE "restore"
           new == [local[c] EXCEPT !.served = found, !.full = full,
                                   !.size = IF found THEN files[full] ELSE 0]
<1>2. pc' = [pc EXCEPT ![c] = place] /\ local' = [local EXCEPT ![c] = new]
  BY DEF OpenFile, Moves, Goto, Sets
<1>3. /\ On(new, LocalField) /\ new.bypass = local[c].bypass /\ new.saved = local[c].saved
      /\ place = IF new.served THEN "send" ELSE "restore"
  <2>1. found \in BOOLEAN  BY DEF IsSafePath, IsFile, Exists
  <2>2. On(local[c], LocalField)  BY <1>0 DEF Typed
  <2>3. /\ {"bypass", "saved"} \subseteq LocalField \ {"served", "full", "size"}
        /\ "served" \in LocalField
    BY DEF LocalField
  <2> HIDE DEF found, full
  <2> QED  BY <2>1, <2>2, <2>3 DEF On
<1> HIDE DEF place, new
<1>4. ConfigurationUnchanged /\ Stays(c) /\ UNCHANGED workspaceVars
  BY DEF OpenFile, Moves
<1>5. Step(c, place, new, req[c], answer[c])
  BY <1>0, <1>2, <1>4, Unwritten DEF Step, Stays, ConfigurationUnchanged, listenVars, Typed
<1>6. Answered(place, new, answer[c])
  BY <1>0, <1>1, <1>3 DEF AnswerInv, Answered
<1>7. NotBypassed(place, new, req[c])
  BY <1>0, <1>1, <1>3 DEF BypassInv, NotBypassed, FilePlace, Above
<1>8. Borrows(c, place, new)  BY <1>1, <1>3, <1>4 DEF Borrows, BorrowPlace, Stays
<1>9. place \in Place \ ({"idle"} \cup Deleting)  BY <1>3 DEF Place, FilePlace, Deleting
<1>10. Files(c, place)  BY <1>4, <1>9, LeavesFiles
<1> QED  BY <1>0, <1>1, <1>3, <1>5, <1>6, <1>7, <1>8, <1>9, <1>10, ConnectionStep, Unwritten

LEMMA SendFileStep ==
  ASSUME ConnectionsInv, Overlaps, NEW c \in Client, SendFile(c)
  PROVE  ConnectionsInv'
<1>0. Typed /\ AnswerInv /\ BypassInv  BY DEF ConnectionsInv
<1>1. pc[c] = "send" /\ pc[c] \in Serving  BY DEF SendFile, At, Serving, Place, FilePlace
<1>2. PICK file : answer' = [answer EXCEPT ![c] = Append(answer[c], file)]
  BY DEF SendFile
<1>3. Moves(c, "restore") /\ UNCHANGED <<local, staticRoot, req, res>>  BY DEF SendFile
<1> DEFINE sent == Append(answer[c], file)
<1>4. IsSeq(sent) /\ Len(sent) = 1
  BY <1>0, <1>1, AppendIsSeq DEF Typed, AnswerInv, Answered
<1>5. Step(c, "restore", local[c], req[c], sent)
  BY <1>0, <1>2, <1>3, Unwritten DEF Step, Moves, Goto, ConfigurationUnchanged, listenVars, Typed
<1>6. Answered("restore", local[c], sent)
  BY <1>0, <1>1, <1>4 DEF AnswerInv, Answered
<1>7. NotBypassed("restore", local[c], req[c])
  BY <1>0, <1>1 DEF BypassInv, NotBypassed, FilePlace
<1>8. Borrows(c, "restore", local[c])  BY <1>1 DEF Borrows, BorrowPlace, SendFile
<1>9. Files(c, "restore")  BY <1>3, LeavesFiles DEF Moves, Place, FilePlace, Deleting
<1> HIDE DEF sent
<1> QED  BY <1>0, <1>1, <1>4, <1>5, <1>6, <1>7, <1>8, <1>9, ConnectionStep, Unwritten
         DEF Place, FilePlace

LEMMA RestoreRootStep ==
  ASSUME ConnectionsInv, Overlaps, NEW c \in Client, RestoreRoot(c)
  PROVE  ConnectionsInv'
<1>0. Typed /\ AnswerInv /\ BypassInv  BY DEF ConnectionsInv
<1>1. pc[c] = "restore" /\ pc[c] \in Serving /\ c \notin orphans
  BY DEF RestoreRoot, At, Serving, Place, FilePlace
<1>2. staticRoot' = local[c].saved /\ Moves(c, AfterFile(c)) /\ UNCHANGED answer
  BY DEF RestoreRoot, Restored
<1>3. Len(answer[c]) = (IF local[c].served THEN 1 ELSE 0) /\ NotBypassed("restore", local[c], req[c])
  BY <1>0, <1>1 DEF AnswerInv, Answered, BypassInv
<1>4. CASE local[c].served
  <2>1. AfterFile(c) = "closed"  BY <1>4 DEF AfterFile
  <2>2. Ends(c)  BY <2>1 DEF RestoreRoot
  <2> DEFINE new == [NoLocal EXCEPT !.got = local[c].got]
  <2>3. Step(c, "closed", new, NoRequest, answer[c])
    BY <1>0, <1>2, <2>1, <2>2, EndsStep, Unwritten
       DEF Step, Moves, Goto, ConfigurationUnchanged, listenVars
  <2>4. On(new, LocalField) /\ new.bypass \subseteq local[c].bypass
    BY <1>0, <2>2, EndsStep
  <2> HIDE DEF new
  <2>5. Answered("closed", new, answer[c])  BY <1>3, <1>4 DEF Answered
  <2>6. NotBypassed("closed", new, NoRequest)  BY DEF NotBypassed, FilePlace
  <2>7. Borrows(c, "closed", new)  BY <1>1, <1>2 DEF Borrows, BorrowPlace
  <2>8. Files(c, "closed")  BY <1>2, LeavesFiles DEF Moves, Place, Deleting
  <2> QED  BY <1>0, <1>1, <2>3, <2>4, <2>5, <2>6, <2>7, <2>8, ConnectionStep, Unwritten DEF Place
<1>5. CASE ~local[c].served
  <2>1. AfterFile(c) \in {"again", "notFound", "static"}  BY <1>5 DEF AfterFile
  <2>2. UNCHANGED <<local, req, res>>  BY <2>1 DEF RestoreRoot
  <2>3. Answered(AfterFile(c), local[c], answer[c])  BY <1>3, <1>5, <2>1 DEF Answered
  <2>4. NotBypassed(AfterFile(c), local[c], req[c])
    BY <1>3, <2>1 DEF NotBypassed, FilePlace
  <2>5. Borrows(c, AfterFile(c), local[c])  BY <1>1, <1>2, <2>1 DEF Borrows, BorrowPlace
  <2>6. On(res', Client)  BY <1>0, <2>2 DEF Typed
  <2>7. AfterFile(c) \in Place \ ({"idle"} \cup Deleting)  BY <2>1 DEF Place, FilePlace, Deleting
  <2> QED  BY <1>1, <1>2, <2>2, <2>3, <2>4, <2>5, <2>6, <2>7, MoveStep
<1> QED  BY <1>4, <1>5

\* The route that fits, if any, and its answer.
LEMMA RouteStep ==
  ASSUME ConnectionsInv, Overlaps, NEW c \in Client, Route(c)
  PROVE  ConnectionsInv'
<1>0. Typed /\ AnswerInv  BY DEF ConnectionsInv
<1>1. pc[c] = "route" /\ pc[c] \in Serving  BY DEF Route, At, Serving, Place
<1>2. PICK params, fit : Sets(c, [local[c] EXCEPT !.params = params, !.route = fit])
  BY DEF Route
<1>3. PICK place \in {"noRoute", "legacy", "fallback", "handler"} : Moves(c, place)
  BY DEF Route
<1>4. UNCHANGED <<staticRoot, req, res, answer>>  BY DEF Route
<1> DEFINE new == [local[c] EXCEPT !.params = params, !.route = fit]
<1>5. On(new, LocalField) /\ new.bypass = local[c].bypass
  BY <1>0 DEF Typed, On, LocalField
<1>6. local' = [local EXCEPT ![c] = new]  BY <1>2 DEF Sets
<1> HIDE DEF new
<1>7. Step(c, place, new, req[c], answer[c])
  BY <1>0, <1>3, <1>4, <1>6, Unwritten DEF Step, Moves, Goto, ConfigurationUnchanged, listenVars, Typed
<1>8. Answered(place, new, answer[c])  BY <1>0, <1>1 DEF AnswerInv, Answered
<1>9. NotBypassed(place, new, req[c])  BY DEF NotBypassed, FilePlace
<1>10. Borrows(c, place, new)  BY <1>1, <1>4 DEF Borrows, BorrowPlace
<1>11. place \in Place \ ({"idle"} \cup Deleting)  BY DEF Place, Deleting
<1>12. Files(c, place)  BY <1>3, <1>11, LeavesFiles DEF Moves
<1> QED  BY <1>0, <1>1, <1>5, <1>7, <1>8, <1>9, <1>10, <1>11, <1>12, ConnectionStep, Unwritten

LEMMA SendsStep ==
  ASSUME ConnectionsInv, Overlaps, NEW c \in Client, Legacy(c) \/ Build(c) \/ NotFoundAnswer(c)
  PROVE  ConnectionsInv'
<1>0. Typed /\ AnswerInv  BY DEF ConnectionsInv
<1>1. pc[c] \in {"legacy", "built", "notFound"} /\ pc[c] \in Serving
  BY DEF Legacy, Build, NotFoundAnswer, At, Serving, Place
<1>2. PICK status, promised, bytes : Sends(c, status, promised, bytes)
  BY DEF Legacy, Build, NotFoundAnswer
<1>10. PICK a : answer' = [answer EXCEPT ![c] = Append(answer[c], a)]
  BY <1>2 DEF Sends
<1>3. Moves(c, "closed") /\ Ends(c) /\ staticRoot' = staticRoot  BY <1>2 DEF Sends
<1> DEFINE sent == Append(answer[c], a)
           new == [NoLocal EXCEPT !.got = local[c].got]
<1>4. IsSeq(sent) /\ Len(sent) = 1
  BY <1>0, <1>1, AppendIsSeq DEF Typed, AnswerInv, Answered
<1>5. Step(c, "closed", new, NoRequest, sent)
  BY <1>0, <1>10, <1>3, EndsStep DEF Step, Moves, Goto, ConfigurationUnchanged, listenVars
<1>6. On(new, LocalField) /\ new.bypass \subseteq local[c].bypass
  BY <1>0, <1>3, EndsStep
<1> HIDE DEF new, sent
<1>7. Answered("closed", new, sent)  BY <1>4 DEF Answered
<1>8. NotBypassed("closed", new, NoRequest)  BY DEF NotBypassed, FilePlace
<1>9. Borrows(c, "closed", new)  BY <1>1, <1>3 DEF Borrows, BorrowPlace
<1>11. Files(c, "closed")  BY <1>3, LeavesFiles DEF Moves, Place, Deleting
<1> QED  BY <1>1, <1>4, <1>5, <1>6, <1>7, <1>8, <1>9, <1>11, ConnectionStep DEF Place

LEMMA HandlerStep ==
  ASSUME ConnectionsInv, Overlaps, NEW c \in Client, HandlerReturns(c)
  PROVE  ConnectionsInv'
<1>0. Typed /\ AnswerInv  BY DEF ConnectionsInv
<1>1. pc[c] = "handler" /\ pc[c] \in Serving  BY DEF HandlerReturns, At, Serving, Place
<1>2. PICK place \in {"built", "fallback"} : Moves(c, place)  BY DEF HandlerReturns
<1>3. UNCHANGED <<local, staticRoot, req, answer>> /\ On(res', Client)
  BY <1>0 DEF HandlerReturns, Typed, On
<1>4. Answered(place, local[c], answer[c])  BY <1>0, <1>1 DEF AnswerInv, Answered
<1>5. NotBypassed(place, local[c], req[c])  BY DEF NotBypassed, FilePlace
<1>6. Borrows(c, place, local[c])  BY <1>1, <1>3 DEF Borrows, BorrowPlace
<1> QED  BY <1>1, <1>2, <1>3, <1>4, <1>5, <1>6, MoveStep DEF Place, Deleting

LEMMA LostStep ==
  ASSUME ConnectionsInv, Overlaps, NEW c \in Client, Lost(c)
  PROVE  ConnectionsInv'
<1>0. Typed /\ AnswerInv  BY DEF ConnectionsInv
<1>1. pc[c] \in Serving  BY DEF Lost, InChange, ChecksBypass, At, Serving, Place, FilePlace
<1>2. Moves(c, "undefined") /\ UNCHANGED <<local, req, res, answer>>  BY DEF Lost, Stays
<1>3. Answered("undefined", local[c], answer[c])
  BY <1>0 DEF AnswerInv, Answered
<1>4. NotBypassed("undefined", local[c], req[c])  BY DEF NotBypassed, FilePlace
<1>5. Borrows(c, "undefined", local[c])  BY DEF Borrows, BorrowPlace, Lost, Stays
<1>6. On(res', Client)  BY <1>0, <1>2 DEF Typed
<1> QED  BY <1>1, <1>2, <1>3, <1>4, <1>5, <1>6, MoveStep DEF Place, Deleting

-----------------------------------------------------------------------------
(* The endpoints *)

\* A finite set of files.
FileSystem(f) == IsFiniteSet(DOMAIN f) /\ On(f, DOMAIN f)

LEMMA WithFile ==
  ASSUME TodoInv, NEW path, NEW content
  PROVE  FileSystem(FilesWith(path, content))
<1>1. IsFiniteSet(DOMAIN files \cup {path})  BY FS_AddElement DEF TodoInv
<1> QED  BY <1>1 DEF FilesWith, FileSystem, On

LEMMA MadeDirectory ==
  ASSUME TodoInv, NEW path
  PROVE  FileSystem(AfterMkdir(path))
  BY WithFile DEF TodoInv, AfterMkdir, FileSystem

LEMMA Removed ==
  ASSUME TodoInv, NEW path, RemoveFile(path)
  PROVE  FileSystem(files')
<1>1. IsFiniteSet(DOMAIN files \ {path})  BY FS_Subset DEF TodoInv
<1> QED  BY <1>1 DEF RemoveFile, FileSystem, On

LEMMA Renamed ==
  ASSUME TodoInv, NEW old, NEW new, Exists(old), Rename(old, new)
  PROVE  FileSystem(files')
<1> DEFINE moved == {old} \cup Below(old)
           image == [p \in moved |-> new \o SubSeq(p, Len(old) + 1, Len(p))]
           images == {image[p] : p \in moved}
           kept == DOMAIN files \ moved
<1>1. moved \subseteq DOMAIN files  BY DEF Exists, Below
<1>2. IsFiniteSet(moved) /\ IsFiniteSet(kept)  BY <1>1, FS_Subset DEF TodoInv
<1>3. image \in Surjection(moved, images)  BY DEF Surjection
<1>4. IsFiniteSet(images)
  <2> HIDE DEF moved, image, images
  <2> QED  BY <1>2, <1>3, FS_Surjection
<1>5. IsFiniteSet(images \cup kept)
  <2> HIDE DEF moved, images, kept
  <2> QED  BY <1>2, <1>4, FS_Union
<1>6. images = {new \o SubSeq(p, Len(old) + 1, Len(p)) : p \in moved}  OBVIOUS
<1> DEFINE there == {new \o SubSeq(p, Len(old) + 1, Len(p)) : p \in moved}
           source(p) == CHOOSE q \in moved : new \o SubSeq(q, Len(old) + 1, Len(q)) = p
<1>7. DOMAIN files' = images \cup kept /\ On(files', images \cup kept)
  <2>1. files' = [p \in there \cup kept |-> IF p \in there THEN files[source(p)] ELSE files[p]]
    BY DEF Rename
  <2> HIDE DEF there, source, kept
  <2>2. DOMAIN files' = there \cup kept /\ On(files', there \cup kept)  BY <2>1 DEF On
  <2> QED  BY <1>6, <2>2 DEF there
<1> QED  BY <1>5, <1>7 DEF FileSystem

\* A step of an endpoint.
EndpointFrame(c, place) ==
  /\ pc' = [pc EXCEPT ![c] = place] /\ On(res', Client)
  /\ UNCHANGED <<req, local, answer, staticRoot, server, script, listener, orphans>>

LEMMA EndpointStep ==
  ASSUME ConnectionsInv, Overlaps, NEW c \in Client, pc[c] \in EndpointPlace \cup {"fallback"},
         NEW place \in EndpointPlace \cup {"built"}, EndpointFrame(c, place), Files(c, place)
  PROVE  ConnectionsInv'
<1>0. Typed /\ AnswerInv  BY DEF ConnectionsInv
<1>1. Step(c, place, local[c], req[c], answer[c])
  BY <1>0, Unwritten DEF Step, EndpointFrame
<1>2. Answered(place, local[c], answer[c])
  BY <1>0 DEF AnswerInv, Answered, EndpointPlace
<1>3. NotBypassed(place, local[c], req[c])  BY DEF NotBypassed, FilePlace, EndpointPlace
<1>4. Borrows(c, place, local[c])
  BY DEF Borrows, BorrowPlace, EndpointPlace, EndpointFrame
<1>5. pc[c] \in Serving /\ place \in Place \ {"idle"}
  BY DEF Serving, Place, EndpointPlace
<1> QED  BY <1>0, <1>1, <1>2, <1>3, <1>4, <1>5, ConnectionStep, Unwritten

\* What an endpoint leaves to the rest of the server.
Around == ConfigurationUnchanged /\ UNCHANGED <<staticRoot, local, answer>>

LEMMA WorksStep ==
  ASSUME ConnectionsInv, Overlaps, Around, NEW c \in Client,
         pc[c] \in EndpointPlace \cup {"fallback"}, NEW place \in EndpointPlace, NEW j,
         Todo(place, j), Works(c, place, j), FileSystem(files')
  PROVE  ConnectionsInv'
<1>0. Typed  BY DEF ConnectionsInv
<1>1. EndpointFrame(c, place)
  BY <1>0 DEF EndpointFrame, Works, Goto, Around, ConfigurationUnchanged, listenVars, Typed
<1>2. On(job', Client) /\ \A d \in Client : job'[d] = IF d = c THEN j ELSE job[d]
  BY <1>0 DEF Works, Typed, On
<1>3. Files(c, place)  BY <1>2 DEF Files, FileSystem
<1> QED  BY <1>1, <1>3, EndpointStep

LEMMA RespondsStep ==
  ASSUME ConnectionsInv, Overlaps, Around, NEW c \in Client,
         pc[c] \in EndpointPlace \cup {"fallback"}, NEW status, NEW size,
         Responds(c, status, size), FileSystem(files')
  PROVE  ConnectionsInv'
<1>0. Typed  BY DEF ConnectionsInv
<1>1. EndpointFrame(c, "built")
  BY <1>0 DEF EndpointFrame, Responds, Answers, Goto, Around, ConfigurationUnchanged, listenVars,
              Typed, On
<1>2. On(job', Client) /\ \A d \in Client : job'[d] = IF d = c THEN Idle ELSE job[d]
  BY <1>0 DEF Responds, Typed, On
<1>3. Files(c, "built")  BY <1>2 DEF Files, FileSystem, Todo, Deleting
<1> QED  BY <1>1, <1>3, EndpointStep

LEMMA RefusesStep ==
  ASSUME ConnectionsInv, Overlaps, Around, NEW c \in Client,
         pc[c] \in EndpointPlace \cup {"fallback"}, NEW status, Refuses(c, status)
  PROVE  ConnectionsInv'
<1>1. Responds(c, status, 0) /\ UNCHANGED files  BY DEF Refuses
<1>2. FileSystem(files')  BY <1>1 DEF ConnectionsInv, TodoInv, FileSystem
<1> QED  BY <1>1, <1>2, RespondsStep

LEMMA BeginsRootStep ==
  ASSUME ConnectionsInv, Overlaps, Around, NEW c \in Client,
         pc[c] \in EndpointPlace \cup {"fallback"}, NEW place \in {"ensuring", "switching"},
         BeginsRoot(c, place)
  PROVE  ConnectionsInv'
<1>0. Typed /\ TodoInv  BY DEF ConnectionsInv
<1>1. EndpointFrame(c, place)
  BY <1>0 DEF EndpointFrame, BeginsRoot, Goto, Around, ConfigurationUnchanged, listenVars, Typed
<1>2. On(job', Client)  BY DEF BeginsRoot, On
<1>3. ASSUME NEW d \in Client, d # c, pc[d] \in Deleting
      PROVE  job'[d] = job[d]
  <2>1. d \notin Writers  BY <1>3 DEF Writers, Deleting
  <2> QED  BY <1>3, <2>1 DEF BeginsRoot
<1>4. FileSystem(files')  BY <1>0 DEF BeginsRoot, TodoInv, FileSystem
<1>5. Files(c, place)  BY <1>2, <1>3, <1>4 DEF Files, FileSystem, Todo, Deleting
<1> QED  BY <1>1, <1>5, EndpointStep DEF EndpointPlace

\* Nothing of the endpoints' variables.
LEMMA PlainStep ==
  ASSUME ConnectionsInv, Overlaps, Around, NEW c \in Client,
         OptionsEndpoint(c) \/ UnknownEndpoint(c)
  PROVE  ConnectionsInv'
<1>0. Typed  BY DEF ConnectionsInv
<1>1. EndpointFrame(c, "built") /\ pc[c] = "fallback" /\ UNCHANGED workspaceVars
  BY <1>0 DEF EndpointFrame, OptionsEndpoint, UnknownEndpoint, Goto, At, Around,
              ConfigurationUnchanged, listenVars, Typed, On
<1>2. Files(c, "built")  BY <1>1, LeavesFiles DEF Place, Deleting
<1> QED  BY <1>1, <1>2, EndpointStep

LEMMA RootStep ==
  ASSUME ConnectionsInv, Overlaps, Around, NEW c \in Client,
         \/ GenerateEndpoint(c) \/ EnsureRoot(c) \/ EnsureWritten(c) \/ EnsureMade(c)
         \/ SwitchMake(c) \/ SwitchBegin(c) \/ SwitchEnd(c)
  PROVE  ConnectionsInv'
<1>0. TodoInv /\ FileSystem(files)  BY DEF ConnectionsInv, TodoInv, FileSystem
<1>1. CASE GenerateEndpoint(c)
  BY <1>1, RefusesStep DEF GenerateEndpoint, At
<1>2. CASE EnsureRoot(c)
  <2>1. pc[c] = "fallback"  BY <1>2 DEF EnsureRoot, At
  <2>2. CASE BeginsRoot(c, "ensuring")  BY <2>1, <2>2, BeginsRootStep
  <2>3. CASE Works(c, "endpoint", Idle) /\ UNCHANGED <<files, workspaceRoot>>
    BY <1>0, <2>1, <2>3, WorksStep DEF Todo, EndpointPlace, Deleting
  <2> QED  BY <1>2, <2>2, <2>3 DEF EnsureRoot
<1>3. CASE EnsureWritten(c)
  BY <1>0, <1>3, WorksStep DEF EnsureWritten, At, Todo, EndpointPlace, Deleting
<1>4. CASE EnsureMade(c)
  BY <1>0, <1>4, WorksStep, MadeDirectory DEF EnsureMade, At, Todo, EndpointPlace, Deleting
<1>5. CASE SwitchMake(c)
  BY <1>0, <1>5, WorksStep, MadeDirectory DEF SwitchMake, At, Todo, EndpointPlace, Deleting
<1>6. CASE SwitchBegin(c)
  BY <1>6, BeginsRootStep DEF SwitchBegin, At, EndpointPlace
<1>7. CASE SwitchEnd(c)
  BY <1>0, <1>7, RespondsStep DEF SwitchEnd, At, EndpointPlace
<1> QED  BY <1>1, <1>2, <1>3, <1>4, <1>5, <1>6, <1>7

LEMMA OneFileStep ==
  ASSUME ConnectionsInv, Overlaps, Around, NEW c \in Client,
         List(c) \/ Read(c) \/ CommandOpen(c) \/ CommandWrite(c) \/ Run(c) \/ RunRefused(c)
  PROVE  ConnectionsInv'
<1>0. TodoInv /\ FileSystem(files)  BY DEF ConnectionsInv, TodoInv, FileSystem
<1>1. CASE List(c)
  BY <1>1, RefusesStep DEF List, At, EndpointPlace
<1>2. CASE Read(c)
  <2>1. pc[c] \in EndpointPlace  BY <1>2 DEF Read, At, EndpointPlace
  <2>2. \/ \E status : Refuses(c, status)
        \/ \E size : Responds(c, 200, size) /\ UNCHANGED <<files, workspaceRoot>>
    BY <1>2 DEF Read
  <2> QED  BY <1>0, <2>1, <2>2, RefusesStep, RespondsStep
<1>3. CASE CommandOpen(c)
  <2>1. pc[c] \in EndpointPlace  BY <1>3 DEF CommandOpen, At, EndpointPlace
  <2>2. \/ \E status : Refuses(c, status)
        \/ \E full : Works(c, "writing", [Idle EXCEPT !.path = full]) /\ files' = FilesWith(full, 0)
    BY <1>3 DEF CommandOpen
  <2>3. ASSUME NEW full, Works(c, "writing", [Idle EXCEPT !.path = full]), files' = FilesWith(full, 0)
        PROVE  ConnectionsInv'
    BY <1>0, <2>1, <2>3, WithFile, WorksStep DEF Todo, EndpointPlace, Deleting
  <2> QED  BY <2>1, <2>2, <2>3, RefusesStep
<1>4. CASE CommandWrite(c)
  <2>1. pc[c] \in EndpointPlace /\ Responds(c, 200, 0)  BY <1>4 DEF CommandWrite, At, EndpointPlace
  <2>2. FileSystem(files')  BY <1>0, <1>4 DEF CommandWrite, FileSystem, On
  <2> QED  BY <2>1, <2>2, RespondsStep
<1>5. CASE Run(c)
  BY <1>5, RefusesStep DEF Run, At, EndpointPlace
<1>6. CASE RunRefused(c)
  BY <1>6, RefusesStep DEF RunRefused, At
<1> QED  BY <1>1, <1>2, <1>3, <1>4, <1>5, <1>6

LEMMA MkdirStep ==
  ASSUME ConnectionsInv, Overlaps, Around, NEW c \in Client,
         MkdirBuild(c) \/ MkdirSplit(c) \/ MkdirNext(c)
  PROVE  ConnectionsInv'
<1>0. TodoInv /\ FileSystem(files)  BY DEF ConnectionsInv, TodoInv, FileSystem
<1>1. CASE MkdirBuild(c)
  <2>1. pc[c] \in EndpointPlace  BY <1>1 DEF MkdirBuild, At, EndpointPlace
  <2>2. \/ Refuses(c, 400)
        \/ \E path : Works(c, "split", [Idle EXCEPT !.path = path]) /\ UNCHANGED <<files, workspaceRoot>>
    BY <1>1 DEF MkdirBuild
  <2>3. ASSUME NEW path, Works(c, "split", [Idle EXCEPT !.path = path]), UNCHANGED files
        PROVE  ConnectionsInv'
    BY <1>0, <2>1, <2>3, WorksStep DEF Todo, EndpointPlace, Deleting
  <2> QED  BY <2>1, <2>2, <2>3, RefusesStep
<1>2. CASE MkdirSplit(c)
  <2>1. pc[c] \in EndpointPlace  BY <1>2 DEF MkdirSplit, At, EndpointPlace
  <2>2. \E j : Works(c, "mkdir", j) /\ UNCHANGED <<files, workspaceRoot>>
    BY <1>2 DEF MkdirSplit
  <2>3. ASSUME NEW j, Works(c, "mkdir", j), UNCHANGED files
        PROVE  ConnectionsInv'
    BY <1>0, <2>1, <2>3, WorksStep DEF Todo, EndpointPlace, Deleting
  <2> QED  BY <2>2, <2>3
<1>3. CASE MkdirNext(c)
  <2>1. pc[c] \in EndpointPlace  BY <1>3 DEF MkdirNext, At, EndpointPlace
  <2>2. FileSystem(files')  BY <1>0, <1>3, MadeDirectory DEF MkdirNext
  <2> DEFINE j == [job[c] EXCEPT !.todo = Tail(@)]
  <2>3. Responds(c, 500, 0) \/ Works(c, "mkdir", j) \/ Responds(c, 200, 0)
    BY <1>3 DEF MkdirNext
  <2>4. ASSUME Works(c, "mkdir", j)
        PROVE  ConnectionsInv'
    BY <2>1, <2>2, <2>4, WorksStep DEF Todo, EndpointPlace, Deleting
  <2> HIDE DEF j
  <2> QED  BY <2>1, <2>2, <2>3, <2>4, RespondsStep
<1> QED  BY <1>1, <1>2, <1>3

LEMMA RenameStep ==
  ASSUME ConnectionsInv, Overlaps, Around, NEW c \in Client, RenameParent(c) \/ RenameFile(c)
  PROVE  ConnectionsInv'
<1>0. Typed /\ TodoInv /\ FileSystem(files)  BY DEF ConnectionsInv, TodoInv, FileSystem
<1>1. CASE RenameParent(c)
  <2>1. pc[c] \in EndpointPlace  BY <1>1 DEF RenameParent, At, EndpointPlace
  <2> DEFINE new == InWorkspace(Given(c, "new"))
             j == [Idle EXCEPT !.path = InWorkspace(Given(c, "old")), !.to = new]
  <2>2. \/ \E status : Responds(c, status, 0) /\ UNCHANGED files
        \/ Works(c, "rename", j) /\ files' = AfterMkdir(Parent(new))
    BY <1>1 DEF RenameParent
  <2> HIDE DEF new, j
  <2>3. CASE Works(c, "rename", j) /\ files' = AfterMkdir(Parent(new))
    BY <1>0, <2>1, <2>3, MadeDirectory, WorksStep DEF Todo, EndpointPlace, Deleting
  <2>4. ASSUME NEW status, Responds(c, status, 0), UNCHANGED files
        PROVE  ConnectionsInv'
    BY <1>0, <2>1, <2>4, RespondsStep
  <2> QED  BY <2>2, <2>3, <2>4
<1>2. CASE RenameFile(c)
  <2> DEFINE old == job[c].path
             new == job[c].to
  <2>1. pc[c] \in EndpointPlace  BY <1>2 DEF RenameFile, At, EndpointPlace
  <2>2. CASE RenameFails(old, new)
    BY <1>0, <1>2, <2>1, <2>2, RespondsStep DEF RenameFile
  <2>3. CASE ~RenameFails(old, new)
    <3>1. Answers(c, 200, 0) /\ Rename(old, new) /\ Exists(old)
      BY <1>2, <2>3 DEF RenameFile, RenameFails
    <3>2. FileSystem(files')  BY <1>0, <3>1, Renamed
    <3>3. On(job', Client)  BY <1>2, <2>3 DEF RenameFile, On
    <3>4. ASSUME NEW d \in Client, d # c, pc[d] \in Deleting
          PROVE  job'[d] = job[d]
      BY <1>2, <2>3, <3>4 DEF RenameFile, At, Deleting
    <3>5. EndpointFrame(c, "built")
      BY <1>0, <3>1 DEF EndpointFrame, Answers, Goto, Around, ConfigurationUnchanged, listenVars, Typed, On
    <3>6. Files(c, "built")  BY <3>2, <3>3, <3>4 DEF Files, FileSystem, Todo, Deleting
    <3> QED  BY <2>1, <3>5, <3>6, EndpointStep
  <2> QED  BY <2>2, <2>3
<1> QED  BY <1>1, <1>2

\* What is at the bottom of the stack of a delete is what it was asked for, and it is
\* taken off last.
LEMMA DeletedStep ==
  ASSUME ConnectionsInv, Overlaps, Around, NEW c \in Client, pc[c] \in Deleting,
         NEW todo, IsSeq(todo), todo # <<>> => \E b \in BOOLEAN : todo[1] = [path |-> job[c].path, processed |-> b],
         NEW failed \in BOOLEAN, Deleted(c, todo, failed), FileSystem(files')
  PROVE  ConnectionsInv'
<1>0. pc[c] \in EndpointPlace /\ On(job[c], JobField) /\ job[c].failed \in BOOLEAN
  BY DEF EndpointPlace, ConnectionsInv, TodoInv, Todo, Deleting
<1>1. CASE failed \/ todo = <<>>
  BY <1>0, <1>1, RespondsStep DEF Deleted
<1>2. CASE ~(failed \/ todo = <<>>)
  <2> DEFINE j == [job[c] EXCEPT !.todo = todo]
  <2>1. Works(c, "delete", j)  BY <1>2 DEF Deleted
  <2>2. On(j, JobField) /\ j.todo = todo /\ j.path = job[c].path /\ j.failed \in BOOLEAN
    BY <1>0 DEF On, JobField
  <2> HIDE DEF j
  <2>3. Todo("delete", j)  BY <1>2, <2>2 DEF Todo, Deleting
  <2> QED  BY <1>0, <2>1, <2>3, WorksStep DEF EndpointPlace
<1> QED  BY <1>1, <1>2

LEMMA DeleteTop ==
  ASSUME TodoInv, NEW c \in Client, pc[c] \in Deleting
  PROVE  LET todo == job[c].todo
         IN  /\ IsSeq(todo) /\ todo # <<>> /\ IsSeq(Front(todo))
             /\ \E b \in BOOLEAN : todo[1] = [path |-> job[c].path, processed |-> b]
             /\ Front(todo) # <<>> => \E b \in BOOLEAN : Front(todo)[1] = [path |-> job[c].path, processed |-> b]
             /\ Front(todo) = <<>> => Last(todo).path = job[c].path
<1> DEFINE todo == job[c].todo
           front == Front(todo)
<1>1. /\ IsSeq(todo) /\ todo # <<>>
      /\ \E b \in BOOLEAN : todo[1] = [path |-> job[c].path, processed |-> b]
  BY DEF TodoInv, Todo
<1> HIDE DEF todo
<1>2. /\ IsSeq(front) /\ Len(front) = Len(todo) - 1 /\ Last(todo) = todo[Len(todo)]
      /\ \A i \in 1 .. Len(todo) - 1 : front[i] = todo[i]
      /\ Len(todo) \in Nat \ {0}
  BY <1>1, FrontIsSeq
<1> HIDE DEF front
<1>3. ASSUME front # <<>>
      PROVE  front[1] = todo[1]
  <2>1. Len(front) # 0  BY <1>2, <1>3, EmptySeq DEF IsSeq
  <2> QED  BY <1>2, <2>1
<1>4. ASSUME front = <<>>
      PROVE  Last(todo) = todo[1]
  <2>1. Len(front) = 0  BY <1>4, EmptyIsSeq
  <2>2. Len(todo) = 1  BY <1>2, <2>1
  <2> QED  BY <1>2, <2>2
<1> QED  BY <1>1, <1>2, <1>3, <1>4 DEF front, todo

LEMMA MarkedEntry ==
  ASSUME NEW path, NEW b, NEW value
  PROVE  [[path |-> path, processed |-> b] EXCEPT !.processed = value] = [path |-> path, processed |-> value]
<1> DEFINE D == {"path", "processed"}
           entry == [path |-> path, processed |-> b]
           marked == [entry EXCEPT !.processed = value]
           other == [path |-> path, processed |-> value]
<1>1. On(entry, D) /\ On(other, D)  BY DEF On
<1>2. On(marked, D)  BY <1>1 DEF On
<1>3. \A d \in D : marked[d] = other[d]  BY <1>1
<1> HIDE DEF marked, other, D
<1> QED  BY <1>1, <1>2, <1>3 DEF On

LEMMA PushedBelow ==
  ASSUME TodoInv, NEW c \in Client, pc[c] \in Deleting, NEW n \in Int
  PROVE  LET pushed == Pushed(job[c].todo, n)
         IN  /\ IsSeq(pushed) /\ pushed # <<>>
             /\ \E b \in BOOLEAN : pushed[1] = [path |-> job[c].path, processed |-> b]
<1> DEFINE todo == job[c].todo
           front == Front(todo)
           top == Last(todo)
           marked == [top EXCEPT !.processed = TRUE]
           lower == Append(front, marked)
           inside == Inside(top.path, n)
<1>1. /\ IsSeq(todo) /\ todo # <<>> /\ IsSeq(front)
      /\ front # <<>> => \E b \in BOOLEAN : front[1] = [path |-> job[c].path, processed |-> b]
      /\ \E b \in BOOLEAN : todo[1] = [path |-> job[c].path, processed |-> b]
  BY DeleteTop
<1>2. front = <<>> => top = todo[1]
  <2>1. Len(front) = Len(todo) - 1 /\ top = todo[Len(todo)] /\ Len(todo) \in Nat \ {0}
    BY <1>1, FrontIsSeq
  <2> HIDE DEF front, top, todo
  <2>2. ASSUME front = <<>>
        PROVE  Len(todo) = 1
    BY <2>1, <2>2, EmptyIsSeq
  <2> QED  BY <2>1, <2>2
<1>3. front = <<>> => marked = [path |-> job[c].path, processed |-> TRUE]
  <2> SUFFICES ASSUME front = <<>>
               PROVE  marked = [path |-> job[c].path, processed |-> TRUE]
    OBVIOUS
  <2> HIDE DEF front, top, todo
  <2>1. PICK b \in BOOLEAN : top = [path |-> job[c].path, processed |-> b]
    BY <1>1, <1>2
  <2>2. marked = [[path |-> job[c].path, processed |-> b] EXCEPT !.processed = TRUE]
    BY <2>1
  <2> HIDE DEF marked
  <2> QED  BY <2>2, MarkedEntry, Zenon
<1>4. IsSeq(inside)
  <2> DEFINE e(i) == [path |-> SetToSeq(Children(top.path))[i], processed |-> FALSE]
             size == IF n < 0 THEN 0 ELSE n
  <2>1. 1 .. n = 1 .. size /\ size \in Nat  OBVIOUS
  <2>2. inside = [i \in 1 .. size |-> e(i)]  BY <2>1 DEF Inside
  <2> HIDE DEF e, size
  <2>3. [i \in 1 .. size |-> e(i)] \in Seq({e(i) : i \in 1 .. size})
    BY <2>1, IsASeq
  <2> QED  BY <2>2, <2>3, SeqIsSeq
<1> HIDE DEF inside, marked, front
<1>5. /\ IsSeq(lower) /\ Len(lower) = Len(front) + 1 /\ Len(front) \in Nat
      /\ \A i \in 1 .. Len(front) : lower[i] = front[i]
      /\ lower[Len(front) + 1] = marked
  BY <1>1, AppendIsSeq, SeqFacts
<1>6. \E b \in BOOLEAN : lower[1] = [path |-> job[c].path, processed |-> b]
  <2>1. CASE front = <<>>
    <3>1. Len(front) = 0  BY <2>1, EmptyIsSeq
    <3>2. lower[1] = marked  BY <1>5, <3>1
    <3>3. lower[1] = [path |-> job[c].path, processed |-> TRUE]  BY <1>3, <2>1, <3>2
    <3> QED  BY <3>3
  <2>2. CASE front # <<>>
    <3>1. Len(front) # 0  BY <1>1, <2>2, EmptySeq DEF IsSeq
    <3>2. lower[1] = front[1]  BY <1>5, <3>1
    <3> QED  BY <1>1, <2>2, <3>2
  <2> QED  BY <2>1, <2>2
<1> HIDE DEF lower
<1> DEFINE pushed == lower \o inside
<1>7. /\ IsSeq(pushed) /\ Len(pushed) = Len(lower) + Len(inside)
      /\ \A i \in 1 .. Len(lower) : pushed[i] = lower[i]
      /\ Len(inside) \in Nat
  BY <1>4, <1>5, ConcatIsSeq, SeqFacts
<1> HIDE DEF pushed
<1>8. pushed[1] = lower[1] /\ pushed # <<>>
  <2>1. 1 \in 1 .. Len(lower) /\ Len(pushed) # 0  BY <1>5, <1>7
  <2> QED  BY <1>7, <2>1, EmptyIsSeq
<1>9. Pushed(todo, n) = pushed
  BY DEF Pushed, pushed, lower, inside, marked, top, front
<1> QED  BY <1>6, <1>7, <1>8, <1>9

LEMMA DeleteStep ==
  ASSUME ConnectionsInv, Overlaps, Around, NEW c \in Client, 
         DeleteLookup(c) \/ DeleteNext(c) \/ DeleteFile(c) \/ DeleteOpen(c) \/ DeleteDirectory(c)
  PROVE  ConnectionsInv'
<1>0. TodoInv /\ FileSystem(files)  BY DEF ConnectionsInv, TodoInv, FileSystem
<1>1. CASE DeleteLookup(c)
  <2>1. pc[c] \in EndpointPlace /\ UNCHANGED files  BY <1>1 DEF DeleteLookup, At, EndpointPlace
  <2> DEFINE full == InWorkspace(Given(c, "path"))
             bottom == [path |-> full, processed |-> FALSE]
             j == [Idle EXCEPT !.path = full, !.todo = <<bottom>>]
  <2>2. Responds(c, 400, 0) \/ Responds(c, 404, 0) \/ Works(c, "delete", j)
    BY <1>1 DEF DeleteLookup
  <2>3. On(j, JobField) /\ j.path = full /\ j.todo = <<bottom>> /\ j.failed = FALSE
    BY DEF On, JobField, Idle
  <2>4. bottom = [path |-> full, processed |-> FALSE]  OBVIOUS
  <2> HIDE DEF bottom, j, full
  <2>5. IsSeq(<<bottom>>) /\ <<bottom>> # <<>> /\ <<bottom>>[1] = bottom
    BY SeqIsSeq, <<bottom>> \in Seq({bottom})
  <2>6. Todo("delete", j)  BY <2>3, <2>4, <2>5 DEF Todo
  <2>7. CASE Works(c, "delete", j)
    BY <1>0, <2>1, <2>6, <2>7, WorksStep DEF EndpointPlace
  <2> QED  BY <1>0, <2>1, <2>2, <2>7, RespondsStep
<1> DEFINE todo == job[c].todo
           path == Last(todo).path
<1>2. ASSUME pc[c] \in Deleting
      PROVE  /\ On(job[c], JobField) /\ job[c].failed \in BOOLEAN /\ pc[c] \in EndpointPlace
             /\ IsSeq(todo) /\ todo # <<>> /\ \E b \in BOOLEAN : todo[1] = [path |-> job[c].path, processed |-> b]
  BY <1>0, <1>2 DEF TodoInv, Todo, Deleting, EndpointPlace
<1>3. ASSUME NEW failed \in BOOLEAN, pc[c] \in Deleting, Deleted(c, Front(todo), failed), FileSystem(files')
      PROVE  ConnectionsInv'
  <2>1. /\ IsSeq(Front(todo))
        /\ Front(todo) # <<>> => \E b \in BOOLEAN : Front(todo)[1] = [path |-> job[c].path, processed |-> b]
    BY <1>0, <1>3, DeleteTop
  <2> QED  BY <1>3, <2>1, DeletedStep
<1>4. CASE DeleteNext(c)
  <2>1. pc[c] \in Deleting /\ UNCHANGED files  BY <1>4 DEF DeleteNext, At, Deleting
  <2>2. \/ Deleted(c, Front(todo), FALSE)
        \/ \E place \in {"unlink", "opendir", "rmdir"} : Works(c, place, job[c])
    BY <1>4 DEF DeleteNext
  <2>3. ASSUME NEW place \in {"unlink", "opendir", "rmdir"}, Works(c, place, job[c])
        PROVE  ConnectionsInv'
    <3>1. Todo(place, job[c])  BY <1>2, <2>1 DEF Todo
    <3>2. place \in EndpointPlace  BY DEF EndpointPlace
    <3> QED  BY <1>0, <1>2, <2>1, <2>3, <3>1, <3>2, WorksStep
  <2> HIDE DEF todo
  <2> QED  BY <1>0, <1>3, <2>1, <2>2, <2>3
<1>5. CASE DeleteFile(c)
  <2>1. pc[c] \in Deleting  BY <1>5 DEF DeleteFile, At, Deleting
  <2>2. FileSystem(files')  BY <1>0, <1>5, Removed DEF DeleteFile
  <2>3. Deleted(c, Front(todo), ~IsFile(path))  BY <1>5 DEF DeleteFile
  <2> HIDE DEF todo, path
  <2>4. (~IsFile(path)) \in BOOLEAN  BY Zenon
  <2> QED  BY <1>3, <2>1, <2>2, <2>3, <2>4
<1>6. CASE DeleteDirectory(c)
  <2> DEFINE removed == IsDir(path) /\ Children(path) = {}
  <2>1. pc[c] \in Deleting  BY <1>6 DEF DeleteDirectory, At, Deleting
  <2>2. FileSystem(files')  BY <1>0, <1>6, Removed DEF DeleteDirectory
  <2>3. Deleted(c, Front(todo), job[c].failed \/ ~removed)  BY <1>6 DEF DeleteDirectory
  <2>4. (job[c].failed \/ ~removed) \in BOOLEAN  OBVIOUS
  <2> HIDE DEF todo, path, removed
  <2> QED  BY <1>3, <2>1, <2>2, <2>3, <2>4
<1>7. CASE DeleteOpen(c)
  <2> DEFINE names == Cardinality(Children(path))
             n == IF names <= Room(c) THEN names ELSE Room(c)
             j == [job[c] EXCEPT !.failed = names > 0]
  <2>1. pc[c] \in Deleting /\ UNCHANGED files  BY <1>7 DEF DeleteOpen, At, Deleting
  <2>2. n \in Int
    <3>1. names \in Nat
      BY <1>0, FS_Subset, FS_CardinalityType DEF TodoInv, Children, Below
    <3>2. Room(c) \in Int  BY <1>2, <2>1, SeqFacts, StackAssumption DEF Room
    <3> QED  BY <3>1, <3>2
  <2>3. \/ Deleted(c, Front(todo), TRUE)
        \/ Works(c, "rmdir", j)
        \/ Deleted(c, Pushed(todo, n), n < names)
    BY <1>7 DEF DeleteOpen
  <2>4. CASE Works(c, "rmdir", j)
    <3>1. On(j, JobField) /\ j.failed \in BOOLEAN /\ j.todo = todo /\ j.path = job[c].path
      BY <1>2, <2>1 DEF On, JobField
    <3> HIDE DEF j, todo
    <3>2. Todo("rmdir", j)  BY <1>2, <2>1, <3>1 DEF Todo
    <3> QED  BY <1>0, <1>2, <2>1, <2>4, <3>2, WorksStep DEF EndpointPlace
  <2>5. CASE Deleted(c, Pushed(todo, n), n < names)
    <3>1. /\ IsSeq(Pushed(todo, n))
          /\ \E b \in BOOLEAN : Pushed(todo, n)[1] = [path |-> job[c].path, processed |-> b]
      BY <1>0, <2>1, <2>2, PushedBelow
    <3>2. (n < names) \in BOOLEAN  OBVIOUS
    <3> HIDE DEF n, names, todo
    <3> QED  BY <1>0, <2>1, <2>5, <3>1, <3>2, DeletedStep
  <2> HIDE DEF j, n, names, todo
  <2> QED  BY <1>0, <1>3, <2>1, <2>3, <2>4, <2>5
<1> QED  BY <1>1, <1>4, <1>5, <1>6, <1>7

LEMMA EndpointsStep ==
  ASSUME ConnectionsInv, Overlaps, Around, NEW c \in Client, Endpoint(c)
  PROVE  ConnectionsInv'
  BY PlainStep, RootStep, OneFileStep, MkdirStep, RenameStep, DeleteStep DEF Endpoint

LEMMA ConnectionsStep ==
  ASSUME ConnectionsInv, Overlaps, NEW c \in Client, Connection(c)
  PROVE  ConnectionsInv'
  BY ReadStep, TryMountStep, SetRootStep, OpenFileStep, SendFileStep, RestoreRootStep, TryIndexStep,
     RouteStep, SendsStep, HandlerStep, NoRouteStep, LostStep, EndpointsStep DEF Connection, Around

-----------------------------------------------------------------------------
(* The script *)

\* What a call of the script may do to the connections: nobody borrows the root in it.
Called ==
  /\ script # <<>> /\ script' = Tail(script)
  /\ UNCHANGED <<pc, req, res, workspaceVars, answer>>
  /\ Borrowing # {} => overlapped'

LEMMA CalledStep ==
  ASSUME ConnectionsInv, Overlaps, Called,
         On(local', Client), \A c \in Client : On(local'[c], LocalField),
         \A c \in Client : local'[c] = local[c] \/ local'[c] = [local[c] EXCEPT !.bypass = {}],
         On(server', ServerField), IsSeq(server'.owned), IsSeq(server'.bypass), On(listener', Listener),
         \A l \in Listener : listener'[l] \in Running /\ l \notin orphans' => server'.exists,
         \A c \in Client : pc[c] \in Serving /\ c \notin orphans' =>
           server'.exists /\ local'[c].bypass \subseteq ToSet(server'.bypass),
         ~server'.exists => staticRoot' = Null,
         ~overlapped' /\ server'.exists => staticRoot' = Configured(server')
  PROVE  ConnectionsInv'
<1>0. Typed /\ AnswerInv /\ BypassInv /\ OrphanInv /\ RootInv /\ TodoInv
  BY DEF ConnectionsInv
<1>1. UNCHANGED <<pc, req, res, job, files, answer>>  BY DEF Called, workspaceVars
<1>2. ASSUME NEW c \in Client
      PROVE  /\ local'[c].got = local[c].got /\ local'[c].served = local[c].served
             /\ local'[c].mount = local[c].mount
             /\ local'[c].bypass = local[c].bypass \/ local'[c].bypass = {}
  <2>1. On(local[c], LocalField)  BY <1>0 DEF Typed
  <2> QED  BY <2>1 DEF On, LocalField
<1>3. Typed'  BY <1>0, <1>1, TailIsSeq DEF Typed, Called
<1>4. AnswerInv'  BY <1>0, <1>1, <1>2 DEF AnswerInv, Answered
<1>5. BypassInv'
  <2>1. ASSUME NEW c \in Client
        PROVE  NotBypassed(pc[c], local'[c], req[c])
    BY <1>0, <1>2 DEF BypassInv, NotBypassed, Above
  <2> QED  BY <1>1, <2>1 DEF BypassInv
<1>6. OrphanInv'  BY <1>1 DEF OrphanInv
<1>7. RootInv'
  <2> SUFFICES ASSUME ~overlapped'
               PROVE  RootInv'
    BY DEF RootInv
  <2>1. \A c \in Client : pc'[c] \notin BorrowPlace
    BY <1>1 DEF Called, Borrowing, BorrowPlace
  <2>2. server'.exists => staticRoot' = Configured(server)'
    OBVIOUS
  <2> QED  BY <2>1, <2>2 DEF RootInv
<1>8. TodoInv'  BY <1>0, <1>1 DEF TodoInv
<1> QED  BY <1>3, <1>4, <1>5, <1>6, <1>7, <1>8 DEF ConnectionsInv

\* Most only change what is configured.
LEMMA ConfiguredStep ==
  ASSUME ConnectionsInv, Overlaps, Called, UNCHANGED <<local, listener, orphans>>,
         On(server', ServerField), IsSeq(server'.owned), IsSeq(server'.bypass),
         server.exists => server'.exists,
         server.exists => ToSet(server.bypass) \subseteq ToSet(server'.bypass),
         \/ UNCHANGED staticRoot /\ ~server'.exists
         \/ UNCHANGED staticRoot /\ server.exists /\ server'.exists /\ server'.owned = server.owned
         \/ UNCHANGED staticRoot /\ server'.owned = <<>> /\ ~server.exists
         \/ server'.exists /\ server'.owned # <<>> /\ staticRoot' = <<"own", Len(server'.owned)>>
  PROVE  ConnectionsInv'
<1>0. Typed /\ BypassInv /\ OrphanInv /\ RootInv  BY DEF ConnectionsInv
<1>1. On(local', Client) /\ On(listener', Listener) /\ \A c \in Client : On(local'[c], LocalField)
  BY <1>0 DEF Typed
<1>2. \A l \in Listener : listener'[l] \in Running /\ l \notin orphans' => server'.exists
  BY <1>0 DEF OrphanInv
<1>3. \A c \in Client : pc[c] \in Serving /\ c \notin orphans' =>
         server'.exists /\ local'[c].bypass \subseteq ToSet(server'.bypass)
  BY <1>0 DEF OrphanInv, BypassInv
<1>4. ASSUME ~overlapped', server'.exists
      PROVE  staticRoot' = Configured(server')
  <2>1. \A c \in Client : pc[c] \notin BorrowPlace
    BY <1>4 DEF Called, Borrowing, BorrowPlace
  <2>2. server.exists => staticRoot = Configured(server)
    BY <1>0, <1>4, <2>1 DEF RootInv, Overlaps
  <2>3. ~server.exists => staticRoot = Null  BY <1>0 DEF OrphanInv
  <2>4. ASSUME server'.owned = server.owned
        PROVE  Configured(server') = Configured(server)
    BY <2>4 DEF Configured
  <2>5. CASE UNCHANGED staticRoot /\ server.exists /\ server'.owned = server.owned
    BY <2>2, <2>4, <2>5
  <2>6. CASE UNCHANGED staticRoot /\ server'.owned = <<>> /\ ~server.exists
    BY <2>3, <2>6 DEF Configured
  <2>7. CASE server'.owned # <<>> /\ staticRoot' = <<"own", Len(server'.owned)>>
    BY <2>7 DEF Configured
  <2> QED  BY <1>4, <2>5, <2>6, <2>7
<1>5. ~server'.exists => staticRoot' = Null  BY <1>0 DEF OrphanInv
<1> QED  BY <1>1, <1>2, <1>3, <1>4, <1>5, CalledStep

LEMMA WithMountTyped ==
  ASSUME NEW s, On(s, ServerField), NEW prefix, NEW root, NEW doing
  PROVE  LET t == WithMount(s, prefix, root, doing)
         IN  On(t, ServerField) /\ t.exists = s.exists /\ t.owned = s.owned /\ t.bypass = s.bypass /\ t.routes = s.routes
  BY DEF WithMount, On, ServerField

LEMMA CreatedTyped ==
  ASSUME Typed
  PROVE  LET t == Created(server)
         IN  /\ On(t, ServerField) /\ t.exists /\ IsSeq(t.owned) /\ IsSeq(t.bypass)
             /\ server.exists => t = server
             /\ ~server.exists => t.owned = <<>>
<1> DEFINE fresh == [NoServer EXCEPT !.exists = TRUE]
<1>1. On(fresh, ServerField) /\ fresh.exists = TRUE /\ fresh.owned = <<>> /\ fresh.bypass = <<>>
  BY DEF NoServer, On, ServerField
<1> HIDE DEF fresh
<1>2. Created(server) = IF server.exists THEN server ELSE fresh
  BY DEF Created, fresh
<1>3. CASE server.exists  BY <1>2, <1>3 DEF Typed
<1>4. CASE ~server.exists  BY <1>1, <1>2, <1>4, EmptyIsSeq
<1> QED  BY <1>3, <1>4

\* What a call does before it is over.
Beginning == PublishRoute \/ MoveMounts \/ PublishMount \/ FreeRoot \/ CountBypass \/ FreeBypass

LEMMA ScriptFrame ==
  ASSUME Script
  PROVE  /\ UNCHANGED <<req, res, job, files, workspaceRoot, answer>>
         /\ UNCHANGED pc \/ ScriptUndefined
<1>1. CASE Beginning
  BY <1>1 DEF Beginning, PublishRoute, MoveMounts, PublishMount, FreeRoot, CountBypass, FreeBypass, Enters,
              Configures, ConnectionsUnchanged, workspaceVars
<1>2. CASE WithoutServer \/ StartServer \/ ListenServer \/ Cleanup \/ ScriptUndefined \/ ClearBypass
  BY <1>2 DEF WithoutServer, StartServer, ListenServer, Cleanup, ScriptUndefined, ClearBypass,
              ConnectionsUnchanged, workspaceVars
<1>3. CASE CreateServer \/ AddLegacyRoute \/ RegisterRoute \/ AddStaticMount \/ SetStaticMount \/ AddBypass
  BY <1>3 DEF CreateServer, AddLegacyRoute, RegisterRoute, AddStaticMount, SetStaticMount, AddBypass,
              Configures, ConnectionsUnchanged, workspaceVars
<1> QED  BY <1>1, <1>2, <1>3 DEF Script, Beginning

LEMMA BeginningFrame ==
  ASSUME Typed, Beginning
  PROVE  /\ UNCHANGED <<script, staticRoot, listener, orphans, pc, local>>
         /\ On(server', ServerField) /\ server'.exists = server.exists /\ server'.owned = server.owned
         /\ server'.bypass = server.bypass /\ server'.routes = server.routes
<1>1. UNCHANGED <<script, staticRoot, listener, orphans, pc, local>>
  BY DEF Beginning, PublishRoute, MoveMounts, PublishMount, FreeRoot, CountBypass, FreeBypass, Enters,
         Configures, ConnectionsUnchanged, listenVars
<1>2. CASE PublishMount
  <2>1. server' = WithMount(server, Head(script).prefix, Head(script).root, "root")
    BY <1>2 DEF PublishMount, Configures
  <2> QED  BY <1>1, <2>1, WithMountTyped DEF Typed
<1>3. CASE MoveMounts
  <2>1. PICK n, m : server' = [server EXCEPT !.doing = "mounts", !.moves = n, !.capacity = m]
    BY <1>3 DEF MoveMounts, Configures
  <2> QED  BY <1>1, <2>1 DEF Typed, On, ServerField
<1>4. CASE PublishRoute \/ FreeRoot \/ CountBypass \/ FreeBypass
  <2>1. PICK doing : server' = [server EXCEPT !.doing = doing]
    BY <1>4 DEF PublishRoute, FreeRoot, CountBypass, FreeBypass, Enters, Configures
  <2> QED  BY <1>1, <2>1 DEF Typed, On, ServerField
<1> QED  BY <1>2, <1>3, <1>4 DEF Beginning

LEMMA BeginningStep ==
  ASSUME ConnectionsInv, Overlaps, Script, Beginning
  PROVE  ConnectionsInv'
<1>0. Typed /\ AnswerInv /\ BypassInv /\ OrphanInv /\ RootInv /\ TodoInv
  BY DEF ConnectionsInv
<1>1. /\ UNCHANGED <<script, staticRoot, listener, orphans, pc, local, req, res, job, files, answer>>
      /\ On(server', ServerField) /\ server'.exists = server.exists /\ server'.owned = server.owned
      /\ server'.bypass = server.bypass
  BY <1>0, ScriptFrame, BeginningFrame
<1>2. Typed'  BY <1>0, <1>1 DEF Typed
<1>3. AnswerInv'  BY <1>0, <1>1 DEF AnswerInv
<1>4. BypassInv'  BY <1>0, <1>1 DEF BypassInv
<1>5. OrphanInv'  BY <1>0, <1>1 DEF OrphanInv
<1>6. RootInv'
  <2>1. Configured(server') = Configured(server)  BY <1>1 DEF Configured
  <2>2. ~overlapped' => ~overlapped  BY DEF Overlaps
  <2> QED  BY <1>0, <1>1, <2>1, <2>2 DEF RootInv
<1>7. TodoInv'  BY <1>0, <1>1 DEF TodoInv
<1> QED  BY <1>2, <1>3, <1>4, <1>5, <1>6, <1>7 DEF ConnectionsInv

LEMMA AddsStep ==
  ASSUME ConnectionsInv, Overlaps, Borrowing # {} /\ script' # script => overlapped',
         CreateServer \/ AddLegacyRoute \/ RegisterRoute \/ AddStaticMount \/ AddBypass
  PROVE  ConnectionsInv'
<1>0. Typed /\ IsSeq(script)  BY DEF ConnectionsInv, Typed
<1>1. script # <<>> /\ script' = Tail(script) /\ ConnectionsUnchanged /\ UNCHANGED listenVars
  BY DEF CreateServer, AddLegacyRoute, RegisterRoute, AddStaticMount, AddBypass, Calls, InCall, Configures
<1>2. Called  BY <1>0, <1>1, TailIsSeq DEF Called, ConnectionsUnchanged
<1>3. UNCHANGED <<local, listener, orphans, staticRoot>>
  BY <1>1 DEF ConnectionsUnchanged, listenVars, CreateServer, AddLegacyRoute, RegisterRoute, AddStaticMount,
              AddBypass
<1>4. /\ On(server', ServerField) /\ IsSeq(server'.owned) /\ IsSeq(server'.bypass)
      /\ server.exists => server'.exists
      /\ server.exists => ToSet(server.bypass) \subseteq ToSet(server'.bypass)
      /\ \/ ~server'.exists
         \/ server.exists /\ server'.exists /\ server'.owned = server.owned
         \/ server'.owned = <<>> /\ ~server.exists
  <2>1. CASE CreateServer
    BY <1>0, <2>1, CreatedTyped DEF CreateServer, Configures
  <2>2. CASE UNCHANGED server  BY <1>0, <2>2 DEF Typed
  <2>3. ASSUME server.exists, AddLegacyRoute \/ RegisterRoute
        PROVE  /\ On(server', ServerField) /\ server'.exists = server.exists
               /\ server'.owned = server.owned /\ server'.bypass = server.bypass
    <3>1. PICK routes : server' = [server EXCEPT !.routes = routes, !.doing = "nothing"]
      BY <2>3 DEF AddLegacyRoute, RegisterRoute, WithRoute, Configures
    <3> QED  BY <1>0, <3>1 DEF Typed, On, ServerField
  <2>4. ASSUME server.exists, AddStaticMount
        PROVE  /\ On(server', ServerField) /\ server'.exists = server.exists
               /\ server'.owned = server.owned /\ server'.bypass = server.bypass
    <3>1. server' = WithMount(server, Head(script).prefix, Head(script).root, "nothing")
      BY <2>4 DEF AddStaticMount, Configures
    <3> QED  BY <1>0, <3>1, WithMountTyped DEF Typed
  <2>5. CASE server.exists /\ AddBypass
    <3> DEFINE bypass == Append(server.bypass, Head(script).prefix)
    <3>1. server' = [server EXCEPT !.bypass = bypass, !.doing = "nothing"]
      BY <2>5 DEF AddBypass, Configures
    <3>2. IsSeq(bypass) /\ ToSet(server.bypass) \subseteq ToSet(bypass)
      BY <1>0, AppendIsSeq DEF Typed
    <3> HIDE DEF bypass
    <3>3. /\ On(server', ServerField) /\ server'.exists = server.exists
          /\ server'.owned = server.owned /\ server'.bypass = bypass
      BY <1>0, <3>1 DEF Typed, On, ServerField
    <3> QED  BY <1>0, <2>5, <3>2, <3>3 DEF Typed
  <2>6. CASE ~server.exists /\ ~CreateServer
    <3>1. UNCHANGED server
      BY <2>6 DEF AddLegacyRoute, RegisterRoute, AddStaticMount, AddBypass, Configures
    <3> QED  BY <2>2, <3>1
  <2>7. CASE server.exists /\ (AddLegacyRoute \/ RegisterRoute \/ AddStaticMount)
    BY <1>0, <2>3, <2>4, <2>7 DEF Typed
  <2> QED  BY <2>1, <2>5, <2>6, <2>7
<1> QED  BY <1>2, <1>3, <1>4, ConfiguredStep

LEMMA SetStaticMountStep ==
  ASSUME ConnectionsInv, Overlaps, Borrowing # {} /\ script' # script => overlapped', SetStaticMount
  PROVE  ConnectionsInv'
<1>0. Typed /\ IsSeq(script)  BY DEF ConnectionsInv, Typed
<1>1. /\ script # <<>> /\ script' = Tail(script) /\ ConnectionsUnchanged /\ UNCHANGED listenVars
  BY DEF SetStaticMount, Calls, InCall, Configures
<1>2. Called /\ UNCHANGED <<local, listener, orphans>>
  BY <1>0, <1>1, TailIsSeq DEF Called, ConnectionsUnchanged, listenVars
<1>3. CASE ~server.exists
  BY <1>0, <1>2, <1>3, ConfiguredStep DEF SetStaticMount, Configures, Typed
<1>4. CASE server.exists
  <2> DEFINE owned == Append(server.owned, Head(script).root)
  <2>1. /\ server' = [server EXCEPT !.owned = owned, !.serveStatic = TRUE, !.doing = "nothing"]
        /\ staticRoot' = <<"own", Len(server.owned) + 1>>
    BY <1>4 DEF SetStaticMount, Configures
  <2>2. IsSeq(owned) /\ owned # <<>> /\ Len(owned) = Len(server.owned) + 1
    BY <1>0, AppendIsSeq DEF Typed
  <2> HIDE DEF owned
  <2>3. /\ On(server', ServerField) /\ server'.exists = server.exists
        /\ server'.owned = owned /\ server'.bypass = server.bypass
    BY <1>0, <2>1 DEF Typed, On, ServerField
  <2> QED  BY <1>0, <1>2, <1>4, <2>1, <2>2, <2>3, ConfiguredStep DEF Typed
<1> QED  BY <1>3, <1>4

LEMMA ClearBypassStep ==
  ASSUME ConnectionsInv, Overlaps, Borrowing # {} /\ script' # script => overlapped', ClearBypass
  PROVE  ConnectionsInv'
<1>0. Typed /\ OrphanInv /\ RootInv /\ IsSeq(script)  BY DEF ConnectionsInv, Typed
<1>1. Called  BY <1>0, TailIsSeq DEF Called, ClearBypass, Calls, InCall
<1>2. /\ server' = [server EXCEPT !.bypass = <<>>, !.doing = "nothing"]
      /\ local' = [c \in Client |-> [local[c] EXCEPT !.bypass = {}]]
      /\ UNCHANGED <<staticRoot, listener, orphans>>
  BY DEF ClearBypass, listenVars
<1>3. /\ On(server', ServerField) /\ IsSeq(server'.bypass)
      /\ server'.exists = server.exists /\ server'.owned = server.owned
  BY <1>0, <1>2, EmptyIsSeq DEF Typed, On, ServerField
<1>4. On(local', Client)  BY <1>2 DEF On
<1>5. ASSUME NEW c \in Client
      PROVE  /\ local'[c] = [local[c] EXCEPT !.bypass = {}]
             /\ On(local'[c], LocalField) /\ local'[c].bypass = {}
  BY <1>0, <1>2 DEF Typed, On, LocalField
<1>6. ASSUME ~overlapped', server'.exists
      PROVE  staticRoot' = Configured(server')
  <2>1. \A c \in Client : pc[c] \notin BorrowPlace
    BY <1>1, <1>6 DEF Called, Borrowing, BorrowPlace
  <2> QED  BY <1>0, <1>2, <1>3, <1>6, <2>1 DEF RootInv, Overlaps, Configured
<1> QED  BY <1>0, <1>1, <1>2, <1>3, <1>4, <1>5, <1>6, CalledStep DEF Typed, OrphanInv

\* What starts a listener, and what does nothing without a server.
LEMMA StartsStep ==
  ASSUME ConnectionsInv, Overlaps, Borrowing # {} /\ script' # script => overlapped',
         StartServer \/ ListenServer \/ WithoutServer
  PROVE  ConnectionsInv'
<1>0. Typed /\ BypassInv /\ OrphanInv /\ RootInv /\ IsSeq(script)  BY DEF ConnectionsInv, Typed
<1>1. /\ script # <<>> /\ script' = Tail(script) /\ ConnectionsUnchanged
      /\ UNCHANGED <<local, orphans, staticRoot>>
  BY DEF StartServer, ListenServer, WithoutServer, Calls, InCall, ConnectionsUnchanged, serverVars, listenVars
<1>2. Called  BY <1>0, <1>1, TailIsSeq DEF Called, ConnectionsUnchanged
<1>3. server' = server \/ server' = Created(server)
  BY DEF StartServer, ListenServer, WithoutServer, serverVars
<1>4. /\ On(server', ServerField) /\ IsSeq(server'.owned) /\ IsSeq(server'.bypass)
      /\ server.exists => server' = server
      /\ server'.exists => server.exists \/ server'.owned = <<>>
  BY <1>0, <1>3, CreatedTyped DEF Typed
<1>5. \/ UNCHANGED listener
      \/ server'.exists /\ listener' = [listener EXCEPT ![NextListener] = "create"]
  BY CreatedTyped, <1>0 DEF StartServer, ListenServer, WithoutServer, listenVars, serverVars
<1>6. On(listener', Listener)  BY <1>0, <1>5, OnExcept DEF Typed
<1>7. \A l \in Listener : listener'[l] \in Running /\ l \notin orphans' => server'.exists
  BY <1>0, <1>1, <1>4, <1>5 DEF OrphanInv
<1>8. \A c \in Client : pc[c] \in Serving /\ c \notin orphans' =>
         server'.exists /\ local'[c].bypass \subseteq ToSet(server'.bypass)
  BY <1>0, <1>1, <1>4 DEF OrphanInv, BypassInv
<1>9. ~server'.exists => staticRoot' = Null  BY <1>0, <1>1, <1>4 DEF OrphanInv
<1>10. ASSUME ~overlapped', server'.exists
       PROVE  staticRoot' = Configured(server')
  <2>1. \A c \in Client : pc[c] \notin BorrowPlace
    BY <1>2, <1>10 DEF Called, Borrowing, BorrowPlace
  <2>2. CASE server.exists
    BY <1>0, <1>1, <1>4, <1>10, <2>1, <2>2 DEF RootInv, Overlaps
  <2>3. CASE ~server.exists
    BY <1>0, <1>1, <1>4, <1>10, <2>3 DEF OrphanInv, Configured
  <2> QED  BY <2>2, <2>3
<1>11. On(local', Client) /\ \A c \in Client : On(local'[c], LocalField) /\ local'[c] = local[c]
  BY <1>0, <1>1 DEF Typed
<1> QED  BY <1>2, <1>4, <1>6, <1>7, <1>8, <1>9, <1>10, <1>11, CalledStep

\* Whoever runs when the server is freed is an orphan.
LEMMA CleanupStep ==
  ASSUME ConnectionsInv, Overlaps, Borrowing # {} /\ script' # script => overlapped', Cleanup
  PROVE  ConnectionsInv'
<1>0. Typed /\ IsSeq(script)  BY DEF ConnectionsInv, Typed
<1>1. Called  BY <1>0, TailIsSeq DEF Called, Cleanup, Calls, InCall, ConnectionsUnchanged
<1>2. /\ server' = NoServer /\ staticRoot' = Null /\ UNCHANGED <<listener, local>>
      /\ orphans' = {l \in Listener : listener[l] \in Running} \cup {c \in Client : Busy(c)}
  BY DEF Cleanup, ConnectionsUnchanged
<1>3. On(NoServer, ServerField) /\ IsSeq(NoServer.owned) /\ IsSeq(NoServer.bypass) /\ ~NoServer.exists
  BY EmptyIsSeq DEF NoServer, On, ServerField
<1>4. \A l \in Listener : listener'[l] \in Running => l \in orphans'
  BY <1>2
<1>5. \A c \in Client : pc[c] \in Serving => c \in orphans'
  BY <1>2 DEF Busy, Serving
<1>6. On(local', Client) /\ \A c \in Client : On(local'[c], LocalField) /\ local'[c] = local[c]
  BY <1>0, <1>2 DEF Typed
<1>7. On(listener', Listener)  BY <1>0, <1>2 DEF Typed
<1> QED  BY <1>1, <1>2, <1>3, <1>4, <1>5, <1>6, <1>7, CalledStep

LEMMA UndefinedStep ==
  ASSUME ConnectionsInv, Overlaps, ScriptUndefined
  PROVE  ConnectionsInv'
<1>0. Typed /\ AnswerInv /\ BypassInv /\ OrphanInv /\ RootInv /\ TodoInv
  BY DEF ConnectionsInv
<1>1. /\ pc' = [c \in Client |-> "undefined"] /\ script' = <<>>
      /\ UNCHANGED <<server, staticRoot, listener, orphans, req, res, job, files, local, answer>>
  BY DEF ScriptUndefined, serverVars, listenVars, workspaceVars
<1>2. Typed'  BY <1>0, <1>1, EmptyIsSeq DEF Typed, Place
<1>3. AnswerInv'  BY <1>0, <1>1 DEF AnswerInv, Answered
<1>4. BypassInv'  BY <1>1 DEF BypassInv, NotBypassed, FilePlace, Serving
<1>5. OrphanInv'  BY <1>0, <1>1 DEF OrphanInv, Serving
<1>6. RootInv'
  <2> SUFFICES ASSUME ~overlapped'
               PROVE  RootInv'
    BY DEF RootInv
  <2>1. \A c, d \in Client : pc'[c] \in BorrowPlace /\ pc'[d] \in BorrowPlace => c = d
    BY DEF Overlaps
  <2>2. server'.exists /\ (\A c \in Client : pc'[c] \notin BorrowPlace) => staticRoot' = Configured(server')
    <3>1. (\A c \in Client : pc'[c] \notin BorrowPlace) => Client = {}
      BY <1>1 DEF BorrowPlace
    <3> QED  BY <1>0, <1>1, <3>1 DEF RootInv, Overlaps
  <2> QED  BY <1>1, <2>1, <2>2 DEF RootInv
<1>7. TodoInv'  BY <1>0, <1>1 DEF TodoInv, Todo, Deleting
<1> QED  BY <1>2, <1>3, <1>4, <1>5, <1>6, <1>7 DEF ConnectionsInv

LEMMA ScriptStep ==
  ASSUME ConnectionsInv, Overlaps, Borrowing # {} /\ script' # script => overlapped', Script
  PROVE  ConnectionsInv'
<1>1. CASE Beginning  BY <1>1, BeginningStep
<1>2. CASE ~Beginning
  BY <1>2, AddsStep, SetStaticMountStep, ClearBypassStep, StartsStep, CleanupStep, UndefinedStep
     DEF Script, Beginning
<1> QED  BY <1>1, <1>2

-----------------------------------------------------------------------------
(* The listeners *)

LEMMA AcceptStep ==
  ASSUME ConnectionsInv, Overlaps, NEW l \in Listener, Accept(l)
  PROVE  ConnectionsInv'
<1>0. Typed /\ AnswerInv /\ BypassInv /\ OrphanInv /\ RootInv /\ TodoInv
  BY DEF ConnectionsInv
<1>1. PICK c \in Client, request \in traffic :
        /\ pc[c] = "idle" /\ pc' = [pc EXCEPT ![c] = "read"]
        /\ req' = [req EXCEPT ![c] = request]
        /\ local' = [local EXCEPT ![c].bypass = IF l \in orphans THEN {} ELSE ToSet(server.bypass)]
        /\ orphans' = IF l \in orphans THEN orphans \cup {c} ELSE orphans
  BY DEF Accept, At, Goto
<1>2. /\ listener[l] = "accept" /\ listener' = [listener EXCEPT ![l] = "loop"]
      /\ UNCHANGED <<server, script, staticRoot, job, files, res, answer>>
  BY DEF Accept, ListensAt, Listens, workspaceVars
<1> DEFINE bypass == IF l \in orphans THEN {} ELSE ToSet(server.bypass)
           new == [local[c] EXCEPT !.bypass = bypass]
<1>3. /\ On(new, LocalField) /\ new.bypass = bypass /\ new.mount = local[c].mount /\ new.got = local[c].got
      /\ new.served = local[c].served
  <2>1. On(local[c], LocalField)  BY <1>0 DEF Typed
  <2>2. "bypass" \in LocalField /\ {"mount", "got", "served"} \subseteq LocalField \ {"bypass"}
    BY DEF LocalField
  <2> HIDE DEF bypass
  <2> QED  BY <2>1, <2>2 DEF On
<1>4. local' = [local EXCEPT ![c] = new]  BY <1>1
<1> HIDE DEF new
<1>5. \A d \in Client : /\ pc'[d] = IF d = c THEN "read" ELSE pc[d]
                        /\ local'[d] = IF d = c THEN new ELSE local[d]
                        /\ req'[d] = IF d = c THEN request ELSE req[d]
                        /\ answer'[d] = answer[d]
  BY <1>0, <1>1, <1>2, <1>4 DEF Typed, On
<1>6. Typed'
  <2>1. pc' \in [Client -> Place]  BY <1>0, <1>1 DEF Typed, Place
  <2>2. On(local', Client) /\ On(req', Client) /\ On(listener', Listener)
    BY <1>0, <1>1, <1>2, <1>4 DEF Typed, On
  <2>3. \A d \in Client : On(local'[d], LocalField)  BY <1>0, <1>3, <1>5 DEF Typed
  <2> QED  BY <1>0, <1>2, <2>1, <2>2, <2>3 DEF Typed
<1>7. AnswerInv'
  <2>1. Answered("read", new, answer[c])  BY <1>0, <1>1 DEF AnswerInv, Answered
  <2> QED  BY <1>0, <1>5, <2>1 DEF AnswerInv
<1>8. BypassInv'
  <2>1. NotBypassed("read", new, request)
    BY <1>0, <1>1, <1>3 DEF BypassInv, NotBypassed, FilePlace
  <2>2. new.bypass \subseteq ToSet(server.bypass)  BY <1>3
  <2>3. orphans \subseteq orphans'  BY <1>1
  <2> QED  BY <1>0, <1>2, <1>5, <2>1, <2>2, <2>3 DEF BypassInv
<1>9. OrphanInv'
  <2>1. c \notin orphans' => server.exists  BY <1>0, <1>1, <1>2 DEF OrphanInv, Running
  <2>2. ASSUME NEW k \in Listener, listener'[k] \in Running, k \notin orphans'
        PROVE  server.exists
    <3>1. CASE k = l  BY <1>0, <1>1, <1>2, <2>2, <3>1 DEF OrphanInv, Running
    <3>2. CASE k # l
      <4>1. listener'[k] = listener[k]  BY <1>0, <1>2, <3>2, OnExcept DEF Typed
      <4> QED  BY <1>0, <1>1, <2>2, <4>1 DEF OrphanInv
    <3> QED  BY <3>1, <3>2
  <2>3. orphans \subseteq orphans'  BY <1>1
  <2> QED  BY <1>0, <1>2, <1>5, <2>1, <2>2, <2>3 DEF OrphanInv
<1>10. RootInv'
  <2>2. \A d \in Client : pc'[d] \in BorrowPlace <=> pc[d] \in BorrowPlace
    BY <1>1, <1>5 DEF BorrowPlace
  <2>3. \A d \in Client : pc'[d] \in BorrowPlace => local'[d] = local[d] /\ pc'[d] = pc[d]
    BY <1>5 DEF BorrowPlace
  <2>4. orphans \subseteq orphans'  BY <1>1
  <2>5. ~overlapped' => ~overlapped  BY DEF Overlaps
  <2>6. Configured(server') = Configured(server)  BY <1>2
  <2> QED  BY <1>0, <1>2, <2>2, <2>3, <2>4, <2>5, <2>6 DEF RootInv
<1>11. TodoInv'
  <2>1. \A d \in Client : Todo(pc'[d], job[d])  BY <1>0, <1>5 DEF TodoInv, Todo, Deleting
  <2> QED  BY <1>0, <1>2, <2>1 DEF TodoInv
<1> QED  BY <1>6, <1>7, <1>8, <1>9, <1>10, <1>11 DEF ConnectionsInv

LEMMA ListenerStep ==
  ASSUME ConnectionsInv, Overlaps, NEW l \in Listener,
         ListenerLost(l) \/ CreateSocket(l) \/ Bind(l) \/ Loop(l)
  PROVE  ConnectionsInv'
<1>0. Typed /\ AnswerInv /\ BypassInv /\ OrphanInv /\ RootInv /\ TodoInv
  BY DEF ConnectionsInv
<1>1. UNCHANGED <<script, staticRoot, job, files, res, answer, pc, req, local, orphans>>
  BY DEF ListenerLost, CreateSocket, Bind, Loop, ListensAt, workspaceVars
<1>2. PICK place \in {"undefined", "bind", "over", "loop", "accept"} :
        /\ listener' = [listener EXCEPT ![l] = place]
        /\ listener[l] \in Running /\ (place \in Running => l \notin orphans)
  BY DEF ListenerLost, CreateSocket, Bind, Loop, ListensAt, Listens, Running
<1>3. \/ UNCHANGED server
      \/ server' = [server EXCEPT !.fd = l]
      \/ server' = [server EXCEPT !.running = TRUE]
  BY DEF ListenerLost, CreateSocket, Bind, Loop
<1>4. /\ On(server', ServerField) /\ server'.exists = server.exists
      /\ server'.owned = server.owned /\ server'.bypass = server.bypass
  BY <1>0, <1>3 DEF Typed, On, ServerField
<1>5. On(listener', Listener) /\ \A k \in Listener : listener'[k] = IF k = l THEN place ELSE listener[k]
  BY <1>0, <1>2 DEF Typed, On
<1>6. Typed'  BY <1>0, <1>1, <1>4, <1>5 DEF Typed
<1>7. AnswerInv'  BY <1>0, <1>1 DEF AnswerInv
<1>8. BypassInv'  BY <1>0, <1>1, <1>4 DEF BypassInv
<1>9. OrphanInv'  BY <1>0, <1>1, <1>2, <1>4, <1>5 DEF OrphanInv
<1>10. RootInv'
  <2>1. Configured(server') = Configured(server)  BY <1>4 DEF Configured
  <2>2. ~overlapped' => ~overlapped  BY DEF Overlaps
  <2> QED  BY <1>0, <1>1, <1>4, <2>1, <2>2 DEF RootInv
<1>11. TodoInv'  BY <1>0, <1>1 DEF TodoInv
<1> QED  BY <1>6, <1>7, <1>8, <1>9, <1>10, <1>11 DEF ConnectionsInv

-----------------------------------------------------------------------------
(* The theorems *)

LEMMA NextInv == ConnectionsInv /\ [Next]_vars => ConnectionsInv'
<1> SUFFICES ASSUME ConnectionsInv, [Next]_vars
             PROVE  ConnectionsInv'
  OBVIOUS
<1>1. CASE Next
  <2>1. overlapped' = \/ overlapped \/ (Borrowing # {} /\ script' # script)
                      \/ \E c, d \in Borrowing' : c # d
    BY <1>1 DEF Next
  <2>2. Overlaps  BY <2>1 DEF Overlaps, Borrowing, BorrowPlace
  <2>3. Borrowing # {} /\ script' # script => overlapped'  BY <2>1
  <2>4. CASE Script  BY <2>2, <2>3, <2>4, ScriptStep
  <2>5. ASSUME NEW l \in Listener, Listening(l)
        PROVE  ConnectionsInv'
    BY <2>2, <2>5, AcceptStep, ListenerStep DEF Listening
  <2>6. ASSUME NEW c \in Client, Connection(c)
        PROVE  ConnectionsInv'
    BY <2>2, <2>6, ConnectionsStep
  <2> QED  BY <1>1, <2>4, <2>5, <2>6 DEF Next
<1>2. CASE UNCHANGED vars
  BY <1>2 DEF vars, workspaceVars, serverVars, listenVars, ConnectionsInv, Typed, AnswerInv, BypassInv,
              OrphanInv, RootInv, TodoInv, Configured
<1> QED  BY <1>1, <1>2

\* The invariant holds of every execution: where a connection is tells what it was
\* sent, whether its path may be served from files, and what it saved of static_root.
THEOREM Inductive == Spec => []ConnectionsInv
  BY InvInit, NextInv, PTL DEF Spec

\* handle_client sends one head on each way out.
THEOREM AnsweredOnce == Spec => []OneAnswer
<1>1. ConnectionsInv => OneAnswer
  BY DEF ConnectionsInv, AnswerInv, Answered, OneAnswer, At
<1> QED  BY <1>1, Inductive, PTL

\* Whichever way a file is served or missed, static_root is put back.
THEOREM RootComesBack == Spec => []RootRestored
<1>1. ConnectionsInv => RootRestored
  BY DEF ConnectionsInv, RootInv, RootRestored, Borrowing, BorrowPlace, Configured
<1> QED  BY <1>1, Inductive, PTL

\* What a connection is sent it is sent by its own thread: a file where http_server_serve_file
\* writes one, else a route's answer.
LEMMA WhoAnswers ==
  ASSUME Typed, Next, NEW c \in Client, answer'[c] # answer[c]
  PROVE  SendFile(c) \/ \E status, promised, sent : Sends(c, status, promised, sent)
<1>1. PICK d \in Client : Connection(d)
  <2>1. ~Script  BY ScriptFrame
  <2>2. \A l \in Listener : ~Listening(l)
    BY DEF Listening, ListenerLost, CreateSocket, Bind, Loop, Accept, ListensAt
  <2> QED  BY <2>1, <2>2 DEF Next
<1>2. SendFile(d) \/ \E status, promised, sent : Sends(d, status, promised, sent)
  <2>1. ~(TryMount(d) \/ SetRoot(d) \/ OpenFile(d) \/ RestoreRoot(d) \/ TryIndex(d) \/ NoRoute(d))
    BY DEF TryMount, SetRoot, OpenFile, RestoreRoot, TryIndex, NoRoute, SaveRoot, Stays
  <2>2. ~(ReadFirst(d) \/ ReadMore(d) \/ Route(d) \/ HandlerReturns(d) \/ Lost(d))
    BY DEF ReadFirst, ReadMore, Route, HandlerReturns, Lost, Stays
  <2>3. ~UNCHANGED answer  OBVIOUS
  <2> QED  BY <1>1, <2>1, <2>2, <2>3 DEF Connection, Legacy, Build, NotFoundAnswer
<1>3. \E a : answer' = [answer EXCEPT ![d] = a]
  BY <1>2 DEF SendFile, Sends
<1>4. c = d  BY <1>3 DEF Typed, On
<1> QED  BY <1>2, <1>4

\* The answer is appended to those before.
LEMMA LastAnswer ==
  ASSUME Typed, NEW c \in Client, NEW a, answer' = [answer EXCEPT ![c] = Append(answer[c], a)]
  PROVE  Last(answer'[c]) = a
<1>1. answer'[c] = Append(answer[c], a) /\ IsSeq(answer[c])  BY DEF Typed, On
<1> DEFINE sent == Append(answer[c], a)
<1>2. IsSeq(sent) /\ sent # <<>> /\ Len(sent) = Len(answer[c]) + 1 /\ sent[Len(answer[c]) + 1] = a
  BY <1>1, AppendIsSeq
<1> HIDE DEF sent
<1>3. Last(sent) = a  BY <1>2 DEF Last
<1> QED  BY <1>1, <1>3 DEF sent

LEMMA FileIsSent ==
  ASSUME Typed, Next, NEW c \in Client, AnswersFile(c)
  PROVE  SendFile(c)
<1>1. answer'[c] # answer[c] /\ Last(answer'[c]).kind = "file"  BY DEF AnswersFile
<1>2. ASSUME NEW status, NEW promised, NEW sent, Sends(c, status, promised, sent)
      PROVE  FALSE
  <2> DEFINE a == [kind |-> "route", status |-> status, promised |-> promised,
                   bytes |-> 0 .. sent - 1, span |-> <<>>, full |-> NoPath, size |-> 0]
  <2>1. answer' = [answer EXCEPT ![c] = Append(answer[c], a)]  BY <1>2 DEF Sends
  <2>2. a.kind = "route"  OBVIOUS
  <2> HIDE DEF a
  <2>3. Last(answer'[c]) = a  BY <2>1, LastAnswer
  <2> QED  BY <1>1, <2>2, <2>3
<1> QED  BY <1>1, <1>2, WhoAnswers

\* A path that bypasses static serving when its connection comes gets no file.
THEOREM BypassIsKept == Spec => BypassedNotStatic
<1>1. ConnectionsInv /\ [Next]_vars =>
        [\A c \in Client : AnswersFile(c) => Above(local[c], req[c])]_vars
  <2> SUFFICES ASSUME ConnectionsInv, Next, NEW c \in Client, AnswersFile(c)
               PROVE  Above(local[c], req[c])
    OBVIOUS
  <2>1. pc[c] = "send"  BY FileIsSent DEF ConnectionsInv, SendFile, At
  <2> QED  BY <2>1 DEF ConnectionsInv, BypassInv, NotBypassed, FilePlace
<1>2. Spec => [][\A c \in Client : AnswersFile(c) => Above(local[c], req[c])]_vars
  BY <1>1, Inductive, PTL DEF Spec
<1> QED  BY <1>2 DEF BypassedNotStatic, Above

\* An endpoint goes on to its next call or to its answer, and leaves the requests alone.
LEMMA EndpointGoes ==
  ASSUME NEW c \in Client, Endpoint(c)
  PROVE  UNCHANGED req /\ \E place \in EndpointPlace \cup {"built"} : pc' = [pc EXCEPT ![c] = place]
<1>1. CASE OptionsEndpoint(c) \/ GenerateEndpoint(c) \/ UnknownEndpoint(c) \/ List(c) \/ Run(c) \/ RunRefused(c)
  BY <1>1 DEF OptionsEndpoint, GenerateEndpoint, UnknownEndpoint, List, Run, RunRefused, Refuses, Responds,
     Answers, Goto
<1>2. CASE EnsureRoot(c) \/ EnsureWritten(c) \/ EnsureMade(c) \/ SwitchMake(c) \/ SwitchBegin(c) \/ SwitchEnd(c)
  BY <1>2 DEF EnsureRoot, EnsureWritten, EnsureMade, SwitchMake, SwitchBegin, SwitchEnd, BeginsRoot, Works,
     Responds, Answers, Goto, EndpointPlace
<1>3. CASE Read(c) \/ CommandOpen(c) \/ CommandWrite(c)
  BY <1>3 DEF Read, CommandOpen, CommandWrite, Works, Refuses, Responds, Answers, Goto, EndpointPlace
<1>4. CASE MkdirBuild(c)
  BY <1>4 DEF MkdirBuild, Works, Refuses, Responds, Answers, Goto, EndpointPlace
<1>5. CASE MkdirSplit(c)
  BY <1>5, Zenon DEF MkdirSplit, Works, Goto, EndpointPlace
<1>6. CASE MkdirNext(c)
  BY <1>6 DEF MkdirNext, Works, Responds, Answers, Goto, EndpointPlace
<1>7. CASE RenameParent(c)
  BY <1>7 DEF RenameParent, Works, Responds, Answers, Goto, EndpointPlace
<1>8. CASE RenameFile(c)  BY <1>8 DEF RenameFile, Responds, Answers, Goto
<1>9. CASE DeleteLookup(c)
  BY <1>9 DEF DeleteLookup, Works, Responds, Answers, Goto, EndpointPlace
<1>10. CASE DeleteNext(c) \/ DeleteFile(c) \/ DeleteOpen(c) \/ DeleteDirectory(c)
  <2>1. \/ \E todo, failed : Deleted(c, todo, failed)
        \/ \E place \in {"unlink", "opendir", "rmdir"} : \E j : Works(c, place, j)
    BY <1>10 DEF DeleteNext, DeleteFile, DeleteOpen, DeleteDirectory
  <2> QED  BY <2>1 DEF Deleted, Works, Responds, Answers, Goto, EndpointPlace
<1> QED  BY <1>1, <1>2, <1>3, <1>4, <1>5, <1>6, <1>7, <1>8, <1>9, <1>10 DEF Endpoint

\* A delete or a mkdir that ends is at its last call of the file system.
LEMMA WhoEnds ==
  ASSUME Typed, Next, NEW c \in Client, pc[c] \in Deleting \cup {"mkdir"}, pc'[c] = "built"
  PROVE  \/ pc[c] \in Deleting /\ (DeleteNext(c) \/ DeleteFile(c) \/ DeleteOpen(c) \/ DeleteDirectory(c))
         \/ pc[c] = "mkdir" /\ MkdirNext(c)
<1>1. ~Script
  <2>1. pc' # pc /\ pc'[c] # "undefined"  BY DEF Deleting
  <2>2. ~ScriptUndefined  BY <2>1 DEF ScriptUndefined
  <2> QED  BY <2>1, <2>2, ScriptFrame
<1>2. ASSUME NEW l \in Listener, Listening(l)
      PROVE  FALSE
  <2>1. CASE Accept(l)
    <3>1. PICK d \in Client : pc[d] = "idle" /\ pc' = [pc EXCEPT ![d] = "read"]
      BY <2>1 DEF Accept, At, Goto
    <3> QED  BY <3>1 DEF Typed, Deleting
  <2>2. CASE ~Accept(l)
    <3>1. UNCHANGED pc
      BY <1>2, <2>2 DEF Listening, ListenerLost, CreateSocket, Bind, Loop
    <3> QED  BY <3>1 DEF Deleting
  <2> QED  BY <2>1, <2>2
<1>3. PICK d \in Client : Connection(d)  BY <1>1, <1>2 DEF Next
<1>4. \E place : pc' = [pc EXCEPT ![d] = place]
  <2>1. CASE Endpoint(d)  BY <2>1, EndpointGoes
  <2>2. CASE ~Endpoint(d)
    BY <1>3, <2>2, ParsedStep DEF Connection, ReadFirst, ReadMore, TryMount, SetRoot, OpenFile, SendFile,
       RestoreRoot, TryIndex, Route, Legacy, HandlerReturns, Build, NoRoute, NotFoundAnswer, Lost, Moves, Goto,
       SaveRoot, Sends
  <2> QED  BY <2>1, <2>2
<1>5. c = d  BY <1>4 DEF Typed, Deleting
<1>6. Endpoint(c)
  BY <1>3, <1>5 DEF Connection, ReadFirst, ReadMore, TryMount, SetRoot, OpenFile, SendFile, RestoreRoot, TryIndex,
       Route, Legacy, HandlerReturns, Build, NoRoute, NotFoundAnswer, Lost, InChange, ChecksBypass, At, Deleting
<1> QED
  BY <1>6 DEF Endpoint, OptionsEndpoint, GenerateEndpoint, UnknownEndpoint, EnsureRoot, EnsureWritten,
       EnsureMade, List, Read, CommandOpen, CommandWrite, Run, RunRefused, SwitchMake, SwitchBegin, SwitchEnd,
       MkdirBuild, MkdirSplit, MkdirNext, RenameParent, RenameFile, DeleteLookup, DeleteNext, DeleteFile,
       DeleteOpen, DeleteDirectory, At, Deleting

LEMMA Responded ==
  ASSUME Typed, NEW c \in Client, NEW status, NEW size, Responds(c, status, size)
  PROVE  res'[c].status = status
  BY DEF Typed, On, Responds, Answers

LEMMA DeletedMeansDone ==
  ASSUME ConnectionsInv, NEW c \in Client, pc[c] \in Deleting,
         DeleteNext(c) \/ DeleteFile(c) \/ DeleteOpen(c) \/ DeleteDirectory(c), Ends200(c, Deleting)
  PROVE  job[c].path \notin DOMAIN files'
<1> DEFINE todo == job[c].todo
           top == Last(todo)
<1>0. Typed /\ TodoInv /\ pc'[c] = "built" /\ res'[c].status = 200
  BY DEF ConnectionsInv, Ends200
<1>1. Front(todo) = <<>> => top.path = job[c].path  BY <1>0, DeleteTop
<1>2. ASSUME NEW rest, NEW failed \in BOOLEAN, Deleted(c, rest, failed)
      PROVE  rest = <<>> /\ ~failed
  <2>1. CASE failed
    <3>1. Responds(c, 500, 0)  BY <1>2, <2>1 DEF Deleted
    <3> QED  BY <1>0, <3>1, Responded
  <2>2. CASE ~failed /\ rest # <<>>
    <3>1. pc' = [pc EXCEPT ![c] = "delete"]  BY <1>2, <2>2 DEF Deleted, Works, Goto
    <3> QED  BY <1>0, <3>1 DEF Typed
  <2> QED  BY <2>1, <2>2
<1>3. ASSUME NEW place \in {"unlink", "opendir", "rmdir"}, NEW j, Works(c, place, j)
      PROVE  FALSE
  <2>1. pc' = [pc EXCEPT ![c] = place]  BY <1>3 DEF Works, Goto
  <2> QED  BY <1>0, <2>1 DEF Typed
<1>4. top.path \notin DOMAIN files' /\ Front(todo) = <<>>
  <2>1. CASE DeleteNext(c)
    <3>1. ~Exists(top.path) /\ UNCHANGED files /\ Deleted(c, Front(todo), FALSE)
      BY <1>3, <2>1 DEF DeleteNext
    <3> HIDE DEF top, todo
    <3> QED  BY <1>2, <3>1 DEF Exists
  <2>2. CASE DeleteFile(c)
    <3>1. /\ Deleted(c, Front(todo), ~IsFile(top.path))
          /\ IsFile(top.path) => RemoveFile(top.path)
      BY <2>2 DEF DeleteFile
    <3> HIDE DEF top, todo
    <3>2. (~IsFile(top.path)) \in BOOLEAN  BY Zenon
    <3>3. Front(todo) = <<>> /\ IsFile(top.path)  BY <1>2, <3>1, <3>2
    <3> QED  BY <3>1, <3>3 DEF RemoveFile
  <2>3. CASE DeleteDirectory(c)
    <3> DEFINE removed == IsDir(top.path) /\ Children(top.path) = {}
    <3>1. /\ Deleted(c, Front(todo), job[c].failed \/ ~removed)
          /\ removed => RemoveFile(top.path)
      BY <2>3 DEF DeleteDirectory
    <3>2. (job[c].failed \/ ~removed) \in BOOLEAN  OBVIOUS
    <3> HIDE DEF top, todo, removed
    <3>3. Front(todo) = <<>> /\ removed  BY <1>2, <3>1, <3>2
    <3> QED  BY <3>1, <3>3 DEF RemoveFile
  <2>4. CASE DeleteOpen(c)
    <3> DEFINE names == Cardinality(Children(top.path))
               n == IF names <= Room(c) THEN names ELSE Room(c)
    <3>1. \/ Deleted(c, Front(todo), TRUE)
          \/ \E j : Works(c, "rmdir", j)
          \/ Deleted(c, Pushed(todo, n), n < names)
      BY <2>4 DEF DeleteOpen
    <3>2. n \in Int
      <4>1. names \in Nat
        BY <1>0, FS_Subset, FS_CardinalityType DEF TodoInv, Children, Below
      <4>2. Room(c) \in Int  BY <1>0, DeleteTop, SeqFacts, StackAssumption DEF Room
      <4> QED  BY <4>1, <4>2
    <3>3. Pushed(todo, n) # <<>>  BY <1>0, <3>2, PushedBelow
    <3>4. (n < names) \in BOOLEAN  OBVIOUS
    <3> HIDE DEF n, names, todo, top
    <3> QED  BY <1>2, <1>3, <3>1, <3>3, <3>4
  <2> QED  BY <2>1, <2>2, <2>3, <2>4
<1> HIDE DEF top, todo
<1> QED  BY <1>1, <1>4

LEMMA MadeMeansDone ==
  ASSUME Typed, NEW c \in Client, MkdirNext(c), Ends200(c, {"mkdir"})
  PROVE  job[c].path \in DOMAIN files' /\ (files'[job[c].path] = Dir \/ IsFile(job[c].path))
<1>1. pc'[c] = "built" /\ res'[c].status = 200  BY DEF Ends200
<1>2. ~MkdirFails(ToMake(c))
  <2> SUFFICES ASSUME MkdirFails(ToMake(c))
               PROVE  FALSE
    OBVIOUS
  <2>1. Responds(c, 500, 0)  BY DEF MkdirNext
  <2> QED  BY <1>1, <2>1, Responded
<1>3. job[c].todo = <<>>
  <2> SUFFICES ASSUME job[c].todo # <<>>
               PROVE  FALSE
    OBVIOUS
  <2>1. pc' = [pc EXCEPT ![c] = "mkdir"]  BY <1>2 DEF MkdirNext, Works, Goto
  <2> QED  BY <1>1, <2>1 DEF Typed
<1>4. ToMake(c) = job[c].path /\ files' = AfterMkdir(ToMake(c))  BY <1>3 DEF ToMake, MkdirNext
<1> QED  BY <1>2, <1>4 DEF AfterMkdir, Exists, IsFile, FilesWith

\* A delete that reports success has removed what it was asked to remove, with whatever calls of
\* the system others make between its own; a mkdir that does has left a directory, or the file
\* that already had the name.
THEOREM SuccessIsDone == Spec => SuccessMeansDone
<1> DEFINE Done == \A c \in Client :
             /\ Ends200(c, Deleting) => job[c].path \notin DOMAIN files'
             /\ Ends200(c, {"mkdir"}) => /\ job[c].path \in DOMAIN files'
                                        /\ (files'[job[c].path] = Dir \/ IsFile(job[c].path))
<1>1. ConnectionsInv /\ [Next]_vars => [Done]_vars
  <2> SUFFICES ASSUME ConnectionsInv, Next
               PROVE  Done
    OBVIOUS
  <2>1. ASSUME NEW c \in Client, Ends200(c, Deleting)
        PROVE  job[c].path \notin DOMAIN files'
    <3>1. pc[c] \in Deleting /\ pc'[c] = "built" /\ pc[c] # "mkdir"  BY <2>1 DEF Ends200, Deleting
    <3> QED  BY <2>1, <3>1, WhoEnds, DeletedMeansDone DEF ConnectionsInv
  <2>2. ASSUME NEW c \in Client, Ends200(c, {"mkdir"})
        PROVE  /\ job[c].path \in DOMAIN files'
               /\ (files'[job[c].path] = Dir \/ IsFile(job[c].path))
    <3>1. pc[c] = "mkdir" /\ pc[c] \notin Deleting /\ pc'[c] = "built"  BY <2>2 DEF Ends200, Deleting
    <3> QED  BY <2>2, <3>1, WhoEnds, MadeMeansDone DEF ConnectionsInv
  <2> QED  BY <2>1, <2>2
<1>2. Spec => [][Done]_vars  BY <1>1, Inductive, PTL DEF Spec
<1> QED  BY <1>2 DEF SuccessMeansDone, Deleting

-----------------------------------------------------------------------------
(* Ranges *)

LEMMA NumbersBetween ==
  ASSUME NEW m \in Int, NEW n \in Int
  PROVE  Cardinality(m .. n) = IF m <= n THEN n - m + 1 ELSE 0
  BY FS_Interval

\* For every size and every Range that is not Disputed, a file that has not changed is answered with
\* the bytes that RFC 9110 selects, with their count and their place in the file, and with 416 exactly
\* when none is selected (http_server_serve_file).
THEOREM RangesAreExact ==
  ASSUME NEW request, IsRange(request.range), NEW full, NEW size \in Nat, ~Disputed(request.range, size)
  PROVE  Exact(FileAnswer(request, full, size, size), request)
<1> DEFINE a == FileAnswer(request, full, size, size)
           head == request.method = "HEAD"
<1>1. CASE request.range = None
  <2>1. UsedRange(None, size) = <<>>  BY DEF UsedRange
  <2>2. /\ a.status = 200 /\ a.promised = size /\ a.size = size /\ a.span = <<>>
        /\ a.bytes = IF head THEN {} ELSE Bytes(0, size - 1, size)
    BY <1>1, <2>1 DEF FileAnswer, None
  <2>3. Bytes(0, size - 1, size) = 0 .. size - 1  BY DEF Bytes
  <2>4. Cardinality(0 .. size - 1) = size  BY NumbersBetween
  <2> HIDE DEF a
  <2>5. Exact(a, request)  BY <1>1, <2>2, <2>3, <2>4 DEF Exact
  <2> QED  BY <2>5 DEF a
<1>2. ASSUME NEW first \in Nat \cup {-1}, NEW last \in Nat \cup {-1}, NEW several \in BOOLEAN,
             request.range = <<[first |-> first, last |-> last, several |-> several]>>
      PROVE  Exact(a, request)
  <2> DEFINE r == [first |-> first, last |-> last, several |-> several]
             used == UsedRange(<<r>>, size)
             wanted == Selected(r, size)
  <2>0. /\ <<r>> # None /\ <<r>>[1] = r /\ r.first = first /\ r.last = last /\ r.several = several
        /\ request.range = <<r>>
    BY <1>2 DEF None
  <2> HIDE DEF r
  <2>d. ~several /\ (size = 0 => first # -1)  BY <2>0 DEF Disputed
  <2>1. CASE used = <<>>
    <3>1. a.status = 416 /\ a.size = size /\ a.span = <<size>> /\ a.promised = 0 /\ a.bytes = {}
      BY <2>0, <2>1 DEF FileAnswer
    <3>2. wanted = {}
      <4>1. CASE first = -1
        <5>1. last <= 0  BY <2>0, <2>1, <2>d, <4>1 DEF UsedRange
        <5> QED  BY <2>0, <4>1, <5>1 DEF Selected
      <4>2. CASE first # -1
        <5>1. first >= size \/ (last # -1 /\ last < first)  BY <2>0, <2>1, <2>d, <4>2 DEF UsedRange
        <5> QED  BY <2>0, <4>2, <5>1 DEF Selected
      <4> QED  BY <4>1, <4>2
    <3> HIDE DEF a, used, wanted
    <3>3. Selected(request.range[1], a.size) = wanted  BY <2>0, <3>1 DEF wanted
    <3> QED  BY <2>0, <3>1, <3>2, <3>3 DEF Exact
  <2>2. CASE used # <<>>
    <3>1. PICK from \in Nat, to \in Nat :
            /\ used = <<from, to>> /\ from <= to
            /\ wanted = from .. to /\ Bytes(from, to, size) = from .. to
      <4>1. CASE first = -1
        <5> DEFINE from == IF last >= size THEN 0 ELSE size - last
                   to == IF size > 0 THEN size - 1 ELSE 0
        <5>1. last > 0 /\ used = <<from, to>> /\ size > 0  BY <2>0, <2>2, <2>d, <4>1 DEF UsedRange
        <5>2. from \in Nat /\ to \in Nat /\ from <= to  BY <5>1
        <5>3. wanted = from .. to  BY <2>0, <4>1, <5>1 DEF Selected
        <5>4. Bytes(from, to, size) = from .. to  BY <5>1 DEF Bytes
        <5> HIDE DEF from, to, used, wanted
        <5> QED  BY <5>1, <5>2, <5>3, <5>4
      <4>2. CASE first # -1
        <5> DEFINE to == IF last = -1 \/ last >= size THEN size - 1 ELSE last
        <5>1. first < size /\ (last = -1 \/ last >= first) /\ used = <<first, to>>
          BY <2>0, <2>2, <2>d, <4>2 DEF UsedRange
        <5>2. first \in Nat /\ to \in Nat /\ first <= to /\ to < size  BY <4>2, <5>1
        <5>3. wanted = first .. to  BY <2>0, <4>2, <5>1, <5>2 DEF Selected
        <5>4. Bytes(first, to, size) = first .. to  BY <5>2 DEF Bytes
        <5> HIDE DEF to, used, wanted
        <5> QED  BY <5>1, <5>2, <5>3, <5>4
      <4> QED  BY <4>1, <4>2
    <3>2. /\ a.status = 206 /\ a.promised = to - from + 1 /\ a.size = size /\ a.span = <<from, to, size>>
          /\ a.bytes = IF head THEN {} ELSE wanted
      BY <2>0, <2>2, <3>1 DEF FileAnswer
    <3>3. Cardinality(wanted) = to - from + 1  BY <3>1, NumbersBetween
    <3> HIDE DEF a, used, wanted
    <3>4. from \in wanted /\ to \in wanted /\ wanted # {}  BY <3>1
    <3>5. Selected(request.range[1], a.size) = wanted  BY <2>0, <3>2 DEF wanted
    <3> QED  BY <2>0, <3>1, <3>2, <3>3, <3>4, <3>5 DEF Exact
  <2> QED  BY <2>1, <2>2
<1>3. CASE request.range # None
  <2> DEFINE r == request.range[1]
  <2>1. request.range = <<r>> /\ r \in [first : Number, last : Number, several : BOOLEAN]
    BY <1>3 DEF IsRange
  <2>2. r = [first |-> r.first, last |-> r.last, several |-> r.several]  BY <2>1
  <2> QED  BY <1>2, <2>1, <2>2 DEF Number
<1> QED  BY <1>1, <1>3

LEMMA LeastIs ==
  ASSUME NEW S \in SUBSET Nat, S # {}
  PROVE  Least(S) \in S /\ \A i \in S : Least(S) <= i
<1>1. IsWellFoundedOn(OpToRel(<, Nat), Nat)  BY NatLessThanWellFounded, Zenon
<1>2. PICK m \in S : \A i \in S : <<i, m>> \notin OpToRel(<, Nat)
  BY <1>1, WFMin, Zenon
<1>3. \A i \in S : ~(i < m)  BY <1>2 DEF OpToRel
<1>4. \A i \in S : m <= i  BY <1>3
<1> QED  BY <1>4 DEF Least

LEMMA LeastIsIn ==
  ASSUME NEW S \in SUBSET Nat, Least(S) # NotFound
  PROVE  Least(S) \in S
<1>1. S # {}  BY DEF Least
<1> QED  BY <1>1, LeastIs

\* A text that a request gives is a sequence of pieces.
LEMMA PatternIsText ==
  ASSUME NEW members, HasTexts(members), NEW key, JsonPattern(members, key) # <<>>
  PROVE  IsSeq(JsonPattern(members, key)[1])
<1> DEFINE S == {i \in 1 .. Len(members) : /\ members[i].key = key
                                           /\ ~members[i].spaced
                                           /\ IsString(members[i].value)}
           at == Least(S)
<1>1. at # NotFound /\ JsonPattern(members, key) = <<members[at].value[2]>>  BY DEF JsonPattern
<1>2. S \in SUBSET Nat  OBVIOUS
<1>3. at \in S  BY <1>1, <1>2, LeastIsIn
<1>4. IsSeq(members[at].value[2])  BY <1>3 DEF HasTexts
<1> HIDE DEF at
<1> QED  BY <1>1, <1>4

\* The invariant of the theorem on ranges: every size is a number, and every request can be read.
Sized(f) == \A p \in DOMAIN f : f[p] \in Nat \cup {Dir}
RangeInv ==
  /\ Sized(files)
  /\ \A request \in traffic : IsRequest(request)
  /\ \A c \in Client : IsRequest(req[c])

LEMMA RangeInit == Init => RangeInv
<1>1. IsRequest(NoRequest)
  BY EmptySeq, EmptyIsSeq DEF IsRequest, IsRange, HasTexts, NoRequest, None, NoPath
<1> QED  BY <1>1, FilesAssumption, ScenarioAssumption DEF RangeInv, Sized, Init

\* What can become of the files.
LEMMA MadeSized ==
  ASSUME Sized(files), NEW path
  PROVE  Sized(AfterMkdir(path))
  BY DEF Sized, AfterMkdir, FilesWith

LEMMA RenamedSized ==
  ASSUME Sized(files), NEW old, NEW new, Exists(old), Rename(old, new)
  PROVE  Sized(files')
<1> DEFINE moved == {old} \cup Below(old)
           image(p) == new \o SubSeq(p, Len(old) + 1, Len(p))
           images == {image(p) : p \in moved}
           source(p) == CHOOSE q \in moved : image(q) = p
<1>1. moved \subseteq DOMAIN files  BY DEF Exists, Below
<1>2. \A p \in images : source(p) \in moved  OBVIOUS
<1>3. files' = [p \in images \cup (DOMAIN files \ moved) |-> IF p \in images THEN files[source(p)] ELSE files[p]]
  BY DEF Rename
<1> HIDE DEF moved, images, source
<1> QED  BY <1>1, <1>2, <1>3 DEF Sized

LEMMA WrittenSized ==
  ASSUME RangeInv, NEW c \in Client, CommandWrite(c)
  PROVE  Sized(files')
<1> DEFINE full == job[c].path
           size == CommandContent(c)
<1>1. \/ files' = files
      \/ IsFile(full) /\ files' = [files EXCEPT ![full] = size]
  BY DEF CommandWrite
<1>2. size \in Nat
  <2>1. CASE Pattern(c, "content") \in {<<>>, <<<<>>>>}
    BY <2>1 DEF CommandContent, DefaultContent
  <2>2. CASE Pattern(c, "content") \notin {<<>>, <<<<>>>>}
    <3>1. HasTexts(req[c].json)  BY DEF RangeInv, IsRequest
    <3>2. IsSeq(Pattern(c, "content")[1])  BY <2>2, <3>1, PatternIsText DEF Pattern
    <3> QED  BY <2>2, <3>2, SeqFacts DEF CommandContent
  <2> QED  BY <2>1, <2>2
<1> HIDE DEF size
<1> QED  BY <1>1, <1>2 DEF RangeInv, Sized

LEMMA FilesStep ==
  ASSUME RangeInv, NEW c \in Client, Endpoint(c)
  PROVE  Sized(files')
<1>0. Sized(files)  BY DEF RangeInv
<1>1. \/ UNCHANGED files
      \/ CommandWrite(c)
      \/ \E path : files' = AfterMkdir(path)
      \/ \E path : files' = FilesWith(path, 0)
      \/ \E path : RemoveFile(path)
      \/ \E old, new : Exists(old) /\ Rename(old, new)
  <2>1. CASE DeleteNext(c) \/ DeleteFile(c) \/ DeleteOpen(c) \/ DeleteDirectory(c)
    BY <2>1 DEF DeleteNext, DeleteFile, DeleteOpen, DeleteDirectory
  <2>2. CASE RenameFile(c) \/ RenameParent(c)  BY <2>2, Zenon DEF RenameFile, RenameFails, RenameParent, Refuses
  <2>3. CASE OptionsEndpoint(c) \/ GenerateEndpoint(c) \/ UnknownEndpoint(c) \/ List(c) \/ Run(c) \/ RunRefused(c)
    BY <2>3 DEF OptionsEndpoint, GenerateEndpoint, UnknownEndpoint, List, Run, RunRefused, Refuses, workspaceVars
  <2>4. CASE EnsureRoot(c) \/ EnsureWritten(c) \/ EnsureMade(c) \/ SwitchMake(c) \/ SwitchBegin(c) \/ SwitchEnd(c)
    BY <2>4 DEF EnsureRoot, EnsureWritten, EnsureMade, SwitchMake, SwitchBegin, SwitchEnd, BeginsRoot
  <2>5. CASE Read(c)  BY <2>5 DEF Read, Refuses
  <2>6. CASE CommandOpen(c)  BY <2>6 DEF CommandOpen, Refuses
  <2>7. CASE MkdirBuild(c)  BY <2>7 DEF MkdirBuild, Refuses
  <2>8. CASE MkdirSplit(c)  BY <2>8, Zenon DEF MkdirSplit
  <2>9. CASE MkdirNext(c)  BY <2>9 DEF MkdirNext
  <2>10. CASE DeleteLookup(c)  BY <2>10 DEF DeleteLookup
  <2> QED  BY <2>1, <2>2, <2>3, <2>4, <2>5, <2>6, <2>7, <2>8, <2>9, <2>10 DEF Endpoint
<1>2. ASSUME NEW path, files' = FilesWith(path, 0)
      PROVE  Sized(files')
  BY <1>0, <1>2 DEF Sized, FilesWith
<1>3. ASSUME NEW path, RemoveFile(path)
      PROVE  Sized(files')
  BY <1>0, <1>3 DEF Sized, RemoveFile
<1> QED  BY <1>0, <1>1, <1>2, <1>3, MadeSized, RenamedSized, WrittenSized

\* What a connection takes of a request that can be read can be read.
LEMMA ParsedReads ==
  ASSUME Typed, RangeInv, NEW c \in Client, NEW got, Parsed(c, got)
  PROVE  \A d \in Client : IsRequest(req'[d])
<1> DEFINE old == req[c]
           body == BodyRead(old, got)
           new == [old EXCEPT !.range = IF got = 1 THEN None ELSE old.range,
                              !.boundary = IF got = 1 THEN "" ELSE old.boundary,
                              !.body = body,
                              !.json = IF body = old.body THEN old.json ELSE <<>>]
<1>1. \A d \in Client : req'[d] = IF d = c THEN new ELSE req[d]  BY DEF Parsed, Typed, On
<1>2. IsRequest(old)  BY DEF RangeInv
<1>3. /\ DOMAIN new = DOMAIN old
      /\ new.range \in {None, old.range} /\ new.json \in {<<>>, old.json} /\ new.path = old.path
  BY <1>2 DEF IsRequest
<1>4. HasTexts(<<>>)  BY EmptySeq DEF HasTexts
<1> HIDE DEF new
<1>5. IsRequest(new)  BY <1>2, <1>3, <1>4 DEF IsRequest, IsRange
<1> QED  BY <1>1, <1>5 DEF RangeInv

LEMMA RequestsStep ==
  ASSUME Typed, RangeInv, NEW c \in Client, Connection(c)
  PROVE  \A d \in Client : IsRequest(req'[d])
<1>1. \/ UNCHANGED req
      \/ \E got : Parsed(c, got)
      \/ req' = [req EXCEPT ![c] = NoRequest]
  <2>1. CASE ReadFirst(c)  BY <2>1 DEF ReadFirst
  <2>2. CASE ReadMore(c)  BY <2>2 DEF ReadMore
  <2>3. CASE TryMount(c) \/ SetRoot(c) \/ OpenFile(c) \/ SendFile(c) \/ TryIndex(c) \/ NoRoute(c) \/ Lost(c)
    BY <2>3 DEF TryMount, SetRoot, OpenFile, SendFile, TryIndex, NoRoute, Lost, SaveRoot, Stays
  <2>4. CASE RestoreRoot(c) \/ Legacy(c) \/ Build(c) \/ NotFoundAnswer(c)
    BY <2>4 DEF RestoreRoot, Legacy, Build, NotFoundAnswer, Sends, Ends
  <2>5. CASE Route(c)  BY <2>5, Zenon DEF Route
  <2>7. CASE HandlerReturns(c)  BY <2>7 DEF HandlerReturns
  <2>6. CASE Endpoint(c)  BY <2>6, EndpointGoes
  <2> QED  BY <2>1, <2>2, <2>3, <2>4, <2>5, <2>6, <2>7 DEF Connection
<1>2. IsRequest(NoRequest)
  BY EmptySeq, EmptyIsSeq DEF IsRequest, IsRange, HasTexts, NoRequest, None, NoPath
<1> QED  BY <1>1, <1>2, ParsedReads DEF RangeInv, Typed, On

LEMMA RangeNext ==
  ASSUME Typed, RangeInv, [Next]_vars
  PROVE  RangeInv'
<1>1. UNCHANGED traffic
  BY DEF Next, vars
<1>2. CASE Script \/ UNCHANGED vars
  <2>1. UNCHANGED <<req, files>>
    BY <1>2, ScriptFrame DEF workspaceVars, vars
  <2> QED  BY <1>1, <2>1 DEF RangeInv
<1>3. ASSUME NEW l \in Listener, Listening(l)
      PROVE  RangeInv'
  <2>1. UNCHANGED files
    BY <1>3 DEF Listening, ListenerLost, CreateSocket, Bind, Loop, Accept, ListensAt, workspaceVars
  <2>2. UNCHANGED req \/ \E c \in Client : \E request \in traffic : req' = [req EXCEPT ![c] = request]
    BY <1>3 DEF Listening, ListenerLost, CreateSocket, Bind, Loop, Accept
  <2>3. \A d \in Client : IsRequest(req'[d])  BY <2>2 DEF RangeInv, Typed, On
  <2> QED  BY <1>1, <2>1, <2>3 DEF RangeInv
<1>4. ASSUME NEW c \in Client, Connection(c)
      PROVE  RangeInv'
  <2>1. Sized(files')
    <3>1. CASE Endpoint(c)  BY <3>1, FilesStep
    <3>2. CASE ~Endpoint(c)
      <4>1. UNCHANGED files
        <5>1. CASE ReadFirst(c) \/ ReadMore(c)
          BY <5>1, ParsedStep, Zenon DEF ReadFirst, ReadMore, Moves, workspaceVars
        <5>2. CASE TryMount(c) \/ SetRoot(c) \/ OpenFile(c) \/ SendFile(c) \/ RestoreRoot(c) \/ TryIndex(c) \/ NoRoute(c)
          BY <5>2 DEF TryMount, SetRoot, OpenFile, SendFile, RestoreRoot, TryIndex, NoRoute, SaveRoot, Moves, workspaceVars
        <5>3. CASE Route(c)  BY <5>3, Zenon DEF Route, Moves, workspaceVars
        <5>4. CASE Legacy(c) \/ HandlerReturns(c) \/ Build(c) \/ NotFoundAnswer(c) \/ Lost(c)
          BY <5>4 DEF Legacy, HandlerReturns, Build, NotFoundAnswer, Lost, Sends, Moves, workspaceVars
        <5> QED  BY <1>4, <3>2, <5>1, <5>2, <5>3, <5>4 DEF Connection
      <4> QED  BY <4>1 DEF RangeInv
    <3> QED  BY <3>1, <3>2
  <2>2. \A d \in Client : IsRequest(req'[d])  BY <1>4, RequestsStep
  <2> QED  BY <1>1, <2>1, <2>2 DEF RangeInv
<1> QED  BY <1>2, <1>3, <1>4 DEF Next

LEMMA RangeHolds == Spec => []RangeInv
<1>1. ConnectionsInv => Typed  BY DEF ConnectionsInv
<1> QED  BY <1>1, RangeInit, RangeNext, Inductive, PTL DEF Spec

\* In every execution, a file that is not written meanwhile is answered with the bytes that were
\* asked for, which its head counts and places in the file, unless the Range is Disputed
\* (http_server_serve_file).
THEOREM FilesAreExact == Spec => RangeExact
<1> DEFINE Answer(c) == AnswersFile(c) =>
             LET a == Last(answer'[c])
             IN  \/ ~IsFile(a.full) \/ files[a.full] # a.size
                 \/ Disputed(req[c].range, a.size)
                 \/ Exact(a, req[c])
<1>1. Typed /\ RangeInv /\ [Next]_vars => [\A c \in Client : Answer(c)]_vars
  <2> SUFFICES ASSUME Typed, RangeInv, Next, NEW c \in Client, AnswersFile(c),
                      IsFile(Last(answer'[c]).full), files[Last(answer'[c]).full] = Last(answer'[c]).size,
                      ~Disputed(req[c].range, Last(answer'[c]).size)
               PROVE  Exact(Last(answer'[c]), req[c])
    OBVIOUS
  <2> DEFINE full == local[c].full
             size == local[c].size
             now == IF IsFile(full) THEN files[full] ELSE size
             a == FileAnswer(req[c], full, size, now)
  <2>1. SendFile(c)  BY FileIsSent
  <2>2. answer' = [answer EXCEPT ![c] = Append(answer[c], a)]  BY <2>1 DEF SendFile
  <2>3. a.full = full /\ a.size = size  BY DEF FileAnswer
  <2> HIDE DEF a
  <2>4. Last(answer'[c]) = a  BY <2>2, LastAnswer
  <2>5. IsFile(full) /\ files[full] = size  BY <2>3, <2>4
  <2>6. size \in Nat  BY <2>5 DEF RangeInv, Sized, IsFile, Exists
  <2>7. IsRange(req[c].range)  BY DEF RangeInv, IsRequest
  <2>8. a = FileAnswer(req[c], full, size, size)  BY <2>5 DEF a
  <2> HIDE DEF full, size
  <2>9. ~Disputed(req[c].range, size)  BY <2>3, <2>4
  <2>10. Exact(FileAnswer(req[c], full, size, size), req[c])  BY <2>6, <2>7, <2>9, RangesAreExact
  <2> QED  BY <2>4, <2>8, <2>10
<1>2. ConnectionsInv => Typed  BY DEF ConnectionsInv
<1>3. Spec => [][\A c \in Client : Answer(c)]_vars  BY <1>1, <1>2, RangeHolds, Inductive, PTL DEF Spec
<1> QED  BY <1>3 DEF RangeExact

-----------------------------------------------------------------------------
(* A text from a position on: where it is cut at its slashes, and its      *)
(* segments.  match_route_path is shown to compute what Fits says by going *)
(* down from the ends of the texts.                                        *)

Upto(I, i) == Cardinality({j \in I : j <= i})
Nth(I, k) == CHOOSE i \in I : Upto(I, i) = k

LEMMA UptoIs ==
  ASSUME NEW I \in SUBSET Nat, IsFiniteSet(I), NEW i \in I
  PROVE  /\ Upto(I, i) \in 1 .. Cardinality(I)
         /\ \A k \in I : i < k => Upto(I, i) < Upto(I, k)
         /\ Nth(I, Upto(I, i)) = i
<1> DEFINE below(k) == {j \in I : j <= k}
<1>0. \A j \in I : j \in Nat  OBVIOUS
<1>1. \A k \in I : /\ IsFiniteSet(below(k)) /\ Cardinality(below(k)) \in Nat
                   /\ Cardinality(below(k)) <= Cardinality(I)
  BY FS_Subset, FS_CardinalityType
<1>2. i \in below(i)  OBVIOUS
<1>3. Cardinality(below(i)) # 0  BY <1>1, <1>2, FS_EmptySet
<1>4. ASSUME NEW j \in I, NEW k \in I, j < k PROVE Upto(I, j) < Upto(I, k)
  <2>1. below(j) \in SUBSET below(k) /\ k \in below(k) /\ k \notin below(j)
    <3>1. (\A h \in I : h <= j => h <= k) /\ k <= k /\ ~(k <= j)
      BY <1>0, <1>4
    <3> QED  BY <3>1
  <2>2. Cardinality(below(j)) <= Cardinality(below(k)) /\ Cardinality(below(j)) # Cardinality(below(k))
    BY <1>1, <2>1, FS_Subset
  <2> QED  BY <1>1, <2>2 DEF Upto
<1>5. Cardinality(I) \in Nat  BY FS_CardinalityType
<1>6. \A k \in I : Upto(I, k) \in Nat  BY <1>1 DEF Upto
<1>7. \A k \in I : Upto(I, k) = Upto(I, i) => k = i
  <2> SUFFICES ASSUME NEW k \in I, Upto(I, k) = Upto(I, i), k # i PROVE FALSE
    OBVIOUS
  <2>1. i < k \/ k < i  BY <1>0
  <2> QED  BY <1>4, <1>6, <2>1
<1> QED  BY <1>1, <1>3, <1>4, <1>5, <1>7 DEF Upto, Nth

LEMMA NthIn ==
  ASSUME NEW I \in SUBSET Nat, IsFiniteSet(I), NEW k \in 1 .. Cardinality(I)
  PROVE  Nth(I, k) \in I /\ Upto(I, Nth(I, k)) = k
<1> DEFINE n == Cardinality(I)
           f == [i \in I |-> Upto(I, i)]
<1>0. n \in Nat  BY FS_CardinalityType
<1>1. f \in Injection(I, 1 .. n)
  <2>1. f \in [I -> 1 .. n]  BY UptoIs
  <2>2. ASSUME NEW i \in I, NEW j \in I, f[i] = f[j] PROVE i = j
    <3>1. Upto(I, i) = Upto(I, j)  BY <2>2
    <3> QED  BY <3>1, UptoIs
  <2> QED  BY <2>1, <2>2 DEF Injection, IsInjective
<1>2. IsFiniteSet(1 .. n) /\ Cardinality(1 .. n) = n
  BY <1>0, FS_Interval
<1>3. f \in Surjection(I, 1 .. n)
  <2> HIDE DEF f
  <2> QED  BY <1>1, <1>2, FS_Injection
<1>4. PICK i \in I : f[i] = k
  BY <1>3 DEF Surjection
<1>5. Upto(I, i) = k  BY <1>4
<1> QED  BY <1>5, UptoIs

\* With one more before the others, each comes one later.
LEMMA NthAfterFirst ==
  ASSUME NEW I \in SUBSET Nat, IsFiniteSet(I), NEW m \in Nat, \A i \in I : m < i
  PROVE  LET J == I \cup {m}
         IN  /\ Cardinality(J) = Cardinality(I) + 1 /\ Nth(J, 1) = m
             /\ \A k \in 1 .. Cardinality(I) : Nth(J, k + 1) = Nth(I, k)
<1> DEFINE J == I \cup {m}
<1>0. \A i \in I : i \in Nat  OBVIOUS
<1>1. m \notin I  BY <1>0
<1>2. J \in SUBSET Nat /\ IsFiniteSet(J) /\ Cardinality(J) = Cardinality(I) + 1
  BY <1>1, FS_AddElement
<1>3. Upto(J, m) = 1
  <2>1. \A j \in J : j <= m <=> j = m  BY <1>0
  <2>2. m \in J  OBVIOUS
  <2> HIDE DEF J
  <2>3. {j \in J : j <= m} = {m}  BY <2>1, <2>2
  <2> QED  BY <2>3, FS_Singleton DEF Upto
<1>4. ASSUME NEW k \in 1 .. Cardinality(I) PROVE Nth(J, k + 1) = Nth(I, k)
  <2> DEFINE i == Nth(I, k)
             below == {j \in I : j <= i}
  <2>1. i \in I /\ Cardinality(below) = k  BY NthIn DEF Upto
  <2>2. {j \in J : j <= i} = below \cup {m}
    <3> HIDE DEF i, below
    <3>1. m < i  BY <2>1
    <3>2. m <= i  BY <1>0, <2>1, <3>1
    <3> USE DEF below
    <3> QED  BY <3>2
  <2>3. IsFiniteSet(below) /\ m \notin below  BY <1>1, FS_Subset
  <2> HIDE DEF below
  <2>4. Cardinality(below \cup {m}) = k + 1  BY <2>1, <2>3, FS_AddElement
  <2> HIDE DEF i
  <2>5. Upto(J, i) = k + 1  BY <2>2, <2>4 DEF Upto
  <2>6. i \in J  BY <2>1
  <2> HIDE DEF J
  <2>7. Nth(J, Upto(J, i)) = i  BY <1>2, <2>6, UptoIs
  <2> QED  BY <2>5, <2>7 DEF i
<1>5. Nth(J, 1) = m
  <2>1. m \in J  OBVIOUS
  <2> HIDE DEF J
  <2>2. Nth(J, Upto(J, m)) = m  BY <1>2, <2>1, UptoIs
  <2> QED  BY <1>3, <2>2
<1> QED  BY <1>2, <1>4, <1>5

SlashesFrom(s, i) == {j \in i .. Len(s) : s[j] = Slash}
CutsFrom(s, i) == Cardinality(SlashesFrom(s, i))
CutFrom(s, i, k) ==
    CASE k = 0 -> i - 1
      [] k > CutsFrom(s, i) -> Len(s) + 1
      [] OTHER -> Nth(SlashesFrom(s, i), k)
SegmentFrom(s, i, k) == SubSeq(s, CutFrom(s, i, k) + 1, CutFrom(s, i, k + 1) - 1)

LEMMA FromStart ==
  ASSUME NEW s
  PROVE  CutsFrom(s, 1) = Cuts(s) /\ \A k \in Nat : SegmentFrom(s, 1, k) = Segment(s, k)
<1>1. SlashesFrom(s, 1) = Slashes(s)  BY DEF SlashesFrom, Slashes
<1>2. CutsFrom(s, 1) = Cuts(s)  BY <1>1 DEF CutsFrom, Cuts
<1>3. \A k \in Nat : CutFrom(s, 1, k) = Cut(s, k)
  <2> SUFFICES ASSUME NEW k \in Nat PROVE CutFrom(s, 1, k) = Cut(s, k)
    OBVIOUS
  <2>1. Nth(Slashes(s), k) = CHOOSE i \in Slashes(s) : Cardinality({j \in Slashes(s) : j <= i}) = k
    BY DEF Nth, Upto
  <2>2. CutFrom(s, 1, k) = CASE k = 0 -> 0 [] k > Cuts(s) -> Len(s) + 1 [] OTHER -> Nth(Slashes(s), k)
    BY <1>1, <1>2 DEF CutFrom
  <2> QED  BY <2>1, <2>2, Zenon DEF Cut
<1>4. \A k \in Nat : k + 1 \in Nat  OBVIOUS
<1> QED  BY <1>2, <1>3, <1>4 DEF SegmentFrom, Segment

LEMMA SlashesAre ==
  ASSUME NEW s, IsSeq(s), NEW i \in 1 .. Len(s) + 1
  PROVE  /\ SlashesFrom(s, i) \in SUBSET Nat /\ IsFiniteSet(SlashesFrom(s, i))
         /\ CutsFrom(s, i) \in Nat /\ Len(s) \in Nat
<1>1. Len(s) \in Nat  BY SeqFacts
<1>2. IsFiniteSet(i .. Len(s))  BY <1>1, FS_Interval
<1>3. SlashesFrom(s, i) \subseteq i .. Len(s)  BY DEF SlashesFrom
<1> QED  BY <1>1, <1>2, <1>3, FS_Subset, FS_CardinalityType DEF CutsFrom

\* Up to where a segment ends there is no slash.
LEMMA EndOfIs ==
  ASSUME NEW s, IsSeq(s), NEW i \in 1 .. Len(s) + 1
  PROVE  /\ EndOf(s, i) \in i .. Len(s) + 1
         /\ \A j \in i .. EndOf(s, i) - 1 : s[j] # Slash
         /\ EndOf(s, i) <= Len(s) => s[EndOf(s, i)] = Slash
         /\ SlashesFrom(s, EndOf(s, i)) = SlashesFrom(s, i)
         /\ i <= Len(s) => (EndOf(s, i) = i <=> s[i] = Slash)
<1> DEFINE S == SlashesFrom(s, i)
<1>0. Len(s) \in Nat /\ S \in SUBSET Nat  BY SlashesAre
<1>1. EndOf(s, i) = IF S = {} THEN Len(s) + 1 ELSE Least(S)  BY DEF EndOf, SlashesFrom
<1>2. \A j : j \in S <=> j \in i .. Len(s) /\ s[j] = Slash  BY DEF SlashesFrom
<1>3. EndOf(s, i) \in i .. Len(s) + 1 /\ \A j \in S : EndOf(s, i) <= j
  <2>1. CASE S = {}  BY <1>0, <1>1, <2>1
  <2>2. CASE S # {}
    <3> HIDE DEF S
    <3>1. Least(S) \in S /\ \A j \in S : Least(S) <= j  BY <1>0, <2>2, LeastIs
    <3> QED  BY <1>0, <1>1, <1>2, <2>2, <3>1
  <2> QED  BY <2>1, <2>2
<1>4. EndOf(s, i) <= Len(s) => EndOf(s, i) \in S
  <2>1. CASE S = {}  BY <1>0, <1>1, <2>1
  <2>2. CASE S # {}
    <3> HIDE DEF S
    <3> QED  BY <1>0, <1>1, <2>2, LeastIs
  <2> QED  BY <2>1, <2>2
<1> HIDE DEF S
<1> DEFINE e == EndOf(s, i)
<1>5. e \in i .. Len(s) + 1 /\ e \in Nat  BY <1>0, <1>3
<1>6. \A j \in i .. e - 1 : j \notin S  BY <1>0, <1>3, <1>5
<1>7. \A j \in i .. e - 1 : s[j] # Slash  BY <1>0, <1>2, <1>5, <1>6
<1>8. SlashesFrom(s, e) = S
  <2>1. \A j : j \in SlashesFrom(s, e) <=> j \in e .. Len(s) /\ s[j] = Slash  BY DEF SlashesFrom
  <2>2. \A j \in S : j \in e .. Len(s)  BY <1>0, <1>2, <1>3, <1>5
  <2>3. \A j \in e .. Len(s) : j \in i .. Len(s)  BY <1>0, <1>5
  <2> QED  BY <1>2, <2>1, <2>2, <2>3
<1>9. i <= Len(s) => (e = i <=> s[i] = Slash)
  <2> SUFFICES ASSUME i <= Len(s) PROVE e = i <=> s[i] = Slash
    OBVIOUS
  <2>1. i \in i .. Len(s)  BY <1>0
  <2>2. ASSUME s[i] = Slash PROVE e = i
    <3>1. i \in S  BY <1>2, <2>1, <2>2
    <3>2. e <= i  BY <1>3, <3>1
    <3> QED  BY <1>5, <3>2
  <2>3. ASSUME e = i PROVE s[i] = Slash  BY <1>2, <1>4, <2>3
  <2> QED  BY <2>2, <2>3
<1> QED  BY <1>2, <1>4, <1>5, <1>7, <1>8, <1>9 DEF S

LEMMA FirstSegment ==
  ASSUME NEW s, IsSeq(s), NEW i \in 1 .. Len(s) + 1
  PROVE  /\ CutFrom(s, i, 1) = EndOf(s, i)
         /\ SegmentFrom(s, i, 0) = SubSeq(s, i, EndOf(s, i) - 1)
<1> DEFINE S == SlashesFrom(s, i)
<1>0. /\ S \in SUBSET Nat /\ IsFiniteSet(S) /\ Cardinality(S) \in Nat /\ Len(s) \in Nat
      /\ CutsFrom(s, i) = Cardinality(S)
  BY SlashesAre DEF CutsFrom
<1>1. EndOf(s, i) = IF S = {} THEN Len(s) + 1 ELSE Least(S)  BY DEF EndOf, SlashesFrom
<1>2. CutFrom(s, i, 1) = IF 1 > Cardinality(S) THEN Len(s) + 1 ELSE Nth(S, 1)
  BY <1>0 DEF CutFrom
<1> HIDE DEF S
<1>3. CutFrom(s, i, 1) = EndOf(s, i)
  <2>1. CASE S = {}  BY <1>1, <1>2, <2>1, FS_EmptySet
  <2>2. CASE S # {}
    <3>1. Least(S) \in S /\ \A j \in S : Least(S) <= j  BY <1>0, <2>2, LeastIs
    <3> DEFINE I == S \ {Least(S)}
    <3>2. I \in SUBSET Nat /\ IsFiniteSet(I) /\ Least(S) \in Nat /\ \A j \in I : Least(S) < j
      <4>1. I \subseteq S  OBVIOUS
      <4>2. \A j \in I : j \in Nat /\ Least(S) <= j /\ j # Least(S)  BY <1>0, <3>1
      <4>3. Least(S) \in Nat  BY <1>0, <3>1
      <4>4. IsFiniteSet(I) /\ I \in SUBSET Nat  BY <1>0, <4>1, FS_Subset
      <4>5. \A j \in I : Least(S) < j  BY <4>2, <4>3
      <4> QED  BY <4>3, <4>4, <4>5
    <3>3. I \cup {Least(S)} = S  BY <3>1
    <3> HIDE DEF I
    <3> DEFINE m == Least(S)
    <3>4. Nth(S, 1) = m
      <4>1. m \in Nat /\ (\A j \in I : m < j) /\ I \cup {m} = S  BY <3>2, <3>3
      <4> HIDE DEF m
      <4> QED  BY <3>2, <4>1, NthAfterFirst
    <3>5. Cardinality(S) # 0  BY <1>0, <2>2, FS_EmptySet
    <3>6. ~(1 > Cardinality(S))  BY <1>0, <3>5
    <3> QED  BY <1>1, <1>2, <2>2, <3>4, <3>6, Zenon
  <2> QED  BY <2>1, <2>2
<1>4. CutFrom(s, i, 0) + 1 = i
  <2>1. CutFrom(s, i, 0) = i - 1  BY <1>0 DEF CutFrom
  <2> QED  BY <1>0, <2>1
<1>5. CutFrom(s, i, 0 + 1) = CutFrom(s, i, 1)  OBVIOUS
<1> QED  BY <1>3, <1>4, <1>5 DEF SegmentFrom

\* Where two positions see the same slashes, they see the same segments after the first.
LEMMA SameSlashes ==
  ASSUME NEW s, NEW i, NEW j, SlashesFrom(s, i) = SlashesFrom(s, j)
  PROVE  CutsFrom(s, i) = CutsFrom(s, j) /\ \A k \in Nat \ {0} : SegmentFrom(s, i, k) = SegmentFrom(s, j, k)
<1>1. CutsFrom(s, i) = CutsFrom(s, j)  BY DEF CutsFrom
<1>2. \A k \in Nat \ {0} : CutFrom(s, i, k) = CutFrom(s, j, k)  BY <1>1 DEF CutFrom
<1>3. \A k \in Nat \ {0} : k + 1 \in Nat \ {0}  OBVIOUS
<1> QED  BY <1>1, <1>2, <1>3 DEF SegmentFrom

LEMMA EmptyPart ==
  ASSUME NEW s, NEW i \in Nat
  PROVE  SubSeq(s, i, i - 1) = <<>> /\ SubSeq(s, i + 1, i) = <<>>
  BY EmptySeq

LEMMA SegmentsAtEnd ==
  ASSUME NEW s, IsSeq(s)
  PROVE  /\ CutsFrom(s, Len(s) + 1) = 0
         /\ SegmentFrom(s, Len(s) + 1, 0) = <<>>
<1>1. Len(s) \in Nat /\ Len(s) + 1 \in 1 .. Len(s) + 1  BY SeqFacts
<1>2. SlashesFrom(s, Len(s) + 1) = {}  BY <1>1 DEF SlashesFrom
<1>3. CutsFrom(s, Len(s) + 1) = 0  BY <1>2, FS_EmptySet DEF CutsFrom
<1>4. EndOf(s, Len(s) + 1) = Len(s) + 1  BY <1>1, EndOfIs
<1>5. SegmentFrom(s, Len(s) + 1, 0) = SubSeq(s, Len(s) + 1, Len(s) + 1 - 1)
  BY <1>1, <1>4, FirstSegment
<1>6. SubSeq(s, Len(s) + 1, Len(s) + 1 - 1) = <<>>  BY <1>1, EmptyPart
<1> QED  BY <1>3, <1>5, <1>6

\* Past a character that is no slash.
LEMMA SegmentsPastLiteral ==
  ASSUME NEW s, IsSeq(s), NEW i \in 1 .. Len(s), s[i] # Slash
  PROVE  /\ EndOf(s, i + 1) = EndOf(s, i) /\ EndOf(s, i) >= i + 1
         /\ CutsFrom(s, i + 1) = CutsFrom(s, i)
         /\ \A k \in Nat \ {0} : SegmentFrom(s, i + 1, k) = SegmentFrom(s, i, k)
<1>1. Len(s) \in Nat /\ i \in 1 .. Len(s) + 1 /\ i + 1 \in 1 .. Len(s) + 1  BY SeqFacts
<1>2. SlashesFrom(s, i + 1) = SlashesFrom(s, i)
  <2>1. \A j \in i .. Len(s) : j = i \/ j \in i + 1 .. Len(s)  BY <1>1
  <2>2. \A j \in i + 1 .. Len(s) : j \in i .. Len(s)  BY <1>1
  <2> QED  BY <2>1, <2>2 DEF SlashesFrom
<1>3. EndOf(s, i + 1) = EndOf(s, i)
  <2>1. EndOf(s, i + 1) = IF SlashesFrom(s, i + 1) = {} THEN Len(s) + 1 ELSE Least(SlashesFrom(s, i + 1))
    BY DEF EndOf, SlashesFrom
  <2>2. EndOf(s, i) = IF SlashesFrom(s, i) = {} THEN Len(s) + 1 ELSE Least(SlashesFrom(s, i))
    BY DEF EndOf, SlashesFrom
  <2> QED  BY <1>2, <2>1, <2>2
<1>4. EndOf(s, i) >= i + 1
  <2>1. EndOf(s, i + 1) \in i + 1 .. Len(s) + 1  BY <1>1, EndOfIs
  <2> QED  BY <1>1, <1>3, <2>1
<1> QED  BY <1>2, <1>3, <1>4, SameSlashes

\* Past a slash.
LEMMA SegmentsPastSlash ==
  ASSUME NEW s, IsSeq(s), NEW i \in 1 .. Len(s), s[i] = Slash
  PROVE  /\ SegmentFrom(s, i, 0) = <<>>
         /\ CutsFrom(s, i) = CutsFrom(s, i + 1) + 1
         /\ \A k \in 0 .. CutsFrom(s, i + 1) : SegmentFrom(s, i, k + 1) = SegmentFrom(s, i + 1, k)
<1> DEFINE I == SlashesFrom(s, i + 1)
           n == Cardinality(I)
<1>1. Len(s) \in Nat /\ i \in 1 .. Len(s) + 1 /\ i + 1 \in 1 .. Len(s) + 1 /\ i \in Nat  BY SeqFacts
<1>2. I \in SUBSET Nat /\ IsFiniteSet(I) /\ n \in Nat /\ CutsFrom(s, i + 1) = n
  BY <1>1, SlashesAre DEF CutsFrom
<1>3. SlashesFrom(s, i) = I \cup {i} /\ \A j \in I : i < j
  <2>1. \A j \in i .. Len(s) : j = i \/ j \in i + 1 .. Len(s)  BY <1>1
  <2>2. \A j \in i + 1 .. Len(s) : j \in i .. Len(s) /\ i < j  BY <1>1
  <2>3. i \in i .. Len(s)  BY <1>1
  <2> QED  BY <2>1, <2>2, <2>3 DEF SlashesFrom
<1> HIDE DEF I
<1>4. /\ Cardinality(I \cup {i}) = n + 1 /\ Nth(I \cup {i}, 1) = i
      /\ \A k \in 1 .. n : Nth(I \cup {i}, k + 1) = Nth(I, k)
  BY <1>1, <1>2, <1>3, NthAfterFirst
<1> HIDE DEF n
<1>5. CutsFrom(s, i) = n + 1  BY <1>3, <1>4 DEF CutsFrom
<1>6. EndOf(s, i) = i  BY <1>1, EndOfIs
<1>7. SegmentFrom(s, i, 0) = <<>>
  <2>1. SegmentFrom(s, i, 0) = SubSeq(s, i, i - 1)  BY <1>1, <1>6, FirstSegment
  <2> QED  BY <1>1, <2>1, EmptyPart
<1>8. \A k \in 0 .. n + 1 : CutFrom(s, i, k + 1) = CutFrom(s, i + 1, k)
  <2> SUFFICES ASSUME NEW k \in 0 .. n + 1 PROVE CutFrom(s, i, k + 1) = CutFrom(s, i + 1, k)
    OBVIOUS
  <2>0. k \in Nat /\ k + 1 # 0 /\ (k + 1 > n + 1 <=> k > n)  BY <1>2
  <2>1. CutFrom(s, i, k + 1) = IF k > n THEN Len(s) + 1 ELSE Nth(I \cup {i}, k + 1)
    BY <1>3, <1>5, <2>0 DEF CutFrom
  <2>2. CASE k = 0
    <3>1. CutFrom(s, i + 1, 0) = i + 1 - 1  BY <1>2 DEF CutFrom
    <3>2. i + 1 - 1 = i /\ ~(0 > n) /\ 0 + 1 = 1  BY <1>1, <1>2
    <3> QED  BY <1>4, <2>1, <2>2, <3>1, <3>2
  <2>3. CASE k # 0
    <3>1. CutFrom(s, i + 1, k) = IF k > n THEN Len(s) + 1 ELSE Nth(I, k)
      BY <1>2, <2>3 DEF CutFrom, I
    <3>2. ~(k > n) => k \in 1 .. n  BY <1>2, <2>0, <2>3
    <3> QED  BY <1>4, <2>1, <3>1, <3>2
  <2> QED  BY <2>2, <2>3
<1>9. \A k \in 0 .. n : k \in 0 .. n + 1 /\ k + 1 \in 0 .. n + 1  BY <1>2
<1> QED  BY <1>2, <1>5, <1>7, <1>8, <1>9 DEF SegmentFrom

\* At the end of the segment.
LEMMA SegmentsAtCut ==
  ASSUME NEW s, IsSeq(s), NEW i \in 1 .. Len(s) + 1
  PROVE  LET e == EndOf(s, i)
         IN  /\ SegmentFrom(s, e, 0) = <<>> /\ CutsFrom(s, e) = CutsFrom(s, i)
             /\ \A k \in Nat \ {0} : SegmentFrom(s, e, k) = SegmentFrom(s, i, k)
<1> DEFINE e == EndOf(s, i)
<1>1. /\ Len(s) \in Nat /\ e \in 1 .. Len(s) + 1 /\ SlashesFrom(s, e) = SlashesFrom(s, i)
      /\ e <= Len(s) => s[e] = Slash
  BY EndOfIs, SeqFacts
<1> HIDE DEF e
<1>2. SegmentFrom(s, e, 0) = <<>>
  <2>1. CASE e = Len(s) + 1  BY <2>1, SegmentsAtEnd
  <2>2. CASE e # Len(s) + 1
    <3>1. e \in 1 .. Len(s)  BY <1>1, <2>2
    <3> QED  BY <1>1, <3>1, SegmentsPastSlash
  <2> QED  BY <2>1, <2>2
<1> QED  BY <1>1, <1>2, SameSlashes DEF e

-----------------------------------------------------------------------------
(* What a segment of a pattern fits *)

LEMMA PartIs ==
  ASSUME NEW s, IsSeq(s), NEW a \in 1 .. Len(s) + 1, NEW b \in a - 1 .. Len(s)
  PROVE  /\ IsSeq(SubSeq(s, a, b)) /\ Len(SubSeq(s, a, b)) = b - a + 1
         /\ \A j \in 1 .. b - a + 1 : SubSeq(s, a, b)[j] = s[a + j - 1]
<1> DEFINE S == {s[i] : i \in DOMAIN s}
<1>1. s \in Seq(S) /\ Len(s) \in Nat /\ DOMAIN s = 1 .. Len(s)  BY SeqFacts DEF IsSeq
<1>2. \A j \in a .. b : s[j] \in S  BY <1>1
<1> HIDE DEF S
<1>3. a \in Int /\ b \in Int  BY <1>1
<1>4. /\ SubSeq(s, a, b) \in Seq(S)
      /\ Len(SubSeq(s, a, b)) = IF a <= b THEN b - a + 1 ELSE 0
      /\ \A j \in 1 .. b - a + 1 : SubSeq(s, a, b)[j] = s[a + j - 1]
  BY <1>2, <1>3, SubSeqProperties
<1>5. Len(SubSeq(s, a, b)) = b - a + 1  BY <1>1, <1>3, <1>4
<1> QED  BY <1>4, <1>5, SeqIsSeq

LEMMA SameTexts ==
  ASSUME NEW s, IsSeq(s), NEW t, IsSeq(t), Len(s) = Len(t), \A j \in 1 .. Len(s) : s[j] = t[j]
  PROVE  s = t
<1> DEFINE S == {s[i] : i \in DOMAIN s}
           T == {t[i] : i \in DOMAIN t}
<1>1. s \in Seq(S) /\ t \in Seq(T)  BY DEF IsSeq
<1> HIDE DEF S, T
<1>2. s \in Seq(S \cup T) /\ t \in Seq(S \cup T)  BY <1>1
<1> QED  BY <1>2, SeqEqual

LEMMA PartOfPart ==
  ASSUME NEW s, IsSeq(s), NEW a \in 1 .. Len(s) + 1, NEW b \in a - 1 .. Len(s),
         NEW c \in 1 .. b - a + 2, NEW d \in c - 1 .. b - a + 1
  PROVE  SubSeq(SubSeq(s, a, b), c, d) = SubSeq(s, a + c - 1, a + d - 1)
<1> DEFINE t == SubSeq(s, a, b)
           u == SubSeq(t, c, d)
           v == SubSeq(s, a + c - 1, a + d - 1)
<1>0. Len(s) \in Nat /\ a \in Nat /\ b \in Nat /\ c \in Nat /\ d \in Nat  BY SeqFacts
<1>1. IsSeq(t) /\ Len(t) = b - a + 1 /\ \A j \in 1 .. b - a + 1 : t[j] = s[a + j - 1]  BY PartIs
<1> HIDE DEF t
<1>2. c \in 1 .. Len(t) + 1 /\ d \in c - 1 .. Len(t)  BY <1>0, <1>1
<1>3. IsSeq(u) /\ Len(u) = d - c + 1 /\ \A j \in 1 .. d - c + 1 : u[j] = t[c + j - 1]  BY <1>1, <1>2, PartIs
<1>4. a + c - 1 \in 1 .. Len(s) + 1 /\ a + d - 1 \in (a + c - 1) - 1 .. Len(s)  BY <1>0
<1>5. /\ IsSeq(v) /\ Len(v) = (a + d - 1) - (a + c - 1) + 1
      /\ \A j \in 1 .. (a + d - 1) - (a + c - 1) + 1 : v[j] = s[(a + c - 1) + j - 1]
  BY <1>4, PartIs
<1> HIDE DEF u, v
<1>6. Len(u) = Len(v)  BY <1>0, <1>3, <1>5
<1>7. \A j \in 1 .. Len(u) : u[j] = v[j]
  <2> SUFFICES ASSUME NEW j \in 1 .. Len(u) PROVE u[j] = v[j]
    OBVIOUS
  <2>1. j \in 1 .. d - c + 1 /\ c + j - 1 \in 1 .. b - a + 1  BY <1>0, <1>3
  <2>2. u[j] = t[c + j - 1] /\ t[c + j - 1] = s[a + (c + j - 1) - 1]  BY <1>1, <1>3, <2>1
  <2>3. j \in 1 .. (a + d - 1) - (a + c - 1) + 1  BY <1>0, <2>1
  <2>4. v[j] = s[(a + c - 1) + j - 1]  BY <1>5, <2>3
  <2>5. a + (c + j - 1) - 1 = (a + c - 1) + j - 1  BY <1>0, <2>1
  <2> QED  BY <2>2, <2>4, <2>5
<1>8. u = v  BY <1>3, <1>5, <1>6, <1>7, SameTexts
<1> QED  BY <1>8 DEF t, u, v

LEMMA ColonIs ==
  ASSUME NEW s, IsSeq(s)
  PROVE  /\ Colon(s) = NotFound <=> \A j \in 1 .. Len(s) : s[j] # ":"
         /\ Colon(s) # NotFound => /\ Colon(s) \in 1 .. Len(s) /\ s[Colon(s)] = ":"
                                   /\ \A j \in 1 .. Colon(s) - 1 : s[j] # ":"
<1> DEFINE S == {j \in 1 .. Len(s) : s[j] = ":"}
<1>0. Len(s) \in Nat /\ S \in SUBSET Nat  BY SeqFacts
<1>1. Colon(s) = IF S = {} THEN NotFound ELSE Least(S)
  BY DEF Colon, Least
<1>2. CASE S = {}  BY <1>1, <1>2
<1>3. CASE S # {}
  <2>1. \A j : j \in S <=> j \in 1 .. Len(s) /\ s[j] = ":"  OBVIOUS
  <2> HIDE DEF S
  <2>2. Least(S) \in S /\ \A j \in S : Least(S) <= j  BY <1>0, <1>3, LeastIs
  <2> DEFINE m == Least(S)
  <2>3. Colon(s) = m /\ m \in S /\ \A j \in S : m <= j  BY <1>1, <1>3, <2>2
  <2> HIDE DEF m
  <2>4. m \in 1 .. Len(s) /\ s[m] = ":" /\ m # NotFound  BY <2>1, <2>3 DEF NotFound
  <2>5. \A j \in 1 .. m - 1 : j \notin S  BY <1>0, <2>3, <2>4
  <2>6. \A j \in 1 .. m - 1 : j \in 1 .. Len(s)  BY <1>0, <2>4
  <2> QED  BY <2>1, <2>3, <2>4, <2>5, <2>6
<1> QED  BY <1>2, <1>3

\* Where the first ":" is decides.
LEMMA ColonAt ==
  ASSUME NEW s, IsSeq(s), NEW m \in 1 .. Len(s), s[m] = ":", \A j \in 1 .. m - 1 : s[j] # ":"
  PROVE  Colon(s) = m
<1>1. Len(s) \in Nat  BY SeqFacts
<1>2. Colon(s) # NotFound  BY ColonIs
<1>3. Colon(s) \in 1 .. Len(s) /\ s[Colon(s)] = ":" /\ \A j \in 1 .. Colon(s) - 1 : s[j] # ":"
  BY <1>2, ColonIs
<1>4. ~(Colon(s) < m) /\ ~(m < Colon(s))  BY <1>1, <1>3
<1> QED  BY <1>1, <1>3, <1>4

LEMMA NothingFits ==
  ASSUME NEW s, IsSeq(s), NEW t, IsSeq(t), NEW last
  PROVE  /\ Colon(<<>>) = NotFound
         /\ s = <<>> => (SegmentFits(s, t, last) <=> t = <<>>)
         /\ s # <<>> /\ s[1] # ":" /\ SegmentFits(s, t, last) => t # <<>> /\ t[1] = s[1]
         /\ s # <<>> /\ s[1] = ":" => Colon(s) = 1 /\ (SegmentFits(s, t, last) <=> (last => t # <<>>))
<1>1. Len(s) \in Nat /\ Len(t) \in Nat /\ (s = <<>> <=> Len(s) = 0) /\ (t = <<>> <=> Len(t) = 0)
  BY SeqFacts, EmptySeq DEF IsSeq
<1>2. Colon(<<>>) = NotFound
  <2>1. \A j \in 1 .. Len(<<>>) : <<>>[j] # ":"  BY EmptyIsSeq
  <2> QED  BY <2>1, EmptyIsSeq, ColonIs
<1>3. s = <<>> => (SegmentFits(s, t, last) <=> t = <<>>)
  BY <1>2 DEF SegmentFits
<1>4. ASSUME s # <<>>, s[1] # ":", SegmentFits(s, t, last) PROVE t # <<>> /\ t[1] = s[1]
  <2>1. CASE Colon(s) = NotFound  BY <1>4, <2>1 DEF SegmentFits
  <2>2. CASE Colon(s) # NotFound
    <3>1. Colon(s) \in 1 .. Len(s) /\ s[Colon(s)] = ":"  BY <2>2, ColonIs
    <3>2. Colon(s) # 1  BY <1>4, <3>1
    <3>3. /\ Len(t) >= Colon(s) - (IF last THEN 0 ELSE 1)
          /\ \A j \in 1 .. Colon(s) - 1 : t[j] = s[j]
      BY <1>4, <2>2 DEF SegmentFits
    <3>4. Colon(s) \in Nat /\ 1 \in 1 .. Colon(s) - 1 /\ Colon(s) - 1 >= 1  BY <1>1, <3>1, <3>2
    <3>5. Len(t) >= Colon(s) - 1  BY <1>1, <3>3, <3>4
    <3> QED  BY <1>1, <3>3, <3>4, <3>5
  <2> QED  BY <2>1, <2>2
<1>5. ASSUME s # <<>>, s[1] = ":" PROVE Colon(s) = 1 /\ (SegmentFits(s, t, last) <=> (last => t # <<>>))
  <2>1. 1 \in 1 .. Len(s) /\ \A j \in 1 .. 1 - 1 : s[j] # ":"  BY <1>1, <1>5
  <2>2. Colon(s) = 1  BY <1>5, <2>1, ColonAt
  <2>3. SegmentFits(s, t, last) <=> Len(t) >= 1 - (IF last THEN 0 ELSE 1)
    <3>1. 1 # NotFound  BY DEF NotFound
    <3>2. \A j \in 1 .. 1 - 1 : t[j] = s[j]  OBVIOUS
    <3> QED  BY <2>2, <3>1, <3>2 DEF SegmentFits
  <2> QED  BY <1>1, <2>2, <2>3
<1> QED  BY <1>2, <1>3, <1>4, <1>5

\* A text and what is left of it without its first character.
Begins(u, x) ==
    /\ IsSeq(u) /\ IsSeq(x) /\ Len(u) = Len(x) + 1
    /\ \A j \in 1 .. Len(x) : u[j + 1] = x[j]

LEMMA PartBegins ==
  ASSUME NEW s, IsSeq(s), NEW a \in 1 .. Len(s), NEW b \in a .. Len(s)
  PROVE  Begins(SubSeq(s, a, b), SubSeq(s, a + 1, b)) /\ SubSeq(s, a, b)[1] = s[a]
<1> DEFINE u == SubSeq(s, a, b)
           x == SubSeq(s, a + 1, b)
<1>0. Len(s) \in Nat /\ a \in Nat /\ b \in Nat  BY SeqFacts
<1>1. a \in 1 .. Len(s) + 1 /\ b \in a - 1 .. Len(s)  BY <1>0
<1>2. a + 1 \in 1 .. Len(s) + 1 /\ b \in (a + 1) - 1 .. Len(s)  BY <1>0
<1>3. IsSeq(u) /\ Len(u) = b - a + 1 /\ \A j \in 1 .. b - a + 1 : u[j] = s[a + j - 1]  BY <1>1, PartIs
<1>4. IsSeq(x) /\ Len(x) = b - (a + 1) + 1 /\ \A j \in 1 .. b - (a + 1) + 1 : x[j] = s[(a + 1) + j - 1]
  BY <1>2, PartIs
<1> HIDE DEF u, x
<1>5. ASSUME NEW j \in 1 .. Len(x) PROVE u[j + 1] = x[j]
  <2>1. j + 1 \in 1 .. b - a + 1 /\ j \in 1 .. b - (a + 1) + 1 /\ a + (j + 1) - 1 = (a + 1) + j - 1
    BY <1>0, <1>4
  <2> QED  BY <1>3, <1>4, <2>1
<1>6. u[1] = s[a]
  <2>1. 1 \in 1 .. b - a + 1 /\ a + 1 - 1 = a  BY <1>0
  <2> QED  BY <1>3, <2>1
<1>7. Len(u) = Len(x) + 1  BY <1>0, <1>3, <1>4
<1> QED  BY <1>3, <1>4, <1>5, <1>6, <1>7 DEF Begins, u, x

LEMMA BeginsPart ==
  ASSUME NEW u, NEW x, Begins(u, x), NEW a \in 1 .. Len(x) + 1
  PROVE  SubSeq(u, a + 1, Len(u)) = SubSeq(x, a, Len(x))
<1> DEFINE v == SubSeq(u, a + 1, Len(u))
           w == SubSeq(x, a, Len(x))
<1>0. /\ IsSeq(u) /\ IsSeq(x) /\ Len(u) = Len(x) + 1 /\ Len(u) \in Nat /\ Len(x) \in Nat /\ a \in Nat
      /\ \A j \in 1 .. Len(x) : u[j + 1] = x[j]
  BY SeqFacts DEF Begins
<1>1. a + 1 \in 1 .. Len(u) + 1 /\ Len(u) \in (a + 1) - 1 .. Len(u)  BY <1>0
<1>2. Len(x) \in a - 1 .. Len(x)  BY <1>0
<1>3. /\ IsSeq(v) /\ Len(v) = Len(u) - (a + 1) + 1
      /\ \A j \in 1 .. Len(u) - (a + 1) + 1 : v[j] = u[(a + 1) + j - 1]
  BY <1>0, <1>1, PartIs
<1>4. /\ IsSeq(w) /\ Len(w) = Len(x) - a + 1
      /\ \A j \in 1 .. Len(x) - a + 1 : w[j] = x[a + j - 1]
  BY <1>0, <1>2, PartIs
<1> HIDE DEF v, w
<1>5. Len(v) = Len(w)  BY <1>0, <1>3, <1>4
<1>6. ASSUME NEW j \in 1 .. Len(v) PROVE v[j] = w[j]
  <2>1. /\ j \in 1 .. Len(u) - (a + 1) + 1 /\ j \in 1 .. Len(x) - a + 1
        /\ (a + 1) + j - 1 = (a + j - 1) + 1 /\ a + j - 1 \in 1 .. Len(x)
    BY <1>0, <1>3
  <2> QED  BY <1>0, <1>3, <1>4, <2>1
<1>7. v = w  BY <1>3, <1>4, <1>5, <1>6, SameTexts
<1> QED  BY <1>7 DEF v, w

\* Without an equal first character that is no ":", a segment fits and is called as with it.
LEMMA LiteralFits ==
  ASSUME NEW u, NEW x, Begins(u, x), NEW v, NEW y, Begins(v, y), u[1] = v[1], u[1] # ":", NEW last
  PROVE  /\ Colon(u) = IF Colon(x) = NotFound THEN NotFound ELSE Colon(x) + 1
         /\ SegmentFits(u, v, last) <=> SegmentFits(x, y, last)
         /\ Colon(x) # NotFound => NameOf(u) = NameOf(x)
         /\ Colon(x) # NotFound /\ SegmentFits(u, v, last) => ValueOf(u, v) = ValueOf(x, y)
<1>0. /\ IsSeq(u) /\ IsSeq(x) /\ Len(u) = Len(x) + 1 /\ Len(u) \in Nat /\ Len(x) \in Nat
      /\ \A j \in 1 .. Len(x) : u[j + 1] = x[j]
      /\ IsSeq(v) /\ IsSeq(y) /\ Len(v) = Len(y) + 1 /\ Len(v) \in Nat /\ Len(y) \in Nat
      /\ \A j \in 1 .. Len(y) : v[j + 1] = y[j]
  BY SeqFacts DEF Begins
<1>1. ASSUME NEW j \in 1 .. Len(u), j # 1 PROVE j - 1 \in 1 .. Len(x) /\ u[j] = x[j - 1]
  <2>1. j - 1 \in 1 .. Len(x) /\ (j - 1) + 1 = j  BY <1>0, <1>1
  <2> QED  BY <1>0, <2>1
<1>2. CASE Colon(x) = NotFound
  <2>1. \A j \in 1 .. Len(x) : x[j] # ":"  BY <1>0, <1>2, ColonIs
  <2>2. \A j \in 1 .. Len(u) : u[j] # ":"  BY <1>1, <2>1
  <2>3. Colon(u) = NotFound  BY <1>0, <2>2, ColonIs
  <2>4. u = v <=> x = y
    <3>1. ASSUME x = y PROVE u = v
      <4>1. Len(u) = Len(v)  BY <1>0, <3>1
      <4>2. \A j \in 1 .. Len(u) : u[j] = v[j]
        <5> SUFFICES ASSUME NEW j \in 1 .. Len(u), j # 1 PROVE u[j] = v[j]
          OBVIOUS
        <5>1. j - 1 \in 1 .. Len(x) /\ u[j] = x[j - 1] /\ (j - 1) + 1 = j  BY <1>0, <1>1
        <5>2. v[(j - 1) + 1] = y[j - 1]  BY <1>0, <3>1, <5>1
        <5> QED  BY <3>1, <5>1, <5>2
      <4> QED  BY <1>0, <4>1, <4>2, SameTexts
    <3>2. ASSUME u = v PROVE x = y
      <4>1. Len(x) = Len(y)  BY <1>0, <3>2
      <4>2. \A j \in 1 .. Len(x) : x[j] = y[j]  BY <1>0, <3>2, <4>1
      <4> QED  BY <1>0, <4>1, <4>2, SameTexts
    <3> QED  BY <3>1, <3>2
  <2> QED  BY <1>2, <2>3, <2>4 DEF SegmentFits
<1>3. CASE Colon(x) # NotFound
  <2> DEFINE m == Colon(x)
  <2>1. m \in 1 .. Len(x) /\ x[m] = ":" /\ \A j \in 1 .. m - 1 : x[j] # ":"  BY <1>0, <1>3, ColonIs
  <2> HIDE DEF m
  <2>2. m + 1 \in 1 .. Len(u) /\ u[m + 1] = ":"  BY <1>0, <2>1
  <2>3. ASSUME NEW j \in 1 .. (m + 1) - 1 PROVE u[j] # ":"
    <3>1. j \in 1 .. Len(u) /\ (j # 1 => j - 1 \in 1 .. m - 1)  BY <1>0, <2>1
    <3> QED  BY <1>1, <2>1, <3>1
  <2>4. Colon(u) = m + 1  BY <1>0, <2>2, <2>3, ColonAt
  <2>5. m \in Nat /\ m # NotFound /\ m + 1 # NotFound  BY <1>3, <2>1 DEF m, NotFound
  <2>6. ASSUME Len(y) >= m - 1
        PROVE  (\A j \in 1 .. (m + 1) - 1 : v[j] = u[j]) <=> \A j \in 1 .. m - 1 : y[j] = x[j]
    <3>1. ASSUME \A j \in 1 .. (m + 1) - 1 : v[j] = u[j], NEW j \in 1 .. m - 1
          PROVE  y[j] = x[j]
      <4>1. j \in 1 .. Len(y) /\ j \in 1 .. Len(x) /\ j + 1 \in 1 .. (m + 1) - 1  BY <1>0, <2>1, <2>6
      <4>2. v[j + 1] = y[j] /\ u[j + 1] = x[j] /\ v[j + 1] = u[j + 1]  BY <1>0, <3>1, <4>1
      <4> QED  BY <4>2
    <3>2. ASSUME \A j \in 1 .. m - 1 : y[j] = x[j], NEW j \in 1 .. (m + 1) - 1, j # 1
          PROVE  v[j] = u[j]
      <4> DEFINE h == j - 1
      <4>1. h \in 1 .. m - 1 /\ h \in 1 .. Len(y) /\ h \in 1 .. Len(x) /\ h + 1 = j
        BY <1>0, <2>1, <2>6, <3>2
      <4> HIDE DEF h
      <4>2. v[h + 1] = y[h] /\ u[h + 1] = x[h] /\ y[h] = x[h]  BY <1>0, <3>2, <4>1
      <4> QED  BY <4>1, <4>2
    <3> QED  BY <3>1, <3>2
  <2> DEFINE d == IF last THEN 0 ELSE 1
  <2>7. d \in {0, 1}  OBVIOUS
  <2>8. SegmentFits(u, v, last) <=> Len(v) >= (m + 1) - d /\ \A j \in 1 .. (m + 1) - 1 : v[j] = u[j]
    BY <2>4, <2>5 DEF SegmentFits
  <2>9. SegmentFits(x, y, last) <=> Len(y) >= m - d /\ \A j \in 1 .. m - 1 : y[j] = x[j]
    BY <1>3 DEF SegmentFits, m
  <2> HIDE DEF d
  <2>10. (Len(v) >= (m + 1) - d <=> Len(y) >= m - d) /\ (Len(y) >= m - d => Len(y) >= m - 1)
    BY <1>0, <2>5, <2>7
  <2>11. SegmentFits(u, v, last) <=> SegmentFits(x, y, last)
    BY <2>6, <2>8, <2>9, <2>10
  <2>12. NameOf(u) = NameOf(x)
    <3>1. NameOf(u) = SubSeq(u, (m + 1) + 1, Len(u)) /\ NameOf(x) = SubSeq(x, m + 1, Len(x))
      BY <2>4 DEF NameOf, m
    <3>2. m + 1 \in 1 .. Len(x) + 1  BY <1>0, <2>1
    <3> QED  BY <3>1, <3>2, BeginsPart
  <2>13. SegmentFits(u, v, last) => ValueOf(u, v) = ValueOf(x, y)
    <3> SUFFICES ASSUME SegmentFits(u, v, last) PROVE ValueOf(u, v) = ValueOf(x, y)
      OBVIOUS
    <3>1. ValueOf(u, v) = SubSeq(v, m + 1, Len(v)) /\ ValueOf(x, y) = SubSeq(y, m, Len(y))
      BY <2>4 DEF ValueOf, m
    <3>2. m \in 1 .. Len(y) + 1  BY <1>0, <2>1, <2>5, <2>8, <2>10
    <3> QED  BY <3>1, <3>2, BeginsPart
  <2>14. Colon(u) = Colon(x) + 1  BY <2>4 DEF m
  <2> QED  BY <1>3, <2>11, <2>12, <2>13, <2>14
<1> QED  BY <1>2, <1>3

-----------------------------------------------------------------------------
(* match_route_path, unfolded *)

\* What its recursion makes of two positions, with the results m for the later ones.
MatchAt(m, s, t, r, p) ==
    CASE r > Len(s) \/ p > Len(t) -> [fits |-> r > Len(s) /\ p > Len(t), params |-> <<>>]
      [] r <= Len(s) /\ p <= Len(t) /\ s[r] = ":" ->
           [m[EndOf(s, r + 1)][EndOf(t, p)] EXCEPT
              !.params = << <<SubSeq(s, r + 1, EndOf(s, r + 1) - 1), SubSeq(t, p, EndOf(t, p) - 1)>> >> \o @]
      [] OTHER -> IF s[r] = t[p] THEN m[r + 1][p + 1] ELSE [fits |-> FALSE, params |-> <<>>]
MatchRow(m, s, t, r) == [p \in 1 .. Len(t) + 1 |-> MatchAt(m, s, t, r, p)]

\* A row depends on the later ones only.
LEMMA RowsAgree ==
  ASSUME NEW s, IsSeq(s), NEW t, IsSeq(t), NEW r \in 1 .. Len(s) + 1,
         NEW m, NEW n, \A q \in r + 1 .. Len(s) + 1 : m[q] = n[q]
  PROVE  MatchRow(m, s, t, r) = MatchRow(n, s, t, r)
<1>0. Len(s) \in Nat /\ Len(t) \in Nat  BY SeqFacts
<1> SUFFICES ASSUME NEW p \in 1 .. Len(t) + 1 PROVE MatchAt(m, s, t, r, p) = MatchAt(n, s, t, r, p)
  BY DEF MatchRow
<1>1. CASE r > Len(s)
  <2>1. ~(r <= Len(s))  BY <1>0, <1>1
  <2> QED  BY <1>1, <2>1 DEF MatchAt
<1>2. CASE r <= Len(s)
  <2>1. r + 1 \in 1 .. Len(s) + 1 /\ r + 1 \in r + 1 .. Len(s) + 1  BY <1>0, <1>2
  <2>2. EndOf(s, r + 1) \in r + 1 .. Len(s) + 1  BY <2>1, EndOfIs
  <2>3. m[r + 1] = n[r + 1] /\ m[EndOf(s, r + 1)] = n[EndOf(s, r + 1)]  BY <2>1, <2>2
  <2> QED  BY <2>3 DEF MatchAt
<1> QED  BY <1>0, <1>1, <1>2

LEMMA MatchIs ==
  ASSUME NEW s, IsSeq(s), NEW t, IsSeq(t)
  PROVE  \E m : /\ MatchRoutePath(s, t) = m[1][1]
                /\ \A r \in 1 .. Len(s) + 1 : m[r] = MatchRow(m, s, t, r)
<1> DEFINE R == 1 .. Len(s) + 1
           Once(m) == [r \in R |-> MatchRow(m, s, t, r)]
           whole == CHOOSE m : m = Once(m)
           From(k) == Len(s) + 2 - k .. Len(s) + 1
           Good(m, k) == m = [r \in R |-> m[r]] /\ \A r \in From(k) : m[r] = MatchRow(m, s, t, r)
           Missed == {k \in Nat : k <= Len(s) + 1 /\ ~ \E m : Good(m, k)}
<1>0. Len(s) \in Nat  BY SeqFacts
<1>1. MatchRoutePath(s, t) = whole[1][1]
  BY DEF MatchRoutePath, MatchRow, MatchAt
<1>2. Missed = {}
  <2> SUFFICES ASSUME Missed # {} PROVE FALSE
    OBVIOUS
  <2> DEFINE k == Least(Missed)
  <2>1. k \in Missed /\ \A j \in Missed : k <= j
    <3>1. Missed \in SUBSET Nat  OBVIOUS
    <3> HIDE DEF Missed
    <3> QED  BY <3>1, LeastIs
  <2> HIDE DEF k
  <2>2. k \in Nat /\ k <= Len(s) + 1 /\ ~ \E m : Good(m, k)  BY <2>1
  <2>3. k # 0
    <3> DEFINE m == [r \in R |-> 0]
    <3>1. From(0) = {}  BY <1>0
    <3>2. m = [r \in R |-> m[r]]  OBVIOUS
    <3> HIDE DEF From
    <3>3. Good(m, 0)  BY <3>1, <3>2
    <3> HIDE DEF m, Good
    <3> QED  BY <2>2, <3>3
  <2>4. PICK m : Good(m, k - 1)
    <3>1. k - 1 \in Nat /\ k - 1 <= Len(s) + 1 /\ ~(k <= k - 1)  BY <1>0, <2>2, <2>3
    <3>2. k - 1 \notin Missed
      <4> HIDE DEF Missed
      <4> QED  BY <2>1, <3>1
    <3> HIDE DEF Good
    <3> QED  BY <3>1, <3>2
  <2> DEFINE q == Len(s) + 2 - k
             n == [r \in R |-> IF r = q THEN MatchRow(m, s, t, q) ELSE m[r]]
  <2>5. /\ q \in R /\ From(k) = From(k - 1) \cup {q} /\ From(k - 1) \subseteq R
        /\ \A r \in From(k) : \A h \in r + 1 .. Len(s) + 1 : h \in R /\ h # q
    BY <1>0, <2>2, <2>3
  <2> HIDE DEF From, q
  <2>6. \A h \in R : h # q => n[h] = m[h]  OBVIOUS
  <2>7. \A r \in From(k) : MatchRow(n, s, t, r) = MatchRow(m, s, t, r)
    <3> SUFFICES ASSUME NEW r \in From(k) PROVE MatchRow(n, s, t, r) = MatchRow(m, s, t, r)
      OBVIOUS
    <3>1. r \in 1 .. Len(s) + 1  BY <2>5
    <3>2. \A h \in r + 1 .. Len(s) + 1 : n[h] = m[h]
      <4> HIDE DEF n
      <4> QED  BY <2>5, <2>6
    <3> HIDE DEF n
    <3> QED  BY <3>1, <3>2, RowsAgree
  <2>8. \A r \in From(k) : n[r] = MatchRow(n, s, t, r)
    <3> SUFFICES ASSUME NEW r \in From(k) PROVE n[r] = MatchRow(m, s, t, r)
      BY <2>7
    <3>1. CASE r = q  BY <2>5, <3>1
    <3>2. CASE r # q
      <4>1. r \in From(k - 1) /\ r \in R  BY <2>5, <3>2
      <4>2. m[r] = MatchRow(m, s, t, r)  BY <2>4, <4>1
      <4>3. n[r] = m[r]  BY <2>6, <3>2, <4>1
      <4> QED  BY <4>2, <4>3
    <3> QED  BY <3>1, <3>2
  <2>9. n = [r \in R |-> n[r]]  OBVIOUS
  <2> HIDE DEF n
  <2>10. Good(n, k)  BY <2>8, <2>9
  <2> HIDE DEF Good
  <2> QED  BY <2>2, <2>10
<1>3. PICK m : Good(m, Len(s) + 1)
  <2>1. Len(s) + 1 \in Nat /\ Len(s) + 1 <= Len(s) + 1  BY <1>0
  <2>2. Len(s) + 1 \notin Missed  BY <1>2
  <2> HIDE DEF Good
  <2> QED  BY <2>1, <2>2
<1>4. m = Once(m)
  <2>1. From(Len(s) + 1) = R  BY <1>0
  <2>2. m = [r \in R |-> m[r]] /\ \A r \in R : m[r] = MatchRow(m, s, t, r)  BY <1>3, <2>1
  <2> HIDE DEF R
  <2> QED  BY <2>2
<1>5. whole = Once(whole)
  <2> HIDE DEF Once
  <2> QED  BY <1>4
<1> HIDE DEF whole
<1>6. \A r \in R : whole[r] = MatchRow(whole, s, t, r)  BY <1>5
<1> QED  BY <1>1, <1>6

-----------------------------------------------------------------------------
(* It computes what Fits says *)

FitsFrom(s, r, t, p) ==
    /\ CutsFrom(s, r) = CutsFrom(t, p)
    /\ \A k \in 0 .. CutsFrom(t, p) :
         SegmentFits(SegmentFrom(s, r, k), SegmentFrom(t, p, k), k = CutsFrom(t, p))
ParamsFrom(s, r) == {k \in 0 .. CutsFrom(s, r) : Colon(SegmentFrom(s, r, k)) # NotFound}
NameFrom(s, r, k) == NameOf(SegmentFrom(s, r, k))
ValueFrom(s, r, t, p, k) == ValueOf(SegmentFrom(s, r, k), SegmentFrom(t, p, k))

\* What is right of a result: whether the pattern fits, that it leaves names of the pattern
\* only, and, when it fits, each parameter behind those of earlier segments only.
NamesRight(params, s, r) == \A i \in 1 .. Len(params) : \E k \in ParamsFrom(s, r) : params[i][1] = NameFrom(s, r, k)
ValuesRight(params, s, r, t, p) ==
    \A k \in ParamsFrom(s, r) : \E i \in 1 .. Len(params) :
      /\ params[i] = <<NameFrom(s, r, k), ValueFrom(s, r, t, p, k)>>
      /\ \A h \in 1 .. i - 1 : \E j \in ParamsFrom(s, r) : j < k /\ params[h][1] = NameFrom(s, r, j)
Right(result, s, r, t, p) ==
    /\ result = [fits |-> result.fits, params |-> result.params] /\ IsSeq(result.params)
    /\ result.fits \in BOOLEAN /\ (result.fits <=> FitsFrom(s, r, t, p))
    /\ NamesRight(result.params, s, r)
    /\ result.fits => ValuesRight(result.params, s, r, t, p)

\* Nothing is met where it is known at once.
LEMMA RightAtOnce ==
  ASSUME NEW fits \in BOOLEAN, NEW s, NEW r, NEW t, NEW p, fits <=> FitsFrom(s, r, t, p),
         fits => ParamsFrom(s, r) = {}
  PROVE  Right([fits |-> fits, params |-> <<>>], s, r, t, p)
<1> DEFINE result == [fits |-> fits, params |-> <<>>]
<1>1. result.fits = fits /\ result.params = <<>>  OBVIOUS
<1>2. NamesRight(<<>>, s, r)  BY EmptyIsSeq DEF NamesRight
<1>3. fits => ValuesRight(<<>>, s, r, t, p)  BY DEF ValuesRight
<1> QED  BY <1>1, <1>2, <1>3, EmptyIsSeq DEF Right

\* The segment that a position begins.
LEMMA HeadSegment ==
  ASSUME NEW s, IsSeq(s), NEW i \in 1 .. Len(s) + 1
  PROVE  /\ IsSeq(SegmentFrom(s, i, 0)) /\ CutsFrom(s, i) \in Nat
         /\ i > Len(s) => SegmentFrom(s, i, 0) = <<>> /\ CutsFrom(s, i) = 0
         /\ i <= Len(s) /\ s[i] = Slash => SegmentFrom(s, i, 0) = <<>> /\ CutsFrom(s, i) # 0
         /\ i <= Len(s) /\ s[i] # Slash => SegmentFrom(s, i, 0) # <<>> /\ SegmentFrom(s, i, 0)[1] = s[i]
<1> DEFINE e == EndOf(s, i)
           u == SegmentFrom(s, i, 0)
<1>0. Len(s) \in Nat /\ i \in Nat /\ CutsFrom(s, i) \in Nat  BY SlashesAre, SeqFacts
<1>1. e \in i .. Len(s) + 1 /\ u = SubSeq(s, i, e - 1)  BY EndOfIs, FirstSegment
<1>2. i <= Len(s) => (e = i <=> s[i] = Slash)  BY EndOfIs
<1> HIDE DEF e, u
<1>3. e - 1 \in i - 1 .. Len(s)  BY <1>0, <1>1
<1>4. IsSeq(u)  BY <1>1, <1>3, PartIs
<1>5. ASSUME i > Len(s) PROVE u = <<>> /\ CutsFrom(s, i) = 0
  <2>1. i = Len(s) + 1  BY <1>0, <1>5
  <2> QED  BY <2>1, SegmentsAtEnd DEF u
<1>6. ASSUME i <= Len(s), s[i] = Slash PROVE u = <<>> /\ CutsFrom(s, i) # 0
  <2>1. i \in 1 .. Len(s) /\ i + 1 \in 1 .. Len(s) + 1  BY <1>0, <1>6
  <2>2. u = <<>> /\ CutsFrom(s, i) = CutsFrom(s, i + 1) + 1  BY <1>6, <2>1, SegmentsPastSlash DEF u
  <2>3. CutsFrom(s, i + 1) \in Nat  BY <2>1, SlashesAre
  <2> QED  BY <2>2, <2>3
<1>7. ASSUME i <= Len(s), s[i] # Slash PROVE u # <<>> /\ u[1] = s[i]
  <2>1. i \in 1 .. Len(s) /\ e - 1 \in i .. Len(s)  BY <1>0, <1>1, <1>2, <1>7
  <2>2. Begins(u, SubSeq(s, i + 1, e - 1)) /\ u[1] = s[i]  BY <1>1, <2>1, PartBegins
  <2>3. PICK n \in Nat : Len(u) = n + 1
    <3>1. IsSeq(SubSeq(s, i + 1, e - 1)) /\ Len(u) = Len(SubSeq(s, i + 1, e - 1)) + 1  BY <2>2 DEF Begins
    <3> QED  BY <3>1, SeqFacts
  <2>4. Len(u) # 0  BY <2>3
  <2> QED  BY <2>2, <2>4, EmptyIsSeq
<1> QED  BY <1>0, <1>4, <1>5, <1>6, <1>7 DEF u

\* At the end of the pattern or of the path.
LEMMA RightAtEnd ==
  ASSUME NEW s, IsSeq(s), NEW t, IsSeq(t), NEW r \in 1 .. Len(s) + 1, NEW p \in 1 .. Len(t) + 1,
         r > Len(s) \/ p > Len(t), NEW m
  PROVE  Right(MatchAt(m, s, t, r, p), s, r, t, p)
<1> DEFINE fits == r > Len(s) /\ p > Len(t)
           u == SegmentFrom(s, r, 0)
           v == SegmentFrom(t, p, 0)
<1>0. Len(s) \in Nat /\ Len(t) \in Nat /\ r \in Nat /\ p \in Nat  BY SeqFacts
<1>1. MatchAt(m, s, t, r, p) = [fits |-> fits, params |-> <<>>]
  <2>1. ~(r <= Len(s) /\ p <= Len(t))  BY <1>0
  <2> QED  BY <2>1 DEF MatchAt
<1>2. /\ IsSeq(u) /\ CutsFrom(s, r) \in Nat
      /\ r > Len(s) => u = <<>> /\ CutsFrom(s, r) = 0
      /\ r <= Len(s) /\ CutsFrom(s, r) = 0 => u # <<>>
  BY HeadSegment
<1>3. /\ IsSeq(v) /\ CutsFrom(t, p) \in Nat
      /\ p > Len(t) => v = <<>> /\ CutsFrom(t, p) = 0
      /\ p <= Len(t) /\ CutsFrom(t, p) = 0 => v # <<>>
  BY HeadSegment
<1> HIDE DEF u, v
<1>4. CASE fits
  <2>1. u = <<>> /\ CutsFrom(s, r) = 0 /\ v = <<>> /\ CutsFrom(t, p) = 0  BY <1>2, <1>3, <1>4
  <2>2. SegmentFits(u, v, TRUE) /\ Colon(u) = NotFound  BY <1>2, <1>3, <2>1, NothingFits
  <2>3. \A k \in 0 .. 0 : k = 0  OBVIOUS
  <2>4. FitsFrom(s, r, t, p)  BY <2>1, <2>2, <2>3 DEF FitsFrom, u, v
  <2>5. ParamsFrom(s, r) = {}  BY <2>1, <2>2, <2>3 DEF ParamsFrom, u
  <2> QED  BY <1>1, <1>4, <2>4, <2>5, RightAtOnce
<1>5. CASE ~fits
  <2>1. ~FitsFrom(s, r, t, p)
    <3> SUFFICES ASSUME FitsFrom(s, r, t, p) PROVE FALSE
      OBVIOUS
    <3>1. CutsFrom(s, r) = CutsFrom(t, p)  BY DEF FitsFrom
    <3>2. CutsFrom(t, p) = 0  BY <1>2, <1>3, <3>1
    <3>3. 0 \in 0 .. CutsFrom(t, p)  BY <3>2
    <3> DEFINE last == 0 = CutsFrom(t, p)
    <3>4. SegmentFits(u, v, last) /\ last  BY <3>2, <3>3 DEF FitsFrom, u, v
    <3> HIDE DEF last
    <3>5. CASE r > Len(s)
      <4>1. u = <<>> /\ v # <<>>  BY <1>0, <1>2, <1>3, <1>5, <3>2, <3>5
      <4>2. SegmentFits(u, v, last) <=> v = <<>>  BY <1>2, <1>3, <4>1, NothingFits
      <4> QED  BY <3>4, <4>1, <4>2
    <3>6. CASE r <= Len(s)
      <4>1. u # <<>> /\ v = <<>>  BY <1>0, <1>2, <1>3, <3>1, <3>2, <3>6
      <4>2. CASE u[1] = ":"
        <5>1. SegmentFits(u, v, last) <=> (last => v # <<>>)  BY <1>2, <1>3, <4>1, <4>2, NothingFits
        <5> QED  BY <3>4, <4>1, <5>1
      <4>3. CASE u[1] # ":"
        <5>1. v # <<>>  BY <1>2, <1>3, <3>4, <4>1, <4>3, NothingFits
        <5> QED  BY <4>1, <5>1
      <4> QED  BY <4>2, <4>3
    <3> QED  BY <1>0, <3>5, <3>6
  <2> HIDE DEF fits
  <2>2. fits = FALSE  BY <1>5 DEF fits
  <2> QED  BY <1>1, <2>1, <2>2, RightAtOnce DEF fits
<1> QED  BY <1>4, <1>5

\* A result for later positions is one for these when the segments are the same, or one more.
LEMMA RightBefore ==
  ASSUME NEW s, NEW t, NEW r, NEW p, NEW q, NEW o, NEW result, Right(result, s, q, t, o), NEW d \in {0, 1},
         FitsFrom(s, r, t, p) <=> FitsFrom(s, q, t, o),
         \A k \in ParamsFrom(s, q) : k + d \in ParamsFrom(s, r) /\ NameFrom(s, r, k + d) = NameFrom(s, q, k),
         \A k \in ParamsFrom(s, r) : k - d \in ParamsFrom(s, q),
         FitsFrom(s, r, t, p) =>
           \A k \in ParamsFrom(s, r) : ValueFrom(s, r, t, p, k) = ValueFrom(s, q, t, o, k - d)
  PROVE  Right(result, s, r, t, p)
<1> DEFINE params == result.params
<1>1. /\ result = [fits |-> result.fits, params |-> result.params] /\ IsSeq(result.params)
      /\ result.fits \in BOOLEAN /\ (result.fits <=> FitsFrom(s, q, t, o))
      /\ NamesRight(params, s, q)
      /\ result.fits => ValuesRight(params, s, q, t, o)
  BY DEF Right
<1>2. \A k \in ParamsFrom(s, q) \cup ParamsFrom(s, r) : k \in Int  BY DEF ParamsFrom
<1> HIDE DEF params
<1>3. NamesRight(params, s, r)
  <2> SUFFICES ASSUME NEW i \in 1 .. Len(params)
               PROVE  \E k \in ParamsFrom(s, r) : params[i][1] = NameFrom(s, r, k)
    BY DEF NamesRight
  <2>1. PICK k \in ParamsFrom(s, q) : params[i][1] = NameFrom(s, q, k)  BY <1>1 DEF NamesRight
  <2> QED  BY <2>1
<1>4. ASSUME result.fits PROVE ValuesRight(params, s, r, t, p)
  <2> SUFFICES ASSUME NEW k \in ParamsFrom(s, r)
               PROVE  \E i \in 1 .. Len(params) :
                        /\ params[i] = <<NameFrom(s, r, k), ValueFrom(s, r, t, p, k)>>
                        /\ \A h \in 1 .. i - 1 : \E j \in ParamsFrom(s, r) : j < k /\ params[h][1] = NameFrom(s, r, j)
    BY DEF ValuesRight
  <2>1. k - d \in ParamsFrom(s, q) /\ ValueFrom(s, r, t, p, k) = ValueFrom(s, q, t, o, k - d)
    BY <1>1, <1>4
  <2>2. (k - d) + d = k  BY <1>2
  <2>3. NameFrom(s, r, k) = NameFrom(s, q, k - d)  BY <2>1, <2>2
  <2>4. PICK i \in 1 .. Len(params) :
          /\ params[i] = <<NameFrom(s, q, k - d), ValueFrom(s, q, t, o, k - d)>>
          /\ \A h \in 1 .. i - 1 : \E j \in ParamsFrom(s, q) : j < k - d /\ params[h][1] = NameFrom(s, q, j)
    BY <1>1, <1>4, <2>1 DEF ValuesRight
  <2>5. ASSUME NEW h \in 1 .. i - 1
        PROVE  \E j \in ParamsFrom(s, r) : j < k /\ params[h][1] = NameFrom(s, r, j)
    <3>1. PICK j \in ParamsFrom(s, q) : j < k - d /\ params[h][1] = NameFrom(s, q, j)  BY <2>4
    <3>2. j + d \in ParamsFrom(s, r) /\ NameFrom(s, r, j + d) = NameFrom(s, q, j)  OBVIOUS
    <3>3. j + d < k  BY <1>2, <3>1
    <3> QED  BY <3>1, <3>2, <3>3
  <2> QED  BY <2>1, <2>3, <2>4, <2>5
<1> QED  BY <1>1, <1>3, <1>4 DEF Right, params

\* An equal character.
LEMMA RightPastLiteral ==
  ASSUME NEW s, IsSeq(s), NEW t, IsSeq(t), NEW r \in 1 .. Len(s), NEW p \in 1 .. Len(t),
         s[r] = t[p], s[r] # ":", NEW result, Right(result, s, r + 1, t, p + 1)
  PROVE  Right(result, s, r, t, p)
<1>0. /\ Len(s) \in Nat /\ Len(t) \in Nat /\ r \in 1 .. Len(s) + 1 /\ p \in 1 .. Len(t) + 1
      /\ r + 1 \in 1 .. Len(s) + 1 /\ p + 1 \in 1 .. Len(t) + 1
  BY SeqFacts
<1> DEFINE c == CutsFrom(s, r + 1)
           g == CutsFrom(t, p + 1)
<1>1. c \in Nat /\ g \in Nat  BY <1>0, SlashesAre
<1>2. CASE s[r] = Slash
  <2>1. /\ SegmentFrom(s, r, 0) = <<>> /\ CutsFrom(s, r) = c + 1
        /\ \A k \in 0 .. c : SegmentFrom(s, r, k + 1) = SegmentFrom(s, r + 1, k)
    BY <1>2, SegmentsPastSlash
  <2>2. /\ SegmentFrom(t, p, 0) = <<>> /\ CutsFrom(t, p) = g + 1
        /\ \A k \in 0 .. g : SegmentFrom(t, p, k + 1) = SegmentFrom(t, p + 1, k)
    BY <1>2, SegmentsPastSlash
  <2>3. CutsFrom(s, r + 1) = c /\ CutsFrom(t, p + 1) = g  OBVIOUS
  <2> HIDE DEF c, g
  <2>4. FitsFrom(s, r, t, p) <=> FitsFrom(s, r + 1, t, p + 1)
    <3>1. c + 1 = g + 1 <=> c = g  BY <1>1
    <3>2. SUFFICES ASSUME c = g
                   PROVE  FitsFrom(s, r, t, p) <=> FitsFrom(s, r + 1, t, p + 1)
      BY <2>1, <2>2, <2>3, <3>1 DEF FitsFrom
    <3> DEFINE Here(k) == SegmentFits(SegmentFrom(s, r, k), SegmentFrom(t, p, k), k = g + 1)
               Next1(k) == SegmentFits(SegmentFrom(s, r + 1, k), SegmentFrom(t, p + 1, k), k = g)
    <3>3. FitsFrom(s, r, t, p) <=> \A k \in 0 .. g + 1 : Here(k)
      BY <2>1, <2>2, <3>2 DEF FitsFrom
    <3>4. FitsFrom(s, r + 1, t, p + 1) <=> \A k \in 0 .. g : Next1(k)
      BY <2>3, <3>2 DEF FitsFrom
    <3>5. Here(0)
      <4> DEFINE last == 0 = g + 1
      <4> HIDE DEF last
      <4>1. SegmentFits(<<>>, <<>>, last)  BY EmptyIsSeq, NothingFits
      <4> QED  BY <2>1, <2>2, <4>1 DEF last
    <3>6. \A k \in 0 .. g : Here(k + 1) <=> Next1(k)
      <4> SUFFICES ASSUME NEW k \in 0 .. g PROVE Here(k + 1) <=> Next1(k)
        OBVIOUS
      <4>1. (k + 1 = g + 1) = (k = g)  BY <1>1
      <4> QED  BY <2>1, <2>2, <3>2, <4>1
    <3> HIDE DEF Here, Next1
    <3>7. \A k \in 0 .. g + 1 : k = 0 \/ (k - 1 \in 0 .. g /\ (k - 1) + 1 = k)  BY <1>1
    <3>8. \A k \in 0 .. g : k + 1 \in 0 .. g + 1  BY <1>1
    <3>9. ASSUME \A k \in 0 .. g : Next1(k), NEW k \in 0 .. g + 1, k # 0 PROVE Here(k)
      <4>1. k - 1 \in 0 .. g /\ (k - 1) + 1 = k  BY <3>7, <3>9
      <4>2. Here((k - 1) + 1) <=> Next1(k - 1)  BY <3>6, <4>1
      <4> QED  BY <3>9, <4>1, <4>2
    <3> QED  BY <3>3, <3>4, <3>5, <3>6, <3>8, <3>9
  <2>5. \A k \in ParamsFrom(s, r + 1) : k + 1 \in ParamsFrom(s, r) /\ NameFrom(s, r, k + 1) = NameFrom(s, r + 1, k)
    <3> SUFFICES ASSUME NEW k \in ParamsFrom(s, r + 1)
                 PROVE  k + 1 \in ParamsFrom(s, r) /\ NameFrom(s, r, k + 1) = NameFrom(s, r + 1, k)
      OBVIOUS
    <3>1. k \in 0 .. c /\ Colon(SegmentFrom(s, r + 1, k)) # NotFound  BY <2>3 DEF ParamsFrom
    <3>2. k + 1 \in 0 .. c + 1  BY <1>1, <3>1
    <3>3. SegmentFrom(s, r, k + 1) = SegmentFrom(s, r + 1, k)  BY <2>1, <3>1
    <3> QED  BY <2>1, <3>1, <3>2, <3>3 DEF ParamsFrom, NameFrom
  <2>6. ASSUME NEW k \in ParamsFrom(s, r)
        PROVE  /\ k - 1 \in ParamsFrom(s, r + 1)
               /\ FitsFrom(s, r, t, p) => ValueFrom(s, r, t, p, k) = ValueFrom(s, r + 1, t, p + 1, k - 1)
    <3>1. k \in 0 .. c + 1 /\ Colon(SegmentFrom(s, r, k)) # NotFound  BY <2>1 DEF ParamsFrom
    <3>2. k # 0  BY <2>1, <3>1, EmptyIsSeq, NothingFits
    <3>3. k - 1 \in 0 .. c /\ (k - 1) + 1 = k  BY <1>1, <3>1, <3>2
    <3>4. SegmentFrom(s, r, k) = SegmentFrom(s, r + 1, k - 1)  BY <2>1, <3>3
    <3>5. k - 1 \in ParamsFrom(s, r + 1)  BY <2>3, <3>1, <3>3, <3>4 DEF ParamsFrom
    <3>6. ASSUME FitsFrom(s, r, t, p) PROVE SegmentFrom(t, p, k) = SegmentFrom(t, p + 1, k - 1)
      <4>1. c + 1 = g + 1  BY <2>1, <2>2, <3>6 DEF FitsFrom
      <4>2. k - 1 \in 0 .. g  BY <1>1, <3>3, <4>1
      <4> QED  BY <2>2, <3>3, <4>2
    <3> QED  BY <3>4, <3>5, <3>6 DEF ValueFrom
  <2> QED  BY <2>4, <2>5, <2>6, RightBefore
<1>3. CASE s[r] # Slash
  <2> DEFINE u == SegmentFrom(s, r, 0)
             x == SegmentFrom(s, r + 1, 0)
             v == SegmentFrom(t, p, 0)
             y == SegmentFrom(t, p + 1, 0)
  <2>1. /\ EndOf(s, r + 1) = EndOf(s, r) /\ EndOf(s, r) >= r + 1 /\ CutsFrom(s, r) = c
        /\ \A k \in Nat \ {0} : SegmentFrom(s, r + 1, k) = SegmentFrom(s, r, k)
    BY <1>3, SegmentsPastLiteral
  <2>2. /\ EndOf(t, p + 1) = EndOf(t, p) /\ EndOf(t, p) >= p + 1 /\ CutsFrom(t, p) = g
        /\ \A k \in Nat \ {0} : SegmentFrom(t, p + 1, k) = SegmentFrom(t, p, k)
    BY <1>3, SegmentsPastLiteral
  <2>3. Begins(u, x) /\ u[1] = s[r]
    <3> DEFINE e == EndOf(s, r)
    <3>1. u = SubSeq(s, r, e - 1) /\ x = SubSeq(s, r + 1, e - 1)  BY <1>0, <2>1, FirstSegment
    <3>2. e \in r .. Len(s) + 1  BY <1>0, EndOfIs
    <3>3. e >= r + 1  BY <2>1
    <3> HIDE DEF e, u, x
    <3>4. e - 1 \in r .. Len(s)  BY <1>0, <3>2, <3>3
    <3> QED  BY <3>1, <3>4, PartBegins
  <2>4. Begins(v, y) /\ v[1] = t[p]
    <3> DEFINE e == EndOf(t, p)
    <3>1. v = SubSeq(t, p, e - 1) /\ y = SubSeq(t, p + 1, e - 1)  BY <1>0, <2>2, FirstSegment
    <3>2. e \in p .. Len(t) + 1  BY <1>0, EndOfIs
    <3>3. e >= p + 1  BY <2>2
    <3> HIDE DEF e, v, y
    <3>4. e - 1 \in p .. Len(t)  BY <1>0, <3>2, <3>3
    <3> QED  BY <3>1, <3>4, PartBegins
  <2>5. CutsFrom(s, r + 1) = c /\ CutsFrom(t, p + 1) = g  OBVIOUS
  <2> HIDE DEF u, v, x, y, c, g
  <2> DEFINE last == 0 = g
  <2> HIDE DEF last
  <2>6. /\ Colon(u) = IF Colon(x) = NotFound THEN NotFound ELSE Colon(x) + 1
        /\ SegmentFits(u, v, last) <=> SegmentFits(x, y, last)
        /\ Colon(x) # NotFound => NameOf(u) = NameOf(x)
        /\ Colon(x) # NotFound /\ SegmentFits(u, v, last) => ValueOf(u, v) = ValueOf(x, y)
    BY <2>3, <2>4, LiteralFits
  <2>7. Colon(u) = NotFound <=> Colon(x) = NotFound
    <3>1. IsSeq(x) /\ Len(x) \in Nat  BY <2>3, SeqFacts DEF Begins
    <3>2. Colon(x) # NotFound => Colon(x) \in 1 .. Len(x)  BY <3>1, ColonIs
    <3>3. Colon(x) # NotFound => Colon(x) + 1 # NotFound  BY <3>1, <3>2 DEF NotFound
    <3> QED  BY <2>6, <3>3
  <2>8. FitsFrom(s, r, t, p) <=> FitsFrom(s, r + 1, t, p + 1)
    <3> DEFINE Here(k) == SegmentFits(SegmentFrom(s, r, k), SegmentFrom(t, p, k), k = g)
               Next1(k) == SegmentFits(SegmentFrom(s, r + 1, k), SegmentFrom(t, p + 1, k), k = g)
    <3>1. Here(0) <=> Next1(0)  BY <2>6 DEF u, v, x, y, last
    <3>2. \A k \in 0 .. g : k # 0 => k \in Nat \ {0}  BY <1>1
    <3>3. \A k \in 0 .. g : k # 0 => (Here(k) <=> Next1(k))  BY <2>1, <2>2, <3>2
    <3>4. FitsFrom(s, r, t, p) <=> c = g /\ \A k \in 0 .. g : Here(k)  BY <2>1, <2>2 DEF FitsFrom
    <3>5. FitsFrom(s, r + 1, t, p + 1) <=> c = g /\ \A k \in 0 .. g : Next1(k)  BY <2>5 DEF FitsFrom
    <3> HIDE DEF Here, Next1
    <3>6. \A k \in 0 .. g : Here(k) <=> Next1(k)  BY <3>1, <3>3
    <3> QED  BY <3>4, <3>5, <3>6
  <2>9. \A k \in 0 .. c : Colon(SegmentFrom(s, r, k)) # NotFound <=> Colon(SegmentFrom(s, r + 1, k)) # NotFound
    <3>1. \A k \in 0 .. c : k # 0 => k \in Nat \ {0}  BY <1>1
    <3> QED  BY <2>1, <2>7, <3>1 DEF u, x
  <2>10. ParamsFrom(s, r) = ParamsFrom(s, r + 1)  BY <2>1, <2>5, <2>9 DEF ParamsFrom
  <2>11. ASSUME NEW k \in ParamsFrom(s, r)
         PROVE  /\ k + 0 = k /\ k - 0 = k
                /\ NameFrom(s, r, k) = NameFrom(s, r + 1, k)
                /\ FitsFrom(s, r, t, p) => ValueFrom(s, r, t, p, k) = ValueFrom(s, r + 1, t, p + 1, k)
    <3>1. k \in 0 .. c /\ Colon(SegmentFrom(s, r, k)) # NotFound  BY <2>1 DEF ParamsFrom
    <3>2. CASE k # 0
      <4>1. k \in Nat \ {0}  BY <1>1, <3>1, <3>2
      <4>2. SegmentFrom(s, r, k) = SegmentFrom(s, r + 1, k) /\ SegmentFrom(t, p, k) = SegmentFrom(t, p + 1, k)
        BY <2>1, <2>2, <4>1
      <4> QED  BY <4>1, <4>2 DEF NameFrom, ValueFrom
    <3>3. CASE k = 0
      <4>1. Colon(x) # NotFound  BY <2>7, <3>1, <3>3 DEF u
      <4>2. NameOf(u) = NameOf(x)  BY <2>6, <4>1
      <4>3. FitsFrom(s, r, t, p) => SegmentFits(u, v, last)
        <5>1. 0 \in 0 .. g  BY <1>1
        <5> QED  BY <2>2, <5>1 DEF FitsFrom, last, u, v
      <4>4. FitsFrom(s, r, t, p) => ValueOf(u, v) = ValueOf(x, y)  BY <2>6, <4>1, <4>3
      <4> QED  BY <3>3, <4>2, <4>4 DEF NameFrom, ValueFrom, u, v, x, y
    <3> QED  BY <3>2, <3>3
  <2>12. \A k \in ParamsFrom(s, r + 1) : k + 0 \in ParamsFrom(s, r) /\ NameFrom(s, r, k + 0) = NameFrom(s, r + 1, k)
    BY <2>10, <2>11
  <2>13. \A k \in ParamsFrom(s, r) : k - 0 \in ParamsFrom(s, r + 1)  BY <2>10, <2>11
  <2>14. FitsFrom(s, r, t, p) =>
           \A k \in ParamsFrom(s, r) : ValueFrom(s, r, t, p, k) = ValueFrom(s, r + 1, t, p + 1, k - 0)
    BY <2>11
  <2> QED  BY <2>8, <2>12, <2>13, <2>14, RightBefore
<1> QED  BY <1>2, <1>3

\* Different characters.
LEMMA RightDifferent ==
  ASSUME NEW s, IsSeq(s), NEW t, IsSeq(t), NEW r \in 1 .. Len(s), NEW p \in 1 .. Len(t),
         s[r] # t[p], s[r] # ":"
  PROVE  Right([fits |-> FALSE, params |-> <<>>], s, r, t, p)
<1> DEFINE u == SegmentFrom(s, r, 0)
           v == SegmentFrom(t, p, 0)
           last == 0 = CutsFrom(t, p)
<1>0. Len(s) \in Nat /\ Len(t) \in Nat /\ r \in 1 .. Len(s) + 1 /\ p \in 1 .. Len(t) + 1 /\ r <= Len(s) /\ p <= Len(t)
  BY SeqFacts
<1>1. /\ IsSeq(u)
      /\ s[r] = Slash => u = <<>>
      /\ s[r] # Slash => u # <<>> /\ u[1] = s[r]
  BY <1>0, HeadSegment
<1>2. /\ IsSeq(v) /\ CutsFrom(t, p) \in Nat
      /\ t[p] = Slash => v = <<>>
      /\ t[p] # Slash => v # <<>> /\ v[1] = t[p]
  BY <1>0, HeadSegment
<1> HIDE DEF u, v, last
<1>3. ~SegmentFits(u, v, last)
  <2>1. CASE s[r] = Slash
    <3>1. u = <<>> /\ v # <<>>  BY <1>1, <1>2, <2>1
    <3>2. SegmentFits(u, v, last) <=> v = <<>>  BY <1>1, <1>2, <3>1, NothingFits
    <3> QED  BY <3>1, <3>2
  <2>2. CASE s[r] # Slash
    <3>1. u # <<>> /\ u[1] # ":"  BY <1>1, <2>2
    <3>2. SegmentFits(u, v, last) => v # <<>> /\ v[1] = u[1]  BY <1>1, <1>2, <3>1, NothingFits
    <3> QED  BY <1>1, <1>2, <2>2, <3>2
  <2> QED  BY <2>1, <2>2
<1>4. ~FitsFrom(s, r, t, p)
  <2>1. 0 \in 0 .. CutsFrom(t, p)  BY <1>2
  <2> QED  BY <1>3, <2>1 DEF FitsFrom, u, v, last
<1> QED  BY <1>4, RightAtOnce

\* A parameter.
LEMMA RightPastColon ==
  ASSUME NEW s, IsSeq(s), NEW t, IsSeq(t), NEW r \in 1 .. Len(s), NEW p \in 1 .. Len(t), s[r] = ":",
         NEW rest, Right(rest, s, EndOf(s, r + 1), t, EndOf(t, p))
  PROVE  Right([rest EXCEPT
                  !.params = << <<SubSeq(s, r + 1, EndOf(s, r + 1) - 1), SubSeq(t, p, EndOf(t, p) - 1)>> >> \o @],
               s, r, t, p)
<1> DEFINE e == EndOf(s, r + 1)
           f == EndOf(t, p)
           u == SegmentFrom(s, r, 0)
           v == SegmentFrom(t, p, 0)
           pair == <<SubSeq(s, r + 1, e - 1), SubSeq(t, p, f - 1)>>
           params == <<pair>> \o rest.params
           c == CutsFrom(s, r)
           g == CutsFrom(t, p)
<1>0. Len(s) \in Nat /\ Len(t) \in Nat /\ r \in 1 .. Len(s) + 1 /\ p \in 1 .. Len(t) + 1 /\ r <= Len(s) /\ p <= Len(t)
  BY SeqFacts
<1>1. e = EndOf(s, r) /\ e >= r + 1
  <2>1. s[r] # Slash  BY DEF Slash
  <2> QED  BY <2>1, SegmentsPastLiteral
<1>2. /\ SegmentFrom(s, e, 0) = <<>> /\ CutsFrom(s, e) = c /\ c \in Nat
      /\ \A k \in Nat \ {0} : SegmentFrom(s, e, k) = SegmentFrom(s, r, k)
  BY <1>0, <1>1, SegmentsAtCut, SlashesAre
<1>3. /\ SegmentFrom(t, f, 0) = <<>> /\ CutsFrom(t, f) = g /\ g \in Nat
      /\ \A k \in Nat \ {0} : SegmentFrom(t, f, k) = SegmentFrom(t, p, k)
  BY <1>0, SegmentsAtCut, SlashesAre
<1>4. /\ IsSeq(u) /\ u # <<>> /\ u[1] = ":"
  <2>1. s[r] # Slash  BY DEF Slash
  <2> QED  BY <1>0, <2>1, HeadSegment
<1>5. IsSeq(v) /\ (g = 0 => v # <<>>)  BY <1>0, HeadSegment
<1>6. u = SubSeq(s, r, e - 1) /\ v = SubSeq(t, p, f - 1)  BY <1>0, <1>1, FirstSegment
<1>7. e \in r .. Len(s) + 1 /\ f \in p .. Len(t) + 1  BY <1>0, <1>1, EndOfIs
<1>8. Right(rest, s, e, t, f)  OBVIOUS
<1> HIDE DEF e, f, u, v, params, c, g
<1>9. Colon(u) = 1  BY <1>4, <1>5, NothingFits
<1>10. NameOf(u) = SubSeq(s, r + 1, e - 1)
  <2>1. r + 1 \in 1 .. Len(s) + 1 /\ e - 1 \in r .. Len(s)  BY <1>0, <1>1, <1>7
  <2>2. Len(u) = e - 1 - r + 1
    <3>1. e - 1 \in r - 1 .. Len(s)  BY <1>0, <2>1
    <3> QED  BY <1>0, <1>6, <3>1, PartIs
  <2>3. NameOf(u) = SubSeq(SubSeq(s, r, e - 1), 2, Len(u))
    <3>1. NameOf(u) = SubSeq(u, 1 + 1, Len(u))  BY <1>9 DEF NameOf
    <3>2. 1 + 1 = 2  OBVIOUS
    <3> QED  BY <1>6, <3>1, <3>2
  <2> DEFINE b == e - 1
             n == Len(u)
  <2>4. b \in r .. Len(s) /\ n = b - r + 1  BY <2>1, <2>2
  <2> HIDE DEF b, n
  <2>5. /\ b \in r - 1 .. Len(s) /\ 2 \in 1 .. b - r + 2 /\ n \in 2 - 1 .. b - r + 1
        /\ r + 2 - 1 = r + 1 /\ r + n - 1 = b
    BY <1>0, <2>4
  <2>6. SubSeq(SubSeq(s, r, b), 2, n) = SubSeq(s, r + 2 - 1, r + n - 1)
    BY <1>0, <2>5, PartOfPart
  <2> QED  BY <2>3, <2>5, <2>6 DEF b, n
<1>11. ValueOf(u, v) = v
  <2>1. ValueOf(u, v) = SubSeq(v, 1, Len(v))  BY <1>9 DEF ValueOf
  <2>2. Len(v) \in Nat  BY <1>5, SeqFacts
  <2>3. 1 \in 1 .. Len(v) + 1 /\ Len(v) \in 1 - 1 .. Len(v)  BY <2>2
  <2> DEFINE w == SubSeq(v, 1, Len(v))
  <2>4. IsSeq(w) /\ Len(w) = Len(v) - 1 + 1 /\ \A j \in 1 .. Len(v) - 1 + 1 : w[j] = v[1 + j - 1]
    BY <1>5, <2>3, PartIs
  <2> HIDE DEF w
  <2>5. Len(w) = Len(v)  BY <2>2, <2>4
  <2>6. \A j \in 1 .. Len(w) : w[j] = v[j]
    <3> SUFFICES ASSUME NEW j \in 1 .. Len(w) PROVE w[j] = v[j]
      OBVIOUS
    <3>1. j \in 1 .. Len(v) - 1 + 1 /\ 1 + j - 1 = j  BY <2>2, <2>5
    <3> QED  BY <2>4, <3>1
  <2>7. w = v  BY <1>5, <2>4, <2>5, <2>6, SameTexts
  <2> QED  BY <2>1, <2>7 DEF w
<1>12. pair = <<NameFrom(s, r, 0), ValueFrom(s, r, t, p, 0)>>
  BY <1>6, <1>10, <1>11 DEF NameFrom, ValueFrom, u, v
<1>13. FitsFrom(s, r, t, p) <=> FitsFrom(s, e, t, f)
  <2> DEFINE Here(k) == SegmentFits(SegmentFrom(s, r, k), SegmentFrom(t, p, k), k = g)
             Next1(k) == SegmentFits(SegmentFrom(s, e, k), SegmentFrom(t, f, k), k = g)
             last == 0 = g
  <2>1. last <=> 0 = g  OBVIOUS
  <2> HIDE DEF last
  <2>2. SegmentFits(u, v, last) <=> (last => v # <<>>)  BY <1>4, <1>5, NothingFits
  <2>3. Here(0)
    <3>1. SegmentFits(u, v, last)  BY <1>5, <2>1, <2>2
    <3> QED  BY <3>1 DEF u, v, last
  <2>4. Next1(0)
    <3>1. SegmentFits(<<>>, <<>>, last)  BY EmptyIsSeq, NothingFits
    <3> QED  BY <1>2, <1>3, <3>1 DEF last
  <2>5. \A k \in 0 .. g : k # 0 => k \in Nat \ {0}  BY <1>3
  <2>6. \A k \in 0 .. g : k # 0 => (Here(k) <=> Next1(k))  BY <1>2, <1>3, <2>5
  <2>7. FitsFrom(s, r, t, p) <=> c = g /\ \A k \in 0 .. g : Here(k)  BY DEF FitsFrom, c, g
  <2>8. FitsFrom(s, e, t, f) <=> c = g /\ \A k \in 0 .. g : Next1(k)  BY <1>2, <1>3 DEF FitsFrom
  <2> HIDE DEF Here, Next1
  <2>9. \A k \in 0 .. g : Here(k) <=> Next1(k)  BY <2>3, <2>4, <2>6
  <2> QED  BY <2>7, <2>8, <2>9
<1>14. ParamsFrom(s, r) = ParamsFrom(s, e) \cup {0} /\ 0 \notin ParamsFrom(s, e)
  <2>1. \A k \in 0 .. c : k # 0 => k \in Nat \ {0}  BY <1>2
  <2>2. \A k \in 0 .. c : k # 0 => SegmentFrom(s, e, k) = SegmentFrom(s, r, k)  BY <1>2, <2>1
  <2>3. Colon(SegmentFrom(s, e, 0)) = NotFound  BY <1>2, EmptyIsSeq, NothingFits
  <2>4. Colon(SegmentFrom(s, r, 0)) # NotFound /\ 0 \in 0 .. c  BY <1>2, <1>9 DEF u, NotFound
  <2>5. \A k : k \in ParamsFrom(s, r) <=> k \in 0 .. c /\ Colon(SegmentFrom(s, r, k)) # NotFound  BY DEF ParamsFrom, c
  <2>6. \A k : k \in ParamsFrom(s, e) <=> k \in 0 .. c /\ Colon(SegmentFrom(s, e, k)) # NotFound  BY <1>2 DEF ParamsFrom
  <2>7. 0 \notin ParamsFrom(s, e)  BY <2>3, <2>6
  <2>8. \A k : k \in ParamsFrom(s, r) <=> k \in ParamsFrom(s, e) \/ k = 0  BY <2>2, <2>4, <2>5, <2>6, <2>7
  <2> QED  BY <2>7, <2>8
<1>15. ASSUME NEW k \in ParamsFrom(s, e)
       PROVE  /\ k > 0 /\ NameFrom(s, r, k) = NameFrom(s, e, k)
              /\ FitsFrom(s, e, t, f) => ValueFrom(s, r, t, p, k) = ValueFrom(s, e, t, f, k)
  <2>1. k \in 0 .. c /\ k # 0  BY <1>2, <1>14 DEF ParamsFrom
  <2>2. k \in Nat \ {0} /\ k > 0  BY <1>2, <2>1
  <2>3. SegmentFrom(s, e, k) = SegmentFrom(s, r, k) /\ SegmentFrom(t, f, k) = SegmentFrom(t, p, k)
    BY <1>2, <1>3, <2>2
  <2> QED  BY <2>2, <2>3 DEF NameFrom, ValueFrom
<1>16. /\ rest = [fits |-> rest.fits, params |-> rest.params] /\ IsSeq(rest.params)
       /\ rest.fits \in BOOLEAN /\ (rest.fits <=> FitsFrom(s, e, t, f))
       /\ NamesRight(rest.params, s, e)
       /\ rest.fits => ValuesRight(rest.params, s, e, t, f)
  BY <1>8 DEF Right
<1> HIDE DEF pair
<1>17. /\ IsSeq(params) /\ Len(params) = Len(rest.params) + 1 /\ Len(rest.params) \in Nat
       /\ params[1] = pair /\ \A i \in 1 .. Len(rest.params) : params[i + 1] = rest.params[i]
  <2>1. IsSeq(<<pair>>) /\ Len(<<pair>>) = 1 /\ <<pair>>[1] = pair
    <3>1. <<pair>> \in Seq({pair})  OBVIOUS
    <3> QED  BY <3>1, SeqIsSeq
  <2>2. Len(rest.params) \in Nat  BY <1>16, SeqFacts
  <2>3. /\ IsSeq(params) /\ Len(params) = Len(<<pair>>) + Len(rest.params)
        /\ \A i \in 1 .. Len(<<pair>>) : params[i] = <<pair>>[i]
        /\ \A i \in 1 .. Len(rest.params) : params[Len(<<pair>>) + i] = rest.params[i]
    BY <1>16, <2>1, ConcatIsSeq DEF params
  <2>4. Len(params) = Len(rest.params) + 1  BY <2>1, <2>2, <2>3
  <2>5. params[1] = pair  BY <2>1, <2>3
  <2>6. \A i \in 1 .. Len(rest.params) : params[i + 1] = rest.params[i]
    <3>1. \A i \in 1 .. Len(rest.params) : 1 + i = i + 1  OBVIOUS
    <3> QED  BY <2>1, <2>3, <3>1
  <2> QED  BY <2>2, <2>3, <2>4, <2>5, <2>6
<1>18. [rest EXCEPT !.params = <<pair>> \o @] = [fits |-> rest.fits, params |-> params]
  <2>1. [rest EXCEPT !.params = <<pair>> \o @] = [rest EXCEPT !.params = params]  BY <1>16 DEF params
  <2> QED  BY <1>16, <2>1
<1>19. NamesRight(params, s, r)
  <2> SUFFICES ASSUME NEW i \in 1 .. Len(params)
               PROVE  \E k \in ParamsFrom(s, r) : params[i][1] = NameFrom(s, r, k)
    BY DEF NamesRight
  <2>1. CASE i = 1  BY <1>12, <1>14, <1>17, <2>1
  <2>2. CASE i # 1
    <3>1. i - 1 \in 1 .. Len(rest.params) /\ (i - 1) + 1 = i  BY <1>17, <2>2
    <3>2. params[i] = rest.params[i - 1]  BY <1>17, <3>1
    <3>3. PICK k \in ParamsFrom(s, e) : rest.params[i - 1][1] = NameFrom(s, e, k)
      BY <1>16, <3>1 DEF NamesRight
    <3> QED  BY <1>14, <1>15, <3>2, <3>3
  <2> QED  BY <2>1, <2>2
<1>20. ASSUME rest.fits PROVE ValuesRight(params, s, r, t, p)
  <2> SUFFICES ASSUME NEW k \in ParamsFrom(s, r)
               PROVE  \E i \in 1 .. Len(params) :
                        /\ params[i] = <<NameFrom(s, r, k), ValueFrom(s, r, t, p, k)>>
                        /\ \A h \in 1 .. i - 1 : \E j \in ParamsFrom(s, r) : j < k /\ params[h][1] = NameFrom(s, r, j)
    BY DEF ValuesRight
  <2>1. CASE k = 0
    <3>1. 1 \in 1 .. Len(params)  BY <1>17
    <3>2. params[1] = <<NameFrom(s, r, k), ValueFrom(s, r, t, p, k)>>  BY <1>12, <1>17, <2>1
    <3> QED  BY <3>1, <3>2
  <2>2. CASE k # 0
    <3>1. k \in ParamsFrom(s, e)  BY <1>14, <2>2
    <3>2. PICK i \in 1 .. Len(rest.params) :
            /\ rest.params[i] = <<NameFrom(s, e, k), ValueFrom(s, e, t, f, k)>>
            /\ \A h \in 1 .. i - 1 : \E j \in ParamsFrom(s, e) : j < k /\ rest.params[h][1] = NameFrom(s, e, j)
      BY <1>16, <1>20, <3>1 DEF ValuesRight
    <3>3. i + 1 \in 1 .. Len(params)  BY <1>17
    <3>4. params[i + 1] = <<NameFrom(s, r, k), ValueFrom(s, r, t, p, k)>>
      BY <1>15, <1>16, <1>17, <1>20, <3>1, <3>2
    <3>5. ASSUME NEW h \in 1 .. (i + 1) - 1
          PROVE  \E j \in ParamsFrom(s, r) : j < k /\ params[h][1] = NameFrom(s, r, j)
      <4>1. CASE h = 1
        <5>1. 0 < k  BY <1>15, <3>1
        <5> QED  BY <1>12, <1>14, <1>17, <4>1, <5>1
      <4>2. CASE h # 1
        <5>1. h - 1 \in 1 .. i - 1 /\ h - 1 \in 1 .. Len(rest.params) /\ (h - 1) + 1 = h  BY <1>17, <4>2
        <5>2. params[h] = rest.params[h - 1]  BY <1>17, <5>1
        <5>3. PICK j \in ParamsFrom(s, e) : j < k /\ rest.params[h - 1][1] = NameFrom(s, e, j)  BY <3>2, <5>1
        <5> QED  BY <1>14, <1>15, <5>2, <5>3
      <4> QED  BY <4>1, <4>2
    <3> QED  BY <3>3, <3>4, <3>5
  <2> QED  BY <2>1, <2>2
<1> DEFINE result == [fits |-> rest.fits, params |-> params]
<1>21. result.fits = rest.fits /\ result.params = params  OBVIOUS
<1>22. Right(result, s, r, t, p)
  <2> HIDE DEF result
  <2>1. result = [fits |-> result.fits, params |-> result.params]  BY <1>21 DEF result
  <2> QED  BY <1>13, <1>16, <1>17, <1>19, <1>20, <1>21, <2>1 DEF Right
<1> QED  BY <1>18, <1>22 DEF pair, e, f

LEMMA MatchIsRight ==
  ASSUME NEW s, IsSeq(s), NEW t, IsSeq(t)
  PROVE  Right(MatchRoutePath(s, t), s, 1, t, 1)
<1>0. Len(s) \in Nat /\ Len(t) \in Nat  BY SeqFacts
<1>1. PICK m : /\ MatchRoutePath(s, t) = m[1][1]
               /\ \A r \in 1 .. Len(s) + 1 : m[r] = MatchRow(m, s, t, r)
  BY MatchIs
<1>2. \A r \in 1 .. Len(s) + 1 : \A p \in 1 .. Len(t) + 1 : m[r][p] = MatchAt(m, s, t, r, p)
  BY <1>1 DEF MatchRow
<1> DEFINE RowRight(r) == \A p \in 1 .. Len(t) + 1 : Right(m[r][p], s, r, t, p)
           Missed == {k \in Nat : k <= Len(s) /\ ~RowRight(Len(s) + 1 - k)}
<1>3. ASSUME NEW r \in 1 .. Len(s) + 1, \A q \in r + 1 .. Len(s) + 1 : RowRight(q)
      PROVE  RowRight(r)
  <2> SUFFICES ASSUME NEW p \in 1 .. Len(t) + 1 PROVE Right(m[r][p], s, r, t, p)
    OBVIOUS
  <2>1. m[r][p] = MatchAt(m, s, t, r, p)  BY <1>2
  <2>2. CASE r > Len(s) \/ p > Len(t)
    <3>1. Right(MatchAt(m, s, t, r, p), s, r, t, p)  BY <2>2, RightAtEnd
    <3> QED  BY <2>1, <3>1
  <2>3. CASE ~(r > Len(s) \/ p > Len(t))
    <3>1. r \in 1 .. Len(s) /\ p \in 1 .. Len(t) /\ r <= Len(s) /\ p <= Len(t)  BY <1>0, <2>3
    <3>2. r + 1 \in 1 .. Len(s) + 1 /\ r + 1 \in r + 1 .. Len(s) + 1 /\ p + 1 \in 1 .. Len(t) + 1  BY <1>0, <3>1
    <3>3. CASE s[r] = ":"
      <4> DEFINE e == EndOf(s, r + 1)
                 f == EndOf(t, p)
      <4>1. e \in r + 1 .. Len(s) + 1 /\ f \in p .. Len(t) + 1  BY <3>2, EndOfIs
      <4>2. f \in 1 .. Len(t) + 1  BY <1>0, <4>1
      <4>3. Right(m[e][f], s, e, t, f)  BY <1>3, <4>1, <4>2
      <4>4. m[r][p] = [m[e][f] EXCEPT
                         !.params = << <<SubSeq(s, r + 1, e - 1), SubSeq(t, p, f - 1)>> >> \o @]
        BY <2>1, <2>3, <3>1, <3>3 DEF MatchAt
      <4>5. Right([m[e][f] EXCEPT !.params = << <<SubSeq(s, r + 1, e - 1), SubSeq(t, p, f - 1)>> >> \o @], s, r, t, p)
        BY <3>1, <3>3, <4>3, RightPastColon
      <4> HIDE DEF e, f
      <4> QED  BY <4>4, <4>5
    <3>4. CASE s[r] # ":" /\ s[r] = t[p]
      <4>1. m[r][p] = m[r + 1][p + 1]  BY <2>1, <2>3, <3>4 DEF MatchAt
      <4>2. Right(m[r + 1][p + 1], s, r + 1, t, p + 1)  BY <1>3, <3>2
      <4> QED  BY <3>1, <3>4, <4>1, <4>2, RightPastLiteral
    <3>5. CASE s[r] # ":" /\ s[r] # t[p]
      <4>1. m[r][p] = [fits |-> FALSE, params |-> <<>>]  BY <2>1, <2>3, <3>5 DEF MatchAt
      <4> QED  BY <3>1, <3>5, <4>1, RightDifferent
    <3> QED  BY <3>3, <3>4, <3>5
  <2> QED  BY <2>2, <2>3
<1> HIDE DEF RowRight
<1>4. Missed = {}
  <2> SUFFICES ASSUME Missed # {} PROVE FALSE
    OBVIOUS
  <2> DEFINE k == Least(Missed)
  <2>1. k \in Missed /\ \A j \in Missed : k <= j
    <3>1. Missed \in SUBSET Nat  OBVIOUS
    <3> HIDE DEF Missed
    <3> QED  BY <3>1, LeastIs
  <2> HIDE DEF k
  <2>2. k \in Nat /\ k <= Len(s) /\ ~RowRight(Len(s) + 1 - k)  BY <2>1
  <2>3. ASSUME NEW q \in (Len(s) + 1 - k) + 1 .. Len(s) + 1 PROVE RowRight(q)
    <3> DEFINE j == Len(s) + 1 - q
    <3>1. j \in Nat /\ j <= Len(s) /\ ~(k <= j) /\ Len(s) + 1 - j = q  BY <1>0, <2>2
    <3> HIDE DEF j
    <3>2. j \notin Missed
      <4> HIDE DEF Missed
      <4> QED  BY <2>1, <3>1
    <3> QED  BY <3>1, <3>2
  <2>4. Len(s) + 1 - k \in 1 .. Len(s) + 1  BY <1>0, <2>2
  <2> QED  BY <1>3, <2>2, <2>3, <2>4
<1>5. RowRight(1)
  <2>1. Len(s) \in Nat /\ Len(s) <= Len(s) /\ Len(s) + 1 - Len(s) = 1  BY <1>0
  <2> QED  BY <1>4, <2>1
<1>6. 1 \in 1 .. Len(t) + 1  BY <1>0
<1> QED  BY <1>1, <1>5, <1>6 DEF RowRight

\* What match_route_path finds is what a pattern means, segment by segment.
THEOREM PatternsFit ==
  ASSUME NEW pattern, IsSeq(pattern), NEW path, IsSeq(path)
  PROVE  LET match == MatchRoutePath(pattern, path)
             name(k) == NameOf(Segment(pattern, k))
             value(k) == ValueOf(Segment(pattern, k), Segment(path, k))
         IN  /\ match.fits \in BOOLEAN /\ (match.fits <=> Fits(pattern, path))
             /\ IsSeq(match.params)
             /\ \A i \in 1 .. Len(match.params) : match.params[i][1] \in Names(pattern)
             /\ match.fits =>
                  \A k \in Params(pattern) : \E i \in 1 .. Len(match.params) :
                    /\ match.params[i] = <<name(k), value(k)>>
                    /\ \A h \in 1 .. i - 1 : \E j \in Params(pattern) : j < k /\ match.params[h][1] = name(j)
<1> DEFINE match == MatchRoutePath(pattern, path)
           params == match.params
<1>1. Right(match, pattern, 1, path, 1)  BY MatchIsRight
<1>2. /\ CutsFrom(pattern, 1) = Cuts(pattern) /\ CutsFrom(path, 1) = Cuts(path)
      /\ \A k \in Nat : SegmentFrom(pattern, 1, k) = Segment(pattern, k) /\ SegmentFrom(path, 1, k) = Segment(path, k)
  BY FromStart
<1>3. \A n : \A k \in 0 .. n : k \in Nat  OBVIOUS
<1>4. FitsFrom(pattern, 1, path, 1) <=> Fits(pattern, path)
  <2>1. \A k \in 0 .. Cuts(path) : /\ SegmentFrom(pattern, 1, k) = Segment(pattern, k)
                                   /\ SegmentFrom(path, 1, k) = Segment(path, k)
    BY <1>2, <1>3
  <2> QED  BY <1>2, <2>1 DEF FitsFrom, Fits
<1>5. ParamsFrom(pattern, 1) = Params(pattern)
  <2>1. \A k \in 0 .. Cuts(pattern) : SegmentFrom(pattern, 1, k) = Segment(pattern, k)  BY <1>2, <1>3
  <2> QED  BY <1>2, <2>1 DEF ParamsFrom, Params
<1>6. \A k \in Params(pattern) :
        /\ NameFrom(pattern, 1, k) = NameOf(Segment(pattern, k))
        /\ ValueFrom(pattern, 1, path, 1, k) = ValueOf(Segment(pattern, k), Segment(path, k))
  <2>1. \A k \in Params(pattern) : k \in Nat  BY <1>3 DEF Params
  <2> QED  BY <1>2, <2>1 DEF NameFrom, ValueFrom
<1>7. /\ match.fits \in BOOLEAN /\ (match.fits <=> Fits(pattern, path)) /\ IsSeq(params)
      /\ NamesRight(params, pattern, 1)
      /\ match.fits => ValuesRight(params, pattern, 1, path, 1)
  BY <1>1, <1>4 DEF Right
<1> HIDE DEF params, match
<1>8. \A i \in 1 .. Len(params) : params[i][1] \in Names(pattern)
  <2> SUFFICES ASSUME NEW i \in 1 .. Len(params) PROVE params[i][1] \in Names(pattern)
    OBVIOUS
  <2>1. PICK k \in Params(pattern) : params[i][1] = NameFrom(pattern, 1, k)  BY <1>5, <1>7 DEF NamesRight
  <2> QED  BY <1>6, <2>1 DEF Names
<1>9. ASSUME match.fits, NEW k \in Params(pattern)
      PROVE  \E i \in 1 .. Len(params) :
               /\ params[i] = <<NameOf(Segment(pattern, k)), ValueOf(Segment(pattern, k), Segment(path, k))>>
               /\ \A h \in 1 .. i - 1 :
                    \E j \in Params(pattern) : j < k /\ params[h][1] = NameOf(Segment(pattern, j))
  <2>1. PICK i \in 1 .. Len(params) :
          /\ params[i] = <<NameFrom(pattern, 1, k), ValueFrom(pattern, 1, path, 1, k)>>
          /\ \A h \in 1 .. i - 1 : \E j \in Params(pattern) : j < k /\ params[h][1] = NameFrom(pattern, 1, j)
    <3>1. k \in ParamsFrom(pattern, 1)  BY <1>5
    <3>2. ValuesRight(params, pattern, 1, path, 1)  BY <1>7, <1>9
    <3>3. \E i \in 1 .. Len(params) :
            /\ params[i] = <<NameFrom(pattern, 1, k), ValueFrom(pattern, 1, path, 1, k)>>
            /\ \A h \in 1 .. i - 1 :
                 \E j \in ParamsFrom(pattern, 1) : j < k /\ params[h][1] = NameFrom(pattern, 1, j)
      BY <3>1, <3>2 DEF ValuesRight
    <3> QED  BY <1>5, <3>3
  <2>2. params[i] = <<NameOf(Segment(pattern, k)), ValueOf(Segment(pattern, k), Segment(path, k))>>
    BY <1>6, <2>1
  <2>3. ASSUME NEW h \in 1 .. i - 1
        PROVE  \E j \in Params(pattern) : j < k /\ params[h][1] = NameOf(Segment(pattern, j))
    BY <1>6, <2>1
  <2> QED  BY <2>2, <2>3
<1> QED  BY <1>7, <1>8, <1>9 DEF params, match

-----------------------------------------------------------------------------
(* The parameters of the routes that were tried, one behind the other *)

\* The last part is at the end, and what is in front of it is of the others.
Ending(seqs, m, flat) ==
    /\ IsSeq(flat)
    /\ \E k \in Nat :
         /\ Len(flat) = k + Len(seqs[m])
         /\ \A i \in 1 .. Len(seqs[m]) : flat[k + i] = seqs[m][i]
         /\ \A i \in 1 .. k : \E h \in 1 .. m - 1 : \E j \in 1 .. Len(seqs[h]) : flat[i] = seqs[h][j]

LEMMA EndingOne ==
  ASSUME NEW seqs, IsSeq(seqs[1])
  PROVE  Ending(seqs, 1, seqs[1])
<1>1. Len(seqs[1]) \in Nat  BY SeqFacts
<1>2. /\ Len(seqs[1]) = 0 + Len(seqs[1])
      /\ \A i \in 1 .. Len(seqs[1]) : seqs[1][0 + i] = seqs[1][i]
      /\ \A i \in 1 .. 0 : \E h \in 1 .. 1 - 1 : \E j \in 1 .. Len(seqs[h]) : seqs[1][i] = seqs[h][j]
  BY <1>1
<1> QED  BY <1>2 DEF Ending

LEMMA EndingNext ==
  ASSUME NEW seqs, NEW m \in Nat, m >= 1, IsSeq(seqs[m + 1]), NEW flat, Ending(seqs, m, flat), IsSeq(seqs[m])
  PROVE  Ending(seqs, m + 1, flat \o seqs[m + 1])
<1> DEFINE part == seqs[m + 1]
           k == Len(flat)
           longer == flat \o part
<1>1. IsSeq(flat) /\ k \in Nat  BY SeqFacts DEF Ending
<1>2. /\ IsSeq(longer) /\ Len(longer) = k + Len(part)
      /\ \A i \in 1 .. k : longer[i] = flat[i]
      /\ \A i \in 1 .. Len(part) : longer[k + i] = part[i]
  BY <1>1, ConcatIsSeq
<1>3. PICK l \in Nat :
         /\ k = l + Len(seqs[m])
         /\ \A i \in 1 .. Len(seqs[m]) : flat[l + i] = seqs[m][i]
         /\ \A i \in 1 .. l : \E h \in 1 .. m - 1 : \E j \in 1 .. Len(seqs[h]) : flat[i] = seqs[h][j]
  BY DEF Ending
<1>4. Len(seqs[m]) \in Nat  BY SeqFacts
<1>5. m \in 1 .. (m + 1) - 1 /\ \A h \in 1 .. m - 1 : h \in 1 .. (m + 1) - 1  OBVIOUS
<1> HIDE DEF k, longer
<1>6. ASSUME NEW i \in 1 .. k
      PROVE  \E h \in 1 .. (m + 1) - 1 : \E j \in 1 .. Len(seqs[h]) : longer[i] = seqs[h][j]
  <2>1. CASE i <= l
    <3>1. i \in 1 .. l  BY <1>3, <2>1
    <3>2. PICK h \in 1 .. m - 1 : \E j \in 1 .. Len(seqs[h]) : flat[i] = seqs[h][j]  BY <1>3, <3>1
    <3> QED  BY <1>2, <1>5, <3>2
  <2>2. CASE ~(i <= l)
    <3>1. i - l \in 1 .. Len(seqs[m]) /\ l + (i - l) = i  BY <1>1, <1>3, <1>4, <2>2
    <3>2. flat[l + (i - l)] = seqs[m][i - l]  BY <1>3, <3>1
    <3>3. longer[i] = seqs[m][i - l]  BY <1>2, <3>1, <3>2
    <3> QED  BY <1>5, <3>1, <3>3
  <2> QED  BY <2>1, <2>2
<1> QED  BY <1>1, <1>2, <1>6 DEF Ending, longer

LEMMA FlattenIs ==
  ASSUME NEW seqs, IsSeq(seqs), seqs # <<>>, \A i \in 1 .. Len(seqs) : IsSeq(seqs[i])
  PROVE  Ending(seqs, Len(seqs), FlattenSeq(seqs))
<1> DEFINE n == Len(seqs)
           Here(f, i) == IF i = 1 THEN seqs[i] ELSE f[i - 1] \o seqs[i]
           Once(f) == [i \in 1 .. n |-> Here(f, i)]
           whole == CHOOSE f : f = Once(f)
           Good(f, k) == f = [i \in 1 .. n |-> f[i]] /\ \A i \in 1 .. k : f[i] = Here(f, i)
           Missed == {k \in Nat : k <= n /\ ~ \E f : Good(f, k)}
<1>0. n \in Nat /\ n # 0  BY SeqFacts, EmptySeq DEF IsSeq
<1>1. FlattenSeq(seqs) = whole[n]  BY <1>0 DEF FlattenSeq
<1> HIDE DEF n
<1>2. Missed = {}
  <2> SUFFICES ASSUME Missed # {} PROVE FALSE
    OBVIOUS
  <2> DEFINE k == Least(Missed)
  <2>1. k \in Missed /\ \A j \in Missed : k <= j
    <3>1. Missed \in SUBSET Nat  OBVIOUS
    <3> HIDE DEF Missed
    <3> QED  BY <3>1, LeastIs
  <2> HIDE DEF k
  <2>2. k \in Nat /\ k <= n /\ ~ \E f : Good(f, k)  BY <2>1
  <2>3. k # 0
    <3> DEFINE f == [i \in 1 .. n |-> 0]
    <3>1. f = [i \in 1 .. n |-> f[i]] /\ \A i \in 1 .. 0 : f[i] = Here(f, i)  OBVIOUS
    <3> HIDE DEF f
    <3>2. Good(f, 0)  BY <3>1
    <3> HIDE DEF Good
    <3> QED  BY <2>2, <3>2
  <2>4. PICK f : Good(f, k - 1)
    <3>1. k - 1 \in Nat /\ k - 1 <= n /\ ~(k <= k - 1)  BY <1>0, <2>2, <2>3
    <3>2. k - 1 \notin Missed
      <4> HIDE DEF Missed
      <4> QED  BY <2>1, <3>1
    <3> HIDE DEF Good
    <3> QED  BY <3>1, <3>2
  <2> DEFINE g == [i \in 1 .. n |-> IF i = k THEN Here(f, k) ELSE f[i]]
  <2>5. /\ k \in 1 .. n /\ \A i \in 1 .. k : i \in 1 .. n /\ (i # k => i \in 1 .. k - 1)
        /\ \A i \in 1 .. k : i # 1 => i - 1 \in 1 .. n /\ i - 1 # k
    BY <1>0, <2>2, <2>3
  <2>6. \A i \in 1 .. n : i # k => g[i] = f[i]  OBVIOUS
  <2>7. g[k] = Here(f, k)
    <3> HIDE DEF Here
    <3> QED  BY <2>5
  <2>8. g = [i \in 1 .. n |-> g[i]]  OBVIOUS
  <2> HIDE DEF g
  <2>9. ASSUME NEW i \in 1 .. k PROVE g[i] = Here(g, i)
    <3>1. Here(g, i) = Here(f, i)  BY <2>5, <2>6
    <3> HIDE DEF Here
    <3>2. CASE i = k  BY <2>7, <3>1, <3>2
    <3>3. CASE i # k  BY <2>4, <2>5, <2>6, <3>1, <3>3
    <3> QED  BY <3>2, <3>3
  <2>10. Good(g, k)  BY <2>8, <2>9
  <2> HIDE DEF Good
  <2> QED  BY <2>2, <2>10
<1>3. PICK f : Good(f, n)
  <2>1. n \notin Missed  BY <1>2
  <2> HIDE DEF Good
  <2> QED  BY <1>0, <2>1
<1>4. f = Once(f)
  <2> HIDE DEF Here
  <2> QED  BY <1>3
<1>5. whole = Once(whole)
  <2> HIDE DEF Once
  <2> QED  BY <1>4
<1> HIDE DEF whole
<1>6. \A i \in 1 .. n : whole[i] = Here(whole, i)
  <2> HIDE DEF Here
  <2> QED  BY <1>5
<1> DEFINE Short == {k \in Nat : k + 1 <= n /\ ~Ending(seqs, k + 1, whole[k + 1])}
<1>7. Short = {}
  <2> SUFFICES ASSUME Short # {} PROVE FALSE
    OBVIOUS
  <2> DEFINE k == Least(Short)
  <2>1. k \in Short /\ \A j \in Short : k <= j
    <3>1. Short \in SUBSET Nat  OBVIOUS
    <3> HIDE DEF Short
    <3> QED  BY <3>1, LeastIs
  <2> HIDE DEF k
  <2>2. k \in Nat /\ k + 1 <= n /\ ~Ending(seqs, k + 1, whole[k + 1])  BY <2>1
  <2>3. k + 1 \in 1 .. n /\ IsSeq(seqs[k + 1]) /\ whole[k + 1] = Here(whole, k + 1)
    <3>1. k + 1 \in 1 .. n  BY <1>0, <2>2
    <3> HIDE DEF Here
    <3> QED  BY <1>6, <3>1 DEF n
  <2>4. CASE k = 0
    <3>1. k + 1 = 1  BY <2>4
    <3>2. whole[1] = seqs[1] /\ IsSeq(seqs[1])  BY <2>3, <3>1
    <3>3. Ending(seqs, 1, whole[1])  BY <3>2, EndingOne
    <3> QED  BY <2>2, <3>1, <3>3
  <2>5. CASE k # 0
    <3>1. k - 1 \in Nat /\ (k - 1) + 1 = k /\ k <= n /\ k >= 1 /\ ~(k <= k - 1) /\ k \in 1 .. n
      BY <1>0, <2>2, <2>5
    <3>2. k - 1 \notin Short
      <4> HIDE DEF Short
      <4> QED  BY <2>1, <3>1
    <3>3. Ending(seqs, k, whole[k])  BY <3>1, <3>2
    <3>4. IsSeq(seqs[k])  BY <3>1 DEF n
    <3>5. Ending(seqs, k + 1, whole[k] \o seqs[k + 1])  BY <2>2, <2>3, <3>1, <3>3, <3>4, EndingNext
    <3>6. k + 1 # 1 /\ (k + 1) - 1 = k  BY <2>2, <2>5
    <3>7. whole[k + 1] = whole[k] \o seqs[k + 1]  BY <2>3, <3>6
    <3> QED  BY <2>2, <3>5, <3>7
  <2> QED  BY <2>4, <2>5
<1>8. Ending(seqs, n, whole[n])
  <2>1. n - 1 \in Nat /\ (n - 1) + 1 = n /\ n <= n  BY <1>0
  <2>2. n - 1 \notin Short  BY <1>7
  <2> QED  BY <2>1, <2>2
<1> QED  BY <1>1, <1>8 DEF n

-----------------------------------------------------------------------------
(* The route that answers *)

\* What RouteIsFirst says of one connection.
FitsOf(routes, request) ==
    {i \in 1 .. Len(routes) : routes[i].method = request.method /\ Fits(routes[i].path, request.path)}
ParamRight(routes, request, route, params, k) ==
    LET pattern == routes[route].path
        name(j) == NameOf(Segment(pattern, j))
    IN  \/ \E i \in 1 .. route - 1 : routes[i].method = request.method /\ name(k) \in Names(routes[i].path)
        \/ \E j \in Params(pattern) : j < k /\ name(j) = name(k)
        \/ GetParam(params, name(k)) = <<ValueOf(Segment(pattern, k), Segment(request.path, k))>>
RoutedRight(routes, request, route, params) ==
    /\ FitsOf(routes, request) # {} /\ route = Least(FitsOf(routes, request))
    /\ \A k \in Params(routes[route].path) : ParamRight(routes, request, route, params, k)

Routed == {"handler", "legacy", "fallback"}

RoutedAreRight ==
    \A c \in Client : pc[c] \in Routed /\ c \notin orphans =>
      RoutedRight(server.routes, req[c], local[c].route, local[c].params)

LEMMA RouteIsFirstMeans == RoutedAreRight => RouteIsFirst
<1>1. \A c \in Client :
        RoutedRight(server.routes, req[c], local[c].route, local[c].params) <=>
        LET path == req[c].path
            OfMethod(i) == server.routes[i].method = req[c].method
            fits == {i \in 1 .. Len(server.routes) : OfMethod(i) /\ Fits(server.routes[i].path, path)}
            route == local[c].route
            pattern == server.routes[route].path
            name(k) == NameOf(Segment(pattern, k))
        IN  /\ fits # {} /\ route = Least(fits)
            /\ \A k \in Params(pattern) :
                 \/ \E i \in 1 .. route - 1 : OfMethod(i) /\ name(k) \in Names(server.routes[i].path)
                 \/ \E j \in Params(pattern) : j < k /\ name(j) = name(k)
                 \/ GetParam(local[c].params, name(k)) = <<ValueOf(Segment(pattern, k), Segment(path, k))>>
  BY DEF RoutedRight, FitsOf, ParamRight
<1> QED  BY <1>1 DEF RouteIsFirst, RoutedAreRight, Routed

ArePatterns(routes) == IsSeq(routes) /\ \A i \in 1 .. Len(routes) : IsSeq(routes[i].path)

\* The parameters of the route that fits come after those of routes that were tried before.
LEMMA ParamsAreRight ==
  ASSUME NEW routes, ArePatterns(routes), NEW request, IsSeq(request.path),
         NEW tried, tried = {i \in 1 .. Len(routes) : routes[i].method = request.method},
         NEW fit \in FitsOf(routes, request),
         NEW parts, parts = [i \in 1 .. fit |->
                               IF i \in tried THEN MatchRoutePath(routes[i].path, request.path).params ELSE <<>>],
         NEW k \in Params(routes[fit].path)
  PROVE  ParamRight(routes, request, fit, FlattenSeq(parts), k)
<1> DEFINE path == request.path
           pattern == routes[fit].path
           name(j) == NameOf(Segment(pattern, j))
           value == ValueOf(Segment(pattern, k), Segment(path, k))
           flat == FlattenSeq(parts)
           found(i) == MatchRoutePath(routes[i].path, path).params
<1>0. Len(routes) \in Nat /\ fit \in 1 .. Len(routes) /\ fit \in Nat /\ fit # 0 /\ fit \in tried
  BY SeqFacts DEF ArePatterns, FitsOf
<1>1. SUFFICES ASSUME \A i \in 1 .. fit - 1 : routes[i].method = request.method => name(k) \notin Names(routes[i].path),
                      \A j \in Params(pattern) : j < k => name(j) # name(k)
               PROVE  GetParam(flat, name(k)) = <<value>>
  BY DEF ParamRight
<1>2. \A i \in 1 .. Len(routes) : /\ IsSeq(found(i))
                                  /\ \A j \in 1 .. Len(found(i)) : found(i)[j][1] \in Names(routes[i].path)
  BY PatternsFit DEF ArePatterns
<1>3. PICK p \in 1 .. Len(found(fit)) :
        /\ found(fit)[p] = <<name(k), value>>
        /\ \A h \in 1 .. p - 1 : \E j \in Params(pattern) : j < k /\ found(fit)[h][1] = name(j)
  <2>1. IsSeq(pattern) /\ Fits(pattern, path)  BY <1>0 DEF ArePatterns, FitsOf
  <2>2. MatchRoutePath(pattern, path).fits  BY <2>1, PatternsFit
  <2> QED  BY <2>1, <2>2, PatternsFit
<1> HIDE DEF value, found, name
<1>4. /\ DOMAIN parts = 1 .. fit
      /\ \A i \in 1 .. fit : parts[i] = IF i \in tried THEN found(i) ELSE <<>>
  BY DEF found
<1>5. \A i \in 1 .. fit : i \in 1 .. Len(routes) /\ IsSeq(parts[i])
  BY <1>0, <1>2, <1>4, EmptyIsSeq
<1>6. IsSeq(parts) /\ Len(parts) = fit /\ parts # <<>>
  <2> DEFINE S == {parts[i] : i \in 1 .. fit}
  <2>1. parts \in Seq(S)
    <3>1. \A i \in 1 .. fit : parts[i] \in S  OBVIOUS
    <3>2. parts = [i \in 1 .. fit |-> parts[i]]  OBVIOUS
    <3> HIDE DEF S
    <3>3. parts \in [1 .. fit -> S]  BY <3>1, <3>2
    <3> QED  BY <1>0, <3>3, SeqDef
  <2>2. Len(parts) = fit  BY <1>0, <1>4, <2>1, LenProperties
  <2>3. parts # <<>>  BY <1>0, <2>2, EmptySeq
  <2> QED  BY <2>1, <2>2, <2>3, SeqIsSeq
<1>7. Ending(parts, fit, flat)  BY <1>5, <1>6, FlattenIs
<1> HIDE DEF flat
<1>8. PICK l \in Nat :
        /\ Len(flat) = l + Len(parts[fit])
        /\ \A i \in 1 .. Len(parts[fit]) : flat[l + i] = parts[fit][i]
        /\ \A i \in 1 .. l : \E h \in 1 .. fit - 1 : \E j \in 1 .. Len(parts[h]) : flat[i] = parts[h][j]
  BY <1>7 DEF Ending
<1>9. parts[fit] = found(fit) /\ Len(found(fit)) \in Nat
  <2>1. IsSeq(found(fit))  BY <1>0, <1>2
  <2> QED  BY <1>0, <1>4, <2>1, SeqFacts
<1>10. l + p \in 1 .. Len(flat) /\ flat[l + p] = <<name(k), value>> /\ p \in Nat /\ l + p \in Nat
  <2>1. p \in 1 .. Len(parts[fit]) /\ Len(parts[fit]) \in Nat  BY <1>9
  <2>2. l + p \in 1 .. l + Len(parts[fit]) /\ p \in Nat /\ l + p \in Nat  BY <2>1
  <2>3. flat[l + p] = parts[fit][p]  BY <1>8, <2>1
  <2> QED  BY <1>3, <1>8, <1>9, <2>2, <2>3
<1>11. ASSUME NEW i \in 1 .. l PROVE flat[i][1] # name(k)
  <2>1. PICK h \in 1 .. fit - 1 : \E j \in 1 .. Len(parts[h]) : flat[i] = parts[h][j]  BY <1>8
  <2>2. PICK j \in 1 .. Len(parts[h]) : flat[i] = parts[h][j]  BY <2>1
  <2>3. h \in 1 .. fit /\ h \in 1 .. Len(routes)  BY <1>0
  <2>4. h \in tried /\ parts[h] = found(h)
    <3>1. h \notin tried => Len(parts[h]) = 0  BY <1>4, <2>3, EmptyIsSeq
    <3>2. ~(j \in 1 .. 0)  OBVIOUS
    <3> QED  BY <1>4, <2>3, <3>1, <3>2
  <2>5. flat[i][1] \in Names(routes[h].path)  BY <1>2, <2>2, <2>3, <2>4
  <2> QED  BY <1>1, <2>4, <2>5
<1>12. ASSUME NEW i \in 1 .. Len(flat), i < l + p PROVE flat[i][1] # name(k)
  <2>1. CASE i <= l  BY <1>11, <2>1
  <2>2. CASE ~(i <= l)
    <3>1. i - l \in 1 .. p - 1 /\ i - l \in 1 .. Len(found(fit)) /\ l + (i - l) = i
      BY <1>3, <1>8, <1>9, <1>12, <2>2
    <3>2. flat[l + (i - l)] = found(fit)[i - l]  BY <1>8, <1>9, <3>1
    <3>3. flat[i] = found(fit)[i - l]  BY <3>1, <3>2
    <3>4. PICK j \in Params(pattern) : j < k /\ found(fit)[i - l][1] = name(j)  BY <1>3, <3>1
    <3> QED  BY <1>1, <3>3, <3>4
  <2> QED  BY <2>1, <2>2
<1> DEFINE Named == {i \in 1 .. Len(flat) : flat[i][1] = name(k)}
<1>13. Least(Named) = l + p
  <2>1. l + p \in Named  BY <1>10
  <2>2. Named \in SUBSET Nat /\ \A i \in Named : ~(i < l + p)  BY <1>12
  <2> HIDE DEF Named
  <2>3. Least(Named) \in Named /\ Least(Named) <= l + p /\ ~(Least(Named) < l + p)
    BY <2>1, <2>2, LeastIs
  <2> DEFINE m == Least(Named)
  <2>4. m \in Nat /\ m <= l + p /\ ~(m < l + p)  BY <2>2, <2>3
  <2> HIDE DEF m
  <2>5. m = l + p  BY <1>10, <2>4
  <2> QED  BY <2>5 DEF m
<1>14. l + p # NotFound  BY <1>8 DEF NotFound
<1>15. GetParam(flat, name(k)) = <<flat[l + p][2]>>
  BY <1>13, <1>14 DEF GetParam
<1> QED  BY <1>10, <1>15

\* handle_client picks the route that answers.
LEMMA RouteFinds ==
  ASSUME Typed, ArePatterns(server.routes), NEW c \in Client, IsSeq(req[c].path), Route(c), pc'[c] \in Routed
  PROVE  RoutedRight(server.routes, req[c], local'[c].route, local'[c].params)
<1> DEFINE routes == server.routes
           path == req[c].path
           tried == Tried(c)
           T == {i \in tried : MatchRoutePath(routes[i].path, path).fits}
           fit == Least(T)
           upTo == IF fit = NotFound THEN Len(routes) ELSE fit
           handler == IF fit = NotFound THEN None ELSE routes[fit].handler
           parts == [i \in 1 .. upTo |->
                       IF i \in tried THEN MatchRoutePath(routes[i].path, path).params ELSE <<>>]
<1>1. tried = {i \in 1 .. Len(routes) : routes[i].method = req[c].method}  BY DEF Tried
<1>2. T = FitsOf(routes, req[c])
  <2>1. \A i \in 1 .. Len(routes) : MatchRoutePath(routes[i].path, path).fits <=> Fits(routes[i].path, path)
    BY PatternsFit DEF ArePatterns
  <2> QED  BY <1>1, <2>1 DEF FitsOf
<1>3. /\ local' = [local EXCEPT ![c] = [local[c] EXCEPT !.params = FlattenSeq(parts), !.route = fit]]
      /\ fit = NotFound => pc' = [pc EXCEPT ![c] = "noRoute"]
  <2>1. /\ local' = [local EXCEPT ![c] = [local[c] EXCEPT !.params = FlattenSeq(parts), !.route = fit]]
        /\ Moves(c, CASE fit = NotFound -> "noRoute"
                      [] fit # NotFound /\ handler = None -> "legacy"
                      [] handler = <<CFallback>> -> "fallback"
                      [] OTHER -> "handler")
    BY Zenon DEF Route, Sets
  <2>2. fit = NotFound => handler = None  OBVIOUS
  <2>3. None # <<CFallback>>  BY EmptySeq DEF None
  <2> HIDE DEF fit, handler, parts, upTo, T
  <2> QED  BY <2>1, <2>2, <2>3 DEF Moves, Goto
<1> HIDE DEF T
<1>4. fit # NotFound
  <2>1. fit = NotFound => pc'[c] = "noRoute"
    <3> HIDE DEF fit
    <3> QED  BY <1>3 DEF Typed
  <2> QED  BY <2>1 DEF Routed
<1>5. fit \in T
  <2>1. T \in SUBSET Nat  BY <1>2 DEF FitsOf
  <2> QED  BY <1>4, <2>1, LeastIsIn
<1>6. parts = [i \in 1 .. fit |-> IF i \in tried THEN MatchRoutePath(routes[i].path, path).params ELSE <<>>]
  BY <1>4
<1> HIDE DEF fit, parts, upTo
<1>7. local'[c].params = FlattenSeq(parts) /\ local'[c].route = fit
  <2> DEFINE flat == FlattenSeq(parts)
  <2> HIDE DEF flat
  <2>1. local' = [local EXCEPT ![c] = [local[c] EXCEPT !.params = flat, !.route = fit]]  BY <1>3 DEF flat
  <2>2. local'[c].params = flat /\ local'[c].route = fit  BY <2>1 DEF Typed, On, LocalField
  <2> QED  BY <2>2 DEF flat
<1>8. \A k \in Params(routes[fit].path) : ParamRight(routes, req[c], fit, FlattenSeq(parts), k)
  <2> HIDE DEF tried
  <2> QED  BY <1>1, <1>2, <1>5, <1>6, ParamsAreRight
<1>9. FitsOf(routes, req[c]) # {} /\ fit = Least(FitsOf(routes, req[c]))
  BY <1>2, <1>5 DEF fit
<1> QED  BY <1>7, <1>8, <1>9 DEF RoutedRight

\* A route that is registered later changes nothing.
LEMMA RoutedStays ==
  ASSUME NEW routes, IsSeq(routes), NEW r, NEW request, NEW route, NEW params,
         RoutedRight(routes, request, route, params)
  PROVE  RoutedRight(Append(routes, r), request, route, params)
<1> DEFINE more == Append(routes, r)
           old == FitsOf(routes, request)
           new == FitsOf(more, request)
<1>0. Len(routes) \in Nat  BY SeqFacts
<1>1. Len(more) = Len(routes) + 1 /\ \A i \in 1 .. Len(routes) : more[i] = routes[i]
  BY AppendIsSeq
<1>2. /\ old \in SUBSET Nat /\ new \in SUBSET Nat
      /\ \A i \in old : i \in 1 .. Len(routes) /\ i \in new
      /\ \A i \in new : i \in old \/ i = Len(routes) + 1
  <2> HIDE DEF more
  <2> QED  BY <1>0, <1>1 DEF FitsOf
<1>3. old # {} /\ route = Least(old) /\ route \in old /\ \A i \in old : route <= i
  BY <1>2, LeastIs DEF RoutedRight
<1> HIDE DEF old, new, more
<1>4. route = Least(new)
  <2>1. new # {} /\ route \in new  BY <1>2, <1>3
  <2>2. \A i \in new : route <= i  BY <1>0, <1>2, <1>3
  <2>3. Least(new) \in new /\ \A i \in new : Least(new) <= i  BY <1>2, <2>1, LeastIs
  <2> DEFINE m == Least(new)
  <2>4. m \in Nat /\ route \in Nat /\ m <= route /\ route <= m  BY <1>2, <2>1, <2>2, <2>3
  <2> HIDE DEF m
  <2>5. m = route  BY <2>4
  <2> QED  BY <2>5 DEF m
<1>5. route \in 1 .. Len(routes) /\ \A i \in 1 .. route - 1 : i \in 1 .. Len(routes)
  <2>1. route \in 1 .. Len(routes)  BY <1>2, <1>3
  <2> QED  BY <1>0, <2>1
<1>6. \A k \in Params(routes[route].path) : ParamRight(more, request, route, params, k)
  <2>1. \A k \in Params(routes[route].path) : ParamRight(routes, request, route, params, k)  BY DEF RoutedRight
  <2> QED  BY <1>1, <1>5, <2>1 DEF ParamRight
<1>7. new # {} /\ more[route] = routes[route]  BY <1>1, <1>2, <1>3, <1>5
<1> QED  BY <1>4, <1>6, <1>7 DEF RoutedRight, new, more

\* The invariant of the theorem on routes: the patterns of the script, and of what it has
\* registered, are texts, and whoever is answered by a route is by the right one.
HavePatterns(calls) == \A i \in 1 .. Len(calls) : HasPattern(calls[i])
RoutesInv == HavePatterns(script) /\ ArePatterns(server.routes) /\ RoutedAreRight

LEMMA RoutesInit == Init => RoutesInv
<1> SUFFICES ASSUME Init PROVE RoutesInv
  OBVIOUS
<1>1. server.routes = <<>> /\ \A c \in Client : pc[c] = "idle"  BY DEF Init, NoServer
<1>2. ArePatterns(server.routes)  BY <1>1, EmptyIsSeq DEF ArePatterns
<1>3. HavePatterns(script)  BY ScenarioAssumption DEF Init, HavePatterns
<1> QED  BY <1>1, <1>2, <1>3 DEF RoutesInv, RoutedAreRight, Routed

LEMMA TailHasPatterns ==
  ASSUME NEW calls, IsSeq(calls), calls # <<>>, HavePatterns(calls)
  PROVE  HavePatterns(Tail(calls)) /\ HasPattern(Head(calls))
<1> DEFINE S == {calls[i] : i \in DOMAIN calls}
           rest == Tail(calls)
<1>1. calls \in Seq(S)  BY DEF IsSeq
<1>2. Len(calls) \in Nat \ {0}  BY SeqFacts, EmptySeq DEF IsSeq
<1> HIDE DEF S
<1>3. Len(rest) = Len(calls) - 1 /\ Head(calls) = calls[1] /\ \A i \in 1 .. Len(rest) : rest[i] = calls[i + 1]
  BY <1>1, HeadTailProperties
<1> HIDE DEF rest
<1>4. 1 \in 1 .. Len(calls) /\ \A i \in 1 .. Len(rest) : i + 1 \in 1 .. Len(calls)
  BY <1>2, <1>3
<1> QED  BY <1>3, <1>4 DEF HavePatterns, rest

LEMMA AppendPattern ==
  ASSUME NEW routes, ArePatterns(routes), NEW r, IsSeq(r.path)
  PROVE  ArePatterns(Append(routes, r))
<1> DEFINE more == Append(routes, r)
<1>1. /\ IsSeq(more) /\ Len(more) = Len(routes) + 1
      /\ \A i \in 1 .. Len(routes) : more[i] = routes[i]
      /\ more[Len(routes) + 1] = r /\ Len(routes) \in Nat
  BY AppendIsSeq, SeqFacts DEF ArePatterns
<1> HIDE DEF more
<1>2. \A i \in 1 .. Len(more) : i \in 1 .. Len(routes) \/ i = Len(routes) + 1  BY <1>1
<1> QED  BY <1>1, <1>2 DEF ArePatterns, more

\* Who is answered by a route is answered by the same one, whatever is registered meanwhile.
LEMMA RoutesKept ==
  ASSUME RoutesInv, HavePatterns(script'), ArePatterns(server'.routes),
         \A c \in Client : pc'[c] \in Routed /\ c \notin orphans' =>
           /\ pc[c] \in Routed /\ c \notin orphans /\ req'[c] = req[c]
           /\ local'[c].route = local[c].route /\ local'[c].params = local[c].params
           /\ server'.routes = server.routes \/ \E r : server'.routes = Append(server.routes, r)
  PROVE  RoutesInv'
<1>1. ASSUME NEW c \in Client, pc'[c] \in Routed, c \notin orphans'
      PROVE  RoutedRight(server'.routes, req'[c], local'[c].route, local'[c].params)
  <2>1. RoutedRight(server.routes, req[c], local[c].route, local[c].params)
    BY <1>1 DEF RoutesInv, RoutedAreRight
  <2>2. IsSeq(server.routes)  BY DEF RoutesInv, ArePatterns
  <2>3. \A r : RoutedRight(Append(server.routes, r), req[c], local[c].route, local[c].params)
    BY <2>1, <2>2, RoutedStays
  <2> QED  BY <1>1, <2>1, <2>3
<1> QED  BY <1>1 DEF RoutesInv, RoutedAreRight

\* The calls of the script.
LEMMA ScriptRoutes ==
  ASSUME ConnectionsInv, RoutesInv, Script
  PROVE  RoutesInv'
<1>0. Typed /\ OrphanInv /\ IsSeq(script)  BY DEF ConnectionsInv, Typed
<1>1. \/ UNCHANGED script
      \/ script # <<>> /\ (script' = Tail(script) \/ script' = <<>>)
  <2>1. CASE Beginning  BY <1>0, <2>1, BeginningFrame
  <2>2. CASE ~Beginning
    BY <2>2 DEF Beginning, Script, WithoutServer, CreateServer, AddLegacyRoute, RegisterRoute, AddStaticMount,
       SetStaticMount, AddBypass, ClearBypass, StartServer, ListenServer, Cleanup, ScriptUndefined, Calls, InCall
  <2> QED  BY <2>1, <2>2
<1>2. HavePatterns(script') /\ (script # <<>> => HasPattern(Head(script)))
  <2>1. HavePatterns(<<>>)  BY EmptySeq DEF HavePatterns
  <2>2. HavePatterns(script)  BY DEF RoutesInv
  <2> QED  BY <1>0, <1>1, <2>1, <2>2, TailHasPatterns
<1>3. req' = req  BY ScriptFrame
<1>4. \A c \in Client : pc'[c] \in Routed /\ c \notin orphans' =>
        /\ pc[c] \in Routed /\ c \notin orphans /\ server.exists
        /\ local'[c].route = local[c].route /\ local'[c].params = local[c].params
  <2>1. \A c \in Client : pc[c] \in Routed /\ c \notin orphans => server.exists
    BY <1>0 DEF OrphanInv, Serving, Place, Routed
  <2>2. CASE Cleanup
    <3>1. UNCHANGED pc /\ \A c \in Client : Busy(c) => c \in orphans'
      BY <2>2 DEF Cleanup, ConnectionsUnchanged
    <3> QED  BY <3>1 DEF Busy, Routed
  <2>3. CASE ScriptUndefined
    <3>1. \A c \in Client : pc'[c] = "undefined"  BY <2>3 DEF ScriptUndefined
    <3> QED  BY <3>1 DEF Routed
  <2>4. CASE ClearBypass
    <3>1. UNCHANGED <<pc, orphans>> /\ local' = [c \in Client |-> [local[c] EXCEPT !.bypass = {}]]
      BY <2>4 DEF ClearBypass, listenVars
    <3>2. \A c \in Client : local'[c].route = local[c].route /\ local'[c].params = local[c].params
      BY <1>0, <3>1 DEF Typed, On, LocalField
    <3> QED  BY <2>1, <3>1, <3>2
  <2>5. CASE ~(Cleanup \/ ScriptUndefined \/ ClearBypass)
    <3>1. UNCHANGED <<pc, local, orphans>>
      <4>1. CASE Beginning  BY <1>0, <4>1, BeginningFrame
      <4>2. CASE ~Beginning
        BY <2>5, <4>2 DEF Beginning, Script, WithoutServer, CreateServer, AddLegacyRoute, RegisterRoute,
           AddStaticMount, SetStaticMount, AddBypass, StartServer, ListenServer, Configures,
           ConnectionsUnchanged, listenVars
      <4> QED  BY <4>1, <4>2
    <3> QED  BY <2>1, <3>1
  <2> QED  BY <2>2, <2>3, <2>4, <2>5
<1>5. \/ server'.routes = server.routes
      \/ server'.routes = <<>> /\ (~server.exists \/ Cleanup)
      \/ \E r : server'.routes = Append(server.routes, r) /\ IsSeq(r.path)
  <2>1. CASE WithoutServer \/ ScriptUndefined \/ ListenServer
    BY <2>1 DEF WithoutServer, ScriptUndefined, ListenServer, serverVars
  <2>2. CASE CreateServer \/ StartServer
    <3>1. server' = Created(server)  BY <2>2 DEF CreateServer, StartServer, Configures
    <3>2. NoServer.routes = <<>> /\ [NoServer EXCEPT !.exists = TRUE].routes = <<>>  BY DEF NoServer
    <3> QED  BY <3>1, <3>2 DEF Created
  <2>3. CASE Cleanup
    BY <2>3 DEF Cleanup, NoServer
  <2>4. CASE ClearBypass \/ AddBypass
    BY <1>0, <2>4 DEF ClearBypass, AddBypass, Configures, Typed, On, ServerField
  <2>5. CASE Beginning  BY <1>0, <2>5, BeginningFrame
  <2>6. CASE AddStaticMount
    <3>1. \/ UNCHANGED server
          \/ server' = WithMount(server, Head(script).prefix, Head(script).root, "nothing")
      BY <2>6 DEF AddStaticMount, Configures
    <3> QED  BY <1>0, <3>1, WithMountTyped DEF Typed
  <2>7. CASE SetStaticMount
    <3>1. \/ UNCHANGED server
          \/ \E owned : server' = [server EXCEPT !.owned = owned, !.serveStatic = TRUE, !.doing = "nothing"]
      BY <2>7 DEF SetStaticMount, Configures
    <3> QED  BY <1>0, <3>1 DEF Typed, On, ServerField
  <2>8. CASE AddLegacyRoute \/ RegisterRoute
    <3>1. script # <<>> /\ Head(script).call \in {"route", "registerRoute"}
      BY <2>8 DEF AddLegacyRoute, RegisterRoute, Calls, InCall
    <3>2. IsSeq(Head(script).path)  BY <1>2, <3>1 DEF HasPattern
    <3>3. \/ UNCHANGED server
          \/ \E handler : server' = WithRoute(server, Head(script).method, Head(script).path, handler)
      BY <2>8 DEF AddLegacyRoute, RegisterRoute, Configures
    <3>4. ASSUME NEW handler, server' = WithRoute(server, Head(script).method, Head(script).path, handler)
          PROVE  \E r : server'.routes = Append(server.routes, r) /\ IsSeq(r.path)
      <4> DEFINE r == [method |-> Head(script).method, path |-> Head(script).path, handler |-> handler]
      <4>1. server'.routes = Append(server.routes, r)
        BY <1>0, <3>4 DEF WithRoute, Typed, On, ServerField
      <4>2. r.path = Head(script).path  OBVIOUS
      <4> HIDE DEF r
      <4> QED  BY <3>2, <4>1, <4>2
    <3> QED  BY <3>3, <3>4
  <2> QED  BY <2>1, <2>2, <2>3, <2>4, <2>5, <2>6, <2>7, <2>8 DEF Script, Beginning
<1>6. ArePatterns(server'.routes)
  <2>1. ArePatterns(<<>>)  BY EmptyIsSeq DEF ArePatterns
  <2> QED  BY <1>5, <2>1, AppendPattern DEF RoutesInv
<1>7. ASSUME NEW c \in Client, pc'[c] \in Routed, c \notin orphans'
      PROVE  server'.routes = server.routes \/ \E r : server'.routes = Append(server.routes, r)
  <2>1. server.exists  BY <1>4, <1>7
  <2>2. ~Cleanup
    <3> SUFFICES ASSUME Cleanup PROVE FALSE
      OBVIOUS
    <3>1. UNCHANGED pc /\ (Busy(c) => c \in orphans')  BY DEF Cleanup, ConnectionsUnchanged
    <3> QED  BY <1>7, <3>1 DEF Busy, Routed
  <2> QED  BY <1>5, <2>1, <2>2
<1> QED  BY <1>2, <1>3, <1>4, <1>6, <1>7, RoutesKept

\* The listeners.
LEMMA ListenerRoutes ==
  ASSUME ConnectionsInv, RoutesInv, NEW l \in Listener, Listening(l)
  PROVE  RoutesInv'
<1>0. Typed  BY DEF ConnectionsInv
<1>1. UNCHANGED script
  BY DEF Listening, ListenerLost, CreateSocket, Bind, Loop, Accept, ListensAt
<1>2. server'.routes = server.routes
  BY <1>0 DEF Listening, ListenerLost, CreateSocket, Bind, Loop, Accept, Typed, On, ServerField
<1>3. \A c \in Client : pc'[c] \in Routed /\ c \notin orphans' =>
        /\ pc[c] \in Routed /\ c \notin orphans /\ req'[c] = req[c]
        /\ local'[c].route = local[c].route /\ local'[c].params = local[c].params
  <2>1. CASE Accept(l)
    <3>1. PICK d \in Client, request \in traffic :
            /\ pc' = [pc EXCEPT ![d] = "read"] /\ req' = [req EXCEPT ![d] = request]
            /\ local' = [local EXCEPT ![d].bypass = IF l \in orphans THEN {} ELSE ToSet(server.bypass)]
            /\ orphans \subseteq orphans'
      BY <2>1 DEF Accept, Goto
    <3>2. \A c \in Client \ {d} : pc'[c] = pc[c] /\ req'[c] = req[c] /\ local'[c] = local[c]
      BY <1>0, <3>1 DEF Typed, On
    <3>3. pc'[d] = "read"  BY <1>0, <3>1 DEF Typed
    <3> QED  BY <3>1, <3>2, <3>3 DEF Routed
  <2>2. CASE ~Accept(l)
    <3>1. UNCHANGED <<pc, req, local, orphans>>
      BY <2>2 DEF Listening, ListenerLost, CreateSocket, Bind, Loop
    <3> QED  BY <3>1
  <2> QED  BY <2>1, <2>2
<1> QED  BY <1>1, <1>2, <1>3, RoutesKept DEF RoutesInv

\* A connection goes to one of the three places by a route, or from its handler.
LEMMA WhoIsRouted ==
  ASSUME Typed, NEW c \in Client, Connection(c)
  PROVE  /\ UNCHANGED <<server, script, orphans>>
         /\ \A d \in Client \ {c} : pc'[d] = pc[d] /\ req'[d] = req[d] /\ local'[d] = local[d]
         /\ pc'[c] \in Routed => Route(c) \/ (pc[c] \in Routed /\ UNCHANGED <<req, local>>)
<1>1. UNCHANGED <<server, script, orphans>>
  BY ParsedStep DEF Connection, ReadFirst, ReadMore, TryMount, SetRoot, OpenFile, SendFile, RestoreRoot, TryIndex,
     Route, Legacy, HandlerReturns, Build, NoRoute, NotFoundAnswer, Lost, Moves, SaveRoot, Sends,
     ConfigurationUnchanged, listenVars
<1>2. \E place : /\ pc' = [pc EXCEPT ![c] = place]
                 /\ place \in Routed => Route(c) \/ (pc[c] \in Routed /\ UNCHANGED <<req, local>>)
  <2>1. CASE ReadFirst(c) \/ ReadMore(c)
    BY <2>1, ParsedStep DEF ReadFirst, ReadMore, Moves, Goto, Routed
  <2>2. CASE TryMount(c) \/ SetRoot(c) \/ SendFile(c) \/ TryIndex(c) \/ NoRoute(c) \/ Lost(c)
    <3>1. PICK place \in {"route", "set", "open", "restore", "notFound", "undefined"} : Moves(c, place)
      BY <2>2 DEF TryMount, SetRoot, SendFile, TryIndex, NoRoute, Lost, SaveRoot
    <3> QED  BY <3>1 DEF Moves, Goto, Routed
  <2>3. CASE OpenFile(c)
    <3>1. Moves(c, "send") \/ Moves(c, "restore")  BY <2>3 DEF OpenFile
    <3> QED  BY <3>1 DEF Moves, Goto, Routed
  <2>4. CASE RestoreRoot(c)
    <3>1. AfterFile(c) \in {"closed", "again", "notFound", "static"}  BY DEF AfterFile
    <3>2. Moves(c, AfterFile(c))  BY <2>4 DEF RestoreRoot
    <3> QED  BY <3>1, <3>2 DEF Moves, Goto, Routed
  <2>5. CASE Legacy(c) \/ Build(c) \/ NotFoundAnswer(c)
    BY <2>5 DEF Legacy, Build, NotFoundAnswer, Sends, Moves, Goto, Routed
  <2>6. CASE HandlerReturns(c)
    BY <2>6 DEF HandlerReturns, At, Moves, Goto, Routed
  <2>7. CASE Route(c)
    BY <2>7 DEF Route, Moves, Goto
  <2>8. CASE Endpoint(c)
    <3>1. \E place \in EndpointPlace \cup {"built"} : pc' = [pc EXCEPT ![c] = place]  BY <2>8, EndpointGoes
    <3> QED  BY <3>1 DEF EndpointPlace, Routed
  <2> QED  BY <2>1, <2>2, <2>3, <2>4, <2>5, <2>6, <2>7, <2>8 DEF Connection
<1>3. req' = req \/ \E request : req' = [req EXCEPT ![c] = request]
  <2>1. CASE ReadFirst(c)  BY <2>1, ParsedStep DEF ReadFirst
  <2>2. CASE ReadMore(c)  BY <2>2, ParsedStep DEF ReadMore
  <2>3. CASE TryMount(c) \/ SetRoot(c) \/ OpenFile(c) \/ SendFile(c) \/ TryIndex(c) \/ NoRoute(c) \/ Lost(c)
    BY <2>3 DEF TryMount, SetRoot, OpenFile, SendFile, TryIndex, NoRoute, Lost, SaveRoot, Stays
  <2>4. CASE RestoreRoot(c) \/ Legacy(c) \/ Build(c) \/ NotFoundAnswer(c)
    BY <2>4 DEF RestoreRoot, Legacy, Build, NotFoundAnswer, Sends, Ends
  <2>5. CASE Route(c)  BY <2>5, Zenon DEF Route
  <2>6. CASE HandlerReturns(c)  BY <2>6 DEF HandlerReturns
  <2>7. CASE Endpoint(c)  BY <2>7, EndpointGoes
  <2> QED  BY <2>1, <2>2, <2>3, <2>4, <2>5, <2>6, <2>7 DEF Connection
<1>4. local' = local \/ \E new : local' = [local EXCEPT ![c] = new]
  <2>1. CASE ReadFirst(c) \/ ReadMore(c)  BY <2>1 DEF ReadFirst, ReadMore, Sets
  <2>2. CASE TryMount(c) \/ SetRoot(c) \/ OpenFile(c) \/ SendFile(c) \/ TryIndex(c) \/ NoRoute(c) \/ Lost(c)
    BY <2>2 DEF TryMount, SetRoot, OpenFile, SendFile, TryIndex, NoRoute, Lost, SaveRoot, Sets
  <2>3. CASE RestoreRoot(c) \/ Legacy(c) \/ Build(c) \/ NotFoundAnswer(c)
    BY <2>3 DEF RestoreRoot, Legacy, Build, NotFoundAnswer, Sends, Ends, Sets
  <2>4. CASE Route(c)  BY <2>4 DEF Route, Sets
  <2>5. CASE HandlerReturns(c) \/ UNCHANGED local
    BY <2>5 DEF HandlerReturns
  <2> QED  BY <2>1, <2>2, <2>3, <2>4, <2>5 DEF Connection
<1>5. \A d \in Client \ {c} : pc'[d] = pc[d] /\ req'[d] = req[d] /\ local'[d] = local[d]
  BY <1>2, <1>3, <1>4 DEF Typed, On
<1>6. pc'[c] \in Routed => Route(c) \/ (pc[c] \in Routed /\ UNCHANGED <<req, local>>)
  BY <1>2 DEF Typed
<1> QED  BY <1>1, <1>5, <1>6

LEMMA RoutesNext ==
  ASSUME ConnectionsInv, RangeInv, RoutesInv, [Next]_vars
  PROVE  RoutesInv'
<1>0. Typed  BY DEF ConnectionsInv
<1>1. CASE UNCHANGED vars
  <2>1. UNCHANGED <<script, server, pc, req, local, orphans>>  BY <1>1 DEF vars, serverVars, listenVars
  <2> QED  BY <2>1, RoutesKept DEF RoutesInv
<1>2. ASSUME NEW c \in Client, Connection(c)
      PROVE  RoutesInv'
  <2>1. /\ UNCHANGED <<server, script, orphans>>
        /\ \A d \in Client \ {c} : pc'[d] = pc[d] /\ req'[d] = req[d] /\ local'[d] = local[d]
        /\ pc'[c] \in Routed => Route(c) \/ (pc[c] \in Routed /\ UNCHANGED <<req, local>>)
    BY <1>0, <1>2, WhoIsRouted
  <2>2. CASE Route(c) /\ pc'[c] \in Routed
    <3>1. IsSeq(req[c].path) /\ ArePatterns(server.routes)  BY DEF RangeInv, IsRequest, RoutesInv
    <3>2. RoutedRight(server.routes, req[c], local'[c].route, local'[c].params)
      BY <1>0, <2>2, <3>1, RouteFinds
    <3>3. req' = req  BY <2>2, Zenon DEF Route
    <3>4. \A d \in Client : pc'[d] \in Routed /\ d \notin orphans =>
            RoutedRight(server.routes, req'[d], local'[d].route, local'[d].params)
      BY <2>1, <3>2, <3>3 DEF RoutesInv, RoutedAreRight
    <3> QED  BY <2>1, <3>4 DEF RoutesInv, RoutedAreRight
  <2>3. CASE ~(Route(c) /\ pc'[c] \in Routed)
    <3>1. \A d \in Client : pc'[d] \in Routed =>
            /\ pc[d] \in Routed /\ req'[d] = req[d]
            /\ local'[d].route = local[d].route /\ local'[d].params = local[d].params
      BY <2>1, <2>3
    <3> QED  BY <2>1, <3>1, RoutesKept DEF RoutesInv
  <2> QED  BY <2>2, <2>3
<1> QED  BY <1>1, <1>2, ScriptRoutes, ListenerRoutes DEF Next

\* A connection that a route answers is answered by the first whose pattern fits its path, which has
\* given its parameters what the path has for them (handle_client, match_route_path).
THEOREM RoutedByTheFirst == Spec => []RouteIsFirst
<1>1. Spec => []RoutesInv
  BY RoutesInit, RoutesNext, RangeHolds, Inductive, PTL DEF Spec
<1>2. RoutesInv => RouteIsFirst  BY RouteIsFirstMeans DEF RoutesInv
<1> QED  BY <1>1, <1>2, PTL
=============================================================================
