------------------------------ MODULE AppServer ------------------------------
(***************************************************************************)
(* src/src/async_http_server.c and route_decorator.c: from a connection to *)
(* the handler that answers it.  An I/O thread reads the request off a     *)
(* socket that delivers it in pieces, tries the static mounts, finds a     *)
(* route, and uses the route after the registry's lock is released, while  *)
(* the script's thread goes on mounting, registering, importing files with *)
(* @route decorators, and defining handlers.  What happens from the call   *)
(* of the handler to its result is AsyncHttpServer's.                      *)
(*                                                                         *)
(* Paths are sequences of pieces, as in ThreadedServer.  What a client     *)
(* sends is a sequence of marks: the start of the request line, its end,   *)
(* the Content-Length or Transfer-Encoding field, the end of the head, and *)
(* the body.  A behaviour ends when a thread uses a route that has moved.  *)
(***************************************************************************)
EXTENDS Integers, Sequences, FiniteSets, SequencesExt, FiniteSetsExt

CONSTANTS
  Client,
  Scenarios,       \* what a script calls, in order, and what the clients may send
  Files,           \* what the file system has under each path that exists
  IoThreads,       \* 4: the threads of io_pool
  Buffer,          \* BUFFER_SIZE, 8192: what one read takes at most, and one more
  MaxBody,         \* max_body_size, 10 MB
  FirstCapacity,   \* 16
  MaxMounts        \* MAX_STATIC_MOUNTS, 10

ASSUME LimitsAssumption ==
    /\ {IoThreads, Buffer, MaxBody, FirstCapacity, MaxMounts} \subseteq Nat
    /\ IoThreads > 0 /\ Buffer > 1 /\ FirstCapacity > 0

IsText(s) == s \in Seq(Range(s))

\* What a client sends: a path, a body of marks after the four of the head, the number that
\* its Content-Length field reads as, and the places where the network may cut it.
IsRequest(r) ==
    /\ IsText(r.path) /\ r.path # <<>>
    /\ IsText(r.body) /\ r.length \in Int /\ r.chunked \in BOOLEAN
    /\ r.cuts \subseteq 1 .. Len(r.body) + 4

ASSUME TrafficAssumption == \A s \in Scenarios : \A t \in s.traffic : \A c \in Client : IsRequest(t[c])

\* The path of an @route: one text is a path, two are a method and a path, and they win over
\* names.
PathOf(d) == IF d.texts = <<>> THEN d.path ELSE d.texts[IF Len(d.texts) >= 2 THEN 2 ELSE 1]

\* What a script calls, and the entities of the files it loads.
Given == UNION {Range(s.calls) : s \in Scenarios}
Loaded == UNION {Range(call.entities) : call \in {x \in Given : x.call = "interpret"}}

ASSUME ScriptAssumption ==
    /\ \A s \in Scenarios : IsText(s.calls)
    /\ \A call \in Given :
         /\ call.call = "mount" => IsText(call.prefix) /\ IsText(call.directory)
         /\ call.call = "register" => IsText(call.route.path)
         /\ call.call = "interpret" => IsText(call.entities)
    /\ \A entity \in Loaded : /\ IsText(entity.decorators)
                              /\ \A d \in Range(entity.decorators) : IsText(PathOf(d))

\* Every file is in a folder.
ASSUME FilesAssumption ==
    \A path \in DOMAIN Files :
      /\ Files[path] \in {"text", "zero", "large", "folder"}
      /\ Len(path) > 1 => SubSeq(path, 1, Len(path) - 1) \in DOMAIN Files

VARIABLES
  wants,           \* what each client sends
  sent, gone,      \* how much of it is on its way, and whether the client has hung up
  script,          \* the calls to come
  creating,        \* the script's thread has found no registry and is making one
  held,            \* the registry it made, for the call that asked for it
  running, vm,     \* g_server is running; server->vm is set
  mounts,          \* server->static_mounts
  globals,         \* the functions among the VM's globals
  metadata,        \* g_decorator_metadata
  registries,      \* every registry made
  current,         \* g_route_registry, 0 for none
  told,            \* what the last question of the script answered
  pc, local,       \* each connection's I/O thread
  answer,          \* history: what each client was sent
  seen             \* history: what a connection was accepted with

scriptVars == <<script, creating, held, running, vm, mounts, globals, metadata, told>>
registryVars == <<registries, current>>
clientVars == <<wants, sent, gone>>
vars == <<clientVars, scriptVars, registryVars, pc, local, answer, seen>>

Slash == "/"
Zero == "0 byte"
LastChunk == "0\r\n\r\n"
Head4 == <<"start", "line", "length", "end">>
None == -1
NoAnswer == [kind |-> "none"]
NewRegistry == [routes |-> <<>>, capacity |-> 0, moves |-> 0]
NoLocal == [taken |-> 0, first |-> 0, body |-> <<>>, room |-> 0, registry |-> 0, route |-> 0,
            moves |-> 0, params |-> <<>>]

Init ==
    /\ \E s \in Scenarios : script = s.calls /\ wants \in s.traffic
    /\ sent = [c \in Client |-> 0]
    /\ gone = [c \in Client |-> FALSE]
    /\ creating = FALSE /\ held = 0 /\ running = FALSE /\ vm = FALSE
    /\ mounts = <<>> /\ globals = {} /\ metadata = <<>> /\ told = NoAnswer
    /\ registries = <<>> /\ current = 0
    /\ pc = [c \in Client |-> "connecting"]
    /\ local = [c \in Client |-> NoLocal]
    /\ answer = [c \in Client |-> NoAnswer]
    /\ seen = [c \in Client |-> [mounts |-> 0, routes |-> 0, ready |-> {}]]

Defined == \A c \in Client : pc[c] # "undefined"

-----------------------------------------------------------------------------
(* Routes *)

\* The elements of a sequence at some positions, in their order.
Nth(positions, k) == CHOOSE i \in positions : Cardinality({j \in positions : j <= i}) = k
Picked(s, positions) == [k \in 1 .. Cardinality(positions) |-> s[Nth(positions, k)]]

\* split_path: the runs between slashes, none unless the path begins with one.
Ends(path) == {i \in 1 .. Len(path) : path[i] # Slash /\ (i = Len(path) \/ path[i + 1] = Slash)}
RunTo(path, end) == SubSeq(path, Max({i \in 1 .. end : path[i] = Slash}) + 1, end)
SplitPath(path) ==
    IF path = <<>> \/ path[1] # Slash THEN <<>>
    ELSE Picked([i \in 1 .. Len(path) |-> RunTo(path, i)], Ends(path))

IsParam(segment) == Head(segment) = ":"
SegmentMatches(pattern, segment) == IsParam(pattern) \/ pattern = segment

\* Mutant: a path longer than the pattern fits it too.
FitsStart(route, method, path) ==
    LET pattern == SplitPath(route.path)
        segments == SplitPath(path)
    IN  /\ route.method \in {method, "*"}
        /\ Len(pattern) <= Len(segments)
        /\ \A i \in DOMAIN pattern : SegmentMatches(pattern[i], segments[i])

Fits(route, method, path) ==
    LET pattern == SplitPath(route.path)
        segments == SplitPath(path)
    IN  /\ route.method \in {method, "*"}
        /\ Len(pattern) = Len(segments)
        /\ \A i \in DOMAIN pattern : SegmentMatches(pattern[i], segments[i])

\* route_find: 0 for none
RouteFind(routes, method, path) ==
    SelectInSeq(routes, LAMBDA route : Fits(route, method, path))

\* route_extract_params: names and values, in the order of the pattern
ExtractParams(pattern, path) ==
    LET names == SplitPath(pattern)
        segments == SplitPath(path)
    IN  IF Len(names) # Len(segments) THEN <<>>
        ELSE Picked([i \in DOMAIN names |-> <<Tail(names[i]), segments[i]>>],
                    {i \in DOMAIN names : IsParam(names[i])})

\* route_register.  realloc may move the routes under those who point to one.
RouteRegister(r, route) ==
    LET registry == registries[r]
        full == Len(registry.routes) >= registry.capacity
    IN  \E moved \in {FALSE, full /\ registry.capacity > 0} :
          registries' = [registries EXCEPT
            ![r].routes = Append(@, route),
            ![r].capacity = IF ~full THEN @ ELSE IF @ = 0 THEN FirstCapacity ELSE 2 * @,
            ![r].moves = IF moved THEN @ + 1 ELSE @]

\* The second half of get_global_registry, for whoever found none.
CreateRegistry ==
    /\ registries' = Append(registries, NewRegistry)
    /\ current' = Len(registries) + 1

Route(method, path, handler, bridge) ==
    [method |-> method, path |-> path, handler |-> handler, bridge |-> bridge]

\* compiler_register_all_decorators: the registration an @route stands for.
RoutesOf(entity) ==
    LET read(d) ==
          LET method == IF Len(d.texts) >= 2 THEN d.texts[1] ELSE d.method
          IN  [call |-> "register", route |-> Route(method, PathOf(d), entity.name, d.bridge)]
        routes == {i \in DOMAIN entity.decorators : /\ entity.decorators[i].name = "route"
                                                    /\ \/ entity.decorators[i].texts # <<>>
                                                       \/ entity.decorators[i].path # <<>>}
    IN  Picked([i \in DOMAIN entity.decorators |-> read(entity.decorators[i])], routes)
RegisterAll(entities) == FlattenSeq([i \in DOMAIN entities |-> RoutesOf(entities[i])])

-----------------------------------------------------------------------------
(* The script's thread *)

Calls(name) == Defined /\ script # <<>> /\ Head(script).call = name /\ ~creating
Next1 == script' = Tail(script)
Call1 == Head(script)
ServerOnly == UNCHANGED <<clientVars, pc, local, answer, seen>>
ScriptOnly == ServerOnly /\ UNCHANGED registryVars

\* compiler_collect_decorator_metadata, for each decorated entity of a file: a deep
\* copy behind what earlier files left
Collected(entities) == metadata \o entities

\* vm_interpret of a file, first or imported: the metadata of all files so far
\* is registered again, before the file runs.
Interpret ==
    /\ Calls("interpret")
    /\ metadata' = Collected(Call1.entities)
    /\ script' = RegisterAll(metadata') \o Tail(script)
    /\ UNCHANGED <<creating, held, running, vm, mounts, globals, told>> /\ ScriptOnly

Define ==
    /\ Calls("define")
    /\ globals' = globals \cup {Call1.name}
    /\ Next1 /\ UNCHANGED <<creating, held, running, vm, mounts, metadata, told>> /\ ScriptOnly

\* async_http_server_create and _start: without a socket, a port or a thread there is
\* no server
Starts == {TRUE, FALSE}

\* builtin_http_start_server, then async_http_server_set_vm by call_value.
StartServer ==
    /\ Calls("start")
    /\ \E ok \in IF running THEN {FALSE} ELSE Starts :
         /\ running' = (running \/ ok)
         /\ told' = [kind |-> "start", ok |-> ok]
         /\ script' = (IF running' THEN <<[call |-> "setVm"]>> ELSE <<>>) \o Tail(script)
    /\ UNCHANGED <<creating, held, vm, mounts, globals, metadata>> /\ ScriptOnly

SetVm ==
    /\ Calls("setVm")
    /\ vm' = TRUE
    /\ Next1 /\ UNCHANGED <<creating, held, running, mounts, globals, metadata, told>> /\ ScriptOnly

\* builtin_http_static_add; the count, which publishes the mount, is set last.
StaticAdd ==
    /\ Calls("mount")
    /\ LET ok == running /\ Len(mounts) < MaxMounts
       IN  /\ mounts' = IF ok THEN Append(mounts, [prefix |-> Call1.prefix, directory |-> Call1.directory])
                        ELSE mounts
           /\ told' = [kind |-> "mount", ok |-> ok]
    /\ Next1 /\ UNCHANGED <<creating, held, running, vm, globals, metadata>> /\ ScriptOnly

\* get_global_registry by the script: any of the calls that use the registry.
UsesRegistry == {"register", "find", "list", "bridge"}
FindNoRegistry ==
    /\ Defined /\ script # <<>> /\ Call1.call \in UsesRegistry
    /\ ~creating /\ current = 0
    /\ creating' = TRUE
    /\ UNCHANGED <<script, held, running, vm, mounts, globals, metadata, told>> /\ ScriptOnly

MakeRegistry ==
    /\ Defined /\ creating
    /\ CreateRegistry
    /\ creating' = FALSE /\ held' = current'
    /\ UNCHANGED <<script, running, vm, mounts, globals, metadata, told>> /\ ServerOnly

Asks(name) == Calls(name) /\ current # 0
Mine == IF held # 0 THEN held ELSE current
Routes == registries[Mine].routes

Register ==
    /\ Asks("register")
    /\ RouteRegister(Mine, Call1.route)
    /\ held' = 0
    /\ Next1 /\ UNCHANGED <<current, creating, running, vm, mounts, globals, metadata, told>> /\ ServerOnly

Tells(what) ==
    /\ told' = what
    /\ held' = 0
    /\ Next1 /\ UNCHANGED <<creating, running, vm, mounts, globals, metadata>> /\ ScriptOnly

AskFind ==
    /\ Asks("find")
    /\ LET i == RouteFind(Routes, Call1.method, Call1.path)
       IN  Tells(IF i = 0 THEN [kind |-> "nil"] ELSE [kind |-> "route", route |-> Routes[i]])

AskList ==
    /\ Asks("list")
    /\ Tells([kind |-> "list", routes |-> Routes])

AskParams ==
    /\ Calls("params")
    /\ Tells([kind |-> "object", params |-> ExtractParams(Call1.pattern, Call1.path)])

\* builtin_route_bridge_invoke on the VM, and _ctx in an avatar, which does not
\* look at bridge_enabled.  Neither calls the handler: the VM's answers "", the
\* avatar's hands the handler back.
BridgeAnswer(route) ==
    CASE ~route.bridge -> [kind |-> "Route not accessible via bridge"]
      [] route.bridge /\ route.handler \notin globals -> [kind |-> "Handler not found"]
      [] OTHER -> [kind |-> "empty"]
BridgeAnswerCtx(route) ==
    IF route.handler \notin globals THEN [kind |-> "Handler not found"]
    ELSE [kind |-> "object", handler |-> route.handler]

BridgeInvoke ==
    /\ Asks("bridge")
    /\ LET i == RouteFind(Routes, Call1.method, Call1.path)
       IN  Tells(IF i = 0 THEN [kind |-> "Route not found"]
                 ELSE IF Call1.avatar THEN BridgeAnswerCtx(Routes[i]) ELSE BridgeAnswer(Routes[i]))

ScriptStep ==
    \/ Interpret \/ Define \/ StartServer \/ SetVm \/ StaticAdd \/ FindNoRegistry
    \/ MakeRegistry \/ Register \/ AskFind \/ AskList \/ AskParams \/ BridgeInvoke

-----------------------------------------------------------------------------
(* Clients *)

Stream(c) == Head4 \o wants[c].body
Unread(c) == sent[c] - local[c].taken

\* What a client sends comes at once, or cut where the scenario says.
Send(c) ==
    /\ Defined /\ pc[c] \notin {"connecting", "closed"} /\ ~gone[c]
    /\ \E n \in wants[c].cuts \cup {Len(Stream(c))} : n > sent[c] /\ sent' = [sent EXCEPT ![c] = n]
    /\ UNCHANGED <<wants, gone, scriptVars, registryVars, pc, local, answer, seen>>

HangUp(c) ==
    /\ Defined /\ pc[c] \in {"reading", "body", "chunks"} /\ ~gone[c] /\ wants[c].mayHangUp
    /\ gone' = [gone EXCEPT ![c] = TRUE]
    /\ UNCHANGED <<wants, sent, scriptVars, registryVars, pc, local, answer, seen>>

-----------------------------------------------------------------------------
(* An I/O thread *)

At(c, place) == Defined /\ pc[c] = place
Goes(c, place) == pc' = [pc EXCEPT ![c] = place]
Keeps(c, l) == local' = [local EXCEPT ![c] = l]
\* send_http_response, and the connection is closed
Answers(c, a) == answer' = [answer EXCEPT ![c] = a] /\ Goes(c, "closed")
ThreadOnly == UNCHANGED <<clientVars, scriptVars, seen>>
Busy == {c \in Client : pc[c] \notin {"connecting", "closed"}}

\* server_thread hands the connection to the pool, which has a thread for it.
Accept(c) ==
    /\ At(c, "connecting") /\ running /\ Cardinality(Busy) < IoThreads
    /\ Goes(c, "reading")
    /\ seen' = [seen EXCEPT ![c] = [mounts |-> Len(mounts),
                                    routes |-> IF current = 0 THEN 0 ELSE Len(registries[current].routes),
                                    ready |-> IF vm THEN globals ELSE {}]]
    /\ UNCHANGED <<clientVars, scriptVars, registryVars, local, answer>>

\* What strlen and strdup take for the whole.
ToZero(text) == IF Contains(text, Zero) THEN SubSeq(text, 1, SelectInSeq(text, LAMBDA b : b = Zero) - 1) ELSE text
Prefix(text, n) == SubSeq(text, 1, Min({n, Len(text)}))
Chunk(c, n) == SubSeq(Stream(c), local[c].taken + 1, local[c].taken + n)

\* What came with the head, as far as parse_http_request sees it.
\* Mutant: the body is read from the socket from its start.
InitialNone(c, n) == <<>>

Initial(c, n) == IF n >= Len(Head4) THEN ToZero(SubSeq(Stream(c), Len(Head4) + 1, n)) ELSE <<>>

\* The first read: without a whole request line there is no answer.
ReadNothing(c) ==
    /\ At(c, "reading")
    /\ \/ Unread(c) = 0 /\ gone[c] /\ UNCHANGED local
       \/ Unread(c) = 1 /\ Keeps(c, [local[c] EXCEPT !.taken = 1])
    /\ Goes(c, "closed")
    /\ ThreadOnly /\ UNCHANGED <<registryVars, answer>>

\* parse_http_request and the start of read_request_body.  A field that has not
\* come is not there; after a head that was cut the body begins with its rest.
ReadHead(c) ==
    /\ At(c, "reading") /\ Unread(c) > 1
    /\ LET n == Min({Buffer - 1, Unread(c)})
           length == IF n >= 3 THEN wants[c].length ELSE None
           chunked == n >= 3 /\ wants[c].chunked
           initial == Initial(c, n)
           begin(body, place) ==
             /\ Keeps(c, [local[c] EXCEPT !.taken = n, !.first = n, !.body = body, !.room = Buffer])
             /\ Goes(c, place)
       IN  \/ length = 0 /\ begin(<<>>, "static")
           \/ length # 0 /\ chunked /\ begin(initial, "chunks")
           \/ length > MaxBody /\ ~chunked /\ begin(<<>>, "static")
           \/ length \in 1 .. MaxBody /\ ~chunked /\ begin(Prefix(initial, length), "body")
           \/ length < 0 /\ ~chunked /\ begin(initial, "static")
    /\ ThreadOnly /\ UNCHANGED <<registryVars, answer>>

\* Mutant: one byte more than the length is waited for.
WholeOneMore(c) == Len(local[c].body) > wants[c].length

Whole(c) == Len(local[c].body) >= wants[c].length

ReadBody(c) ==
    /\ At(c, "body") /\ ~Whole(c) /\ Unread(c) > 0
    /\ LET n == Min({wants[c].length - Len(local[c].body), Unread(c)})
       IN  Keeps(c, [local[c] EXCEPT !.taken = @ + n, !.body = @ \o Chunk(c, n)])
    /\ ThreadOnly /\ UNCHANGED <<registryVars, pc, answer>>

BodyEnds(c) ==
    /\ At(c, "body")
    /\ Whole(c) \/ (Unread(c) = 0 /\ gone[c])
    /\ Goes(c, "static")
    /\ ThreadOnly /\ UNCHANGED <<registryVars, local, answer>>

\* Chunks are kept as they come; only what a read has just brought is looked
\* at for the last one.
ReadChunk(c) ==
    /\ At(c, "chunks") /\ Unread(c) > 0
    /\ LET n == Min({Buffer - 1, Unread(c)})
           body == local[c].body \o Chunk(c, n)
           room == IF Len(body) >= local[c].room THEN 2 * local[c].room ELSE local[c].room
           over == room # local[c].room /\ room > MaxBody
       IN  /\ Keeps(c, [local[c] EXCEPT !.taken = @ + n, !.room = room, !.body = IF over THEN <<>> ELSE body])
           /\ Goes(c, IF over \/ Last(body) = LastChunk THEN "static" ELSE "chunks")
    /\ ThreadOnly /\ UNCHANGED <<registryVars, answer>>

ChunksEnd(c) ==
    /\ At(c, "chunks") /\ Unread(c) = 0 /\ gone[c]
    /\ Goes(c, "static")
    /\ ThreadOnly /\ UNCHANGED <<registryVars, local, answer>>

\* try_serve_static: what is tried, mount after mount.
SkipSlashes(path) ==
    LET names == {i \in DOMAIN path : path[i] # Slash}
    IN  IF names = {} THEN <<>> ELSE SubSeq(path, Min(names), Len(path))
Index == <<"index.html">>
TriedIn(m, path) ==
    LET relative == SkipSlashes(SubSeq(path, Len(m.prefix) + 1, Len(path)))
        under(name) == [directory |-> m.directory, name |-> name]
    IN  CASE ~IsPrefix(m.prefix, path) -> <<>>
          [] IsPrefix(m.prefix, path) /\ relative = <<>> -> <<under(Index)>>
          [] OTHER -> <<under(relative)>>
                      \o (IF Last(path) = Slash THEN <<>> ELSE <<under(relative \o <<Slash>> \o Index)>>)

\* fopen: a directory opens too.
KindOf(try) ==
    LET path == try.directory \o SplitPath(<<Slash>> \o try.name)
    IN  IF path \notin DOMAIN Files \/ (Last(try.name) = Slash /\ Files[path] # "folder") THEN "none" ELSE Files[path]
FoundIn(m, path) == SelectInSeq(TriedIn(m, path), LAMBDA try : KindOf(try) # "none")

\* The first mount in which something opens serves it.
Opening(path) == {m \in DOMAIN mounts : path[1] = Slash /\ FoundIn(mounts[m], path) > 0}
FirstFound(path) ==
    LET m == mounts[Min(Opening(path))]
    IN  TriedIn(m, path)[FoundIn(m, path)]

\* serve_static_file.  The size of a directory is what its file system says: 0,
\* or more than 10 MB.  strlen ends the body of a file at a zero byte.
Served(kind) ==
    CASE kind = "text" -> {[status |-> 200, body |-> "whole"]}
      [] kind = "zero" -> {[status |-> 200, body |-> "cut"]}
      [] kind = "large" -> {[status |-> 413, body |-> "none"]}
      [] kind = "folder" -> {[status |-> 413, body |-> "none"], [status |-> 200, body |-> "empty"]}

AnswerStatic(c) ==
    /\ At(c, "static") /\ wants[c].method = "GET" /\ Opening(wants[c].path) # {}
    /\ LET try == FirstFound(wants[c].path)
       IN  \E s \in Served(KindOf(try)) :
             Answers(c, [kind |-> "file", try |-> try, status |-> s.status, body |-> s.body])
    /\ ThreadOnly /\ UNCHANGED <<registryVars, local>>

NotStatic(c) ==
    /\ At(c, "static") /\ (wants[c].method # "GET" \/ Opening(wants[c].path) = {})
    /\ IF current = 0 THEN Goes(c, "creating") /\ UNCHANGED local
       ELSE Goes(c, "finding") /\ Keeps(c, [local[c] EXCEPT !.registry = current])
    /\ ThreadOnly /\ UNCHANGED <<registryVars, answer>>

Create(c) ==
    /\ At(c, "creating")
    /\ CreateRegistry
    /\ Keeps(c, [local[c] EXCEPT !.registry = current'])
    /\ Goes(c, "finding")
    /\ ThreadOnly /\ UNCHANGED answer

Mapped(c) == registries[local[c].registry]
Chosen(c) == Mapped(c).routes[local[c].route]

\* route_find locks the registry; its answer is a pointer into it.
Find(c) ==
    /\ At(c, "finding")
    /\ LET i == RouteFind(Mapped(c).routes, wants[c].method, wants[c].path)
       IN  \/ /\ i = 0
              /\ Answers(c, [kind |-> "404"]) /\ UNCHANGED local
           \/ /\ i > 0
              /\ Keeps(c, [local[c] EXCEPT !.route = i, !.moves = Mapped(c).moves])
              /\ Goes(c, "extracting") /\ UNCHANGED answer
    /\ ThreadOnly /\ UNCHANGED registryVars

Moved(c) == Mapped(c).moves # local[c].moves
UseMoved(c) ==
    /\ pc[c] \in {"extracting", "calling"} /\ Defined /\ Moved(c)
    /\ Goes(c, "undefined")
    /\ ThreadOnly /\ UNCHANGED <<registryVars, local, answer>>

Extract(c) ==
    /\ At(c, "extracting") /\ ~Moved(c)
    /\ Keeps(c, [local[c] EXCEPT !.params = ExtractParams(Chosen(c).path, wants[c].path)])
    /\ Goes(c, "calling")
    /\ ThreadOnly /\ UNCHANGED <<registryVars, answer>>

\* Pairs without "=" are left out of the query.
Query(pairs) == SelectSeq(pairs, LAMBDA pair : Len(pair) = 2)

\* Under vm_lock: the handler is looked up by its name.  Header fields are only
\* taken from a head that came whole.
Call(c) ==
    /\ At(c, "calling") /\ ~Moved(c)
    /\ IF vm /\ Chosen(c).handler \in globals
       THEN /\ answer' = [answer EXCEPT ![c] =
                 [kind |-> "handler", handler |-> Chosen(c).handler, params |-> local[c].params,
                  query |-> Query(wants[c].query), fields |-> local[c].first >= Len(Head4),
                  body |-> ToZero(local[c].body)]]
            /\ Goes(c, "running")
       ELSE Answers(c, [kind |-> "500"])
    /\ ThreadOnly /\ UNCHANGED <<registryVars, local>>

\* What becomes of the call is AsyncHttpServer's: the handler's answer, an error
\* or a timeout.
HandlerReturns(c) ==
    /\ At(c, "running")
    /\ Answers(c, answer[c])
    /\ ThreadOnly /\ UNCHANGED <<registryVars, local>>

ThreadStep(c) ==
    \/ Accept(c) \/ ReadNothing(c) \/ ReadHead(c) \/ ReadBody(c) \/ BodyEnds(c) \/ ReadChunk(c)
    \/ ChunksEnd(c) \/ AnswerStatic(c) \/ NotStatic(c) \/ Create(c) \/ Find(c) \/ UseMoved(c)
    \/ Extract(c) \/ Call(c) \/ HandlerReturns(c)

Next == ScriptStep \/ \E c \in Client : Send(c) \/ HangUp(c) \/ ThreadStep(c)

Spec == Init /\ [][Next]_vars

-----------------------------------------------------------------------------
(* Properties *)

Answered(c) == pc[c] = "closed" /\ answer[c].kind # "none"
Configured == IF current = 0 THEN <<>> ELSE registries[current].routes

\* The segments a pattern stands for with these values for its parameters.
Filled(pattern, params) ==
    LET segments == SplitPath(pattern)
        before(i) == Cardinality({j \in 1 .. i : IsParam(segments[j])})
    IN  [i \in DOMAIN segments |-> IF IsParam(segments[i]) /\ before(i) <= Len(params)
                                   THEN params[before(i)][2] ELSE segments[i]]
Wanted(route, c, params) ==
    /\ route.method \in {wants[c].method, "*"}
    /\ Filled(route.path, params) = SplitPath(wants[c].path)
\* Some choice of values makes the pattern the path.
MayServe(route, c) ==
    LET segments == SplitPath(wants[c].path)
        values == {<<"value", segments[i]>> : i \in DOMAIN segments}
    IN  \E params \in [DOMAIN SplitPath(route.path) -> values] : Wanted(route, c, params)

Holds(m, path) ==
    LET names == SplitPath(<<Slash>> \o SubSeq(path, Len(m.prefix) + 1, Len(path)))
        file == m.directory \o (IF names = <<>> THEN <<Index>> ELSE names)
    IN  /\ path[1] = Slash /\ IsPrefix(m.prefix, path) /\ file \in DOMAIN Files
        /\ names = <<>> \/ Last(path) # Slash \/ Files[file] = "folder"

(* While the script goes on mounting, registering and importing: the       *)
(* handler that answers is the first registered whose pattern becomes the  *)
(* path with the very parameters it was given; nobody is told 404 or 500   *)
(* though route and handler were there when he connected; and a GET is     *)
(* answered with a file exactly when a mount holds it, the first that      *)
(* does.  Not claimed when two threads have each made a registry.          *)
AnsweredByTheFirst ==
    Len(registries) <= 1 =>
      \A c \in Client : Answered(c) =>
        LET may == {i \in DOMAIN Configured : MayServe(Configured[i], c)}
            holding == {m \in DOMAIN mounts : wants[c].method = "GET" /\ Holds(mounts[m], wants[c].path)}
            a == answer[c]
        IN  /\ a.kind = "handler" => /\ may # {}
                                     /\ a.handler = Configured[Min(may)].handler
                                     /\ Wanted(Configured[Min(may)], c, a.params)
            /\ a.kind = "500" => may # {} /\ Configured[Min(may)].handler \notin seen[c].ready
            /\ a.kind = "404" => \A i \in may : i > seen[c].routes
            /\ a.kind # "file" => \A m \in holding : m > seen[c].mounts
            /\ a.kind = "file" => holding # {} /\ a.try.directory = mounts[Min(holding)].directory

(* However the network cuts a body whose length was announced, the handler *)
(* gets all of it and nothing else: what came with the head, then the      *)
(* rest.  Not claimed of bodies with a zero byte or over the limit, or of  *)
(* heads that came in pieces.                                              *)
BodyArrives ==
    \A c \in Client :
      LET body == wants[c].body
      IN  /\ answer[c].kind = "handler" /\ answer[c].fields
          /\ ~wants[c].chunked /\ wants[c].length = Len(body) /\ Len(body) <= MaxBody
          /\ ~Contains(body, Zero) /\ sent[c] = Len(Stream(c))
          => answer[c].body = body

(* An I/O thread never waits for bytes of a request that it has already    *)
(* taken: once all that was announced is sent there is more to read or the *)
(* reading is over, however the pieces fell.  Not claimed of chunked       *)
(* bodies that came whole with the head, or of bodies with a zero byte.    *)
NoReadInVain ==
    \A c \in Client :
      /\ sent[c] = Len(Stream(c)) /\ ~Contains(wants[c].body, Zero)
      /\ wants[c].chunked => local[c].first < Len(Stream(c)) /\ LastChunk = Last(Stream(c))
      /\ ~wants[c].chunked => wants[c].length <= Len(wants[c].body) \/ wants[c].length > MaxBody
      => /\ pc[c] \in {"reading", "chunks"} => Unread(c) > 0
         /\ pc[c] = "body" => Unread(c) > 0 \/ Whole(c)
=============================================================================
