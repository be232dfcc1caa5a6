---------------------------- MODULE ThreadedServer ----------------------------
(***************************************************************************)
(* src/shared_libs/http/http_server.c and the script's side of it in       *)
(* libkylhttp.c: a listening thread starts one detached thread for each    *)
(* connection, which answers from a static mount, a route or a fallback.   *)
(* Nothing is locked: static_root is borrowed by each thread that serves a *)
(* file, and the script may go on configuring, or free the server, while   *)
(* connections are answered.  A change of an array is several steps of the *)
(* script, and a walk over it one step of a thread: a walk that overlaps   *)
(* the change ends as it would before or after it, or falls into it and is *)
(* lost.                                                                   *)
(*                                                                         *)
(* Texts are sequences of pieces, none the start of another, so that       *)
(* prefixes and patterns work as they do on characters.  A behaviour ends  *)
(* when a thread uses memory that is freed or not written yet, or writes   *)
(* past the end of an array ("undefined").  The end of a Kuyil handler's   *)
(* call is HttpBridge's.                                                   *)
(***************************************************************************)
EXTENDS Workspace

CONSTANTS
  Scenarios,        \* what a script calls, in order, and what clients send
  InitialFiles,
  MountCapacity,    \* 16: the mounts allocated at first
  MaxMounts,        \* 128
  MaxBypass,        \* 256
  MaxListeners      \* bound: threads that listen

ASSUME CapacityAssumption == MountCapacity \in 1 .. MaxMounts
ASSUME FilesAssumption ==
    /\ IsFiniteSet(DOMAIN InitialFiles) /\ InitialFiles = [p \in DOMAIN InitialFiles |-> InitialFiles[p]]
    /\ \A p \in DOMAIN InitialFiles : InitialFiles[p] \in Nat \cup {Dir}

\* A sequence of anything.
IsSeq(s) == s \in Seq({s[i] : i \in DOMAIN s})
\* A Range header that can be read, or none; -1 is a number left out.
None == <<>>
Number == Nat \cup {-1}
IsRange(range) ==
    \/ range = None
    \/ range = <<range[1]>> /\ range[1] \in [first : Number, last : Number, several : BOOLEAN]
\* The texts of a JSON body are sequences of pieces.
HasTexts(members) == \A i \in 1 .. Len(members) : IsString(members[i].value) => IsSeq(members[i].value[2])
IsRequest(request) ==
    /\ {"range", "json", "path"} \subseteq DOMAIN request
    /\ IsRange(request.range) /\ HasTexts(request.json) /\ IsSeq(request.path)
\* The pattern of a route is a text.
HasPattern(call) == call.call \in {"route", "registerRoute"} => IsSeq(call.path)

ASSUME ScenarioAssumption ==
    \A s \in Scenarios : /\ IsSeq(s.calls) /\ \A i \in 1 .. Len(s.calls) : HasPattern(s.calls[i])
                         /\ \A request \in s.requests : IsRequest(request)

VARIABLES
  server,           \* g_http_server, without static_root
  staticRoot,       \* server->static_root, a pointer
  freed,            \* the blocks of roots that are freed
  script, traffic,  \* the calls to come, the requests that clients may send
  listener, socket, \* each listening thread and its socket
  acceptOn,         \* the socket it waits on in accept
  blockedOn,        \* the listener that runs on the script's thread, 0 if none
  orphans,          \* the threads whose server has been freed
  local,            \* each connection's local variables
  answer,           \* history: what each connection was sent
  overlapped        \* history: two borrowings of static_root met

serverVars == <<server, staticRoot, freed>>
listenVars == <<listener, socket, acceptOn, blockedOn, orphans>>
vars == <<pc, req, res, workspaceVars, serverVars, script, traffic, listenVars, local, answer, overlapped>>

Null == <<>>
Listener == 1 .. MaxListeners
CFallback == "___C_FALLBACK___"
Index == "index.html"
NoServer == [exists |-> FALSE, running |-> FALSE, fd |-> 0, routes |-> <<>>, mounts |-> <<>>,
             capacity |-> MountCapacity, moves |-> 0, bypass |-> <<>>, serveStatic |-> FALSE,
             owned |-> <<>>, doing |-> "nothing"]
NoLocal == [got |-> 0, first |-> 0, ended |-> FALSE, mount |-> 0, moves |-> 0, file |-> NoPath,
            saved |-> Null, spa |-> FALSE, full |-> NoPath, size |-> 0, served |-> FALSE,
            fallback |-> FALSE, params |-> <<>>, route |-> 0, bypass |-> {}]
NewBuilder == [status |-> 200, body |-> NoBody, json |-> FALSE]
NoRequest == [method |-> "", path |-> NoPath, range |-> None, spelling |-> "none", early |-> FALSE,
              boundary |-> "", body |-> <<>>, json |-> <<>>, parts |-> <<>>]

Init ==
    /\ pc = [c \in Client |-> "idle"]
    /\ req = [c \in Client |-> NoRequest]
    /\ res = [c \in Client |-> NewBuilder]
    /\ job = [c \in Client |-> Idle]
    /\ files = InitialFiles
    /\ workspaceRoot = NoPath
    /\ server = NoServer
    /\ staticRoot = Null
    /\ freed = {}
    /\ \E s \in Scenarios : script = s.calls /\ traffic = s.requests
    /\ listener = [l \in Listener |-> "none"]
    /\ socket = [l \in Listener |-> "none"]
    /\ acceptOn = [l \in Listener |-> 0]
    /\ blockedOn = 0
    /\ orphans = {}
    /\ local = [c \in Client |-> NoLocal]
    /\ answer = [c \in Client |-> <<>>]
    /\ overlapped = FALSE

----------------------------------------------------------------------------
(* The script's calls.                                                     *)

InCall(name) == script # <<>> /\ Head(script).call = name /\ blockedOn = 0
Calls(name) == InCall(name) /\ script' = Tail(script)
ConnectionsUnchanged == UNCHANGED <<pc, req, res, workspaceVars, local, answer>>
Configures(new) == server' = new /\ UNCHANGED listenVars /\ ConnectionsUnchanged

Created(s) == IF s.exists THEN s ELSE [NoServer EXCEPT !.exists = TRUE]

CreateServer == Calls("server") /\ Configures(Created(server)) /\ UNCHANGED <<staticRoot, freed>>

\* Before a call is over, server.doing says what it is in the middle of: an array that
\* has moved or has a member that is not written yet, or static_root.
Enters(doing) == server.exists /\ server.doing = "nothing" /\ Configures([server EXCEPT !.doing = doing])
Entered(doing) == server.exists => server.doing = doing

\* A route counts before its fields are written; first, a full array is moved.
PublishRoute ==
    /\ InCall("route") \/ InCall("registerRoute")
    /\ Enters("routes") /\ UNCHANGED <<script, staticRoot, freed>>

\* http_server_get, _post, _put, _delete and http_server_register_route: a route behind
\* the others, with the handler to call or with none
WithRoute(s, method, path, handler) ==
    [s EXCEPT !.routes = Append(@, [method |-> method, path |-> path, handler |-> handler]),
              !.doing = "nothing"]

\* kyl_http_get and its like: the callback of the script is dropped
AddLegacyRoute ==
    /\ Calls("route") /\ Entered("routes")
    /\ Configures(IF ~server.exists THEN server
                  ELSE WithRoute(server, Head(script).method, Head(script).path, None))
    /\ UNCHANGED <<staticRoot, freed>>

RegisterRoute ==
    /\ Calls("registerRoute") /\ Entered("routes")
    /\ Configures(IF ~server.exists THEN server
                  ELSE WithRoute(server, Head(script).method, Head(script).path, <<Head(script).handler>>))
    /\ UNCHANGED <<staticRoot, freed>>

\* http_server_add_static_mount: a full array is moved to one twice as large; a mount
\* counts when it is written.
Full(s) == Len(s.mounts) >= s.capacity
MoveMounts ==
    /\ InCall("staticAdd") \/ InCall("static")
    /\ server.exists /\ server.doing = "nothing" /\ Full(server) /\ Len(server.mounts) < MaxMounts
    /\ Configures([server EXCEPT !.doing = "mounts", !.moves = @ + 1,
                                 !.capacity = IF 2 * @ > MaxMounts THEN MaxMounts ELSE 2 * @])
    /\ UNCHANGED <<script, staticRoot, freed>>
HasRoom == Full(server) => Len(server.mounts) >= MaxMounts
WithMount(s, prefix, root, doing) ==
    [s EXCEPT !.mounts = IF Full(s) THEN @ ELSE Append(@, [prefix |-> prefix, root |-> root]),
              !.serveStatic = @ \/ ~Full(s),
              !.doing = doing]

AddStaticMount ==
    /\ Calls("staticAdd") /\ (server.exists => HasRoom)
    /\ Configures(IF server.exists THEN WithMount(server, Head(script).prefix, Head(script).root, "nothing")
                  ELSE server)
    /\ UNCHANGED <<staticRoot, freed>>

\* http_server_set_static_mount: publishes the mount, frees static_root, which until
\* it is replaced dangles.
PublishMount ==
    /\ InCall("static") /\ server.exists /\ server.doing \in {"nothing", "mounts"} /\ HasRoom
    /\ Configures(WithMount(server, Head(script).prefix, Head(script).root, "root"))
    /\ UNCHANGED <<script, staticRoot, freed>>

FreeRoot ==
    /\ InCall("static") /\ server.doing = "root" /\ staticRoot \notin freed
    /\ Configures([server EXCEPT !.doing = "dangling"])
    /\ freed' = IF staticRoot = Null THEN freed ELSE freed \cup {staticRoot}
    /\ UNCHANGED <<script, staticRoot>>

SetStaticMount ==
    /\ Calls("static") /\ Entered("dangling") /\ UNCHANGED freed
    /\ IF ~server.exists THEN Configures(server) /\ UNCHANGED staticRoot
       ELSE /\ Configures([server EXCEPT !.owned = Append(@, Head(script).root), !.serveStatic = TRUE,
                                         !.doing = "nothing"])
            /\ staticRoot' = <<"own", Len(server.owned) + 1>>

\* http_server_add_static_bypass_prefix: one more prefix is counted and written, in
\* either order; a full array is moved.  With MaxBypass prefixes it is not made larger.
CountBypass ==
    /\ InCall("bypass") /\ Len(server.bypass) < MaxBypass
    /\ Enters("bypass") /\ UNCHANGED <<script, staticRoot, freed>>

AddBypass ==
    /\ Calls("bypass") /\ Entered("bypass")
    /\ Configures(IF server.exists
                  THEN [server EXCEPT !.bypass = Append(@, Head(script).prefix), !.doing = "nothing"]
                  ELSE server)
    /\ UNCHANGED <<staticRoot, freed>>

\* http_server_clear_static_bypass_prefixes: prefixes and array are freed, then none count.
FreeBypass ==
    /\ InCall("bypassClear") /\ server.bypass # <<>>
    /\ Enters("bypass") /\ UNCHANGED <<script, staticRoot, freed>>

ClearBypass ==
    /\ Calls("bypassClear") /\ (server.bypass # <<>> => server.doing = "bypass")
    /\ server' = [server EXCEPT !.bypass = <<>>, !.doing = "nothing"]
    /\ local' = [c \in Client |-> [local[c] EXCEPT !.bypass = {}]]
    /\ UNCHANGED <<staticRoot, freed, listenVars, pc, req, res, workspaceVars, answer>>

Idlers == {l \in Listener : listener[l] = "none"}
NextListener == CHOOSE l \in Idlers : \A k \in Idlers : l <= k

\* http_start_server: a second listener starts while the first does not run yet
StartServer ==
    /\ Calls("start")
    /\ server.running \/ Idlers # {}
    /\ server' = Created(server)
    /\ listener' = IF server.running THEN listener ELSE [listener EXCEPT ![NextListener] = "create"]
    /\ UNCHANGED <<staticRoot, freed, socket, acceptOn, blockedOn, orphans>> /\ ConnectionsUnchanged

\* http_listen: the script's own thread listens
ListenServer ==
    /\ Calls("listen") /\ server.exists /\ Idlers # {}
    /\ listener' = [listener EXCEPT ![NextListener] = "create"]
    /\ blockedOn' = NextListener
    /\ UNCHANGED <<serverVars, socket, acceptOn, orphans>> /\ ConnectionsUnchanged

\* http_cleanup: stop closes the socket in socket_fd, free releases static_root and
\* the root of each mount.  The threads keep their pointers.
FreesTwice ==
    \/ staticRoot \in freed
    \/ staticRoot # Null /\ staticRoot[1] = "mount"
    \/ \E m \in 1 .. Len(server.mounts) : <<"mount", m>> \in freed
Running == {"create", "bind", "loop", "accept"}
Busy(c) == pc[c] \notin {"idle", "closed"}
Cleanup ==
    /\ Calls("cleanup") /\ server.exists /\ ~FreesTwice
    /\ server' = NoServer
    /\ staticRoot' = Null /\ freed' = {}
    /\ orphans' = {l \in Listener : listener[l] \in Running} \cup {c \in Client : Busy(c)}
    /\ socket' = [l \in Listener |-> IF l = server.fd THEN "closed" ELSE socket[l]]
    /\ UNCHANGED <<listener, acceptOn, blockedOn>> /\ ConnectionsUnchanged

\* A block is freed twice, or a prefix is written past the end of the array.
ScriptUndefined ==
    /\ server.exists
    /\ \/ InCall("cleanup") /\ FreesTwice
       \/ InCall("static") /\ server.doing = "root" /\ staticRoot \in freed
       \/ InCall("bypass") /\ server.doing = "nothing" /\ Len(server.bypass) >= MaxBypass
    /\ script' = <<>>
    /\ pc' = [c \in Client |-> "undefined"]
    /\ UNCHANGED <<serverVars, listenVars, req, res, workspaceVars, local, answer>>

\* http_listen and http_cleanup without a server
WithoutServer ==
    /\ Calls("listen") \/ Calls("cleanup")
    /\ ~server.exists
    /\ UNCHANGED <<serverVars, listenVars>> /\ ConnectionsUnchanged

Script ==
    \/ WithoutServer \/ CreateServer
    \/ PublishRoute \/ AddLegacyRoute \/ RegisterRoute
    \/ MoveMounts \/ AddStaticMount \/ PublishMount \/ FreeRoot \/ SetStaticMount
    \/ CountBypass \/ AddBypass \/ FreeBypass \/ ClearBypass
    \/ StartServer \/ ListenServer \/ Cleanup \/ ScriptUndefined

----------------------------------------------------------------------------
(* http_server_listen.                                                     *)

ListensAt(l, place) == listener[l] = place /\ UNCHANGED <<script, staticRoot, freed, workspaceVars, res, answer>>
Listens(l, place) == listener' = [listener EXCEPT ![l] = place]

ListenerLost(l) ==
    /\ ListensAt(l, "create") \/ ListensAt(l, "bind") \/ ListensAt(l, "loop")
    /\ l \in orphans
    /\ Listens(l, "undefined")
    /\ UNCHANGED <<server, socket, acceptOn, blockedOn, orphans, pc, req, local>>

CreateSocket(l) ==
    /\ ListensAt(l, "create") /\ l \notin orphans
    /\ Listens(l, "bind")
    /\ server' = [server EXCEPT !.fd = l]
    /\ socket' = [socket EXCEPT ![l] = "open"]
    /\ UNCHANGED <<acceptOn, blockedOn, orphans, pc, req, local>>

\* bind, of the socket in socket_fd, fails while some socket has the port.
Bind(l) ==
    /\ ListensAt(l, "bind") /\ l \notin orphans
    /\ IF \E k \in Listener : socket[k] = "listening"
       THEN /\ Listens(l, "over")
            /\ blockedOn' = IF blockedOn = l THEN 0 ELSE blockedOn
            /\ UNCHANGED <<server, socket>>
       ELSE /\ Listens(l, "loop")
            /\ socket' = [socket EXCEPT ![server.fd] = "listening"]
            /\ server' = [server EXCEPT !.running = TRUE]
            /\ UNCHANGED blockedOn
    /\ UNCHANGED <<acceptOn, orphans, pc, req, local>>

\* accept, on the socket in socket_fd, fails at once when that one does not listen,
\* and is called again.
Loop(l) ==
    /\ ListensAt(l, "loop") /\ l \notin orphans /\ socket[server.fd] = "listening"
    /\ Listens(l, "accept")
    /\ acceptOn' = [acceptOn EXCEPT ![l] = server.fd]
    /\ UNCHANGED <<server, socket, blockedOn, orphans, pc, req, local>>

\* A thread that waits in accept is not woken by close.
Accept(l) ==
    /\ ListensAt(l, "accept")
    /\ \E c \in Client : \E request \in traffic :
         /\ At(c, "idle") /\ Goto(c, "read")
         /\ req' = [req EXCEPT ![c] = request]
         /\ local' = [local EXCEPT ![c].bypass = IF l \in orphans THEN {} ELSE ToSet(server.bypass)]
         /\ orphans' = IF l \in orphans THEN orphans \cup {c} ELSE orphans
    /\ Listens(l, "loop")
    /\ UNCHANGED <<server, socket, acceptOn, blockedOn>>

Listening(l) == ListenerLost(l) \/ CreateSocket(l) \/ Bind(l) \/ Loop(l) \/ Accept(l)

----------------------------------------------------------------------------
(* handle_client: the request.                                             *)

ConfigurationUnchanged == UNCHANGED <<server, freed, script, listenVars>>
Moves(c, place) == Goto(c, place) /\ ConfigurationUnchanged /\ UNCHANGED workspaceVars
Stays(c) == UNCHANGED <<staticRoot, req, res, answer>>
Sets(c, new) == local' = [local EXCEPT ![c] = new]
\* http_request_free
Ends(c) ==
    /\ Sets(c, [NoLocal EXCEPT !.got = local[c].got])
    /\ req' = [req EXCEPT ![c] = NoRequest]
    /\ res' = [res EXCEPT ![c] = NewBuilder]

\* How much of a request has arrived: 1 its request line, 2 its head, 3 half its
\* body, 4 all.
Whole == 4
BodyRead(request, got) ==
    CASE got < 3 -> <<>>
      [] got = 3 -> SubSeq(request.body, 1, Len(request.body) \div 2)
      [] OTHER -> request.body

\* Content-Length is looked for as it is usually spelt, in the first piece only.  When
\* the head is cut, as many bytes as the body has are read, which ends before the body.
Wanted(request, got) ==
    IF request.spelling # "exact" \/ request.body = <<>> \/ (got = 1 /\ ~request.early) THEN got
    ELSE IF got = 1 THEN 3 ELSE Whole

\* The headers after the request line count only if they have arrived.
Parsed(c, got) ==
    LET old == req[c]
        body == BodyRead(old, got)
    IN  /\ Moves(c, "static")
        /\ req' = [req EXCEPT ![c] = [old EXCEPT !.range = IF got = 1 THEN None ELSE old.range,
                                                !.boundary = IF got = 1 THEN "" ELSE old.boundary,
                                                !.body = body,
                                                !.json = IF body = old.body THEN old.json ELSE <<>>]]

\* A request without a body comes whole or cut after its request line.
ReadFirst(c) ==
    /\ At(c, "read") /\ UNCHANGED <<staticRoot, res, answer>>
    /\ \E got \in IF req[c].body = <<>> THEN {0, 1, Whole} ELSE 0 .. Whole :
         /\ Sets(c, [local[c] EXCEPT !.got = got, !.first = got])
         /\ CASE got = 0 -> Moves(c, "closed") /\ UNCHANGED req
              [] got > 0 /\ Wanted(req[c], got) > got -> Moves(c, "more") /\ UNCHANGED req
              [] OTHER -> Parsed(c, got)

ReadMore(c) ==
    /\ At(c, "more") /\ UNCHANGED <<staticRoot, res, answer>>
    /\ \/ \E got \in local[c].got + 1 .. Wanted(req[c], local[c].first) :
            /\ Sets(c, [local[c] EXCEPT !.got = got])
            /\ IF got = Wanted(req[c], local[c].first) THEN Parsed(c, got)
               ELSE Moves(c, "more") /\ UNCHANGED req
       \/ Sets(c, [local[c] EXCEPT !.ended = TRUE]) /\ Parsed(c, local[c].got)

----------------------------------------------------------------------------
(* http_server_serve_file.                                                 *)

\* http_is_safe_path
IsSafePath(path) ==
    /\ path = NoPath \/ Head(path) # Slash
    /\ \A i \in 1 .. Len(path) : path[i] \notin {"..", LF, CR}
    /\ \A i \in 1 .. Len(path) - 1 : ~(path[i] = Slash /\ path[i + 1] = Slash)

RootText(pointer) ==
    IF pointer[1] = "mount" THEN server.mounts[pointer[2]].root ELSE server.owned[pointer[2]]
FullPath(file) == IF staticRoot = Null THEN file ELSE RootText(staticRoot) \o <<Slash>> \o file

\* Mutant: a suffix starts one byte too early.
UsedRangeSuffix(range, size) ==
    LET first == range[1].first
        last == range[1].last
    IN  CASE range = None \/ range[1].several -> <<>>
          [] range # None /\ ~range[1].several /\ first = -1 ->
               IF last <= 0 THEN <<>> ELSE <<IF last >= size THEN 0 ELSE size - last - 1, size - 1>>
          [] OTHER -> IF first >= size THEN <<>> ELSE <<first, IF last = -1 \/ last >= size THEN size - 1 ELSE last>>
\* The first and last byte that a Range header selects, <<>> if it is not used.
UsedRange(range, size) ==
    LET first == range[1].first
        last == range[1].last
        end == IF size > 0 THEN size - 1 ELSE 0
    IN  CASE range = None \/ range[1].several -> <<>>
          [] range # None /\ ~range[1].several /\ first = -1 ->
               IF last <= 0 THEN <<>> ELSE <<IF last >= size THEN 0 ELSE size - last, end>>
          [] OTHER ->
               IF first >= size \/ (last # -1 /\ last < first) THEN <<>>
               ELSE <<first, IF last = -1 \/ last >= size THEN end ELSE last>>

Bytes(from, to, size) == {i \in from .. to : i < size}

\* The answer for a file of some size when its head is written, whose content then
\* has another one; span is its Content-Range.
FileAnswer(request, full, size, now) ==
    LET range == UsedRange(request.range, size)
        sent(from, to) == IF request.method = "HEAD" THEN {} ELSE Bytes(from, to, now)
        reply(status, span, promised, bytes) ==
            [kind |-> "file", status |-> status, span |-> span, promised |-> promised, bytes |-> bytes,
             full |-> full, size |-> size]
    IN  CASE request.range # None /\ range = <<>> -> reply(416, <<size>>, 0, {})
          [] range # <<>> -> reply(206, <<range[1], range[2], size>>, range[2] - range[1] + 1,
                                    sent(range[1], range[2]))
          [] OTHER -> reply(200, <<>>, size, sent(0, now - 1))

SaveRoot(c, new, place) ==
    /\ Moves(c, place)
    /\ Sets(c, [new EXCEPT !.saved = staticRoot])
    /\ UNCHANGED <<staticRoot, req, res, answer>>

\* The root is read, the file looked up.
OpenFile(c) ==
    LET full == FullPath(local[c].file)
        found == IsSafePath(local[c].file) /\ IsFile(full)
    IN  /\ At(c, "open") /\ c \notin orphans /\ staticRoot \notin freed
        /\ Moves(c, IF found THEN "send" ELSE "restore") /\ Stays(c)
        /\ Sets(c, [local[c] EXCEPT !.served = found, !.full = full,
                                    !.size = IF found THEN files[full] ELSE 0])

SendFile(c) ==
    LET full == local[c].full
        now == IF IsFile(full) THEN files[full] ELSE local[c].size
    IN  /\ At(c, "send") /\ Moves(c, "restore")
        /\ answer' = [answer EXCEPT ![c] = Append(@, FileAnswer(req[c], full, local[c].size, now))]
        /\ UNCHANGED <<local, staticRoot, req, res>>

----------------------------------------------------------------------------
(* handle_client: static mounts, routes, the fallback to index.html.       *)

BypassedWhole(path) == \E i \in 1 .. Len(server.bypass) : server.bypass[i] = path   \* mutant
Bypassed(path) == \E i \in 1 .. Len(server.bypass) : server.bypass[i] # <<>> /\ IsPrefix(server.bypass[i], path)
Fetches(c) == req[c].method \in {"GET", "HEAD"}

\* What a mount makes of a path: without its prefix and a leading "/", and with
\* index.html for a directory.
FileOf(mount, path) ==
    LET stripped == SubSeq(path, Len(mount.prefix) + 1, Len(path))
        name == IF stripped # <<>> /\ Head(stripped) = Slash THEN Tail(stripped) ELSE stripped
    IN  IF name = <<>> \/ Last(name) = Slash THEN Append(name, Index) ELSE name

MountsFrom(i, path) == {m \in i .. Len(server.mounts) : IsPrefix(server.mounts[m].prefix, path)}

\* The next mount whose prefix fits, if any.
TryMount(c) ==
    LET fits == MountsFrom(local[c].mount + 1, req[c].path)
        next == CHOOSE m \in fits : \A n \in fits : m <= n
        skipped == \/ ~Fetches(c) \/ ~server.serveStatic \/ server.mounts = <<>>
                   \/ (local[c].mount = 0 /\ Bypassed(req[c].path))
    IN  /\ At(c, "static") /\ c \notin orphans
        /\ IF skipped \/ fits = {} THEN Moves(c, "route") /\ Stays(c) /\ UNCHANGED local
           ELSE SaveRoot(c, [local[c] EXCEPT !.mount = next, !.moves = server.moves, !.spa = FALSE,
                                             !.file = FileOf(server.mounts[next], req[c].path)], "set")

SetRoot(c) ==
    /\ At(c, "set") /\ c \notin orphans
    /\ Moves(c, "open")
    /\ staticRoot' = IF local[c].fallback THEN Null ELSE <<"mount", local[c].mount>>
    /\ UNCHANGED <<local, req, res, answer>>

\* After the first mount, index.html of the same mount is tried.
AfterFileGoesOn(c) ==        \* mutant: no return after index.html was served
    CASE local[c].served /\ ~local[c].spa -> "closed"
      [] ~local[c].served /\ ~local[c].fallback /\ local[c].mount = 1 /\ ~local[c].spa -> "again"
      [] ~local[c].served /\ local[c].fallback -> "notFound"
      [] OTHER -> "static"
AfterFile(c) ==
    CASE local[c].served -> "closed"
      [] ~local[c].served /\ ~local[c].fallback /\ local[c].mount = 1 /\ ~local[c].spa -> "again"
      [] ~local[c].served /\ local[c].fallback -> "notFound"
      [] OTHER -> "static"

RestoredIfMissing(c) == IF local[c].served THEN staticRoot ELSE local[c].saved  \* mutant: returns first
Restored(c) == local[c].saved
RestoreRoot(c) ==
    /\ At(c, "restore") /\ c \notin orphans
    /\ staticRoot' = Restored(c)
    /\ Moves(c, AfterFile(c))
    /\ IF AfterFile(c) = "closed" THEN Ends(c) ELSE UNCHANGED <<local, req, res>>
    /\ UNCHANGED answer

TryIndex(c) ==
    /\ At(c, "again") /\ c \notin orphans
    /\ SaveRoot(c, [local[c] EXCEPT !.spa = TRUE, !.file = <<Index>>], "set")

\* Where a segment that i is in, or is the end of, ends.
EndOf(s, i) ==
    LET slashes == {j \in i .. Len(s) : s[j] = Slash}
    IN  IF slashes = {} THEN Len(s) + 1 ELSE Least(slashes)

\* match_route_path: whether a pattern fits, and the parameters met before that is known
MatchRoutePath(pattern, path) ==
    LET match[r \in 1 .. Len(pattern) + 1] == [p \in 1 .. Len(path) + 1 |->
            CASE r > Len(pattern) \/ p > Len(path) ->
                   [fits |-> r > Len(pattern) /\ p > Len(path), params |-> <<>>]
              [] r <= Len(pattern) /\ p <= Len(path) /\ pattern[r] = ":" ->
                   LET rest == match[EndOf(pattern, r + 1)][EndOf(path, p)]
                       param == <<SubSeq(pattern, r + 1, EndOf(pattern, r + 1) - 1),
                                  SubSeq(path, p, EndOf(path, p) - 1)>>
                   IN  [rest EXCEPT !.params = <<param>> \o @]
              [] OTHER -> IF pattern[r] = path[p] THEN match[r + 1][p + 1]
                          ELSE [fits |-> FALSE, params |-> <<>>]]
    IN  match[1][1]

\* http_request_get_param: the first of that name
GetParam(params, name) ==
    LET at == Least({i \in 1 .. Len(params) : params[i][1] = name})
    IN  IF at = NotFound THEN None ELSE <<params[at][2]>>

\* Routes are tried in order; each that is tried leaves its parameters.
TriedOfAnyMethod(c) == 1 .. Len(server.routes)                \* mutant
Tried(c) == {i \in 1 .. Len(server.routes) : server.routes[i].method = req[c].method}
Route(c) ==
    LET path == req[c].path
        fit == Least({i \in Tried(c) : MatchRoutePath(server.routes[i].path, path).fits})
        upTo == IF fit = NotFound THEN Len(server.routes) ELSE fit
        params == [i \in 1 .. upTo |->
                     IF i \in Tried(c) THEN MatchRoutePath(server.routes[i].path, path).params ELSE <<>>]
        handler == IF fit = NotFound THEN None ELSE server.routes[fit].handler
    IN  /\ At(c, "route") /\ c \notin orphans
        /\ Sets(c, [local[c] EXCEPT !.params = FlattenSeq(params), !.route = fit])
        /\ Moves(c, CASE fit = NotFound -> "noRoute"
                      [] fit # NotFound /\ handler = None -> "legacy"
                      [] handler = <<CFallback>> -> "fallback"
                      [] OTHER -> "handler")
        /\ UNCHANGED <<staticRoot, req, res, answer>>

Sends(c, status, promised, sent) ==
    /\ Moves(c, "closed")
    /\ answer' = [answer EXCEPT ![c] = Append(@, [kind |-> "route", status |-> status, promised |-> promised,
                                                  bytes |-> 0 .. sent - 1, span |-> <<>>, full |-> NoPath,
                                                  size |-> 0])]
    /\ Ends(c) /\ UNCHANGED staticRoot

\* The answer of a route without a callback is longer than it says.
Legacy(c) == At(c, "legacy") /\ Sends(c, 200, 33, 34)

\* http_response_build
Build(c) ==
    LET size == IF res[c].body = NoBody THEN 0 ELSE res[c].body
    IN  At(c, "built") /\ Sends(c, res[c].status, size, size)

\* What a handler leaves in the builder with response_set_status and response_set_json
Filled == [status |-> 201, body |-> 2, json |-> TRUE]

\* How a call of a Kuyil handler ends (HttpBridge): it has filled the builder, it did
\* not answer in time, or it could not be handed over.
HandlerReturns(c) ==
    /\ At(c, "handler")
    /\ \/ Moves(c, "built") /\ res' = [res EXCEPT ![c] = Filled]
       \/ Moves(c, "built") /\ UNCHANGED res
       \/ Moves(c, "fallback") /\ UNCHANGED res
    /\ UNCHANGED <<local, staticRoot, req, answer>>

\* index.html of the last root configured, else of a mount of everything, else of the
\* last mount; a path of its own, for which static_root is cleared.
SpaPointer ==
    LET everything == {m \in 1 .. Len(server.mounts) : server.mounts[m].prefix \in {<<>>, <<Slash>>}}
    IN  IF staticRoot # Null THEN staticRoot
        ELSE <<"mount", IF everything = {} THEN Len(server.mounts)
                        ELSE CHOOSE m \in everything : \A n \in everything : n <= m>>

NoRoute(c) ==
    /\ At(c, "noRoute") /\ c \notin orphans /\ SpaPointer \notin freed
    /\ IF Fetches(c) /\ server.mounts # <<>> /\ ~Bypassed(req[c].path)
       THEN SaveRoot(c, [local[c] EXCEPT !.fallback = TRUE,
                                         !.file = RootText(SpaPointer) \o <<Slash, Index>>], "set")
       ELSE Moves(c, "notFound") /\ Stays(c) /\ UNCHANGED local

NotFoundAnswer(c) == At(c, "notFound") /\ Sends(c, 404, 28, 28)

\* The array that a thread walks, or reads a member of, is being changed.
ChecksBypass(c) == Fetches(c) /\ server.mounts # <<>> /\
                   (At(c, "noRoute") \/ (At(c, "static") /\ local[c].mount = 0 /\ server.serveStatic))
InChange(c) ==
    CASE server.doing = "routes" -> At(c, "route")
      [] server.doing = "bypass" -> ChecksBypass(c)
      [] server.doing = "mounts" -> Fetches(c) /\ (At(c, "static") \/ (At(c, "noRoute") /\ staticRoot = Null))
      [] OTHER -> FALSE

\* Reads memory of a server that is gone, of a root that is freed, of an array that
\* has moved, or of a member that is not written yet.
Lost(c) ==
    /\ \/ pc[c] \in {"static", "set", "open", "restore", "again", "route", "noRoute"} /\ c \in orphans
       \/ At(c, "open") /\ staticRoot \in freed
       \/ At(c, "noRoute") /\ SpaPointer \in freed
       \/ pc[c] \in {"set", "restore"} /\ ~local[c].fallback /\ local[c].moves # server.moves
       \/ InChange(c)
    /\ Moves(c, "undefined") /\ Stays(c) /\ UNCHANGED local

Connection(c) ==
    \/ ReadFirst(c) \/ ReadMore(c)
    \/ TryMount(c) \/ SetRoot(c) \/ OpenFile(c) \/ SendFile(c) \/ RestoreRoot(c) \/ TryIndex(c)
    \/ Route(c) \/ Legacy(c) \/ HandlerReturns(c) \/ Build(c) \/ NoRoute(c) \/ NotFoundAnswer(c)
    \/ Lost(c)
    \/ Endpoint(c) /\ ConfigurationUnchanged /\ UNCHANGED <<staticRoot, local, answer>>

Borrowing == {c \in Client : pc[c] \in {"set", "open", "send", "restore", "undefined"}}
Next ==
    /\ \A c \in Client : ~At(c, "undefined")
    /\ \A l \in Listener : listener[l] # "undefined"
    /\ \/ Script
       \/ \E l \in Listener : Listening(l)
       \/ \E c \in Client : Connection(c)
    /\ UNCHANGED traffic
    /\ overlapped' = \/ overlapped \/ (Borrowing # {} /\ script' # script)
                      \/ \E c, d \in Borrowing' : c # d

Spec == Init /\ [][Next]_vars

----------------------------------------------------------------------------
(* A connection is answered at most once, and not closed without an answer *)
(* unless nothing was received: each way out of handle_client, through a   *)
(* mount, index.html, a route or the 404, sends one head.                  *)
OneAnswer == \A c \in Client :
    /\ Len(answer[c]) <= 1
    /\ At(c, "closed") => (Len(answer[c]) = 1 \/ local[c].got = 0)

AnswersFile(c) == answer'[c] # answer[c] /\ Last(answer'[c]).kind = "file"

(* A path below a prefix that was to bypass static serving, when the       *)
(* connection came and until it is answered, never gets a file: neither    *)
(* from a mount nor as the fallback of a route that is missing.            *)
BypassedNotStatic == [][\A c \in Client : AnswersFile(c) =>
    \A prefix \in local[c].bypass :
        prefix = <<>> \/ ~IsPrefix(prefix, req[c].path)]_vars

(* As long as no two borrowings of static_root met, it is what the script  *)
(* configured whenever nobody borrows it, whichever way a connection left. *)
RootRestored ==
    ~overlapped /\ Borrowing = {} /\ server.exists =>
        staticRoot = IF server.owned = <<>> THEN Null ELSE <<"own", Len(server.owned)>>

(* The comment "ensure http_server_serve_file uses provided path as-is"    *)
(* (http_server.c:982): the index.html of the fallback is looked up where  *)
(* handle_client said, not below the root that another thread has set.     *)
FallbackAsIs == [][\A c \in Client :
    At(c, "open") /\ local[c].fallback /\ pc'[c] \in {"send", "restore"} =>
        local'[c].full = local[c].file]_vars

\* What a Range header selects of a file (RFC 9110, 14.1.2).
Selected(range, size) == {i \in 0 .. size - 1 :
    IF range.first = -1 THEN i >= size - range.last
    ELSE i >= range.first /\ (range.last = -1 \/ i <= range.last)}

\* The answer has the bytes selected, all without a Range and none for HEAD, and its
\* head says which of how many they are; or it says that none is selected.
Exact(a, request) ==
    LET wanted == IF request.range = None THEN 0 .. a.size - 1 ELSE Selected(request.range[1], a.size)
    IN  IF request.range # None /\ wanted = {}
        THEN a.status = 416 /\ a.span = <<a.size>> /\ a.promised = 0 /\ a.bytes = {}
        ELSE /\ a.promised = Cardinality(wanted)
             /\ a.bytes = IF request.method = "HEAD" THEN {} ELSE wanted
             /\ IF request.range = None THEN a.status = 200 /\ a.span = <<>>
                ELSE /\ a.status = 206 /\ a.span[3] = a.size
                     /\ a.span[1] \in wanted /\ a.span[2] \in wanted
                     /\ wanted = a.span[1] .. a.span[2]

\* What the comments of http_server_serve_file promise otherwise than it does: several
\* ranges, and a suffix of an empty file.
Disputed(range, size) == range # None /\ (range[1].several \/ (size = 0 /\ range[1].first = -1))

(* A file that nobody writes meanwhile is sent as its head promises: the   *)
(* bytes that one range selects, all of it without a Range, nothing for    *)
(* HEAD, with their count and their place in the file, and 416 exactly     *)
(* when nothing is selected.  Nothing is said of what is Disputed.         *)
RangeExact == [][\A c \in Client : AnswersFile(c) =>
    LET a == Last(answer'[c])
    IN  \/ ~IsFile(a.full) \/ files[a.full] # a.size
        \/ Disputed(req[c].range, a.size)
        \/ Exact(a, req[c])]_vars

(* The comment "Multiple ranges not supported -> respond with 200 ignoring *)
(* Range" (http_server.c:1427).                                            *)
SeveralAreIgnored == [][\A c \in Client : AnswersFile(c) =>
    (req[c].range # None /\ req[c].range[1].several => Last(answer'[c]).status = 200)]_vars

(* The comment "If invalid range (e.g., start >= total), return 416"       *)
(* (http_server.c:1467), for a file that is empty.                         *)
EmptyHasNoRange == [][\A c \in Client : AnswersFile(c) =>
    LET a == Last(answer'[c])
    IN  req[c].range # None /\ a.size = 0 => a.status = 416]_vars

\* A text is cut at its slashes; its segments are what is between them, from 0.
Cuts(s) == Cardinality(Slashes(s))
Cut(s, k) ==
    CASE k = 0 -> 0
      [] k > Cuts(s) -> Len(s) + 1
      [] OTHER -> CHOOSE i \in Slashes(s) : Cardinality({j \in Slashes(s) : j <= i}) = k
Segment(s, k) == SubSeq(s, Cut(s, k) + 1, Cut(s, k + 1) - 1)

\* A segment of a pattern stands for its text up to the first ":", if any, followed by
\* anything; as the last one, by at least one character.
Colon(segment) == Least({j \in 1 .. Len(segment) : segment[j] = ":"})
SegmentFits(segment, text, last) ==
    IF Colon(segment) = NotFound THEN text = segment
    ELSE /\ Len(text) >= Colon(segment) - (IF last THEN 0 ELSE 1)
         /\ \A j \in 1 .. Colon(segment) - 1 : text[j] = segment[j]
Fits(pattern, path) ==
    /\ Cuts(pattern) = Cuts(path)
    /\ \A k \in 0 .. Cuts(path) : SegmentFits(Segment(pattern, k), Segment(path, k), k = Cuts(path))

\* The segments of a pattern that are parameters, what each is called and what it takes.
Params(pattern) == {k \in 0 .. Cuts(pattern) : Colon(Segment(pattern, k)) # NotFound}
NameOf(segment) == SubSeq(segment, Colon(segment) + 1, Len(segment))
ValueOf(segment, text) == SubSeq(text, Colon(segment), Len(text))
Names(pattern) == {NameOf(Segment(pattern, k)) : k \in Params(pattern)}

(* The route that answers is the first one registered for the method whose *)
(* pattern fits segment by segment, and a parameter of it has the text of  *)
(* its segment, unless a route of the method registered before, or an      *)
(* earlier segment of the same pattern, has a parameter of that name.      *)
RouteIsFirst == \A c \in Client : pc[c] \in {"handler", "legacy", "fallback"} /\ c \notin orphans =>
    LET path == req[c].path
        OfMethod(i) == server.routes[i].method = req[c].method
        fits == {i \in 1 .. Len(server.routes) : OfMethod(i) /\ Fits(server.routes[i].path, path)}
        route == local[c].route
        pattern == server.routes[route].path
        name(k) == NameOf(Segment(pattern, k))
    IN  /\ fits # {} /\ route = Least(fits)
        /\ \A k \in Params(pattern) :
             \/ \E i \in 1 .. route - 1 : OfMethod(i) /\ name(k) \in Names(server.routes[i].path)
             \/ \E j \in Params(pattern) : j < k /\ name(j) = name(k)
             \/ GetParam(local[c].params, name(k)) = <<ValueOf(Segment(pattern, k), Segment(path, k))>>

\* A form came whole, with the field that gives its length spelt as usual.
CameWhole(c) ==
    /\ At(c, "handler") /\ req[c].parts # <<>>
    /\ local[c].first >= 2 /\ ~local[c].ended /\ req[c].spelling = "exact"
FileText(part) == <<part.filename, "|">> \o part.content
\* Every second part: the loops go past the boundary that ends a part to the next one.
LookedAt(parts) == [i \in 1 .. (Len(parts) + 1) \div 2 |-> parts[2 * i - 1]]

(* What a handler reads out of a form, however its bytes were cut on the   *)
(* way and whichever line ends it has, when its head came in one piece:    *)
(* a text asked for by name is the one sent; of the first, third, fifth    *)
(* part and so on, each text is among the fields, in order, and each file  *)
(* is found under its name; the other files are reported missing; and a    *)
(* first part that is a file and not empty is the first file.              *)
FormRead == \A c \in Client : CameWhole(c) =>
    LET parts == req[c].parts
        body == req[c].body
        boundary == req[c].boundary
        texts == SelectSeq(LookedAt(parts), LAMBDA part : ~part.isFile)
    IN  /\ ParseMultipartFields(body, boundary) =
             [i \in 1 .. Len(texts) |-> <<<<texts[i].name>>, Trimmed(texts[i].content)>>]
        /\ \A part \in ToSet(parts) :
             IF part.isFile
             THEN ParseMultipartFile(body, boundary, <<part.name>>) =
                    IF part \in ToSet(LookedAt(parts)) THEN FileText(part) ELSE Missing
             ELSE GetMultipartField(body, boundary, <<part.name>>) = Trimmed(part.content)
        /\ (parts[1].isFile /\ parts[1].content # <<>>) =>
             ParseMultipart(body, boundary) = FileText(parts[1])

(* The comment "extract a specific file part by field name"                *)
(* (libkylhttp.c:208): a file is found under its name, whichever part of   *)
(* the form it is.                                                         *)
FilesByName == \A c \in Client : CameWhole(c) =>
    \A part \in ToSet(req[c].parts) : part.isFile =>
        ParseMultipartFile(req[c].body, req[c].boundary, <<part.name>>) = FileText(part)

Ends200(c, places) == pc[c] \in places /\ pc'[c] = "built" /\ res'[c].status = 200

(* A delete that reports success has removed what it was asked to remove,  *)
(* whatever other connections create, move, delete or switch the workspace *)
(* to between its calls of the system; a mkdir that does has left a        *)
(* directory, or a file that already had the name, in place.               *)
SuccessMeansDone ==
    [][\A c \in Client :
        /\ Ends200(c, {"delete", "unlink", "opendir", "rmdir"}) => job[c].path \notin DOMAIN files'
        /\ Ends200(c, {"mkdir"}) => /\ job[c].path \in DOMAIN files'
                                   /\ (files'[job[c].path] = Dir \/ IsFile(job[c].path))]_vars

(* The comment "mkdir -p behavior" (libkylhttp.c:1000): what mkdir reports *)
(* as made is a directory.                                                 *)
MkdirMakesDirectory ==
    [][\A c \in Client : Ends200(c, {"mkdir"}) =>
        job[c].path \in DOMAIN files' /\ files'[job[c].path] = Dir]_vars
=============================================================================
