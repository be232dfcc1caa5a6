------------------------------ MODULE Workspace ------------------------------
(***************************************************************************)
(* src/shared_libs/http/libkylhttp.c: the /bridge/ endpoints that          *)
(* route_handler_bridge answers without the interpreter, on the thread of  *)
(* the connection: reading, writing, moving and deleting files under       *)
(* g_workspace_root, which /bridge/workspace switches without a lock.      *)
(* While one thread writes the root, the others read a torn text.          *)
(*                                                                         *)
(* A path is a sequence of names and "/"; a file is its size, a directory  *)
(* Dir.  A call of the system that reads or changes the files is one step; *)
(* a directory is opened and its names read in one.  Links, permissions,   *)
(* failing malloc and the escaping of JSON are left out.                   *)
(***************************************************************************)
EXTENDS Multipart, Integers, SequencesExt, TLC

CONSTANTS
  Client,          \* threads, each with one connection
  StackLimit,      \* 2047: the names that a delete has room for
  Home             \* getenv("HOME")

ASSUME StackAssumption == StackLimit \in Nat \ {0}

VARIABLES
  pc,              \* what each thread does
  req,             \* its request
  res,             \* its HttpResponseBuilder
  job,             \* the endpoint's local variables
  files,           \* the file system
  workspaceRoot    \* g_workspace_root

workspaceVars == <<job, files, workspaceRoot>>

Dir == -1
NoPath == <<>>
Torn == <<"torn">>
Slash == "/"
DefaultRoot == Home \o <<Slash, "kuyil-workspace-default">>
Generated == "ai_generated.kyl"
DefaultContent == 1
NoBody == -1

Idle == [path |-> NoPath, to |-> NoPath, todo |-> <<>>, failed |-> FALSE, mixed |-> FALSE]
Bridge(endpoint) == <<Slash, "bridge", Slash, endpoint>>

Slashes(path) == {i \in 1 .. Len(path) : path[i] = Slash}
Parent(path) ==
    IF Slashes(path) = {} THEN NoPath
    ELSE SubSeq(path, 1, (CHOOSE i \in Slashes(path) : \A j \in Slashes(path) : j <= i) - 1)
Under(path, top) == Len(top) < Len(path) /\ IsPrefix(Append(top, Slash), path)

Exists(path) == path \in DOMAIN files
IsDir(path) == Exists(path) /\ files[path] = Dir
IsFile(path) == Exists(path) /\ files[path] # Dir
Below(path) == {p \in DOMAIN files : Under(p, path)}
Children(path) == {p \in Below(path) : Parent(p) = path}

\* The files with one more, or with one changed.
FilesWith(path, content) == [p \in DOMAIN files \cup {path} |-> IF p = path THEN content ELSE files[p]]

\* mkdir(2): creates, or fails with EEXIST, or fails otherwise
MkdirFails(path) == ~Exists(path) /\ ~IsDir(Parent(path))
AfterMkdir(path) == IF Exists(path) \/ MkdirFails(path) THEN files ELSE FilesWith(path, Dir)

RemoveFile(path) == files' = [p \in DOMAIN files \ {path} |-> files[p]]

\* rename(2)
RenameFails(old, new) ==
    \/ ~Exists(old) \/ ~IsDir(Parent(new)) \/ Under(new, old)
    \/ (IsDir(old) /\ IsFile(new)) \/ (IsFile(old) /\ IsDir(new))
    \/ (IsDir(new) /\ Children(new) # {} /\ new # old)
Rename(old, new) ==
    LET moved == {old} \cup Below(old)
        image(p) == new \o SubSeq(p, Len(old) + 1, Len(p))
        images == {image(p) : p \in moved}
        source(p) == CHOOSE q \in moved : image(q) = p
    IN  files' = [p \in images \cup (DOMAIN files \ moved) |->
                    IF p \in images THEN files[source(p)] ELSE files[p]]

Goto(c, place) == pc' = [pc EXCEPT ![c] = place]
At(c, place) == pc[c] = place
Works(c, place, local) == Goto(c, place) /\ job' = [job EXCEPT ![c] = local] /\ UNCHANGED <<req, res>>
\* http_response_set_status and http_response_set_json
Answers(c, status, size) ==
    /\ Goto(c, "built")
    /\ res' = [res EXCEPT ![c] = [status |-> status, body |-> size, json |-> TRUE]]
    /\ UNCHANGED req
Responds(c, status, size) == Answers(c, status, size) /\ job' = [job EXCEPT ![c] = Idle]
Refuses(c, status) == Responds(c, status, 0) /\ UNCHANGED <<files, workspaceRoot>>

Posts(c, endpoint) == req[c].method = "POST" /\ req[c].path = Bridge(endpoint)
String(c, key) == JsonValue(req[c].json, key, "string")
Pattern(c, key) == JsonPattern(req[c].json, key)
\* The endpoints that need the root.
NamesFile(c) == Pattern(c, "filename") \notin {<<>>, <<NoPath>>}
Uses(c) == \/ req[c].path = Bridge("list")
           \/ \E e \in {"read", "workspace", "mkdir", "rename", "delete", "command"} : Posts(c, e)
           \/ Posts(c, "run") /\ NamesFile(c)
\* A name that a request gives: <<>> when it gives none.
Given(c, key) == IF String(c, key) = <<>> THEN NoPath ELSE String(c, key)[1]
Bad(name) == name = NoPath \/ \E i \in 1 .. Len(name) : name[i] \in {"..", LF, CR}
InWorkspace(name) == workspaceRoot \o <<Slash>> \o name

----------------------------------------------------------------------------
(* Which endpoint.                                                         *)

OptionsEndpoint(c) ==
    /\ At(c, "fallback") /\ req[c].method = "OPTIONS"
    /\ Goto(c, "built")
    /\ res' = [res EXCEPT ![c] = [@ EXCEPT !.status = 204, !.body = 0]]
    /\ UNCHANGED <<req, workspaceVars>>

GenerateEndpoint(c) ==
    /\ At(c, "fallback") /\ req[c].method # "OPTIONS" /\ req[c].path = Bridge("generate")
    /\ \E status \in {200, 502} : Refuses(c, status)

\* Nothing known: the builder keeps its 200 and has no body.
UnknownEndpoint(c) ==
    /\ At(c, "fallback") /\ req[c].method # "OPTIONS"
    /\ ~Uses(c) /\ req[c].path \notin {Bridge("generate"), Bridge("run")}
    /\ Goto(c, "built")
    /\ UNCHANGED <<req, res, workspaceVars>>

\* Writing the root takes time.  Two that write at once may leave a mixed text.
Writers == {d \in Client : pc[d] \in {"ensuring", "switching"}}
BeginsRoot(c, place) ==
    /\ Goto(c, place)
    /\ workspaceRoot' = Torn
    /\ job' = [d \in Client |-> CASE d = c -> [Idle EXCEPT !.mixed = Writers # {}]
                                  [] d # c /\ d \in Writers -> [job[d] EXCEPT !.mixed = TRUE]
                                  [] OTHER -> job[d]]
    /\ UNCHANGED <<req, res, files>>
EndsRoot(c, text) == workspaceRoot' \in {text} \cup (IF job[c].mixed THEN {Torn} ELSE {})

\* ensure_default_workspace: the root is written, then its directory made.
EnsureRoot(c) ==
    /\ At(c, "fallback") /\ req[c].method # "OPTIONS" /\ Uses(c)
    /\ IF workspaceRoot = NoPath THEN BeginsRoot(c, "ensuring")
       ELSE Works(c, "endpoint", Idle) /\ UNCHANGED <<files, workspaceRoot>>

EnsureWritten(c) ==
    /\ At(c, "ensuring")
    /\ EndsRoot(c, DefaultRoot)
    /\ Works(c, "ensured", Idle)
    /\ UNCHANGED files

EnsureMade(c) ==
    /\ At(c, "ensured")
    /\ Works(c, "endpoint", Idle)
    /\ files' = AfterMkdir(workspaceRoot)
    /\ UNCHANGED workspaceRoot

----------------------------------------------------------------------------
(* One file.                                                               *)

List(c) ==
    /\ At(c, "endpoint") /\ req[c].path = Bridge("list")
    /\ Refuses(c, IF IsDir(workspaceRoot) THEN 200 ELSE 500)

\* A directory can be opened, and reads as nothing.
Read(c) ==
    LET name == Given(c, "filename")
        full == InWorkspace(name)
    IN  /\ At(c, "endpoint") /\ Posts(c, "read")
        /\ CASE Bad(name) -> Refuses(c, 400)
             [] ~Bad(name) /\ ~Exists(full) -> Refuses(c, 404)
             [] OTHER -> Responds(c, 200, IF IsDir(full) THEN 0 ELSE files[full])
                         /\ UNCHANGED <<files, workspaceRoot>>

\* The file is truncated by fopen and written afterwards.
CommandFile(c) == IF Pattern(c, "filename") = <<>> THEN <<Generated>> ELSE Pattern(c, "filename")[1]
CommandContent(c) ==
    IF Pattern(c, "content") \in {<<>>, <<<<>>>>} THEN DefaultContent ELSE Len(Pattern(c, "content")[1])
CommandKnown(c) ==
    Pattern(c, "action") = <<>> \/ Pattern(c, "action")[1] \in {<<>>, <<"createFile">>, <<"writeFile">>}

CommandOpen(c) ==
    LET full == InWorkspace(CommandFile(c))
        allowed == CommandKnown(c) \/ CommandFile(c) # NoPath
    IN  /\ At(c, "endpoint") /\ Posts(c, "command")
        /\ CASE ~allowed -> Refuses(c, 400)
             [] allowed /\ (IsDir(full) \/ CommandFile(c) = NoPath \/ ~IsDir(Parent(full))) ->
                  Refuses(c, 500)
             [] OTHER -> /\ Works(c, "writing", [Idle EXCEPT !.path = full])
                         /\ files' = FilesWith(full, 0)
                         /\ UNCHANGED workspaceRoot

\* Two writers of one file both write from its start.
CommandWrite(c) ==
    LET full == job[c].path
    IN
    /\ At(c, "writing")
    /\ Responds(c, 200, 0)
    /\ files' = IF IsFile(full) /\ files[full] < CommandContent(c)
                THEN [files EXCEPT ![full] = CommandContent(c)] ELSE files
    /\ UNCHANGED workspaceRoot

\* How the script ends is not looked at.
Run(c) == At(c, "endpoint") /\ Posts(c, "run") /\ Refuses(c, 200)
RunRefused(c) ==
    /\ At(c, "fallback") /\ req[c].method # "OPTIONS" /\ req[c].path = Bridge("run") /\ ~Uses(c)
    /\ Refuses(c, IF req[c].method = "POST" THEN 400 ELSE 405)

----------------------------------------------------------------------------
(* Directories.                                                            *)

\* A name that starts with "/" is taken as it is.
SwitchTarget(c) ==
    LET name == Pattern(c, "name")
    IN  CASE name \in {<<>>, <<NoPath>>} -> DefaultRoot
          [] name \notin {<<>>, <<NoPath>>} /\ Head(name[1]) = Slash -> name[1]
          [] OTHER -> Home \o <<Slash>> \o name[1]

SwitchMake(c) ==
    /\ At(c, "endpoint") /\ Posts(c, "workspace")
    /\ Works(c, "switch", Idle)
    /\ files' = AfterMkdir(SwitchTarget(c))
    /\ UNCHANGED workspaceRoot

SwitchBegin(c) == At(c, "switch") /\ BeginsRoot(c, "switching")

SwitchEnd(c) ==
    /\ At(c, "switching")
    /\ EndsRoot(c, SwitchTarget(c))
    /\ Responds(c, 200, 0)
    /\ UNCHANGED files

MkdirBuild(c) ==
    LET name == Given(c, "path")
        full == InWorkspace(name)
    IN  /\ At(c, "endpoint") /\ Posts(c, "mkdir")
        /\ IF Bad(name) THEN Refuses(c, 400)
           ELSE /\ Works(c, "split", [Idle EXCEPT !.path =
                        IF Last(full) = Slash THEN Front(full) ELSE full])
                /\ UNCHANGED <<files, workspaceRoot>>

\* The directories above the path, which start after the root, which is read again.
MkdirSplit(c) ==
    LET path == job[c].path
        cuts == SetToSortSeq({i \in Slashes(path) : i >= Len(workspaceRoot) + 2}, <)
    IN  /\ At(c, "split")
        /\ Works(c, "mkdir", [job[c] EXCEPT !.todo =
               [i \in 1 .. Len(cuts) |-> SubSeq(path, 1, cuts[i] - 1)]])
        /\ UNCHANGED <<files, workspaceRoot>>

\* First those, then the path itself.
ToMake(c) == IF job[c].todo = <<>> THEN job[c].path ELSE Head(job[c].todo)

\* Mutant: mkdir's result is not looked at.
MkdirNextUnchecked(c) ==
    /\ At(c, "mkdir")
    /\ files' = AfterMkdir(ToMake(c))
    /\ UNCHANGED workspaceRoot
    /\ IF job[c].todo # <<>> THEN Works(c, "mkdir", [job[c] EXCEPT !.todo = Tail(@)]) ELSE Responds(c, 200, 0)
MkdirNext(c) ==
    /\ At(c, "mkdir")
    /\ files' = AfterMkdir(ToMake(c))
    /\ UNCHANGED workspaceRoot
    /\ CASE MkdirFails(ToMake(c)) -> Responds(c, 500, 0)
         [] ~MkdirFails(ToMake(c)) /\ job[c].todo # <<>> ->
              Works(c, "mkdir", [job[c] EXCEPT !.todo = Tail(@)])
         [] OTHER -> Responds(c, 200, 0)

\* Only the directory right above the new name is made.
RenameParent(c) ==
    LET old == Given(c, "old")
        new == Given(c, "new")
    IN  /\ At(c, "endpoint") /\ Posts(c, "rename")
        /\ UNCHANGED workspaceRoot
        /\ CASE Bad(old) \/ Bad(new) -> Responds(c, 400, 0) /\ UNCHANGED files
             [] ~(Bad(old) \/ Bad(new)) /\ MkdirFails(Parent(InWorkspace(new))) ->
                  Responds(c, 500, 0) /\ UNCHANGED files
             [] OTHER -> /\ Works(c, "rename", [Idle EXCEPT !.path = InWorkspace(old),
                                                            !.to = InWorkspace(new)])
                         /\ files' = AfterMkdir(Parent(InWorkspace(new)))

\* Who is writing a file goes on with it under its new name.
RenameFile(c) ==
    LET old == job[c].path
        new == job[c].to
        moved(d) == At(d, "writing") /\ (job[d].path = old \/ Under(job[d].path, old))
    IN  /\ At(c, "rename")
        /\ UNCHANGED workspaceRoot
        /\ IF RenameFails(old, new) THEN Responds(c, 500, 0) /\ UNCHANGED files
           ELSE /\ Answers(c, 200, 0)
                /\ Rename(old, new)
                /\ job' = [d \in Client |->
                     CASE d = c -> Idle
                       [] d # c /\ moved(d) -> [job[d] EXCEPT !.path = new \o SubSeq(@, Len(old) + 1, Len(@))]
                       [] OTHER -> job[d]]

DeleteLookup(c) ==
    LET name == Given(c, "path")
        full == InWorkspace(name)
    IN  /\ At(c, "endpoint") /\ Posts(c, "delete")
        /\ UNCHANGED <<files, workspaceRoot>>
        /\ CASE Bad(name) -> Responds(c, 400, 0)
             [] ~Bad(name) /\ ~Exists(full) -> Responds(c, 404, 0)
             [] OTHER -> Works(c, "delete", [Idle EXCEPT !.path = full,
                                                         !.todo = <<[path |-> full, processed |-> FALSE]>>])

\* The loop ends with an empty stack or with the first call that fails.
Deleted(c, todo, failed) ==
    IF failed \/ todo = <<>> THEN Responds(c, IF failed THEN 500 ELSE 200, 0)
    ELSE Works(c, "delete", [job[c] EXCEPT !.todo = todo])

\* lstat of the last name on the stack.
DeleteNext(c) ==
    LET todo == job[c].todo
        top == Last(todo)
    IN  /\ At(c, "delete")
        /\ UNCHANGED <<files, workspaceRoot>>
        /\ CASE ~Exists(top.path) -> Deleted(c, Front(todo), FALSE)
             [] IsFile(top.path) -> Works(c, "unlink", job[c])
             [] IsDir(top.path) /\ ~top.processed -> Works(c, "opendir", job[c])
             [] OTHER -> Works(c, "rmdir", job[c])

DeleteFile(c) ==
    LET path == Last(job[c].todo).path
    IN  /\ At(c, "unlink")
        /\ IF IsFile(path) THEN RemoveFile(path) ELSE UNCHANGED files
        /\ Deleted(c, Front(job[c].todo), ~IsFile(path))
        /\ UNCHANGED workspaceRoot

\* A directory is marked, and as many of its names as there is room for put on top of
\* it; without any, it is removed at once.
Room(c) == StackLimit - Len(job[c].todo)
Inside(path, n) == [i \in 1 .. n |-> [path |-> SetToSeq(Children(path))[i], processed |-> FALSE]]
Pushed(todo, n) == Append(Front(todo), [Last(todo) EXCEPT !.processed = TRUE]) \o Inside(Last(todo).path, n)
DeleteOpen(c) ==
    LET todo == job[c].todo
        path == Last(todo).path
        names == Cardinality(Children(path))
        n == IF names <= Room(c) THEN names ELSE Room(c)
    IN  /\ At(c, "opendir")
        /\ CASE ~IsDir(path) -> Deleted(c, Front(todo), TRUE)
             [] IsDir(path) /\ n = 0 -> Works(c, "rmdir", [job[c] EXCEPT !.failed = names > 0])
             [] OTHER -> Deleted(c, Pushed(todo, n), n < names)
        /\ UNCHANGED <<files, workspaceRoot>>

DeleteDirectory(c) ==
    LET path == Last(job[c].todo).path
        removed == IsDir(path) /\ Children(path) = {}
    IN  /\ At(c, "rmdir")
        /\ IF removed THEN RemoveFile(path) ELSE UNCHANGED files
        /\ Deleted(c, Front(job[c].todo), job[c].failed \/ ~removed)
        /\ UNCHANGED workspaceRoot

Endpoint(c) ==
    \/ OptionsEndpoint(c) \/ GenerateEndpoint(c) \/ UnknownEndpoint(c)
    \/ EnsureRoot(c) \/ EnsureWritten(c) \/ EnsureMade(c)
    \/ List(c) \/ Read(c) \/ CommandOpen(c) \/ CommandWrite(c) \/ Run(c) \/ RunRefused(c)
    \/ SwitchMake(c) \/ SwitchBegin(c) \/ SwitchEnd(c)
    \/ MkdirBuild(c) \/ MkdirSplit(c) \/ MkdirNext(c)
    \/ RenameParent(c) \/ RenameFile(c)
    \/ DeleteLookup(c) \/ DeleteNext(c) \/ DeleteFile(c) \/ DeleteOpen(c) \/ DeleteDirectory(c)
=============================================================================
