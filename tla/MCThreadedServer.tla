--------------------------- MODULE MCThreadedServer ---------------------------
(* Scripts that mount two roots, configure late, free the server, and serve  *)
(* the bridge's endpoints; the requests that matter under each.              *)
EXTENDS ThreadedServerProofs

Clients == Permutations(Client)
MCHome == <<"home">>
P(name) == <<Slash, name>>
Call(name) == [call |-> name]
Start == Call("start")
Static(prefix, root) == [call |-> "static", prefix |-> prefix, root |-> root]
StaticAdd(prefix, root) == [call |-> "staticAdd", prefix |-> prefix, root |-> root]
Bypass(prefix) == [call |-> "bypass", prefix |-> prefix]
Register(method, path, handler) == [call |-> "registerRoute", method |-> method, path |-> path, handler |-> handler]

Get(path) == [NoRequest EXCEPT !.method = "GET", !.path = path]
Post(path) == [NoRequest EXCEPT !.method = "POST", !.path = path, !.spelling = "exact", !.early = TRUE]
Ranged(request, first, last, several) ==
    [request EXCEPT !.range = <<[first |-> first, last |-> last, several |-> several]>>]

Member(key, value) == [key |-> key, spaced |-> FALSE, value |-> <<"string", value>>]
Ask(endpoint, members) == [Post(Bridge(endpoint)) EXCEPT !.body = <<"{}">>, !.json = members]

\* Forms, with either line end.
NewLine == <<CR, LF>>
Text(name, content) == [name |-> name, isFile |-> FALSE, filename |-> "", content |-> content]
Upload(name, filename, content) == [name |-> name, isFile |-> TRUE, filename |-> filename, content |-> content]
Encoded(part, end) ==
    <<Disposition, Name, part.name, Quote>>
    \o (IF part.isFile THEN <<File, Name, part.filename, Quote>> ELSE <<>>) \o end \o end \o part.content
FormBody(parts, end) ==
    FlattenSeq([i \in 1 .. Len(parts) |-> Marker("bound") \o end \o Encoded(parts[i], end) \o end])
      \o Marker("bound") \o <<Dashes>> \o end
FormOf(parts, end) == [Post(P("up")) EXCEPT !.body = FormBody(parts, end), !.boundary = "bound", !.parts = parts]
Form(parts) == FormOf(parts, NewLine)

\* Two mounts and routes, all configured first.
Sites == [calls |-> <<Call("server"), Static(<<Slash>>, <<"pub">>), StaticAdd(P("f"), <<"docs">>), Bypass(P("api")),
                      Register("POST", P("api") \o <<Slash, ":", "id", Slash, "z">>, "h"),
                      Register("GET", P("api") \o <<Slash, ":", "id", Slash, "x">>, "h"),
                      Register("GET", P("api") \o <<Slash, ":", "id", Slash, ":", "n">>, "h"), Start>>,
          requests |-> {Get(P("a")), Get(P("f") \o P("b")), Get(P("api") \o P("7") \o P("z")), Get(P("none"))}]

\* A mount of one prefix only, for the index.html of every other path.
Prefixed == [calls |-> <<Call("server"), StaticAdd(P("f"), <<"docs">>), Start>>,
             requests |-> {Get(P("f") \o P("b")), Get(P("none"))}]
FallbackScenarios == {Prefixed}

\* No index.html above; ranges of files of 0 and 3 bytes.
Ranges == [calls |-> <<Call("server"), StaticAdd(<<Slash>>, <<"docs">>), Start>>,
           requests |-> {Ranged(Get(P("b")), -1, 2, FALSE), Ranged(Get(P("b")), 1, -1, FALSE),
                         Ranged(Get(P("b")), 1, 5, FALSE), Ranged(Get(P("b")), 3, -1, FALSE),
                         Ranged(Get(P("b")), 0, 1, TRUE), Ranged(Get(P("e")), -1, 1, FALSE), Get(<<Slash>>),
                         [Ranged(Get(P("b")), 0, 0, FALSE) EXCEPT !.method = "HEAD"]}]

\* As kuyil-ide/ide.kyl does: first start, then mount.
Late == [calls |-> <<Start, Static(<<Slash>>, <<"pub">>)>>, requests |-> {Get(P("none"))}]
Remount == [calls |-> <<Call("server"), Static(<<>>, <<"docs">>), Start, Static(<<Slash>>, <<"pub">>)>>,
            requests |-> {Get(P("b"))}]
LateRules == [calls |-> <<Start, Bypass(P("api")), StaticAdd(P("api"), <<"docs">>), Call("bypassClear"),
                          [call |-> "route", method |-> "POST", path |-> P("up")], Call("cleanup")>>,
              requests |-> {Get(P("api") \o P("b")), Post(P("up"))}]

\* A second server after the first is freed.
Again == [calls |-> <<Start, Static(<<Slash>>, <<"pub">>), Call("cleanup"), Static(<<>>, <<"docs">>), Start>>,
          requests |-> {Get(P("a"))}]
Twice == [calls |-> <<Call("cleanup"), Call("listen"), Start, Start, Call("listen")>>, requests |-> {Get(P("b"))}]

TooMany == [calls |-> <<Start, Bypass(P("x")), Bypass(P("api")), StaticAdd(<<Slash>>, <<"docs">>), Bypass(P("y"))>>,
            requests |-> {Get(P("api"))}]

Uploads == <<Call("server"), Register("POST", P("up"), "h"), Start>>
Forms == [calls |-> Uploads,
          requests |-> {Form(<<Text("name", <<"v1", " ">>), Upload("doc", "f.txt", <<"data">>), Text("last", <<"v2">>)>>),
                        Form(<<Upload("doc", "f.txt", <<"data", CR, LF, "more">>), Text("name", <<>>)>>),
                        FormOf(<<Upload("doc", "f.txt", <<"data">>), Upload("pic", "g.txt", <<>>),
                                 Text("last", <<"v2", "\t">>)>>, <<LF>>)}]
Delayed == [calls |-> Uploads,
            requests |-> {[Form(<<Text("name", <<"v1">>)>>) EXCEPT !.early = FALSE],
                          [Form(<<Text("name", <<"v1">>)>>) EXCEPT !.spelling = "other"]}]

Bridged == <<Call("server"), Register("POST", <<Slash, "bridge", Slash, ":", "e">>, CFallback), Start>>
Endpoints == [calls |-> Bridged,
    requests |-> {Ask("mkdir", <<Member("path", <<"d", Slash, "n">>)>>),
                  Ask("delete", <<Member("path", <<"d">>)>>),
                  Ask("rename", <<Member("old", <<"d">>), Member("new", <<"m", Slash, "d">>)>>),
                  Ask("command", <<Member("filename", <<"d", Slash, "n">>), Member("content", <<"xx">>)>>)}]
Trees == [calls |-> Bridged,
    requests |-> {Ask("delete", <<Member("path", <<"t">>)>>), Ask("delete", <<Member("path", <<"t", Slash, "x">>)>>),
                  Ask("workspace", <<Member("name", <<"w", Slash, "sub">>)>>)}]
AllMethods == Bridged \o <<Register("GET", <<Slash, "bridge", Slash, ":", "e">>, CFallback),
                          Register("OPTIONS", <<Slash, "bridge", Slash, ":", "e">>, CFallback)>>
Runs == [calls |-> AllMethods,
         requests |-> {Get(Bridge("run")), Ask("generate", <<>>), Get(Bridge("list")),
                       [Get(Bridge("run")) EXCEPT !.method = "OPTIONS"]}]
Others == [calls |-> Bridged,
           requests |-> {Ask("none", <<>>), Ask("run", <<Member("filename", <<"a">>)>>),
                         Ask("read", <<Member("filename", <<"e">>)>>), Ask("mkdir", <<Member("path", <<"..">>)>>)}]
MCScenarios == {Sites, Prefixed, Ranges, Late, Remount, LateRules, TooMany, Again, Twice, Forms, Delayed, Endpoints, Trees, Runs, Others}
InDefault(name) == DefaultRoot \o <<Slash>> \o name
MCFiles == (<<"pub">> :> Dir) @@ (<<"pub", Slash, "a">> :> 3)
           @@ (<<"docs">> :> Dir) @@ (<<"docs", Slash, "b">> :> 3) @@ (<<"docs", Slash, "e">> :> 0)
           @@ (<<"docs", Slash, Index>> :> 1)
           @@ (<<"home">> :> Dir) @@ (<<"home", Slash, "w">> :> Dir) @@ (DefaultRoot :> Dir)
           @@ (InDefault(<<"t">>) :> Dir) @@ (InDefault(<<"t", Slash, "x">>) :> Dir)
           @@ (InDefault(<<"t", Slash, "x", Slash, "y">>) :> 1)
=============================================================================
