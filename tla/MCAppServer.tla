----------------------------- MODULE MCAppServer -----------------------------
(* Scripts that register early, late, and too much, and the requests that    *)
(* matter under each; see MCAppServer.cfg for the limits.                    *)
EXTENDS AppServer

CONSTANTS c1, c2

P(name) == <<Slash, name>>
Param(name) == <<Slash, ":", name>>
CallTo(name) == [call |-> name]
Define1(name) == [call |-> "define", name |-> name]
Mount(prefix, directory) == [call |-> "mount", prefix |-> prefix, directory |-> directory]
Reg(method, path, handler) == [call |-> "register", route |-> Route(method, path, handler, FALSE)]
Decorator(name, texts, method, path) ==
    [name |-> name, texts |-> texts, method |-> method, path |-> path, bridge |-> TRUE]
Entity(name, decorators) == [name |-> name, decorators |-> decorators]
Load(entities) == [call |-> "interpret", entities |-> entities]

Get(path) == [method |-> "GET", path |-> path, query |-> <<>>, length |-> None, chunked |-> FALSE,
              body |-> <<>>, cuts |-> {}, mayHangUp |-> FALSE]
Post(path, body) == [Get(path) EXCEPT !.method = "POST", !.length = Len(body), !.body = body]

Cut(request) == [request EXCEPT !.cuts = 1 .. 3 + Len(request.body)]
Leaving(request) == [request EXCEPT !.mayHangUp = TRUE]
\* Which client sends what makes no difference.
Pairs(requests) ==
    UNION {{c1 :> requests[i] @@ c2 :> requests[j] : j \in i .. Len(requests)} : i \in DOMAIN requests}

Beside(request, requests) == {c1 :> request @@ c2 :> requests[i] : i \in DOMAIN requests}

MCFiles == [p \in {<<<<"pub">>, <<"index.html">>>>, <<<<"pub">>, <<"big">>>>, <<<<"img">>, <<"s">>>>} |-> "text"]
           @@ [p \in {<<<<"pub">>, <<"logo">>>>} |-> "zero"]
           @@ [p \in {<<<<"pub">>>>, <<<<"img">>>>, <<<<"pub">>, <<"dir">>>>} |-> "folder"]
           @@ [p \in {<<<<"pub">>, <<"film">>>>} |-> "large"]
           @@ [p \in {<<<<"pub">>, <<"dir">>, <<"index.html">>>>} |-> "text"]

\* As kuyil-ide/ide.kyl: decorated functions, an import, the server, its mount.
Ide == [calls |-> <<Load(<<Entity("root", <<Decorator("route", <<>>, "GET", <<Slash>>)>>),
                           Entity("save", <<Decorator("log", <<>>, "GET", <<>>),
                                            Decorator("route", <<"POST", P("save")>>, "GET", <<>>)>>)>>),
                    Load(<<Entity("list", <<Decorator("route", <<P("list")>>, "GET", <<>>)>>)>>),
                    Define1("root"), CallTo("start"), Define1("list"), Mount(<<Slash>>, <<<<"pub">>>>)>>,
        traffic |-> Pairs(<<Get(<<Slash>>), Get(P("list") \o <<Slash>>), [Get(<<"*">>) EXCEPT !.query = <<<<"k", "v">>, <<"k">>>>]>>)]

Sites == [calls |-> <<Mount(<<Slash>>, <<<<"img">>>>), Reg("GET", P("img"), "h"), Define1("h"), CallTo("start"), CallTo("start"),
                      Mount(P("img"), <<<<"img">>>>), Mount(<<Slash>>, <<<<"pub">>>>), Mount(<<>>, <<<<"none">>>>)>>,
          traffic |-> Pairs(<<Get(P("img") \o <<"s">>), Get(P("dir")), Get(P("logo")), Get(P("film") \o <<Slash>>), Get(P("film")),
                        Get(P("dir") \o <<Slash>>)>>)]

Paths == [calls |-> <<Reg("POST", P("u") \o Param("id"), "a"), Reg("GET", P("u") \o Param("id"), "b"), Define1("b"), Define1("c"),
                      CallTo("start"), Reg("*", Param("x") \o Param("y"), "c"), Reg("GET", P("u") \o P("me"), "a")>>,
          traffic |-> Pairs(<<Get(P("u") \o P("me")), Get(P("v") \o <<Slash>> \o P("2")), Get(P("u") \o P("7") \o P("2")),
                        Post(P("u") \o P("3"), <<"x">>)>>)]

Late == [calls |-> <<CallTo("start"), Define1("h"), Reg("GET", P("a"), "h")>>, traffic |-> Pairs(<<Get(P("a"))>>)]

Bodies == [calls |-> <<Reg("POST", P("a"), "h"), Define1("h"), CallTo("start")>>,
           traffic |-> Beside(Get(P("a")), <<Leaving(Cut(Post(P("a"), <<"x", "y", "z">>))), Cut(Post(P("a"), <<"x", "y">>)),
                               [Cut(Post(P("a"), <<"x">>)) EXCEPT !.length = None], Leaving(Post(P("a"), <<Zero, "y">>)),
                               Post(P("a"), <<"1", "2", "3", "4", "5">>)>>)]

Chunked(path, body) == [Leaving(Cut(Post(path, body))) EXCEPT !.length = None, !.chunked = TRUE]
Chunks == [calls |-> <<Reg("POST", P("a"), "h"), Define1("h"), CallTo("start")>>,
           traffic |-> Beside(Get(P("a")), <<Chunked(P("a"), <<"2", "xy", LastChunk>>),
                               Chunked(P("a"), <<"2", "xy", "2", "xy", "2", "xy", LastChunk>>)>>)]

Ask(name, method, path) == [call |-> name, method |-> method, path |-> path]
Questions == [calls |-> <<Ask("find", "GET", P("a")), Reg("GET", P("a"), "h"), Ask("find", "GET", P("a")), CallTo("list"),
                          [call |-> "params", pattern |-> Param("id"), path |-> P("7")],
                          Ask("bridge", "GET", P("b")) @@ [avatar |-> FALSE], Ask("bridge", "GET", P("a")) @@ [avatar |-> FALSE],
                          Ask("bridge", "GET", P("a")) @@ [avatar |-> TRUE], Define1("h"),
                          Ask("bridge", "GET", P("a")) @@ [avatar |-> TRUE]>>,
              traffic |-> Pairs(<<Get(P("a"))>>)]

MCScenarios == {Ide, Sites, Paths, Late, Bodies, Chunks, Questions}
==============================================================================
