------------------------------ MODULE Libraries ------------------------------
(***************************************************************************)
(* vm_library_integration.c and library_loader.c: the libraries of a       *)
(* process, the functions bound to the methods of interfaces, the names    *)
(* they are called by, modules, mocks, and kuyil test, which runs one file *)
(* after another, each in a VM of its own, in one process. A name is a     *)
(* sequence of its parts: <<"kyl", i, m>>, <<i, m>>, <<"kyl", m>> and <<m>> *)
(* are symbols, <<i, ".", m>> is qualified. A function is <<path,          *)
(* generation of its mapping, symbol>>. Every call is made by the script's *)
(* thread with right arguments.                                            *)
(***************************************************************************)
EXTENDS Integers, Sequences, FiniteSets, SequencesExt

CONSTANTS
    Path,          \* shared libraries a script may name
    Symbols,       \* Path -> the symbols it exports; a file with none is missing
    LibraryName,   \* Path -> its name by derive_library_name
    Signatures,    \* Path -> methods <<i, m>> of kyl_interface_signature_text
    Snake, Camel,  \* method -> its spellings by to_snake_case, to_camel_case
    Module,        \* files of interfaces
    Blocks,        \* Module -> interface blocks
    Function,      \* names of Kuyil functions a file defines
    Value, Args,   \* what mocks answer; arguments of calls
    OwnInterface,  \* Module -> i of its file name interface_<i>.kyl, or ""
    Namespace,     \* names for import ... as
    Capacity,      \* initial size of g_dynamic_functions, 256 in the code
    MaxLibraries,  \* 32 in the code
    MaxAliases,    \* 512 in the code
    MaxSpaces,     \* MAX_INTERFACE_NAMES, 128 in the code
    MaxMocks,      \* 256 in the code
    MaxFiles,      \* bound: files of one kuyil test
    MaxSteps       \* bound: calls of a file

VARIABLES
    lib,     \* registries, mappings and namespaces, below
    mocks,   \* g_mocks
    answer,  \* what the last call answered
    steps, files,
    wild     \* freed or unmapped memory was used: anything may follow

vars == <<lib, mocks, answer, steps, files, wild>>

Builtin(n) == <<"kuyil", 0, n>>
Misread == <<"kuyil", 8, <<>>>>     \* no function: a signature read as a pointer
System == <<[name |-> <<"add_library">>, to |-> Builtin("add_library")]>>

(***************************************************************************)
(* registry   g_library_registry; handle is the generation of the mapping, *)
(*            0 if none                                                    *)
(* mapped     what dlopen and dlclose made of each path                    *)
(* functions  g_dynamic_functions                                          *)
(* room       its capacity                                                 *)
(* stale      names in g_function_hash_table that a cleanup has freed      *)
(* aliases    g_alias_bindings                                             *)
(* spaces     g_interface_names                                            *)
(* modules    g_imported_modules                                           *)
(* risk       freed memory was read in this call                           *)
(* cleared    clear_libraries has been called                              *)
(***************************************************************************)
NewVM(s) == [s EXCEPT !.functions = System, !.room = Capacity]

Nothing == [registry |-> <<>>, mapped |-> [p \in Path |-> [refs |-> 0, gen |-> 0]],
            functions |-> <<>>, room |-> 0, stale |-> {}, aliases |-> <<>>,
            spaces |-> {}, modules |-> {}, risk |-> FALSE, exited |-> FALSE, cleared |-> FALSE]

Init ==
    /\ lib = NewVM(Nothing) /\ mocks = <<>>
    /\ answer = "none" /\ steps = 0 /\ files = 1 /\ wild = FALSE

Live(s, to) == to[1] \in Path => s.mapped[to[1]].refs > 0 /\ s.mapped[to[1]].gen = to[2]

----------------------------------------------------------------------------
(* dlopen, dlclose and the registry *)

Open(s, i) ==
    LET p == s.registry[i].path
        g == s.mapped[p].gen + (IF s.mapped[p].refs = 0 THEN 1 ELSE 0)
    IN  IF Symbols[p] = {} THEN s
        ELSE [s EXCEPT !.mapped[p] = [refs |-> @.refs + 1, gen |-> g],
                       !.registry[i].handle = g, !.registry[i].loaded = TRUE]

CloseAll(s) ==
    LET held(p) == Cardinality({i \in DOMAIN s.registry : s.registry[i].path = p /\ s.registry[i].handle # 0})
    IN  [s EXCEPT !.mapped = [p \in Path |-> [@[p] EXCEPT !.refs = @ - held(p)]], !.registry = <<>>]

Entry(s, name) == SelectInSeq(s.registry, LAMBDA l : l.name = name)

Listed(s, name, path, optional) ==
    [s EXCEPT !.registry = Append(@, [name |-> name, path |-> path, loaded |-> FALSE,
                                      optional |-> optional, handle |-> 0])]

\* Only an entry that was never opened is opened.
DlopenOnly(s, p) ==
    LET known == Entry(s, LibraryName[p])
        t == IF known = 0 THEN Listed(s, LibraryName[p], p, TRUE) ELSE s
        i == Entry(t, LibraryName[p])
    IN  IF known = 0 /\ Len(s.registry) >= MaxLibraries THEN s
        ELSE IF ~t.registry[i].loaded /\ t.registry[i].handle = 0 THEN Open(t, i) ELSE t

----------------------------------------------------------------------------
(* Dynamic functions and aliases *)

Known(s, n) == \E i \in DOMAIN s.functions : s.functions[i].name = n
First(s, n) == SelectInSeq(s.functions, LAMBDA f : f.name = n)
Newest(s, n) == SelectLastInSeq(s.functions, LAMBDA f : f.name = n)
AliasNewest(s, n) == SelectLastInSeq(s.aliases, LAMBDA a : a.name = n)
Alias(s, n) == SelectInSeq(s.aliases, LAMBDA a : a.name = n)

\* A lookup that finds nothing newer compares names that were freed.
Looked(s, n) == [s EXCEPT !.risk = @ \/ (~Known(s, n) /\ n \in s.stale)]

Register(s, n, to) ==
    [s EXCEPT !.functions = Append(@, [name |-> n, to |-> to]),
              !.room = IF Len(s.functions) < @ THEN @ ELSE 2 * @]

\* Registering may move the functions while held, the caller's function,
\* points among them.
AddAliasUnregistered(s, n, target, to, held) ==
    IF Len(s.aliases) >= MaxAliases THEN s
    ELSE [s EXCEPT !.aliases = Append(@, [name |-> n, target |-> target, to |-> to])]

AddAlias(s, n, target, to, held) ==
    LET l == Looked(s, n)
        t == IF Known(s, n) THEN l
             ELSE LET r == Register(l, n, to)
                  IN  [r EXCEPT !.risk = @ \/ (held /\ r.room # s.room)]
    IN  IF Len(s.aliases) >= MaxAliases THEN t
        ELSE [t EXCEPT !.aliases = Append(@, [name |-> n, target |-> target, to |-> to])]

AddAliasIfMissing(s, n, target, to) ==
    IF Alias(s, n) # 0 THEN s ELSE AddAlias(s, n, target, to, TRUE)

\* The names dlsym is asked for, in their order.
Tried(i, m) ==
    LET k == Snake[m]
    IN  <<<<"kyl", i, m>>, <<"kyl", m>>, <<"kyl", i, k>>, <<"kyl", k>>, <<i, m>>, <<m>>, <<i, k>>, <<k>>>>

Dlsym(s, i, m) ==
    LET open == SelectSeq(s.registry, LAMBDA l : l.loaded /\ l.handle # 0)
        has(l, n) == n \in Symbols[l.path]
        libs == SelectSeq(open, LAMBDA l : \E k \in DOMAIN Tried(i, m) : has(l, Tried(i, m)[k]))
    IN  IF libs = <<>> THEN [found |-> FALSE, any |-> open # <<>>]
        ELSE LET l == Head(libs)
                 n == Head(SelectSeq(Tried(i, m), LAMBDA x : has(l, x)))
             IN  [found |-> TRUE, name |-> n, to |-> <<l.path, l.handle, n>>]

\* What was registered under a name of the method before any library is asked.
Registered(s, i, m) ==
    LET k == First(s, <<i, Snake[m]>>)
        l == First(s, <<"kyl", i, m>>)
    IN  IF k # 0 THEN k ELSE IF l # 0 THEN l ELSE First(s, <<m>>)

Qualified(i, m) == <<i, ".", m>>

\* The names a method is given, in every spelling.
Aliases(i, m, exported, target) ==
    LET bare == IF exported THEN <<>> ELSE <<<<m>>, <<Snake[m]>>, <<Camel[m]>>>>
    IN  <<Qualified(i, m)>> \o SelectSeq(bare, LAMBDA n : n # target)
        \o <<Qualified(i, Snake[m]), Qualified(i, Camel[m])>>

\* x are the names of its @alias, taken whether they are taken or not.
Bound(s, i, m, x, exported, f) ==
    LET target == s.functions[f].name
        to == s.functions[f].to
        t == FoldLeft(LAMBDA acc, n : AddAliasIfMissing(acc, n, target, to), s, Aliases(i, m, exported, target))
        extra == FlattenSeq([k \in DOMAIN x |-> (IF exported THEN <<>> ELSE <<<<x[k]>>>>) \o <<Qualified(i, x[k])>>])
    IN  FoldLeft(LAMBDA acc, n : AddAlias(acc, n, target, to, TRUE), t, extra)

\* bind_interface_method: with no library loaded at all nothing is bound and
\* that is a success; with some, a method that is in none ends the process.
Bind(s, i, m, x, exported) ==
    LET t == IF Cardinality(s.spaces) < MaxSpaces THEN [s EXCEPT !.spaces = @ \cup {i}] ELSE s
        f == Registered(t, i, m)
        d == Dlsym(t, i, m)
        n == IF exported THEN Qualified(i, m) ELSE d.name
        r == Register(t, n, d.to)
    IN  IF f # 0 THEN Bound(t, i, m, x, exported, f)
        ELSE IF d.found THEN Bound(r, i, m, x, exported, First(r, n))
        ELSE IF d.any THEN [t EXCEPT !.exited = TRUE] ELSE t

\* The methods a library announces are bound one by one.
Announced(s, path) ==
    FoldLeft(LAMBDA acc, e : IF acc.exited THEN acc ELSE Bind(acc, e[1], e[2], <<>>, TRUE), s, Signatures[path])

\* load_library: an optional library that is missing is a success.
Load(s, k) ==
    LET t == Open(s, k)
    IN  IF t.registry[k].handle = 0 THEN t ELSE Announced(t, t.registry[k].path)

\* interface i from p { methods }
Block(s, b) ==
    LET t == IF b.from \in Path THEN DlopenOnly(s, b.from) ELSE s
    IN  FoldLeft(LAMBDA acc, e : IF acc.exited THEN acc ELSE Bind(acc, b.i, e.m, e.aliases, b.exported), t, b.methods)

\* A file that ran to its end is a module.
Remembered(s, f) == IF s.exited THEN s ELSE [s EXCEPT !.modules = @ \cup {f}]

\* import: a module that was imported, by whichever VM, is not read again.
Imported(s, f) ==
    IF f \in s.modules THEN s
    ELSE Remembered(FoldLeft(LAMBDA acc, b : IF acc.exited THEN acc ELSE Block(acc, b), s, Blocks[f]), f)

\* import ... as: the loop over the aliases of the interface also meets the
\* ones it adds. Its cached function is handed over as a DynamicFunction, of
\* which it has not the layout.
NamedAliases(s, f, ns) ==
    LET i == OwnInterface[f]
        own == SelectSeq(s.aliases, LAMBDA a : a.name[1] = i /\ Len(a.name) = 3)
        room == MaxAliases - Len(s.aliases)
        more == IF ns = i /\ own # <<>>
                THEN [k \in 1 .. room |-> own[((k - 1) % Len(own)) + 1]] ELSE own
    IN  FoldLeft(LAMBDA acc, a : AddAlias(acc, Qualified(ns, a.name[3]), a.target, Misread, FALSE), s, more)

----------------------------------------------------------------------------
(* Calls *)

\* The newest entry of the hash table
ByTable(s, n) == IF Known(s, n) THEN s.functions[Newest(s, n)].to ELSE Misread

RECURSIVE Reached(_, _)
\* The function behind a name: its first alias, by the cached pointer or by
\* the name of its target, else by the hash table.
Reached(s, n) ==
    LET a == Alias(s, n)
    IN  IF a = 0 THEN ByTable(s, n)
        ELSE IF s.aliases[a].to # Misread \/ s.aliases[a].target = n THEN s.aliases[a].to
        ELSE Reached(s, s.aliases[a].target)

Mock(n) == SelectInSeq(mocks, LAMBDA k : k.name = n)
Matches(k, args) == mocks[k].when = <<>> \/ mocks[k].when = args

\* A mock answers in test mode if it has no condition or its condition holds;
\* call_dynamic_function asks again, not looking at the condition, unless the
\* name is an alias.
Mocked(n, args) ==
    Mock(n) # 0 /\ (Matches(Mock(n), args) \/ (Known(lib, n) /\ Alias(lib, n) = 0))

Step == ~wild /\ ~lib.exited /\ steps < MaxSteps /\ steps' = steps + 1

\* What was read of freed memory may have been harmless, or not.
Becomes(s) ==
    /\ Step
    /\ lib' = [s EXCEPT !.risk = FALSE]
    /\ wild' \in IF s.risk THEN BOOLEAN ELSE {FALSE}
    /\ answer' = "none"
    /\ UNCHANGED <<mocks, files>>

AddLibrary(p, optional) ==
    /\ Len(lib.registry) < MaxLibraries
    /\ Becomes(Listed(lib, LibraryName[p], p, optional))

LoadLibrary(name) ==
    /\ Entry(lib, name) # 0 /\ ~lib.registry[Entry(lib, name)].loaded
    /\ Becomes(Load(lib, Entry(lib, name)))

\* clear_libraries leaves the functions and aliases alone.
ClearLibraries == Becomes([CloseAll(lib) EXCEPT !.cleared = TRUE])

Import(f) == Becomes(Imported(lib, f))

ImportAs(f, ns) ==
    LET t == Imported(lib, f)
    IN  Becomes(IF t.exited \/ OwnInterface[f] = "" THEN t ELSE NamedAliases(t, f, ns))

\* A library's function goes before a function of the program with its name.
Answerer(s, n) == IF Known(s, n) THEN "library" ELSE "function"

\* A wrapper jumps to the pointer as it is.
Strays(s, to) == to = Misread \/ ~Live(s, to)

Call(n, args) ==
    /\ Step
    /\ IF Mocked(n, args)
       THEN /\ mocks' = [mocks EXCEPT ![Mock(n)].count = @ + 1]
            /\ answer' = [by |-> "mock", name |-> n, args |-> args, value |-> mocks[Mock(n)].value]
            /\ UNCHANGED <<lib, wild>>
       ELSE LET to == Reached(lib, n)
                s == Looked(lib, n)
            IN  /\ wild' \in IF s.risk THEN BOOLEAN
                             ELSE {Known(lib, n) /\ Strays(lib, to)}
                /\ answer' = [by |-> Answerer(lib, n), name |-> n, args |-> args, value |-> to]
                /\ UNCHANGED <<lib, mocks>>
    /\ UNCHANGED files

\* mock_return leaves a condition as it was, mock_function sets it.
SetMock(n, value, when, conditional) ==
    /\ Step
    /\ mocks' = IF Mock(n) # 0
                THEN [mocks EXCEPT ![Mock(n)] = [@ EXCEPT !.value = value, !.when = IF conditional THEN when ELSE @]]
                ELSE IF Len(mocks) >= MaxMocks THEN mocks
                ELSE Append(mocks, [name |-> n, count |-> 0, value |-> value, when |-> IF conditional THEN when ELSE <<>>])
    /\ answer' = "none"
    /\ UNCHANGED <<lib, files, wild>>

ClearMock(n) ==
    /\ Step /\ Mock(n) # 0
    /\ mocks' = RemoveAt(mocks, Mock(n))
    /\ answer' = "none"
    /\ UNCHANGED <<lib, files, wild>>

\* vm_cleanup_library_system and, for the next file, vm_init_library_system:
\* the hash table, the namespaces and the modules stay.
Cleaned(s) ==
    [CloseAll(s) EXCEPT !.stale = @ \cup {s.functions[i].name : i \in DOMAIN s.functions},
                        !.functions = <<>>, !.room = 0, !.aliases = <<>>, !.cleared = FALSE]

NextFile ==
    /\ ~wild /\ ~lib.exited /\ files < MaxFiles
    /\ files' = files + 1 /\ steps' = 0
    /\ lib' = NewVM(Cleaned(lib)) /\ mocks' = <<>> /\ answer' = "none"
    /\ UNCHANGED wild

Names == {lib.functions[i].name : i \in DOMAIN lib.functions} \cup Function

Next ==
    \/ \E p \in Path, optional \in BOOLEAN : AddLibrary(p, optional)
    \/ \E p \in Path : LoadLibrary(LibraryName[p])
    \/ ClearLibraries
    \/ \E f \in Module : Import(f) \/ \E ns \in Namespace : ImportAs(f, ns)
    \/ \E n \in Names \cup lib.stale, args \in Args : Call(n, args)
    \/ \E n \in Names, v \in Value, when \in Args, c \in BOOLEAN : SetMock(n, v, when, c)
    \/ \E n \in Names : ClearMock(n)
    \/ NextFile

Spec == Init /\ [][Next]_vars

----------------------------------------------------------------------------
(* Properties. *)

Held(p) == {i \in DOMAIN lib.registry : lib.registry[i].path = p /\ lib.registry[i].handle # 0}

\* vm_library_integration.c:1167, library_loader.c:522: until a script clears
\* the libraries, every dlopen has its entry, every alias is also a dynamic
\* function, and every name leads to code that is mapped, through failing
\* loads, full tables and from one file of kuyil test to the next.
NamesReachMapped ==
    ~wild /\ ~lib.cleared =>
      /\ \A p \in Path : lib.mapped[p].refs = Cardinality(Held(p))
      /\ \A i \in DOMAIN lib.aliases : Known(lib, lib.aliases[i].name)
      /\ \A i \in DOMAIN lib.functions : Live(lib, Reached(lib, lib.functions[i].name))

\* add_alias_if_missing: what a name of an interface stands for never changes
\* within a file, whatever is imported, aliased and loaded after it. (The
\* names of import ... as are looked up by their target's name every time.)
QualifiedStable ==
    [][\A i \in DOMAIN lib.aliases :
         LET n == lib.aliases[i].name
         IN  files' = files /\ Len(n) = 3 /\ lib.aliases[Alias(lib, n)].to # Misread
               => Reached(lib', n) = Reached(lib, n)]_vars

\* docs/INTERFACE_SYSTEM_GUIDE.md:86, "Allows importing multiple interfaces
\* with overlapping method names": a method of an interface is a function of
\* the interface's library. Refuted: the bare name the first interface gave
\* its method is found before the second interface's library is asked.
MethodsReachTheirLibrary ==
    \A f \in Module : \A k \in DOMAIN Blocks[f] :
      LET b == Blocks[f][k]
      IN  \A e \in ToSet(b.methods) :
            b.from \in Path /\ Alias(lib, Qualified(b.i, e.m)) # 0
              => Reached(lib, Qualified(b.i, e.m))[1] = b.from

\* vm_library_integration.c:297, "Args don't match, let real function run".
\* Refuted: call_dynamic_function looks the mock up again without its
\* condition.
UnmatchedRunsReal ==
    answer # "none" /\ answer.by = "mock" => Matches(Mock(answer.name), answer.args)
=============================================================================
