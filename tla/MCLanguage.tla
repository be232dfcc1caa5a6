----------------------------- MODULE MCLanguage -----------------------------
(***************************************************************************)
(* Programs to check the language on: small families that put every kind   *)
(* of expression and statement next to, and inside, every other.           *)
(***************************************************************************)
EXTENDS Language, FrontEnd

T == INSTANCE Sources

n == T!Id("n")
a == T!Id("a")
Num1(i) == T!N(i)
Set(x, e)    == T!Expr(T!Assign(T!Id(x), "=", e))
Plus(l, r)   == T!Bin("ADD", l, r)
Minus(l, r)  == T!Bin("SUBTRACT", l, r)
Below(l, r)  == T!Bin("LESS", l, r)
Say(e)       == T!Expr(T!Call(T!Id("print"), <<e>>))
CallOf(x, args) == T!Call(T!Id(x), args)

Written(scripts, end) == [scripts |-> scripts, modules |-> [x \in {} |-> <<>>], ends |-> end]
Program(scripts)      == Written(scripts, "newline")

(***************************************************************************)
(* Expressions: two operators over every choice of three atoms.            *)
(***************************************************************************)
Atoms == {T!N(1), T!N(0), T!S("s"), T!Truth(FALSE)}
Pairs == {T!Bin(op, l, r) : op \in {"ADD", "LESS", "AND", "MODULO"}, l \in Atoms, r \in Atoms}
Expressions ==
    {T!Bin(op, p, r) : op \in {"SUBTRACT", "EQUAL", "OR"}, p \in Pairs, r \in {T!N(1), T!S("s")}}
    \cup {T!Un(op, p) : op \in {"NOT", "NEGATE"}, p \in Pairs}
ExpressionPrograms ==
    {Program(<< <<Say(e)>> >>) : e \in Expressions}
    \cup {Program(<< <<T!Let("v", q), Say(T!Interpolated(<<"x", "y">>, <<T!Id("v")>>))>> >>) :
             q \in Pairs}

(***************************************************************************)
(* Statements: two in the body of f(n), which has the local a.             *)
(***************************************************************************)
Statements ==
    { Set("a", Plus(a, n)),
      T!If(Below(n, T!N(1)), T!Block(<<Set("a", T!N(5))>>),
           T!Block(<<T!Let("b", n), Set("a", Plus(T!Id("b"), T!Id("b")))>>)),
      T!While(Below(a, T!N(3)), T!Block(<<T!Let("c", Plus(a, T!N(1))), Set("a", T!Id("c"))>>)),
      T!For(T!Let("i", T!N(0)), Below(T!Id("i"), n), T!Assign(T!Id("i"), "+=", T!N(1)),
            Set("a", Plus(a, T!Id("i")))),
      T!Switch(n, << <<T!N(0), T!Block(<<Set("a", T!N(7))>>)>>,
                     <<T!N(1), T!Block(<<T!Block(<<T!Let("d", T!N(4)), Set("a", T!Id("d"))>>)>>)>> >>,
               T!Block(<<Set("a", T!N(9))>>)),
      T!Block(<<T!Let("a", T!N(8)), Say(a)>>),
      T!If(Below(a, n), T!Return(Plus(a, T!N(10))), T!None),
      T!Defer(CallOf("print", <<T!S("d"), a>>)),
      Set("a", Plus(a, T!Bin("MULTIPLY", CallOf("g", <<n, a>>), T!N(2)))),
      T!If(Below(T!N(0), n), Set("a", Plus(a, CallOf("f", <<Minus(n, T!N(1))>>))), T!None),
      Set("a", Plus(T!Await(T!Launch(CallOf("g", <<n, a>>))), T!N(1))),
      T!Block(<<T!Let("x", T!ArrayLit(<<a, n>>)),
                T!Expr(T!Assign(T!At(T!Id("x"), T!N(1)), "=", T!N(4))),
                T!Expr(T!Assign(T!ArrayLit(<<a, T!Id("x")>>), "=", T!Id("x"))),
                Set("a", Plus(a, T!Id("x")))>>) }

G == T!Function("g", <<"p", "q">>,
        <<T!Let("r", Plus(T!Id("p"), T!Id("q"))),
          T!If(Below(T!N(1), T!Id("r")), T!Return(T!Id("r")), T!None),
          T!Return(T!N(0))>>)
F(ss) == T!Function("f", <<"n">>, <<T!Let("a", T!N(1))>> \o ss \o <<T!Return(a)>>)
StatementPrograms ==
    {Program(<< <<G, F(<<s, t>>), T!Expr(CallOf("print", <<T!N(1), CallOf("f", <<T!N(i)>>)>>))>> >>) :
        s \in Statements, t \in Statements, i \in {0, 2}}

(***************************************************************************)
(* Structs, methods, arrays and objects.                                   *)
(***************************************************************************)
p == T!Id("p")
Send(o, m, args) == T!Call(T!Member(o, m), args)
Twice(e)   == T!Bin("MULTIPLY", e, T!N(2))
Point      == << T!StructDecl("Pt", <<"x", "y">>),
                 T!Method("Pt", "sum", <<"k">>,
                     <<T!Return(Plus(T!Member(T!Id("this"), "x"), T!Id("k")))>>),
                 T!Method("Pt", "twice", <<"k">>,
                     <<T!If(Below(T!Id("k"), T!N(2)),
                            T!Return(Plus(Send(T!Id("this"), "sum", <<T!Id("k")>>), T!N(1))),
                            T!None)>>),
                 T!Let("p", T!StructLit("Pt", << <<"x", T!N(1)>>, <<"y", T!S("v")>> >>)) >>
Uses == { Say(Send(p, "sum", <<T!N(2)>>)), Say(Send(p, "twice", <<T!N(1)>>)),
          Say(Send(p, "twice", <<T!N(2)>>)), Say(Send(p, "toJSON", <<>>)),
          Say(Send(p, "toYAML", <<>>)), Say(p),
          Say(T!Call(T!Id("Pt_fromJSON"), <<p>>)), Say(CallOf("typeof", <<p>>)),
          T!Expr(T!Assign(T!Member(p, "x"), "=", T!N(5))),
          T!Expr(T!Assign(T!Member(p, "y"), "=", T!ArrayLit(<<T!N(1), p>>))),
          Say(T!Member(p, "z")), Say(T!At(p, T!S("x"))), Say(Send(p, "gone", <<>>)) }
ObjectPrograms == {Program(<<Point \o <<u, v, Say(T!N(0))>>, <<Say(T!Member(p, "x"))>> >>) :
                      u \in Uses, v \in Uses}

xs == T!Id("xs")
ArrayUses == { Say(xs), Say(CallOf("array_length", <<xs>>)), Say(T!Member(xs, "length")),
               Say(Plus(xs, T!ArrayLit(<<T!S("c")>>))), Say(T!At(xs, T!N(2))),
               T!Expr(T!Assign(T!At(xs, T!N(0)), "=", T!N(6))),
               T!Let("ys", xs), T!Expr(T!Assign(T!At(T!Id("ys"), T!N(1)), "=", T!N(3))),
               T!Expr(T!Assign(xs, "+=", T!ArrayLit(<<T!N(1)>>))),
               T!For(T!Let("i", T!N(0)), Below(T!Id("i"), CallOf("array_length", <<xs>>)),
                     T!Assign(T!Id("i"), "+=", T!N(1)), Say(T!At(xs, T!Id("i")))),
               Say(CallOf("__range", <<T!N(1), T!N(3)>>)),
               Say(T!ObjectLit(<< <<"k", xs>> >>)), Say(T!ObjectLit(<<>>)) }
ArrayPrograms == {Program(<< <<T!Let("xs", T!ArrayLit(<<T!N(1), T!N(2)>>)), u, v>>, <<Say(xs)>> >>) :
                     u \in ArrayUses, v \in ArrayUses}

(***************************************************************************)
(* Sessions: scripts after one another, some of which fail deep in calls;  *)
(* pools of constants that need the wide instructions.                     *)
(***************************************************************************)
Deep == T!Function("deep", <<"n">>,
          << T!Let("k", Plus(n, T!N(1))),
             T!If(Below(n, T!N(1)), Say(T!Bin("DIVIDE", T!N(1), n)), T!None),
             T!Return(Plus(T!Id("k"), CallOf("deep", <<Minus(n, T!N(1))>>))) >>)
Sessions ==
    { <<Say(T!S("one")), T!Let("x", T!N(1)), Deep>>, <<Say(CallOf("deep", <<T!N(2)>>))>>,
      <<Say(CallOf("deep", <<T!N(9)>>))>>, <<Say(T!Id("x")), Set("x", Plus(T!Id("x"), T!N(1)))>>,
      <<T!Block(<<T!Let("x", T!N(7)), T!Let("z", T!Id("x")), Say(T!Id("z"))>>), Say(T!Id("x"))>> }
SessionPrograms == {Program(<<s, t, u>>) : s \in Sessions, t \in Sessions, u \in Sessions}

\* The constants before the last statement do not fit a byte.
Long(ss) == [i \in 1 .. 6 |-> Say(T!N(i))] \o ss
LongPrograms ==
    { Program(<< <<T!Let("x", T!N(3)), G>> \o
                 Long(<<T!Let("y", T!Id("x")), Set("y", Plus(T!Id("y"), e)), Say(T!Id("y"))>>),
                 <<Say(T!Id("y"))>> >>) :
        e \in {T!N(1), CallOf("g", <<T!N(1), T!N(1)>>), T!Id("none"),
               T!Member(T!Id("lib"), "x"), CallOf("typeof", <<T!Id("x")>>)} }
    \cup { Program(<<Long(<<G, Say(CallOf("g", <<T!N(1), T!N(2)>>))>>)>>) }

(***************************************************************************)
(* Avatars: two at a time, some of which fail; what one of them prints is  *)
(* not set against what others print.                                      *)
(***************************************************************************)
Work(ss) == T!Function("w", <<"n">>, <<T!Let("a", n)>> \o ss \o <<T!Return(a)>>)
AvatarWork ==
    { Set("a", Plus(a, T!N(1))),
      Set("a", Plus(a, CallOf("h", <<n>>))),
      T!While(Below(a, T!N(2)), Set("a", Plus(a, T!N(1)))),
      T!If(Below(a, T!N(1)), Set("a", T!N(4)), Set("a", T!N(5))),
      Set("a", T!Bin("MODULO", a, n)),
      Set("a", Plus(a, T!Id("x"))),
      T!If(n, Set("a", T!N(6)), T!None),
      Set("a", T!Bin("OR", n, T!Bin("AND", a, T!N(3)))),
      Set("a", Plus(a, CallOf("q", <<n>>))),
      T!Defer(CallOf("print", <<n>>)),
      Set("a", T!Id("empty")),
      Set("a", T!Await(T!Launch(CallOf("h", <<n>>)))),
      T!Block(<<T!Let("z", T!ArrayLit(<<n, a>>)), Set("a", T!At(T!Id("z"), T!N(0))),
                T!Let("o", T!StructLit("Q", << <<"k", T!Id("z")>> >>)),
                Set("a", CallOf("array_length", <<T!Member(T!Id("o"), "k")>>))>>) }
Later == T!Function("h", <<"n">>, <<T!Let("b", T!N(2)), T!Return(Plus(n, T!Id("b")))>>)
\* At most as many branches are skipped as cells are reserved.
Skips(times) == T!Function("q", <<"n">>,
    <<T!Let("b", T!N(2))>> \o [i \in 1 .. times |-> T!If(n, Set("b", Plus(T!Id("b"), n)), T!None)]
    \o <<T!Return(Plus(n, T!Id("b")))>>)
Given == <<T!Let("x", T!N(3)), T!Let("empty", T!Lit(Nil)), Later, Skips(2)>>
Both(e, d) == << T!Let("t", T!Launch(CallOf("w", <<e>>))), T!Let("u", T!Launch(CallOf("w", <<d>>))),
                 Say(T!Await(T!Id("u"))), Say(T!Await(T!Id("t"))) >>
AvatarPrograms ==
    { Program(<< Given \o <<Work(<<s>>)>>, Both(T!N(1), T!N(2)) >>) : s \in AvatarWork }
    \cup { Program(<< Given \o <<Work(<<s, t>>)>>,
                      <<Say(T!Await(T!Launch(CallOf("w", <<e>>))))>> >>) :
            s \in AvatarWork, t \in AvatarWork, e \in {T!N(0), T!N(1), T!N(2)} }
    \cup { Program(<< Given \o <<Work(<<s>>)>>, <<Say(T!Await(T!Launch(CallOf("w", <<>>))))>> >>) :
            s \in AvatarWork }
    \cup { Program(<< Point, <<Work(<<Set("a", Send(p, "sum", <<n>>))>>)>>,
                      <<Say(T!Await(T!Launch(CallOf("w", <<T!N(1)>>))))>> >>) }

(***************************************************************************)
(* Code called back by the library, modules, and what ends in an error.    *)
(***************************************************************************)
WithModule(scripts, ss) ==
    [scripts |-> scripts, modules |-> [x \in {"m"} |-> ss], ends |-> "newline"]
Bring   == T!Expr(CallOf("import", <<T!S("m")>>))
BackTo(f, args) == T!Expr(Send(T!Id("lib"), "apply", <<f>> \o args))
Shout   == T!Function("shout", <<"n">>, <<Say(n), T!Return(n)>>)
ModuleBody == <<T!Let("mx", T!N(5)), T!Function("mf", <<"n">>, <<T!Let("k", n), T!Return(T!Id("k"))>>),
                Say(T!S("m"))>>
HostPrograms ==
    { WithModule(<< <<Say(T!N(0)), Bring, Say(T!Id("mx")), Say(CallOf("mf", <<T!N(2)>>))>>,
                    <<Bring, Say(T!Id("mx"))>> >>, ModuleBody),
      WithModule(<< <<Say(T!N(0)), Bring>>, <<Say(T!Id("mx"))>> >>,
                 ModuleBody \o <<Say(T!Id("none"))>>),
      Program(<< <<Shout, BackTo(T!Id("shout"), <<T!N(3)>>)>>, <<Say(T!N(1))>> >>),
      Program(<< <<T!Function("quiet", <<"n">>, <<Say(n)>>), BackTo(T!Id("quiet"), <<T!N(3)>>),
                   Say(T!Id("none"))>>, <<Say(T!N(1))>> >>),
      Program(<< <<Say(T!N(1)), T!Expr(Send(T!Id("lib"), "gone", <<>>))>>, <<Say(T!N(2))>> >>),
      Program(<< <<T!Function("w", <<"n">>, <<T!While(Below(n, T!N(20)), Set("n", Plus(n, T!N(1)))),
                                              T!Return(T!Bin("DIVIDE", n, T!N(0)))>>),
                   T!Let("t", T!Launch(CallOf("w", <<T!N(0)>>))),
                   Say(T!Await(T!Id("t"))), T!Expr(T!Await(T!None))>> >>),
      Program(<< <<T!Function("w", <<"n">>, <<T!Defer(CallOf("print", <<n>>)),
                                              T!Return(T!Bin("DIVIDE", n, T!N(0)))>>),
                   Say(T!Await(T!Launch(CallOf("w", <<T!N(1)>>))))>>, <<Say(T!N(2))>> >>),
      Program(<< <<T!Expr(CallOf("log_info", <<T!S("x")>>)), Say(T!N(1))>> >>) }

(***************************************************************************)
(* What the parser rewrites, ended by newlines and by semicolons.          *)
(***************************************************************************)
Each(x, e, ss) == T!ForEach(x, e, T!Block(ss))
Sweet ==
    { Each("e", T!ArrayLit(<<n, T!N(2)>>), <<Set("a", Plus(a, T!Id("e")))>>),
      Each("e", T!Span(T!N(0), n), <<Each("d", T!Span(T!Id("e"), Plus(n, T!N(1))),
                                           <<Set("a", Plus(a, T!Id("d")))>>)>>),
      Each("e", T!ArrayLit(<<T!N(1), T!N(5)>>),
           <<T!If(Below(n, T!Id("e")), T!Return(T!Id("e")), T!None)>>),
      T!Expr(T!Bump("a", "++")), Set("a", Plus(T!Bump("n", "--"), a)),
      T!Expr(T!Assign(T!ArrayLit(<<a, n>>), "=", CallOf("two", <<a>>))),
      T!Let("h", T!Fn(<<"z">>, T!Block(<<T!Return(Plus(T!Id("z"), T!N(3)))>>))),
      Set("a", T!Bin("MULTIPLY", Minus(a, Plus(n, T!N(1))), T!Un("NEGATE", Minus(n, T!N(4))))),
      T!If(Below(a, n), Set("a", T!N(6)), T!If(Below(n, a), Set("a", T!N(7)), Set("a", T!N(8)))) }
Two == T!Function("two", <<"n">>, <<T!ReturnAll(<<Plus(n, T!N(1)), n>>)>>)
SugarPrograms ==
    { Written(<< <<Two, T!Decorated("route", T!S("/f"), F(<<s, t>>)),
                   T!Expr(CallOf("print", <<T!N(1), CallOf("f", <<T!N(2)>>)>>))>> >>,
              end) : s \in Sweet, t \in Sweet, end \in {"newline", ";"} }
    \cup { Written(<< <<Shout, T!Interface("lib", path, <<[x |-> "apply", params |-> <<"f", "x">>, aliases |-> al],
                                                    [x |-> "gone", params |-> <<>>, aliases |-> <<>>]>>),
                        BackTo(T!Id("shout"), <<T!N(3)>>)>>,
                      <<Say(T!N(1)), T!Expr(Send(T!Id("lib"), "gone", <<>>))>> >>, "newline") :
               path \in {"", "lib.so"}, al \in {<<>>, <<T!S("run"), T!S("use")>>} }

(***************************************************************************)
(* Scripts with a damaged statement, before, after and inside others.      *)
(***************************************************************************)
Sy(k) == T!Sym(k)
Wd(x) == T!Word(x)
True1 == T!Sym("true")
DamagedTexts ==
    { <<Sy("let"), Sy("="), True1>>, <<Wd("x"), Sy("=")>>, <<Sy("("), True1>>, <<Sy("["), True1, Sy(",")>>,
      <<True1, Sy("+")>>, <<Sy("defer"), True1>>, <<Sy("avatar"), True1>>, <<Wd("x"), Sy("as"), Wd("y")>>,
      <<Sy("export"), True1>>, <<Sy("export"), Sy("fn"), True1>>, <<Sy("fn"), Wd("h"), Sy("("), Wd("a"), Sy("{"), Sy("}")>>,
      <<Sy("if"), Sy("{"), Sy("}")>>, <<Sy("switch"), True1, Sy("{"), True1, Sy("}")>>,
      <<Wd("x"), Sy("."), True1>>, <<True1, Sy("++")>>, <<Sy("struct"), Sy("{"), Wd("a"), Sy("}")>>,
      <<Sy("for"), Sy("("), Sy(";"), Sy(";"), Sy("{"), Sy("}")>>,
      <<Sy("@"), Wd("route"), Wd("x")>>, <<Sy("interface"), Sy("{"), Sy("}")>>,
      <<Wd("p"), Sy("("), Sy("{"), True1, Sy(":"), True1, Sy("}"), Sy(")")>> }
DamagedPrograms ==
    { Program(<< <<Say(T!N(1))>>, ss, <<Say(T!N(2))>> >>) :
        ss \in UNION { { <<T!Damaged(d)>>, <<T!Damaged(d), Say(T!N(5))>>,
                          <<Say(T!N(5)), T!Damaged(d), T!Let("q", T!N(1))>> } : d \in DamagedTexts } }

AllPrograms ==
    LET written == ExpressionPrograms \cup StatementPrograms \cup ObjectPrograms
                   \cup ArrayPrograms \cup SessionPrograms \cup LongPrograms
                   \cup AvatarPrograms \cup HostPrograms \cup SugarPrograms
                   \cup DamagedPrograms
    IN  {Built(q) : q \in written}

(***************************************************************************)
(* Programs the properties do not hold of (README, section 7): a function  *)
(* that defers a call of another one, and a switch written as in           *)
(* docs/conditionals.md whose case declares a variable, or ends a          *)
(* statement with a semicolon; and a call in an avatar that skips more     *)
(* branches than it has cells in reserve.                                  *)
(***************************************************************************)
DeferredPrograms ==
    LET defers(f) == F(<<T!Defer(CallOf(f, <<n>>)), Set("a", Plus(a, n))>>)
    IN  {Built(Program(<< <<Shout, defers(f), Say(CallOf("f", <<T!N(2)>>))>> >>)) :
            f \in {"print", "shout"}}

\* A call in an avatar that skips one branch more than cells are reserved.
SkippingPrograms ==
    LET written == { Program(<< <<Skips(times), Work(<<Set("a", CallOf("q", <<n>>))>>)>>,
                                <<Say(T!Await(T!Launch(CallOf("w", <<T!N(0)>>))))>> >>) :
                        times \in {2, 3} }
    IN  {Built(q) : q \in written}

SwitchPrograms ==
    LET cases(s) == T!Switch(n, << <<T!N(1), T!Block(<<s>>)>>, <<T!N(2), T!Block(<<Say(n)>>)>> >>,
                             T!Block(<<Say(T!N(0))>>))
    IN  {Built(Written(<< <<T!Let("n", T!N(2)), cases(s)>> >>, end)) :
            s \in {Say(n), T!Let("k", n)}, end \in {"newline", ";"}}
=============================================================================
