------------------------------- MODULE Parser -------------------------------
(***************************************************************************)
(* The recursive-descent parser of src/parser.c.  The lexer's stream ends  *)
(* with an "eof" token.  The Parser struct is a record p:                  *)
(*   toks, at   the tokens and the position of the current one             *)
(*   err        had_error: something was reported                          *)
(*   panic      panic_mode: nothing is reported until synchronize          *)
(*   plain      suppress_struct_literal: `x {` starts no struct literal    *)
(*   loops      the static counter that names the variables of for..in     *)
(*   stuck      a loop of the parser made no progress: it would never end  *)
(*   e          what the function that returned p has built                *)
(* A parsing function takes p and gives the p it leaves.                   *)
(***************************************************************************)
EXTENDS Syntax, SequencesExt

Reading(toks) ==
    [toks |-> toks, at |-> 1, err |-> FALSE, panic |-> FALSE, plain |-> FALSE,
     loops |-> 0, stuck |-> FALSE, e |-> None]

(***************************************************************************)
(* Looking at tokens and taking them.                                      *)
(***************************************************************************)
IsWord(t, x)  == t.k = "identifier" /\ t.x = x
TokenAt(p, i) == IF i \in 1 .. Len(p.toks) THEN p.toks[i] ELSE Sym("eof")
Cur(p)        == TokenAt(p, p.at)
Previous(p)   == IF p.at = 1 THEN Sym("error") ELSE p.toks[p.at - 1]
AtEnd(p)      == Cur(p).k = "eof"
Check(p, k)   == ~ AtEnd(p) /\ Cur(p).k = k
Advance(p)    == IF AtEnd(p) THEN p ELSE [p EXCEPT !.at = @ + 1]
Match(p, k)   == IF Check(p, k) THEN Advance(p) ELSE p

\* Nothing is reported in panic mode.
ErrorAt(p)    == IF p.panic THEN p ELSE [p EXCEPT !.panic = TRUE, !.err = TRUE]

\* A token that is not the expected one is reported and stays the current
\* one; its text is taken all the same.
Consume(p, k) == IF Cur(p).k = k THEN Advance(p) ELSE ErrorAt(p)
Text(p)       == Cur(p).x
Name(p)       == [Consume(p, "identifier") EXCEPT !.e = Text(p)]

Give(p, e)    == [p EXCEPT !.e = e]

RECURSIVE SkipNewlines(_)
SkipNewlines(p) == IF Check(p, "newline") THEN SkipNewlines(Advance(p)) ELSE p

\* Panic ends here.  Nothing is skipped right after a semicolon or a newline,
\* nor in front of a keyword that starts a statement.
RECURSIVE Resume(_)
Resume(p) ==
    IF \/ AtEnd(p) \/ Previous(p).k \in {";", "newline"}
       \/ Cur(p).k \in {"fn", "let", "for", "if", "while", "return"}
    THEN p ELSE Resume(Advance(p))
Synchronize(p) == Resume([p EXCEPT !.panic = FALSE])

ErrorNode == [k |-> "error"]

RECURSIVE Binary(_, _), Assignment(_), Block1(_, _), Stmt(_), Declaration(_), Call1(_), Primary(_),
          Unary(_), Pairs(_, _), Elements(_, _, _), Params(_, _, _), Decorators(_, _)

Expression(p) == Assignment(p)

(***************************************************************************)
(* Lists in brackets, newlines and a trailing comma allowed: arguments,    *)
(* array elements, and the pairs of a map, which a bad key breaks off.     *)
(***************************************************************************)
Elements(p, close, es) ==
    LET q == SkipNewlines(p)
        v == Expression(q)
        r == Give(SkipNewlines(v), Append(es, v.e))
    IN  IF Check(q, close) THEN Give(q, es)
        ELSE IF Check(r, ",") THEN Elements(Advance(r), close, r.e) ELSE r

Pairs(p, ps) ==
    LET q == SkipNewlines(p)
        k == SkipNewlines(Advance(q))
        v == Expression(SkipNewlines(Consume(k, ":")))
        r == Give(SkipNewlines(v), Append(ps, <<Text(q), v.e>>))
    IN  IF Check(q, "}") THEN Give(q, ps)
        ELSE IF Cur(q).k \notin {"string", "identifier"} THEN Give(ErrorAt(q), ps)
        ELSE IF Check(r, ",") THEN Pairs(Advance(r), r.e) ELSE r

Closed(p, close) == Consume(SkipNewlines(p), close)
MapLiteral(p)    == LET r == Pairs(p, <<>>) IN Give(Closed(r, "}"), ObjectLit(r.e))
ArrayLiteral(p)  == LET r == Elements(p, "]", <<>>) IN Give(Closed(r, "]"), ArrayLit(r.e))

\* What stands in ${ } becomes an identifier, whatever it is.
InterpolatedString(x) == Interpolated(x.parts, [i \in 1 .. Len(x.es) |-> Id(x.es[i])])

(***************************************************************************)
(* Functions: parameters between parentheses, with decorators where they   *)
(* are allowed, and a block.                                               *)
(***************************************************************************)
Params(p, xs, decorated) ==
    LET n == Name(IF decorated THEN Decorators(p, 0) ELSE p)
        r == Give(n, Append(xs, n.e))
    IN  IF Check(r, ",") THEN Params(Advance(r), r.e, decorated) ELSE r

ParamList(p, decorated) ==
    LET open == Consume(p, "(")
        xs   == IF Check(open, ")") THEN Give(open, <<>>) ELSE Params(open, <<>>, decorated)
    IN  Consume(xs, ")")

BlockStatement(p) == LET r == Block1(p, <<>>) IN Give(Consume(r, "}"), Block(r.e))

AnonymousFunction(p) ==
    LET ps == ParamList(p, FALSE)
        b  == BlockStatement(Consume(ps, "{"))
    IN  Give(b, Fn(ps.e, b.e))

\* avatar f(args), avatar fn() { } or avatar () { }; after the keyword.
AvatarOf(p, Operand(_)) ==
    IF Check(p, "fn") \/ Check(p, "(")
    THEN LET f == AnonymousFunction(Match(p, "fn")) IN Give(f, Launch(f.e))
    ELSE LET c == Operand(p)
         IN  Give(IF c.e.k = "call" THEN c ELSE ErrorAt(c), Launch(c.e))

AvatarStatement(p) == AvatarOf(p, Expression)

\* As an expression, the call comes without what may follow it.
AvatarExpression(p) == AvatarOf(p, LAMBDA q : Call1(Primary(q)))

\* await without an operand stands for nil; its operand is a primary.
AwaitExpr(p) ==
    IF Cur(p).k \in {";", "newline", ")"} THEN Give(p, Await(None))
    ELSE LET h == Primary(p) IN Give(h, Await(h.e))

Primary(p) ==
    LET t == Cur(p)
        q == Advance(p)
    IN  CASE t.k \in {"true", "false"}     -> Give(q, Truth(t.k = "true"))
          [] t.k = "nil"                   -> Give(q, Lit(Nil))
          [] t.k = "number"                -> Give(q, N(t.x))
          [] t.k \in {"string", "backtick"} -> Give(q, S(t.x))
          [] t.k = "interpolated"          -> Give(q, InterpolatedString(t.x))
          [] t.k = "identifier"            -> Give(q, Id(t.x))
          [] t.k = "("                     -> LET e == Expression(q) IN Consume(e, ")")
          [] t.k = "@"                     -> Give(Consume(q, "identifier"), Id("@" \o Text(q)))
          [] t.k = "fn"                    -> AnonymousFunction(q)
          [] t.k = "avatar"                -> AvatarExpression(q)
          [] t.k = "await"                 -> AwaitExpr(q)
          [] t.k = "["                     -> ArrayLiteral(q)
          [] t.k = "{"                     -> MapLiteral(q)
          [] OTHER                         -> Give(ErrorAt(p), ErrorNode)

(***************************************************************************)
(* What may follow an expression: calls, struct literals, members,         *)
(* elements, ++ and --.  `x {` is a struct literal only when a name and a  *)
(* colon follow the brace.                                                 *)
(***************************************************************************)
StartsStruct(p) ==
    LET q == SkipNewlines(Advance(p))
    IN  /\ ~ p.plain /\ p.e.k = "identifier" /\ Check(p, "{")
        /\ Check(q, "identifier") /\ TokenAt(q, q.at + 1).k = ":"

RECURSIVE StructFields(_, _)
StructFields(p, ps) ==
    LET q == SkipNewlines(p)
        n == SkipNewlines(Name(q))
        v == Expression(SkipNewlines(Consume(n, ":")))
        r == Give(SkipNewlines(v), Append(ps, <<n.e, v.e>>))
    IN  IF Check(q, "}") THEN Give(q, ps)
        ELSE IF Check(r, ",") THEN StructFields(Advance(r), r.e) ELSE r

Step1(p, op) == Assign(p.e, "=", Bin(op, p.e, N(1)))

Call1(p) ==
    LET q == Advance(p)
    IN  CASE Check(p, "(") ->
               LET r == Elements(q, ")", <<>>) IN Call1(Give(Closed(r, ")"), Call(p.e, r.e)))
          [] StartsStruct(p) ->
               LET r == StructFields(q, <<>>)
               IN  Call1(Give(Consume(r, "}"), StructLit(p.e.x, r.e)))
          [] Check(p, ".") -> LET r == Name(q) IN Call1(Give(r, Member(p.e, r.e)))
          [] Check(p, "[") ->
               LET r == Expression(q) IN Call1(Give(Consume(r, "]"), At(p.e, r.e)))
          [] Cur(p).k \in {"++", "--"} /\ p.e.k # "identifier" -> Give(ErrorAt(q), p.e)
          [] Cur(p).k \in {"++", "--"} /\ p.e.k = "identifier" ->
               Call1(Give(q, Step1(p, IF Check(p, "++") THEN "ADD" ELSE "SUBTRACT")))
          [] OTHER -> p

Unary(p) ==
    IF Cur(p).k \in {"!", "-"}
    THEN LET r == Unary(Advance(p))
         IN  Give(r, Un(IF Check(p, "!") THEN "NOT" ELSE "NEGATE", r.e))
    ELSE Call1(Primary(p))

(***************************************************************************)
(* Binary operators, the loosest first; each level is left-associative but *)
(* for the range, of which there is at most one and which is a call.       *)
(***************************************************************************)
OpOf == [x \in {"+", "-", "*", "/", "%", "==", "!=", ">", ">=", "<", "<=", "and", "or"} |->
            CASE x = "+"  -> "ADD"       [] x = "-"  -> "SUBTRACT"  [] x = "*"   -> "MULTIPLY"
              [] x = "/"  -> "DIVIDE"    [] x = "%"  -> "MODULO"    [] x = "=="  -> "EQUAL"
              [] x = "!=" -> "NOT_EQUAL" [] x = ">"  -> "GREATER"   [] x = ">="  -> "GREATER_EQUAL"
              [] x = "<"  -> "LESS"      [] x = "<=" -> "LESS_EQUAL" [] x = "and" -> "AND"
              [] x = "or" -> "OR"]
Levels == << {"or"}, {"and"}, {"==", "!="}, {">", ">=", "<", "<="}, {".."}, {"+", "-"},
             {"*", "/", "%"} >>

RECURSIVE More(_, _)
More(p, level) ==
    IF Cur(p).k \in Levels[level] \ {".."}
    THEN LET r == Binary(Advance(p), level + 1)
         IN  More(Give(r, Bin(OpOf[Cur(p).k], p.e, r.e)), level)
    ELSE p

Binary(p, level) ==
    LET left  == Binary(p, level + 1)
        right == Binary(Advance(left), level + 1)
    IN  CASE level > Len(Levels) -> Unary(p)
          [] level <= Len(Levels) /\ ".." \notin Levels[level] -> More(left, level)
          [] OTHER -> IF Check(left, "..")
                      THEN Give(right, Call(Id("__range"), <<left.e, right.e>>)) ELSE left

\* Right-associative; any expression is taken for a target.
Assignment(p) ==
    LET l == Binary(p, 1)
        r == Assignment(Advance(l))
    IN  IF Cur(l).k \in {"=", "+=", "-="} THEN Give(r, Assign(l.e, Cur(l).k, r.e)) ELSE l

(***************************************************************************)
(* Statements.  A block goes on until its brace or the end; a token that   *)
(* starts no statement is never skipped in it.                             *)
(***************************************************************************)
Null == [k |-> "null"]

Block1(p, ss) ==
    LET d == Declaration(p)
        q == Match(Match(d, ";"), ";")
        r == IF d.e = Null THEN Give(d, ss) ELSE Give(q, Append(ss, d.e))
    IN  CASE AtEnd(p) \/ Check(p, "}") -> Give(p, ss)
          [] Check(p, "newline") -> Block1(Advance(p), ss)
          [] OTHER -> IF r.at = p.at \/ r.stuck THEN [r EXCEPT !.stuck = TRUE]
                      ELSE Block1(r, r.e)

Plainly(p) == [Expression([p EXCEPT !.plain = TRUE]) EXCEPT !.plain = p.plain]

IfStatement(p) ==
    LET c == Plainly(p)
        a == Stmt(c)
        b == Stmt(Advance(a))
    IN  IF Check(a, "else") THEN Give(b, If(c.e, a.e, b.e)) ELSE Give(a, If(c.e, a.e, None))

WhileStatement(p) ==
    LET c == IF Check(p, "(") THEN Expression(Advance(p)) ELSE Plainly(p)
        b == Stmt(IF Check(p, "(") THEN Consume(c, ")") ELSE c)
    IN  Give(b, While(c.e, b.e))

VarDeclaration(p) ==
    LET n == Name(p)
        v == Expression(Advance(n))
    IN  IF Check(n, "=") THEN Give(v, Let(n.e, v.e)) ELSE Give(n, Let(n.e, Lit(Nil)))

\* for x in e: a loop over an index, in a block of its own.
ForIn(p) ==
    LET list == Expression(Advance(Advance(p)))
        body == Stmt(list)
        it   == "__iter" \o Decimal[body.loops]
        ix   == "__index" \o Decimal[body.loops]
        loop == While(Bin("LESS", Id(ix), Member(Id(it), "length")),
                      Block(<<Let(Text(p), At(Id(it), Id(ix))), body.e,
                              Assign(Id(ix), "=", Bin("ADD", Id(ix), N(1)))>>))
    IN  Give([body EXCEPT !.loops = @ + 1],
             Block(<<Let(it, list.e), Let(ix, N(0)), loop>>))

ForStatement(p) ==
    LET paren == Check(p, "(")
        open  == Match(p, "(")
        init  == IF Check(open, "let") THEN VarDeclaration(Advance(open))
                 ELSE IF Check(open, ";") THEN Give(open, None) ELSE Expression(open)
        cond  == LET q == Consume(init, ";") IN IF Check(q, ";") THEN Give(q, None) ELSE Expression(q)
        last  == Consume(cond, ";")
        none  == IF paren THEN Check(last, ")") ELSE Check(last, "{") \/ Check(last, "newline")
        step  == IF none THEN Give(last, None) ELSE Expression(last)
        body  == Stmt(IF paren THEN Consume(step, ")") ELSE step)
    IN  IF Check(p, "identifier") /\ TokenAt(p, p.at + 1).k = "in" THEN ForIn(p)
        ELSE Give(body, For(init.e, cond.e, step.e, body.e))

\* return a, b gives an array.
RECURSIVE ReturnValues(_, _)
ReturnValues(p, es) ==
    LET v == Expression(p)
        r == Give(v, Append(es, v.e))
    IN  IF Check(r, ",") THEN ReturnValues(Advance(r), r.e) ELSE r
ReturnStatement(p) ==
    LET r == ReturnValues(p, <<>>)
    IN  IF Cur(p).k \in {";", "newline"} THEN Give(p, Return(None))
        ELSE Give(r, Return(IF Len(r.e) = 1 THEN r.e[1] ELSE ArrayLit(r.e)))

DeferStatement(p) ==
    LET c == Expression(p)
    IN  IF c.e.k = "call" THEN Give(c, Defer(c.e)) ELSE Give(ErrorAt(c), ErrorNode)

(***************************************************************************)
(* switch: the body of a case is the statements up to the next case; a     *)
(* semicolon after one of them is an empty statement that nobody takes.    *)
(***************************************************************************)
RECURSIVE CaseBody(_, _), Cases(_, _, _)
CaseBody(p, ss) ==
    LET q == SkipNewlines(p)
        s == Stmt(q)
        r == Give(s, Append(ss, s.e))
    IN  CASE AtEnd(p) \/ Cur(q).k \in {"case", "default", "}"} -> Give(q, Block(ss))
          [] OTHER -> IF r.at = p.at \/ r.stuck THEN [r EXCEPT !.stuck = TRUE, !.e = Block(ss)]
                      ELSE CaseBody(r, r.e)

Cases(p, cs, d) ==
    LET q == SkipNewlines(p)
        v == Expression(Advance(q))
        b == CaseBody(SkipNewlines(Consume(v, ":")), <<>>)
        e == CaseBody(SkipNewlines(Consume(Advance(q), ":")), <<>>)
    IN  CASE AtEnd(p) \/ Check(q, "}") -> Give(q, <<cs, d>>)
          [] Check(q, "case") ->
               IF b.stuck THEN Give(b, <<cs, d>>) ELSE Cases(b, Append(cs, <<v.e, b.e>>), d)
          [] Check(q, "default") -> IF e.stuck THEN Give(e, <<cs, d>>) ELSE Cases(e, cs, e.e)
          [] OTHER -> Give(ErrorAt(q), <<cs, d>>)

SwitchStatement(p) ==
    LET v == Plainly(p)
        r == Cases(Consume(v, "{"), <<>>, None)
    IN  Give(Consume(r, "}"), Switch(v.e, r.e[1], r.e[2]))

(***************************************************************************)
(* import "p", import "p" as n, and import(...) as n; an expression.       *)
(***************************************************************************)
ImportAs(p, args) ==
    LET n == Name(p) IN Give(n, Let(n.e, Call(Id("import_as"), Append(args, S(n.e)))))

ExpressionStatement(p) ==
    LET path == Advance(p)
        e    == Expression(p)
    IN  CASE IsWord(Cur(p), "import") /\ Cur(path).k = "string" ->
               IF Check(Advance(path), "as") THEN ImportAs(Advance(Advance(path)), <<S(Text(path))>>)
               ELSE Give(Advance(path), Expr(Call(Id("import"), <<S(Text(path))>>)))
          [] Check(p, ";") -> Give(p, Expr(Lit(Nil)))
          [] OTHER -> IF ~ Check(e, "as") THEN Give(e, Expr(e.e))
                      ELSE IF e.e.k = "call" /\ e.e.f = Id("import") THEN ImportAs(Advance(e), e.e.args)
                      ELSE Give(ErrorAt(Advance(e)), Expr(e.e))

\* a, b = e at the start of a statement.
RECURSIVE Targets(_, _)
Targets(p, xs) ==
    IF Check(p, ",") /\ TokenAt(p, p.at + 1).k = "identifier"
    THEN Targets(Advance(Advance(p)), Append(xs, Id(TokenAt(p, p.at + 1).x)))
    ELSE Give(p, xs)

Stmt(p) ==
    LET t  == Cur(p)
        q  == Advance(p)
        xs == Targets(q, <<Id(t.x)>>)
    IN  CASE t.k = "identifier" /\ Len(xs.e) > 1 /\ Check(xs, "=") ->
               LET v == Expression(Advance(xs)) IN Give(v, Expr(Assign(ArrayLit(xs.e), "=", v.e)))
          [] t.k = "if"     -> IfStatement(q)
          [] t.k = "switch" -> SwitchStatement(q)
          [] t.k = "while"  -> WhileStatement(q)
          [] t.k = "for"    -> ForStatement(q)
          [] t.k = "avatar" -> AvatarStatement(q)
          [] t.k = "defer"  -> DeferStatement(q)
          [] t.k = "return" -> ReturnStatement(q)
          [] t.k = "{"      -> BlockStatement(q)
          [] OTHER          -> ExpressionStatement(p)

(***************************************************************************)
(* Declarations.  p.e after Decorators is their number.                    *)
(***************************************************************************)
RECURSIVE DecoratorArgs(_)
DecoratorArgs(p) ==
    LET named == Check(p, "identifier") /\ TokenAt(p, p.at + 1).k = "="
        v == Expression(IF named THEN Advance(Advance(p)) ELSE p)
    IN  IF Check(v, ",") THEN DecoratorArgs(Advance(v)) ELSE v

Decorators(p, n) ==
    LET x    == Name(Advance(p))
        args == IF Check(Advance(x), ")") THEN Advance(x) ELSE DecoratorArgs(Advance(x))
        end  == IF Check(x, "(") THEN Consume(args, ")") ELSE x
    IN  IF Check(p, "@") THEN Decorators(SkipNewlines(end), n + 1) ELSE Give(p, n)

FunctionDeclaration(p) ==
    LET n  == Name(p)
        ps == ParamList(n, TRUE)
        b  == BlockStatement(Consume(ps, "{"))
    IN  Give(b, Function(n.e, ps.e, b.e.ss))

\* fn (Type) name(params) { }
MethodDeclaration(p) ==
    LET ty == Name(Consume(p, "("))
        n  == Name(Consume(ty, ")"))
        ps == ParamList(n, TRUE)
        b  == BlockStatement(Consume(ps, "{"))
    IN  Give(b, Method(ty.e, n.e, ps.e, b.e.ss))

\* Fields may be preceded by a type and are separated by anything or nothing.
RECURSIVE Fields(_, _)
Fields(p, xs) ==
    LET q == SkipNewlines(p)
        a == Name(Decorators(q, 0))
        b == IF Check(a, "identifier") THEN Name(a) ELSE a
        r == Match(SkipNewlines(Match(b, ";")), ",")
    IN  IF Check(q, "}") THEN Give(q, xs)
        ELSE IF r.at = p.at THEN [r EXCEPT !.stuck = TRUE, !.e = xs]
        ELSE IF Check(r, "}") THEN Give(r, Append(xs, b.e)) ELSE Fields(r, Append(xs, b.e))

StructDeclaration(p) ==
    LET n == Name(p)
        f == Fields(Consume(n, "{"), <<>>)
    IN  Give(Consume(f, "}"), StructDecl(n.e, f.e))

(***************************************************************************)
(* interface N from "path" { ... } becomes a block: the library is opened, *)
(* the compiler is told of the namespace, and every method found is bound, *)
(* with what is written of its parameters, return type and aliases.  What  *)
(* is no method is passed over.                                            *)
(***************************************************************************)
RECURSIVE Past(_, _), UpTo(_, _), MatchingParen(_, _), Strings(_, _), Aliases(_, _), Signature(_),
          TypeWords(_, _), ParamSpecs(_, _), Methods(_, _, _, _)
Past(p, kinds) == IF ~ AtEnd(p) /\ Cur(p).k \in kinds THEN Past(Advance(p), kinds) ELSE p
UpTo(p, kinds) == IF AtEnd(p) \/ Cur(p).k \in kinds THEN p ELSE UpTo(Advance(p), kinds)
Between        == {"newline", ","}

MatchingParen(p, n) ==
    IF AtEnd(p) \/ n = 0 THEN p
    ELSE MatchingParen(Advance(p), CASE Check(p, "(") -> n + 1 [] Check(p, ")") -> n - 1 [] OTHER -> n)

Strings(p, xs) ==
    LET r == Give(Consume(p, "string"), Append(xs, S(Text(p))))
    IN  IF Check(r, ",") THEN Strings(Advance(r), r.e) ELSE r

\* @alias("a", "b") before a method; another directive is skipped.
Aliases(p, xs) ==
    LET n    == Name(Advance(p))
        open == Consume(n, "(")
        some == IF Check(open, ")") THEN Give(open, xs) ELSE Strings(open, xs)
    IN  IF ~ Check(p, "@") THEN Give(p, xs)
        ELSE IF n.e # "alias" THEN Aliases(MatchingParen(open, 1), xs)
        ELSE Aliases(SkipNewlines(Consume(some, ")")), some.e)

Signature(p) ==
    IF \/ AtEnd(p) \/ Cur(p).k \in {"{", "}"}
       \/ Check(p, "identifier") /\ TokenAt(p, p.at + 1).k = "(" /\ Previous(p).k # "@"
    THEN p ELSE Signature(Advance(p))

ReturnType(p) ==
    LET before == SelectLastInSeq(SubSeq(p.toks, 1, p.at - 1), LAMBDA t : t.k \notin Between)
    IN  IF TokenAt(p, before).k = "identifier" THEN <<S(TokenAt(p, before).x)>> ELSE <<>>

TypeWords(p, x) ==
    IF AtEnd(p) \/ Cur(p).k \in {")", ","} THEN Give(p, x)
    ELSE TypeWords(Advance(p), IF x = "" THEN Text(p) ELSE x \o " " \o Text(p))

ParamSpecs(p, xs) ==
    LET q == Past(p, Between)
        n == Name(q)
        t == IF Check(n, ":") THEN TypeWords(Advance(n), "") ELSE Give(n, "")
    IN  CASE AtEnd(p) -> Give(p, xs)
          [] Check(p, ")") -> Give(Advance(p), xs)
          [] ~ Check(p, ")") /\ Check(q, ")") -> ParamSpecs(q, xs)
          [] ~ Check(q, ")") /\ ~ Check(q, "identifier") -> ParamSpecs(UpTo(q, {")", ","}), xs)
          [] OTHER -> ParamSpecs(Match(t, ","), Append(xs, S(n.e \o ": " \o t.e)))

Methods(p, iface, exported, ss) ==
    LET q     == Past(p, Between)
        a     == Aliases(q, <<>>)
        m     == Signature(a)
        ps    == ParamSpecs(Advance(Advance(m)), <<>>)
        lists == (IF ps.e = <<>> THEN <<>> ELSE <<ArrayLit(ps.e)>>) \o ReturnType(m) \o
                 (IF a.e = <<>> THEN <<>> ELSE <<ArrayLit(a.e)>>)
        bind  == Expr(Call(Id("bind_interface_method"),
                           <<S(iface), S(Text(m))>> \o lists \o <<Truth(exported)>>))
        next  == UpTo(m, Between \cup {"}"})
    IN  CASE AtEnd(p) \/ Check(q, "}") -> Give(q, ss)
          [] ~ (AtEnd(p) \/ Check(q, "}")) /\ ~ Check(m, "identifier") ->
               Methods(IF Cur(next).k \in Between THEN Advance(next) ELSE next, iface, exported, ss)
          [] OTHER -> Methods(Past(ps, Between), iface, exported, Append(ss, bind))

InterfaceDeclaration(p, exported) ==
    LET n    == Name(p)
        from == IsWord(Cur(n), "from")
        path == Consume(Advance(n), "string")
        ms   == Methods(Consume(IF from THEN path ELSE n, "{"), n.e, exported, <<>>)
        open == IF from THEN <<Expr(Call(Id("dlopen_only"), <<S(Text(Advance(n)))>>))>> ELSE <<>>
    IN  Give(Consume(ms, "}"),
             Block(open \o <<Expr(Call(Id("__register_namespace"), <<S(n.e)>>))>> \o ms.e))

Declaration(p) ==
    LET d == Decorators(p, 0)
        q == Advance(d)
    IN  CASE Check(d, "struct")    -> StructDeclaration(q)
          [] Check(d, "fn") /\ Check(q, "(")          -> MethodDeclaration(q)
          [] Check(d, "fn") /\ Check(q, "identifier") -> FunctionDeclaration(q)
          [] Check(d, "fn") /\ ~ (Check(q, "(") \/ Check(q, "identifier")) -> Stmt(d)
          [] Check(d, "export") /\ Check(q, "fn") ->
               IF Check(Advance(q), "identifier") THEN FunctionDeclaration(Advance(q))
               ELSE Give(ErrorAt(Advance(q)), Null)
          [] Check(d, "interface") -> InterfaceDeclaration(q, FALSE)
          [] Check(d, "export") /\ Check(q, "interface") -> InterfaceDeclaration(Advance(q), TRUE)
          [] Check(d, "export") /\ ~ (Check(q, "fn") \/ Check(q, "interface")) ->
               Give(ErrorAt(q), Null)
          [] Check(d, "let")       -> VarDeclaration(q)
          [] OTHER                 -> Stmt(IF d.e > 0 THEN ErrorAt(d) ELSE d)

(***************************************************************************)
(* parser_parse: declarations up to the end, panic ended after each.       *)
(***************************************************************************)
RECURSIVE Program(_, _)
Program(p, ss) ==
    LET d == Declaration(p)
        q == IF d.e = Null THEN Give(d, ss) ELSE Give(Match(d, ";"), Append(ss, d.e))
        r == IF q.panic THEN Synchronize(q) ELSE q
    IN  CASE AtEnd(p) -> Give(p, ss)
          [] Check(p, "newline") -> Program(Advance(p), ss)
          [] OTHER -> IF r.at = p.at \/ d.stuck THEN [r EXCEPT !.stuck = TRUE] ELSE Program(r, r.e)

Parse(toks) == Program(Reading(toks), <<>>)
=============================================================================
