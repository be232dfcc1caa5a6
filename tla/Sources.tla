------------------------------ MODULE Sources ------------------------------
(***************************************************************************)
(* How a program is written: the tokens the lexer makes of the text of a   *)
(* tree, with a parenthesis only where the precedence of the operators     *)
(* asks for one.  Besides the trees of Syntax there are forms that the     *)
(* parser rewrites (for..in, ranges, x++, several return values, interface *)
(* blocks, decorators), which stand for themselves here and in Meaning.    *)
(***************************************************************************)
EXTENDS Syntax, SequencesExt

(***************************************************************************)
(* Forms the parser rewrites, and text that is no program.                 *)
(***************************************************************************)
ForEach(x, e, b)   == [k |-> "for in", x |-> x, e |-> e, b |-> b]
Span(l, r)         == [k |-> "range", l |-> l, r |-> r]
Bump(x, op)        == [k |-> "bump", x |-> x, op |-> op]         \* x++ and x--
ReturnAll(es)      == [k |-> "returns", es |-> es]
Interface(x, path, methods) ==                                   \* path "" without a library
    [k |-> "interface", x |-> x, path |-> path, methods |-> methods]
Decorated(x, e, s) == [k |-> "decorated", x |-> x, e |-> e, s |-> s]
Damaged(toks)      == [k |-> "damaged", toks |-> toks]

(***************************************************************************)
(* Precedence, the loosest first.                                          *)
(***************************************************************************)
SymbolOf == [ADD |-> "+", SUBTRACT |-> "-", MULTIPLY |-> "*", DIVIDE |-> "/", MODULO |-> "%",
             EQUAL |-> "==", NOT_EQUAL |-> "!=", GREATER |-> ">", GREATER_EQUAL |-> ">=",
             LESS |-> "<", LESS_EQUAL |-> "<=", AND |-> "and", OR |-> "or"]
OperatorLevel(op) ==
    CASE op = "OR"  -> 1
      [] op = "AND" -> 2
      [] op \in {"EQUAL", "NOT_EQUAL"} -> 3
      [] op \in {"GREATER", "GREATER_EQUAL", "LESS", "LESS_EQUAL"} -> 4
      [] op \in {"ADD", "SUBTRACT"} -> 6
      [] OTHER -> 7
Level(e) ==
    CASE e.k = "assign" -> 0
      [] e.k = "binary" -> OperatorLevel(e.op)
      [] e.k = "range"  -> 5
      [] e.k = "unary"  -> 8
      [] e.k = "avatar" -> 8
      [] OTHER          -> 9

Joined(lists, between) ==
    FoldLeft(LAMBDA a, i : a \o (IF i = 1 THEN <<>> ELSE between) \o lists[i], <<>>,
             [i \in 1 .. Len(lists) |-> i])
Comma      == <<Sym(",")>>
Around(open, toks, close) == <<Sym(open)>> \o toks \o <<Sym(close)>>
Names(xs)  == Joined([i \in 1 .. Len(xs) |-> <<Word(xs[i])>>], Comma)

RECURSIVE E(_, _), Sentence(_, _)

List(es)   == Joined([i \in 1 .. Len(es) |-> E(es[i], 0)], Comma)
Keyed(ps)  == Joined([i \in 1 .. Len(ps) |-> <<Word(ps[i][1]), Sym(":")>> \o E(ps[i][2], 0)], Comma)
Literal(v) == CASE v.t = "number" -> Token("number", v.n)
                [] v.t = "string" -> Token("string", v.s)
                [] v.t = "bool"   -> Sym(IF v.b THEN "true" ELSE "false")
                [] v.t = "nil"    -> Sym("nil")

(***************************************************************************)
(* Statements, each ended by `end`: a newline or a semicolon.              *)
(***************************************************************************)
Sentences(ss, end) ==
    FoldLeft(LAMBDA a, s : a \o Sentence(s, end) \o <<Sym(end)>>, <<>>, ss)
Braces(ss, end)    == Around("{", <<Sym("newline")>> \o Sentences(ss, end), "}")
Parameters(xs)     == Around("(", Names(xs), ")")

\* An expression where a precedence of at least `least` is asked for.
Bare(e) ==
    CASE e.k = "literal"      -> <<Literal(e.v)>>
      [] e.k = "identifier"   -> <<Word(e.x)>>
      [] e.k = "interpolated" ->
           <<Token("interpolated", [parts |-> e.parts, es |-> [i \in 1 .. Len(e.es) |-> e.es[i].x]])>>
      [] e.k = "binary" -> E(e.l, Level(e)) \o <<Sym(SymbolOf[e.op])>> \o E(e.r, Level(e) + 1)
      [] e.k = "range"  -> E(e.l, 6) \o <<Sym("..")>> \o E(e.r, 6)
      [] e.k = "unary"  -> <<Sym(IF e.op = "NOT" THEN "!" ELSE "-")>> \o E(e.e, 8)
      [] e.k = "assign" ->
           (IF e.target.k = "array" THEN List(e.target.es) ELSE E(e.target, 1))
               \o <<Sym(e.op)>> \o E(e.e, 0)
      [] e.k = "bump"   -> <<Word(e.x), Sym(e.op)>>
      [] e.k = "call"   -> E(e.f, 9) \o Around("(", List(e.args), ")")
      [] e.k = "array"  -> Around("[", List(e.es), "]")
      [] e.k = "object" -> Around("{", Keyed(e.ps), "}")
      [] e.k = "struct" -> <<Word(e.ty)>> \o Around("{", Keyed(e.ps), "}")
      [] e.k = "access" -> E(e.a, 9) \o Around("[", E(e.i, 0), "]")
      [] e.k = "member" -> E(e.o, 9) \o <<Sym("."), Word(e.p)>>
      [] e.k = "fn"     -> <<Sym("fn")>> \o Parameters(e.params) \o Braces(e.body.ss, "newline")
      [] e.k = "avatar" -> <<Sym("avatar")>> \o E(e.call, 9)
      [] e.k = "await"  -> <<Sym("await")>> \o
             (CASE e.e = None -> <<>>
                [] e.e.k \in {"identifier", "literal"} -> E(e.e, 0)
                [] OTHER -> Around("(", E(e.e, 0), ")"))
E(e, least) == IF Level(e) < least THEN Around("(", Bare(e), ")") ELSE Bare(e)

Case(c, end) == <<Sym("case")>> \o E(c[1], 0) \o <<Sym(":"), Sym("newline")>> \o Sentences(c[2].ss, end)
Method1(m)   == <<Sym("newline")>> \o
                (IF m.aliases = <<>> THEN <<>>
                 ELSE <<Sym("@"), Word("alias")>> \o Around("(", List(m.aliases), ")") \o <<Sym("newline")>>) \o
                <<Word("any"), Word(m.x)>> \o
                Around("(", Joined([i \in 1 .. Len(m.params) |->
                           <<Word(m.params[i]), Sym(":"), Word("any")>>], Comma), ")")
Run(seqs)    == FoldLeft(LAMBDA a, s : a \o s, <<>>, seqs)

Sentence(s, end) ==
    CASE s.k = "expression" -> E(s.e, 0)
      [] s.k = "var"        -> <<Sym("let"), Word(s.x), Sym("=")>> \o E(s.e, 0)
      [] s.k = "block"      -> Braces(s.ss, end)
      [] s.k = "if"         -> <<Sym("if")>> \o E(s.c, 0) \o Sentence(s.a, end) \o
                               (IF s.b = None THEN <<>> ELSE <<Sym("else")>> \o Sentence(s.b, end))
      [] s.k = "while"      -> <<Sym("while")>> \o Around("(", E(s.c, 0), ")") \o Sentence(s.b, end)
      [] s.k = "for"        ->
           <<Sym("for")>> \o
           Around("(", Joined(<<IF s.i.k = "var" THEN Sentence(s.i, end) ELSE E(s.i, 0),
                                E(s.c, 0), E(s.u, 0)>>, <<Sym(";")>>), ")") \o Sentence(s.b, end)
      [] s.k = "for in"     -> <<Sym("for"), Word(s.x), Sym("in")>> \o E(s.e, 0) \o Sentence(s.b, end)
      [] s.k = "switch"     ->
           <<Sym("switch")>> \o E(s.e, 0) \o
           Around("{", <<Sym("newline")>> \o Run([i \in 1 .. Len(s.cs) |-> Case(s.cs[i], end)]) \o
                       (IF s.d = None THEN <<>>
                        ELSE <<Sym("default"), Sym(":"), Sym("newline")>> \o Sentences(s.d.ss, end)), "}")
      [] s.k = "return"     -> <<Sym("return")>> \o (IF s.e = None THEN <<>> ELSE E(s.e, 0))
      [] s.k = "returns"    -> <<Sym("return")>> \o List(s.es)
      [] s.k = "defer"      -> <<Sym("defer")>> \o Bare(s.call)
      [] s.k = "avatar"     -> Bare(s)
      [] s.k = "function"   -> <<Sym("fn"), Word(s.x)>> \o Parameters(s.params) \o Braces(s.ss, end)
      [] s.k = "method"     -> <<Sym("fn"), Sym("("), Word(s.ty), Sym(")"), Word(s.x)>> \o
                               Parameters(s.params) \o Braces(s.ss, end)
      [] s.k = "structdecl" ->
           <<Sym("struct"), Word(s.ty)>> \o
           Around("{", Run([i \in 1 .. Len(s.fields) |-> <<Sym("newline"), Word(s.fields[i])>>]), "}")
      [] s.k = "interface"  ->
           <<Sym("interface"), Word(s.x)>> \o
           (IF s.path = "" THEN <<>> ELSE <<Word("from"), Token("string", s.path)>>) \o
           Around("{", Run([i \in 1 .. Len(s.methods) |-> Method1(s.methods[i])]), "}")
      [] s.k = "decorated"  ->
           <<Sym("@"), Word(s.x)>> \o Around("(", E(s.e, 0), ")") \o <<Sym("newline")>> \o
           Sentence(s.s, end)
      [] s.k = "damaged"    -> s.toks

Text(ss, end) == Sentences(ss, end) \o <<Sym("eof")>>
=============================================================================
