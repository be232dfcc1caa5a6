------------------------------ MODULE Meaning ------------------------------
(***************************************************************************)
(* What a Kuyil program means, said over its tree and without a stack, a   *)
(* frame or a jump: the reference the compiler and the two interpreters    *)
(* are checked against.  The operators on values are those of Bytecode;    *)
(* names, scopes, calls, loops, returns and deferred calls are said anew.  *)
(*                                                                         *)
(* m is what a program has done so far: the bindings in scope (env) and    *)
(* the globals, the latest last; the heap; what was printed; the value of  *)
(* the last expression; flow, which is "return" or "error" while the rest  *)
(* of a body is skipped; the calls deferred by the running function; the   *)
(* results of the avatars launched; the modules imported; the call depth;  *)
(* and whether the rules of an avatar hold.                                *)
(*                                                                         *)
(* What is meant by a function in an avatar is AvatarRules' to say: with   *)
(* FALSE the same as anywhere else; with TRUE, as avatar_runtime.c has it, *)
(* the number 0 is false in a condition, "and" and "or" give one of their  *)
(* operands, a modulo by zero is an error, a global that holds nil is not  *)
(* defined, a missing argument of the launched function is nil, and there  *)
(* are no methods, no libraries but the builtins, no deferred calls and no *)
(* avatars.                                                                *)
(***************************************************************************)
EXTENDS Syntax, Bytecode

CONSTANTS Module(_),      \* the statements of the module at a path
          AvatarRules     \* whether avatars have rules of their own

Start == [env |-> <<>>, scope |-> 0, globals |-> <<>>, heap |-> <<>>, out |-> <<>>,
          val |-> Nil, flow |-> "next", defers |-> <<>>, tasks |-> <<>>, imported |-> {}, depth |-> 1,
          avatar |-> FALSE]

Ok(m)     == m.flow = "next"
Err(m)    == [m EXCEPT !.flow = "error"]
V(m, v)   == IF v = Bad THEN Err(m) ELSE [m EXCEPT !.val = v]

Last1(m, x) == SelectLastInSeq(m.env, LAMBDA b : b[1] = x)
GlobalAt(m, x) == SelectLastInSeq(m.globals, LAMBDA b : b[1] = x)

\* What counts as false where a branch is chosen.
Untrue(m, v) == IF m.avatar THEN AvatarFalsey(v) ELSE Falsey(v)

Standard == {"print", "typeof", "array_length", "__range", "import"}
InAvatars == {"print", "typeof", "array_length"}
GlobalValue(m, v) == IF m.avatar /\ v = Nil THEN Err(m) ELSE V(m, v)
Lookup(m, x) ==
    CASE Last1(m, x) # 0    -> V(m, m.env[Last1(m, x)][2])
      [] Last1(m, x) = 0 /\ GlobalAt(m, x) # 0 -> GlobalValue(m, m.globals[GlobalAt(m, x)][2])
      [] Last1(m, x) = 0 /\ GlobalAt(m, x) = 0 /\ x \in Standard -> V(m, Str(x))
      [] OTHER -> Err(m)

Assigned(m, x) ==
    CASE Last1(m, x) # 0 -> [m EXCEPT !.env[Last1(m, x)][2] = m.val]
      [] Last1(m, x) = 0 /\ GlobalAt(m, x) # 0 -> [m EXCEPT !.globals[GlobalAt(m, x)][2] = m.val]
      [] OTHER -> Err(m)

Bind(m, x)   == [m EXCEPT !.env = Append(@, <<x, m.val>>)]
Define(m, x, v) == [m EXCEPT !.globals = Append(@, <<x, v>>)]

\* A block: what it binds is gone after it.
Scoped(m, Body(_)) ==
    LET r == Body([m EXCEPT !.scope = @ + 1])
    IN  [r EXCEPT !.scope = m.scope, !.env = SubSeq(@, 1, Len(m.env))]

\* Evaluation stops at the first error or return.
Then(m, F(_)) == IF Ok(m) THEN F(m) ELSE m

Block1(m, cells, value(_)) ==
    [m EXCEPT !.heap = NewBlock(@, cells), !.val = value(Len(m.heap) + 1)]
NewArr(m, vs)  == Block1(m, vs, LAMBDA h : Arr(Len(vs), h))
NewObj(m, ps)  == IF ps = <<>> THEN V(m, Obj(0, 0)) ELSE Block1(m, ps, LAMBDA h : Obj(Len(ps), h))

TreeFn(e)  == [t |-> "function", fn |-> e]

(***************************************************************************)
(* Expressions, statements, and the call of a function value.              *)
(***************************************************************************)
RECURSIVE Eval(_, _), Exec(_, _), ExecAll(_, _), Apply(_, _, _), Loop(_, _, _, _)

\* The values of several expressions, in m.val.
EvalAll(m, es) ==
    LET Step(acc, e) == Then(acc, LAMBDA a :
            LET r == Eval(a, e) IN IF Ok(r) THEN [r EXCEPT !.val = Append(a.val, @)] ELSE r)
    IN  FoldLeft(Step, [m EXCEPT !.val = <<>>], es)

ExecAll(m, ss) == FoldLeft(LAMBDA a, s : Then(a, LAMBDA b : Exec(b, s)), m, ss)

Combined(m, op, a, b) ==
    CASE op \in {"AND", "OR"} /\ m.avatar -> V(m, IF Falsey(a) = (op = "AND") THEN a ELSE b)
      [] op \in {"AND", "OR"} /\ ~ m.avatar ->
           V(m, Bool(IF op = "AND" THEN ~ Falsey(a) /\ ~ Falsey(b) ELSE ~ Falsey(a) \/ ~ Falsey(b)))
      [] op = "MODULO" ->
           V(m, CASE b = Num(0) /\ m.avatar -> Bad
                  [] b = Num(0) /\ ~ m.avatar /\ Is(a, "number") -> Num(NaN)
                  [] OTHER -> Arithmetic(op, a, b))
      [] op = "ADD" /\ BothArrays(a, b) ->
           NewArr(m, SubSeq(m.heap[a.h].cells, 1, a.n) \o SubSeq(m.heap[b.h].cells, 1, b.n))
      [] OTHER -> V(m, Binary(op, a, b))

(***************************************************************************)
(* A function runs with its parameters alone in scope; what it deferred    *)
(* runs when it ends, the last call first, and its value is kept.          *)
(***************************************************************************)
Deferred(m) ==
    FoldRight(LAMBDA c, a : Then(a, LAMBDA b : Apply(b, c[1], Tail(c))), m.defers,
              [m EXCEPT !.flow = "next", !.defers = <<>>])

Run(m, params, ss, args) ==
    IF Len(args) # Len(params) \/ m.depth >= FramesMax THEN Err(m)
    ELSE LET start == [m EXCEPT !.env = [i \in 1 .. Len(args) |-> <<params[i], args[i]>>],
                                !.scope = 1, !.defers = <<>>, !.depth = @ + 1]
             body  == ExecAll(start, ss)
             value == IF body.flow = "return" THEN body.val ELSE Nil
             end   == IF body.flow = "error" THEN body ELSE [Deferred(body) EXCEPT !.val = value]
         IN  [end EXCEPT !.env = m.env, !.scope = m.scope, !.defers = m.defers, !.depth = m.depth]

\* The methods every struct has.
Fielded(m, o, x) == FieldOf(m.heap, o, x)
Json(m, o, fields) ==
    LET one(i) == "'" \o fields[i] \o "': " \o Spelled(Fielded(m, o, fields[i]), "[Object]")
                  \o (IF i < Len(fields) THEN ", " ELSE "")
    IN  "{" \o FoldLeft(LAMBDA s, i : s \o one(i), "", [i \in 1 .. Len(fields) |-> i]) \o "}"
Yaml(m, o, fields) ==
    FoldLeft(LAMBDA s, x : s \o x \o ": " \o Spelled(Fielded(m, o, x), "[Object]") \o ";",
             "", fields)

\* import runs a module once, as a script of its own, and gives a module value.
Imported(m, path) ==
    LET r == ExecAll([m EXCEPT !.env = <<>>, !.scope = 0, !.defers = <<>>], Module(path))
    IN  IF path \in m.imported THEN V(m, Bool(TRUE))
        ELSE [r EXCEPT !.env = m.env, !.scope = m.scope, !.defers = m.defers, !.flow = "next",
                       !.imported = IF r.flow = "error" THEN @ ELSE @ \cup {path},
                       !.val = IF r.flow = "error" THEN Bool(FALSE) ELSE Str("module")]

Library1(m, name, args) ==
    CASE name = "print" /\ args # <<>> ->
           V([m EXCEPT !.out = Append(@, [i \in 1 .. Len(args) |-> Shown(m.heap, args[i])])], Nil)
      [] name = "typeof" /\ Len(args) = 1 -> V(m, Str(args[1].t))
      [] name = "array_length" -> V(m, Num(IF args # <<>> /\ Is(args[1], "array")
                                           THEN args[1].n ELSE 0))
      [] name = "__range" /\ Len(args) = 2 /\ {args[1].t, args[2].t} = {"number"} ->
           NewArr(m, [i \in 1 .. (IF args[2].n > args[1].n THEN args[2].n - args[1].n ELSE 0)
                        |-> Num(args[1].n + i - 1)])
      [] name = "import" -> Imported(m, args[1].s)
      [] OTHER -> Err(m)

\* A name is a builtin, or a method of the type of the first argument.
MethodOf(m, name, args) ==
    LET r    == IF args = <<>> THEN Nil ELSE args[1]
        type == IF Is(r, "object") THEN Fielded(m, r, "__type") ELSE Nil
        g    == IF Is(type, "string") THEN GlobalAt(m, type.s \o "_" \o name) ELSE 0
    IN  IF g = 0 THEN Nil ELSE m.globals[g][2]

Apply(m, f, args) ==
    LET e == f.fn
        method == MethodOf(m, f.s, args)
    IN  CASE Is(f, "string") /\ m.avatar /\ f.s \notin InAvatars -> Err(m)
          [] Is(f, "string") /\ (f.s \in Standard \/ method = Nil) -> Library1(m, f.s, args)
          [] Is(f, "string") /\ ~ (f.s \in Standard \/ method = Nil) -> Apply(m, method, args)
          [] Is(f, "function") /\ e.k = "fn"       -> Run(m, e.params, <<e.body>>, args)
          [] Is(f, "function") /\ e.k = "function" -> Run(m, e.params, e.ss, args)
          [] Is(f, "function") /\ e.k = "method"   -> Run(m, <<"this">> \o e.params, e.ss, args)
          [] Is(f, "function") /\ e.k = "json" -> V(m, Str(Json(m, args[1], e.fields)))
          [] Is(f, "function") /\ e.k = "yaml" -> V(m, Str(Yaml(m, args[1], e.fields)))
          [] Is(f, "function") /\ e.k = "from" ->
               NewObj(m, << <<"__type", Str(e.ty)>> >> \o
                         [i \in 1 .. Len(e.fields) |->
                             <<e.fields[i], Fielded(m, args[1], e.fields[i])>>])
          [] OTHER -> Err(m)

\* f(args), or o.name(args) with the receiver as the first argument; a
\* library function, lib.apply(f, x), calls f back.
EvalCall(m, e) ==
    IF e.f = Id("log_info")
    THEN Then(EvalAll(m, e.args), LAMBDA a : V(a, Nil))
    ELSE IF e.f = Member(Id("lib"), "apply") /\ ~ m.avatar
    THEN Then(EvalAll(m, e.args), LAMBDA a : Apply(a, Head(a.val), Tail(a.val)))
    ELSE IF e.f.k = "member"
    THEN Then(EvalAll(m, <<e.f.o>> \o e.args), LAMBDA a : Apply(a, Str(e.f.p), a.val))
    ELSE Then(EvalAll(m, e.args), LAMBDA a :
              Then(Eval(a, e.f), LAMBDA b : Apply(b, b.val, a.val)))

EvalObject(m, pairs, type) ==
    Then(EvalAll(m, [i \in 1 .. Len(pairs) |-> pairs[i][2]]), LAMBDA a :
         NewObj(a, type \o [i \in 1 .. Len(pairs) |-> <<pairs[i][1], a.val[i]>>]))

EvalGet(m, c, i, element) ==
    V(m, IF element THEN ElementGet(m.heap, c, i) ELSE ObjectGet(m.heap, c, i))

EvalAssign(m, e) ==
    LET to == e.target
        value == CASE e.op = "="  -> e.e
                   [] e.op = "+=" -> Bin("ADD", to, e.e)
                   [] OTHER       -> Bin("SUBTRACT", to, e.e)
    IN  CASE to.k = "identifier" -> Then(Eval(m, value), LAMBDA a : Assigned(a, to.x))
          [] to.k = "array" -> Then(Eval(m, e.e), LAMBDA a :
               [FoldLeft(LAMBDA b, i : Then(b, LAMBDA c :
                             Then(EvalGet(c, a.val, Num(i - 1), TRUE),
                                  LAMBDA d : Assigned(d, to.es[i].x))),
                         a, [i \in 1 .. Len(to.es) |-> i]) EXCEPT !.val = a.val])
          [] to.k = "access" -> Then(EvalAll(m, <<e.e, to.a, to.i>>), LAMBDA a :
               LET c == a.val[2]
                   i == a.val[3]
               IN  IF Is(c, "array") /\ Index(c, i)
                   THEN V([a EXCEPT !.heap[c.h].cells[i.n + 1] = a.val[1]], a.val[1])
                   ELSE Err(a))
          [] to.k = "member" -> Then(EvalAll(m, <<to.o, e.e>>), LAMBDA a :
               LET o == a.val[1]
               IN  IF ~ Is(o, "object") THEN Err(a)
                   ELSE LET r == CHOOSE x \in ObjectSet(a.heap, o, to.p, a.val[2]) : TRUE
                        IN  V([a EXCEPT !.heap = r[2]], r[1]))

\* An avatar computes apart; its value is kept for the one who awaits it.
Filled(f, args) ==
    LET missing == Len(f.params) - Len(args)
    IN  IF AvatarRules /\ f.k \in {"fn", "function"}
        THEN args \o [i \in 1 .. missing |-> Nil] ELSE args
EvalAvatar(m, e) ==
    LET call == IF e.call.k = "fn" THEN <<e.call>> ELSE <<e.call.f>> \o e.call.args
        Launched(a) ==
            LET r == Apply([a EXCEPT !.depth = 0, !.avatar = AvatarRules],
                           Head(a.val), Filled(Head(a.val).fn, Tail(a.val)))
            IN  V([r EXCEPT !.flow = "next", !.depth = a.depth, !.avatar = FALSE,
                            !.tasks = Append(@, [ok |-> Ok(r), v |-> r.val])],
                  Num(101 + Len(a.tasks)))
    IN  Then(EvalAll(m, call), LAMBDA a : IF Is(Head(a.val), "function") /\ ~ a.avatar THEN Launched(a) ELSE Err(a))

EvalAwait(m, e) ==
    IF m.avatar THEN Err(m)
    ELSE IF e.e = None THEN V(m, Nil)
    ELSE Then(Eval(m, e.e), LAMBDA a :
              LET t == a.tasks[a.val.n - 100] IN IF t.ok THEN V(a, t.v) ELSE Err(a))

Eval(m, e) ==
    CASE e.k = "none"       -> m
      [] e.k = "literal"    -> V(m, e.v)
      [] e.k = "identifier" -> Lookup(m, e.x)
      [] e.k = "binary" -> Then(EvalAll(m, <<e.l, e.r>>), LAMBDA a :
                                Combined(a, e.op, a.val[1], a.val[2]))
      [] e.k = "unary"  -> Then(Eval(m, e.e), LAMBDA a :
                                V(a, IF e.op = "NOT" THEN Not(a.val) ELSE Negate(a.val)))
      [] e.k = "interpolated" -> Then(EvalAll(m, e.es), LAMBDA a :
             V(a, Str(FoldLeft(LAMBDA s, i : s \o Spelled(a.val[i], "[Object]") \o e.parts[i + 1],
                               e.parts[1], [i \in 1 .. Len(e.es) |-> i]))))
      [] e.k = "call"   -> EvalCall(m, e)
      [] e.k = "assign" -> EvalAssign(m, e)
      [] e.k = "array"  -> Then(EvalAll(m, e.es), LAMBDA a : NewArr(a, a.val))
      [] e.k = "object" -> EvalObject(m, e.ps, <<>>)
      [] e.k = "struct" -> EvalObject(m, e.ps, << <<"__type", Str(e.ty)>> >>)
      [] e.k = "access" -> Then(EvalAll(m, <<e.a, e.i>>), LAMBDA a :
                                EvalGet(a, a.val[1], a.val[2], TRUE))
      [] e.k = "member" -> Then(Eval(m, e.o), LAMBDA a : EvalGet(a, a.val, Str(e.p), FALSE))
      [] e.k = "fn"     -> V(m, TreeFn(e))
      [] e.k = "range"  -> Then(EvalAll(m, <<e.l, e.r>>), LAMBDA a : Library1(a, "__range", a.val))
      [] e.k = "bump"   -> Then(Lookup(m, e.x), LAMBDA a :
             LET v == Binary(IF e.op = "++" THEN "ADD" ELSE "SUBTRACT", a.val, Num(1))
             IN  Then(V(a, v), LAMBDA b : Assigned(b, e.x)))
      [] e.k = "avatar" -> EvalAvatar(m, e)
      [] e.k = "await"  -> EvalAwait(m, e)
      [] e.k = "defer"  -> Then(EvalAll(m, e.call.args \o <<e.call.f>>), LAMBDA a :
             LET n == Len(a.val)
             IN  IF a.avatar THEN Err(a)
                 ELSE [a EXCEPT !.defers = Append(@, <<a.val[n]>> \o SubSeq(a.val, 1, n - 1)),
                                !.val = Nil])

\* The iterations of a loop, u after each of them.
Loop(m, c, u, b) ==
    Then(Eval([m EXCEPT !.val = Bool(TRUE)], c), LAMBDA a :
         IF Untrue(a, a.val) THEN a
         ELSE Then(Scoped(a, LAMBDA x : Exec(x, b)), LAMBDA x :
                   Then(Eval(x, u), LAMBDA y : Loop(y, c, u, b))))

ExecSwitch(m, e) ==
    LET Try(acc, c) ==
            IF acc.done \/ ~ Ok(acc.m) THEN acc
            ELSE LET v == Eval(acc.m, c[1])
                 IN  IF Ok(v) /\ ValuesEqual(acc.v, v.val)
                     THEN [acc EXCEPT !.m = Exec(v, c[2]), !.done = TRUE]
                     ELSE [acc EXCEPT !.m = v]
        Cases(a) ==
            LET end == FoldLeft(Try, [m |-> a, v |-> a.val, done |-> FALSE], e.cs)
            IN  IF end.done \/ ~ Ok(end.m) \/ e.d = None THEN end.m ELSE Exec(end.m, e.d)
    IN  Then(Eval(m, e.e), Cases)

Exec(m, s) ==
    CASE s.k = "none"     -> m
      [] s.k = "block"    -> Scoped(m, LAMBDA a : ExecAll(a, s.ss))
      [] s.k = "var"      -> Then(Eval([m EXCEPT !.val = Nil], s.e), LAMBDA a :
                                  IF a.scope > 0 THEN Bind(a, s.x) ELSE Define(a, s.x, a.val))
      [] s.k = "function" -> Define(m, s.x, TreeFn(s))
      [] s.k = "method"   -> Define(m, s.ty \o "_" \o s.x, TreeFn(s))
      [] s.k = "structdecl" ->
           LET made(k) == TreeFn([k |-> k, ty |-> s.ty, fields |-> s.fields])
           IN  Define(Define(Define(Define(m, s.ty \o "_toJSON", made("json")),
                                    s.ty \o "_fromJSON", made("from")),
                             s.ty \o "_toYAML", made("yaml")),
                      s.ty \o "_fromYAML", made("from"))
      [] s.k = "if"     -> Then(Eval(m, s.c), LAMBDA a :
                                Exec(a, IF Untrue(a, a.val) THEN s.b ELSE s.a))
      [] s.k = "while"  -> Loop(m, s.c, None, s.b)
      [] s.k = "for"    -> Scoped(m, LAMBDA a :
                                  Then(IF s.i.k = "var" THEN Exec(a, s.i) ELSE Eval(a, s.i),
                                       LAMBDA b : Loop(b, s.c, s.u, s.b)))
      [] s.k = "for in" -> Then(Eval(m, s.e), LAMBDA a :
             FoldLeft(LAMBDA b, i : Then(b, LAMBDA c :
                          Scoped(c, LAMBDA d : Then(EvalGet(d, a.val, Num(i - 1), TRUE),
                                                    LAMBDA f : Exec(Bind(f, s.x), s.b)))),
                      a, [i \in 1 .. a.val.n |-> i]))
      [] s.k = "switch" -> ExecSwitch(m, s)
      [] s.k = "returns" -> Then(EvalAll(m, s.es), LAMBDA a :
                                 [NewArr(a, a.val) EXCEPT !.flow = "return"])
      [] s.k = "decorated" -> Exec(m, s.s)
      [] s.k = "interface" -> m
      [] s.k = "return" -> Then(Eval([m EXCEPT !.val = Nil], s.e), LAMBDA a :
                                [a EXCEPT !.flow = "return"])
      [] s.k = "expression" -> Eval(m, s.e)
      [] OTHER          -> Eval(m, s)

(***************************************************************************)
(* A sequence of scripts: each goes on from the globals, the heap and the  *)
(* avatars the earlier ones left, also after an error.  Nothing of a       *)
(* script that is no program runs.                                         *)
(***************************************************************************)
IsProgram(ss) == \A i \in 1 .. Len(ss) : ss[i].k # "damaged"

Script(acc, ss) ==
    LET m == ExecAll([acc.m EXCEPT !.flow = "next", !.env = <<>>, !.scope = 0,
                                   !.defers = <<>>, !.depth = 1], ss)
    IN  IF ~ IsProgram(ss) THEN [acc EXCEPT !.results = Append(@, "compile error")]
        ELSE [m |-> m, results |-> Append(acc.results, IF m.flow = "error" THEN "error" ELSE "ok")]

Means(scripts) ==
    LET end == FoldLeft(Script, [m |-> Start, results |-> <<>>], scripts)
    IN  [out |-> end.m.out, results |-> end.results,
         avatars |-> [i \in 1 .. Len(end.m.tasks) |->
                         IF end.m.tasks[i].ok THEN end.m.tasks[i].v ELSE Nil]]
=============================================================================
