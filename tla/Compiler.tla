------------------------------ MODULE Compiler ------------------------------
(***************************************************************************)
(* The compiler of src/compiler.c: one pass over the tree that emits the   *)
(* bytecode of a unit (a script or a function) and fills its constants.    *)
(* The state that compiler.c keeps in `current` and its globals is a       *)
(* record s:                                                               *)
(*   u       the unit being compiled                                       *)
(*   outer   the enclosing units, the innermost first                      *)
(*   fns     the functions compiled so far; a function value is an index   *)
(*   spaces  the interface namespaces registered by a directive            *)
(* Code is a sequence of instructions and a jump counts instructions, so   *)
(* an operand that takes one byte or two is one operand here; which of the *)
(* two forms is emitted is kept, because the machines do not treat them    *)
(* alike.                                                                  *)
(***************************************************************************)
EXTENDS Syntax, SequencesExt

CONSTANTS
    ByteMax,      \* the largest operand of one byte (255)
    LocalMax      \* the largest number of locals of a unit (256)

NewUnit(name, arity) ==
    [name |-> name, arity |-> arity, code |-> <<>>, consts |-> <<>>,
     locals |-> <<>>, depth |-> 0, max |-> 0, err |-> FALSE]

\* Names declared in a scope deeper than the current one are forgotten; the
\* slots are not popped, because locals do not live on the expression stack.
BeginScope(s) == [s EXCEPT !.u.depth = @ + 1]
EndScope(s) ==
    LET d == s.u.depth - 1
    IN  [s EXCEPT !.u.depth = d,
                  !.u.locals = SelectSeq(@, LAMBDA l : l.depth <= d)]

\* error_at_node marks the unit being compiled and no other.
Error(s) == [s EXCEPT !.u.err = TRUE]

Emit(s, op, a) == [s EXCEPT !.u.code = Append(@, [op |-> op, a |-> a])]
Op(s, op)      == Emit(s, op, 0)
Here(s)        == Len(s.u.code)

\* The jump emitted as instruction i skips to the next instruction to come.
Patch(s, i)       == [s EXCEPT !.u.code[i].a = Here(s) - i]
EmitLoop(s, start) == Emit(s, "LOOP", Here(s) + 1 - start)

\* The pool only grows: a value used twice takes two places.
AddConstant(s, v) == [s EXCEPT !.u.consts = Append(@, v)]
LastConstant(s)   == Len(s.u.consts) - 1

Wide(op, i)        == IF i <= ByteMax THEN op ELSE op \o "_LONG"
EmitConstant(s, v) ==
    LET c == AddConstant(s, v)
    IN  Emit(c, Wide("CONSTANT", LastConstant(c)), LastConstant(c))
EmitString(s, x) == EmitConstant(s, Str(x))

\* An instruction whose operand names a global, the name added to the pool.
EmitName(s, op, x) ==
    LET c == AddConstant(s, Str(x))
    IN  Emit(c, Wide(op, LastConstant(c)), LastConstant(c))

AddLocal(s, x) ==
    IF Len(s.u.locals) = LocalMax THEN Error(s)
    ELSE LET l == Append(s.u.locals, [name |-> x, depth |-> s.u.depth])
         IN  [s EXCEPT !.u.locals = l,
                       !.u.max = IF Len(l) > @ THEN Len(l) ELSE @]

\* The innermost local of that name, -1 when there is none.
Resolve(s, x) ==
    SelectLastInSeq(s.u.locals, LAMBDA l : l.name = x) - 1

Load(s, x) ==
    IF Resolve(s, x) # -1 THEN Emit(s, "GET_LOCAL", Resolve(s, x))
    ELSE EmitName(s, "GET_GLOBAL", x)
Store(s, x) ==
    IF Resolve(s, x) # -1 THEN Emit(s, "SET_LOCAL", Resolve(s, x))
    ELSE EmitName(s, "SET_GLOBAL", x)

(***************************************************************************)
(* A nested function: its unit becomes the current one, with the           *)
(* parameters as its first locals; leaving it emits the function as a      *)
(* constant of the enclosing unit.  The error mark of the unit that is     *)
(* left is dropped.  count is the function's local_count.                  *)
(***************************************************************************)
Enter(s, name, arity, params) ==
    FoldLeft(AddLocal,
             BeginScope([s EXCEPT !.u = NewUnit(name, arity),
                                  !.outer = <<s.u>> \o @]),
             params)

Leave(s, count) ==
    LET f == [name |-> s.u.name, arity |-> s.u.arity, code |-> s.u.code,
              consts |-> s.u.consts, count |-> count, err |-> s.u.err]
        back == [s EXCEPT !.u = Head(s.outer), !.outer = Tail(@),
                          !.fns = Append(@, f)]
    IN  EmitConstant(back, Fun(Len(back.fns)))

(***************************************************************************)
(* Expressions.                                                            *)
(***************************************************************************)
CompileLiteral(s, v) ==
    CASE v.t = "bool" -> Op(s, IF v.b THEN "TRUE" ELSE "FALSE")
      [] v.t \in {"number", "string"} -> EmitConstant(s, v)
      [] OTHER -> Op(s, "NIL")

BinaryOps == {"ADD", "SUBTRACT", "MULTIPLY", "DIVIDE", "MODULO", "EQUAL", "NOT_EQUAL",
              "GREATER", "GREATER_EQUAL", "LESS", "LESS_EQUAL", "AND", "OR"}
UnaryOps  == {"NEGATE", "NOT"}

Byte(n) == n % (ByteMax + 1)

RECURSIVE CompileExpression(_, _), CompileStatement(_, _)

\* The state is looked at before it is passed on: TLC evaluates an argument
\* where it is used, and would otherwise nest the steps of a whole program.
Eager(t, F(_)) == IF t.u.depth >= 0 THEN F(t) ELSE t

CompileAll(s, es) ==
    FoldLeft(LAMBDA t, e : Eager(t, LAMBDA r : CompileExpression(r, e)), s, es)
CompileStatements(s, ss) ==
    FoldLeft(LAMBDA t, x : Eager(t, LAMBDA r : CompileStatement(r, x)), s, ss)

\* Both operands are computed, also those of "and" and "or".
CompileBinary(s, e) ==
    LET both == CompileAll(s, <<e.l, e.r>>)
    IN  IF e.op \in BinaryOps THEN Op(both, e.op) ELSE Error(both)
CompileUnary(s, e) ==
    LET v == CompileExpression(s, e.e)
    IN  IF e.op \in UnaryOps THEN Op(v, e.op) ELSE Error(v)

CompileInterpolated(s, e) ==
    LET Piece(t, i) ==
            Op(EmitString(Op(Op(CompileExpression(t, e.es[i]), "TO_STRING"), "ADD"),
                          e.parts[i + 1]), "ADD")
    IN  FoldLeft(Piece, EmitString(s, e.parts[1]), [i \in 1 .. Len(e.es) |-> i])

(***************************************************************************)
(* A call pushes the arguments, then the callee.  A method call passes the *)
(* receiver first and names the callee by a string; when the receiver is a *)
(* registered namespace, the name is dotted and there is no receiver.      *)
(* __register_namespace runs here and emits nothing.  The log functions    *)
(* are instructions: they take the message and leave nothing.              *)
(***************************************************************************)
LogFunctions == {"log_fatal", "log_error", "log_warning", "log_info", "log_debug"}

CompileCall(s, e) ==
    LET f == e.f
        n == Len(e.args)
        logs      == f.k = "identifier" /\ f.x \in LogFunctions
        directive == /\ f = Id("__register_namespace")
                     /\ n = 1
                     /\ e.args[1].k = "literal" /\ e.args[1].v.t = "string"
    IN  CASE f.k = "member" /\ f.o.k = "identifier" /\ f.o.x \in s.spaces ->
               Emit(EmitString(CompileAll(s, e.args), f.o.x \o "." \o f.p), "CALL", Byte(n))
          [] f.k = "member" /\ ~ (f.o.k = "identifier" /\ f.o.x \in s.spaces) ->
               Emit(EmitString(CompileAll(s, <<f.o>> \o e.args), f.p), "CALL", Byte(n + 1))
          [] directive -> [s EXCEPT !.spaces = @ \cup {e.args[1].v.s}]
          [] logs -> Op(CompileExpression(s, e.args[1]), "LOG")
          [] f.k # "member" /\ ~ directive /\ ~ logs ->
               Emit(CompileExpression(CompileAll(s, e.args), f), "CALL", Byte(n))

\* [a, b] = value: the value stays on the stack while each element is stored.
CompileDestructuring(s, e) ==
    LET es == e.target.es
        Element(t, i) ==
            Op(Store(Op(EmitConstant(Op(t, "DUP"), Num(i - 1)), "ARRAY_GET"), es[i].x), "POP")
        bad == {i \in 1 .. Len(es) : es[i].k # "identifier"}
        upTo == IF bad = {} THEN Len(es) ELSE (CHOOSE i \in bad : \A j \in bad : i <= j) - 1
        done == FoldLeft(Element, CompileExpression(s, e.e), [i \in 1 .. upTo |-> i])
    IN  IF bad = {} THEN done ELSE Error(done)

CompileAssignment(s, e) ==
    LET to == e.target
        operand == IF e.op = "=" THEN s ELSE Load(s, to.x)
        value   == CompileExpression(operand, e.e)
        combined == IF e.op = "=" THEN value
                    ELSE Op(value, IF e.op = "+=" THEN "ADD" ELSE "SUBTRACT")
    IN  CASE to.k = "array" /\ e.op = "="    -> CompileDestructuring(s, e)
          [] to.k = "identifier"             -> Store(combined, to.x)
          [] to.k = "access"                 -> Op(CompileAll(s, <<e.e, to.a, to.i>>), "ARRAY_SET")
          [] to.k = "member"                 ->
               Op(CompileExpression(EmitString(CompileExpression(s, to.o), to.p), e.e), "OBJECT_SET")
          [] OTHER                           -> Error(s)

CompileArray(s, e) == Emit(CompileAll(s, e.es), "ARRAY", Byte(Len(e.es)))

\* Every property but the last is set on a duplicate; the index of its name
\* is cut to a byte, without a long form.
CompileObject(s, e) ==
    LET n == Len(e.ps)
        Property(t, i) ==
            LET d == IF i < n THEN Op(t, "DUP") ELSE t
                c == AddConstant(d, Str(e.ps[i][1]))
                k == Emit(c, "CONSTANT", Byte(LastConstant(c)))
            IN  Op(CompileExpression(k, e.ps[i][2]), "OBJECT_SET")
    IN  FoldLeft(Property, Op(s, "OBJECT_NEW"), [i \in 1 .. n |-> i])

SetProperty(s, key, e) == Op(CompileExpression(EmitString(s, key), e), "OBJECT_SET")
NewInstance(s, ty) ==
    Op(EmitString(EmitString(Op(s, "OBJECT_NEW"), "__type"), ty), "OBJECT_SET")
CompileStruct(s, e) ==
    FoldLeft(LAMBDA t, p : SetProperty(t, p[1], p[2]), NewInstance(s, e.ty), e.ps)

CompileAccess(s, e) == Op(CompileAll(s, <<e.a, e.i>>), "ARRAY_GET")
CompileMember(s, e) == Op(EmitString(CompileExpression(s, e.o), e.p), "OBJECT_GET")

CompileAnonymous(s, e) ==
    LET body == CompileStatement(Enter(s, "<anonymous>", Len(e.params), e.params), e.body)
        end  == Op(Op(body, "NIL"), "RETURN")
    IN  Leave(end, end.u.max)

\* avatar f(args) pushes the function first, unlike a call.
CompileAvatar(s, e) ==
    IF e.call.k = "fn" THEN Emit(CompileExpression(s, e.call), "AVATAR", 0)
    ELSE Emit(CompileAll(s, <<e.call.f>> \o e.call.args), "AVATAR", Byte(Len(e.call.args)))

CompileAwait(s, e) ==
    Op(IF e.e = None THEN Op(s, "NIL") ELSE CompileExpression(s, e.e), "AWAIT")

CompileDefer(s, e) ==
    IF e.call.k # "call" THEN Error(s)
    ELSE Emit(CompileAll(s, e.call.args \o <<e.call.f>>), "DEFER", Byte(Len(e.call.args)))

CompileExpression(s, e) ==
    CASE e.k \in {"none", "error"} -> s
      [] e.k = "literal"      -> CompileLiteral(s, e.v)
      [] e.k = "identifier"   -> Load(s, e.x)
      [] e.k = "binary"       -> CompileBinary(s, e)
      [] e.k = "unary"        -> CompileUnary(s, e)
      [] e.k = "call"         -> CompileCall(s, e)
      [] e.k = "assign"       -> CompileAssignment(s, e)
      [] e.k = "interpolated" -> CompileInterpolated(s, e)
      [] e.k = "fn"           -> CompileAnonymous(s, e)
      [] e.k = "array"        -> CompileArray(s, e)
      [] e.k = "object"       -> CompileObject(s, e)
      [] e.k = "struct"       -> CompileStruct(s, e)
      [] e.k = "access"       -> CompileAccess(s, e)
      [] e.k = "member"       -> CompileMember(s, e)
      [] e.k = "await"        -> CompileAwait(s, e)
      [] e.k = "avatar"       -> CompileAvatar(s, e)
      [] e.k = "defer"        -> CompileDefer(s, e)
      [] OTHER                -> Error(s)

(***************************************************************************)
(* Statements.                                                             *)
(***************************************************************************)
\* A local takes its slot before its initialiser is compiled.
CompileVar(s, e) ==
    LET init(t) == IF e.e = None THEN Op(t, "NIL") ELSE CompileExpression(t, e.e)
        c == AddConstant(s, Str(e.x))
    IN  IF s.u.depth > 0
        THEN Op(Emit(init(AddLocal(s, e.x)), "SET_LOCAL", Len(s.u.locals)), "POP")
        ELSE Emit(init(c), Wide("DEFINE_GLOBAL", LastConstant(c)), LastConstant(c))

\* What surrounds the unit of a named function, method or generated method:
\* its name is the first constant, the definition follows its unit.
Named(s, name)  == Emit(AddConstant(s, Str(name)), "LOG_PUSH_CTX", Len(s.u.consts))
Defined(s, i)   == Op(Emit(s, Wide("DEFINE_GLOBAL", i), i), "LOG_POP_CTX")

CompileFunction(s, e) ==
    IF Len(s.u.consts) > ByteMax THEN Error(AddConstant(s, Str(e.x)))
    ELSE LET body == CompileStatements(Enter(Named(s, e.x), e.x, Len(e.params), e.params), e.ss)
             end  == Op(Op(body, "NIL"), "RETURN")
         IN  Defined(Leave(end, end.u.max), Len(s.u.consts))

\* A method is a function named after its type; its local_count stays 0.
CompileMethod(s, e) ==
    LET name == e.ty \o "_" \o e.x
        body == CompileStatements(
                    Enter(Named(s, name), name, Len(e.params) + 1, <<"this">> \o e.params), e.ss)
    IN  IF Len(s.u.consts) > ByteMax THEN Error(AddConstant(s, Str(name)))
        ELSE Defined(Leave(Op(Op(body, "NIL"), "RETURN"), 0), Len(s.u.consts))

\* The methods every struct is given.  They have no logging context when the
\* pool is past a byte, and local_count 0 like every method.
Generated(s, name, param, body(_)) ==
    LET i    == Len(s.u.consts)
        open == IF i <= ByteMax THEN Named(s, name) ELSE AddConstant(s, Str(name))
        made == Leave(Op(body(Enter(open, name, 1, <<param>>)), "RETURN"), 0)
    IN  IF i <= ByteMax THEN Defined(made, i) ELSE Emit(made, "DEFINE_GLOBAL_LONG", i)

Field(s, x) == Op(EmitString(Emit(s, "GET_LOCAL", 0), x), "OBJECT_GET")
Plus(s, x)  == Op(EmitString(s, x), "ADD")

ToJSON(s, ty, fields) ==
    LET n == Len(fields)
        Line(t, i) ==
            LET v == Op(Op(Field(Plus(Emit(t, "GET_LOCAL", 1), "'" \o fields[i] \o "': "),
                                 fields[i]), "TO_STRING"), "ADD")
            IN  Op(Emit(IF i < n THEN Plus(v, ", ") ELSE v, "SET_LOCAL", 1), "POP")
        body(t) ==
            LET r == Op(AddLocal(Op(t, "NIL"), "__json_result"), "POP")
                o == Op(Emit(EmitString(r, "{"), "SET_LOCAL", 1), "POP")
            IN  Plus(Emit(FoldLeft(Line, o, [i \in 1 .. n |-> i]), "GET_LOCAL", 1), "}")
    IN  Generated(s, ty \o "_toJSON", "this", body)

ToYAML(s, ty, fields) ==
    LET Line(t, i) ==
            LET v == Plus(Op(Op(Field(EmitString(t, fields[i] \o ": "), fields[i]),
                                "TO_STRING"), "ADD"), ";")
            IN  IF i > 1 THEN Op(v, "ADD") ELSE v
        body(t) == FoldLeft(Line, t, [i \in 1 .. Len(fields) |-> i])
    IN  Generated(s, ty \o "_toYAML", "this", body)

FromData(s, ty, suffix, fields) ==
    LET Copy(t, x) == Op(Field(EmitString(t, x), x), "OBJECT_SET")
        body(t)    == FoldLeft(Copy, NewInstance(t, ty), fields)
    IN  Generated(s, ty \o suffix, "data", body)

CompileStructDecl(s, e) ==
    FromData(ToYAML(FromData(ToJSON(s, e.ty, e.fields), e.ty, "_fromJSON", e.fields),
                    e.ty, e.fields), e.ty, "_fromYAML", e.fields)

\* One test after another; the value stays below the comparison until a case
\* is taken.  The end of every body jumps over all that follows.
CompileSwitch(s, e) ==
    LET Case(acc, c) ==
            LET test == Emit(Op(CompileExpression(Op(acc.s, "DUP"), c[1]), "EQUAL"),
                             "JUMP_IF_FALSE", 0)
                body == Emit(CompileStatement(Op(Op(test, "POP"), "POP"), c[2]), "JUMP", 0)
            IN  [s |-> Op(Patch(body, Here(test)), "POP"), ends |-> Append(acc.ends, Here(body))]
        tests == FoldLeft(Case, [s |-> CompileExpression(s, e.e), ends |-> <<>>], e.cs)
        all   == Op(tests.s, "POP")
        last  == IF e.d = None THEN all ELSE CompileStatement(all, e.d)
    IN  FoldLeft(Patch, last, tests.ends)

CompileIf(s, e) ==
    LET test == Emit(CompileExpression(s, e.c), "JUMP_IF_FALSE", 0)
        then == Emit(CompileStatement(Op(test, "POP"), e.a), "JUMP", 0)
        else == Op(Patch(then, Here(test)), "POP")
        all  == IF e.b = None THEN else ELSE CompileStatement(else, e.b)
    IN  Patch(all, Here(then))

\* A body that is no block gets a scope of its own.
CompileBody(s, b) ==
    IF b.k = "block" THEN CompileStatement(s, b)
    ELSE EndScope(CompileStatement(BeginScope(s), b))

CompileWhile(s, e) ==
    LET test == Emit(CompileExpression(s, e.c), "JUMP_IF_FALSE", 0)
        loop == EmitLoop(CompileBody(Op(test, "POP"), e.b), Here(s))
    IN  Op(Patch(loop, Here(test)), "POP")

CompileFor(s, e) ==
    LET open == BeginScope(s)
        init == CASE e.i = None    -> open
                  [] e.i.k = "var" -> CompileVar(open, e.i)
                  [] OTHER         -> Op(CompileExpression(open, e.i), "POP")
        test == IF e.c = None THEN init
                ELSE Emit(CompileExpression(init, e.c), "JUMP_IF_FALSE", 0)
        body == CompileBody(IF e.c = None THEN test ELSE Op(test, "POP"), e.b)
        step == IF e.u = None THEN body ELSE Op(CompileExpression(body, e.u), "POP")
        loop == EmitLoop(step, Here(init))
    IN  EndScope(IF e.c = None THEN loop ELSE Op(Patch(loop, Here(test)), "POP"))

CompileReturn(s, e) ==
    Op(IF e.e = None THEN Op(s, "NIL") ELSE CompileExpression(s, e.e), "RETURN")

CompileBlock(s, e) == EndScope(CompileStatements(BeginScope(s), e.ss))

\* An avatar or a defer in statement position leaves its value on the stack;
\* everything that is no statement is an expression whose value is popped.
CompileStatement(s, e) ==
    CASE e.k \in {"none", "error", "interface"} -> s
      [] e.k = "block"      -> CompileBlock(s, e)
      [] e.k = "var"        -> CompileVar(s, e)
      [] e.k = "function"   -> CompileFunction(s, e)
      [] e.k = "structdecl" -> CompileStructDecl(s, e)
      [] e.k = "method"     -> CompileMethod(s, e)
      [] e.k = "if"         -> CompileIf(s, e)
      [] e.k = "while"      -> CompileWhile(s, e)
      [] e.k = "for"        -> CompileFor(s, e)
      [] e.k = "switch"     -> CompileSwitch(s, e)
      [] e.k = "return"     -> CompileReturn(s, e)
      [] e.k = "avatar"     -> CompileAvatar(s, e)
      [] e.k = "defer"      -> CompileDefer(s, e)
      [] e.k = "expression" -> Op(CompileExpression(s, e.e), "POP")
      [] OTHER              -> Op(CompileExpression(s, e), "POP")

(***************************************************************************)
(* A script: its statements at scope depth 0, so that its variables are    *)
(* globals.  Its own error mark decides whether there is a function.       *)
(***************************************************************************)
Fresh == [u |-> NewUnit("script", 0), outer |-> <<>>, fns |-> <<>>, spaces |-> {}]

CompileScript(s, ss) ==
    LET c == Op(CompileStatements([s EXCEPT !.u = NewUnit("script", 0)], ss), "HALT")
        f == [name |-> "script", arity |-> 0, code |-> c.u.code, consts |-> c.u.consts,
              count |-> c.u.max, err |-> c.u.err]
    IN  [c EXCEPT !.fns = Append(@, f)]
=============================================================================
