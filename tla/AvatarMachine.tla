---------------------------- MODULE AvatarMachine ----------------------------
(***************************************************************************)
(* The second interpreter: avatar_task_func of src/avatar_runtime.c runs a *)
(* launched function on a worker thread.  An avatar has a stack and frames *)
(* of its own and shares the globals and the heap with the machine and the *)
(* other avatars, without a lock.  One step is one instruction; the        *)
(* operators are those of opcode_executor.c, the rest is written again and *)
(* differs from vm.c.                                                      *)
(***************************************************************************)
EXTENDS Machine

CONSTANTS
    Reserve,      \* cells left free above the locals of a nested call (16)
    StepsMax      \* instructions an avatar may execute (100000)

State(i) == avatars[i].state
AFrame(a) == a.frames[a.depth]
AUnit(a)  == image.fns[AFrame(a).f]
AInCode(a) == AFrame(a).ip < Len(AUnit(a).code)
AIns(a)   == AUnit(a).code[AFrame(a).ip + 1]
AConst(a) == AUnit(a).consts[AIns(a).a + 1]
ASlot(a)  == AFrame(a).slots + AIns(a).a + 1

\* Avatar i executes one of the instructions ops.
Avatar(i, ops) ==
    LET a == avatars[i]
    IN  /\ a.state = "running" /\ AInCode(a) /\ a.steps < StepsMax
        /\ AIns(a).op \in ops

Becoming(i, a)   == avatars' = [avatars EXCEPT ![i] = [a EXCEPT !.steps = @ + 1]]
Continue(i, s)   ==
    LET a == avatars[i]
    IN  Becoming(i, [a EXCEPT !.frames[a.depth].ip = @ + 1, !.st = s])
Break(i)         == avatars' = [avatars EXCEPT ![i].state = "failed", ![i].result = Nil]
Others           == UNCHANGED <<code, frames, depth, st, host, status, results>>
SharedUnchanged  == UNCHANGED <<globals, heap, out>>

(***************************************************************************)
(* A worker takes the avatar: the arguments are the first locals, whatever *)
(* the arity, and nothing is reserved above the locals.                    *)
(***************************************************************************)
Begin(i) ==
    /\ State(i) = "queued"
    /\ LET a == avatars[i]
       IN  avatars' = [avatars EXCEPT ![i] =
               [a EXCEPT !.state = "running", !.depth = 1,
                         !.frames = FrameEntry(<<>>, 1, a.f, 0),
                         !.st = Locals(PushAll(Empty, a.args), 0, Len(a.args),
                                       image.fns[a.f].count)]]
    /\ Others /\ SharedUnchanged

\* The instruction pointer has left the code, or the limit is reached.
Stray(i) ==
    /\ State(i) = "running"
    /\ ~ AInCode(avatars[i]) \/ avatars[i].steps >= StepsMax
    /\ Break(i)
    /\ Others /\ SharedUnchanged

(***************************************************************************)
(* Instructions that work on the stack: the stack they leave, or Bad.  A   *)
(* pop stops at the locals of the function that was launched, also in a    *)
(* nested call; "and" and "or" give one of their operands; a modulo by     *)
(* zero is an error.                                                       *)
(***************************************************************************)
Operators == {"ADD", "SUBTRACT", "MULTIPLY", "DIVIDE", "MODULO", "EQUAL", "NOT_EQUAL", "GREATER",
              "GREATER_EQUAL", "LESS", "LESS_EQUAL", "AND", "OR"}
StackOps == {"CONSTANT", "NIL", "TRUE", "FALSE", "POP", "DUP", "GET_LOCAL", "SET_LOCAL", "NOT",
             "NEGATE", "TO_STRING", "LOG", "LOG_PUSH_CTX", "LOG_POP_CTX"} \cup Operators

Operands(op) == CASE op \in Operators \cup {"ARRAY_GET", "OBJECT_GET"}           -> 2
                  [] op \in {"ARRAY_SET", "OBJECT_SET"}                          -> 3
                  [] op \in {"DUP", "SET_LOCAL", "NOT", "NEGATE", "TO_STRING", "SET_GLOBAL",
                             "RETURN", "JUMP_IF_FALSE"}                          -> 1
                  [] OTHER                                                       -> 0
Underflow(a) == a.st.top < Operands(AIns(a).op)

AvatarBinary(op, a, b) ==
    CASE op = "AND"    -> IF Falsey(a) THEN a ELSE b
      [] op = "OR"     -> IF Falsey(a) THEN b ELSE a
      [] op = "MODULO" -> IF b = Num(0) THEN Bad ELSE Arithmetic(op, a, b)
      [] OTHER         -> Binary(op, a, b)

Replace(s, n, v) == IF v = Bad THEN Bad ELSE Push(Drop(s, n), v)

AfterStackOp(a) ==
    LET op == AIns(a).op
        s  == a.st
    IN  CASE op = "CONSTANT"         -> Push(s, AConst(a))
          [] op = "NIL"              -> Push(s, Nil)
          [] op \in {"TRUE", "FALSE"} -> Push(s, Bool(op = "TRUE"))
          [] op = "POP"              -> IF s.top <= image.fns[a.f].count THEN s ELSE Drop(s, 1)
          [] op = "DUP"              -> Push(s, Peek(s, 0))
          [] op = "GET_LOCAL"        -> Push(s, s.cells[ASlot(a)])
          [] op = "SET_LOCAL"        -> SetCell(s, ASlot(a), Peek(s, 0))
          [] op = "NOT"              -> Replace(s, 1, Not(Peek(s, 0)))
          [] op = "NEGATE"           -> Replace(s, 1, Negate(Peek(s, 0)))
          [] op = "TO_STRING"        -> Replace(s, 1, Stringified(Peek(s, 0)))
          [] op = "LOG"              -> IF s.top > 0 THEN Drop(s, 1) ELSE s
          [] op \in Operators        -> Replace(s, 2, AvatarBinary(op, Peek(s, 1), Peek(s, 0)))
          [] OTHER                   -> s

AddsArrays(a) == AIns(a).op = "ADD" /\ a.st.top >= 2 /\ BothArrays(Peek(a.st, 1), Peek(a.st, 0))

Operated(i, s) == IF s = Bad THEN Break(i) ELSE Continue(i, s)

OnStack(i) ==
    /\ Avatar(i, StackOps) /\ ~ AddsArrays(avatars[i])
    /\ LET a == avatars[i]
       IN  Operated(i, IF Underflow(a) THEN Bad ELSE AfterStackOp(a))
    /\ Others /\ SharedUnchanged

(***************************************************************************)
(* A conditional jump takes 0 for false too, and pops the condition when   *)
(* it jumps.                                                               *)
(***************************************************************************)
AvatarJump(i) ==
    /\ Avatar(i, {"JUMP", "JUMP_IF_FALSE", "LOOP"})
    /\ LET a     == avatars[i]
           ins   == AIns(a)
           next  == AFrame(a).ip + 1
           taken == ins.op = "JUMP_IF_FALSE" => AvatarFalsey(Peek(a.st, 0))
           to    == CASE ~ taken          -> next
                      [] ins.op = "LOOP" -> next - ins.a
                      [] OTHER           -> next + ins.a
           s     == IF ins.op = "JUMP_IF_FALSE" /\ taken THEN Drop(a.st, 1) ELSE a.st
       IN  IF Underflow(a) THEN Break(i)
           ELSE Becoming(i, [a EXCEPT !.frames[a.depth].ip = to, !.st = s])
    /\ Others /\ SharedUnchanged

(***************************************************************************)
(* Globals of the machine.  Library functions come first, and a global     *)
(* that holds nil counts as undefined.                                     *)
(***************************************************************************)
Visible(x) == IF x \in Dynamic THEN Str(x)
              ELSE IF GlobalIndex(x) # 0 THEN Global(x) ELSE Nil

AvatarGetGlobal(i) ==
    /\ Avatar(i, {"GET_GLOBAL"})
    /\ LET v == Visible(AConst(avatars[i]).s)
       IN  IF v = Nil THEN Break(i) ELSE Continue(i, Push(avatars[i].st, v))
    /\ Others /\ SharedUnchanged

AvatarSetGlobal(i) ==
    /\ Avatar(i, {"SET_GLOBAL"})
    /\ LET a == avatars[i]
           g == GlobalIndex(AConst(a).s)
       IN  IF Underflow(a) \/ g = 0 THEN Break(i) /\ UNCHANGED globals
           ELSE globals' = [globals EXCEPT ![g][2] = Peek(a.st, 0)] /\ Continue(i, a.st)
    /\ Others /\ UNCHANGED <<heap, out>>

(***************************************************************************)
(* A call inside an avatar gets a frame, with cells left free above its    *)
(* locals; a string is a builtin or an error: there are no methods.        *)
(***************************************************************************)
Reserved(s) == [PushAll(s, [j \in 1 .. (IF s.top + Reserve > Len(s.cells)
                                         THEN s.top + Reserve - Len(s.cells) ELSE 0) |-> Nil])
                EXCEPT !.cells = s.cells \o SubSeq(@, Len(s.cells) + 1, Len(@)),
                       !.top = s.top + Reserve]

AvatarCall(i) ==
    /\ Avatar(i, {"CALL"})
    /\ LET a    == avatars[i]
           argc == AIns(a).a
           f    == Peek(a.st, 0)
           args == Args(a.st, argc)
           base == a.st.top - argc - 1
           r    == IF Is(f, "string") THEN Applied(f.s, args) ELSE [v |-> Bad]
           known == f.t = "string" /\ f.s \in Builtin /\ r.v # Bad
       IN  CASE a.st.top >= argc + 1 /\ Is(f, "function") /\ argc = image.fns[f.f].arity
                  /\ a.depth < FramesMax ->
                  /\ Becoming(i, [a EXCEPT
                         !.frames = FrameEntry([@ EXCEPT ![a.depth].ip = @ + 1],
                                               a.depth + 1, f.f, base),
                         !.depth = @ + 1,
                         !.st = Reserved(Locals(@, base, argc, image.fns[f.f].count))])
                  /\ UNCHANGED out
             [] a.st.top >= argc + 1 /\ known ->
                  /\ Continue(i, Push(Drop(a.st, argc + 1), r.v))
                  /\ out' = out \o r.prints
             [] OTHER -> Break(i) /\ UNCHANGED out
    /\ Others /\ UNCHANGED <<globals, heap>>

AvatarReturnInPlace(i) ==                                   \* mutant
    /\ Avatar(i, {"RETURN"})
    /\ LET a == avatars[i]
           v == Peek(a.st, 0)
       IN  IF a.depth = 1
           THEN avatars' = [avatars EXCEPT ![i].state = "done", ![i].result = v]
           ELSE Becoming(i, [a EXCEPT !.depth = @ - 1, !.st = Push(@, v)])
    /\ Others /\ SharedUnchanged

\* A return runs no deferred call: an avatar has no OP_DEFER.
AvatarReturn(i) ==
    /\ Avatar(i, {"RETURN"})
    /\ LET a == avatars[i]
           v == Peek(a.st, 0)
       IN  CASE Underflow(a) -> Break(i)
             [] ~ Underflow(a) /\ a.depth = 1 ->
                  avatars' = [avatars EXCEPT ![i].state = "done", ![i].result = v]
             [] OTHER ->
                  Becoming(i, [a EXCEPT !.depth = @ - 1,
                                        !.st = Push([@ EXCEPT !.top = AFrame(a).slots], v)])
    /\ Others /\ SharedUnchanged

(***************************************************************************)
(* Arrays and objects live in the heap all threads share.                  *)
(***************************************************************************)
AvatarNew(i) ==
    /\ Avatar(i, {"ARRAY", "OBJECT_NEW", "ADD"})
    /\ AIns(avatars[i]).op = "ADD" => AddsArrays(avatars[i])
    /\ LET a == avatars[i]
           n == AIns(a).a
       IN  CASE AIns(a).op = "ARRAY" ->
                  /\ heap' = NewBlock(heap, Topmost(a.st, n))
                  /\ Continue(i, Push(Drop(a.st, n), Arr(n, Len(heap) + 1)))
             [] AIns(a).op = "OBJECT_NEW" ->
                  Continue(i, Push(a.st, Obj(0, 0))) /\ UNCHANGED heap
             [] AIns(a).op = "ADD" ->
                  LET x == Peek(a.st, 1)
                      y == Peek(a.st, 0)
                  IN  /\ heap' = Concatenation(heap, x, y)
                      /\ Continue(i, Push(Drop(a.st, 2), Arr(x.n + y.n, Len(heap) + 1)))
    /\ Others /\ UNCHANGED <<globals, out>>

AvatarGet(i) ==
    /\ Avatar(i, {"ARRAY_GET", "OBJECT_GET"})
    /\ LET a == avatars[i]
           c == Peek(a.st, 1)
           k == Peek(a.st, 0)
           v == IF AIns(a).op = "ARRAY_GET" THEN ElementGet(heap, c, k) ELSE ObjectGet(heap, c, k)
       IN  CASE Underflow(a)                         -> Break(i) /\ UNCHANGED status
             [] ~ Underflow(a) /\ ~ Readable(heap, c) ->
                  status' = "undefined" /\ UNCHANGED avatars
             [] OTHER -> /\ Operated(i, Replace(a.st, 2, v))
                         /\ UNCHANGED status
    /\ UNCHANGED <<code, frames, depth, st, host, results>> /\ SharedUnchanged

AvatarSet(i) ==
    /\ Avatar(i, {"ARRAY_SET", "OBJECT_SET"})
    /\ LET a == avatars[i]
           x == Peek(a.st, 2)
           y == Peek(a.st, 1)
           z == Peek(a.st, 0)
       IN  CASE ~ Underflow(a) /\ AIns(a).op = "ARRAY_SET" /\ Is(y, "array") /\ Index(y, z) ->
                  /\ heap' = [heap EXCEPT ![y.h].cells[z.n + 1] = x]
                  /\ Continue(i, Push(Drop(a.st, 3), x)) /\ UNCHANGED status
             [] ~ Underflow(a) /\ AIns(a).op = "OBJECT_SET" /\ Is(x, "object") /\ Is(y, "string")
                  /\ Readable(heap, x) ->
                  /\ \E r \in ObjectSet(heap, x, y.s, z) :
                        heap' = r[2] /\ Continue(i, Push(Drop(a.st, 3), r[1]))
                  /\ UNCHANGED status
             [] ~ Underflow(a) /\ AIns(a).op = "OBJECT_SET" /\ Is(x, "object") /\ Is(y, "string")
                  /\ ~ Readable(heap, x) ->
                  status' = "undefined" /\ UNCHANGED <<avatars, heap>>
             [] OTHER -> Break(i) /\ UNCHANGED <<heap, status>>
    /\ UNCHANGED <<code, frames, depth, st, host, results>> /\ UNCHANGED <<globals, out>>

\* Instructions the second interpreter does not have.
Unsupported(i) ==
    /\ Avatar(i, {"DEFER", "AVATAR", "AWAIT", "CLOSURE", "DEFINE_GLOBAL", "HALT", "CONSTANT_LONG",
                  "GET_GLOBAL_LONG", "SET_GLOBAL_LONG", "DEFINE_GLOBAL_LONG"})
    /\ Break(i)
    /\ Others /\ SharedUnchanged

AvatarStep(i) ==
    \/ Begin(i) \/ Stray(i) \/ OnStack(i) \/ AvatarJump(i)
    \/ AvatarGetGlobal(i) \/ AvatarSetGlobal(i) \/ AvatarCall(i) \/ AvatarReturn(i)
    \/ AvatarNew(i) \/ AvatarGet(i) \/ AvatarSet(i) \/ Unsupported(i)

-----------------------------------------------------------------------------
(***************************************************************************)
(* The machine and its avatars, each a thread of its own.                  *)
(***************************************************************************)
AvatarNext == \E i \in DOMAIN avatars : status # "undefined" /\ AvatarStep(i)

\* The scripts are done, or the code has no meaning any more.
Over == /\ status \in {"undefined", "hung"} \/ (status = "idle" /\ todo = <<>>)
        /\ \A i \in DOMAIN avatars : status # "undefined" => State(i) \in {"done", "failed"}
Finished == Over /\ UNCHANGED vars

Next == MachineNext \/ AvatarNext \/ Finished

\* Some thread that can go on does.
Fairness == WF_vars(MachineNext \/ AvatarNext)
=============================================================================
