------------------------------ MODULE Machine ------------------------------
(***************************************************************************)
(* The interpreter of src/vm.c.  A virtual machine interprets one script   *)
(* after another (a REPL line, a file) with the same globals; a step is    *)
(* one instruction.  A library function may call back into the machine     *)
(* (call_kuyil_function) or interpret a module (import): then the C stack  *)
(* holds an interpreter below the one that runs, which `host` records.     *)
(***************************************************************************)
EXTENDS Bytecode

CONSTANTS
    DefersMax,        \* deferred calls of a frame (16)
    GlobalsMax        \* globals of a machine (2048)

VARIABLES
    image,      \* what the front end made of the program, see FrontEnd
    todo,       \* the scripts still to be interpreted
    frames,     \* CallFrame frames[]; entries above depth keep what they held
    depth,      \* frame_count
    st,         \* stack and stack_top
    globals,    \* <<name, value>> pairs, in the order of definition
    heap,
    out,        \* what was printed
    avatars,    \* the avatars launched, see AvatarMachine
    host,       \* calls: the C functions that interpret further code; imported: the modules run
    status,     \* "idle", "run", "hung", or "undefined" once C leaves the result open
    results     \* what vm_interpret returned for the scripts so far

code == <<image, todo>>
vars == <<image, todo, frames, depth, st, globals, heap, out, avatars, host, status, results>>

\* The library functions the scripts call: apply(f, x) calls f back, as the
\* HTTP library does with a handler; import interprets a module; the other
\* two are called by an interface block.
Interfaces == {"lib"}
Reentrant  == {"lib.apply", "import"}
Dynamic    == Reentrant \cup {"bind_interface_method", "dlopen_only"}
Builtin    == {"print", "typeof", "array_length"}

Running == status = "run" /\ depth > 0
Frame   == frames[depth]
Unit    == image.fns[Frame.f]
InCode  == Frame.ip < Len(Unit.code)
Ins     == Unit.code[Frame.ip + 1]
At(ops) == Running /\ InCode /\ Ins.op \in ops
Const   == Unit.consts[Ins.a + 1]
Slot(i) == Frame.slots + i + 1

Goto(ip)   == [frames EXCEPT ![depth].ip = ip]
Advance(s) == frames' = Goto(Frame.ip + 1) /\ st' = s

GlobalIndex(x) == SelectInSeq(globals, LAMBDA g : g[1] = x)
Defined(x)     == GlobalIndex(x) # 0 \/ x \in Dynamic
ValueAt(i, x)  == IF i # 0 THEN globals[i][2] ELSE Str(x)
Global(x)      == ValueAt(GlobalIndex(x), x)

(***************************************************************************)
(* vm_run returns r: to vm_interpret, or to the library function that      *)
(* started it, which restores what it saved and returns a value in the     *)
(* place of its arguments.  Only the frame count is restored, not the      *)
(* frames below it.  s is the stack vm_run leaves.                         *)
(***************************************************************************)
Rest(s, saved) ==
    [cells |-> SubSeq(saved.cells, 1, saved.top) \o
               SubSeq(s.cells, saved.top + 1, Len(s.cells)),
     top   |-> saved.top]

ReturnTo(d, r, s, fr) ==
    IF host.calls = <<>>
    THEN /\ status' = "idle" /\ results' = Append(results, r)
         /\ st' = s /\ frames' = fr /\ depth' = 0
         /\ UNCHANGED host
    ELSE LET h == Head(host.calls)
             done  == h.kind = "import" /\ r = "ok"
             value == CASE h.kind = "apply" /\ r = "ok" /\ s.top > 0 -> s.cells[s.top]
                        [] h.kind = "import" -> IF r = "ok" THEN Str("module") ELSE Bool(FALSE)
                        [] OTHER -> Nil
             back  == IF h.kind = "apply" THEN Rest(s, h.saved) ELSE [s EXCEPT !.top = h.saved.top]
         IN  /\ host' = [calls |-> Tail(host.calls),
                         imported |-> host.imported \cup (IF done THEN {h.path} ELSE {})]
             /\ frames' = fr
             /\ depth' = IF h.kind = "apply" THEN h.depth ELSE d
             /\ st' = Push(Drop(back, h.argc + 1), value)
             /\ UNCHANGED <<status, results>>
EndRun(r, s, fr) == ReturnTo(IF r = "error" THEN 0 ELSE depth, r, s, fr)

\* runtime_error empties the stack and the frames.
Fail == /\ EndRun("error", [st EXCEPT !.top = 0], frames)
        /\ UNCHANGED <<code, globals, heap, out, avatars>>
Undefine == status' = "undefined" /\ UNCHANGED <<code, frames, depth, st, globals, heap, out, avatars, host, results>>

(***************************************************************************)
(* vm_interpret: the script becomes frame 0, its locals start at the base  *)
(* of the stack.  A script that did not compile is not run; the parser may *)
(* never return (image.stuck).                                             *)
(***************************************************************************)
Interpret ==
    /\ status = "idle" /\ todo # <<>>
    /\ LET f == Head(todo)
       IN  IF f \in image.stuck
           THEN status' = "hung" /\ UNCHANGED <<frames, depth, st, results>>
           ELSE IF image.fns[f].err
           THEN /\ results' = Append(results, "compile error")
                /\ UNCHANGED <<frames, depth, st, status>>
           ELSE /\ frames' = FrameEntry(frames, 1, f, 0)
                /\ depth' = 1
                /\ st' = Locals(st, 0, 0, image.fns[f].count)
                /\ status' = "run"
                /\ UNCHANGED results
    /\ todo' = Tail(todo)
    /\ UNCHANGED <<image, globals, heap, out, avatars, host>>

\* The loop of vm_run looks at the frame count and the instruction pointer first.
NoFrame ==
    /\ status = "run" /\ depth = 0
    /\ EndRun("ok", st, frames)
    /\ UNCHANGED <<code, globals, heap, out, avatars>>

OutsideCode == Running /\ ~ InCode /\ Fail

(***************************************************************************)
(* Values on the stack, variables, operators.                              *)
(***************************************************************************)
Constant ==
    /\ At({"CONSTANT", "CONSTANT_LONG", "CLOSURE"})
    /\ Advance(Push(st, Const))
    /\ UNCHANGED <<code, depth, globals, heap, out, avatars, host, status, results>>

Literal ==
    /\ At({"NIL", "TRUE", "FALSE"})
    /\ Advance(Push(st, IF Ins.op = "NIL" THEN Nil ELSE Bool(Ins.op = "TRUE")))
    /\ UNCHANGED <<code, depth, globals, heap, out, avatars, host, status, results>>

Pop ==
    /\ At({"POP"})
    /\ Advance(IF st.top > 0 THEN Drop(st, 1) ELSE st)
    /\ UNCHANGED <<code, depth, globals, heap, out, avatars, host, status, results>>

Dup ==
    /\ At({"DUP"})
    /\ Advance(Push(st, Peek(st, 0)))
    /\ UNCHANGED <<code, depth, globals, heap, out, avatars, host, status, results>>

\* A definition appends, also when the name exists; the first one is found.
\* One too many empties the stack and then pops below its base.
DefineGlobal ==
    /\ At({"DEFINE_GLOBAL", "DEFINE_GLOBAL_LONG"})
    /\ \/ /\ Len(globals) < GlobalsMax
          /\ globals' = Append(globals, <<Const.s, Peek(st, 0)>>)
          /\ Advance(Drop(st, 1))
          /\ UNCHANGED <<code, depth, heap, out, avatars, host, status, results>>
       \/ Len(globals) >= GlobalsMax /\ Undefine

\* Only the short form knows the interface namespaces.
GetGlobal ==
    /\ At({"GET_GLOBAL", "GET_GLOBAL_LONG"})
    /\ \/ /\ Defined(Const.s)
          /\ Advance(Push(st, Global(Const.s)))
          /\ UNCHANGED <<code, depth, globals, heap, out, avatars, host, status, results>>
       \/ /\ ~ Defined(Const.s) /\ Ins.op = "GET_GLOBAL" /\ Const.s \in Interfaces
          /\ Advance(Push(st, Const))
          /\ UNCHANGED <<code, depth, globals, heap, out, avatars, host, status, results>>
       \/ /\ ~ Defined(Const.s)
          /\ ~ (Ins.op = "GET_GLOBAL" /\ Const.s \in Interfaces)
          /\ Fail

SetGlobal ==
    /\ At({"SET_GLOBAL", "SET_GLOBAL_LONG"})
    /\ \/ /\ GlobalIndex(Const.s) # 0
          /\ globals' = [globals EXCEPT ![GlobalIndex(Const.s)][2] = Peek(st, 0)]
          /\ Advance(st)
          /\ UNCHANGED <<code, depth, heap, out, avatars, host, status, results>>
       \/ GlobalIndex(Const.s) = 0 /\ Fail

GetLocal ==
    /\ At({"GET_LOCAL"})
    /\ Advance(Push(st, st.cells[Slot(Ins.a)]))
    /\ UNCHANGED <<code, depth, globals, heap, out, avatars, host, status, results>>

SetLocalOneBelow ==                                         \* mutant
    /\ At({"SET_LOCAL"})
    /\ Advance(SetCell(st, Slot(Ins.a) - 1, Peek(st, 0)))
    /\ UNCHANGED <<code, depth, globals, heap, out, avatars, host, status, results>>
SetLocal ==
    /\ At({"SET_LOCAL"})
    /\ Advance(SetCell(st, Slot(Ins.a), Peek(st, 0)))
    /\ UNCHANGED <<code, depth, globals, heap, out, avatars, host, status, results>>

\* "and" and "or" give booleans, a modulo by zero gives NaN.
Logical(op, a, b) ==
    Bool(IF op = "AND" THEN ~ Falsey(a) /\ ~ Falsey(b) ELSE ~ Falsey(a) \/ ~ Falsey(b))
Modulo(a, b) == IF Is(a, "number") /\ b = Num(0) THEN Num(NaN) ELSE Arithmetic("MODULO", a, b)

\* n operands make way for the value, unless the operator reports an error.
Operate(n, v) ==
    IF v = Bad THEN Fail
    ELSE /\ Advance(Push(Drop(st, n), v))
         /\ UNCHANGED <<code, depth, globals, heap, out, avatars, host, status, results>>

BinaryOperator ==
    /\ At({"ADD", "SUBTRACT", "MULTIPLY", "DIVIDE", "MODULO", "EQUAL", "NOT_EQUAL", "GREATER",
           "GREATER_EQUAL", "LESS", "LESS_EQUAL", "AND", "OR"})
    /\ ~ (Ins.op = "ADD" /\ BothArrays(Peek(st, 1), Peek(st, 0)))
    /\ LET a == Peek(st, 1)
           b == Peek(st, 0)
           v == CASE Ins.op \in {"AND", "OR"} -> Logical(Ins.op, a, b)
                  [] Ins.op = "MODULO"        -> Modulo(a, b)
                  [] OTHER                    -> Binary(Ins.op, a, b)
       IN  Operate(2, v)

Concatenate ==
    /\ At({"ADD"}) /\ BothArrays(Peek(st, 1), Peek(st, 0))
    /\ heap' = Concatenation(heap, Peek(st, 1), Peek(st, 0))
    /\ Advance(Push(Drop(st, 2), Arr(Peek(st, 1).n + Peek(st, 0).n, Len(heap) + 1)))
    /\ UNCHANGED <<code, depth, globals, out, avatars, host, status, results>>

UnaryOperator ==
    /\ At({"NOT", "NEGATE", "TO_STRING"})
    /\ LET a == Peek(st, 0)
           v == CASE Ins.op = "NOT"       -> Not(a)
                  [] Ins.op = "NEGATE"    -> Negate(a)
                  [] Ins.op = "TO_STRING" -> Stringified(a)
       IN  Operate(1, v)

\* The condition stays on the stack whichever way a conditional jump goes.
Jump ==
    /\ At({"JUMP", "JUMP_IF_FALSE", "LOOP"})
    /\ LET next == Frame.ip + 1
           taken == Ins.op = "JUMP_IF_FALSE" => Falsey(Peek(st, 0))
       IN  frames' = Goto(CASE ~ taken        -> next
                            [] Ins.op = "LOOP" -> next - Ins.a
                            [] OTHER           -> next + Ins.a)
    /\ UNCHANGED <<code, depth, st, globals, heap, out, avatars, host, status, results>>

\* A message is popped and nothing is pushed for it.
LogMessage ==
    /\ At({"LOG"})
    /\ Advance(Drop(st, 1))
    /\ UNCHANGED <<code, depth, globals, heap, out, avatars, host, status, results>>

LogContext ==
    /\ At({"LOG_PUSH_CTX", "LOG_POP_CTX"})
    /\ Advance(st)
    /\ UNCHANGED <<code, depth, globals, heap, out, avatars, host, status, results>>

(***************************************************************************)
(* Calls.  The callee is on top, above its arguments.  A string callee is  *)
(* a library function (after a namespace receiver, its dotted name), a     *)
(* builtin, or a method of the type the receiver is tagged with.           *)
(***************************************************************************)
Args(s, argc)  == SubSeq(s.cells, s.top - argc, s.top - 1)
Receiver(args) == IF args = <<>> THEN Nil ELSE args[1]

Dotted(name, args) ==
    IF /\ name \notin Dynamic /\ Is(Receiver(args), "string")
       /\ Receiver(args).s \in Interfaces
    THEN [name |-> Receiver(args).s \o "." \o name, args |-> Tail(args), spaced |-> TRUE]
    ELSE [name |-> name, args |-> args, spaced |-> FALSE]

TypeTag(r) == IF Is(r, "object") THEN FieldOf(heap, r, "__type") ELSE Nil
MethodOf(type, name) == IF Is(type, "string") THEN Global(type.s \o "_" \o name) ELSE Nil
Method(name, args) == MethodOf(TypeTag(Receiver(args)), name)

Span(a, b) == [i \in 1 .. (IF b > a THEN b - a ELSE 0) |-> Num(a + i - 1)]

\* A builtin on its arguments: what it returns, prints and allocates.  No
\* library can be opened here, and without one every method is taken as bound.
Applied(name, args) ==
    LET is(n) == Len(args) = n
        value(v) == [v |-> v, prints |-> <<>>, cells |-> <<>>]
    IN  CASE name = "print" /\ args # <<>> ->
               [v |-> Nil, prints |-> << [i \in 1 .. Len(args) |-> Shown(heap, args[i])] >>,
                cells |-> <<>>]
          [] name = "typeof" /\ is(1) -> value(Str(args[1].t))
          [] name = "array_length" ->
               value(Num(IF Is(Receiver(args), "array") THEN args[1].n ELSE 0))
          [] name = "__range" /\ is(2) /\ Is(args[1], "number") /\ Is(args[2], "number") ->
               [v |-> Arr(Len(Span(args[1].n, args[2].n)), Len(heap) + 1), prints |-> <<>>,
                cells |-> Span(args[1].n, args[2].n)]
          [] name \in Dynamic -> value(Bool(name = "bind_interface_method"))
          [] OTHER -> value(Bad)

(***************************************************************************)
(* call_value on m = [frames, depth, st, heap, out]: a function gets a     *)
(* frame, a builtin is done at once.  m.ok is FALSE after runtime_error,   *)
(* which has emptied the machine.                                          *)
(***************************************************************************)
Failed(m) == [m EXCEPT !.depth = 0, !.st.top = 0, !.ok = FALSE]

CallFunction(m, f, argc) ==
    LET base == m.st.top - argc - 1
    IN  IF argc # image.fns[f].arity \/ m.depth >= FramesMax THEN Failed(m)
        ELSE [m EXCEPT !.frames = FrameEntry(m.frames, m.depth + 1, f, base),
                       !.depth = @ + 1,
                       !.st = Locals(@, base, argc, image.fns[f].count)]

CallBuiltin(m, r, argc) ==
    IF r.v = Bad THEN Failed(m)
    ELSE [m EXCEPT !.st = Push(Drop(@, argc + 1), r.v),
                   !.out = @ \o r.prints,
                   !.heap = IF Is(r.v, "array") THEN NewBlock(@, r.cells) ELSE @]

CallNamed(m, name, method, argc) ==
    IF name \notin Builtin /\ Is(method, "function")
    THEN CallFunction([m EXCEPT !.st = Push(Drop(@, 1), method)], method.f, argc)
    ELSE CallBuiltin(m, Applied(name, Args(m.st, argc)), argc)

CallValue(m, callee, argc) ==
    CASE Is(callee, "function") -> CallFunction(m, callee.f, argc)
      [] Is(callee, "string") ->
           CallNamed(m, callee.s, Method(callee.s, Args(m.st, argc)), argc)
      [] OTHER -> Failed(m)

Now(fr) == [frames |-> fr, depth |-> depth, st |-> st, heap |-> heap, out |-> out, ok |-> TRUE]
Becomes(m) ==
    /\ frames' = m.frames /\ depth' = m.depth /\ st' = m.st /\ heap' = m.heap /\ out' = m.out
    /\ UNCHANGED <<code, globals, avatars, host, status, results>>

Callee  == Peek(st, 0)
Library == Dotted(Callee.s, Args(st, Ins.a))
IsLibraryCall ==
    Is(Callee, "string") /\ (Library.spaced \/ Library.name \in Reentrant)

Call ==
    /\ At({"CALL"}) /\ ~ IsLibraryCall
    /\ \E m \in {CallValue(Now(Goto(Frame.ip + 1)), Callee, Ins.a)} :
          IF m.ok THEN Becomes(m) ELSE Fail

\* The dotted name of a namespace that has no such function.
CallUnknown == At({"CALL"}) /\ IsLibraryCall /\ Library.name \notin Reentrant /\ Fail

(***************************************************************************)
(* call_kuyil_function, from a library function the script called: the     *)
(* values in use are saved, the frame count starts again from 0, so that   *)
(* the callback runs in frame 0 at the base of the stack.                  *)
(***************************************************************************)
Within(call) == [host EXCEPT !.calls = <<call>> \o @]

CallBack ==
    /\ At({"CALL"}) /\ IsLibraryCall /\ Library.name = "lib.apply"
    /\ LET args == Library.args
           f    == Receiver(args)
           here == Goto(Frame.ip + 1)
           clean == PushAll([st EXCEPT !.top = 0], Tail(args) \o <<f>>)
       IN  IF ~ Is(f, "function")
           THEN /\ frames' = here /\ st' = Push(Drop(st, Ins.a + 1), Nil)
                /\ UNCHANGED <<depth, host>>
           ELSE /\ host' = Within([kind |-> "apply", argc |-> Ins.a, depth |-> depth, saved |-> st])
                /\ frames' = FrameEntry(here, 1, f.f, 0)
                /\ depth' = 1
                /\ st' = Locals(clean, 0, Len(args) - 1, image.fns[f.f].count)
    /\ UNCHANGED <<code, globals, heap, out, avatars, status, results>>

\* import interprets the module in the running machine, unless it has run
\* before: one more frame, whose slots start at the top of the stack; nothing
\* is reserved for its locals.
Import ==
    /\ At({"CALL"}) /\ IsLibraryCall /\ Library.name = "import"
    /\ LET path == Receiver(Library.args).s
           f    == image.modules[path]
           here == Goto(Frame.ip + 1)
           answer(b) == /\ frames' = here /\ st' = Push(Drop(st, Ins.a + 1), Bool(b))
                        /\ UNCHANGED <<depth, host, status>>
       IN  CASE path \in host.imported -> answer(TRUE)
             [] path \notin host.imported /\ f \in image.stuck ->
                  status' = "hung" /\ UNCHANGED <<frames, depth, st, host>>
             [] path \notin host.imported /\ f \notin image.stuck
                  /\ (image.fns[f].err \/ depth >= FramesMax) -> answer(FALSE)
             [] OTHER ->
                  /\ host' = Within([kind |-> "import", argc |-> Ins.a, saved |-> st, path |-> path])
                  /\ frames' = FrameEntry(here, depth + 1, f, st.top)
                  /\ depth' = depth + 1
                  /\ UNCHANGED <<st, status>>
    /\ UNCHANGED <<code, globals, heap, out, avatars, results>>

(***************************************************************************)
(* OP_RETURN runs the deferred calls of the frame, the last one first.     *)
(* call_value gives a deferred function a frame and no more; the value     *)
(* popped for it is whatever is on top, and the frame popped at the end is *)
(* the last one that was pushed.  After a runtime error the machine is     *)
(* empty and the loop goes on below its base.                              *)
(***************************************************************************)
PopResult(m) == IF m.ok THEN [m EXCEPT !.st = Drop(@, 1)] ELSE m
RunDeferred(d, m) ==
    IF ~ m.ok THEN m
    ELSE PopResult(CallValue([m EXCEPT !.st = PushAll(@, Tail(d) \o <<Head(d)>>)],
                             Head(d), Len(d) - 1))
AllDeferred(m) == FoldRight(RunDeferred, Frame.defers, m)

Leave ==
    /\ At({"RETURN"})
    /\ \E done \in {AllDeferred([Now(Goto(Frame.ip + 1)) EXCEPT !.st = Drop(@, 1)])} :
         LET fr == [done.frames EXCEPT ![depth].defers = <<>>]
             d  == done.depth - 1
         IN  CASE ~ done.ok -> Undefine
               [] done.ok /\ d = 0 ->
                    /\ EndRun("ok", Drop(done.st, 1), fr)
                    /\ heap' = done.heap /\ out' = done.out
                    /\ UNCHANGED <<code, globals, avatars>>
               [] OTHER ->
                    Becomes([done EXCEPT !.frames = fr, !.depth = d,
                                         !.st = Push([@ EXCEPT !.top = fr[d + 1].slots],
                                                     Peek(st, 0))])

\* defer takes the function and its arguments off the stack.
Defer ==
    /\ At({"DEFER"})
    /\ \/ /\ Len(Frame.defers) < DefersMax
          /\ LET call == <<Peek(st, 0)>> \o Args(st, Ins.a)
             IN  frames' = [Goto(Frame.ip + 1) EXCEPT ![depth].defers = Append(@, call)]
          /\ st' = Drop(st, Ins.a + 1)
          /\ UNCHANGED <<code, depth, globals, heap, out, avatars, host, status, results>>
       \/ Len(Frame.defers) >= DefersMax /\ Fail

\* The end of a script leaves its frame; the end of a module returns to the
\* frame below it, at the base of that frame's slots.
Halt ==
    /\ At({"HALT"})
    /\ IF depth > 1
       THEN LET base == frames[depth - 1].slots
            IN  ReturnTo(depth - 1, "ok", Push([st EXCEPT !.top = base], Nil), Goto(Frame.ip + 1))
       ELSE EndRun("ok", st, Goto(Frame.ip + 1))
    /\ UNCHANGED <<code, globals, heap, out, avatars>>

(***************************************************************************)
(* Arrays and objects.                                                     *)
(***************************************************************************)
NewArray ==
    /\ At({"ARRAY"})
    /\ heap' = NewBlock(heap, Topmost(st, Ins.a))
    /\ Advance(Push(Drop(st, Ins.a), Arr(Ins.a, Len(heap) + 1)))
    /\ UNCHANGED <<code, depth, globals, out, avatars, host, status, results>>

NewObject ==
    /\ At({"OBJECT_NEW"})
    /\ Advance(Push(st, Obj(0, 0)))
    /\ UNCHANGED <<code, depth, globals, heap, out, avatars, host, status, results>>

\* A namespace name stands for its dotted functions.
Get ==
    /\ At({"ARRAY_GET", "OBJECT_GET"})
    /\ LET c == Peek(st, 1)
           i == Peek(st, 0)
           marker == Is(c, "string") /\ c.s \in Interfaces
           v == CASE Ins.op = "ARRAY_GET" -> ElementGet(heap, c, i)
                  [] Ins.op = "OBJECT_GET" /\ marker -> Str(c.s \o "." \o i.s)
                  [] OTHER -> ObjectGet(heap, c, i)
       IN  IF Readable(heap, c) THEN Operate(2, v) ELSE Undefine

\* Bottom to top: the value, the array, the index.
ArraySet ==
    /\ At({"ARRAY_SET"})
    /\ LET i == Peek(st, 0)
           a == Peek(st, 1)
           v == Peek(st, 2)
       IN  IF Is(a, "array") /\ Index(a, i)
           THEN /\ heap' = [heap EXCEPT ![a.h].cells[i.n + 1] = v]
                /\ Advance(Push(Drop(st, 3), v))
                /\ UNCHANGED <<code, depth, globals, out, avatars, host, status, results>>
           ELSE Fail

\* Bottom to top: the object, the key, the value; the object is left.
SetProperty ==
    /\ At({"OBJECT_SET"})
    /\ LET v == Peek(st, 0)
           k == Peek(st, 1)
           o == Peek(st, 2)
       IN  CASE ~ (Is(o, "object") /\ Is(k, "string")) -> Fail
             [] ~ Readable(heap, o) -> Undefine
             [] OTHER ->
                  /\ \E r \in ObjectSet(heap, o, k.s, v) :
                        heap' = r[2] /\ Advance(Push(Drop(st, 3), r[1]))
                  /\ UNCHANGED <<code, depth, globals, out, avatars, host, status, results>>

(***************************************************************************)
(* avatar f(args) hands the function and its arguments to the runtime,     *)
(* whose threads interpret it (AvatarMachine); the handle is a number.     *)
(* await takes the result of a completed avatar.  A nil in its place is a  *)
(* null handle, which counts as complete; any other value is taken for an  *)
(* address.                                                                *)
(***************************************************************************)
Handle(i) == 100 + i

Started(f, args) == [f |-> f, args |-> args, frames |-> <<>>, depth |-> 0,
                     st |-> Empty, state |-> "queued", result |-> Nil, steps |-> 0]

LaunchAvatar ==
    /\ At({"AVATAR"})
    /\ LET f == Peek(st, Ins.a)
       IN  IF Is(f, "function")
           THEN /\ avatars' = Append(avatars, Started(f.f, Topmost(st, Ins.a)))
                /\ Advance(Push(Drop(st, Ins.a + 1), Num(Handle(Len(avatars) + 1))))
                /\ UNCHANGED <<code, depth, globals, heap, out, host, status, results>>
           ELSE Fail

AwaitAvatar ==
    /\ At({"AWAIT"})
    /\ LET h == Peek(st, 0)
           a == avatars[h.n - Handle(0)]
           isHandle == Is(h, "number") /\ h.n - Handle(0) \in DOMAIN avatars
       IN  CASE h = Nil ->
                  /\ Advance(Push(Drop(st, 1), Nil))
                  /\ UNCHANGED <<code, depth, globals, heap, out, avatars, host, status, results>>
             [] isHandle ->
                  \/ /\ a.state = "done"
                     /\ Advance(Push(Drop(st, 1), a.result))
                     /\ UNCHANGED <<code, depth, globals, heap, out, avatars, host, status, results>>
                  \/ a.state = "failed" /\ Fail
             [] OTHER -> Undefine

-----------------------------------------------------------------------------
MachineInit ==
    /\ frames = <<>> /\ depth = 0 /\ st = Empty
    /\ globals = [i \in 1 .. 4 |-> LET x == <<"print", "typeof", "array_length", "__range">>[i]
                                   IN  <<x, Str(x)>>]
    /\ heap = <<>> /\ out = <<>> /\ avatars = <<>>
    /\ host = [calls |-> <<>>, imported |-> {}] /\ status = "idle" /\ results = <<>>

MachineNext ==
    \/ Interpret \/ NoFrame \/ OutsideCode
    \/ Constant \/ Literal \/ Pop \/ Dup
    \/ DefineGlobal \/ GetGlobal \/ SetGlobal \/ GetLocal \/ SetLocal
    \/ BinaryOperator \/ Concatenate \/ UnaryOperator \/ Jump \/ LogMessage \/ LogContext
    \/ Call \/ CallUnknown \/ CallBack \/ Import \/ Leave \/ Defer \/ Halt
    \/ NewArray \/ NewObject \/ Get \/ ArraySet \/ SetProperty
    \/ LaunchAvatar \/ AwaitAvatar
=============================================================================
