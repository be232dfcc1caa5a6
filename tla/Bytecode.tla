------------------------------ MODULE Bytecode ------------------------------
(***************************************************************************)
(* What the interpreter of vm.c and the interpreter of the avatars share:  *)
(* the value stack, the heap of arrays and objects, the operators of       *)
(* opcode_executor.c and the way a call lays out its frame.                *)
(*                                                                         *)
(* A stack is the cells ever written and the number of those in use: the C *)
(* array keeps what lies above its top, and a frame's slots may reach      *)
(* there.  A block of the heap is a sequence of cells; a block that        *)
(* realloc left behind is not live, and the cells of an object are pairs   *)
(* of a key and a value.                                                   *)
(***************************************************************************)
EXTENDS Values, SequencesExt

CONSTANT FramesMax         \* call frames of a machine (64)

Empty == [cells |-> <<>>, top |-> 0]

SetCell(s, i, v) ==
    LET pad == [j \in 1 .. i - 1 - Len(s.cells) |-> Nil]
    IN  [s EXCEPT !.cells = IF i <= Len(@) THEN [@ EXCEPT ![i] = v] ELSE @ \o pad \o <<v>>]
Push(s, v)    == [SetCell(s, s.top + 1, v) EXCEPT !.top = @ + 1]
PushAll(s, vs) == FoldLeft(Push, s, vs)
Drop(s, n)    == [s EXCEPT !.top = @ - n]
Peek(s, i)    == s.cells[s.top - i]
Topmost(s, n) == SubSeq(s.cells, s.top - n + 1, s.top)

(***************************************************************************)
(* A call: the arguments and the callee are on top; the callee's cell and  *)
(* those above it become the frame's remaining locals, set to nil.  The    *)
(* deferred calls of a frame entry outlive the calls that used the entry.  *)
(***************************************************************************)
FrameEntry(frames, d, f, slots) ==
    LET new == [f |-> f, ip |-> 0, slots |-> slots,
                defers |-> IF d <= Len(frames) THEN frames[d].defers ELSE <<>>]
    IN  IF d <= Len(frames) THEN [frames EXCEPT ![d] = new] ELSE Append(frames, new)

LocalsOneShort(s, slots, argc, count) ==                    \* mutant
    PushAll([s EXCEPT !.top = slots + argc], [i \in 1 .. count - argc - 1 |-> Nil])
Locals(s, slots, argc, count) ==
    PushAll([s EXCEPT !.top = slots + argc], [i \in 1 .. count - argc |-> Nil])

(***************************************************************************)
(* Operators on two values; Bad where the instruction reports an error.    *)
(***************************************************************************)
Bad == [t |-> "bad"]

Quotient(a, b)  == LET q(x, y) == x \div y       \* the programs divide exactly
                   IN  IF (a < 0) = (b < 0) THEN q(IF a < 0 THEN -a ELSE a, IF b < 0 THEN -b ELSE b)
                       ELSE -q(IF a < 0 THEN -a ELSE a, IF b < 0 THEN -b ELSE b)
Remainder(a, b) == a - b * Quotient(a, b)        \* fmod: the sign of the dividend

Arithmetic(op, a, b) ==
    CASE ~ (Is(a, "number") /\ Is(b, "number")) -> Bad
      [] op = "DIVIDE" /\ b = Num(0)            -> Bad
      [] NaN \in {a.n, b.n}                     -> Num(NaN)
      [] OTHER -> Num(CASE op = "ADD"      -> a.n + b.n
                        [] op = "SUBTRACT" -> a.n - b.n
                        [] op = "MULTIPLY" -> a.n * b.n
                        [] op = "DIVIDE"   -> Quotient(a.n, b.n)
                        [] op = "MODULO"   -> Remainder(a.n, b.n))

Compare(op, a, b) ==
    CASE ~ (Is(a, "number") /\ Is(b, "number")) -> Bad
      [] NaN \in {a.n, b.n}                     -> Bool(FALSE)
      [] OTHER -> Bool(CASE op = "GREATER"       -> a.n > b.n
                         [] op = "GREATER_EQUAL" -> a.n >= b.n
                         [] op = "LESS"          -> a.n < b.n
                         [] op = "LESS_EQUAL"    -> a.n <= b.n)

\* A string and anything concatenate; two arrays do too (Concatenation).
Add(a, b) ==
    IF Is(a, "string") \/ Is(b, "string")
    THEN Str(Spelled(a, "[object]") \o Spelled(b, "[object]"))
    ELSE Arithmetic("ADD", a, b)

BothArrays(a, b) == Is(a, "array") /\ Is(b, "array")

Binary(op, a, b) ==
    CASE op = "ADD"                              -> Add(a, b)
      [] op \in {"SUBTRACT", "MULTIPLY", "DIVIDE"} -> Arithmetic(op, a, b)
      [] op = "EQUAL"                            -> Bool(ValuesEqual(a, b))
      [] op = "NOT_EQUAL"                        -> Bool(~ ValuesEqual(a, b))
      [] op \in {"GREATER", "GREATER_EQUAL", "LESS", "LESS_EQUAL"} -> Compare(op, a, b)

Stringified(v) == Str(Spelled(v, "[Object]"))
Not(v)         == Bool(Falsey(v))
Negate(v)      == CASE ~ Is(v, "number") -> Bad
                 [] v = Num(NaN)      -> v
                 [] OTHER             -> Num(-v.n)

(***************************************************************************)
(* Arrays and objects.  An object value knows how many of its block's      *)
(* cells are its own.                                                      *)
(***************************************************************************)
NewBlock(heap, cells) == Append(heap, [cells |-> cells, live |-> TRUE])
Concatenation(heap, a, b) ==
    NewBlock(heap, SubSeq(heap[a.h].cells, 1, a.n) \o SubSeq(heap[b.h].cells, 1, b.n))

\* Reading the cells of a block that is gone is undefined.
Readable(heap, v) == (v.t \in {"array", "object"} /\ v.n > 0) => heap[v.h].live

Index(v, i) == Is(i, "number") /\ i.n # NaN /\ i.n >= 0 /\ i.n < v.n

KeyIndex(heap, o, key) ==
    IF o.n = 0 THEN 0
    ELSE SelectInSeq(SubSeq(heap[o.h].cells, 1, o.n), LAMBDA c : c[1] = key)

FieldOf(heap, o, key) ==
    LET i == KeyIndex(heap, o, key)
    IN  IF i = 0 THEN Nil ELSE heap[o.h].cells[i][2]

ObjectGet(heap, o, key) ==
    CASE ~ Is(key, "string") -> Bad
      [] Is(o, "object")     -> FieldOf(heap, o, key.s)
      [] o.t \in {"array", "string"} ->
             IF key.s # "length" THEN Nil
             ELSE Num(IF Is(o, "array") THEN o.n ELSE Len(o.s))
      [] OTHER               -> Bad

ElementGet(heap, a, i) ==
    CASE Is(a, "object") /\ Is(i, "string") -> FieldOf(heap, a, i.s)
      [] Is(a, "array") /\ Index(a, i)      -> heap[a.h].cells[i.n + 1]
      [] OTHER                              -> Bad

(***************************************************************************)
(* Setting a property: an existing one is overwritten in the block, a new  *)
(* one makes the block grow, in place or by moving it.  The outcomes are   *)
(* pairs of the object pushed back and the heap; only that object knows of *)
(* the new count.                                                          *)
(***************************************************************************)
ObjectSet(heap, o, key, v) ==
    LET i     == KeyIndex(heap, o, key)
        cells == SubSeq(heap[o.h].cells, 1, o.n)
        fresh == Len(heap) + 1
    IN  CASE i # 0 -> {<<o, [heap EXCEPT ![o.h].cells[i] = <<key, v>>]>>}
          [] i = 0 /\ o.n = 0 -> {<<Obj(1, fresh), NewBlock(heap, << <<key, v>> >>)>>}
          [] OTHER ->
               {<<Obj(o.n + 1, o.h), [heap EXCEPT ![o.h].cells = Append(cells, <<key, v>>)]>>,
                <<Obj(o.n + 1, fresh),
                  NewBlock([heap EXCEPT ![o.h].live = FALSE], Append(cells, <<key, v>>))>>}

(***************************************************************************)
(* What print writes: scalars, and arrays and objects to a fixed depth,    *)
(* below which only the type of a value is written.                        *)
(***************************************************************************)
Flat(v) == IF v.t \in {"string", "number"} THEN v ELSE [t |-> v.t]
Fields(heap, o) == IF o.n = 0 THEN <<>>
                   ELSE [i \in 1 .. o.n |-> <<heap[o.h].cells[i][1], Flat(heap[o.h].cells[i][2])>>]
Row(heap, v)    == IF Is(v, "object") THEN [t |-> "object", ps |-> Fields(heap, v)] ELSE Flat(v)
Shown(heap, v)  ==
    CASE v.t \in {"nil", "bool", "number", "string"} -> v
      [] Is(v, "array") -> [t |-> "array", es |->
                               [i \in 1 .. v.n |-> Row(heap, heap[v.h].cells[i])]]
      [] Is(v, "object") -> [t |-> "object", ps |->
                               [i \in 1 .. v.n |-> <<heap[v.h].cells[i][1],
                                                     Row(heap, heap[v.h].cells[i][2])>>]]
      [] OTHER -> Flat(v)
=============================================================================
