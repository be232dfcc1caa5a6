------------------------------- MODULE Values -------------------------------
(***************************************************************************)
(* The values of a Kuyil program (ast.h).  A value is a record with a type *)
(* tag; an array or an object is a count and the number of the heap block  *)
(* its elements live in, because the C value copies those two fields and   *)
(* shares the block.                                                       *)
(***************************************************************************)
EXTENDS Integers, Sequences

CONSTANT NaN          \* the result of a modulo by zero

Nil        == [t |-> "nil"]
Bool(b)    == [t |-> "bool", b |-> b]
Num(n)     == [t |-> "number", n |-> n]
Str(s)     == [t |-> "string", s |-> s]
Fun(f)     == [t |-> "function", f |-> f]
Arr(n, h)  == [t |-> "array", n |-> n, h |-> h]
Obj(n, h)  == [t |-> "object", n |-> n, h |-> h]

Is(v, type) == v.t = type

\* nil and false; in the interpreter of the avatars also the number 0.
Falsey(v)       == v.t = "nil" \/ (v.t = "bool" /\ ~ v.b)
AvatarFalsey(v) == Falsey(v) \/ v = Num(0)

\* Scalars by value, everything else never equal (values_equal).
ValuesEqual(a, b) ==
    /\ a.t = b.t
    /\ \/ a.t = "nil"
       \/ a.t = "bool"   /\ a.b = b.b
       \/ a.t = "number" /\ a.n = b.n /\ a.n # NaN
       \/ a.t = "string" /\ a.s = b.s

\* "%g" of the numbers the programs compute: the digits of a small integer.
Digits == <<"0", "1", "2", "3", "4", "5", "6", "7", "8", "9">>
Decimal[n \in Int] ==
    IF n < 0 THEN "-" \o Decimal[-n]
    ELSE IF n < 10 THEN Digits[n + 1] ELSE Decimal[n \div 10] \o Digits[(n % 10) + 1]

\* How OP_ADD writes a value of another type into a string; OP_TO_STRING
\* differs in the spelling of everything that is not a scalar.
Spelled(v, other) ==
    CASE v.t = "string" -> v.s
      [] v.t = "number" -> IF v.n = NaN THEN "nan" ELSE Decimal[v.n]
      [] v.t = "bool"   -> IF v.b THEN "true" ELSE "false"
      [] v.t = "nil"    -> "nil"
      [] OTHER          -> other
=============================================================================
