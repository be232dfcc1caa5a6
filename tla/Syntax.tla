------------------------------- MODULE Syntax -------------------------------
(***************************************************************************)
(* The tokens the parser reads and the trees it builds (tokens.h, ast.h).  *)
(* A node is a record whose field k is the node type; an absent child is   *)
(* None.                                                                   *)
(***************************************************************************)
EXTENDS Values

(***************************************************************************)
(* Expressions.                                                            *)
(***************************************************************************)
None               == [k |-> "none"]
Lit(v)             == [k |-> "literal", v |-> v]
Id(x)              == [k |-> "identifier", x |-> x]
Bin(op, l, r)      == [k |-> "binary", op |-> op, l |-> l, r |-> r]
Un(op, e)          == [k |-> "unary", op |-> op, e |-> e]
Call(f, args)      == [k |-> "call", f |-> f, args |-> args]
Assign(target, op, e) == [k |-> "assign", target |-> target, op |-> op, e |-> e]
Interpolated(parts, es) == [k |-> "interpolated", parts |-> parts, es |-> es]
ArrayLit(es)       == [k |-> "array", es |-> es]
ObjectLit(ps)      == [k |-> "object", ps |-> ps]       \* a sequence of <<key, expression>>
StructLit(ty, ps)  == [k |-> "struct", ty |-> ty, ps |-> ps]
At(a, i)           == [k |-> "access", a |-> a, i |-> i]
Member(o, p)       == [k |-> "member", o |-> o, p |-> p]
Fn(params, body)   == [k |-> "fn", params |-> params, body |-> body]
Launch(call)       == [k |-> "avatar", call |-> call]   \* a call, or an anonymous function
Await(e)           == [k |-> "await", e |-> e]

(***************************************************************************)
(* Statements.                                                             *)
(***************************************************************************)
Expr(e)            == [k |-> "expression", e |-> e]
Let(x, e)          == [k |-> "var", x |-> x, e |-> e]
Block(ss)          == [k |-> "block", ss |-> ss]
If(c, a, b)        == [k |-> "if", c |-> c, a |-> a, b |-> b]
While(c, b)        == [k |-> "while", c |-> c, b |-> b]
For(i, c, u, b)    == [k |-> "for", i |-> i, c |-> c, u |-> u, b |-> b]
Switch(e, cs, d)   == [k |-> "switch", e |-> e, cs |-> cs, d |-> d]  \* <<value, body>> cases
Return(e)          == [k |-> "return", e |-> e]
Defer(call)        == [k |-> "defer", call |-> call]    \* also an expression
Function(x, params, ss)   == [k |-> "function", x |-> x, params |-> params, ss |-> ss]
Method(ty, x, params, ss) == [k |-> "method", ty |-> ty, x |-> x, params |-> params, ss |-> ss]
StructDecl(ty, fields)    == [k |-> "structdecl", ty |-> ty, fields |-> fields]

(***************************************************************************)
(* Tokens: a kind and a text; punctuation and keywords are their own kind. *)
(***************************************************************************)
Token(k, x) == [k |-> k, x |-> x]
Sym(k)      == Token(k, k)
Word(x)     == Token("identifier", x)

Truth(b) == Lit(Bool(b))
N(n)     == Lit(Num(n))
S(s)     == Lit(Str(s))
=============================================================================
