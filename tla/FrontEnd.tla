------------------------------ MODULE FrontEnd ------------------------------
(***************************************************************************)
(* From the text of a program to what the machine is given, and to what it *)
(* should compute.  Each script is written by Sources, parsed by Parser    *)
(* and compiled by Compiler, as vm_interpret does; Meaning says what the   *)
(* trees mean that the text was written from.                              *)
(***************************************************************************)
EXTENDS Bytecode

CONSTANTS
    ByteMax,      \* the largest operand of one byte (255)
    LocalMax,     \* locals of a unit (256)
    AvatarRules   \* what an avatar is compared with, see Meaning

W == INSTANCE Sources
P == INSTANCE Parser
C == INSTANCE Compiler
M(modules) == INSTANCE Meaning WITH Module <- LAMBDA path : modules[path]

(***************************************************************************)
(* A unit is parsed and, unless the parser reported an error, compiled.    *)
(* The scripts and then the modules of a program go through the compiler   *)
(* one after the other; the function of each is the last one made for it.  *)
(***************************************************************************)
Unreadable == [name |-> "script", arity |-> 0, code |-> <<>>, consts |-> <<>>, count |-> 0,
               err |-> TRUE]

CompileUnit(s, toks) ==
    LET p == P!Parse(toks)
    IN  [s     |-> IF p.err \/ p.stuck THEN [s EXCEPT !.fns = Append(@, Unreadable)]
                   ELSE C!CompileScript(s, p.e),
         stuck |-> p.stuck]

CompileAll(units) ==
    LET Add1(acc, toks) ==
            LET u == CompileUnit(acc.s, toks)
                f == Len(u.s.fns)
            IN  [s |-> u.s, at |-> Append(acc.at, f),
                 stuck |-> IF u.stuck THEN acc.stuck \cup {f} ELSE acc.stuck]
    IN  FoldLeft(Add1, [s |-> C!Fresh, at |-> <<>>, stuck |-> {}], units)

\* The modules of a program in some order.
Paths(p) == SetToSeq(DOMAIN p.modules)

\* What a program means.
MeaningOf(p) == M(p.modules)!Means(p.scripts)

(***************************************************************************)
(* A program becomes its compiled functions, the numbers of those its      *)
(* scripts and modules are, and of those on whose text the parser never    *)
(* returns.                                                                *)
(***************************************************************************)
Built(p) ==
    LET n     == Len(p.scripts)
        units == p.scripts \o [i \in 1 .. Len(Paths(p)) |-> p.modules[Paths(p)[i]]]
        all   == CompileAll([i \in 1 .. Len(units) |-> W!Text(units[i], p.ends)])
    IN  [source  |-> p,
         fns     |-> all.s.fns,
         scripts |-> SubSeq(all.at, 1, n),
         modules |-> [x \in DOMAIN p.modules |->
                         all.at[n + (CHOOSE i \in 1 .. Len(Paths(p)) : Paths(p)[i] = x)]],
         stuck   |-> all.stuck,
         meaning |-> MeaningOf(p)]
=============================================================================
