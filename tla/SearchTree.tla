------------------------------ MODULE SearchTree ------------------------------
(***************************************************************************)
(* The AVL tree of treemap.c as operators on trees. A node is a record; the *)
(* heights are stored, not computed, as in the code.                       *)
(***************************************************************************)
EXTENDS Integers, Sequences

Leaf == [height |-> 0]
Node(k, v, l, r, h) == [key |-> k, value |-> v, left |-> l, right |-> r, height |-> h]

Higher(l, r) == IF l.height > r.height THEN l.height ELSE r.height

\* A node over two trees, with its height set from theirs.
Over(n, l, r) == Node(n.key, n.value, l, r, Higher(l, r) + 1)

Balance(n) == IF n = Leaf THEN 0 ELSE n.left.height - n.right.height

RotateRight(y) == LET x == y.left  IN Over(x, x.left, Over(y, x.right, y.right))
RotateLeft(x)  == LET y == x.right IN Over(y, Over(x, x.left, y.left), y.right)

\* Mutant: the inner rotation of the double rotations is left out.
RebalancedOnce(n, k) ==
    CASE Balance(n) > 1  -> RotateRight(n)
      [] Balance(n) < -1 -> RotateLeft(n)
      [] OTHER -> n

\* The four cases of insert_node, in the order of the code.
Rebalanced(n, k) ==
    CASE Balance(n) > 1  /\ k < n.left.key  -> RotateRight(n)
      [] Balance(n) < -1 /\ k > n.right.key -> RotateLeft(n)
      [] Balance(n) > 1  /\ k > n.left.key  -> RotateRight([n EXCEPT !.left = RotateLeft(@)])
      [] Balance(n) < -1 /\ k < n.right.key -> RotateLeft([n EXCEPT !.right = RotateRight(@)])
      [] OTHER -> n

RECURSIVE Insert(_, _, _)
Insert(n, k, v) ==
    IF n = Leaf THEN Node(k, v, Leaf, Leaf, 1)
    ELSE IF k = n.key THEN [n EXCEPT !.value = v]
    ELSE Rebalanced(IF k < n.key THEN Over(n, Insert(n.left, k, v), n.right)
                    ELSE Over(n, n.left, Insert(n.right, k, v)), k)

RECURSIVE Lookup(_, _)
Lookup(n, k) ==
    IF n = Leaf \/ n.key = k THEN n ELSE Lookup(IF k < n.key THEN n.left ELSE n.right, k)

RECURSIVE InOrder(_)
InOrder(n) == IF n = Leaf THEN <<>> ELSE InOrder(n.left) \o <<n>> \o InOrder(n.right)

RECURSIVE Leftmost(_), Rightmost(_)
Leftmost(n)  == IF n.left = Leaf THEN n ELSE Leftmost(n.left)
Rightmost(n) == IF n.right = Leaf THEN n ELSE Rightmost(n.right)

\* The walks of floorKey and ceilingKey: the last node that was passed on
\* the side that is asked for.
RECURSIVE Floor(_, _, _), Ceiling(_, _, _)
Floor(n, k, best) ==
    IF n = Leaf THEN best
    ELSE IF k = n.key THEN <<n.key>>
    ELSE IF k > n.key THEN Floor(n.right, k, <<n.key>>) ELSE Floor(n.left, k, best)
Ceiling(n, k, best) ==
    IF n = Leaf THEN best
    ELSE IF k = n.key THEN <<n.key>>
    ELSE IF k < n.key THEN Ceiling(n.left, k, <<n.key>>) ELSE Ceiling(n.right, k, best)

\* Stored heights are right and no two siblings differ by more than one.
RECURSIVE Balanced(_)
Balanced(n) ==
    n = Leaf \/ /\ Balanced(n.left) /\ Balanced(n.right)
                /\ n.height = Higher(n.left, n.right) + 1
                /\ Balance(n) \in -1 .. 1
=============================================================================
