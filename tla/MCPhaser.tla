------------------------------ MODULE MCPhaser ------------------------------
(* Instances of Phaser for TLC. *)
EXTENDS Phaser, TLC

CONSTANTS t1, t2, t3, root, mid, leaf

\* A root with one child: t1 at the root, the others at the child.
PairParent == (root :> NoPhaser) @@ (leaf :> root)
PairHome == (t1 :> root) @@ (t2 :> leaf) @@ (t3 :> leaf)

\* A chain of three.
ChainParent == (root :> NoPhaser) @@ (mid :> root) @@ (leaf :> mid)
ChainHome == (t1 :> mid) @@ (t2 :> leaf)

Ones == [t \in Threads |-> 1]
\* Two parties for each thread at the child: with CountSize = 4 the second
\* registration does not fit.
TwosBelow == [t \in Threads |-> IF t = t1 THEN 1 ELSE 2]

\* Bounds on the operations begun.
Once == [t \in Threads |-> 1]
TwiceAbove == [t \in Threads |-> IF t = t1 THEN 2 ELSE 1]
TwiceBelow == [t \in Threads |-> IF t = t1 THEN 1 ELSE 2]
Thrice == [t \in Threads |-> 3]
=============================================================================
