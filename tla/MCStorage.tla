------------------------------ MODULE MCStorage ------------------------------
(* Small instances of Storage for TLC. *)
EXTENDS Storage, TLC

CONSTANTS f1, f2, t1, t2

\* A file of a single block; "e" is the empty block.
OneFile == {f1}
Leaf1 == {f1, "e"}
OneRoot == [c \in {f1} |-> f1]
Leaf1Links == [b \in Leaf1 |-> {}]

\* Two files: the root of the first links to the only block of the second.
TwoFiles == {f1, f2}
TwoBlocks == {f1, f2, "e"}
TwoRoot == [c \in TwoFiles |-> c]
TwoLinks == [b \in TwoBlocks |-> IF b = f1 THEN {f2} ELSE {}]

TwoThreads == {t1, t2}
OneThread == {t1}

Symmetry == Permutations(TwoThreads)

=============================================================================
