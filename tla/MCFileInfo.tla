----------------------------- MODULE MCFileInfo -----------------------------
(* Small instances of FileInfo. *)
EXTENDS FileInfo, TLC

CONSTANTS c1, r1, r2

OneCid == {c1}
TwoThreads == {r1, r2}

Symmetry == Permutations(TwoThreads)

=============================================================================
