------------------------------ MODULE MCRestart ------------------------------
(* Small instances of Restart: one file, two accounts, slots of two blocks.  *)
EXTENDS Restart

CONSTANTS f1, a1, a2

OneCid == {f1}
TwoAccounts == {a1, a2}
OneAccount == {a1}

=============================================================================
