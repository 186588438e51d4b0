-------------------------- MODULE MCValidationRound --------------------------
(* Small instances of ValidationRound. *)
EXTENDS ValidationRound

CONSTANTS w1, w2

TwoFiles == {1, 2}
TwoWorkers == {w1, w2}

=============================================================================
