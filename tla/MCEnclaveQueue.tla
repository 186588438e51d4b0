--------------------------- MODULE MCEnclaveQueue ---------------------------
(* Small instances of EnclaveQueue: one ecall of each kind the tables tell   *)
(* apart.                                                                    *)
EXTENDS EnclaveQueue

CONSTANTS p1, p2, p3

Tasks == {"main_loop", "seal_file", "unseal_file", "srd_increase"}
Priority == [n \in Tasks |-> CASE n = "main_loop" -> 0
                               [] n = "srd_increase" -> 2
                               [] OTHER -> 1]
BlockTasks == [n \in Tasks |-> IF n = "srd_increase" THEN {"seal_file"} ELSE {}]
IgnoreTasks == [n \in Tasks |-> IF n = "srd_increase" THEN {"unseal_file"} ELSE {}]

ThreeCallers == {p1, p2, p3}

=============================================================================
