-------------------------------- MODULE Credit --------------------------------
(***************************************************************************)
(* What work reports promise: two books about the stored files, one kept   *)
(* by the chain and one by the enclave, which a report brings together     *)
(* increment by increment.  Between two reports the enclave's book can     *)
(* only forget; the answer to a report can get lost; and each file about   *)
(* which the books may differ for such a reason is known as doubtful.      *)
(* FileService implements the books with three statuses per file and       *)
(* reports that run beside requests, validation rounds and cleanings.      *)
(***************************************************************************)
EXTENDS Integers, FiniteSets

CONSTANT File

VARIABLES
    ledger,      \* the files the chain credits
    believed,    \* the files the enclave believes credited
    doubt,       \* the files about which the books may differ
    increment    \* the report under way, and how far it is

creditVars == <<ledger, believed, doubt, increment>>

NoIncrement == [at |-> "none", added |-> {}, deleted |-> {}, size |-> 0]
Mentioned == increment.added \cup increment.deleted
Booked == (ledger \cup increment.added) \ increment.deleted

CreditInit ==
    /\ ledger = {}
    /\ believed = {}
    /\ doubt = {}
    /\ increment = NoIncrement

\* A report adds files the enclave believes missing, deletes files it believes
\* credited, and totals what the chain will credit if it is right.
Write ==
    /\ increment.at = "none"
    /\ \E added \in SUBSET (File \ believed), deleted \in SUBSET believed :
          increment' = [at |-> "sent", added |-> added, deleted |-> deleted,
                        size |-> Cardinality(believed) + Cardinality(added)
                                 - Cardinality(deleted)]
    /\ UNCHANGED <<ledger, believed, doubt>>

\* The chain books the report, and the enclave is told.
Book ==
    /\ increment.at = "sent"
    /\ ledger' = Booked
    /\ increment' = [increment EXCEPT !.at = "booked"]
    /\ UNCHANGED <<believed, doubt>>

\* The chain books the report, and the enclave is not told.
Lose ==
    /\ increment.at = "sent"
    /\ ledger' = Booked
    /\ increment' = NoIncrement
    /\ doubt' = doubt \cup Mentioned
    /\ UNCHANGED believed

Refuse ==
    /\ increment.at = "sent"
    /\ increment' = NoIncrement
    /\ UNCHANGED <<ledger, believed, doubt>>

\* The enclave takes over what was booked of the files in known, and nothing
\* of those it has forgotten since the report was written: such a file becomes
\* doubtful when it was added, and is settled when it was deleted.
Learn ==
    /\ increment.at = "booked"
    /\ \E known \in SUBSET Mentioned :
          /\ believed' = (believed \ Mentioned) \cup (increment.added \cap known)
          /\ doubt' = (doubt \cup increment.added) \ known
    /\ increment' = NoIncrement
    /\ UNCHANGED ledger

\* The enclave forgets what it believed of some files.
Forget ==
    /\ \E lost \in SUBSET believed :
          /\ believed' = believed \ lost
          /\ doubt' = doubt \cup lost
    /\ UNCHANGED <<ledger, increment>>

\* The operator tells the enclave what the chain credits.  The file is out of
\* doubt, unless a report that was written before is still to be booked.
Settle(f) ==
    /\ f \in doubt
    /\ believed' = IF f \in ledger THEN believed \cup {f} ELSE believed \ {f}
    /\ doubt' = IF increment.at = "sent" THEN doubt ELSE doubt \ {f}
    /\ UNCHANGED <<ledger, increment>>

CreditNext ==
    \/ Write \/ Book \/ Lose \/ Refuse \/ Learn \/ Forget
    \/ \E f \in File : Settle(f)

CreditSpec == CreditInit /\ [][CreditNext]_creditVars

\* What the enclave will believe once it has learned of a booked report.
Expected ==
    IF increment.at = "booked"
    THEN (believed \cup increment.added) \ increment.deleted ELSE believed

\* The two books agree on every file that is not doubtful.
BooksAgree == \A f \in File \ doubt : f \in ledger <=> f \in Expected

=============================================================================
