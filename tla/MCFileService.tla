---------------------------- MODULE MCFileService ----------------------------
(***************************************************************************)
(* Small instances of FileService for TLC.  Files 1 and 2 are one block    *)
(* each, block 0 is the empty block.  To leave the requests of a run to    *)
(* the interesting part, the files in Already have been sealed, and not    *)
(* reported, when the run begins, and those in Arrived are pending with    *)
(* all their blocks.                                                       *)
(***************************************************************************)
EXTENDS FileService

CONSTANTS req, val, Already, Arrived

OneFile == {1}
TwoFiles == {1, 2}
Blocks == Cid \cup {0}
Root == [c \in Cid |-> c]
NoLinks == [b \in Blocks |-> {}]
Threads == {req, val}
Validators == {val}

\* The leaf of file c, sealed before any request of the run.
Leaf(c) == {<<c, 0>>}

\* FileInit but for the table, the statistics and the disks.
SealedInit ==
    /\ sealed_files = [c \in Cid |->
          CASE c \in Already -> SealedEntry(Leaf(c), 1)
            [] c \in Arrived -> PendingEntry
            [] OTHER -> NoEntry]
    /\ wl_file_spec = [PENDING |-> Cardinality(Arrived),
                       VALID |-> Cardinality(Already), LOST |-> 0]
    /\ ipfs_dir = [c \in Cid |-> IF c \in Already \cup Arrived THEN Leaf(c) ELSE {}]
    /\ db_tree = [c \in Cid |-> IF c \in Already
                                THEN [stored |-> TRUE, leaves |-> Leaf(c)]
                                ELSE NoTree]
    /\ pending_files_um = [c \in Cid |->
          IF c \in Arrived THEN [NoPending EXCEPT !.known = TRUE, !.meta = Leaf(c)]
                            ELSE NoPending]
    /\ file_del_cid_s = {}
    /\ upgrade_status = "NONE"
    /\ thread = [t \in Thread |-> Fresh(AnyCid)]
    /\ requests = 0
    /\ del_pc = "take"
    /\ del_tmp = {}
    /\ round = "idle"
    /\ g_validate_files_m = [c \in Cid |-> NoEntry]
    /\ worker = [c \in Cid |-> "none"]
    /\ g_changed_files_v = {}
    /\ report_files = TRUE
    /\ validated_file_proof = FALSE
    /\ validated_srd_proof = FALSE
    /\ reported_files_idx = {}
    /\ rep_pc = "idle"
    /\ report = NoReport
    /\ ledger = {}
    /\ unsettled = {}
    /\ miscounted = FALSE

SealedSpec == SealedInit /\ [][FileNext]_fileVars
FairSealedSpec == SealedSpec /\ FileFairness

=============================================================================
