------------------------------ MODULE Workload ------------------------------
(***************************************************************************)
(* The part of the enclave's Workload singleton that concerns meaningful   *)
(* files: the table of sealed files, the files being sealed, the buffer of *)
(* deleted cids, the work-report index and the statistics shown to the     *)
(* operator, with the helpers every file operation is built from.          *)
(*                                                                         *)
(* The module holds state and helpers only.  Storage adds the operations   *)
(* of the request threads, FileService the validator and the work report.  *)
(***************************************************************************)
EXTENDS Integers, FiniteSets

CONSTANTS
    Cid,        \* root cids of the files the clients seal
    Block,      \* ipfs blocks, the roots included
    RootBlock,  \* [Cid -> Block]: the block a root cid names
    Links,      \* [Block -> SUBSET Block]: the blocks a block links to
    FILE_NUMBER_UPPER_LIMIT,
    FILE_PENDING_LIMIT

ASSUME WorkloadAssumption ==
    /\ RootBlock \in [Cid -> Block]
    /\ Links \in [Block -> SUBSET Block]
    /\ FILE_NUMBER_UPPER_LIMIT \in Nat
    /\ FILE_PENDING_LIMIT \in Nat

VARIABLES
    sealed_files,       \* the sealed-file table, one entry per cid
    pending_files_um,   \* the files whose blocks are still arriving
    file_del_cid_s,     \* the buffer of deleted cids
    wl_file_spec,       \* number of files per status, shown by /workload
    upgrade_status,     \* the enclave's upgrade status
    ipfs_dir,           \* external: sealed blocks of a cid on the disks
    db_tree             \* external: the list of leaves of a cid in the DB

workloadVars == <<sealed_files, pending_files_um, file_del_cid_s,
                  wl_file_spec, upgrade_status, ipfs_dir, db_tree>>

-----------------------------------------------------------------------------
(* Types.  A sealed block gets a fresh hash every time it is sealed, so it *)
(* is named by the block and the request that sealed it.                   *)

FileStatus == {"UNVERIFIED", "VALID", "LOST", "DELETED", "PENDING"}
UpgradeStatus == {"NONE", "PROCESS", "SUCCESS"}
SpecStatus == {"PENDING", "VALID", "LOST"}
Item == Block \X Nat

\* A sealed-file entry: its three status characters, the chain block number
\* recorded when it was sealed and the root hash of its list of leaves.
\* An absent entry has the current status ABSENT.
Entry == [cur  : FileStatus \cup {"ABSENT"},
          wait : FileStatus,
          org  : FileStatus,
          num  : Nat,
          hash : SUBSET Item]

NoEntry == [cur |-> "ABSENT", wait |-> "UNVERIFIED", org |-> "UNVERIFIED",
            num |-> 0, hash |-> {}]

\* A file being sealed: how often each block is still awaited, and the
\* leaves recorded so far.
Pending == [known : BOOLEAN, blocks : [Block -> Int], meta : SUBSET Item]

NoPending == [known |-> FALSE, blocks |-> [b \in Block |-> 0], meta |-> {}]

\* The tree of a cid in the DB: absent, or its leaves.
Tree == [stored : BOOLEAN, leaves : SUBSET Item]
NoTree == [stored |-> FALSE, leaves |-> {}]

-----------------------------------------------------------------------------
(* The sealed-file table.  The code keeps a vector sorted by cid and       *)
(* finds, inserts and erases by binary search; as a mathematical object it *)
(* is a partial function of the cid.                                       *)

Status(c) == sealed_files[c].cur

is_file_dup_nolock(c) == Status(c) # "ABSENT"

Files == {c \in Cid : is_file_dup_nolock(c)}

PendingFiles == {c \in Cid : pending_files_um[c].known}

\* Erase the entries of the cids in S.
del_files(S) ==
    sealed_files' = [c \in Cid |-> IF c \in S THEN NoEntry ELSE sealed_files[c]]

\* The entry storage_seal_file_start inserts.
PendingEntry == [NoEntry EXCEPT !.cur = "PENDING"]

\* The entry storage_seal_file_end writes.
SealedEntry(h, n) ==
    [cur |-> "VALID", wait |-> "UNVERIFIED", org |-> "UNVERIFIED",
     num |-> n, hash |-> h]

\* check_seal_file_dup: a cid may be sealed when it has no entry, or when its
\* entry is deleted and the chain was never told of the file or was told of
\* its deletion.
check_seal_file_dup(c) ==
    \/ ~is_file_dup_nolock(c)
    \/ /\ Status(c) = "DELETED"
       /\ sealed_files[c].org \in {"DELETED", "UNVERIFIED"}

\* The test of deal_deleted_file.
IsCleanable(c) ==
    /\ Status(c) = "DELETED"
    /\ sealed_files[c].org \in {"DELETED", "UNVERIFIED", "LOST"}

-----------------------------------------------------------------------------
(* Pending files, statistics and upgrade status.                           *)

\* pending_files_um[c][FILE_BLOCKS][b].AddNum(d), which creates the file's
\* record when there is none.
AddNum(c, b, d) ==
    pending_files_um' = [pending_files_um EXCEPT
                            ![c].known = TRUE,
                            ![c].blocks[b] = @ + d]

erase_pending(c) ==
    pending_files_um' = [pending_files_um EXCEPT ![c] = NoPending]

\* set_file_spec: statuses that are not counted are ignored.
set_file_spec(spec, s, d) ==
    IF s \in SpecStatus THEN [spec EXCEPT ![s] = @ + d] ELSE spec

set_upgrade_status(s) ==
    /\ upgrade_status # s
    /\ upgrade_status' = s

-----------------------------------------------------------------------------

WorkloadInit ==
    /\ sealed_files = [c \in Cid |-> NoEntry]
    /\ pending_files_um = [c \in Cid |-> NoPending]
    /\ file_del_cid_s = {}
    /\ wl_file_spec = [s \in SpecStatus |-> 0]
    /\ upgrade_status = "NONE"
    /\ ipfs_dir = [c \in Cid |-> {}]
    /\ db_tree = [c \in Cid |-> NoTree]

\* Types: every entry of sealed_files has a status triple the code can write,
\* and the pending map, the deleted buffer and the disks keep their shapes.
WorkloadTypeOK ==
    /\ sealed_files \in [Cid -> Entry]
    /\ pending_files_um \in [Cid -> Pending]
    /\ file_del_cid_s \in SUBSET Cid
    /\ wl_file_spec \in [SpecStatus -> Int]
    /\ upgrade_status \in UpgradeStatus
    /\ ipfs_dir \in [Cid -> SUBSET Item]
    /\ db_tree \in [Cid -> Tree]

=============================================================================
