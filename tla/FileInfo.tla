------------------------------ MODULE FileInfo ------------------------------
(***************************************************************************)
(* The file routes of the HTTP API and the app's copy of the file table.   *)
(*                                                                         *)
(* The enclave owns the table of sealed files.  The app answers /file/info,*)
(* /file/info_by_type, /workload and the refusals of /storage/unseal from  *)
(* a copy of its own, EnclaveData::sealed_file, which the enclave keeps up *)
(* to date by ocalls.  Some of them run inside the critical section that   *)
(* changes the table, most run after it, so that requests on the same file *)
(* may apply their updates of the copy in another order.                   *)
(*                                                                         *)
(* One action is one critical section or one ocall; req[r].pc says what    *)
(* the request served by thread r does next.  Requests that are refused    *)
(* without changing anything have no action.  Storage models the blocks of *)
(* a file in detail; here a file being sealed is open or whole.            *)
(***************************************************************************)
EXTENDS Naturals, FiniteSets

CONSTANTS
    Cid,                 \* root cids of files
    Thread,              \* threads that serve requests
    FILE_PENDING_LIMIT,
    MaxRequests          \* bound: how many requests the clients send

ASSUME FileInfoAssumption ==
    /\ Cid # {} /\ IsFiniteSet(Cid)
    /\ FILE_PENDING_LIMIT \in Nat
    /\ MaxRequests \in Nat

VARIABLES
    table,          \* sealed_files: current status of each file, or "none"
    origin,         \* sealed_files: the status the chain acknowledged
    pending,        \* pending_files_um: "none", "open", or "whole" when no
                    \* block is awaited any more
    snapshot,       \* g_validate_files_m: the statuses a round judges
    disk,           \* external: files whose sealed blocks are on the disks
    stored,         \* external: table and origin in the sealed metadata
    sealed_file,    \* app: the files shown under each type
    pending_size,   \* app: files with a size in pending_file_size_um; the zero
                    \* that a look at the size leaves there is no size
    req,            \* what each thread does
    asked,          \* number of requests received
    acked,          \* history: files whose sealing was answered with 200 and
                    \* that no client asked to delete since
    unstored,       \* history: those answered since the metadata were stored
    forgotten,      \* history: those that a restart since may have lost
    mixed           \* history: files on which requests overlapped, with one
                    \* another or with a verdict, since the last restart

enclaveVars == <<table, origin, pending, snapshot>>
appVars == <<sealed_file, pending_size>>
ackVars == <<acked, unstored, forgotten>>
vars == <<enclaveVars, disk, stored, appVars, req, asked, ackVars, mixed>>

-----------------------------------------------------------------------------
(* EnclaveData: the app's copy. *)

Type == {"lost", "pending", "valid"}

\* The type a status of the table is shown under; the others are not shown.
TypeOf(s) == {s} \cap Type

\* A file that becomes valid is no longer pending and has no pending size.
add_file_info(c, type) ==
    IF type = "valid"
    THEN /\ sealed_file' = [sealed_file EXCEPT !["pending"] = @ \ {c},
                                               !["valid"] = @ \cup {c}]
         /\ pending_size' = pending_size \ {c}
    ELSE /\ sealed_file' = [sealed_file EXCEPT ![type] = @ \cup {c}]
         /\ UNCHANGED pending_size

\* Nothing happens to a file that is not shown under the old type.
change_file_type(c, old, new) ==
    sealed_file' = IF c \in sealed_file[old]
                   THEN [sealed_file EXCEPT ![old] = @ \ {c}, ![new] = @ \cup {c}]
                   ELSE sealed_file

\* del_file_info(cid): under every type; the size goes with a pending file.
del_file_info(c) ==
    /\ sealed_file' = [t \in Type |-> sealed_file[t] \ {c}]
    /\ pending_size' = IF c \in sealed_file["pending"] THEN pending_size \ {c}
                                                       ELSE pending_size

\* Mutant: the size of a file that is no longer pending is kept.
del_pending_info_kept(c) ==
    /\ sealed_file' = [sealed_file EXCEPT !["pending"] = @ \ {c}]
    /\ UNCHANGED pending_size

\* del_file_info(cid, FILE_TYPE_PENDING)
del_pending_info(c) ==
    /\ sealed_file' = [sealed_file EXCEPT !["pending"] = @ \ {c}]
    /\ pending_size' = pending_size \ {c}

\* Mutant: lost files are not looked for.
find_file_type_unlost(c) ==
    IF c \in sealed_file["pending"] THEN "pending"
    ELSE IF c \in sealed_file["valid"] THEN "valid"
    ELSE "none"

\* find_file_type: the first type of the map, in the order of their names,
\* that holds the file.
find_file_type(c) ==
    IF c \in sealed_file["lost"] THEN "lost"
    ELSE IF c \in sealed_file["pending"] THEN "pending"
    ELSE IF c \in sealed_file["valid"] THEN "valid"
    ELSE "none"

\* What the routes show: one file, the files of a type, the numbers of the
\* workload, and the size of the pending files.
get_file_info(c) == find_file_type(c)
get_file_info_by_type(type) == sealed_file[type]
gen_workload == [t \in Type |-> Cardinality(sealed_file[t])]
get_pending_files_size_all == sealed_file["pending"] \cap pending_size

\* The answers /storage/unseal may give to a request for a block of c.  The
\* enclave returns the data of a block that is there, or fails to: it cannot
\* be called, cannot decrypt the block, is being upgraded, or anything else
\* (an unreadable block, no memory, private data).  A block that is not there
\* is answered by what the app believes of the file.
unseal(c) ==
    IF c \in disk
    THEN {<<200, "data">>, <<500, "sgx error">>, <<400, "unseal failed">>,
          <<503, "upgrading">>, <<404, "error code">>}
    ELSE IF find_file_type(c) \in {"none", "pending"} THEN {<<404, "not existed">>}
    ELSE {<<410, "lost">>}

-----------------------------------------------------------------------------
(* Requests *)

Pc == {"idle", "start_pending", "start_exceed", "start_info", "seal_save",
       "seal_record", "clean_pending", "clean_dir", "clean_entry", "end_check",
       "end_table", "end_info", "end_dir", "end_pending", "delete_data",
       "delete_info", "delete_end", "delete_route"}

AnyCid == CHOOSE c \in Cid : TRUE
NoRequest == [pc |-> "idle", cid |-> AnyCid, ok |-> FALSE, whole |-> FALSE,
              delete |-> FALSE, was |-> "none"]

On(r) == req[r].cid
At(r, pc) == req[r].pc = pc
Goto(r, pc) == req' = [req EXCEPT ![r].pc = pc]
Busy(c) == {r \in Thread : ~At(r, "idle") /\ On(r) = c}

\* The request of thread r ends.
Answer(r) == req' = [req EXCEPT ![r] = NoRequest]

\* A request on c reaches the idle thread r and continues at pc.
Ask(r, c, pc) ==
    /\ At(r, "idle")
    /\ asked < MaxRequests
    /\ asked' = asked + 1
    /\ req' = [req EXCEPT ![r] = [NoRequest EXCEPT !.pc = pc, !.cid = c]]
    /\ mixed' = IF Busy(c) = {} THEN mixed ELSE mixed \cup {c}

-----------------------------------------------------------------------------
(* /storage/seal_start *)

\* check_seal_file_dup, under file_mutex.  A file already sealed or being
\* sealed is answered with 200 and not touched.
CanSeal(c) ==
    \/ table[c] = "none"
    \/ table[c] = "deleted" /\ origin[c] \in {"deleted", "unverified"}

storage_seal_file_start(r, c) ==
    /\ CanSeal(c)
    /\ Ask(r, c, "start_pending")
    /\ table' = [table EXCEPT ![c] = "pending"]
    /\ origin' = [origin EXCEPT ![c] = "unverified"]
    /\ UNCHANGED <<pending, snapshot, disk, stored, appVars, ackVars>>

start_pending(r) ==
    /\ At(r, "start_pending")
    /\ IF Cardinality({c \in Cid : pending[c] # "none"}) > FILE_PENDING_LIMIT
       THEN /\ Goto(r, "start_exceed")
            /\ UNCHANGED pending
       ELSE /\ Goto(r, "start_info")
            /\ pending' = [pending EXCEPT ![On(r)] = "open"]
    /\ UNCHANGED <<table, origin, snapshot, disk, stored, appVars, asked,
                   ackVars, mixed>>

\* The entry is erased, whatever became of it.
start_exceed(r) ==
    /\ At(r, "start_exceed")
    /\ table' = [table EXCEPT ![On(r)] = "none"]
    /\ Answer(r)
    /\ UNCHANGED <<origin, pending, snapshot, disk, stored, appVars, asked,
                   ackVars, mixed>>

start_info(r) ==
    /\ At(r, "start_info")
    /\ add_file_info(On(r), "pending")
    /\ Answer(r)
    /\ UNCHANGED <<enclaveVars, disk, stored, asked, ackVars, mixed>>

-----------------------------------------------------------------------------
(* /storage/seal *)

\* A block of a file that is not being sealed makes the request fail.  Empty
\* data are only counted, and never fail so.
storage_seal_file(r, c) ==
    /\ \/ Ask(r, c, IF pending[c] = "none" THEN "clean_pending" ELSE "seal_save")
       \/ Ask(r, c, "seal_record")
    /\ UNCHANGED <<enclaveVars, disk, stored, appVars, ackVars>>

\* The block is written and its size counted.
ocall_save_ipfs_block(c) ==
    /\ disk' = disk \cup {c}
    /\ pending_size' = pending_size \cup {c}

\* Bad data or full disks make the request fail.  A malformed link, and a file
\* that is no longer being sealed once its links are read, end the request
\* with neither a block nor a clean-up.
seal_save(r) ==
    /\ At(r, "seal_save")
    /\ \/ /\ ocall_save_ipfs_block(On(r))
          /\ Goto(r, "seal_record")
       \/ /\ Goto(r, "clean_pending") \/ Answer(r)
          /\ UNCHANGED <<disk, pending_size>>
    /\ UNCHANGED <<enclaveVars, stored, sealed_file, asked, ackVars, mixed>>

\* The block is recorded.  When the file is no longer being sealed the
\* request ends without clean-up.
seal_record(r) ==
    /\ At(r, "seal_record")
    /\ IF pending[On(r)] = "none"
       THEN UNCHANGED pending
       ELSE \E left \in {"open", "whole"} : pending' = [pending EXCEPT ![On(r)] = left]
    /\ Answer(r)
    /\ UNCHANGED <<table, origin, snapshot, disk, stored, appVars, asked,
                   ackVars, mixed>>

clean_pending(r) ==
    /\ At(r, "clean_pending")
    /\ pending' = [pending EXCEPT ![On(r)] = "none"]
    /\ Goto(r, "clean_dir")
    /\ UNCHANGED <<table, origin, snapshot, disk, stored, appVars, asked,
                   ackVars, mixed>>

\* ocall_delete_ipfs_file
clean_dir(r) ==
    /\ At(r, "clean_dir")
    /\ disk' = disk \ {On(r)}
    /\ Goto(r, "clean_entry")
    /\ UNCHANGED <<enclaveVars, stored, appVars, asked, ackVars, mixed>>

\* How a request on a sealed file ends: a deletion returns to its route, and
\* a sealing is answered.
EndOfSeal(r) ==
    IF req[r].delete
    THEN /\ Goto(r, "delete_route")
         /\ UNCHANGED ackVars
    ELSE /\ Answer(r)
         /\ IF req[r].ok
            THEN /\ acked' = acked \cup {On(r)}
                 /\ unstored' = unstored \cup {On(r)}
                 /\ forgotten' = forgotten \ {On(r)}
            ELSE UNCHANGED ackVars

\* Under file_mutex: an entry that is still pending is erased and the app is
\* told inside the critical section.
clean_entry(r) ==
    /\ At(r, "clean_entry")
    /\ IF table[On(r)] = "pending"
       THEN /\ table' = [table EXCEPT ![On(r)] = "none"]
            /\ del_pending_info(On(r))
       ELSE UNCHANGED <<table, appVars>>
    /\ EndOfSeal(r)
    /\ UNCHANGED <<origin, pending, snapshot, disk, stored, asked, mixed>>

-----------------------------------------------------------------------------
(* /storage/seal_end *)

\* The pending file is copied; the rest of the request works on the copy.
storage_seal_file_end(r, c) ==
    /\ pending[c] # "none"
    /\ At(r, "idle")
    /\ asked < MaxRequests
    /\ asked' = asked + 1
    /\ req' = [req EXCEPT ![r] = [NoRequest EXCEPT !.pc = "end_check", !.cid = c,
                                            !.whole = pending[c] = "whole"]]
    /\ mixed' = IF Busy(c) = {} THEN mixed ELSE mixed \cup {c}
    /\ UNCHANGED <<enclaveVars, disk, stored, appVars, ackVars>>

\* A whole file is stored in the DB; an incomplete one, a failed write or an
\* upgrade makes the request fail.
end_check(r) ==
    /\ At(r, "end_check")
    /\ \/ req[r].whole /\ Goto(r, "end_table")
       \/ Goto(r, "end_dir")
    /\ UNCHANGED <<enclaveVars, disk, stored, appVars, asked, ackVars, mixed>>

\* Under file_mutex: the entry becomes VALID, whatever is there.
end_table(r) ==
    /\ At(r, "end_table")
    /\ table' = [table EXCEPT ![On(r)] = "valid"]
    /\ origin' = [origin EXCEPT ![On(r)] = "unverified"]
    /\ req' = [req EXCEPT ![r].pc = "end_info", ![r].ok = TRUE]
    /\ UNCHANGED <<pending, snapshot, disk, stored, appVars, asked, ackVars, mixed>>

\* ocall_store_file_info, with the mutex free.
end_info(r) ==
    /\ At(r, "end_info")
    /\ add_file_info(On(r), "valid")
    /\ Goto(r, "end_pending")
    /\ UNCHANGED <<enclaveVars, disk, stored, asked, ackVars, mixed>>

end_dir(r) ==
    /\ At(r, "end_dir")
    /\ disk' = disk \ {On(r)}
    /\ Goto(r, "end_pending")
    /\ UNCHANGED <<enclaveVars, stored, appVars, asked, ackVars, mixed>>

end_pending(r) ==
    /\ At(r, "end_pending")
    /\ pending' = [pending EXCEPT ![On(r)] = "none"]
    /\ Goto(r, "clean_entry")
    /\ UNCHANGED <<table, origin, snapshot, disk, stored, appVars, asked,
                   ackVars, mixed>>

-----------------------------------------------------------------------------
(* /storage/delete *)

\* Under file_mutex the entry becomes DELETED; a file deleted before goes
\* straight back to the route.
storage_delete_file(r, c) ==
    /\ table[c] # "none"
    /\ At(r, "idle")
    /\ asked < MaxRequests
    /\ asked' = asked + 1
    /\ table' = [table EXCEPT ![c] = "deleted"]
    /\ req' = [req EXCEPT ![r] = [NoRequest EXCEPT
                  !.pc = IF table[c] = "deleted" THEN "delete_route" ELSE "delete_data",
                  !.cid = c, !.delete = TRUE, !.was = table[c]]]
    /\ mixed' = IF Busy(c) = {} THEN mixed ELSE mixed \cup {c}
    /\ acked' = acked \ {c}
    /\ unstored' = unstored \ {c}
    /\ forgotten' = forgotten \ {c}
    /\ UNCHANGED <<origin, pending, snapshot, disk, stored, appVars>>

\* ocall_ipfs_del_all: first the data and the tree, then the app's copy.
delete_data(r) ==
    /\ At(r, "delete_data")
    /\ disk' = disk \ {On(r)}
    /\ Goto(r, "delete_info")
    /\ UNCHANGED <<enclaveVars, stored, appVars, asked, ackVars, mixed>>

\* A file that was being sealed goes through the end of its sealing.
delete_info(r) ==
    /\ At(r, "delete_info")
    /\ del_file_info(On(r))
    /\ Goto(r, IF req[r].was = "pending" THEN "delete_end" ELSE "delete_route")
    /\ UNCHANGED <<enclaveVars, disk, stored, asked, ackVars, mixed>>

delete_end(r) ==
    /\ At(r, "delete_end")
    /\ req' = [req EXCEPT ![r].whole = pending[On(r)] = "whole",
                          ![r].pc = IF pending[On(r)] = "none" THEN "delete_route"
                                                               ELSE "end_check"]
    /\ UNCHANGED <<enclaveVars, disk, stored, appVars, asked, ackVars, mixed>>

\* The route removes the file from the copy once more.
delete_route(r) ==
    /\ At(r, "delete_route")
    /\ del_file_info(On(r))
    /\ Answer(r)
    /\ UNCHANGED <<enclaveVars, disk, stored, asked, ackVars, mixed>>

-----------------------------------------------------------------------------
(* What the enclave does by itself. *)

\* Mutant: files that are being sealed or deleted are judged too.
validate_meaningful_file_all ==
    /\ snapshot' = table
    /\ snapshot' # snapshot
    /\ UNCHANGED <<table, origin, pending, disk, stored, appVars, req, asked,
                   ackVars, mixed>>

\* A round of the validator copies the table; its tasks skip the files that
\* are being sealed or deleted.
validate_meaningful_file ==
    /\ snapshot' = [c \in Cid |-> IF table[c] \in {"valid", "lost"}
                                  THEN table[c] ELSE "none"]
    /\ snapshot' # snapshot
    /\ UNCHANGED <<table, origin, pending, disk, stored, appVars, req, asked,
                   ackVars, mixed>>

Opposite(s) == IF s = "valid" THEN "lost" ELSE "valid"

\* Mutant: the app is not told of the verdict.
change_file_status_silent(c) ==
    /\ snapshot[c] # "none"
    /\ table[c] # "none"
    /\ table' = [table EXCEPT ![c] = Opposite(snapshot[c])]
    /\ snapshot' = [snapshot EXCEPT ![c] = "none"]
    /\ mixed' = IF Busy(c) = {} /\ table[c] = snapshot[c] THEN mixed
                                                          ELSE mixed \cup {c}
    /\ UNCHANGED <<origin, pending, disk, stored, appVars, req, asked, ackVars>>

\* The verdict of the round on c differs from the snapshot: under file_mutex
\* the entry gets the opposite status and the app is told.
change_file_status(c) ==
    /\ snapshot[c] # "none"
    /\ table[c] # "none"
    /\ table' = [table EXCEPT ![c] = Opposite(snapshot[c])]
    /\ change_file_type(c, snapshot[c], Opposite(snapshot[c]))
    /\ snapshot' = [snapshot EXCEPT ![c] = "none"]
    /\ mixed' = IF Busy(c) = {} /\ table[c] = snapshot[c] THEN mixed
                                                          ELSE mixed \cup {c}
    /\ UNCHANGED <<origin, pending, disk, stored, pending_size, req, asked, ackVars>>

\* The chain acknowledges a report that listed c.
handle_report_result(c) ==
    /\ <<table[c], origin[c]>> \in
          {<<"valid", "unverified">>, <<"lost", "valid">>, <<"valid", "lost">>,
           <<"deleted", "valid">>}
    /\ origin' = [origin EXCEPT ![c] = table[c]]
    /\ UNCHANGED <<table, pending, snapshot, disk, stored, appVars, req, asked,
                   ackVars, mixed>>

\* The operator settles what the chain booked of c (/file/recover_illegal).
recover_illegal_file(c) ==
    /\ table[c] # "none"
    /\ \E org \in {"valid", IF table[c] = "deleted" THEN "deleted" ELSE "lost"} :
          /\ origin[c] # org
          /\ origin' = [origin EXCEPT ![c] = org]
    /\ UNCHANGED <<table, pending, snapshot, disk, stored, appVars, req, asked,
                   ackVars, mixed>>

\* deal_deleted_file
deal_deleted_file(c) ==
    /\ table[c] = "deleted"
    /\ origin[c] \in {"deleted", "unverified", "lost"}
    /\ table' = [table EXCEPT ![c] = "none"]
    /\ UNCHANGED <<origin, pending, snapshot, disk, stored, appVars, req,
                   asked, ackVars, mixed>>

\* External: a disk loses the blocks of c.
disk_lost(c) ==
    /\ c \in disk
    /\ disk' = disk \ {c}
    /\ UNCHANGED <<enclaveVars, stored, appVars, req, asked, ackVars, mixed>>

-----------------------------------------------------------------------------
(* Restart *)

id_store_metadata ==
    /\ stored' = [table |-> table, origin |-> origin]
    /\ unstored' = {}
    /\ <<stored', unstored'>> # <<stored, unstored>>
    /\ UNCHANGED <<enclaveVars, disk, appVars, req, asked, acked, forgotten, mixed>>

\* The program starts again from its metadata: files that were being sealed
\* are dropped with their data, the others are back, and the app's copy is
\* filled from the table (Workload::restore_file_info).  A sealing that was
\* answered after the metadata were stored is lost with it.
restart ==
    /\ LET back == [c \in Cid |-> IF stored.table[c] = "pending" THEN "none"
                                                                 ELSE stored.table[c]]
       IN  /\ table' = back
           /\ sealed_file' = [t \in Type |-> {c \in Cid : t \in TypeOf(back[c])}]
    /\ origin' = stored.origin
    /\ disk' = {c \in disk : stored.table[c] # "pending"}
    /\ pending' = [c \in Cid |-> "none"]
    /\ snapshot' = [c \in Cid |-> "none"]
    /\ pending_size' = {}
    /\ req' = [r \in Thread |-> NoRequest]
    /\ forgotten' = acked \cap (forgotten \cup unstored \cup mixed)
    /\ unstored' = {}
    /\ mixed' = {}
    /\ UNCHANGED <<stored, asked, acked>>

-----------------------------------------------------------------------------

NoTable == [c \in Cid |-> "none"]
NoOrigin == [c \in Cid |-> "unverified"]

Init ==
    /\ table = NoTable
    /\ origin = NoOrigin
    /\ pending = NoTable
    /\ snapshot = NoTable
    /\ disk = {}
    /\ stored = [table |-> NoTable, origin |-> NoOrigin]
    /\ sealed_file = [t \in Type |-> {}]
    /\ pending_size = {}
    /\ req = [r \in Thread |-> NoRequest]
    /\ asked = 0
    /\ acked = {} /\ unstored = {} /\ forgotten = {}
    /\ mixed = {}

Call(r, c) ==
    \/ storage_seal_file_start(r, c)
    \/ storage_seal_file(r, c)
    \/ storage_seal_file_end(r, c)
    \/ storage_delete_file(r, c)

Continue(r) ==
    \/ start_pending(r) \/ start_exceed(r) \/ start_info(r)
    \/ seal_save(r) \/ seal_record(r)
    \/ clean_pending(r) \/ clean_dir(r) \/ clean_entry(r)
    \/ end_check(r) \/ end_table(r) \/ end_info(r) \/ end_dir(r) \/ end_pending(r)
    \/ delete_data(r) \/ delete_info(r) \/ delete_end(r) \/ delete_route(r)

Enclave(c) ==
    \/ change_file_status(c)
    \/ handle_report_result(c)
    \/ recover_illegal_file(c)
    \/ deal_deleted_file(c)
    \/ disk_lost(c)

Next ==
    \/ \E r \in Thread, c \in Cid : Call(r, c)
    \/ \E r \in Thread : Continue(r)
    \/ \E c \in Cid : Enclave(c)
    \/ validate_meaningful_file
    \/ id_store_metadata
    \/ restart

Spec == Init /\ [][Next]_vars

-----------------------------------------------------------------------------
(* Properties *)

Status == {"none", "pending", "valid", "lost", "deleted"}
Origin == {"unverified", "valid", "lost", "deleted"}
Request == [pc : Pc, cid : Cid, ok : BOOLEAN, whole : BOOLEAN,
            delete : BOOLEAN, was : Status]

\* Every variable keeps its type; in particular only valid and lost files are
\* ever judged by the validator.
FileInfoTypeOK ==
    /\ table \in [Cid -> Status]
    /\ origin \in [Cid -> Origin]
    /\ pending \in [Cid -> {"none", "open", "whole"}]
    /\ snapshot \in [Cid -> {"none", "valid", "lost"}]
    /\ disk \subseteq Cid
    /\ stored \in [table : [Cid -> Status], origin : [Cid -> Origin]]
    /\ sealed_file \in [Type -> SUBSET Cid]
    /\ pending_size \subseteq Cid
    /\ req \in [Thread -> Request]
    /\ asked \in 0..MaxRequests
    /\ acked \subseteq Cid /\ unstored \subseteq Cid /\ forgotten \subseteq Cid
    /\ mixed \subseteq Cid

\* No request is working on c, and none ever overlapped with another one or
\* with a verdict on it.
Settled(c) == Busy(c) = {} /\ c \notin mixed

\* /file/info_by_type shows a file under one type only, and it is the status
\* the enclave has, once the requests on it came one after the other:
\* failures, repeated seals, deletions, verdicts and restarts included.  So
\* /workload does not count more files than there are.
ShownIsTrue ==
    /\ \A c \in Cid : Settled(c) =>
          {t \in Type : c \in get_file_info_by_type(t)} \subseteq TypeOf(table[c])
    /\ (\A c \in Cid : Settled(c)) =>
          \A t \in Type : gen_workload[t] <= Cardinality({c \in Cid : table[c] = t})

\* A file whose sealing was acknowledged is shown by /file/info and never
\* answered "not existed" by /storage/unseal, until a client deletes it, over
\* any number of verdicts, restarts and failed requests; the one exception is
\* a restart before the metadata were stored again.  When the block is there
\* and the enclave fails to return it the answer is another one.
AckedIsKnown ==
    \A c \in acked \ forgotten : Settled(c) =>
        get_file_info(c) # "none" /\ <<404, "not existed">> \notin unseal(c)

\* The size of a file is kept only while the file is pending, so that sealing
\* it again starts to count at zero, and /workload counts every size kept.
SizeOfPending ==
    \A c \in pending_size : Settled(c) =>
        table[c] = "pending" /\ c \in get_pending_files_size_all

\* What the comment "Sync with APP sealed file info" says of a verdict: once
\* it is applied, the app shows the file under its new status.
VerdictIsSynced ==
    [][\A c \in Cid : change_file_status(c) => c \in sealed_file'[table'[c]]]_vars

=============================================================================
