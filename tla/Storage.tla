------------------------------- MODULE Storage -------------------------------
(***************************************************************************)
(* The file operations of the enclave: seal start, seal, seal end and      *)
(* delete, run by the request threads, and the cleaning of deleted files   *)
(* run by the main loop.                                                   *)
(*                                                                         *)
(* A thread gives up its mutex several times inside one operation; each    *)
(* action below is one critical section (or one call out of the enclave)   *)
(* and the label in thread[t].pc says what the thread does next.  A        *)
(* request the code refuses without changing anything has no action.       *)
(* set_file_spec only adds to counters that no operation reads, so it is   *)
(* folded into the neighbouring critical section.                          *)
(***************************************************************************)
EXTENDS Workload

CONSTANTS
    Thread,       \* the threads that run requests in the enclave
    Requests,     \* which requests the clients send
    EmptyBlock,   \* the block with no data, EMPTY_BLOCK_CID
    BlockNum,     \* chain block numbers a seal may record
    Upgrades,     \* the upgrade statuses the enclave goes through
    MaxRequests   \* bound: how many requests the clients send

ASSUME StorageAssumption ==
    /\ Cid # {}
    /\ Requests \subseteq {"start", "seal", "link", "end", "delete"}
    /\ EmptyBlock \in Block
    /\ BlockNum \subseteq Nat
    /\ Upgrades \subseteq UpgradeStatus
    /\ MaxRequests \in Nat

VARIABLES
    thread,     \* what each request thread is doing
    requests,   \* number of requests received
    del_pc,     \* where deal_deleted_file stands
    del_tmp     \* its local copy of the deleted buffer

storageVars == <<workloadVars, thread, requests, del_pc, del_tmp>>

-----------------------------------------------------------------------------
\* The labels of a thread, one per critical section still to come.
StartPc == {"start_begin", "start_pending", "start_exceed"}
SealPc == {"seal_begin", "seal_link", "seal_children", "seal_save", "seal_record"}
CleanPc == {"clean_pending", "clean_dir", "clean_entry"}
EndPc == {"end_begin", "end_check", "end_store", "end_add", "end_dir", "end_pending"}
DeletePc == {"delete_mark", "delete_data"}
Pc == {"idle"} \cup StartPc \cup SealPc \cup CleanPc \cup EndPc \cup DeletePc

AnyCid == CHOOSE c \in Cid : TRUE

\* A thread's program counter and locals: the file and block it works on,
\* the number of its request and whether it is a link, whether its copy of
\* the pending file awaits no block and the leaves of that copy, and the
\* status a deletion found.
ThreadState == [pc : Pc, cid : Cid, blk : Block, id : Nat, link : BOOLEAN,
                done : BOOLEAN, meta : SUBSET Item, old : FileStatus]

\* The locals of a thread that has just started, and of one that has none.
Fresh(c) == [pc |-> "idle", cid |-> c, blk |-> RootBlock[c], id |-> 0,
             link |-> FALSE, done |-> FALSE, meta |-> {}, old |-> "PENDING"]

Idle(t) == thread[t].pc = "idle"
At(t, pc) == thread[t].pc = pc
Goto(t, pc) == thread' = [thread EXCEPT ![t].pc = pc]
Return(t) == thread' = [thread EXCEPT ![t] = Fresh(AnyCid)]
On(t) == thread[t].cid

\* A client's request of kind k reaches the idle thread t.
Request(t, k) ==
    /\ k \in Requests
    /\ Idle(t)
    /\ requests < MaxRequests
    /\ requests' = requests + 1

\* t starts to work on c at the label pc.
Enter(t, c, pc) == thread' = [thread EXCEPT ![t] = [Fresh(c) EXCEPT !.pc = pc]]

delVars == <<del_pc, del_tmp>>

-----------------------------------------------------------------------------
(* storage_seal_file_start *)

storage_seal_file_start(t, c) ==
    /\ Request(t, "start")
    /\ upgrade_status = "NONE"
    /\ Enter(t, c, "start_begin")
    /\ UNCHANGED <<workloadVars, delVars>>

\* Under file_mutex: the limit, check_seal_file_dup and the new entry.
start_begin(t) ==
    /\ At(t, "start_begin")
    /\ IF /\ Cardinality(Files) < FILE_NUMBER_UPPER_LIMIT
          /\ check_seal_file_dup(On(t))
       THEN /\ sealed_files' = [sealed_files EXCEPT ![On(t)] = PendingEntry]
            /\ Goto(t, "start_pending")
       ELSE /\ Return(t)
            /\ UNCHANGED sealed_files
    /\ UNCHANGED <<pending_files_um, file_del_cid_s, wl_file_spec,
                   upgrade_status, ipfs_dir, db_tree, requests, delVars>>

\* Mutant: the limit on pending files is not tested.
start_pending_unlimited(t) ==
    /\ At(t, "start_pending")
    /\ AddNum(On(t), RootBlock[On(t)], 1)
    /\ wl_file_spec' = set_file_spec(wl_file_spec, "PENDING", 1)
    /\ Return(t)
    /\ UNCHANGED <<sealed_files, file_del_cid_s, upgrade_status, ipfs_dir,
                   db_tree, requests, delVars>>

\* Under pending_files_um_mutex: the limit on pending files, then the root
\* block is awaited.
start_pending(t) ==
    /\ At(t, "start_pending")
    /\ \/ /\ Cardinality(PendingFiles) > FILE_PENDING_LIMIT
          /\ Goto(t, "start_exceed")
          /\ UNCHANGED <<pending_files_um, wl_file_spec>>
       \/ /\ Cardinality(PendingFiles) <= FILE_PENDING_LIMIT
          /\ AddNum(On(t), RootBlock[On(t)], 1)
          /\ wl_file_spec' = set_file_spec(wl_file_spec, "PENDING", 1)
          /\ Return(t)
    /\ UNCHANGED <<sealed_files, file_del_cid_s, upgrade_status, ipfs_dir,
                   db_tree, requests, delVars>>

\* The Defer of an exceeded limit erases the entry, whatever its status.
start_exceed(t) ==
    /\ At(t, "start_exceed")
    /\ del_files({On(t)})
    /\ Return(t)
    /\ UNCHANGED <<pending_files_um, file_del_cid_s, wl_file_spec,
                   upgrade_status, ipfs_dir, db_tree, requests, delVars>>

-----------------------------------------------------------------------------
(* storage_seal_file *)

\* A block with no data is only counted.
seal_empty_block(t, c) ==
    /\ Request(t, "seal")
    /\ pending_files_um[c].known
    /\ AddNum(c, EmptyBlock, -1)
    /\ UNCHANGED <<sealed_files, file_del_cid_s, wl_file_spec, upgrade_status,
                   ipfs_dir, db_tree, thread, delVars>>

\* During an upgrade the operation fails and cleans up.
storage_seal_file(t, c, b, link) ==
    /\ Request(t, IF link THEN "link" ELSE "seal")
    /\ b # EmptyBlock
    /\ thread' = [thread EXCEPT ![t] =
          [Fresh(c) EXCEPT
              !.pc = IF upgrade_status = "NONE" THEN "seal_begin"
                                                ELSE "clean_pending",
              !.blk = b, !.id = requests + 1, !.link = link]]
    /\ UNCHANGED <<workloadVars, delVars>>

\* Up to the first unlock: a block that arrives is counted at once, a link
\* only after its data was read back; without a pending file the operation
\* fails and cleans up.
seal_begin(t) ==
    /\ At(t, "seal_begin")
    /\ \/ /\ ~pending_files_um[On(t)].known
          /\ Goto(t, "clean_pending")
          /\ UNCHANGED pending_files_um
       \/ /\ pending_files_um[On(t)].known
          /\ thread[t].link
          /\ Goto(t, "seal_link")
          /\ UNCHANGED pending_files_um
       \/ /\ pending_files_um[On(t)].known
          /\ ~thread[t].link
          /\ AddNum(On(t), thread[t].blk, -1)
          /\ Goto(t, "seal_children")
    /\ UNCHANGED <<sealed_files, file_del_cid_s, wl_file_spec, upgrade_status,
                   ipfs_dir, db_tree, requests, delVars>>

\* The data behind a link was read and unsealed, or that failed; a link of the
\* wrong form ends the operation without clean-up.  The lock is taken again
\* without looking whether the file is still pending.
seal_link(t) ==
    /\ At(t, "seal_link")
    /\ \/ /\ AddNum(On(t), thread[t].blk, -1)
          /\ Goto(t, "seal_children")
       \/ /\ Goto(t, "clean_pending") \/ Return(t)
          /\ UNCHANGED pending_files_um
    /\ UNCHANGED <<sealed_files, file_del_cid_s, wl_file_spec, upgrade_status,
                   ipfs_dir, db_tree, requests, delVars>>

\* The blocks the block links to are awaited.  A file that is no longer
\* pending ends the operation without clean-up, malformed data with one.
seal_children(t) ==
    /\ At(t, "seal_children")
    /\ \/ /\ pending_files_um[On(t)].known
          /\ pending_files_um' = [pending_files_um EXCEPT ![On(t)].blocks =
                [b \in Block |-> IF b \in Links[thread[t].blk]
                                 THEN @[b] + 1 ELSE @[b]]]
          /\ Goto(t, "seal_save")
       \/ /\ ~pending_files_um[On(t)].known
          /\ Return(t)
          /\ UNCHANGED pending_files_um
       \/ /\ Goto(t, "clean_pending")
          /\ UNCHANGED pending_files_um
    /\ UNCHANGED <<sealed_files, file_del_cid_s, wl_file_spec, upgrade_status,
                   ipfs_dir, db_tree, requests, delVars>>

\* The sealed block is written to a disk; sealing or writing may fail, and a
\* failed allocation before or after the writing ends the operation without
\* clean-up.
seal_save(t) ==
    /\ At(t, "seal_save")
    /\ \/ /\ ipfs_dir' = [ipfs_dir EXCEPT ![On(t)] =
                              @ \cup {<<thread[t].blk, thread[t].id>>}]
          /\ Goto(t, "seal_record") \/ Return(t)
       \/ /\ Goto(t, "clean_pending") \/ Return(t)
          /\ UNCHANGED ipfs_dir
    /\ UNCHANGED <<sealed_files, pending_files_um, file_del_cid_s,
                   wl_file_spec, upgrade_status, db_tree, requests, delVars>>

\* The leaf is recorded, unless the file is no longer pending.
seal_record(t) ==
    /\ At(t, "seal_record")
    /\ IF pending_files_um[On(t)].known
       THEN pending_files_um' = [pending_files_um EXCEPT ![On(t)].meta =
                                    @ \cup {<<thread[t].blk, thread[t].id>>}]
       ELSE UNCHANGED pending_files_um
    /\ Return(t)
    /\ UNCHANGED <<sealed_files, file_del_cid_s, wl_file_spec, upgrade_status,
                   ipfs_dir, db_tree, requests, delVars>>

-----------------------------------------------------------------------------
(* The clean-up a failed seal defers: pending file, directory, entry. *)

clean_pending(t) ==
    /\ At(t, "clean_pending")
    /\ erase_pending(On(t))
    /\ Goto(t, "clean_dir")
    /\ UNCHANGED <<sealed_files, file_del_cid_s, wl_file_spec, upgrade_status,
                   ipfs_dir, db_tree, requests, delVars>>

clean_dir(t) ==
    /\ At(t, "clean_dir")
    /\ ipfs_dir' = [ipfs_dir EXCEPT ![On(t)] = {}]
    /\ Goto(t, "clean_entry")
    /\ UNCHANGED <<sealed_files, pending_files_um, file_del_cid_s,
                   wl_file_spec, upgrade_status, db_tree, requests, delVars>>

\* Under file_mutex: an entry that is still pending is erased.  The deferred
\* clean-up of seal end finishes in the same way.
clean_entry(t) ==
    /\ At(t, "clean_entry")
    /\ IF Status(On(t)) = "PENDING"
       THEN /\ del_files({On(t)})
            /\ wl_file_spec' = set_file_spec(wl_file_spec, "PENDING", -1)
       ELSE UNCHANGED <<sealed_files, wl_file_spec>>
    /\ Return(t)
    /\ UNCHANGED <<pending_files_um, file_del_cid_s, upgrade_status, ipfs_dir,
                   db_tree, requests, delVars>>

-----------------------------------------------------------------------------
(* storage_seal_file_end *)

\* Copy the pending file: whether it awaits no block, and its leaves.
CopyPending(t, c) ==
    thread' = [thread EXCEPT ![t] =
        [Fresh(c) EXCEPT
            !.pc = "end_check",
            !.done = \A b \in Block : pending_files_um[c].blocks[b] = 0,
            !.meta = pending_files_um[c].meta]]

storage_seal_file_end(t, c) ==
    /\ Request(t, "end")
    /\ pending_files_um[c].known
    /\ CopyPending(t, c)
    /\ UNCHANGED <<workloadVars, delVars>>

\* The same call made by storage_delete_file.
end_begin(t) ==
    /\ At(t, "end_begin")
    /\ IF pending_files_um[On(t)].known THEN CopyPending(t, On(t)) ELSE Return(t)
    /\ UNCHANGED <<workloadVars, requests, delVars>>

\* An upgrade or an awaited block makes the operation fail.
end_check(t) ==
    /\ At(t, "end_check")
    /\ Goto(t, IF upgrade_status = "NONE" /\ thread[t].done THEN "end_store"
                                                            ELSE "end_dir")
    /\ UNCHANGED <<workloadVars, requests, delVars>>

\* Store the leaves of the copy, which may fail; there is nothing to store
\* when no leaf was recorded.
end_store(t) ==
    /\ At(t, "end_store")
    /\ \/ /\ thread[t].meta # {}
          /\ db_tree' = [db_tree EXCEPT ![On(t)] =
                            [stored |-> TRUE, leaves |-> thread[t].meta]]
          /\ Goto(t, "end_add")
       \/ /\ Goto(t, "end_dir")
          /\ UNCHANGED db_tree
    /\ UNCHANGED <<sealed_files, pending_files_um, file_del_cid_s,
                   wl_file_spec, upgrade_status, ipfs_dir, requests, delVars>>

\* Mutant: the statistics keep counting the file as pending.
end_add_twice_counted(t) ==
    /\ At(t, "end_add")
    /\ \E n \in BlockNum :
          sealed_files' = [sealed_files EXCEPT
                              ![On(t)] = SealedEntry(thread[t].meta, n)]
    /\ file_del_cid_s' = file_del_cid_s \ {On(t)}
    /\ wl_file_spec' = set_file_spec(wl_file_spec, "VALID", 1)
    /\ Goto(t, "end_pending")
    /\ UNCHANGED <<pending_files_um, upgrade_status, ipfs_dir, db_tree,
                   requests, delVars>>

\* Under file_mutex: the entry becomes VALID, whatever is there, and a cid
\* that was deleted meanwhile leaves the deleted buffer.
end_add(t) ==
    /\ At(t, "end_add")
    /\ \E n \in BlockNum :
          sealed_files' = [sealed_files EXCEPT
                              ![On(t)] = SealedEntry(thread[t].meta, n)]
    /\ file_del_cid_s' = IF Status(On(t)) = "DELETED"
                         THEN file_del_cid_s \ {On(t)} ELSE file_del_cid_s
    /\ wl_file_spec' = set_file_spec(set_file_spec(wl_file_spec, "PENDING", -1),
                                     "VALID", 1)
    /\ Goto(t, "end_pending")
    /\ UNCHANGED <<pending_files_um, upgrade_status, ipfs_dir, db_tree,
                   requests, delVars>>

\* The Defer of a failed seal end first removes the directory.
end_dir(t) ==
    /\ At(t, "end_dir")
    /\ ipfs_dir' = [ipfs_dir EXCEPT ![On(t)] = {}]
    /\ Goto(t, "end_pending")
    /\ UNCHANGED <<sealed_files, pending_files_um, file_del_cid_s,
                   wl_file_spec, upgrade_status, db_tree, requests, delVars>>

\* Mutant: the Defer of seal end forgets the entry.
end_pending_only(t) ==
    /\ At(t, "end_pending")
    /\ erase_pending(On(t))
    /\ Return(t)
    /\ UNCHANGED <<sealed_files, file_del_cid_s, wl_file_spec, upgrade_status,
                   ipfs_dir, db_tree, requests, delVars>>

end_pending(t) ==
    /\ At(t, "end_pending")
    /\ erase_pending(On(t))
    /\ Goto(t, "clean_entry")
    /\ UNCHANGED <<sealed_files, file_del_cid_s, wl_file_spec, upgrade_status,
                   ipfs_dir, db_tree, requests, delVars>>

-----------------------------------------------------------------------------
(* storage_delete_file *)

storage_delete_file(t, c) ==
    /\ Request(t, "delete")
    /\ upgrade_status = "NONE"
    /\ Enter(t, c, "delete_mark")
    /\ UNCHANGED <<workloadVars, delVars>>

\* Mutant: a cid without an entry is not refused.
delete_mark_unfound(t) ==
    /\ At(t, "delete_mark")
    /\ file_del_cid_s' = file_del_cid_s \cup {On(t)}
    /\ sealed_files' = [sealed_files EXCEPT ![On(t)].cur = "DELETED"]
    /\ thread' = [thread EXCEPT ![t].pc = "delete_data",
                                ![t].old = Status(On(t))]
    /\ UNCHANGED <<pending_files_um, wl_file_spec, upgrade_status, ipfs_dir,
                   db_tree, requests, delVars>>

\* Under file_mutex: the cid enters the deleted buffer and the entry becomes
\* DELETED; t keeps the status it found.
delete_mark(t) ==
    /\ At(t, "delete_mark")
    /\ IF Status(On(t)) \in {"ABSENT", "DELETED"}
       THEN /\ Return(t)
            /\ UNCHANGED <<file_del_cid_s, sealed_files>>
       ELSE /\ file_del_cid_s' = file_del_cid_s \cup {On(t)}
            /\ sealed_files' = [sealed_files EXCEPT ![On(t)].cur = "DELETED"]
            /\ thread' = [thread EXCEPT ![t].pc = "delete_data",
                                        ![t].old = Status(On(t))]
    /\ UNCHANGED <<pending_files_um, wl_file_spec, upgrade_status, ipfs_dir,
                   db_tree, requests, delVars>>

\* ocall_ipfs_del_all and the statistics; deleting a file that was still
\* being sealed goes on with storage_seal_file_end.
delete_data(t) ==
    /\ At(t, "delete_data")
    /\ ipfs_dir' = [ipfs_dir EXCEPT ![On(t)] = {}]
    /\ db_tree' = [db_tree EXCEPT ![On(t)] = NoTree]
    /\ wl_file_spec' = set_file_spec(wl_file_spec, thread[t].old, -1)
    /\ IF thread[t].old = "PENDING" THEN Goto(t, "end_begin") ELSE Return(t)
    /\ UNCHANGED <<sealed_files, pending_files_um, file_del_cid_s,
                   upgrade_status, requests, delVars>>

-----------------------------------------------------------------------------
(* Workload::deal_deleted_file, three critical sections of the main loop. *)

deal_take ==
    /\ del_pc = "take"
    /\ del_tmp' = file_del_cid_s
    /\ file_del_cid_s' = {}
    /\ del_pc' = "clean"
    /\ UNCHANGED <<sealed_files, pending_files_um, wl_file_spec,
                   upgrade_status, ipfs_dir, db_tree, thread, requests>>

\* Mutant: only files whose deletion was reported are dropped, and a file
\* the chain never heard of stays.
deal_clean_reported ==
    /\ del_pc = "clean"
    /\ LET gone == {c \in del_tmp : IsCleanable(c) /\ sealed_files[c].org # "UNVERIFIED"}
       IN  /\ del_files(gone)
           /\ del_tmp' = del_tmp \ gone
    /\ del_pc' = "put_back"
    /\ UNCHANGED <<pending_files_um, file_del_cid_s, wl_file_spec,
                   upgrade_status, ipfs_dir, db_tree, thread, requests>>

deal_clean ==
    /\ del_pc = "clean"
    /\ LET gone == {c \in del_tmp : IsCleanable(c)}
       IN  /\ del_files(gone)
           /\ del_tmp' = del_tmp \ gone
    /\ del_pc' = "put_back"
    /\ UNCHANGED <<pending_files_um, file_del_cid_s, wl_file_spec,
                   upgrade_status, ipfs_dir, db_tree, thread, requests>>

\* Mutant: what was deleted meanwhile is overwritten.
deal_put_back_over ==
    /\ del_pc = "put_back"
    /\ file_del_cid_s' = del_tmp
    /\ del_tmp' = {}
    /\ del_pc' = "take"
    /\ UNCHANGED <<sealed_files, pending_files_um, wl_file_spec,
                   upgrade_status, ipfs_dir, db_tree, thread, requests>>

deal_put_back ==
    /\ del_pc = "put_back"
    /\ file_del_cid_s' = file_del_cid_s \cup del_tmp
    /\ del_tmp' = {}
    /\ del_pc' = "take"
    /\ UNCHANGED <<sealed_files, pending_files_um, wl_file_spec,
                   upgrade_status, ipfs_dir, db_tree, thread, requests>>

\* The upgrade protocol moves the enclave's status under the operations' feet.
upgrade(s) ==
    /\ set_upgrade_status(s)
    /\ UNCHANGED <<sealed_files, pending_files_um, file_del_cid_s,
                   wl_file_spec, ipfs_dir, db_tree, thread, requests, delVars>>

-----------------------------------------------------------------------------

StorageInit ==
    /\ WorkloadInit
    /\ thread = [t \in Thread |-> Fresh(AnyCid)]
    /\ requests = 0
    /\ del_pc = "take"
    /\ del_tmp = {}

\* Thread t starts a request.
Call(t) ==
    \E c \in Cid :
        \/ storage_seal_file_start(t, c)
        \/ seal_empty_block(t, c)
        \/ \E b \in Block, link \in BOOLEAN : storage_seal_file(t, c, b, link)
        \/ storage_seal_file_end(t, c)
        \/ storage_delete_file(t, c)

\* Thread t goes on with its request.
Continue(t) ==
    \/ start_begin(t)
    \/ start_pending(t)
    \/ start_exceed(t)
    \/ seal_begin(t)
    \/ seal_link(t)
    \/ seal_children(t)
    \/ seal_save(t)
    \/ seal_record(t)
    \/ clean_pending(t)
    \/ clean_dir(t)
    \/ clean_entry(t)
    \/ end_begin(t)
    \/ end_check(t)
    \/ end_store(t)
    \/ end_add(t)
    \/ end_dir(t)
    \/ end_pending(t)
    \/ delete_mark(t)
    \/ delete_data(t)

deal_deleted_file == deal_take \/ deal_clean \/ deal_put_back

StorageNext ==
    \/ \E t \in Thread : Call(t)
    \/ \E t \in Thread : Continue(t)
    \/ deal_deleted_file
    \/ \E s \in Upgrades : upgrade(s)

StorageSpec == StorageInit /\ [][StorageNext]_storageVars

\* A request that has started runs to its end, and the main loop cleans the
\* deleted files again and again.
StorageFairness ==
    /\ \A t \in Thread : WF_storageVars(Continue(t))
    /\ WF_storageVars(deal_deleted_file)

FairStorageSpec == StorageSpec /\ StorageFairness

-----------------------------------------------------------------------------
(* Properties *)

\* Types: the tables of Workload and the requests inside Storage keep their
\* shapes, whatever requests and cleanings interleave.
StorageTypeOK ==
    /\ WorkloadTypeOK
    /\ thread \in [Thread -> ThreadState]
    /\ requests \in Nat
    /\ del_pc \in {"take", "clean", "put_back"}
    /\ del_tmp \in SUBSET Cid

\* Some thread between two critical sections will still settle c's entry: it
\* is about to register the pending file, to undo the start, or to erase an
\* entry that is still PENDING.
SettlingPc == {"start_pending", "start_exceed", "clean_dir", "clean_entry"}

Settling(c) == \E t \in Thread : On(t) = c /\ thread[t].pc \in SettlingPc

\* storage_seal_file_start, the two deferred clean-ups and seal end give up
\* file_mutex and pending_files_um_mutex between their updates of the two
\* tables.  An entry is never left PENDING with no pending file behind it:
\* seal start would answer "being sealed" for ever, and no seal end could
\* complete or remove it.
NoStuckPending ==
    \A c \in Cid :
        Status(c) = "PENDING" => pending_files_um[c].known \/ Settling(c)

\* deal_deleted_file works on a copy of the deleted buffer with the buffer
\* emptied and unlocked, while requests delete and re-seal files.  A deleted
\* entry is always in the buffer or in that copy: otherwise no later round
\* would find it and it would stay in the table for ever.
DeletedIsBuffered ==
    \A c \in Cid : Status(c) = "DELETED" => c \in file_del_cid_s \cup del_tmp

\* storage_seal_file_start tests the number of pending files in another
\* critical section than the one that inserts the entry, and with >.  The
\* files being sealed, once no request works on them, never outnumber the
\* limit by more than one, although a link may bring back the record of a
\* file whose sealing failed meanwhile.
PendingBounded ==
    Cardinality({c \in PendingFiles :
                    /\ Status(c) = "PENDING"
                    /\ \A t \in Thread : Idle(t) \/ On(t) # c})
        <= FILE_PENDING_LIMIT + 1

\* Every deleted file whose deletion the chain need not be told of goes away:
\* the main loop drops it or a client seals it anew.
DeletedIsDropped ==
    \A c \in Cid :
        (Status(c) = "DELETED" /\ IsCleanable(c)) ~> Status(c) # "DELETED"

\* storage_delete_file reports success once the entry is DELETED.  From then
\* on the file is dropped or sealed anew from the start; no step brings the
\* deleted copy back.
DeletedIsFinal ==
    [][\A c \in Cid : Status(c) = "DELETED" =>
            Status(c)' \in {"DELETED", "ABSENT", "PENDING"}]_storageVars

\* The blocks of file c: the least set with its root and closed under links.
Reachable(c) ==
    {b \in Block : \A S \in SUBSET Block :
        (RootBlock[c] \in S /\ \A p \in S : Links[p] \subseteq S) => b \in S}

\* storage_seal_file_end accepts a file when no block is awaited: a VALID
\* entry lists a leaf for every block of the file that has data.
SealedIsComplete ==
    \A c \in Cid :
        Status(c) = "VALID" =>
            Reachable(c) \ {EmptyBlock} \subseteq {i[1] : i \in sealed_files[c].hash}

=============================================================================
