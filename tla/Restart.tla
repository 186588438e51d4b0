------------------------------- MODULE Restart -------------------------------
(***************************************************************************)
(* The life of a node over crashes and restarts: process_run restores the  *)
(* enclave from the database or enters the network with a new key, and the *)
(* main loop and the work-report loop store the metadata from time to      *)
(* time.  A crash keeps the database, the disk and what the chain knows;   *)
(* the enclave's memory is lost.                                           *)
(*                                                                         *)
(* A file has its current, waiting and original status in the table of the *)
(* enclave ("none": no entry); the original one is what the enclave        *)
(* believes the chain knows.  A write to the database is one synchronous   *)
(* Put, however many parts the value had on its way out of the enclave.    *)
(* Deleting a file that is being sealed is left to the module Storage, the *)
(* choice of the files that are validated to FileService.                  *)
(***************************************************************************)
EXTENDS Integers, FiniteSets

CONSTANTS
    Cid,               \* files
    Account,           \* chain accounts the operator may configure
    REPORT_SLOT,
    EntryTryout,       \* entry_tryout of process_run
    RestartFlag,       \* reports skipped after a restart (set_restart_flag)
    FirstBlock, MaxBlock, \* bounds: the blocks of the chain
    MaxCrashes,        \* bound: crashes of the process
    MaxFaults          \* bound: failures of database, chain, SGX and IAS

ASSUME RestartAssumption ==
    /\ Account # {}
    /\ REPORT_SLOT \in Nat \ {0}
    /\ EntryTryout \in Nat /\ RestartFlag \in Nat \ {0}
    /\ FirstBlock \in Nat /\ MaxBlock \in Nat
    /\ FirstBlock >= REPORT_SLOT /\ FirstBlock <= MaxBlock
    /\ MaxCrashes \in Nat /\ MaxFaults \in Nat

VARIABLES
    proc,              \* process_run: next step
    account,           \* chain_account_id of the configuration
    entry_tryout,
    enc,               \* enclave: key pair, account, report state, status
    files,             \* sealed_files: current and original status
    op,                \* requests under way, one a file
    wr,                \* work_report_loop: next step, target, height, files
    main,              \* ecall_main_loop: next step
    store,             \* id_store_metadata of each thread
    meta_mutex,        \* g_metadata_mutex
    metadata,          \* ID_METADATA of the database
    disk,              \* files with data on the disk
    keys,              \* key pairs generated so far
    registered,        \* the chain: <<key, account>>
    reports,           \* the chain: latest report accepted; turn alternates
    block,             \* the chain: latest block
    crashes, faults,
    young,             \* history: files begun since the stored snapshot
    unread             \* history: metadata there were could not be read

encVars == <<enc, files, op, wr, main, store, meta_mutex>>
dbVars == <<metadata, disk>>
chainVars == <<registered, reports, block>>
histVars == <<young, unread>>
vars == <<proc, account, entry_tryout, encVars, dbVars, keys, chainVars,
          crashes, faults, histVars>>

MaxKeys == (MaxCrashes + 1) * (EntryTryout + 1) + MaxFaults
Thread == {"main", "report"}
Cur == {"none", "pending", "valid", "lost", "deleted"}
Org == {"pending", "unverified", "valid", "lost", "deleted"}
Absent == [cur |-> "none", wait |-> "unverified", org |-> "unverified"]
NoFiles == [c \in Cid |-> Absent]
NoMeta == [key |-> 0, account |-> CHOOSE a \in Account : TRUE, files |-> NoFiles]
Idle == [pc |-> "idle", files |-> NoFiles, stale |-> FALSE]
NoWr == [pc |-> "off", target |-> 0, height |-> 0, valid |-> {}, listed |-> {}]

\* A new enclave: nothing in memory.
Fresh(a) == [key |-> 0, account |-> a, height |-> 0, flag |-> 0,
             validated |-> FALSE, stop |-> FALSE]

Fault == faults < MaxFaults /\ faults' = faults + 1
Up == proc = "run"

-----------------------------------------------------------------------------
(* process_run: start of the process.                                        *)

startFrame == <<op, main, store, meta_mutex, chainVars, crashes>>

\* The configuration is read; components and a new enclave, whose memory is
\* empty, are set up.
initialize ==
    /\ proc = "down"
    /\ \E a \in Account : account' = a /\ enc' = Fresh(a)
    /\ files' = NoFiles
    /\ entry_tryout' = EntryTryout
    /\ proc' = "restore"
    /\ UNCHANGED <<wr, dbVars, keys, faults, histVars, startFrame>>

\* The value is read whole, in parts if it is long; reading may fail.
persist_get(ok, failed) ==
    \/ ok /\ UNCHANGED faults
    \/ Fault /\ failed

\* restore_file: a file that was pending is removed from the disk, the others
\* enter the table.
restored_files ==
    [c \in Cid |-> IF metadata.files[c].cur = "pending" THEN Absent
                   ELSE metadata.files[c]]

\* Mutant: pending files keep their data.
pending_cids_kept == {}

pending_cids == {c \in Cid : metadata.files[c].cur = "pending"}

\* Mutant: more reports are skipped than the flag allows for.
restored_long ==
    [Fresh(metadata.account) EXCEPT !.key = metadata.key, !.flag = RestartFlag + 3]

\* Mutant: the restart flag is not set.
restored_unflagged ==
    [Fresh(metadata.account) EXCEPT !.key = metadata.key]

\* The report height is stored as a string and read as a number: it is 0.
restored ==
    [Fresh(metadata.account) EXCEPT !.key = metadata.key, !.flag = RestartFlag]

\* id_restore_metadata.  Whatever fails, the process starts a new enclave.
restore_metadata ==
    /\ proc = "restore"
    /\ \/ /\ metadata.key # 0
          /\ persist_get(
                 /\ enc' = restored /\ files' = restored_files
                 /\ disk' = disk \ pending_cids
                 /\ proc' = "compare"
                 /\ UNCHANGED unread,
                 /\ proc' = "key" /\ unread' = TRUE
                 /\ UNCHANGED <<enc, files, disk>>)
       \/ /\ metadata.key = 0
          /\ proc' = "key"
          /\ UNCHANGED <<enc, files, disk, faults, unread>>
    /\ UNCHANGED <<account, entry_tryout, wr, metadata, keys, young, startFrame>>

\* Mutant: the recovered account is not looked at.
cmp_chain_account_id_skipped ==
    /\ proc = "compare"
    /\ proc' = "chain"
    /\ UNCHANGED <<account, entry_tryout, enc, files, wr, dbVars, keys, faults,
                   histVars, startFrame>>

\* id_cmp_chain_account_id.
cmp_chain_account_id ==
    /\ proc = "compare"
    /\ proc' = IF enc.account = account THEN "chain" ELSE "down"
    /\ UNCHANGED <<account, entry_tryout, enc, files, wr, dbVars, keys, faults,
                   histVars, startFrame>>

\* id_gen_key_pair.
gen_key_pair ==
    /\ proc = "key"
    /\ keys < MaxKeys
    /\ keys' = keys + 1
    /\ enc' = [enc EXCEPT !.key = keys + 1, !.account = account]
    /\ proc' = "entry"
    /\ UNCHANGED <<account, entry_tryout, files, wr, dbVars, faults, histVars,
                   startFrame>>

\* Mutant: whatever comes of the registration, the node goes on.
entry_network_unchecked ==
    /\ proc = "entry"
    /\ proc' = "tasks"
    /\ registered' \in {registered, registered \union {<<enc.key, enc.account>>}}
    /\ UNCHANGED <<account, entry_tryout, enc, files, op, wr, main, store,
                   meta_mutex, dbVars, keys, reports, block, crashes, faults,
                   histVars>>

\* The steps to an identity: IAS is asked to report on the quote, the enclave
\* verifies the certificates and the signature of the report, compares it with
\* its own key and measurement, and signs it.
Attempt(ok, failed) == ok \/ (Fault /\ failed)
request_ias(ok, failed) == Attempt(ok, failed)
verify_identity(ok, failed) == Attempt(ok, failed)
sign_identity(ok, failed) == Attempt(ok, failed)

\* The chain registers the identity; the answer may get lost.
upload_identity(ok, failed) ==
    LET known == registered \union {<<enc.key, enc.account>>} IN
    \/ registered' = known /\ ok /\ UNCHANGED faults
    \/ Fault /\ registered' \in {registered, known} /\ failed

\* entry_network: a quote that cannot be initialised leads to a new enclave,
\* a few times; any other failure ends the process.  The identity may have
\* been accepted although no answer came back.
entry_network ==
    /\ proc = "entry"
    /\ \/ /\ LET failed == proc' = "down" /\ UNCHANGED registered
             IN  request_ias(
                   verify_identity(
                     sign_identity(upload_identity(proc' = "tasks", proc' = "down"),
                                   failed), failed), failed)
          /\ UNCHANGED <<entry_tryout, enc>>
       \/ /\ Fault
          /\ entry_tryout > 0
          /\ entry_tryout' = entry_tryout - 1
          /\ enc' = Fresh(account)
          /\ proc' = "restore"
          /\ UNCHANGED registered
    /\ UNCHANGED <<account, files, op, wr, main, store, meta_mutex, dbVars, keys,
                   reports, block, crashes, histVars>>

\* wait_for_running: the chain answers and has caught up.
wait_for_running ==
    /\ proc = "chain"
    /\ proc' = "tasks"
    /\ UNCHANGED <<account, entry_tryout, enc, files, wr, dbVars, keys, faults,
                   histVars, startFrame>>

\* The loops start.  The report loop waits for the next slot; without a block
\* header it will report at once.
start_task ==
    /\ proc = "tasks"
    /\ proc' = "run"
    /\ main' = "store"
    /\ \/ /\ wr' = [NoWr EXCEPT !.pc = "poll",
                       !.target = (block \div REPORT_SLOT + 1) * REPORT_SLOT]
          /\ UNCHANGED faults
       \/ /\ Fault
          /\ wr' = [NoWr EXCEPT !.pc = "poll", !.target = REPORT_SLOT]
    /\ UNCHANGED <<account, entry_tryout, enc, files, op, store, meta_mutex,
                   dbVars, keys, chainVars, crashes, histVars>>

-----------------------------------------------------------------------------
(* id_store_metadata, called by the main loop and after an accepted report.  *)

runFrame == <<proc, account, entry_tryout, keys, chainVars, crashes>>

StoreCalled(t) ==
    /\ Up /\ store[t].pc = "idle"
    /\ IF t = "main" THEN main = "store" ELSE wr.pc = "store"

\* Nothing is stored once the status is SUCCESS, and the main loop ends.
store_begin(t) ==
    /\ StoreCalled(t)
    /\ \/ /\ enc.stop
          /\ main' = IF t = "main" THEN "off" ELSE main
          /\ wr' = IF t = "report" THEN [wr EXCEPT !.pc = "poll"] ELSE wr
          /\ UNCHANGED store
       \/ /\ ~enc.stop
          /\ store' = [store EXCEPT ![t].pc = "lock"]
          /\ UNCHANGED <<main, wr>>
    /\ UNCHANGED <<enc, files, op, meta_mutex, dbVars, faults, histVars, runFrame>>

\* serialize_file copies the table under its mutex.
serialize_file == files

\* Mutant: the table is copied before the mutex is taken.
store_serialize_unlocked(t) ==
    /\ Up /\ store[t].pc = "lock"
    /\ store' = [store EXCEPT ![t] = [pc |-> "put", files |-> serialize_file,
                                      stale |-> FALSE]]
    /\ UNCHANGED <<enc, files, op, wr, main, meta_mutex, dbVars, faults,
                   histVars, runFrame>>

store_serialize(t) ==
    /\ Up /\ store[t].pc = "lock"
    /\ meta_mutex = "free"
    /\ meta_mutex' = t
    /\ store' = [store EXCEPT ![t] = [pc |-> "put", files |-> serialize_file,
                                      stale |-> FALSE]]
    /\ UNCHANGED <<enc, files, op, wr, main, dbVars, faults, histVars, runFrame>>

\* The value is sealed and handed to the app, in parts if it is long.
persist_set(value, ok, failed) ==
    \/ metadata' = value /\ ok /\ UNCHANGED faults
    \/ Fault /\ failed /\ UNCHANGED metadata

\* The Put may fail; the loop goes on all the same.
store_put(t) ==
    /\ Up /\ store[t].pc = "put"
    /\ meta_mutex' = "free"
    /\ main' = IF t = "main" THEN "validate" ELSE main
    /\ wr' = IF t = "report" THEN [wr EXCEPT !.pc = "poll"] ELSE wr
    /\ persist_set([key |-> enc.key, account |-> enc.account,
                    files |-> store[t].files],
           /\ young' = {c \in young : store[t].files[c].cur = "none"}
           /\ store' = [u \in Thread |->
                          IF u = t THEN Idle
                          ELSE [store[u] EXCEPT !.stale = (store[u].pc = "put")]],
           /\ store' = [store EXCEPT ![t] = Idle]
           /\ UNCHANGED young)
    /\ UNCHANGED <<enc, files, op, disk, unread, runFrame>>

-----------------------------------------------------------------------------
(* The main loop, and the work reports.                                      *)

\* Files without data are found lost, lost ones with data valid again.
validate ==
    /\ Up /\ main = "validate"
    /\ main' = "store"
    /\ files' = [c \in Cid |->
                    IF files[c].cur = "valid" /\ c \notin disk
                    THEN [files[c] EXCEPT !.cur = "lost"]
                    ELSE IF files[c].cur = "lost" /\ c \in disk
                    THEN [files[c] EXCEPT !.cur = "valid"]
                    ELSE files[c]]
    /\ enc' = [enc EXCEPT !.validated = TRUE]
    /\ UNCHANGED <<op, wr, store, meta_mutex, dbVars, faults, histVars, runFrame>>

wr_poll ==
    /\ Up /\ wr.pc = "poll"
    /\ block >= wr.target
    /\ wr' = [wr EXCEPT !.pc = "gen",
                        !.height = (block \div REPORT_SLOT) * REPORT_SLOT]
    /\ UNCHANGED <<enc, files, op, main, store, meta_mutex, dbVars, faults,
                   histVars, runFrame>>

\* Mutant: a report needs no validation.
has_validated_proof_always == TRUE

has_validated_proof == enc.validated

Changes == {<<"valid", "unverified">>, <<"lost", "valid">>, <<"valid", "lost">>,
            <<"deleted", "valid">>}

\* gen_work_report: an expired height is refused; otherwise the height is kept
\* whether the report is made or not.  The current status becomes the waiting
\* one, and the files whose status changed are listed.
gen_work_report ==
    /\ Up /\ wr.pc = "gen"
    /\ LET next == [wr EXCEPT !.target = wr.height + REPORT_SLOT] IN
       IF enc.stop \/ enc.height + REPORT_SLOT > wr.height
       THEN wr' = [next EXCEPT !.pc = "poll"] /\ UNCHANGED <<enc, files>>
       ELSE /\ enc' = [enc EXCEPT !.height = wr.height, !.validated = FALSE,
                                  !.flag = IF @ > 0 THEN @ - 1 ELSE 0]
            /\ IF enc.flag > 0 \/ ~has_validated_proof
               THEN wr' = [next EXCEPT !.pc = "poll"] /\ UNCHANGED files
               ELSE /\ wr' = [next EXCEPT !.pc = "upload",
                        !.valid = {c \in Cid : files[c].cur = "valid"},
                        !.listed = {c \in Cid :
                                      <<files[c].cur, files[c].org>> \in Changes}]
                    /\ files' = [c \in Cid |->
                                   IF files[c].cur = "none" THEN files[c]
                                   ELSE [files[c] EXCEPT !.wait = files[c].cur]]
    /\ UNCHANGED <<op, main, store, meta_mutex, dbVars, faults, histVars,
                   runFrame>>

\* The chain takes the report, refuses it, or takes it while the answer is
\* lost, after which the same report may be sent again.
upload_workreport ==
    /\ Up /\ wr.pc = "upload"
    /\ LET accepted == [key |-> enc.key, height |-> wr.height,
                        turn |-> 1 - reports.turn]
       IN \/ reports' = accepted /\ wr' = [wr EXCEPT !.pc = "result"]
             /\ UNCHANGED faults
          \/ Fault /\ reports' \in {reports, accepted}
             /\ wr' = [wr EXCEPT !.pc = "poll", !.valid = {}, !.listed = {}]
    /\ UNCHANGED <<proc, account, entry_tryout, keys, registered, block, crashes,
                   enc, files, op, main, store, meta_mutex, dbVars, histVars>>

\* handle_report_result: the waiting status of a listed file becomes the
\* original one; if there was any, the metadata are stored.
handle_report_result ==
    /\ Up /\ wr.pc = "result"
    /\ LET handled == {c \in wr.listed : files[c].cur # "none"} IN
       /\ files' = [c \in Cid |-> IF c \in handled
                                  THEN [files[c] EXCEPT !.org = files[c].wait]
                                  ELSE files[c]]
       /\ wr' = [wr EXCEPT !.pc = IF handled = {} THEN "poll" ELSE "store",
                           !.valid = {}, !.listed = {}]
    /\ UNCHANGED <<enc, op, main, store, meta_mutex, dbVars, faults, histVars,
                   runFrame>>

-----------------------------------------------------------------------------
(* Requests: sealing and deleting of files.                                  *)

opFrame == <<enc, wr, main, store, meta_mutex, metadata, faults, unread, runFrame>>

seal_file_start(c) ==
    /\ Up /\ op[c] = "idle" /\ ~enc.stop
    /\ \/ files[c].cur = "none"
       \/ files[c].cur = "deleted" /\ files[c].org \in {"deleted", "unverified"}
    /\ files' = [files EXCEPT ![c] = [Absent EXCEPT !.cur = "pending"]]
    /\ op' = [op EXCEPT ![c] = "seal"]
    /\ young' = young \union {c}
    /\ UNCHANGED <<disk, opFrame>>

seal_file(c) ==
    /\ Up /\ op[c] = "seal"
    /\ disk' = disk \union {c}
    /\ op' = [op EXCEPT ![c] = "end"]
    /\ UNCHANGED <<files, young, opFrame>>

\* A file whose sealing ends in a stopped enclave loses its data.
seal_file_end(c) ==
    /\ Up /\ op[c] = "end"
    /\ op' = [op EXCEPT ![c] = "idle"]
    /\ IF enc.stop
       THEN /\ files' = [files EXCEPT ![c] = Absent]
            /\ disk' = disk \ {c}
       ELSE /\ files' = [files EXCEPT ![c].cur = "valid"]
            /\ UNCHANGED disk
    /\ UNCHANGED <<young, opFrame>>

\* The entry is marked first, then the data go.
delete_mark(c) ==
    /\ Up /\ op[c] = "idle" /\ ~enc.stop
    /\ files[c].cur \in {"valid", "lost"}
    /\ files' = [files EXCEPT ![c].cur = "deleted"]
    /\ op' = [op EXCEPT ![c] = "delete"]
    /\ UNCHANGED <<disk, young, opFrame>>

delete_data(c) ==
    /\ Up /\ op[c] = "delete"
    /\ disk' = disk \ {c}
    /\ op' = [op EXCEPT ![c] = "idle"]
    /\ UNCHANGED <<files, young, opFrame>>

-----------------------------------------------------------------------------
(* The end of the process.                                                   *)

\* Everything in memory is gone.
Gone(next) ==
    /\ proc' = next
    /\ enc' = Fresh(account)
    /\ files' = NoFiles
    /\ op' = [c \in Cid |-> "idle"]
    /\ wr' = NoWr /\ main' = "off"
    /\ store' = [t \in Thread |-> Idle] /\ meta_mutex' = "free"

crash ==
    /\ proc \notin {"down", "stopped"}
    /\ crashes < MaxCrashes
    /\ crashes' = crashes + 1
    /\ Gone("down")
    /\ UNCHANGED <<account, entry_tryout, dbVars, keys, chainVars, faults, histVars>>

\* /stop: ecall_stop_all sets the status before it asks for the metadata to
\* be stored.
stop_all ==
    /\ Up /\ ~enc.stop
    /\ enc' = [enc EXCEPT !.stop = TRUE]
    /\ UNCHANGED <<files, op, wr, main, store, meta_mutex, dbVars, faults,
                   histVars, runFrame>>

\* The handler waits for the main loop and the report, and the process exits.
stop_exit ==
    /\ Up /\ enc.stop
    /\ main = "off" /\ wr.pc = "poll"
    /\ proc' = "stopped"
    /\ UNCHANGED <<account, entry_tryout, encVars, dbVars, keys, chainVars,
                   crashes, faults, histVars>>

next_block ==
    /\ block < MaxBlock
    /\ block' = block + 1
    /\ UNCHANGED <<proc, account, entry_tryout, encVars, dbVars, keys, registered,
                   reports, crashes, faults, histVars>>

-----------------------------------------------------------------------------

Init ==
    /\ proc = "down"
    /\ account \in Account
    /\ entry_tryout = EntryTryout
    /\ enc = Fresh(account)
    /\ files = NoFiles /\ op = [c \in Cid |-> "idle"]
    /\ wr = NoWr /\ main = "off"
    /\ store = [t \in Thread |-> Idle] /\ meta_mutex = "free"
    /\ metadata = NoMeta /\ disk = {}
    /\ keys = 0 /\ registered = {}
    /\ reports = [key |-> 0, height |-> 0, turn |-> 0]
    /\ block = FirstBlock
    /\ crashes = 0 /\ faults = 0
    /\ young = {} /\ unread = FALSE

start ==
    \/ initialize \/ restore_metadata \/ cmp_chain_account_id \/ gen_key_pair
    \/ entry_network \/ wait_for_running \/ start_task

StoreStep(t) == store_begin(t) \/ store_serialize(t) \/ store_put(t)
ReportStep == wr_poll \/ gen_work_report \/ upload_workreport \/ handle_report_result
ClientStep(c) ==
    \/ seal_file_start(c) \/ seal_file(c) \/ seal_file_end(c)
    \/ delete_mark(c) \/ delete_data(c)

Next ==
    \/ start
    \/ \E t \in Thread : StoreStep(t)
    \/ validate \/ ReportStep
    \/ \E c \in Cid : ClientStep(c)
    \/ crash \/ stop_all \/ stop_exit
    \/ next_block

Spec == Init /\ [][Next]_vars

-----------------------------------------------------------------------------

Table == [Cid -> [cur : Cur, wait : Org, org : Org]]
EncState == [key : 0..MaxKeys, account : Account, height : 0..MaxBlock,
             flag : 0..RestartFlag, validated : BOOLEAN, stop : BOOLEAN]
WrState == [pc : {"off", "poll", "gen", "upload", "result", "store"},
            target : Nat, height : 0..MaxBlock, valid : SUBSET Cid,
            listed : SUBSET Cid]
StoreState == [pc : {"idle", "lock", "put"}, files : Table, stale : BOOLEAN]
Metadata == [key : 0..MaxKeys, account : Account, files : Table]
Report == [key : 0..MaxKeys, height : 0..MaxBlock, turn : 0..1]

\* Types: what the process holds, what the database stores and what the chain
\* knows keep their shapes across crashes and restarts.
RestartTypeOK ==
    /\ proc \in {"down", "restore", "compare", "key", "entry", "chain", "tasks",
                 "run", "stopped"}
    /\ account \in Account
    /\ entry_tryout \in 0..EntryTryout
    /\ enc \in EncState
    /\ files \in Table
    /\ op \in [Cid -> {"idle", "seal", "end", "delete"}]
    /\ wr \in WrState
    /\ main \in {"off", "store", "validate"}
    /\ store \in [Thread -> StoreState]
    /\ meta_mutex \in Thread \union {"free"}
    /\ metadata \in Metadata
    /\ disk \subseteq Cid /\ young \subseteq Cid
    /\ keys \in 0..MaxKeys
    /\ registered \subseteq (1..MaxKeys) \X Account
    /\ reports \in Report
    /\ block \in FirstBlock..MaxBlock
    /\ crashes \in 0..MaxCrashes /\ faults \in 0..MaxFaults
    /\ unread \in BOOLEAN

\* The metadata of the database belong to an identity the chain has accepted:
\* a node restored from them need not enter the network again.
StoredIsRegistered ==
    metadata.key # 0 => <<metadata.key, metadata.account>> \in registered

\* A node that works does so under the account that is configured, and with
\* the key that is stored, unless stored metadata could not be read.
RunsAsConfigured ==
    Up => /\ enc.account = account
          /\ (metadata.key # 0 /\ ~unread) => enc.key = metadata.key

\* Over restarts, the reports of a key reach the chain in ascending order: no
\* slot is reported twice, although the report height is forgotten.
ReportsAscend ==
    [][(reports' # reports /\ reports'.key = reports.key)
         => reports'.height > reports.height]_vars

\* No store writes a table that is older than the one it replaces.
StoreAdvances ==
    [][metadata' # metadata => \E t \in Thread :
          store[t].pc = "put" /\ ~store[t].stale /\ metadata'.files = store[t].files]_vars

\* A report counts no file whose data are gone, the ones a restart brought
\* back from old metadata included.
ReportedIsThere ==
    [][(wr.pc = "gen" /\ wr'.pc = "upload") => wr'.valid \subseteq disk]_vars

\* Data without an entry in the table come from a file that was begun after
\* the snapshot the node was restored from.
OrphanIsYoung ==
    Up => \A c \in disk : files[c].cur # "none" \/ c \in young \/ unread

\* A process that was stopped has stored the files it sealed: "We just need
\* to wait workreport and storing metadata, and then can stop" (ApiHandler.h).
StoppedIsStored ==
    (proc = "stopped" /\ faults = 0)
      => \A c \in Cid : files[c].cur = "valid" => metadata.files[c].cur = "valid"

=============================================================================
