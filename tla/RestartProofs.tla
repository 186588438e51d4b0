---------------------------- MODULE RestartProofs ----------------------------
(***************************************************************************)
(* Proofs about Restart, for any number of files, accounts, blocks,        *)
(* crashes and faults.                                                     *)
(*                                                                         *)
(* RestartInv is the conjunction of parts that lean on each other.         *)
(* AsleepInv: nothing is under way in a process that is not up.            *)
(* IdentityInv follows the key and the account from the registration to    *)
(* the database and back.  StoreInv is the mutual exclusion of the two     *)
(* threads that store.  SlotInv orders the heights of the reports, with    *)
(* the restart flag in place of the height a restart forgets.  DataInv     *)
(* says that what has been validated is on the disk; OrphanInv that data   *)
(* on the disk have an entry in the snapshot, or come from a file begun    *)
(* after it, for which CopyInv compares the copy a thread is about to      *)
(* store with the table.                                                   *)
(***************************************************************************)
EXTENDS Restart, TLAPS

\* The process is up, or was when it stopped.
Awake == proc \in {"run", "stopped"}

AsleepInv ==
    ~Awake => /\ \A c \in Cid : op[c] = "idle"
              /\ \A t \in Thread : store[t].pc = "idle"
              /\ meta_mutex = "free"
              /\ wr.pc = "off"

\* The enclave has an identity the chain knows.
HasIdentity == proc \in {"compare", "chain", "tasks", "run"}

\* The network is entered with a key.
KeyIsMade == proc = "entry" => enc.key # 0

IdentityInv ==
    /\ StoredIsRegistered
    /\ metadata.key = 0 => metadata.files = NoFiles
    /\ proc \in {"restore", "key", "entry"} => files = NoFiles
    /\ HasIdentity => enc.key # 0 /\ <<enc.key, enc.account>> \in registered
    /\ HasIdentity /\ metadata.key # 0 /\ ~unread => enc.key = metadata.key
    /\ proc \in {"key", "entry"} => metadata.key = 0 \/ unread
    /\ KeyIsMade
    /\ proc \in {"entry", "chain", "tasks", "run"} => enc.account = account

StoreInv ==
    \A t \in Thread : store[t].pc = "put" => meta_mutex = t /\ ~store[t].stale

SlotOf(b) == (b \div REPORT_SLOT) * REPORT_SLOT

\* The report height of the enclave is at least that of the chain, or the flag
\* keeps it from reporting; a height is taken from the chain's present slot.
SlotInv ==
    /\ reports.key <= keys /\ enc.key <= keys /\ metadata.key <= keys
    /\ reports.height <= SlotOf(block)
    /\ wr.pc \in {"gen", "upload"} => wr.height <= SlotOf(block)
    /\ wr.pc = "gen" => reports.height <= wr.height
    /\ enc.key # 0 /\ enc.key = reports.key =>
          enc.flag > 0 \/ reports.height <= enc.height
    /\ wr.pc = "upload" => /\ wr.height = enc.height
                           /\ enc.key = reports.key => reports.height < wr.height

DataInv ==
    /\ enc.validated => \A c \in Cid : files[c].cur = "valid" => c \in disk
    /\ \A c \in Cid : op[c] = "end" => c \in disk
    /\ \A c \in Cid : op[c] = "delete" => files[c].cur = "deleted"

\* There are data of the file, or will be.
Written == disk \cup {c \in Cid : op[c] = "seal"}

OrphanInv ==
    \A c \in Written : c \in young \/ unread \/
        /\ metadata.files[c].cur # "none"
        /\ \A t \in Thread : store[t].pc = "put" => store[t].files[c].cur # "none"
        /\ proc \in {"compare", "chain", "tasks", "run"} => files[c].cur # "none"

\* A file with data that is in the copy about to be stored is in the table.
CopyInv ==
    \A t \in Thread : \A c \in Written :
        store[t].pc = "put" /\ store[t].files[c].cur # "none" => files[c].cur # "none"

RestartInv ==
    /\ RestartTypeOK
    /\ AsleepInv
    /\ IdentityInv
    /\ StoreInv
    /\ SlotInv
    /\ DataInv
    /\ OrphanInv
    /\ CopyInv

-----------------------------------------------------------------------------
(* Types *)

\* The constants of the types.
LEMMA TypeFacts ==
    /\ MaxKeys \in Nat
    /\ Absent \in [cur : Cur, wait : Org, org : Org]
    /\ NoFiles \in Table
    /\ \A a \in Account : Fresh(a) \in EncState
    /\ NoWr \in WrState
    /\ Idle \in StoreState
    /\ NoMeta \in Metadata
PROOF
<1>1. MaxKeys \in Nat
  BY RestartAssumption, SMT DEF MaxKeys
<1>2. Absent \in [cur : Cur, wait : Org, org : Org]
  BY DEF Absent, Cur, Org
<1>3. NoFiles \in Table
  BY <1>2 DEF NoFiles, Table
<1>4. 0 \in 0..MaxKeys /\ 0 \in 0..MaxBlock /\ 0 \in 0..RestartFlag
  BY <1>1, RestartAssumption
<1>5. \A a \in Account : Fresh(a) \in EncState
  BY <1>4 DEF Fresh, EncState
<1>6. NoWr \in WrState
  BY <1>4 DEF NoWr, WrState
<1>7. Idle \in StoreState
  BY <1>3 DEF Idle, StoreState
<1>8. NoMeta \in Metadata
  BY <1>3, <1>4, RestartAssumption DEF NoMeta, Metadata
<1> QED
  BY <1>1, <1>2, <1>3, <1>5, <1>6, <1>7, <1>8

\* The slot of a block begins no later than the block, nor than that of a
\* later block.
LEMMA SlotFacts ==
    /\ \A b \in Nat : SlotOf(b) \in Nat /\ SlotOf(b) <= b
    /\ \A b \in Nat : SlotOf(b) <= SlotOf(b + 1)
    /\ \A b \in Nat : (b \div REPORT_SLOT + 1) * REPORT_SLOT \in Nat
PROOF
<1>1. REPORT_SLOT \in Nat \ {0}
  BY RestartAssumption
<1>2. \A b \in Nat : (b \div REPORT_SLOT) \in Nat
  BY <1>1, SMT
<1>3. \A b \in Nat : SlotOf(b) \in Nat /\ SlotOf(b) <= b
  BY <1>1, SMT DEF SlotOf
<1>4. \A b \in Nat : SlotOf(b) <= SlotOf(b + 1)
  BY <1>1, SMT DEF SlotOf
<1>5. \A b \in Nat : (b \div REPORT_SLOT + 1) * REPORT_SLOT \in Nat
  BY <1>1, <1>2, SMT
<1> QED
  BY <1>3, <1>4, <1>5

\* The first state.
LEMMA TypeInit == Init => RestartTypeOK
PROOF
<1> SUFFICES ASSUME Init PROVE RestartTypeOK
  OBVIOUS
<1>1. /\ keys \in 0..MaxKeys
      /\ reports \in Report
      /\ block \in FirstBlock..MaxBlock
      /\ crashes \in 0..MaxCrashes /\ faults \in 0..MaxFaults
      /\ entry_tryout \in 0..EntryTryout
  BY TypeFacts, RestartAssumption DEF Init, Report
<1>2. /\ op \in [Cid -> {"idle", "seal", "end", "delete"}]
      /\ store \in [Thread -> StoreState]
  BY TypeFacts DEF Init
<1>3. unread \in BOOLEAN
  BY DEF Init
<1> QED
  BY <1>1, <1>2, <1>3, TypeFacts DEF Init, RestartTypeOK

\* Types: the start of the process.
LEMMA StartTypes ==
    ASSUME RestartTypeOK, KeyIsMade, start
    PROVE  RestartTypeOK'
PROOF
<1> USE RestartAssumption
<1>1. ASSUME initialize PROVE RestartTypeOK'
  BY <1>1, TypeFacts
  DEF initialize, RestartTypeOK, encVars, dbVars, chainVars, histVars,
      startFrame
<1>2. ASSUME restore_metadata PROVE RestartTypeOK'
  <2>1. enc' \in EncState
    <3>1. /\ metadata.key \in 0..MaxKeys /\ metadata.account \in Account
          /\ 0 \in 0..MaxBlock /\ RestartFlag \in 0..RestartFlag
      BY DEF RestartTypeOK, Metadata
    <3> DEFINE new == Fresh(metadata.account)
    <3>2. new \in EncState /\ restored = [new EXCEPT !.key = metadata.key, !.flag = RestartFlag]
      BY <3>1, TypeFacts DEF restored
    <3> HIDE DEF new
    <3>3. restored \in EncState
      BY <3>1, <3>2 DEF EncState
    <3> QED
      BY <1>2, <3>3 DEF restore_metadata, persist_get, RestartTypeOK
  <2>2. files' \in Table
    <3>1. restored_files \in Table
      BY TypeFacts DEF restored_files, RestartTypeOK, Metadata, Table
    <3> QED
      BY <1>2, <3>1 DEF restore_metadata, persist_get, RestartTypeOK
  <2>3. faults' \in 0..MaxFaults
    BY <1>2, TypeFacts
    DEF restore_metadata, RestartTypeOK, persist_get, Fault
  <2>4. proc' \in {"compare", "key"} /\ disk' \subseteq Cid
    BY <1>2, TypeFacts
    DEF restore_metadata, RestartTypeOK, persist_get
  <2>5. unread' \in BOOLEAN
    BY <1>2, TypeFacts
    DEF restore_metadata, RestartTypeOK, persist_get
  <2> QED
    BY <1>2, <2>1, <2>2, <2>3, <2>4, <2>5
    DEF restore_metadata, RestartTypeOK, encVars, dbVars, chainVars, histVars,
        startFrame
<1>3. ASSUME cmp_chain_account_id PROVE RestartTypeOK'
  BY <1>3, TypeFacts
  DEF cmp_chain_account_id, RestartTypeOK, encVars, dbVars, chainVars,
      histVars, startFrame
<1>4. ASSUME gen_key_pair PROVE RestartTypeOK'
  <2>1. enc' \in EncState /\ keys' \in 0..MaxKeys
    <3>1. keys' = keys + 1 /\ keys + 1 \in 0..MaxKeys
      BY <1>4, TypeFacts DEF gen_key_pair, RestartTypeOK
    <3>2. enc' = [enc EXCEPT !.key = keys + 1, !.account = account]
      BY <1>4 DEF gen_key_pair
    <3> QED
      BY <3>1, <3>2 DEF RestartTypeOK, EncState
  <2> QED
    BY <1>4, <2>1
    DEF gen_key_pair, RestartTypeOK, encVars, dbVars, chainVars, histVars,
        startFrame
<1>5. ASSUME entry_network PROVE RestartTypeOK'
  <2>1. enc' \in EncState /\ entry_tryout' \in 0..EntryTryout
    BY <1>5, TypeFacts
    DEF entry_network, RestartTypeOK, request_ias, verify_identity,
        sign_identity, Attempt
  <2>2. faults' \in 0..MaxFaults
    BY <1>5, TypeFacts
    DEF entry_network, RestartTypeOK, request_ias, verify_identity,
        sign_identity, upload_identity, Attempt, Fault
  <2>3. proc' \in {"down", "tasks", "restore"}
    BY <1>5, TypeFacts
    DEF entry_network, RestartTypeOK, request_ias, verify_identity,
        sign_identity, upload_identity, Attempt
  <2>4. registered' \subseteq (1..MaxKeys) \X Account
    <3>1. enc.key \in 1..MaxKeys /\ enc.account \in Account
      BY <1>5, TypeFacts DEF entry_network, RestartTypeOK, EncState, KeyIsMade
    <3> QED
      BY <1>5, <3>1
      DEF entry_network, request_ias, verify_identity, sign_identity,
          upload_identity, Attempt, RestartTypeOK
  <2> QED
    BY <1>5, <2>1, <2>2, <2>3, <2>4
    DEF entry_network, RestartTypeOK, encVars, dbVars, chainVars, histVars,
        startFrame
<1>6. ASSUME wait_for_running PROVE RestartTypeOK'
  BY <1>6, TypeFacts
  DEF wait_for_running, RestartTypeOK, encVars, dbVars, chainVars, histVars,
      startFrame
<1>7. ASSUME start_task PROVE RestartTypeOK'
  <2>1. wr' \in WrState
    <3>1. block \in Nat /\ REPORT_SLOT \in Nat
          /\ (block \div REPORT_SLOT + 1) * REPORT_SLOT \in Nat
      BY SlotFacts DEF RestartTypeOK
    <3>2. \A n \in Nat : [NoWr EXCEPT !.pc = "poll", !.target = n] \in WrState
      BY TypeFacts DEF WrState
    <3> QED
      BY <1>7, <3>1, <3>2 DEF start_task
  <2>2. faults' \in 0..MaxFaults
    BY <1>7, TypeFacts
    DEF start_task, RestartTypeOK, Fault
  <2> QED
    BY <1>7, <2>1, <2>2
    DEF start_task, RestartTypeOK, encVars, dbVars, chainVars, histVars,
        startFrame
<1> QED
  BY <1>1, <1>2, <1>3, <1>4, <1>5, <1>6, <1>7
  DEF start

\* Types: storing.
LEMMA StoreTypes ==
    ASSUME RestartTypeOK, NEW t \in Thread, StoreStep(t)
    PROVE  RestartTypeOK'
PROOF
<1> USE RestartAssumption
<1>1. ASSUME store_begin(t) PROVE RestartTypeOK'
  <2>1. store' \in [Thread -> StoreState]
    BY <1>1, TypeFacts
    DEF store_begin, RestartTypeOK, StoreState
  <2>2. wr' \in WrState
    BY <1>1, TypeFacts
    DEF store_begin, RestartTypeOK, WrState
  <2> QED
    BY <1>1, <2>1, <2>2
    DEF store_begin, RestartTypeOK, encVars, dbVars, chainVars, histVars,
        runFrame
<1>2. ASSUME store_serialize(t) PROVE RestartTypeOK'
  <2>1. store' \in [Thread -> StoreState]
    BY <1>2, TypeFacts
    DEF store_serialize, RestartTypeOK, StoreState, serialize_file
  <2> QED
    BY <1>2, <2>1
    DEF store_serialize, RestartTypeOK, encVars, dbVars, chainVars, histVars,
        runFrame
<1>3. ASSUME store_put(t) PROVE RestartTypeOK'
  <2>1. store' \in [Thread -> StoreState]
    <3>1. \A u \in Thread : [store[u] EXCEPT !.stale = (store[u].pc = "put")] \in StoreState
      BY DEF RestartTypeOK, StoreState
    <3> QED
      BY <1>3, <3>1, TypeFacts DEF store_put, persist_set, RestartTypeOK
  <2>2. wr' \in WrState
    BY <1>3, TypeFacts
    DEF store_put, RestartTypeOK, WrState
  <2>3. metadata' \in Metadata
    BY <1>3, TypeFacts
    DEF store_put, RestartTypeOK, Metadata, EncState, StoreState, persist_set
  <2>4. young' \subseteq Cid
    BY <1>3, TypeFacts
    DEF store_put, RestartTypeOK, persist_set
  <2>5. faults' \in 0..MaxFaults
    BY <1>3, TypeFacts
    DEF store_put, RestartTypeOK, persist_set, Fault
  <2> QED
    BY <1>3, <2>1, <2>2, <2>3, <2>4, <2>5
    DEF store_put, RestartTypeOK, encVars, dbVars, chainVars, histVars,
        runFrame
<1> QED
  BY <1>1, <1>2, <1>3
  DEF StoreStep

\* Types: the main loop and the report loop.
LEMMA LoopTypes ==
    ASSUME RestartTypeOK, validate \/ ReportStep
    PROVE  RestartTypeOK'
PROOF
<1> USE RestartAssumption
<1>1. ASSUME validate PROVE RestartTypeOK'
  <2>1. files' \in Table
    BY <1>1, TypeFacts
    DEF validate, RestartTypeOK, Table, Cur
  <2>2. enc' \in EncState
    BY <1>1, TypeFacts
    DEF validate, RestartTypeOK, EncState
  <2> QED
    BY <1>1, <2>1, <2>2
    DEF validate, RestartTypeOK, encVars, dbVars, chainVars, histVars,
        runFrame
<1>2. ASSUME wr_poll PROVE RestartTypeOK'
  <2>1. SlotOf(block) \in 0..MaxBlock
    BY <1>2, TypeFacts, SlotFacts
    DEF wr_poll, RestartTypeOK
  <2>2. wr' \in WrState
    BY <1>2, TypeFacts, <2>1
    DEF wr_poll, RestartTypeOK, SlotOf, WrState
  <2> QED
    BY <1>2, <2>1, <2>2
    DEF wr_poll, RestartTypeOK, encVars, dbVars, chainVars, histVars, runFrame
<1>3. ASSUME gen_work_report PROVE RestartTypeOK'
  <2>1. files' \in Table
    <3>1. \A c \in Cid : files[c].cur # "none" =>
             [files[c] EXCEPT !.wait = files[c].cur] \in [cur : Cur, wait : Org, org : Org]
      BY DEF RestartTypeOK, Table, Cur, Org
    <3>2. \A c \in Cid : files[c] \in [cur : Cur, wait : Org, org : Org]
      BY DEF RestartTypeOK, Table
    <3>3. \/ files' = files
          \/ files' = [c \in Cid |-> IF files[c].cur = "none" THEN files[c]
                                     ELSE [files[c] EXCEPT !.wait = files[c].cur]]
      BY <1>3 DEF gen_work_report
    <3> QED
      BY <3>1, <3>2, <3>3 DEF RestartTypeOK, Table
  <2>2. enc' \in EncState
    <3>1. \/ enc' = enc
          \/ enc' = [enc EXCEPT !.height = wr.height, !.validated = FALSE,
                                !.flag = IF @ > 0 THEN @ - 1 ELSE 0]
      BY <1>3 DEF gen_work_report
    <3>2. /\ wr.height \in 0..MaxBlock
          /\ (IF enc.flag > 0 THEN enc.flag - 1 ELSE 0) \in 0..RestartFlag
      BY DEF RestartTypeOK, EncState, WrState
    <3>3. CASE enc' = enc
      BY <3>3 DEF RestartTypeOK
    <3>4. CASE enc' = [enc EXCEPT !.height = wr.height, !.validated = FALSE,
                                  !.flag = IF @ > 0 THEN @ - 1 ELSE 0]
      BY <3>2, <3>4 DEF RestartTypeOK, EncState
    <3> QED
      BY <3>1, <3>3, <3>4
  <2>3. wr' \in WrState
    <3>1. wr.height + REPORT_SLOT \in Nat
      BY DEF RestartTypeOK, WrState
    <3> DEFINE next == [wr EXCEPT !.target = wr.height + REPORT_SLOT]
    <3>2. next \in WrState
      BY <3>1 DEF RestartTypeOK, WrState
    <3>3. \/ wr' = [next EXCEPT !.pc = "poll"]
          \/ \E v, l \in SUBSET Cid :
                wr' = [next EXCEPT !.pc = "upload", !.valid = v, !.listed = l]
      BY <1>3 DEF gen_work_report
    <3> HIDE DEF next
    <3> QED
      BY <3>2, <3>3 DEF WrState
  <2> QED
    BY <1>3, <2>1, <2>2, <2>3
    DEF gen_work_report, RestartTypeOK, encVars, dbVars, chainVars, histVars,
        runFrame
<1>4. ASSUME upload_workreport PROVE RestartTypeOK'
  <2>1. wr' \in WrState
    <3>1. \/ wr' = [wr EXCEPT !.pc = "result"]
          \/ wr' = [wr EXCEPT !.pc = "poll", !.valid = {}, !.listed = {}]
      BY <1>4 DEF upload_workreport
    <3>2. CASE wr' = [wr EXCEPT !.pc = "result"]
      BY <3>2 DEF RestartTypeOK, WrState
    <3>3. CASE wr' = [wr EXCEPT !.pc = "poll", !.valid = {}, !.listed = {}]
      BY <3>3 DEF RestartTypeOK, WrState
    <3> QED
      BY <3>1, <3>2, <3>3
  <2>2. reports' \in Report
    BY <1>4, TypeFacts
    DEF upload_workreport, RestartTypeOK, Report, EncState, WrState
  <2>3. faults' \in 0..MaxFaults
    BY <1>4, TypeFacts
    DEF upload_workreport, RestartTypeOK, Fault
  <2> QED
    BY <1>4, <2>1, <2>2, <2>3
    DEF upload_workreport, RestartTypeOK, encVars, dbVars, chainVars,
        histVars, runFrame
<1>5. ASSUME handle_report_result PROVE RestartTypeOK'
  <2>1. files' \in Table
    BY <1>5, TypeFacts
    DEF handle_report_result, RestartTypeOK, Table
  <2>2. wr' \in WrState
    BY <1>5, TypeFacts
    DEF handle_report_result, RestartTypeOK, WrState
  <2> QED
    BY <1>5, <2>1, <2>2
    DEF handle_report_result, RestartTypeOK, encVars, dbVars, chainVars,
        histVars, runFrame
<1> QED
  BY <1>1, <1>2, <1>3, <1>4, <1>5
  DEF ReportStep

\* Types: the requests.
LEMMA ClientTypes ==
    ASSUME RestartTypeOK, NEW c \in Cid, ClientStep(c)
    PROVE  RestartTypeOK'
PROOF
<1> USE RestartAssumption
<1>1. ASSUME seal_file_start(c) PROVE RestartTypeOK'
  <2>1. files' \in Table
    BY <1>1, TypeFacts
    DEF seal_file_start, RestartTypeOK, Table, Absent, Cur, Org
  <2> QED
    BY <1>1, <2>1
    DEF seal_file_start, RestartTypeOK, encVars, dbVars, chainVars, histVars,
        runFrame, opFrame
<1>2. ASSUME seal_file(c) PROVE RestartTypeOK'
  BY <1>2, TypeFacts
  DEF seal_file, RestartTypeOK, encVars, dbVars, chainVars, histVars,
      runFrame, opFrame
<1>3. ASSUME seal_file_end(c) PROVE RestartTypeOK'
  <2>1. files' \in Table
    <3>1. [files EXCEPT ![c] = Absent] \in Table
      BY TypeFacts DEF RestartTypeOK, Table
    <3>2. [files EXCEPT ![c].cur = "valid"] \in Table
      BY DEF RestartTypeOK, Table, Cur
    <3> QED
      BY <1>3, <3>1, <3>2 DEF seal_file_end
  <2> QED
    BY <1>3, <2>1
    DEF seal_file_end, RestartTypeOK, encVars, dbVars, chainVars, histVars,
        runFrame, opFrame
<1>4. ASSUME delete_mark(c) PROVE RestartTypeOK'
  <2>1. files' \in Table
    BY <1>4, TypeFacts
    DEF delete_mark, RestartTypeOK, Table, Absent, Cur, Org
  <2> QED
    BY <1>4, <2>1
    DEF delete_mark, RestartTypeOK, encVars, dbVars, chainVars, histVars,
        runFrame, opFrame
<1>5. ASSUME delete_data(c) PROVE RestartTypeOK'
  BY <1>5, TypeFacts
  DEF delete_data, RestartTypeOK, encVars, dbVars, chainVars, histVars,
      runFrame, opFrame
<1> QED
  BY <1>1, <1>2, <1>3, <1>4, <1>5
  DEF ClientStep

\* Types: the end of the process, and the chain.
LEMMA EndTypes ==
    ASSUME RestartTypeOK, crash \/ stop_all \/ stop_exit \/ next_block
    PROVE  RestartTypeOK'
PROOF
<1> USE RestartAssumption
<1>1. ASSUME crash PROVE RestartTypeOK'
  BY <1>1, TypeFacts
  DEF crash, RestartTypeOK, encVars, dbVars, chainVars, histVars, Gone
<1>2. ASSUME stop_all PROVE RestartTypeOK'
  <2>1. enc' \in EncState
    BY <1>2, TypeFacts
    DEF stop_all, RestartTypeOK, EncState
  <2> QED
    BY <1>2, <2>1
    DEF stop_all, RestartTypeOK, encVars, dbVars, chainVars, histVars,
        runFrame
<1>3. ASSUME stop_exit PROVE RestartTypeOK'
  BY <1>3, TypeFacts
  DEF stop_exit, RestartTypeOK, encVars, dbVars, chainVars, histVars, runFrame
<1>4. ASSUME next_block PROVE RestartTypeOK'
  BY <1>4, TypeFacts
  DEF next_block, RestartTypeOK, encVars, dbVars, chainVars, histVars,
      runFrame
<1> QED
  BY <1>1, <1>2, <1>3, <1>4

\* gen_key_pair comes before entry_network.
LEMMA KeyStep ==
    ASSUME RestartTypeOK, KeyIsMade, [Next]_vars
    PROVE  KeyIsMade'
PROOF
<1>1. CASE gen_key_pair
  BY <1>1 DEF gen_key_pair, KeyIsMade, RestartTypeOK, EncState
<1>2. CASE start /\ ~gen_key_pair
  BY <1>2 DEF start, initialize, restore_metadata, persist_get,
     cmp_chain_account_id, entry_network, request_ias, verify_identity,
     sign_identity, upload_identity, Attempt, wait_for_running, start_task,
     KeyIsMade
<1>3. ASSUME \E t \in Thread : StoreStep(t) PROVE KeyIsMade'
  BY <1>3 DEF StoreStep, store_begin, store_serialize, store_put, StoreCalled,
     Up, runFrame, KeyIsMade
<1>4. CASE validate \/ ReportStep
  BY <1>4 DEF validate, ReportStep, wr_poll, gen_work_report,
     upload_workreport, handle_report_result, Up, runFrame, KeyIsMade
<1>5. ASSUME \E c \in Cid : ClientStep(c) PROVE KeyIsMade'
  BY <1>5 DEF ClientStep, seal_file_start, seal_file, seal_file_end,
     delete_mark, delete_data, Up, opFrame, runFrame, KeyIsMade
<1>6. CASE crash \/ stop_all \/ stop_exit \/ next_block \/ UNCHANGED vars
  BY <1>6 DEF crash, Gone, stop_all, stop_exit, next_block, Up, runFrame, vars,
     encVars, KeyIsMade
<1> QED
  BY <1>1, <1>2, <1>3, <1>4, <1>5, <1>6 DEF Next

\* Every step keeps the types.
LEMMA TypeStep ==
    ASSUME RestartTypeOK, KeyIsMade, [Next]_vars
    PROVE  RestartTypeOK'
PROOF
<1>1. CASE UNCHANGED vars
  BY <1>1 DEF vars, encVars, dbVars, chainVars, histVars, RestartTypeOK
<1> QED
  BY <1>1, StartTypes, StoreTypes, LoopTypes, ClientTypes, EndTypes DEF Next

\* What the process holds, the database stores and the chain knows keep their
\* types over any number of crashes and restarts.
THEOREM RestartTypes == Spec => []RestartTypeOK
PROOF
<1>1. Init => KeyIsMade
  BY DEF Init, KeyIsMade
<1>2. Spec => [](RestartTypeOK /\ KeyIsMade)
  BY <1>1, TypeInit, TypeStep, KeyStep, PTL DEF Spec
<1> QED
  BY <1>2, PTL

-----------------------------------------------------------------------------
(* The invariants of single components *)

\* Nothing is under way in a process that is not up.
LEMMA AsleepStep ==
    ASSUME RestartTypeOK, AsleepInv, [Next]_vars
    PROVE  AsleepInv'
PROOF
<1>1. ASSUME initialize PROVE AsleepInv'
  BY <1>1
  DEF initialize, encVars, dbVars, chainVars, histVars, startFrame,
      RestartTypeOK, AsleepInv, Awake, Idle, NoWr
<1>2. ASSUME restore_metadata PROVE AsleepInv'
  BY <1>2
  DEF restore_metadata, persist_get, encVars, dbVars, chainVars, histVars,
      startFrame, RestartTypeOK, AsleepInv, Awake, Idle, NoWr
<1>3. ASSUME cmp_chain_account_id PROVE AsleepInv'
  BY <1>3
  DEF cmp_chain_account_id, encVars, dbVars, chainVars, histVars, startFrame,
      RestartTypeOK, AsleepInv, Awake, Idle, NoWr
<1>4. ASSUME gen_key_pair PROVE AsleepInv'
  BY <1>4
  DEF gen_key_pair, encVars, dbVars, chainVars, histVars, startFrame,
      RestartTypeOK, AsleepInv, Awake, Idle, NoWr
<1>5. ASSUME entry_network PROVE AsleepInv'
  BY <1>5
  DEF entry_network, request_ias, verify_identity, sign_identity,
      upload_identity, Attempt, dbVars, histVars, RestartTypeOK, AsleepInv,
      Awake, Idle, NoWr
<1>6. ASSUME wait_for_running PROVE AsleepInv'
  BY <1>6
  DEF wait_for_running, encVars, dbVars, chainVars, histVars, startFrame,
      RestartTypeOK, AsleepInv, Awake, Idle, NoWr
<1>7. ASSUME start_task PROVE AsleepInv'
  BY <1>7
  DEF start_task, dbVars, chainVars, histVars, RestartTypeOK, AsleepInv,
      Awake, Idle, NoWr
<1>8. ASSUME NEW t \in Thread, store_begin(t) PROVE AsleepInv'
  BY <1>8
  DEF store_begin, StoreCalled, dbVars, chainVars, histVars, runFrame, Up,
      RestartTypeOK, AsleepInv, Awake, Idle, NoWr
<1>9. ASSUME NEW t \in Thread, store_serialize(t) PROVE AsleepInv'
  BY <1>9
  DEF store_serialize, serialize_file, dbVars, chainVars, histVars, runFrame,
      Up, RestartTypeOK, AsleepInv, Awake, Idle, NoWr
<1>10. ASSUME NEW t \in Thread, store_put(t) PROVE AsleepInv'
  BY <1>10
  DEF store_put, persist_set, dbVars, chainVars, histVars, runFrame, Up,
      RestartTypeOK, AsleepInv, Awake, Idle, NoWr
<1>11. ASSUME validate PROVE AsleepInv'
  BY <1>11
  DEF validate, dbVars, chainVars, histVars, runFrame, Up, RestartTypeOK,
      AsleepInv, Awake, Idle, NoWr
<1>12. ASSUME wr_poll PROVE AsleepInv'
  BY <1>12
  DEF wr_poll, dbVars, chainVars, histVars, runFrame, Up, RestartTypeOK,
      AsleepInv, Awake, Idle, NoWr
<1>13. ASSUME gen_work_report PROVE AsleepInv'
  BY <1>13
  DEF gen_work_report, dbVars, chainVars, histVars, runFrame, Up,
      RestartTypeOK, AsleepInv, Awake, Idle, NoWr
<1>14. ASSUME upload_workreport PROVE AsleepInv'
  BY <1>14
  DEF upload_workreport, Up, dbVars, histVars, RestartTypeOK, AsleepInv,
      Awake, Idle, NoWr
<1>15. ASSUME handle_report_result PROVE AsleepInv'
  BY <1>15
  DEF handle_report_result, dbVars, chainVars, histVars, runFrame, Up,
      RestartTypeOK, AsleepInv, Awake, Idle, NoWr
<1>16. ASSUME NEW c \in Cid, seal_file_start(c) PROVE AsleepInv'
  BY <1>16
  DEF seal_file_start, chainVars, opFrame, runFrame, Up, RestartTypeOK,
      AsleepInv, Awake, Idle, NoWr
<1>17. ASSUME NEW c \in Cid, seal_file(c) PROVE AsleepInv'
  BY <1>17
  DEF seal_file, chainVars, opFrame, runFrame, Up, RestartTypeOK, AsleepInv,
      Awake, Idle, NoWr
<1>18. ASSUME NEW c \in Cid, seal_file_end(c) PROVE AsleepInv'
  BY <1>18
  DEF seal_file_end, chainVars, opFrame, runFrame, Up, RestartTypeOK,
      AsleepInv, Awake, Idle, NoWr
<1>19. ASSUME NEW c \in Cid, delete_mark(c) PROVE AsleepInv'
  BY <1>19
  DEF delete_mark, chainVars, opFrame, runFrame, Up, RestartTypeOK, AsleepInv,
      Awake, Idle, NoWr
<1>20. ASSUME NEW c \in Cid, delete_data(c) PROVE AsleepInv'
  BY <1>20
  DEF delete_data, chainVars, opFrame, runFrame, Up, RestartTypeOK, AsleepInv,
      Awake, Idle, NoWr
<1>21. ASSUME crash PROVE AsleepInv'
  BY <1>21
  DEF crash, Gone, dbVars, chainVars, histVars, RestartTypeOK, AsleepInv,
      Awake, Idle, NoWr
<1>22. ASSUME stop_all PROVE AsleepInv'
  BY <1>22
  DEF stop_all, dbVars, chainVars, histVars, runFrame, Up, RestartTypeOK,
      AsleepInv, Awake, Idle, NoWr
<1>23. ASSUME stop_exit PROVE AsleepInv'
  BY <1>23
  DEF stop_exit, Up, encVars, dbVars, chainVars, histVars, RestartTypeOK,
      AsleepInv, Awake, Idle, NoWr
<1>24. ASSUME next_block PROVE AsleepInv'
  BY <1>24
  DEF next_block, encVars, dbVars, histVars, RestartTypeOK, AsleepInv, Awake,
      Idle, NoWr
<1>25. ASSUME UNCHANGED vars PROVE AsleepInv'
  BY <1>25
  DEF vars, encVars, dbVars, chainVars, histVars, RestartTypeOK, AsleepInv,
      Awake, Idle, NoWr
<1> QED
  BY <1>1, <1>2, <1>3, <1>4, <1>5, <1>6, <1>7, <1>8, <1>9, <1>10, <1>11,
     <1>12, <1>13, <1>14, <1>15, <1>16, <1>17, <1>18, <1>19, <1>20, <1>21,
     <1>22, <1>23, <1>24, <1>25
  DEF Next, start, StoreStep, ReportStep, ClientStep

\* One thread at a time is between its copy of the table and the Put.
LEMMA StoreInvStep ==
    ASSUME RestartTypeOK, AsleepInv, StoreInv, [Next]_vars
    PROVE  StoreInv'
PROOF
<1>1. ASSUME initialize PROVE StoreInv'
  BY <1>1
  DEF initialize, encVars, dbVars, chainVars, histVars, startFrame,
      RestartTypeOK, StoreState, AsleepInv, Awake, StoreInv, Idle
<1>2. ASSUME restore_metadata PROVE StoreInv'
  BY <1>2
  DEF restore_metadata, persist_get, encVars, dbVars, chainVars, histVars,
      startFrame, RestartTypeOK, StoreState, AsleepInv, Awake, StoreInv, Idle
<1>3. ASSUME cmp_chain_account_id PROVE StoreInv'
  BY <1>3
  DEF cmp_chain_account_id, encVars, dbVars, chainVars, histVars, startFrame,
      RestartTypeOK, StoreState, AsleepInv, Awake, StoreInv, Idle
<1>4. ASSUME gen_key_pair PROVE StoreInv'
  BY <1>4
  DEF gen_key_pair, encVars, dbVars, chainVars, histVars, startFrame,
      RestartTypeOK, StoreState, AsleepInv, Awake, StoreInv, Idle
<1>5. ASSUME entry_network PROVE StoreInv'
  BY <1>5
  DEF entry_network, request_ias, verify_identity, sign_identity,
      upload_identity, Attempt, dbVars, histVars, RestartTypeOK, StoreState,
      AsleepInv, Awake, StoreInv, Idle
<1>6. ASSUME wait_for_running PROVE StoreInv'
  BY <1>6
  DEF wait_for_running, encVars, dbVars, chainVars, histVars, startFrame,
      RestartTypeOK, StoreState, AsleepInv, Awake, StoreInv, Idle
<1>7. ASSUME start_task PROVE StoreInv'
  BY <1>7
  DEF start_task, dbVars, chainVars, histVars, RestartTypeOK, StoreState,
      AsleepInv, Awake, StoreInv, Idle
<1>8. ASSUME NEW t \in Thread, store_begin(t) PROVE StoreInv'
  BY <1>8
  DEF store_begin, StoreCalled, dbVars, chainVars, histVars, runFrame, Up,
      RestartTypeOK, StoreState, AsleepInv, Awake, StoreInv, Idle
<1>9. ASSUME NEW t \in Thread, store_serialize(t) PROVE StoreInv'
  <2>1. meta_mutex' = t /\ ~store'[t].stale
    BY <1>9 DEF store_serialize, RestartTypeOK
  <2>2. \A u \in Thread \ {t} : store'[u] = store[u]
    BY <1>9 DEF store_serialize, RestartTypeOK
  <2>3. \A u \in Thread : store[u].pc # "put"
    BY <1>9 DEF store_serialize, StoreInv, Thread
  <2> QED
    BY <2>1, <2>2, <2>3 DEF StoreInv
<1>10. ASSUME NEW t \in Thread, store_put(t) PROVE StoreInv'
  BY <1>10
  DEF store_put, persist_set, dbVars, chainVars, histVars, runFrame, Up,
      RestartTypeOK, StoreState, AsleepInv, Awake, StoreInv, Idle
<1>11. ASSUME validate PROVE StoreInv'
  BY <1>11
  DEF validate, dbVars, chainVars, histVars, runFrame, Up, RestartTypeOK,
      StoreState, AsleepInv, Awake, StoreInv, Idle
<1>12. ASSUME wr_poll PROVE StoreInv'
  BY <1>12
  DEF wr_poll, dbVars, chainVars, histVars, runFrame, Up, RestartTypeOK,
      StoreState, AsleepInv, Awake, StoreInv, Idle
<1>13. ASSUME gen_work_report PROVE StoreInv'
  BY <1>13
  DEF gen_work_report, dbVars, chainVars, histVars, runFrame, Up,
      RestartTypeOK, StoreState, AsleepInv, Awake, StoreInv, Idle
<1>14. ASSUME upload_workreport PROVE StoreInv'
  BY <1>14
  DEF upload_workreport, Up, dbVars, histVars, RestartTypeOK, StoreState,
      AsleepInv, Awake, StoreInv, Idle
<1>15. ASSUME handle_report_result PROVE StoreInv'
  BY <1>15
  DEF handle_report_result, dbVars, chainVars, histVars, runFrame, Up,
      RestartTypeOK, StoreState, AsleepInv, Awake, StoreInv, Idle
<1>16. ASSUME NEW c \in Cid, seal_file_start(c) PROVE StoreInv'
  BY <1>16
  DEF seal_file_start, chainVars, opFrame, runFrame, Up, RestartTypeOK,
      StoreState, AsleepInv, Awake, StoreInv, Idle
<1>17. ASSUME NEW c \in Cid, seal_file(c) PROVE StoreInv'
  BY <1>17
  DEF seal_file, chainVars, opFrame, runFrame, Up, RestartTypeOK, StoreState,
      AsleepInv, Awake, StoreInv, Idle
<1>18. ASSUME NEW c \in Cid, seal_file_end(c) PROVE StoreInv'
  BY <1>18
  DEF seal_file_end, chainVars, opFrame, runFrame, Up, RestartTypeOK,
      StoreState, AsleepInv, Awake, StoreInv, Idle
<1>19. ASSUME NEW c \in Cid, delete_mark(c) PROVE StoreInv'
  BY <1>19
  DEF delete_mark, chainVars, opFrame, runFrame, Up, RestartTypeOK,
      StoreState, AsleepInv, Awake, StoreInv, Idle
<1>20. ASSUME NEW c \in Cid, delete_data(c) PROVE StoreInv'
  BY <1>20
  DEF delete_data, chainVars, opFrame, runFrame, Up, RestartTypeOK,
      StoreState, AsleepInv, Awake, StoreInv, Idle
<1>21. ASSUME crash PROVE StoreInv'
  BY <1>21
  DEF crash, Gone, dbVars, chainVars, histVars, RestartTypeOK, StoreState,
      AsleepInv, Awake, StoreInv, Idle
<1>22. ASSUME stop_all PROVE StoreInv'
  BY <1>22
  DEF stop_all, dbVars, chainVars, histVars, runFrame, Up, RestartTypeOK,
      StoreState, AsleepInv, Awake, StoreInv, Idle
<1>23. ASSUME stop_exit PROVE StoreInv'
  BY <1>23
  DEF stop_exit, Up, encVars, dbVars, chainVars, histVars, RestartTypeOK,
      StoreState, AsleepInv, Awake, StoreInv, Idle
<1>24. ASSUME next_block PROVE StoreInv'
  BY <1>24
  DEF next_block, encVars, dbVars, histVars, RestartTypeOK, StoreState,
      AsleepInv, Awake, StoreInv, Idle
<1>25. ASSUME UNCHANGED vars PROVE StoreInv'
  BY <1>25
  DEF vars, encVars, dbVars, chainVars, histVars, RestartTypeOK, StoreState,
      AsleepInv, Awake, StoreInv, Idle
<1> QED
  BY <1>1, <1>2, <1>3, <1>4, <1>5, <1>6, <1>7, <1>8, <1>9, <1>10, <1>11,
     <1>12, <1>13, <1>14, <1>15, <1>16, <1>17, <1>18, <1>19, <1>20, <1>21,
     <1>22, <1>23, <1>24, <1>25
  DEF Next, start, StoreStep, ReportStep, ClientStep

\* The identity: from gen_key_pair through the registration to the database,
\* and from there to the enclave that is restored.
LEMMA IdentityStep ==
    ASSUME RestartTypeOK, IdentityInv, [Next]_vars
    PROVE  IdentityInv'
PROOF
<1>1. ASSUME initialize PROVE IdentityInv'
  BY <1>1
  DEF initialize, encVars, dbVars, chainVars, histVars, startFrame,
      RestartTypeOK, IdentityInv, StoredIsRegistered, HasIdentity, KeyIsMade
<1>2. ASSUME restore_metadata PROVE IdentityInv'
  <2>1. UNCHANGED <<account, registered, metadata>>
    BY <1>2 DEF restore_metadata, startFrame, chainVars
  <2>2. CASE proc' = "compare"
    <3>1. metadata.key # 0 /\ enc' = restored
      BY <1>2, <2>2 DEF restore_metadata, persist_get
    <3>2. enc'.key = metadata.key /\ enc'.account = metadata.account
      BY <3>1 DEF restored, Fresh
    <3> QED
      BY <2>1, <2>2, <3>1, <3>2
      DEF IdentityInv, StoredIsRegistered, HasIdentity, KeyIsMade
  <2>3. CASE proc' = "key"
    <3>1. files' = files /\ (metadata.key = 0 \/ unread')
      BY <1>2, <2>3 DEF restore_metadata, persist_get
    <3> QED
      BY <1>2, <2>1, <2>3, <3>1
      DEF restore_metadata, IdentityInv, StoredIsRegistered, HasIdentity,
          KeyIsMade
  <2> QED
    BY <1>2, <2>2, <2>3 DEF restore_metadata, persist_get
<1>3. ASSUME cmp_chain_account_id PROVE IdentityInv'
  BY <1>3
  DEF cmp_chain_account_id, encVars, dbVars, chainVars, histVars, startFrame,
      RestartTypeOK, IdentityInv, StoredIsRegistered, HasIdentity, KeyIsMade
<1>4. ASSUME gen_key_pair PROVE IdentityInv'
  BY <1>4
  DEF gen_key_pair, encVars, dbVars, chainVars, histVars, startFrame,
      RestartTypeOK, IdentityInv, StoredIsRegistered, HasIdentity, KeyIsMade
<1>5. ASSUME entry_network PROVE IdentityInv'
  BY <1>5
  DEF entry_network, request_ias, verify_identity, sign_identity,
      upload_identity, Attempt, dbVars, histVars, RestartTypeOK, IdentityInv,
      StoredIsRegistered, HasIdentity, KeyIsMade
<1>6. ASSUME wait_for_running PROVE IdentityInv'
  BY <1>6
  DEF wait_for_running, encVars, dbVars, chainVars, histVars, startFrame,
      RestartTypeOK, IdentityInv, StoredIsRegistered, HasIdentity, KeyIsMade
<1>7. ASSUME start_task PROVE IdentityInv'
  BY <1>7
  DEF start_task, dbVars, chainVars, histVars, RestartTypeOK, IdentityInv,
      StoredIsRegistered, HasIdentity, KeyIsMade
<1>8. ASSUME NEW t \in Thread, store_begin(t) PROVE IdentityInv'
  BY <1>8
  DEF store_begin, StoreCalled, dbVars, chainVars, histVars, runFrame, Up,
      RestartTypeOK, IdentityInv, StoredIsRegistered, HasIdentity, KeyIsMade
<1>9. ASSUME NEW t \in Thread, store_serialize(t) PROVE IdentityInv'
  BY <1>9
  DEF store_serialize, serialize_file, dbVars, chainVars, histVars, runFrame,
      Up, RestartTypeOK, IdentityInv, StoredIsRegistered, HasIdentity,
      KeyIsMade
<1>10. ASSUME NEW t \in Thread, store_put(t) PROVE IdentityInv'
  BY <1>10
  DEF store_put, persist_set, dbVars, chainVars, histVars, runFrame, Up,
      RestartTypeOK, IdentityInv, StoredIsRegistered, HasIdentity, KeyIsMade
<1>11. ASSUME validate PROVE IdentityInv'
  BY <1>11
  DEF validate, dbVars, chainVars, histVars, runFrame, Up, RestartTypeOK,
      IdentityInv, StoredIsRegistered, HasIdentity, KeyIsMade
<1>12. ASSUME wr_poll PROVE IdentityInv'
  BY <1>12
  DEF wr_poll, dbVars, chainVars, histVars, runFrame, Up, RestartTypeOK,
      IdentityInv, StoredIsRegistered, HasIdentity, KeyIsMade
<1>13. ASSUME gen_work_report PROVE IdentityInv'
  <2>1. enc'.key = enc.key /\ enc'.account = enc.account
    BY <1>13 DEF gen_work_report, RestartTypeOK, EncState
  <2>2. UNCHANGED <<proc, account, registered, metadata, unread>>
    BY <1>13 DEF gen_work_report, runFrame, chainVars, dbVars, histVars
  <2>3. proc = "run"
    BY <1>13 DEF gen_work_report, Up
  <2> QED
    BY <2>1, <2>2, <2>3
    DEF IdentityInv, StoredIsRegistered, HasIdentity, KeyIsMade
<1>14. ASSUME upload_workreport PROVE IdentityInv'
  BY <1>14
  DEF upload_workreport, Up, dbVars, histVars, RestartTypeOK, IdentityInv,
      StoredIsRegistered, HasIdentity, KeyIsMade
<1>15. ASSUME handle_report_result PROVE IdentityInv'
  BY <1>15
  DEF handle_report_result, dbVars, chainVars, histVars, runFrame, Up,
      RestartTypeOK, IdentityInv, StoredIsRegistered, HasIdentity, KeyIsMade
<1>16. ASSUME NEW c \in Cid, seal_file_start(c) PROVE IdentityInv'
  BY <1>16
  DEF seal_file_start, chainVars, opFrame, runFrame, Up, RestartTypeOK,
      IdentityInv, StoredIsRegistered, HasIdentity, KeyIsMade
<1>17. ASSUME NEW c \in Cid, seal_file(c) PROVE IdentityInv'
  BY <1>17
  DEF seal_file, chainVars, opFrame, runFrame, Up, RestartTypeOK, IdentityInv,
      StoredIsRegistered, HasIdentity, KeyIsMade
<1>18. ASSUME NEW c \in Cid, seal_file_end(c) PROVE IdentityInv'
  BY <1>18
  DEF seal_file_end, chainVars, opFrame, runFrame, Up, RestartTypeOK,
      IdentityInv, StoredIsRegistered, HasIdentity, KeyIsMade
<1>19. ASSUME NEW c \in Cid, delete_mark(c) PROVE IdentityInv'
  BY <1>19
  DEF delete_mark, chainVars, opFrame, runFrame, Up, RestartTypeOK,
      IdentityInv, StoredIsRegistered, HasIdentity, KeyIsMade
<1>20. ASSUME NEW c \in Cid, delete_data(c) PROVE IdentityInv'
  BY <1>20
  DEF delete_data, chainVars, opFrame, runFrame, Up, RestartTypeOK,
      IdentityInv, StoredIsRegistered, HasIdentity, KeyIsMade
<1>21. ASSUME crash PROVE IdentityInv'
  BY <1>21
  DEF crash, Gone, dbVars, chainVars, histVars, RestartTypeOK, IdentityInv,
      StoredIsRegistered, HasIdentity, KeyIsMade
<1>22. ASSUME stop_all PROVE IdentityInv'
  BY <1>22
  DEF stop_all, dbVars, chainVars, histVars, runFrame, Up, RestartTypeOK,
      IdentityInv, StoredIsRegistered, HasIdentity, KeyIsMade
<1>23. ASSUME stop_exit PROVE IdentityInv'
  BY <1>23
  DEF stop_exit, Up, encVars, dbVars, chainVars, histVars, RestartTypeOK,
      IdentityInv, StoredIsRegistered, HasIdentity, KeyIsMade
<1>24. ASSUME next_block PROVE IdentityInv'
  BY <1>24
  DEF next_block, encVars, dbVars, histVars, RestartTypeOK, IdentityInv,
      StoredIsRegistered, HasIdentity, KeyIsMade
<1>25. ASSUME UNCHANGED vars PROVE IdentityInv'
  BY <1>25
  DEF vars, encVars, dbVars, chainVars, histVars, RestartTypeOK, IdentityInv,
      StoredIsRegistered, HasIdentity, KeyIsMade
<1> QED
  BY <1>1, <1>2, <1>3, <1>4, <1>5, <1>6, <1>7, <1>8, <1>9, <1>10, <1>11,
     <1>12, <1>13, <1>14, <1>15, <1>16, <1>17, <1>18, <1>19, <1>20, <1>21,
     <1>22, <1>23, <1>24, <1>25
  DEF Next, start, StoreStep, ReportStep, ClientStep

\* The heights of the reports.
LEMMA SlotStep ==
    ASSUME RestartTypeOK, AsleepInv, IdentityInv, SlotInv, [Next]_vars
    PROVE  SlotInv'
PROOF
<1>1. ASSUME initialize PROVE SlotInv'
  BY <1>1, RestartAssumption, TypeFacts
  DEF initialize, encVars, dbVars, chainVars, histVars, startFrame,
      RestartTypeOK, EncState, WrState, Report, AsleepInv, Awake, SlotInv,
      Fresh
<1>2. ASSUME restore_metadata PROVE SlotInv'
  <2>1. UNCHANGED <<keys, wr, reports, block, metadata>> /\ wr.pc = "off"
    BY <1>2 DEF restore_metadata, startFrame, chainVars, AsleepInv, Awake
  <2>2. \/ enc' = enc
        \/ enc'.key = metadata.key /\ enc'.flag = RestartFlag /\ RestartFlag > 0
    <3>1. enc' = enc \/ enc' = restored
      BY <1>2 DEF restore_metadata, persist_get
    <3>2. restored.key = metadata.key /\ restored.flag = RestartFlag
      BY DEF restored, Fresh
    <3>3. RestartFlag > 0
      BY RestartAssumption
    <3> QED
      BY <3>1, <3>2, <3>3
  <2> QED
    BY <2>1, <2>2 DEF SlotInv
<1>3. ASSUME cmp_chain_account_id PROVE SlotInv'
  BY <1>3, RestartAssumption, TypeFacts
  DEF cmp_chain_account_id, encVars, dbVars, chainVars, histVars, startFrame,
      RestartTypeOK, EncState, WrState, Report, AsleepInv, Awake, SlotInv
<1>4. ASSUME gen_key_pair PROVE SlotInv'
  <2>1. /\ UNCHANGED <<wr, reports, block, metadata>> /\ wr.pc = "off"
        /\ keys' = keys + 1
    BY <1>4 DEF gen_key_pair, startFrame, chainVars, dbVars, AsleepInv, Awake
  <2>2. enc'.key = keys + 1
    BY <1>4 DEF gen_key_pair, RestartTypeOK, EncState
  <2>3. keys \in Nat /\ reports.key \in Nat /\ metadata.key \in Nat
    BY TypeFacts DEF RestartTypeOK, Report, Metadata
  <2> QED
    BY <2>1, <2>2, <2>3 DEF SlotInv
<1>5. ASSUME entry_network PROVE SlotInv'
  <2>1. UNCHANGED <<keys, wr, reports, block, metadata>> /\ wr.pc = "off"
    BY <1>5 DEF entry_network, dbVars, AsleepInv, Awake
  <2>2. enc' = enc \/ enc'.key = 0
    BY <1>5 DEF entry_network, Fresh
  <2>3. 0 <= keys
    BY TypeFacts DEF RestartTypeOK
  <2> QED
    BY <2>1, <2>2, <2>3 DEF SlotInv
<1>6. ASSUME wait_for_running PROVE SlotInv'
  BY <1>6, RestartAssumption, TypeFacts
  DEF wait_for_running, encVars, dbVars, chainVars, histVars, startFrame,
      RestartTypeOK, EncState, WrState, Report, AsleepInv, Awake, SlotInv
<1>7. ASSUME start_task PROVE SlotInv'
  <2>1. UNCHANGED <<keys, enc, reports, block, metadata>>
    BY <1>7 DEF start_task, chainVars, dbVars
  <2>2. wr'.pc = "poll"
    BY <1>7 DEF start_task, NoWr
  <2> QED
    BY <2>1, <2>2 DEF SlotInv
<1>8. ASSUME NEW t \in Thread, store_begin(t) PROVE SlotInv'
  BY <1>8, RestartAssumption, TypeFacts
  DEF store_begin, StoreCalled, dbVars, chainVars, histVars, runFrame, Up,
      RestartTypeOK, EncState, WrState, Report, AsleepInv, Awake, SlotInv
<1>9. ASSUME NEW t \in Thread, store_serialize(t) PROVE SlotInv'
  BY <1>9, RestartAssumption, TypeFacts
  DEF store_serialize, serialize_file, dbVars, chainVars, histVars, runFrame,
      Up, RestartTypeOK, EncState, WrState, Report, AsleepInv, Awake, SlotInv
<1>10. ASSUME NEW t \in Thread, store_put(t) PROVE SlotInv'
  BY <1>10, RestartAssumption, TypeFacts
  DEF store_put, persist_set, dbVars, chainVars, histVars, runFrame, Up,
      RestartTypeOK, EncState, WrState, Report, AsleepInv, Awake, SlotInv
<1>11. ASSUME validate PROVE SlotInv'
  BY <1>11, RestartAssumption, TypeFacts
  DEF validate, dbVars, chainVars, histVars, runFrame, Up, RestartTypeOK,
      EncState, WrState, Report, AsleepInv, Awake, SlotInv
<1>12. ASSUME wr_poll PROVE SlotInv'
  <2>1. UNCHANGED <<keys, enc, reports, block, metadata>>
    BY <1>12 DEF wr_poll, runFrame, chainVars, dbVars
  <2>2. wr'.pc = "gen" /\ wr'.height = SlotOf(block)
    BY <1>12 DEF wr_poll, RestartTypeOK, WrState, SlotOf
  <2>3. SlotOf(block) \in Nat
    BY RestartAssumption, SlotFacts DEF RestartTypeOK
  <2> QED
    BY <2>1, <2>2, <2>3 DEF SlotInv
<1>13. ASSUME gen_work_report PROVE SlotInv'
  <2>1. UNCHANGED <<keys, reports, block, metadata>>
    BY <1>13 DEF gen_work_report, runFrame, chainVars, dbVars
  <2>2. /\ REPORT_SLOT \in Nat \ {0} /\ wr.height \in Nat /\ reports.height \in Nat
        /\ enc.height \in Nat /\ enc.flag \in Nat /\ enc.key # 0
    BY <1>13, RestartAssumption
    DEF gen_work_report, Up, RestartTypeOK, EncState, WrState, Report,
        IdentityInv, HasIdentity
  <2>3. wr.pc = "gen" /\ wr'.height = wr.height /\ wr'.pc \in {"poll", "upload"}
    BY <1>13 DEF gen_work_report, RestartTypeOK, WrState
  <2>4. CASE enc' = enc /\ wr'.pc = "poll"
    BY <2>1, <2>3, <2>4 DEF SlotInv
  <2>5. CASE /\ enc.height + REPORT_SLOT <= wr.height
             /\ enc' = [enc EXCEPT !.height = wr.height, !.validated = FALSE,
                                   !.flag = IF @ > 0 THEN @ - 1 ELSE 0]
             /\ enc.flag > 0 => wr'.pc = "poll"
    <3>1. enc'.key = enc.key /\ enc'.height = wr.height
      BY <2>5 DEF RestartTypeOK, EncState
    <3>2. reports.height <= wr.height
      BY <2>3 DEF SlotInv
    <3>3. ASSUME wr'.pc = "upload", enc.key = reports.key
          PROVE  reports.height < wr.height
      <4>1. reports.height <= enc.height
        BY <2>2, <2>5, <3>3 DEF SlotInv
      <4> QED
        BY <2>2, <2>5, <4>1
    <3> QED
      BY <2>1, <2>3, <3>1, <3>2, <3>3 DEF SlotInv
  <2>6. \/ enc' = enc /\ wr'.pc = "poll"
        \/ /\ enc.height + REPORT_SLOT <= wr.height
           /\ enc' = [enc EXCEPT !.height = wr.height, !.validated = FALSE,
                                 !.flag = IF @ > 0 THEN @ - 1 ELSE 0]
           /\ enc.flag > 0 => wr'.pc = "poll"
    <3> DEFINE next == [wr EXCEPT !.target = wr.height + REPORT_SLOT]
               late == enc.stop \/ enc.height + REPORT_SLOT > wr.height
    <3>1. [next EXCEPT !.pc = "poll"].pc = "poll"
      BY DEF RestartTypeOK, WrState
    <3>2. CASE late
      <4>1. enc' = enc /\ wr' = [next EXCEPT !.pc = "poll"]
        BY <1>13, <3>2 DEF gen_work_report
      <4> QED
        BY <3>1, <4>1
    <3>3. CASE ~late
      <4>1. enc' = [enc EXCEPT !.height = wr.height, !.validated = FALSE,
                               !.flag = IF @ > 0 THEN @ - 1 ELSE 0]
        BY <1>13, <3>3 DEF gen_work_report
      <4>2. ASSUME enc.flag > 0 PROVE wr' = [next EXCEPT !.pc = "poll"]
        BY <1>13, <3>3, <4>2 DEF gen_work_report
      <4>3. enc.height + REPORT_SLOT <= wr.height
        BY <2>2, <3>3
      <4> QED
        BY <3>1, <4>1, <4>2, <4>3
    <3> QED
      BY <3>2, <3>3
  <2> QED
    BY <2>4, <2>5, <2>6
<1>14. ASSUME upload_workreport PROVE SlotInv'
  <2>1. UNCHANGED <<keys, enc, block, metadata>>
    BY <1>14 DEF upload_workreport, dbVars
  <2>2. wr.pc = "upload" /\ wr'.pc \in {"result", "poll"}
    BY <1>14 DEF upload_workreport, RestartTypeOK, WrState
  <2>3. reports' = reports \/ (reports'.key = enc.key /\ reports'.height = wr.height)
    <3> DEFINE accepted == [key |-> enc.key, height |-> wr.height,
                            turn |-> 1 - reports.turn]
    <3>1. reports' = reports \/ reports' = accepted
      BY <1>14 DEF upload_workreport
    <3>2. accepted.key = enc.key /\ accepted.height = wr.height
      OBVIOUS
    <3> HIDE DEF accepted
    <3> QED
      BY <3>1, <3>2
  <2>4. enc.height \in Nat
    BY RestartAssumption DEF RestartTypeOK, EncState
  <2> QED
    BY <2>1, <2>2, <2>3, <2>4 DEF SlotInv
<1>15. ASSUME handle_report_result PROVE SlotInv'
  BY <1>15, RestartAssumption, TypeFacts
  DEF handle_report_result, dbVars, chainVars, histVars, runFrame, Up,
      RestartTypeOK, EncState, WrState, Report, AsleepInv, Awake, SlotInv
<1>16. ASSUME NEW c \in Cid, seal_file_start(c) PROVE SlotInv'
  BY <1>16, RestartAssumption, TypeFacts
  DEF seal_file_start, chainVars, opFrame, runFrame, Up, RestartTypeOK,
      EncState, WrState, Report, AsleepInv, Awake, SlotInv
<1>17. ASSUME NEW c \in Cid, seal_file(c) PROVE SlotInv'
  BY <1>17, RestartAssumption, TypeFacts
  DEF seal_file, chainVars, opFrame, runFrame, Up, RestartTypeOK, EncState,
      WrState, Report, AsleepInv, Awake, SlotInv
<1>18. ASSUME NEW c \in Cid, seal_file_end(c) PROVE SlotInv'
  BY <1>18, RestartAssumption, TypeFacts
  DEF seal_file_end, chainVars, opFrame, runFrame, Up, RestartTypeOK,
      EncState, WrState, Report, AsleepInv, Awake, SlotInv
<1>19. ASSUME NEW c \in Cid, delete_mark(c) PROVE SlotInv'
  BY <1>19, RestartAssumption, TypeFacts
  DEF delete_mark, chainVars, opFrame, runFrame, Up, RestartTypeOK, EncState,
      WrState, Report, AsleepInv, Awake, SlotInv
<1>20. ASSUME NEW c \in Cid, delete_data(c) PROVE SlotInv'
  BY <1>20, RestartAssumption, TypeFacts
  DEF delete_data, chainVars, opFrame, runFrame, Up, RestartTypeOK, EncState,
      WrState, Report, AsleepInv, Awake, SlotInv
<1>21. ASSUME crash PROVE SlotInv'
  BY <1>21, RestartAssumption, TypeFacts
  DEF crash, Gone, dbVars, chainVars, histVars, RestartTypeOK, EncState,
      WrState, Report, AsleepInv, Awake, SlotInv, Fresh, NoWr
<1>22. ASSUME stop_all PROVE SlotInv'
  BY <1>22, RestartAssumption, TypeFacts
  DEF stop_all, dbVars, chainVars, histVars, runFrame, Up, RestartTypeOK,
      EncState, WrState, Report, AsleepInv, Awake, SlotInv
<1>23. ASSUME stop_exit PROVE SlotInv'
  BY <1>23, RestartAssumption, TypeFacts
  DEF stop_exit, Up, encVars, dbVars, chainVars, histVars, RestartTypeOK,
      EncState, WrState, Report, AsleepInv, Awake, SlotInv
<1>24. ASSUME next_block PROVE SlotInv'
  <2>1. UNCHANGED <<keys, enc, wr, reports, metadata>> /\ block' = block + 1
    BY <1>24 DEF next_block, encVars, dbVars
  <2>2. /\ SlotOf(block) \in Nat /\ SlotOf(block') \in Nat
        /\ SlotOf(block) <= SlotOf(block')
    BY <2>1, RestartAssumption, SlotFacts DEF RestartTypeOK
  <2>3. reports.height \in Nat /\ wr.height \in Nat
    BY RestartAssumption DEF RestartTypeOK, Report, WrState
  <2> QED
    BY <2>1, <2>2, <2>3 DEF SlotInv
<1>25. ASSUME UNCHANGED vars PROVE SlotInv'
  BY <1>25, RestartAssumption, TypeFacts
  DEF vars, encVars, dbVars, chainVars, histVars, RestartTypeOK, EncState,
      WrState, Report, AsleepInv, Awake, SlotInv
<1> QED
  BY <1>1, <1>2, <1>3, <1>4, <1>5, <1>6, <1>7, <1>8, <1>9, <1>10, <1>11,
     <1>12, <1>13, <1>14, <1>15, <1>16, <1>17, <1>18, <1>19, <1>20, <1>21,
     <1>22, <1>23, <1>24, <1>25
  DEF Next, start, StoreStep, ReportStep, ClientStep

\* The data of the files that count.
LEMMA DataStep ==
    ASSUME RestartTypeOK, AsleepInv, DataInv, [Next]_vars
    PROVE  DataInv'
PROOF
<1>1. ASSUME initialize PROVE DataInv'
  BY <1>1
  DEF initialize, encVars, dbVars, chainVars, histVars, startFrame,
      RestartTypeOK, EncState, Table, AsleepInv, Awake, DataInv, Fresh, Idle,
      NoFiles, Absent
<1>2. ASSUME restore_metadata PROVE DataInv'
  <2>1. UNCHANGED op /\ \A c \in Cid : op[c] = "idle"
    BY <1>2 DEF restore_metadata, startFrame, AsleepInv, Awake
  <2>2. CASE UNCHANGED <<enc, files, disk>>
    BY <2>1, <2>2 DEF DataInv
  <2>3. CASE enc' = restored
    <3>1. ~enc'.validated
      BY <2>3 DEF restored, Fresh
    <3> QED
      BY <2>1, <3>1 DEF DataInv
  <2> QED
    BY <1>2, <2>2, <2>3 DEF restore_metadata, persist_get
<1>3. ASSUME cmp_chain_account_id PROVE DataInv'
  BY <1>3
  DEF cmp_chain_account_id, encVars, dbVars, chainVars, histVars, startFrame,
      RestartTypeOK, EncState, Table, AsleepInv, Awake, DataInv, Fresh, Idle,
      NoFiles, Absent
<1>4. ASSUME gen_key_pair PROVE DataInv'
  BY <1>4
  DEF gen_key_pair, encVars, dbVars, chainVars, histVars, startFrame,
      RestartTypeOK, EncState, Table, AsleepInv, Awake, DataInv, Fresh, Idle,
      NoFiles, Absent
<1>5. ASSUME entry_network PROVE DataInv'
  BY <1>5
  DEF entry_network, request_ias, verify_identity, sign_identity,
      upload_identity, Attempt, dbVars, histVars, RestartTypeOK, EncState,
      Table, AsleepInv, Awake, DataInv, Fresh, Idle, NoFiles, Absent
<1>6. ASSUME wait_for_running PROVE DataInv'
  BY <1>6
  DEF wait_for_running, encVars, dbVars, chainVars, histVars, startFrame,
      RestartTypeOK, EncState, Table, AsleepInv, Awake, DataInv, Fresh, Idle,
      NoFiles, Absent
<1>7. ASSUME start_task PROVE DataInv'
  BY <1>7
  DEF start_task, dbVars, chainVars, histVars, RestartTypeOK, EncState, Table,
      AsleepInv, Awake, DataInv, Fresh, Idle, NoFiles, Absent
<1>8. ASSUME NEW t \in Thread, store_begin(t) PROVE DataInv'
  BY <1>8
  DEF store_begin, StoreCalled, dbVars, chainVars, histVars, runFrame, Up,
      RestartTypeOK, EncState, Table, AsleepInv, Awake, DataInv, Fresh, Idle,
      NoFiles, Absent
<1>9. ASSUME NEW t \in Thread, store_serialize(t) PROVE DataInv'
  BY <1>9
  DEF store_serialize, serialize_file, dbVars, chainVars, histVars, runFrame,
      Up, RestartTypeOK, EncState, Table, AsleepInv, Awake, DataInv, Fresh,
      Idle, NoFiles, Absent
<1>10. ASSUME NEW t \in Thread, store_put(t) PROVE DataInv'
  BY <1>10
  DEF store_put, persist_set, dbVars, chainVars, histVars, runFrame, Up,
      RestartTypeOK, EncState, Table, AsleepInv, Awake, DataInv, Fresh, Idle,
      NoFiles, Absent
<1>11. ASSUME validate PROVE DataInv'
  BY <1>11
  DEF validate, dbVars, chainVars, histVars, runFrame, Up, RestartTypeOK,
      EncState, Table, AsleepInv, Awake, DataInv, Fresh, Idle, NoFiles, Absent
<1>12. ASSUME wr_poll PROVE DataInv'
  BY <1>12
  DEF wr_poll, dbVars, chainVars, histVars, runFrame, Up, RestartTypeOK,
      EncState, Table, AsleepInv, Awake, DataInv, Fresh, Idle, NoFiles, Absent
<1>13. ASSUME gen_work_report PROVE DataInv'
  <2>1. UNCHANGED <<op, disk>>
    BY <1>13 DEF gen_work_report, dbVars
  <2>2. enc' = enc \/ ~enc'.validated
    BY <1>13 DEF gen_work_report, RestartTypeOK, EncState
  <2>3. \A c \in Cid : files'[c].cur = files[c].cur
    BY <1>13 DEF gen_work_report, RestartTypeOK, Table
  <2> QED
    BY <2>1, <2>2, <2>3 DEF DataInv
<1>14. ASSUME upload_workreport PROVE DataInv'
  BY <1>14
  DEF upload_workreport, Up, dbVars, histVars, RestartTypeOK, EncState, Table,
      AsleepInv, Awake, DataInv, Fresh, Idle, NoFiles, Absent
<1>15. ASSUME handle_report_result PROVE DataInv'
  BY <1>15
  DEF handle_report_result, dbVars, chainVars, histVars, runFrame, Up,
      RestartTypeOK, EncState, Table, AsleepInv, Awake, DataInv, Fresh, Idle,
      NoFiles, Absent
<1>16. ASSUME NEW c \in Cid, seal_file_start(c) PROVE DataInv'
  BY <1>16
  DEF seal_file_start, chainVars, opFrame, runFrame, Up, RestartTypeOK,
      EncState, Table, AsleepInv, Awake, DataInv, Fresh, Idle, NoFiles, Absent
<1>17. ASSUME NEW c \in Cid, seal_file(c) PROVE DataInv'
  BY <1>17
  DEF seal_file, chainVars, opFrame, runFrame, Up, RestartTypeOK, EncState,
      Table, AsleepInv, Awake, DataInv, Fresh, Idle, NoFiles, Absent
<1>18. ASSUME NEW c \in Cid, seal_file_end(c) PROVE DataInv'
  BY <1>18
  DEF seal_file_end, chainVars, opFrame, runFrame, Up, RestartTypeOK,
      EncState, Table, AsleepInv, Awake, DataInv, Fresh, Idle, NoFiles, Absent
<1>19. ASSUME NEW c \in Cid, delete_mark(c) PROVE DataInv'
  BY <1>19
  DEF delete_mark, chainVars, opFrame, runFrame, Up, RestartTypeOK, EncState,
      Table, AsleepInv, Awake, DataInv, Fresh, Idle, NoFiles, Absent
<1>20. ASSUME NEW c \in Cid, delete_data(c) PROVE DataInv'
  BY <1>20
  DEF delete_data, chainVars, opFrame, runFrame, Up, RestartTypeOK, EncState,
      Table, AsleepInv, Awake, DataInv, Fresh, Idle, NoFiles, Absent
<1>21. ASSUME crash PROVE DataInv'
  BY <1>21
  DEF crash, Gone, dbVars, chainVars, histVars, RestartTypeOK, EncState,
      Table, AsleepInv, Awake, DataInv, Fresh, Idle, NoFiles, Absent
<1>22. ASSUME stop_all PROVE DataInv'
  BY <1>22
  DEF stop_all, dbVars, chainVars, histVars, runFrame, Up, RestartTypeOK,
      EncState, Table, AsleepInv, Awake, DataInv, Fresh, Idle, NoFiles, Absent
<1>23. ASSUME stop_exit PROVE DataInv'
  BY <1>23
  DEF stop_exit, Up, encVars, dbVars, chainVars, histVars, RestartTypeOK,
      EncState, Table, AsleepInv, Awake, DataInv, Fresh, Idle, NoFiles, Absent
<1>24. ASSUME next_block PROVE DataInv'
  BY <1>24
  DEF next_block, encVars, dbVars, histVars, RestartTypeOK, EncState, Table,
      AsleepInv, Awake, DataInv, Fresh, Idle, NoFiles, Absent
<1>25. ASSUME UNCHANGED vars PROVE DataInv'
  BY <1>25
  DEF vars, encVars, dbVars, chainVars, histVars, RestartTypeOK, EncState,
      Table, AsleepInv, Awake, DataInv, Fresh, Idle, NoFiles, Absent
<1> QED
  BY <1>1, <1>2, <1>3, <1>4, <1>5, <1>6, <1>7, <1>8, <1>9, <1>10, <1>11,
     <1>12, <1>13, <1>14, <1>15, <1>16, <1>17, <1>18, <1>19, <1>20, <1>21,
     <1>22, <1>23, <1>24, <1>25
  DEF Next, start, StoreStep, ReportStep, ClientStep

\* The snapshot and the data.
LEMMA OrphanStep ==
    ASSUME RestartTypeOK, AsleepInv, IdentityInv, StoreInv, CopyInv, OrphanInv, [Next]_vars
    PROVE  OrphanInv'
PROOF
<1>1. ASSUME initialize PROVE OrphanInv'
  BY <1>1
  DEF initialize, encVars, dbVars, chainVars, histVars, startFrame,
      RestartTypeOK, Table, StoreState, Metadata, AsleepInv, Awake, OrphanInv,
      Written
<1>2. ASSUME restore_metadata PROVE OrphanInv'
  <2>1. /\ UNCHANGED <<op, store, metadata, young>>
        /\ \A c \in Cid : op[c] = "idle"
        /\ \A t \in Thread : store[t].pc = "idle"
    BY <1>2 DEF restore_metadata, startFrame, AsleepInv, Awake
  <2>2. CASE proc' = "key"
    <3>1. disk' = disk /\ (unread => unread')
      BY <1>2, <2>2 DEF restore_metadata, persist_get
    <3> QED
      BY <2>1, <2>2, <3>1 DEF OrphanInv, Written
  <2>3. CASE proc' = "compare"
    <3>1. /\ disk' = disk \ pending_cids /\ unread' = unread
          /\ files' = restored_files
      BY <1>2, <2>3 DEF restore_metadata, persist_get
    <3>2. \A c \in disk' : metadata.files[c].cur # "none" => files'[c].cur # "none"
      BY <3>1 DEF pending_cids, restored_files, RestartTypeOK
    <3> QED
      BY <2>1, <3>1, <3>2 DEF OrphanInv, Written
  <2> QED
    BY <1>2, <2>2, <2>3 DEF restore_metadata, persist_get
<1>3. ASSUME cmp_chain_account_id PROVE OrphanInv'
  BY <1>3
  DEF cmp_chain_account_id, encVars, dbVars, chainVars, histVars, startFrame,
      RestartTypeOK, Table, StoreState, Metadata, AsleepInv, Awake, OrphanInv,
      Written
<1>4. ASSUME gen_key_pair PROVE OrphanInv'
  BY <1>4
  DEF gen_key_pair, encVars, dbVars, chainVars, histVars, startFrame,
      RestartTypeOK, Table, StoreState, Metadata, AsleepInv, Awake, OrphanInv,
      Written
<1>5. ASSUME entry_network PROVE OrphanInv'
  <2>1. UNCHANGED <<op, store, metadata, disk, young, unread, files>>
    BY <1>5 DEF entry_network, dbVars, histVars
  <2>2. files = NoFiles /\ (metadata.key = 0 \/ unread)
    BY <1>5 DEF entry_network, IdentityInv
  <2>3. metadata.key = 0 => \A c \in Cid : metadata.files[c].cur = "none"
    BY DEF IdentityInv, NoFiles, Absent
  <2>4. \A c \in Written : c \in young \/ unread
    BY <2>2, <2>3 DEF OrphanInv, Written, RestartTypeOK
  <2> QED
    BY <2>1, <2>4 DEF OrphanInv, Written
<1>6. ASSUME wait_for_running PROVE OrphanInv'
  BY <1>6
  DEF wait_for_running, encVars, dbVars, chainVars, histVars, startFrame,
      RestartTypeOK, Table, StoreState, Metadata, AsleepInv, Awake, OrphanInv,
      Written
<1>7. ASSUME start_task PROVE OrphanInv'
  BY <1>7
  DEF start_task, dbVars, chainVars, histVars, RestartTypeOK, Table,
      StoreState, Metadata, AsleepInv, Awake, OrphanInv, Written
<1>8. ASSUME NEW t \in Thread, store_begin(t) PROVE OrphanInv'
  <2>1. \A u \in Thread : store'[u].pc = "put" =>
           store[u].pc = "put" /\ store'[u].files = store[u].files
    <3>1. store' = store \/ store' = [store EXCEPT ![t].pc = "lock"]
      BY <1>8 DEF store_begin
    <3> QED
      BY <3>1 DEF RestartTypeOK, StoreState
  <2> QED
    BY <1>8, <2>1
    DEF store_begin, dbVars, chainVars, histVars, runFrame, OrphanInv, Written
<1>9. ASSUME NEW t \in Thread, store_serialize(t) PROVE OrphanInv'
  BY <1>9
  DEF store_serialize, serialize_file, dbVars, chainVars, histVars, runFrame,
      Up, RestartTypeOK, Table, StoreState, Metadata, AsleepInv, Awake,
      OrphanInv, Written
<1>10. ASSUME NEW t \in Thread, store_put(t) PROVE OrphanInv'
  <2>1. UNCHANGED <<proc, op, disk, unread, files>>
    BY <1>10 DEF store_put, runFrame
  <2>2. \A u \in Thread : store'[u].pc # "put"
    <3>1. \A u \in Thread \ {t} : store[u].pc # "put"
      BY <1>10 DEF store_put, StoreInv
    <3> QED
      BY <1>10, <3>1 DEF store_put, persist_set, Idle, RestartTypeOK, StoreState
  <2>3. store[t].pc = "put"
    BY <1>10 DEF store_put
  <2>4. CASE UNCHANGED <<metadata, young>>
    BY <2>1, <2>2, <2>4 DEF OrphanInv, Written
  <2>5. CASE /\ metadata'.files = store[t].files
             /\ young' = {c \in young : store[t].files[c].cur = "none"}
    <3> SUFFICES ASSUME NEW c \in Written, c \notin young', ~unread
                 PROVE  metadata'.files[c].cur # "none" /\ files[c].cur # "none"
      BY <2>1, <2>2 DEF OrphanInv, Written
    <3>1. store[t].files[c].cur # "none"
      BY <2>3, <2>5 DEF OrphanInv
    <3> QED
      BY <2>3, <2>5, <3>1 DEF CopyInv
  <2> QED
    BY <1>10, <2>4, <2>5 DEF store_put, persist_set
<1>11. ASSUME validate PROVE OrphanInv'
  BY <1>11
  DEF validate, dbVars, chainVars, histVars, runFrame, Up, RestartTypeOK,
      Table, StoreState, Metadata, AsleepInv, Awake, OrphanInv, Written
<1>12. ASSUME wr_poll PROVE OrphanInv'
  BY <1>12
  DEF wr_poll, dbVars, chainVars, histVars, runFrame, Up, RestartTypeOK,
      Table, StoreState, Metadata, AsleepInv, Awake, OrphanInv, Written
<1>13. ASSUME gen_work_report PROVE OrphanInv'
  BY <1>13
  DEF gen_work_report, dbVars, chainVars, histVars, runFrame, Up,
      RestartTypeOK, Table, StoreState, Metadata, AsleepInv, Awake, OrphanInv,
      Written
<1>14. ASSUME upload_workreport PROVE OrphanInv'
  BY <1>14
  DEF upload_workreport, Up, dbVars, histVars, RestartTypeOK, Table,
      StoreState, Metadata, AsleepInv, Awake, OrphanInv, Written
<1>15. ASSUME handle_report_result PROVE OrphanInv'
  BY <1>15
  DEF handle_report_result, dbVars, chainVars, histVars, runFrame, Up,
      RestartTypeOK, Table, StoreState, Metadata, AsleepInv, Awake, OrphanInv,
      Written
<1>16. ASSUME NEW c \in Cid, seal_file_start(c) PROVE OrphanInv'
  BY <1>16
  DEF seal_file_start, chainVars, opFrame, runFrame, Up, RestartTypeOK, Table,
      StoreState, Metadata, AsleepInv, Awake, OrphanInv, Written
<1>17. ASSUME NEW c \in Cid, seal_file(c) PROVE OrphanInv'
  BY <1>17
  DEF seal_file, chainVars, opFrame, runFrame, Up, RestartTypeOK, Table,
      StoreState, Metadata, AsleepInv, Awake, OrphanInv, Written
<1>18. ASSUME NEW c \in Cid, seal_file_end(c) PROVE OrphanInv'
  BY <1>18
  DEF seal_file_end, chainVars, opFrame, runFrame, Up, RestartTypeOK, Table,
      StoreState, Metadata, AsleepInv, Awake, OrphanInv, Written
<1>19. ASSUME NEW c \in Cid, delete_mark(c) PROVE OrphanInv'
  BY <1>19
  DEF delete_mark, chainVars, opFrame, runFrame, Up, RestartTypeOK, Table,
      StoreState, Metadata, AsleepInv, Awake, OrphanInv, Written
<1>20. ASSUME NEW c \in Cid, delete_data(c) PROVE OrphanInv'
  BY <1>20
  DEF delete_data, chainVars, opFrame, runFrame, Up, RestartTypeOK, Table,
      StoreState, Metadata, AsleepInv, Awake, OrphanInv, Written
<1>21. ASSUME crash PROVE OrphanInv'
  <2>1. /\ UNCHANGED <<metadata, disk, young, unread>> /\ proc' = "down"
        /\ \A c \in Cid : op'[c] = "idle"
        /\ \A t \in Thread : store'[t].pc = "idle"
    BY <1>21 DEF crash, Gone, dbVars, histVars, Idle
  <2> QED
    BY <2>1 DEF OrphanInv, Written
<1>22. ASSUME stop_all PROVE OrphanInv'
  BY <1>22
  DEF stop_all, dbVars, chainVars, histVars, runFrame, Up, RestartTypeOK,
      Table, StoreState, Metadata, AsleepInv, Awake, OrphanInv, Written
<1>23. ASSUME stop_exit PROVE OrphanInv'
  BY <1>23
  DEF stop_exit, Up, encVars, dbVars, chainVars, histVars, RestartTypeOK,
      Table, StoreState, Metadata, AsleepInv, Awake, OrphanInv, Written
<1>24. ASSUME next_block PROVE OrphanInv'
  BY <1>24
  DEF next_block, encVars, dbVars, histVars, RestartTypeOK, Table, StoreState,
      Metadata, AsleepInv, Awake, OrphanInv, Written
<1>25. ASSUME UNCHANGED vars PROVE OrphanInv'
  BY <1>25
  DEF vars, encVars, dbVars, chainVars, histVars, RestartTypeOK, Table,
      StoreState, Metadata, AsleepInv, Awake, OrphanInv, Written
<1> QED
  BY <1>1, <1>2, <1>3, <1>4, <1>5, <1>6, <1>7, <1>8, <1>9, <1>10, <1>11,
     <1>12, <1>13, <1>14, <1>15, <1>16, <1>17, <1>18, <1>19, <1>20, <1>21,
     <1>22, <1>23, <1>24, <1>25
  DEF Next, start, StoreStep, ReportStep, ClientStep

\* The copy and the table.
LEMMA CopyStep ==
    ASSUME RestartTypeOK, AsleepInv, CopyInv, [Next]_vars
    PROVE  CopyInv'
PROOF
<1>1. ASSUME initialize PROVE CopyInv'
  BY <1>1
  DEF initialize, encVars, dbVars, chainVars, histVars, startFrame,
      RestartTypeOK, Table, StoreState, AsleepInv, Awake, CopyInv, Written,
      Idle
<1>2. ASSUME restore_metadata PROVE CopyInv'
  BY <1>2
  DEF restore_metadata, persist_get, encVars, dbVars, chainVars, histVars,
      startFrame, RestartTypeOK, Table, StoreState, AsleepInv, Awake, CopyInv,
      Written, Idle
<1>3. ASSUME cmp_chain_account_id PROVE CopyInv'
  BY <1>3
  DEF cmp_chain_account_id, encVars, dbVars, chainVars, histVars, startFrame,
      RestartTypeOK, Table, StoreState, AsleepInv, Awake, CopyInv, Written,
      Idle
<1>4. ASSUME gen_key_pair PROVE CopyInv'
  BY <1>4
  DEF gen_key_pair, encVars, dbVars, chainVars, histVars, startFrame,
      RestartTypeOK, Table, StoreState, AsleepInv, Awake, CopyInv, Written,
      Idle
<1>5. ASSUME entry_network PROVE CopyInv'
  BY <1>5
  DEF entry_network, request_ias, verify_identity, sign_identity,
      upload_identity, Attempt, dbVars, histVars, RestartTypeOK, Table,
      StoreState, AsleepInv, Awake, CopyInv, Written, Idle
<1>6. ASSUME wait_for_running PROVE CopyInv'
  BY <1>6
  DEF wait_for_running, encVars, dbVars, chainVars, histVars, startFrame,
      RestartTypeOK, Table, StoreState, AsleepInv, Awake, CopyInv, Written,
      Idle
<1>7. ASSUME start_task PROVE CopyInv'
  BY <1>7
  DEF start_task, dbVars, chainVars, histVars, RestartTypeOK, Table,
      StoreState, AsleepInv, Awake, CopyInv, Written, Idle
<1>8. ASSUME NEW t \in Thread, store_begin(t) PROVE CopyInv'
  <2>1. \A u \in Thread : store'[u].pc = "put" =>
           store[u].pc = "put" /\ store'[u].files = store[u].files
    <3>1. store' = store \/ store' = [store EXCEPT ![t].pc = "lock"]
      BY <1>8 DEF store_begin
    <3> QED
      BY <3>1 DEF RestartTypeOK, StoreState
  <2> QED
    BY <1>8, <2>1
    DEF store_begin, dbVars, chainVars, histVars, runFrame, CopyInv, Written
<1>9. ASSUME NEW t \in Thread, store_serialize(t) PROVE CopyInv'
  BY <1>9
  DEF store_serialize, serialize_file, dbVars, chainVars, histVars, runFrame,
      Up, RestartTypeOK, Table, StoreState, AsleepInv, Awake, CopyInv,
      Written, Idle
<1>10. ASSUME NEW t \in Thread, store_put(t) PROVE CopyInv'
  <2>1. UNCHANGED <<op, disk, files>>
    BY <1>10 DEF store_put
  <2>2. \A u \in Thread : store'[u].pc = "put" =>
           store[u].pc = "put" /\ store'[u].files = store[u].files
    <3>1. \/ store' = [store EXCEPT ![t] = Idle]
          \/ store' = [u \in Thread |-> IF u = t THEN Idle
                ELSE [store[u] EXCEPT !.stale = (store[u].pc = "put")]]
      BY <1>10 DEF store_put, persist_set
    <3>2. CASE store' = [store EXCEPT ![t] = Idle]
      BY <3>2 DEF Idle, RestartTypeOK, StoreState
    <3>3. CASE store' = [u \in Thread |-> IF u = t THEN Idle
                ELSE [store[u] EXCEPT !.stale = (store[u].pc = "put")]]
      BY <3>3 DEF Idle, RestartTypeOK, StoreState
    <3> QED
      BY <3>1, <3>2, <3>3
  <2> QED
    BY <2>1, <2>2 DEF CopyInv, Written
<1>11. ASSUME validate PROVE CopyInv'
  BY <1>11
  DEF validate, dbVars, chainVars, histVars, runFrame, Up, RestartTypeOK,
      Table, StoreState, AsleepInv, Awake, CopyInv, Written, Idle
<1>12. ASSUME wr_poll PROVE CopyInv'
  BY <1>12
  DEF wr_poll, dbVars, chainVars, histVars, runFrame, Up, RestartTypeOK,
      Table, StoreState, AsleepInv, Awake, CopyInv, Written, Idle
<1>13. ASSUME gen_work_report PROVE CopyInv'
  BY <1>13
  DEF gen_work_report, dbVars, chainVars, histVars, runFrame, Up,
      RestartTypeOK, Table, StoreState, AsleepInv, Awake, CopyInv, Written,
      Idle
<1>14. ASSUME upload_workreport PROVE CopyInv'
  BY <1>14
  DEF upload_workreport, Up, dbVars, histVars, RestartTypeOK, Table,
      StoreState, AsleepInv, Awake, CopyInv, Written, Idle
<1>15. ASSUME handle_report_result PROVE CopyInv'
  BY <1>15
  DEF handle_report_result, dbVars, chainVars, histVars, runFrame, Up,
      RestartTypeOK, Table, StoreState, AsleepInv, Awake, CopyInv, Written,
      Idle
<1>16. ASSUME NEW c \in Cid, seal_file_start(c) PROVE CopyInv'
  BY <1>16
  DEF seal_file_start, chainVars, opFrame, runFrame, Up, RestartTypeOK, Table,
      StoreState, AsleepInv, Awake, CopyInv, Written, Idle
<1>17. ASSUME NEW c \in Cid, seal_file(c) PROVE CopyInv'
  BY <1>17
  DEF seal_file, chainVars, opFrame, runFrame, Up, RestartTypeOK, Table,
      StoreState, AsleepInv, Awake, CopyInv, Written, Idle
<1>18. ASSUME NEW c \in Cid, seal_file_end(c) PROVE CopyInv'
  BY <1>18
  DEF seal_file_end, chainVars, opFrame, runFrame, Up, RestartTypeOK, Table,
      StoreState, AsleepInv, Awake, CopyInv, Written, Idle
<1>19. ASSUME NEW c \in Cid, delete_mark(c) PROVE CopyInv'
  BY <1>19
  DEF delete_mark, chainVars, opFrame, runFrame, Up, RestartTypeOK, Table,
      StoreState, AsleepInv, Awake, CopyInv, Written, Idle
<1>20. ASSUME NEW c \in Cid, delete_data(c) PROVE CopyInv'
  BY <1>20
  DEF delete_data, chainVars, opFrame, runFrame, Up, RestartTypeOK, Table,
      StoreState, AsleepInv, Awake, CopyInv, Written, Idle
<1>21. ASSUME crash PROVE CopyInv'
  BY <1>21
  DEF crash, Gone, dbVars, chainVars, histVars, RestartTypeOK, Table,
      StoreState, AsleepInv, Awake, CopyInv, Written, Idle
<1>22. ASSUME stop_all PROVE CopyInv'
  BY <1>22
  DEF stop_all, dbVars, chainVars, histVars, runFrame, Up, RestartTypeOK,
      Table, StoreState, AsleepInv, Awake, CopyInv, Written, Idle
<1>23. ASSUME stop_exit PROVE CopyInv'
  BY <1>23
  DEF stop_exit, Up, encVars, dbVars, chainVars, histVars, RestartTypeOK,
      Table, StoreState, AsleepInv, Awake, CopyInv, Written, Idle
<1>24. ASSUME next_block PROVE CopyInv'
  BY <1>24
  DEF next_block, encVars, dbVars, histVars, RestartTypeOK, Table, StoreState,
      AsleepInv, Awake, CopyInv, Written, Idle
<1>25. ASSUME UNCHANGED vars PROVE CopyInv'
  BY <1>25
  DEF vars, encVars, dbVars, chainVars, histVars, RestartTypeOK, Table,
      StoreState, AsleepInv, Awake, CopyInv, Written, Idle
<1> QED
  BY <1>1, <1>2, <1>3, <1>4, <1>5, <1>6, <1>7, <1>8, <1>9, <1>10, <1>11,
     <1>12, <1>13, <1>14, <1>15, <1>16, <1>17, <1>18, <1>19, <1>20, <1>21,
     <1>22, <1>23, <1>24, <1>25
  DEF Next, start, StoreStep, ReportStep, ClientStep

-----------------------------------------------------------------------------
(* What a node that crashes and restarts promises *)

\* The first state.
LEMMA InvInit == Init => RestartInv
PROOF
<1> SUFFICES ASSUME Init PROVE RestartInv
  OBVIOUS
<1>1. RestartTypeOK
  BY TypeInit
<1>2. AsleepInv /\ StoreInv
  BY DEF Init, AsleepInv, Awake, StoreInv, Idle, NoWr
<1>3. IdentityInv
  BY DEF Init, IdentityInv, StoredIsRegistered, HasIdentity, KeyIsMade, NoMeta
<1>4. SlotInv
  <2>1. SlotOf(block) \in Nat
    BY <1>1, RestartAssumption, SlotFacts DEF RestartTypeOK
  <2> QED
    BY <2>1 DEF Init, SlotInv, Fresh, NoMeta, NoWr
<1>5. DataInv
  BY DEF Init, DataInv, Fresh
<1>6. OrphanInv /\ CopyInv
  BY DEF Init, OrphanInv, CopyInv, Written
<1> QED
  BY <1>1, <1>2, <1>3, <1>4, <1>5, <1>6 DEF RestartInv

\* The conjunction is inductive.
LEMMA InvStep == ASSUME RestartInv, [Next]_vars PROVE RestartInv'
PROOF
<1>1. KeyIsMade
  BY DEF RestartInv, IdentityInv
<1> QED
  BY <1>1, TypeStep, AsleepStep, IdentityStep, StoreInvStep, SlotStep, DataStep,
     OrphanStep, CopyStep DEF RestartInv

\* The inductive invariant holds in every reachable state.
THEOREM RestartInvariant == Spec => []RestartInv
PROOF
  BY InvInit, InvStep, PTL DEF Spec

\* The metadata that id_store_metadata leaves in the database are those of an
\* identity the chain has accepted, however often the node crashed while it
\* entered the network.
THEOREM StoredKeyIsRegistered == Spec => []StoredIsRegistered
PROOF
<1>1. RestartInv => StoredIsRegistered
  BY DEF RestartInv, IdentityInv
<1> QED
  BY <1>1, RestartInvariant, PTL

\* A node that works does so under the configured account and, unless stored
\* metadata could not be read, with the stored key: id_cmp_chain_account_id
\* compares what id_restore_metadata recovered before any task is started.
THEOREM NodeRunsAsConfigured == Spec => []RunsAsConfigured
PROOF
<1>1. RestartInv => RunsAsConfigured
  BY DEF RestartInv, IdentityInv, HasIdentity, RunsAsConfigured, Up
<1> QED
  BY <1>1, RestartInvariant, PTL

\* Data without an entry in the table are those of a file that was begun after
\* the snapshot the node was restored from.
THEOREM OrphansAreYoung == Spec => []OrphanIsYoung
PROOF
<1>1. RestartInv => OrphanIsYoung
  BY DEF RestartInv, OrphanInv, Written, OrphanIsYoung, Up
<1> QED
  BY <1>1, RestartInvariant, PTL

\* The metadata mutex: no store writes a table older than the one it replaces.
THEOREM StoresAdvance == Spec => StoreAdvances
PROOF
<1> DEFINE Newer == metadata' # metadata => \E t \in Thread :
          store[t].pc = "put" /\ ~store[t].stale /\ metadata'.files = store[t].files
<1>1. ASSUME RestartInv, [Next]_vars PROVE Newer
  <2>1. ASSUME NEW t \in Thread, store_put(t) PROVE Newer
    BY <1>1, <2>1 DEF store_put, persist_set, RestartInv, StoreInv
  <2>2. ASSUME ~ \E t \in Thread : store_put(t) PROVE metadata' = metadata
    BY <1>1, <2>2
    DEF Next, start, initialize, restore_metadata, cmp_chain_account_id,
        gen_key_pair, entry_network, wait_for_running, start_task, StoreStep,
        store_begin, store_serialize, validate, ReportStep, wr_poll,
        gen_work_report, upload_workreport, handle_report_result, ClientStep,
        seal_file_start, seal_file, seal_file_end, delete_mark, delete_data,
        opFrame, crash, stop_all, stop_exit, next_block, vars, dbVars
  <2> QED
    BY <2>1, <2>2
<1> QED
  BY <1>1, RestartInvariant, PTL DEF Spec, StoreAdvances

\* The reports of a key reach the chain in ascending order: the restart flag
\* makes up for the report height that a restart forgets.
THEOREM ReportsOfAKeyAscend == Spec => ReportsAscend
PROOF
<1> DEFINE Ascend == (reports' # reports /\ reports'.key = reports.key)
                       => reports'.height > reports.height
<1>1. ASSUME RestartInv, [Next]_vars PROVE Ascend
  <2>1. CASE upload_workreport
    <3> DEFINE accepted == [key |-> enc.key, height |-> wr.height,
                            turn |-> 1 - reports.turn]
    <3>1. reports' = reports \/ reports' = accepted
      BY <2>1 DEF upload_workreport
    <3>2. enc.key = reports.key => reports.height < wr.height
      BY <1>1, <2>1 DEF upload_workreport, RestartInv, SlotInv
    <3>3. reports.height \in Nat /\ wr.height \in Nat
      BY <1>1, RestartAssumption DEF RestartInv, RestartTypeOK, Report, WrState
    <3> QED
      BY <3>1, <3>2, <3>3
  <2>2. ASSUME ~upload_workreport PROVE reports' = reports
    BY <1>1, <2>2
    DEF Next, start, initialize, restore_metadata, cmp_chain_account_id,
        gen_key_pair, entry_network, wait_for_running, start_task, startFrame,
        StoreStep, store_begin, store_serialize, store_put, validate, ReportStep,
        wr_poll, gen_work_report, handle_report_result, runFrame, ClientStep,
        seal_file_start, seal_file, seal_file_end, delete_mark, delete_data,
        opFrame, crash, stop_all, stop_exit, next_block, vars, chainVars
  <2> QED
    BY <2>1, <2>2
<1> QED
  BY <1>1, RestartInvariant, PTL DEF Spec, ReportsAscend

\* gen_work_report counts no file whose data are gone: nothing is reported
\* before a validation, and what is done after one keeps the data.
THEOREM ReportedDataIsThere == Spec => ReportedIsThere
PROOF
<1> DEFINE There == (wr.pc = "gen" /\ wr'.pc = "upload") => wr'.valid \subseteq disk
<1>1. ASSUME RestartInv, [Next]_vars PROVE There
  <2>0. RestartTypeOK
    BY <1>1 DEF RestartInv
  <2>1. CASE gen_work_report
    <3> SUFFICES ASSUME wr'.pc = "upload" PROVE wr'.valid \subseteq disk
      OBVIOUS
    <3> DEFINE next == [wr EXCEPT !.target = wr.height + REPORT_SLOT]
    <3>1. [next EXCEPT !.pc = "poll"].pc = "poll"
      BY <2>0 DEF RestartTypeOK, WrState
    <3>2. /\ has_validated_proof
          /\ wr' = [next EXCEPT !.pc = "upload",
                       !.valid = {c \in Cid : files[c].cur = "valid"},
                       !.listed = {c \in Cid :
                                     <<files[c].cur, files[c].org>> \in Changes}]
      BY <2>1, <3>1 DEF gen_work_report
    <3>3. wr'.valid = {c \in Cid : files[c].cur = "valid"}
      BY <2>0, <3>2 DEF RestartTypeOK, WrState
    <3> QED
      BY <1>1, <3>2, <3>3 DEF has_validated_proof, RestartInv, DataInv
  <2>2. ASSUME ~gen_work_report, wr.pc = "gen" PROVE wr'.pc # "upload"
    <3>1. ~start
      BY <1>1, <2>2 DEF start, initialize, restore_metadata, cmp_chain_account_id,
         gen_key_pair, entry_network, wait_for_running, start_task, RestartInv,
         AsleepInv, Awake
    <3>2. ASSUME NEW t \in Thread, StoreStep(t) PROVE wr'.pc # "upload"
      BY <2>0, <2>2, <3>2 DEF StoreStep, store_begin, store_serialize, store_put,
         RestartTypeOK, WrState
    <3>3. CASE validate \/ ReportStep
      BY <2>2, <3>3 DEF validate, ReportStep, wr_poll, upload_workreport,
         handle_report_result
    <3>4. ASSUME NEW c \in Cid, ClientStep(c) PROVE wr'.pc # "upload"
      BY <2>2, <3>4 DEF ClientStep, seal_file_start, seal_file, seal_file_end,
         delete_mark, delete_data, opFrame
    <3>5. CASE crash \/ stop_all \/ stop_exit \/ next_block \/ UNCHANGED vars
      BY <2>2, <3>5 DEF crash, Gone, NoWr, stop_all, stop_exit, next_block, vars,
         encVars
    <3> QED
      BY <1>1, <3>1, <3>2, <3>3, <3>4, <3>5 DEF Next
  <2> QED
    BY <2>1, <2>2
<1> QED
  BY <1>1, RestartInvariant, PTL DEF Spec, ReportedIsThere

=============================================================================
