---------------------------- MODULE UpgradeProofs ----------------------------
(***************************************************************************)
(* Proofs about Upgrade, for any number of clients, blocks, tries and      *)
(* faults.                                                                 *)
(*                                                                         *)
(* Three invariants, each on top of the one before.  ReportInv orders the  *)
(* heights: whoever holds g_gen_work_report with a report to send holds    *)
(* one that is newer than all the chain, the stored data and the new       *)
(* version have seen.  LeavingInv follows the status of the old version    *)
(* through the new one's progress.  QuietInv says that from END on no      *)
(* request is inside an enclave that would carry it out.                   *)
(***************************************************************************)
EXTENDS Upgrade, FiniteSetTheorems, TLAPS

-----------------------------------------------------------------------------
(* Slots *)

\* The slot of a block begins no later than the block.
LEMMA SlotOfBlock ==
    ASSUME NEW b \in Nat, NEW s \in Nat \ {0}
    PROVE  /\ (b \div s) * s \in Nat
           /\ (b \div s) * s <= b
           /\ (b \div s + 1) * s \in Nat
PROOF
<1>1. (b \div s) \in Nat /\ (b \div s) * s <= b
  BY SMT
<1> QED
  BY <1>1, SMT

\* The height of an upgrade report is before the header it was made from.
LEMMA HeightBeforeHeader ==
    ASSUME UpgradeTypeOK
    PROVE  UpgradeHeight \in Int /\ UpgradeHeight <= check.header
PROOF
<1> DEFINE x == check.header - report_height - 1
<1>1. x \in Int /\ check.header \in Nat /\ report_height \in Nat
  BY UpgradeAssumption DEF UpgradeTypeOK
<1>2. \A a \in Int : REPORT_SLOT * (a \div REPORT_SLOT) <= a
                     /\ REPORT_SLOT * (a \div REPORT_SLOT) \in Int
  BY UpgradeAssumption, SMT
<1>3. REPORT_SLOT * (x \div REPORT_SLOT) <= x /\ REPORT_SLOT * (x \div REPORT_SLOT) \in Int
  BY <1>1, <1>2
<1> HIDE DEF x
<1>4. UpgradeHeight = report_height + REPORT_SLOT * (x \div REPORT_SLOT)
  BY DEF UpgradeHeight, x
<1> QED
  BY <1>1, <1>3, <1>4 DEF x

-----------------------------------------------------------------------------
(* Types and heights *)

\* The report loop asks for the height of a block there was.
HeightIsBlock == wr.height <= MaxBlock

\* What the check loop holds g_gen_work_report for.
Generating == {"report", "upload", "snapshot", "success"}
Sending == wr.pc = "upload" \/ check.pc = "upload"

MutexIsHeld ==
    /\ wr.pc = "upload" => gen_mutex = "report"
    /\ check.pc \in Generating => gen_mutex = "check"

\* Nothing seen outside of the enclave is newer than its own height, and a
\* report that is about to be sent is newer than all of it.
SendingIsNewer ==
    /\ wr.pc = "upload" => wr.height = report_height
    /\ \A h \in {reports.height, upgrade_data.height, new.data.height} :
          h <= report_height /\ (Sending => h < report_height)

ReportInv ==
    /\ UpgradeTypeOK
    /\ HeightIsBlock
    /\ MutexIsHeld
    /\ SendingIsNewer

\* The start of an upgrade.
LEMMA ReportInit == Init => ReportInv
PROOF
<1> SUFFICES ASSUME Init PROVE ReportInv
  OBVIOUS
<1> DEFINE first == ((FirstBlock \div REPORT_SLOT) - 1) * REPORT_SLOT
<1>1. first \in 0..MaxBlock
  BY UpgradeAssumption, SMT
<1>2. REPORT_SLOT \in Nat /\ first + REPORT_SLOT \in Nat /\ report_height = first
  BY <1>1, UpgradeAssumption DEF Init
<1> HIDE DEF first
<1>3. UpgradeTypeOK
  <2>1. NoData \in Data /\ 0 \in 0..MaxBlock
    BY UpgradeAssumption DEF NoData, Data
  <2>2. new \in [pc : NewPc, tryout : 1..RestoreTryout, told : BOOLEAN, data : Data]
    BY <2>1, UpgradeAssumption DEF Init, NewPc
  <2>3. wr \in [pc : {"poll", "wait", "lock", "upload"}, height : Nat, target : Nat]
    BY <1>1, <1>2 DEF Init
  <2>4. reports \in [key : {"old", "new"}, height : 0..MaxBlock, turn : 0..1]
    BY <1>1, <1>2 DEF Init
  <2>5. check \in [pc : CheckPc, header : 0..MaxBlock]
    BY <2>1 DEF Init, CheckPc
  <2>6. validated \in BOOLEAN /\ expired \in BOOLEAN /\ crossed \in BOOLEAN
    BY DEF Init
  <2>7. /\ upgrade_tryout \in 0..UpgradeTryout
        /\ faults \in 0..MaxFaults
        /\ block \in FirstBlock..MaxBlock
    BY UpgradeAssumption DEF Init
  <2>8. /\ disable \in [Thread -> {"no", "look", "call"}]
        /\ client \in [Client -> {"idle", "passed", "inside", "working", "done",
                                  "refused"}]
    BY DEF Init
  <2> QED
    BY <1>1, <1>2, <2>1, <2>2, <2>3, <2>4, <2>5, <2>6, <2>7, <2>8
    DEF Init, UpgradeTypeOK, Status, EncStatus, HandlerPc
<1> QED
  BY <1>1, <1>2, <1>3
  DEF Init, ReportInv, HeightIsBlock, MutexIsHeld, Generating, Sending,
      SendingIsNewer, NoData

\* Types: the requests of the clients.
LEMMA ClientTypes ==
    ASSUME ReportInv, NEW c \in Client, clientStep(c)
    PROVE  UpgradeTypeOK' /\ HeightIsBlock'
PROOF
<1> USE UpgradeAssumption
<1>1. ASSUME http_handler(c) PROVE UpgradeTypeOK' /\ HeightIsBlock'
  BY <1>1
  DEF http_handler, Advance, clientFrame, oldVars, genVars,
      histVars, ReportInv, UpgradeTypeOK, HeightIsBlock
<1>2. ASSUME try_get_enclave(c) PROVE UpgradeTypeOK' /\ HeightIsBlock'
  BY <1>2
  DEF try_get_enclave, Advance, clientFrame, oldVars, genVars,
      histVars, ReportInv, UpgradeTypeOK, HeightIsBlock
<1>3. ASSUME ecall(c) PROVE UpgradeTypeOK' /\ HeightIsBlock'
  BY <1>3
  DEF ecall, Advance, clientFrame, oldVars, genVars,
      histVars, ReportInv, UpgradeTypeOK, HeightIsBlock
<1>4. ASSUME free_enclave(c) PROVE UpgradeTypeOK' /\ HeightIsBlock'
  BY <1>4
  DEF free_enclave, Advance, clientFrame, oldVars, genVars,
      histVars, ReportInv, UpgradeTypeOK, HeightIsBlock
<1> QED
  BY <1>1, <1>2, <1>3, <1>4
  DEF clientStep

\* What a step of the check loop does to its own state.
LEMMA CheckMoves ==
    ASSUME UpgradeTypeOK
    PROVE  \A pc \in CheckPc : CheckGoes(pc) =>
              /\ check' \in [pc : CheckPc, header : 0..MaxBlock]
              /\ check'.pc = pc
              /\ check'.header \in {0, check.header}
PROOF
<1>1. 0 \in 0..MaxBlock
  BY UpgradeAssumption
<1> QED
  BY <1>1 DEF CheckGoes, UpgradeTypeOK

\* The program points the check loop goes to.
LEMMA CheckPoints ==
    {"turn", "end", "gen", "report", "upload", "snapshot", "success",
     "complete", "tryout", "sleep", "gone"} \subseteq CheckPc
PROOF
<1> QED
  BY DEF CheckPc

\* Types: the report loop and the main loop.
LEMMA ReportLoopTypes ==
    ASSUME ReportInv, wrStep \/ mainStep
    PROVE  UpgradeTypeOK' /\ HeightIsBlock'
PROOF
<1> USE UpgradeAssumption
<1>1. ASSUME wr_poll PROVE UpgradeTypeOK' /\ HeightIsBlock'
  <2>1. block \in Nat /\ (block \div REPORT_SLOT) * REPORT_SLOT \in Nat
        /\ (block \div REPORT_SLOT) * REPORT_SLOT <= MaxBlock
    BY SlotOfBlock DEF ReportInv, UpgradeTypeOK
  <2>2. /\ wr' \in [pc : {"poll", "wait", "lock", "upload"}, height : Nat, target : Nat]
        /\ wr'.height <= MaxBlock
    BY <1>1, <2>1 DEF wr_poll, ReportInv, UpgradeTypeOK
  <2> QED
    BY <1>1, <2>2
    DEF wr_poll, ReportInv, UpgradeTypeOK, HeightIsBlock, oldVars, genVars,
      histVars
<1>2. ASSUME wr_ecall PROVE UpgradeTypeOK' /\ HeightIsBlock'
  <2>0. wr.height + REPORT_SLOT \in Nat
    BY DEF ReportInv, UpgradeTypeOK
  <2>1. /\ wr' \in [pc : {"poll", "wait", "lock", "upload"}, height : Nat, target : Nat]
        /\ wr'.height = wr.height
    <3>1. CASE wr' = [wr EXCEPT !.pc = "poll"]
      BY <3>1 DEF ReportInv, UpgradeTypeOK
    <3>2. CASE wr' = [wr EXCEPT !.target = wr.height + REPORT_SLOT,
                                !.pc = IF enc_status = "NONE" THEN "lock" ELSE "poll"]
      BY <3>2, <2>0 DEF ReportInv, UpgradeTypeOK
    <3> QED
      BY <1>2, <3>1, <3>2 DEF wr_ecall, get_block_hash
  <2>2. faults' \in 0..MaxFaults
    BY <1>2 DEF wr_ecall, get_block_hash, ReportInv, UpgradeTypeOK
  <2> QED
    BY <1>2, <2>1, <2>2
    DEF wr_ecall, ReportInv, UpgradeTypeOK, HeightIsBlock, oldVars, genVars, histVars
<1>3. ASSUME wr_gen PROVE UpgradeTypeOK' /\ HeightIsBlock'
  <2>1. /\ wr' \in [pc : {"poll", "wait", "lock", "upload"}, height : Nat, target : Nat]
        /\ wr'.height = wr.height
        /\ gen_mutex' \in {"free", "report", "check"}
    BY <1>3 DEF wr_gen, gen_work_report, ReportInv, UpgradeTypeOK
  <2>2. report_height' \in 0..MaxBlock
    BY <1>3 DEF wr_gen, gen_work_report, ReportInv, UpgradeTypeOK, HeightIsBlock
  <2>3. validated' \in BOOLEAN
    BY <1>3 DEF wr_gen, gen_work_report, ReportInv, UpgradeTypeOK
  <2> QED
    BY <1>3, <2>1, <2>2, <2>3
    DEF wr_gen, ReportInv, UpgradeTypeOK, HeightIsBlock, oldVars, histVars
<1>4. ASSUME wr_upload PROVE UpgradeTypeOK' /\ HeightIsBlock'
  BY <1>4
  DEF wr_upload, ReportInv, UpgradeTypeOK, HeightIsBlock, oldVars, genVars,
      histVars, upload_workreport
<1>5. ASSUME wr_exit PROVE UpgradeTypeOK' /\ HeightIsBlock'
  BY <1>5
  DEF wr_exit, ReportInv, UpgradeTypeOK, HeightIsBlock, oldVars, genVars,
      histVars
<1>6. ASSUME main_turn PROVE UpgradeTypeOK' /\ HeightIsBlock'
  BY <1>6
  DEF main_turn, ReportInv, UpgradeTypeOK, HeightIsBlock, oldVars, genVars,
      histVars
<1>7. ASSUME main_exit PROVE UpgradeTypeOK' /\ HeightIsBlock'
  BY <1>7
  DEF main_exit, ReportInv, UpgradeTypeOK, HeightIsBlock, oldVars, genVars,
      histVars
<1> QED
  BY <1>1, <1>2, <1>3, <1>4, <1>5, <1>6, <1>7
  DEF wrStep, mainStep

\* Types: the check loop.
LEMMA CheckLoopTypes ==
    ASSUME ReportInv, checkStep
    PROVE  UpgradeTypeOK' /\ HeightIsBlock'
PROOF
<1> USE UpgradeAssumption
<1>1. ASSUME check_process PROVE UpgradeTypeOK' /\ HeightIsBlock'
  BY <1>1, CheckMoves, CheckPoints
  DEF check_process, ReportInv, UpgradeTypeOK, HeightIsBlock, oldVars,
      genVars, histVars, checkFrame, set_upgrade_status,
      Status, EncStatus, Thread
<1>2. ASSUME check_end PROVE UpgradeTypeOK' /\ HeightIsBlock'
  BY <1>2, CheckMoves, CheckPoints
  DEF check_end, ReportInv, UpgradeTypeOK, HeightIsBlock, oldVars, genVars,
      histVars, checkFrame, set_upgrade_status, Status,
      EncStatus, Thread, get_block_header
<1>3. ASSUME gen_upgrade_data PROVE UpgradeTypeOK' /\ HeightIsBlock'
  BY <1>3, CheckMoves, CheckPoints
  DEF gen_upgrade_data, ReportInv, UpgradeTypeOK, HeightIsBlock, oldVars,
      genVars, histVars, checkFrame, set_upgrade_status,
      Status, EncStatus, Thread, get_block_hash
<1>4. ASSUME gen_upgrade_report PROVE UpgradeTypeOK' /\ HeightIsBlock'
  <2>1. UpgradeHeight \in Int /\ UpgradeHeight <= MaxBlock
    BY HeightBeforeHeader DEF ReportInv, UpgradeTypeOK
  <2>2. report_height' \in 0..MaxBlock
    BY <1>4, <2>1 DEF gen_upgrade_report, gen_work_report, ReportInv, UpgradeTypeOK
  <2>3. validated' \in BOOLEAN
    BY <1>4 DEF gen_upgrade_report, gen_work_report, ReportInv, UpgradeTypeOK
  <2>4. /\ check' \in [pc : CheckPc, header : 0..MaxBlock]
        /\ gen_mutex' \in {"free", "report", "check"}
    BY <1>4, CheckMoves, CheckPoints
    DEF gen_upgrade_report, gen_work_report, ReportInv, UpgradeTypeOK
  <2> QED
    BY <1>4, <2>2, <2>3, <2>4
    DEF gen_upgrade_report, checkFrame, ReportInv, UpgradeTypeOK, HeightIsBlock,
        oldVars, histVars
<1>5. ASSUME gen_upgrade_upload PROVE UpgradeTypeOK' /\ HeightIsBlock'
  BY <1>5, CheckMoves, CheckPoints
  DEF gen_upgrade_upload, ReportInv, UpgradeTypeOK, HeightIsBlock, oldVars,
      genVars, histVars, checkFrame, set_upgrade_status,
      Status, EncStatus, Thread, upload_workreport
<1>6. ASSUME gen_upgrade_snapshot PROVE UpgradeTypeOK' /\ HeightIsBlock'
  BY <1>6, CheckMoves, CheckPoints
  DEF gen_upgrade_snapshot, ReportInv, UpgradeTypeOK, HeightIsBlock, oldVars,
      genVars, histVars, checkFrame, set_upgrade_status,
      Status, EncStatus, Thread, done, Data
<1>7. ASSUME gen_upgrade_success PROVE UpgradeTypeOK' /\ HeightIsBlock'
  BY <1>7, CheckMoves, CheckPoints
  DEF gen_upgrade_success, ReportInv, UpgradeTypeOK, HeightIsBlock, oldVars,
      genVars, histVars, checkFrame, set_upgrade_status,
      Status, EncStatus, Thread
<1>8. ASSUME check_complete PROVE UpgradeTypeOK' /\ HeightIsBlock'
  BY <1>8, CheckMoves, CheckPoints
  DEF check_complete, ReportInv, UpgradeTypeOK, HeightIsBlock, oldVars,
      genVars, histVars, checkFrame, set_upgrade_status,
      Status, EncStatus, Thread
<1>9. ASSUME check_tryout PROVE UpgradeTypeOK' /\ HeightIsBlock'
  <2>1. (block \div REPORT_SLOT + 1) * REPORT_SLOT \in Nat
    BY SlotOfBlock DEF ReportInv, UpgradeTypeOK
  <2>2. /\ wr' \in [pc : {"poll", "wait", "lock", "upload"}, height : Nat, target : Nat]
        /\ wr'.height = wr.height
        /\ tasks' \subseteq {"report", "main"}
    BY <1>9, <2>1 DEF check_tryout, restore_tasks, ReportInv, UpgradeTypeOK
  <2>3. /\ upgrade_tryout' \in 0..UpgradeTryout
        /\ upgrade_status' \in Status
        /\ disable' \in [Thread -> {"no", "look", "call"}]
    BY <1>9
    DEF check_tryout, set_upgrade_status, Status, Thread, ReportInv, UpgradeTypeOK
  <2>4. expired' \in BOOLEAN
    BY <1>9 DEF check_tryout, ReportInv, UpgradeTypeOK
  <2> QED
    BY <1>9, <2>2, <2>3, <2>4, CheckMoves, CheckPoints
    DEF check_tryout, ReportInv, UpgradeTypeOK, HeightIsBlock, genVars
<1>10. ASSUME check_sleep PROVE UpgradeTypeOK' /\ HeightIsBlock'
  BY <1>10, CheckMoves, CheckPoints
  DEF check_sleep, ReportInv, UpgradeTypeOK, HeightIsBlock, oldVars, genVars,
      histVars, checkFrame, set_upgrade_status, Status,
      EncStatus, Thread
<1>11. ASSUME look_again("check") PROVE UpgradeTypeOK' /\ HeightIsBlock'
  BY <1>11
  DEF look_again, ReportInv, UpgradeTypeOK, HeightIsBlock, oldVars, genVars,
      histVars, checkFrame, CheckGoes, CheckPc, set_upgrade_status, Status,
      EncStatus, Thread
<1>12. ASSUME ecall_disable_upgrade("check") PROVE UpgradeTypeOK' /\ HeightIsBlock'
  BY <1>12
  DEF ecall_disable_upgrade, ReportInv, UpgradeTypeOK, HeightIsBlock, oldVars,
      genVars, histVars, checkFrame, CheckGoes, CheckPc, set_upgrade_status,
      Status, EncStatus, Thread
<1> QED
  BY <1>1, <1>2, <1>3, <1>4, <1>5, <1>6, <1>7, <1>8, <1>9, <1>10, <1>11, <1>12
  DEF checkStep

\* Types: the handlers.
LEMMA HandlerTypes ==
    ASSUME ReportInv, handlerStep
    PROVE  UpgradeTypeOK' /\ HeightIsBlock'
PROOF
<1> USE UpgradeAssumption
<1>1. ASSUME ecall_enable_upgrade PROVE UpgradeTypeOK' /\ HeightIsBlock'
  BY <1>1
  DEF ecall_enable_upgrade, ReportInv, UpgradeTypeOK, HeightIsBlock, oldVars,
      genVars, histVars, newFrame, NewGoes, NewPc, Lost, HandlerPc,
      set_upgrade_status, Status, EncStatus, Thread
<1>2. ASSUME start_process PROVE UpgradeTypeOK' /\ HeightIsBlock'
  BY <1>2
  DEF start_process, ReportInv, UpgradeTypeOK, HeightIsBlock, oldVars,
      genVars, histVars, newFrame, NewGoes, NewPc, Lost, HandlerPc,
      set_upgrade_status, Status, EncStatus, Thread
<1>3. ASSUME look_again("handler") PROVE UpgradeTypeOK' /\ HeightIsBlock'
  BY <1>3
  DEF look_again, ReportInv, UpgradeTypeOK, HeightIsBlock, oldVars, genVars,
      histVars, newFrame, NewGoes, NewPc, Lost, HandlerPc, set_upgrade_status,
      Status, EncStatus, Thread
<1>4. ASSUME ecall_disable_upgrade("handler") PROVE UpgradeTypeOK' /\ HeightIsBlock'
  BY <1>4
  DEF ecall_disable_upgrade, ReportInv, UpgradeTypeOK, HeightIsBlock, oldVars,
      genVars, histVars, newFrame, NewGoes, NewPc, Lost, HandlerPc,
      set_upgrade_status, Status, EncStatus, Thread
<1> QED
  BY <1>1, <1>2, <1>3, <1>4
  DEF handlerStep

\* Types: the new version.
LEMMA NewTypes ==
    ASSUME ReportInv, newStep
    PROVE  UpgradeTypeOK' /\ HeightIsBlock'
PROOF
<1> USE UpgradeAssumption
<1>1. ASSUME upgrade_try_start PROVE UpgradeTypeOK' /\ HeightIsBlock'
  <2>1. /\ upgrade_status' \in Status /\ handler' \in HandlerPc /\ expired' \in BOOLEAN
        /\ disable' \in [Thread -> {"no", "look", "call"}]
    BY <1>1
    DEF upgrade_try_start, ReportInv, UpgradeTypeOK, set_upgrade_status, Status,
        Thread, HandlerPc
  <2>2. new' \in [pc : NewPc, tryout : 1..RestoreTryout, told : BOOLEAN, data : Data]
    BY <1>1 DEF upgrade_try_start, ReportInv, UpgradeTypeOK, NewGoes, NewPc
  <2> QED
    BY <1>1, <2>1, <2>2
    DEF upgrade_try_start, genVars, newFrame, ReportInv, UpgradeTypeOK,
        HeightIsBlock
<1>2. ASSUME get_metadata PROVE UpgradeTypeOK' /\ HeightIsBlock'
  <2>1. new' \in [pc : NewPc, tryout : 1..RestoreTryout, told : BOOLEAN, data : Data]
    <3>1. RestoreTryout \in 1..RestoreTryout /\ {"init", "failed"} \subseteq NewPc
      BY DEF NewPc
    <3>2. CASE new' = [pc |-> "init", data |-> upgrade_data,
                       tryout |-> RestoreTryout, told |-> FALSE]
      BY <3>1, <3>2 DEF ReportInv, UpgradeTypeOK
    <3>3. CASE NewGoes("failed")
      BY <3>1, <3>3 DEF NewGoes, ReportInv, UpgradeTypeOK
    <3> QED
      BY <1>2, <3>2, <3>3 DEF get_metadata
  <2>2. faults' \in 0..MaxFaults
    BY <1>2 DEF get_metadata, Lost, ReportInv, UpgradeTypeOK
  <2> QED
    BY <1>2, <2>1, <2>2
    DEF get_metadata, newFrame, oldVars, genVars, histVars, ReportInv,
        UpgradeTypeOK, HeightIsBlock
<1>3. ASSUME restore_from_upgrade PROVE UpgradeTypeOK' /\ HeightIsBlock'
  BY <1>3
  DEF restore_from_upgrade, ReportInv, UpgradeTypeOK, HeightIsBlock, oldVars,
      genVars, histVars, newFrame, NewAt, NewGoes, NewPc, Lost, HandlerPc,
      set_upgrade_status, Status, EncStatus, Thread
<1>4. ASSUME entry_network PROVE UpgradeTypeOK' /\ HeightIsBlock'
  <2>1. new' \in [pc : NewPc, tryout : 1..RestoreTryout, told : BOOLEAN, data : Data]
    <3>1. {"init", "report", "failed"} \subseteq NewPc
      BY DEF NewPc
    <3>2. CASE new.tryout > 1 /\ new' = [new EXCEPT !.tryout = @ - 1, !.pc = "init"]
      <4>1. new.tryout - 1 \in 1..RestoreTryout
        BY <3>2 DEF ReportInv, UpgradeTypeOK
      <4> QED
        BY <3>1, <3>2, <4>1 DEF ReportInv, UpgradeTypeOK
    <3>3. CASE NewGoes("report") \/ NewGoes("failed")
      BY <3>1, <3>3 DEF NewGoes, ReportInv, UpgradeTypeOK
    <3> QED
      BY <1>4, <3>2, <3>3 DEF entry_network
  <2>2. faults' \in 0..MaxFaults
    BY <1>4 DEF entry_network, Lost, ReportInv, UpgradeTypeOK
  <2> QED
    BY <1>4, <2>1, <2>2
    DEF entry_network, newFrame, oldVars, genVars, histVars, ReportInv,
        UpgradeTypeOK, HeightIsBlock
<1>5. ASSUME new_report PROVE UpgradeTypeOK' /\ HeightIsBlock'
  BY <1>5
  DEF new_report, ReportInv, UpgradeTypeOK, HeightIsBlock, oldVars, genVars,
      histVars, newFrame, NewAt, NewGoes, NewPc, Lost, HandlerPc,
      set_upgrade_status, Status, EncStatus, Thread, upload_workreport, Data
<1>6. ASSUME upgrade_try_complete_failed PROVE UpgradeTypeOK' /\ HeightIsBlock'
  BY <1>6
  DEF upgrade_try_complete_failed, ReportInv, UpgradeTypeOK, HeightIsBlock,
      oldVars, genVars, histVars, newFrame, NewAt, NewGoes, NewPc, Lost,
      HandlerPc, set_upgrade_status, Status, EncStatus, Thread
<1>7. ASSUME upgrade_try_complete_succeeded PROVE UpgradeTypeOK' /\ HeightIsBlock'
  <2>1. new' \in [pc : NewPc, tryout : 1..RestoreTryout, told : BOOLEAN, data : Data]
    <3>1. new \in [pc : NewPc, tryout : 1..RestoreTryout, told : BOOLEAN, data : Data]
      BY DEF ReportInv, UpgradeTypeOK
    <3>2. \/ new' = [new EXCEPT !.pc = "wait_old", !.told = TRUE]
          \/ new' = [new EXCEPT !.pc = "wait_old"]
      BY <1>7 DEF upgrade_try_complete_succeeded, NewGoes
    <3> QED
      BY <3>1, <3>2 DEF NewPc
  <2>2. faults' \in 0..MaxFaults /\ metadata' \in {"kept", "moved", "gone"}
    BY <1>7
    DEF upgrade_try_complete_succeeded, move_metadata, Lost, ReportInv, UpgradeTypeOK
  <2>3. /\ upgrade_status' \in Status
        /\ disable' \in [Thread -> {"no", "look", "call"}]
    BY <1>7
    DEF upgrade_try_complete_succeeded, set_upgrade_status, Status, Thread,
        ReportInv, UpgradeTypeOK
  <2> QED
    BY <1>7, <2>1, <2>2, <2>3
    DEF upgrade_try_complete_succeeded, newFrame, genVars, histVars, ReportInv,
        UpgradeTypeOK, HeightIsBlock
<1>8. ASSUME initialize_components PROVE UpgradeTypeOK' /\ HeightIsBlock'
  BY <1>8
  DEF initialize_components, ReportInv, UpgradeTypeOK, HeightIsBlock, oldVars,
      genVars, histVars, newFrame, NewAt, NewGoes, NewPc, Lost, HandlerPc,
      set_upgrade_status, Status, EncStatus, Thread
<1> QED
  BY <1>1, <1>2, <1>3, <1>4, <1>5, <1>6, <1>7, <1>8
  DEF newStep

\* Every step keeps the types.
LEMMA TypeStep ==
    ASSUME ReportInv, [Next]_vars
    PROVE  UpgradeTypeOK' /\ HeightIsBlock'
PROOF
<1>1. CASE UNCHANGED vars
  BY <1>1 DEF vars, oldVars, genVars, histVars, ReportInv, UpgradeTypeOK, HeightIsBlock
<1>2. CASE next_block
  BY <1>2, UpgradeAssumption
  DEF next_block, oldVars, genVars, histVars, ReportInv, UpgradeTypeOK, HeightIsBlock
<1> QED
  BY <1>1, <1>2, ClientTypes, ReportLoopTypes, CheckLoopTypes, HandlerTypes,
     NewTypes
  DEF Next

\* A step that neither generates, sends nor copies keeps the order of heights.
LEMMA HeightFrame ==
    ASSUME MutexIsHeld, SendingIsNewer,
           wr'.pc = "upload" => wr.pc = "upload" /\ wr'.height = wr.height,
           check'.pc \in Generating => check'.pc = check.pc,
           gen_mutex' = gen_mutex, report_height' = report_height,
           reports' = reports, upgrade_data' = upgrade_data,
           new'.data.height = new.data.height
    PROVE  MutexIsHeld' /\ SendingIsNewer'
PROOF
<1> QED
  BY DEF MutexIsHeld, SendingIsNewer, Sending, Generating

\* Order of heights: clients.
LEMMA ClientHeights ==
    ASSUME ReportInv, NEW c \in Client, clientStep(c)
    PROVE  MutexIsHeld' /\ SendingIsNewer'
PROOF
<1> USE UpgradeAssumption
<1>1. ASSUME http_handler(c) PROVE MutexIsHeld' /\ SendingIsNewer'
  BY <1>1, HeightFrame
  DEF http_handler, ReportInv, Generating, UpgradeTypeOK, oldVars, genVars,
      histVars, Advance, clientFrame
<1>2. ASSUME try_get_enclave(c) PROVE MutexIsHeld' /\ SendingIsNewer'
  BY <1>2, HeightFrame
  DEF try_get_enclave, ReportInv, Generating, UpgradeTypeOK, oldVars, genVars,
      histVars, Advance, clientFrame
<1>3. ASSUME ecall(c) PROVE MutexIsHeld' /\ SendingIsNewer'
  BY <1>3, HeightFrame
  DEF ecall, ReportInv, Generating, UpgradeTypeOK, oldVars, genVars, histVars,
      Advance, clientFrame
<1>4. ASSUME free_enclave(c) PROVE MutexIsHeld' /\ SendingIsNewer'
  BY <1>4, HeightFrame
  DEF free_enclave, ReportInv, Generating, UpgradeTypeOK, oldVars, genVars,
      histVars, Advance, clientFrame
<1> QED
  BY <1>1, <1>2, <1>3, <1>4
  DEF clientStep

\* Order of heights: the report loop and the main loop.
LEMMA ReportLoopHeights ==
    ASSUME ReportInv, wrStep \/ mainStep
    PROVE  MutexIsHeld' /\ SendingIsNewer'
PROOF
<1> USE UpgradeAssumption
<1>1. ASSUME wr_poll PROVE MutexIsHeld' /\ SendingIsNewer'
  BY <1>1, HeightFrame
  DEF wr_poll, ReportInv, Generating, UpgradeTypeOK, oldVars, genVars,
      histVars
<1>2. ASSUME wr_ecall PROVE MutexIsHeld' /\ SendingIsNewer'
  BY <1>2, HeightFrame
  DEF wr_ecall, ReportInv, Generating, UpgradeTypeOK, oldVars, genVars,
      histVars, get_block_hash
<1>3. ASSUME wr_gen PROVE MutexIsHeld' /\ SendingIsNewer'
  <2>1. ~Sending
    BY <1>3 DEF wr_gen, Sending, ReportInv, MutexIsHeld, Generating
  <2>2. \A h \in {reports.height, upgrade_data.height, new.data.height} :
           h \in Nat /\ h <= report_height
    BY DEF ReportInv, SendingIsNewer, UpgradeTypeOK, Data
  <2>3. report_height' = report_height \/ report_height' >= report_height + REPORT_SLOT
    BY <1>3, HeightBeforeHeader DEF wr_gen, gen_work_report, ReportInv, UpgradeTypeOK
  <2>4. /\ report_height \in Nat /\ report_height' \in Nat
        /\ report_height' >= report_height
    BY <1>3, <2>3, TypeStep DEF Next, wrStep, checkStep, ReportInv, UpgradeTypeOK
  <2>5. wr'.pc = "upload" =>
           /\ report_height' = wr.height
           /\ wr.height >= report_height + REPORT_SLOT
           /\ gen_mutex' = "report"
    BY <1>3 DEF wr_gen, gen_work_report, ReportInv, UpgradeTypeOK
  <2>6. wr'.height = wr.height /\ UNCHANGED <<check, reports, upgrade_data, new>>
    BY <1>3 DEF wr_gen, gen_work_report, ReportInv, UpgradeTypeOK
  <2>7. SendingIsNewer'
    BY <2>1, <2>2, <2>4, <2>5, <2>6 DEF SendingIsNewer, Sending
  <2>8. MutexIsHeld'
    BY <1>3, <2>5, <2>6 DEF wr_gen, ReportInv, MutexIsHeld, Generating
  <2> QED
    BY <2>7, <2>8
<1>4. ASSUME wr_upload PROVE MutexIsHeld' /\ SendingIsNewer'
  BY <1>4
  DEF wr_upload, ReportInv, MutexIsHeld, SendingIsNewer, Sending, Generating,
      oldVars, genVars, histVars, UpgradeTypeOK, upload_workreport
<1>5. ASSUME wr_exit PROVE MutexIsHeld' /\ SendingIsNewer'
  BY <1>5, HeightFrame
  DEF wr_exit, ReportInv, Generating, UpgradeTypeOK, oldVars, genVars,
      histVars
<1>6. ASSUME main_turn PROVE MutexIsHeld' /\ SendingIsNewer'
  BY <1>6, HeightFrame
  DEF main_turn, ReportInv, Generating, UpgradeTypeOK, oldVars, genVars,
      histVars
<1>7. ASSUME main_exit PROVE MutexIsHeld' /\ SendingIsNewer'
  BY <1>7, HeightFrame
  DEF main_exit, ReportInv, Generating, UpgradeTypeOK, oldVars, genVars,
      histVars
<1> QED
  BY <1>1, <1>2, <1>3, <1>4, <1>5, <1>6, <1>7
  DEF wrStep, mainStep

\* Order of heights: the check loop.
LEMMA CheckLoopHeights ==
    ASSUME ReportInv, checkStep
    PROVE  MutexIsHeld' /\ SendingIsNewer'
PROOF
<1> USE UpgradeAssumption
<1>1. ASSUME check_process PROVE MutexIsHeld' /\ SendingIsNewer'
  BY <1>1, HeightFrame, CheckMoves, CheckPoints
  DEF check_process, ReportInv, Generating, UpgradeTypeOK, oldVars, genVars,
      histVars, checkFrame
<1>2. ASSUME check_end PROVE MutexIsHeld' /\ SendingIsNewer'
  BY <1>2, HeightFrame, CheckMoves, CheckPoints
  DEF check_end, ReportInv, Generating, UpgradeTypeOK, oldVars, genVars,
      histVars, checkFrame, get_block_header
<1>3. ASSUME gen_upgrade_data PROVE MutexIsHeld' /\ SendingIsNewer'
  BY <1>3, CheckMoves, CheckPoints
  DEF gen_upgrade_data, ReportInv, MutexIsHeld, SendingIsNewer, Sending,
      Generating, oldVars, genVars, histVars, UpgradeTypeOK, checkFrame,
      get_block_hash
<1>4. ASSUME gen_upgrade_report PROVE MutexIsHeld' /\ SendingIsNewer'
  <2>1. ~Sending
    BY <1>4 DEF gen_upgrade_report, Sending, ReportInv, MutexIsHeld, Generating
  <2>2. \A h \in {reports.height, upgrade_data.height, new.data.height} :
           h \in Nat /\ h <= report_height
    BY DEF ReportInv, SendingIsNewer, UpgradeTypeOK, Data
  <2>3. report_height' = report_height \/ report_height' >= report_height + REPORT_SLOT
    BY <1>4, HeightBeforeHeader DEF gen_upgrade_report, gen_work_report, ReportInv, UpgradeTypeOK
  <2>4. /\ report_height \in Nat /\ report_height' \in Nat
        /\ report_height' >= report_height
    BY <1>4, <2>3, TypeStep DEF Next, wrStep, checkStep, ReportInv, UpgradeTypeOK
  <2>5. /\ check'.pc = "upload" => report_height' >= report_height + REPORT_SLOT
        /\ check'.pc \in Generating => gen_mutex' = "check"
    BY <1>4, CheckMoves, CheckPoints, HeightBeforeHeader
    DEF gen_upgrade_report, gen_work_report, Generating, MutexIsHeld, ReportInv,
        UpgradeTypeOK
  <2>6. UNCHANGED <<wr, reports, upgrade_data, new>>
    BY <1>4 DEF gen_upgrade_report, checkFrame
  <2>7. SendingIsNewer'
    BY <2>1, <2>2, <2>4, <2>5, <2>6 DEF SendingIsNewer, Sending
  <2>8. MutexIsHeld'
    BY <2>1, <2>5, <2>6 DEF MutexIsHeld, Sending
  <2> QED
    BY <2>7, <2>8
<1>5. ASSUME gen_upgrade_upload PROVE MutexIsHeld' /\ SendingIsNewer'
  BY <1>5, CheckMoves, CheckPoints
  DEF gen_upgrade_upload, ReportInv, MutexIsHeld, SendingIsNewer, Sending,
      Generating, oldVars, genVars, histVars, UpgradeTypeOK, checkFrame,
      upload_workreport
<1>6. ASSUME gen_upgrade_snapshot PROVE MutexIsHeld' /\ SendingIsNewer'
  BY <1>6, CheckMoves, CheckPoints
  DEF gen_upgrade_snapshot, ReportInv, MutexIsHeld, SendingIsNewer, Sending,
      Generating, oldVars, genVars, histVars, UpgradeTypeOK, checkFrame, done
<1>7. ASSUME gen_upgrade_success PROVE MutexIsHeld' /\ SendingIsNewer'
  BY <1>7, CheckMoves, CheckPoints
  DEF gen_upgrade_success, ReportInv, MutexIsHeld, SendingIsNewer, Sending,
      Generating, oldVars, genVars, histVars, UpgradeTypeOK, checkFrame
<1>8. ASSUME check_complete PROVE MutexIsHeld' /\ SendingIsNewer'
  BY <1>8, HeightFrame, CheckMoves, CheckPoints
  DEF check_complete, ReportInv, Generating, UpgradeTypeOK, oldVars, genVars,
      histVars, checkFrame
<1>9. ASSUME check_tryout PROVE MutexIsHeld' /\ SendingIsNewer'
  BY <1>9, HeightFrame, CheckMoves, CheckPoints
  DEF check_tryout, ReportInv, Generating, UpgradeTypeOK, oldVars, genVars,
      histVars, checkFrame, restore_tasks
<1>10. ASSUME check_sleep PROVE MutexIsHeld' /\ SendingIsNewer'
  BY <1>10, HeightFrame, CheckMoves, CheckPoints
  DEF check_sleep, ReportInv, Generating, UpgradeTypeOK, oldVars, genVars,
      histVars, checkFrame
<1>11. ASSUME look_again("check") PROVE MutexIsHeld' /\ SendingIsNewer'
  BY <1>11, HeightFrame
  DEF look_again, ReportInv, Generating, UpgradeTypeOK, oldVars, genVars,
      histVars
<1>12. ASSUME ecall_disable_upgrade("check") PROVE MutexIsHeld' /\ SendingIsNewer'
  BY <1>12, HeightFrame
  DEF ecall_disable_upgrade, ReportInv, Generating, UpgradeTypeOK, oldVars,
      genVars, histVars
<1> QED
  BY <1>1, <1>2, <1>3, <1>4, <1>5, <1>6, <1>7, <1>8, <1>9, <1>10, <1>11, <1>12
  DEF checkStep

\* Order of heights: the handlers.
LEMMA HandlerHeights ==
    ASSUME ReportInv, handlerStep
    PROVE  MutexIsHeld' /\ SendingIsNewer'
PROOF
<1> USE UpgradeAssumption
<1>1. ASSUME ecall_enable_upgrade PROVE MutexIsHeld' /\ SendingIsNewer'
  BY <1>1, HeightFrame
  DEF ecall_enable_upgrade, ReportInv, Generating, UpgradeTypeOK, oldVars,
      genVars, histVars, newFrame, NewGoes
<1>2. ASSUME start_process PROVE MutexIsHeld' /\ SendingIsNewer'
  BY <1>2, HeightFrame
  DEF start_process, ReportInv, Generating, UpgradeTypeOK, oldVars, genVars,
      histVars, newFrame, NewGoes
<1>3. ASSUME look_again("handler") PROVE MutexIsHeld' /\ SendingIsNewer'
  BY <1>3, HeightFrame
  DEF look_again, ReportInv, Generating, UpgradeTypeOK, oldVars, genVars,
      histVars, newFrame, NewGoes
<1>4. ASSUME ecall_disable_upgrade("handler") PROVE MutexIsHeld' /\ SendingIsNewer'
  BY <1>4, HeightFrame
  DEF ecall_disable_upgrade, ReportInv, Generating, UpgradeTypeOK, oldVars,
      genVars, histVars, newFrame, NewGoes
<1> QED
  BY <1>1, <1>2, <1>3, <1>4
  DEF handlerStep

\* Order of heights: the new version.
LEMMA NewHeights ==
    ASSUME ReportInv, newStep
    PROVE  MutexIsHeld' /\ SendingIsNewer'
PROOF
<1> USE UpgradeAssumption
<1>1. ASSUME upgrade_try_start PROVE MutexIsHeld' /\ SendingIsNewer'
  BY <1>1, HeightFrame
  DEF upgrade_try_start, ReportInv, Generating, UpgradeTypeOK, oldVars,
      genVars, histVars, newFrame, NewGoes
<1>2. ASSUME get_metadata PROVE MutexIsHeld' /\ SendingIsNewer'
  BY <1>2
  DEF get_metadata, ReportInv, MutexIsHeld, SendingIsNewer, Sending,
      Generating, oldVars, genVars, histVars, UpgradeTypeOK, newFrame, NewGoes
<1>3. ASSUME restore_from_upgrade PROVE MutexIsHeld' /\ SendingIsNewer'
  BY <1>3, HeightFrame
  DEF restore_from_upgrade, ReportInv, Generating, UpgradeTypeOK, oldVars,
      genVars, histVars, newFrame, NewGoes
<1>4. ASSUME entry_network PROVE MutexIsHeld' /\ SendingIsNewer'
  BY <1>4, HeightFrame
  DEF entry_network, ReportInv, Generating, UpgradeTypeOK, oldVars, genVars,
      histVars, newFrame, NewGoes
<1>5. ASSUME new_report PROVE MutexIsHeld' /\ SendingIsNewer'
  BY <1>5
  DEF new_report, ReportInv, MutexIsHeld, SendingIsNewer, Sending, Generating,
      oldVars, genVars, histVars, UpgradeTypeOK, newFrame, NewGoes,
      upload_workreport
<1>6. ASSUME upgrade_try_complete_failed PROVE MutexIsHeld' /\ SendingIsNewer'
  BY <1>6, HeightFrame
  DEF upgrade_try_complete_failed, ReportInv, Generating, UpgradeTypeOK,
      oldVars, genVars, histVars, newFrame, NewGoes
<1>7. ASSUME upgrade_try_complete_succeeded PROVE MutexIsHeld' /\ SendingIsNewer'
  BY <1>7, HeightFrame
  DEF upgrade_try_complete_succeeded, ReportInv, Generating, UpgradeTypeOK,
      oldVars, genVars, histVars, newFrame, NewGoes
<1>8. ASSUME initialize_components PROVE MutexIsHeld' /\ SendingIsNewer'
  BY <1>8, HeightFrame
  DEF initialize_components, ReportInv, Generating, UpgradeTypeOK, oldVars,
      genVars, histVars, newFrame, NewGoes
<1> QED
  BY <1>1, <1>2, <1>3, <1>4, <1>5, <1>6, <1>7, <1>8
  DEF newStep

\* ReportInv is inductive.
LEMMA ReportStep ==
    ASSUME ReportInv, [Next]_vars
    PROVE  ReportInv'
PROOF
<1>1. CASE UNCHANGED vars \/ next_block
  BY <1>1, HeightFrame, TypeStep
  DEF vars, next_block, oldVars, genVars, histVars, ReportInv, UpgradeTypeOK
<1> QED
  BY <1>1, TypeStep, ClientHeights, ReportLoopHeights, CheckLoopHeights,
     HandlerHeights, NewHeights
  DEF Next, ReportInv

\* ReportInv holds in every reachable state.
THEOREM ReportInvariant == Spec => []ReportInv
PROOF
<1> QED
  BY ReportInit, ReportStep, PTL DEF Spec

\* Whatever the check loop, the report loop, the handlers, the clients and the
\* new version do, every variable keeps its type; in particular the tries of
\* process_run never run below zero, and no height is beyond the chain.
THEOREM UpgradeTypes == Spec => []UpgradeTypeOK
PROOF
<1>1. ReportInv => UpgradeTypeOK
  BY DEF ReportInv
<1> QED
  BY <1>1, ReportInvariant, PTL

\* The report loop and id_gen_upgrade_data never send a height twice, nor an
\* older one after a newer one, for any number of upgrades, faults and blocks.
THEOREM OldReportsAscend == Spec => ReportsAscend
PROOF
<1>1. ASSUME ReportInv, [Next]_vars, reports' # reports, reports'.key = "old"
      PROVE  reports'.height > reports.height
  <2>1. CASE wr_upload
    <3>1. reports'.height = wr.height
      BY <1>1, <2>1 DEF wr_upload, upload_workreport
    <3>2. /\ wr.height = report_height /\ reports.height < report_height
          /\ reports.height \in Nat /\ report_height \in Nat
      BY <1>1, <2>1
      DEF wr_upload, ReportInv, SendingIsNewer, Sending, UpgradeTypeOK
    <3> QED
      BY <3>1, <3>2
  <2>2. CASE gen_upgrade_upload
    <3>1. reports'.height = report_height
      BY <1>1, <2>2 DEF gen_upgrade_upload, upload_workreport
    <3>2. /\ reports.height < report_height
          /\ reports.height \in Nat /\ report_height \in Nat
      BY <1>1, <2>2
      DEF gen_upgrade_upload, ReportInv, SendingIsNewer, Sending, UpgradeTypeOK
    <3> QED
      BY <3>1, <3>2
  <2>3. CASE new_report
    BY <1>1, <2>3 DEF new_report, upload_workreport
  <2> QED
    BY <1>1, <2>1, <2>2, <2>3
    DEF Next, clientStep, wrStep, mainStep, checkStep, handlerStep, newStep,
        http_handler, try_get_enclave, ecall, free_enclave, Advance, clientFrame,
        wr_poll, wr_ecall, wr_gen, wr_exit, main_turn, main_exit,
        check_process, check_end, gen_upgrade_data, gen_upgrade_report,
        gen_upgrade_snapshot, gen_upgrade_success, check_complete, check_tryout,
        check_sleep, look_again, ecall_disable_upgrade, ecall_enable_upgrade,
        start_process, upgrade_try_start, get_metadata, restore_from_upgrade,
        entry_network, upgrade_try_complete_failed,
        upgrade_try_complete_succeeded, initialize_components, next_block,
        genVars, vars
<1> QED
  BY <1>1, ReportInvariant, PTL DEF Spec, ReportsAscend

-----------------------------------------------------------------------------
(* The status of the old version, and the progress of the new one *)

\* The new version has the data and has not told the old one how it went.
InHand == {"init", "enter", "report", "succeeded"}

\* The check loop makes the data, or has made them and not said so.
Making == {"gen", "report", "upload", "snapshot", "success", "complete"}

LeavingInv ==
    /\ handler # "idle" => new.pc = "starting"
    /\ check.pc \in Making => upgrade_status \notin {"COMPLETE", "EXIT"}
    /\ new.pc \in InHand /\ ~expired => upgrade_status = "COMPLETE"
    /\ new.pc \in {"wait_old", "running"} /\ new.told /\ ~expired =>
          upgrade_status = "EXIT"
    /\ new.told => new.pc \in {"wait_old", "running"}
    /\ metadata # "kept" => new.told

\* A step that leaves both versions' progress alone keeps LeavingInv.
LEMMA LeavingFrame ==
    ASSUME LeavingInv, check'.pc \in Making => check.pc \in Making,
           UNCHANGED <<upgrade_status, handler, new, expired, metadata>>
    PROVE  LeavingInv'
PROOF
<1> QED
  BY DEF LeavingInv

\* LeavingInv: the loops beside the check loop, and the clients.
LEMMA LeavingClients ==
    ASSUME ReportInv, LeavingInv,
           (\E c \in Client : clientStep(c)) \/ wrStep \/ mainStep
    PROVE  LeavingInv'
PROOF
<1>1. ASSUME NEW c \in Client, clientStep(c) PROVE LeavingInv'
  BY <1>1, LeavingFrame
  DEF clientStep, http_handler, try_get_enclave, ecall, free_enclave, Advance,
      clientFrame, oldVars, genVars, histVars
<1>2. ASSUME wrStep PROVE LeavingInv'
  BY <1>2, LeavingFrame
  DEF wrStep, wr_poll, wr_ecall, wr_gen, wr_upload, wr_exit, oldVars, genVars,
      histVars
<1>3. ASSUME mainStep PROVE LeavingInv'
  BY <1>3, LeavingFrame
  DEF mainStep, main_turn, main_exit, oldVars, genVars, histVars
<1> QED
  BY <1>1, <1>2, <1>3

\* LeavingInv: the check loop.
LEMMA LeavingCheckLoop ==
    ASSUME ReportInv, LeavingInv, checkStep
    PROVE  LeavingInv'
PROOF
<1>1. ASSUME check_process PROVE LeavingInv'
  BY <1>1, CheckMoves, CheckPoints
  DEF check_process, LeavingInv, InHand, Making, ReportInv, UpgradeTypeOK,
      oldVars, genVars, histVars, checkFrame, set_upgrade_status
<1>2. ASSUME check_end PROVE LeavingInv'
  BY <1>2, CheckMoves, CheckPoints
  DEF check_end, LeavingInv, InHand, Making, ReportInv, UpgradeTypeOK,
      oldVars, genVars, histVars, checkFrame, set_upgrade_status,
      get_block_header
<1>3. ASSUME gen_upgrade_data PROVE LeavingInv'
  BY <1>3, CheckMoves, CheckPoints
  DEF gen_upgrade_data, LeavingInv, InHand, Making, ReportInv, UpgradeTypeOK,
      oldVars, genVars, histVars, checkFrame, set_upgrade_status,
      get_block_hash
<1>4. ASSUME gen_upgrade_report PROVE LeavingInv'
  BY <1>4, CheckMoves, CheckPoints
  DEF gen_upgrade_report, LeavingInv, InHand, Making, ReportInv,
      UpgradeTypeOK, oldVars, genVars, histVars, checkFrame,
      set_upgrade_status, gen_work_report
<1>5. ASSUME gen_upgrade_upload PROVE LeavingInv'
  BY <1>5, CheckMoves, CheckPoints
  DEF gen_upgrade_upload, LeavingInv, InHand, Making, ReportInv,
      UpgradeTypeOK, oldVars, genVars, histVars, checkFrame,
      set_upgrade_status, upload_workreport
<1>6. ASSUME gen_upgrade_snapshot PROVE LeavingInv'
  BY <1>6, CheckMoves, CheckPoints
  DEF gen_upgrade_snapshot, LeavingInv, InHand, Making, ReportInv,
      UpgradeTypeOK, oldVars, genVars, histVars, checkFrame,
      set_upgrade_status
<1>7. ASSUME gen_upgrade_success PROVE LeavingInv'
  BY <1>7, CheckMoves, CheckPoints
  DEF gen_upgrade_success, LeavingInv, InHand, Making, ReportInv,
      UpgradeTypeOK, oldVars, genVars, histVars, checkFrame,
      set_upgrade_status
<1>8. ASSUME check_complete PROVE LeavingInv'
  BY <1>8, CheckMoves, CheckPoints
  DEF check_complete, LeavingInv, InHand, Making, ReportInv, UpgradeTypeOK,
      oldVars, genVars, histVars, checkFrame, set_upgrade_status
<1>9. ASSUME check_tryout PROVE LeavingInv'
  BY <1>9, CheckMoves, CheckPoints
  DEF check_tryout, LeavingInv, InHand, Making, ReportInv, UpgradeTypeOK,
      oldVars, genVars, histVars, checkFrame, set_upgrade_status
<1>10. ASSUME check_sleep PROVE LeavingInv'
  BY <1>10, CheckMoves, CheckPoints
  DEF check_sleep, LeavingInv, InHand, Making, ReportInv, UpgradeTypeOK,
      oldVars, genVars, histVars, checkFrame, set_upgrade_status
<1>11. ASSUME look_again("check") PROVE LeavingInv'
  BY <1>11, LeavingFrame
  DEF look_again, oldVars, genVars, histVars
<1>12. ASSUME ecall_disable_upgrade("check") PROVE LeavingInv'
  BY <1>12, LeavingFrame
  DEF ecall_disable_upgrade, oldVars, genVars, histVars
<1> QED
  BY <1>1, <1>2, <1>3, <1>4, <1>5, <1>6, <1>7, <1>8, <1>9, <1>10, <1>11, <1>12
  DEF checkStep

\* LeavingInv: the handlers and the new version.
LEMMA LeavingNew ==
    ASSUME ReportInv, LeavingInv, handlerStep \/ newStep
    PROVE  LeavingInv'
PROOF
<1>1. ASSUME ecall_enable_upgrade PROVE LeavingInv'
  BY <1>1
  DEF ecall_enable_upgrade, LeavingInv, InHand, Making, ReportInv,
      UpgradeTypeOK, oldVars, genVars, histVars, newFrame, NewAt, NewGoes,
      set_upgrade_status
<1>2. ASSUME start_process PROVE LeavingInv'
  BY <1>2
  DEF start_process, LeavingInv, InHand, Making, ReportInv, UpgradeTypeOK,
      oldVars, genVars, histVars, newFrame, NewAt, NewGoes, set_upgrade_status
<1>3. ASSUME look_again("handler") PROVE LeavingInv'
  BY <1>3, LeavingFrame
  DEF look_again, oldVars, genVars, histVars
<1>4. ASSUME ecall_disable_upgrade("handler") PROVE LeavingInv'
  BY <1>4, LeavingFrame
  DEF ecall_disable_upgrade, oldVars, genVars, histVars
<1>5. ASSUME upgrade_try_start PROVE LeavingInv'
  BY <1>5
  DEF upgrade_try_start, LeavingInv, InHand, Making, ReportInv, UpgradeTypeOK,
      oldVars, genVars, histVars, newFrame, NewAt, NewGoes, set_upgrade_status
<1>6. ASSUME get_metadata PROVE LeavingInv'
  BY <1>6
  DEF get_metadata, LeavingInv, InHand, Making, ReportInv, UpgradeTypeOK,
      oldVars, genVars, histVars, newFrame, NewAt, NewGoes, set_upgrade_status
<1>7. ASSUME restore_from_upgrade PROVE LeavingInv'
  BY <1>7
  DEF restore_from_upgrade, LeavingInv, InHand, Making, ReportInv,
      UpgradeTypeOK, oldVars, genVars, histVars, newFrame, NewAt, NewGoes,
      set_upgrade_status
<1>8. ASSUME entry_network PROVE LeavingInv'
  BY <1>8
  DEF entry_network, LeavingInv, InHand, Making, ReportInv, UpgradeTypeOK,
      oldVars, genVars, histVars, newFrame, NewAt, NewGoes, set_upgrade_status
<1>9. ASSUME new_report PROVE LeavingInv'
  BY <1>9
  DEF new_report, upload_workreport, LeavingInv, InHand, Making, ReportInv, UpgradeTypeOK,
      oldVars, genVars, histVars, newFrame, NewAt, NewGoes, set_upgrade_status
<1>10. ASSUME upgrade_try_complete_failed PROVE LeavingInv'
  BY <1>10
  DEF upgrade_try_complete_failed, LeavingInv, InHand, Making, ReportInv,
      UpgradeTypeOK, oldVars, genVars, histVars, newFrame, NewAt, NewGoes,
      set_upgrade_status
<1>11. ASSUME upgrade_try_complete_succeeded PROVE LeavingInv'
  BY <1>11
  DEF upgrade_try_complete_succeeded, LeavingInv, InHand, Making, ReportInv,
      UpgradeTypeOK, oldVars, genVars, histVars, newFrame, NewAt, NewGoes,
      set_upgrade_status
<1>12. ASSUME initialize_components PROVE LeavingInv'
  BY <1>12
  DEF initialize_components, LeavingInv, InHand, Making, ReportInv,
      UpgradeTypeOK, oldVars, genVars, histVars, newFrame, NewAt, NewGoes,
      set_upgrade_status
<1> QED
  BY <1>1, <1>2, <1>3, <1>4, <1>5, <1>6, <1>7, <1>8, <1>9, <1>10, <1>11, <1>12
  DEF handlerStep, newStep


\* LeavingInv is inductive.
LEMMA LeavingStep ==
    ASSUME ReportInv, LeavingInv, [Next]_vars
    PROVE  LeavingInv'
PROOF
<1>1. CASE UNCHANGED vars \/ next_block
  BY <1>1, LeavingFrame DEF vars, next_block, oldVars, genVars, histVars
<1> QED
  BY <1>1, LeavingClients, LeavingCheckLoop, LeavingNew DEF Next

\* LeavingInv holds in every reachable state.
THEOREM LeavingInvariant == Spec => []LeavingInv
PROOF
<1>1. Init => LeavingInv
  BY DEF Init, LeavingInv, InHand, Making
<1> QED
  BY <1>1, LeavingStep, ReportInvariant, PTL DEF Spec

\* A new version whose message arrived waits for a process that will exit, or
\* that gave the upgrade up: upgrade_try_complete answers 200 in any status, but
\* is only reached in COMPLETE.
THEOREM LeavingIsAwaited == Spec => []WaitsForTheLeaving
PROOF
<1>1. LeavingInv => WaitsForTheLeaving
  BY DEF LeavingInv, WaitsForTheLeaving
<1> QED
  BY <1>1, LeavingInvariant, PTL

-----------------------------------------------------------------------------
(* The requests of the clients *)

\* Unless a status was set over another, the enclave refuses requests from
\* PROCESS on, none is being carried out from END on, and what was carried out
\* is in the data: in the app's once they are made, in the new version's once
\* it has them.
QuietInv ==
    ~crossed =>
        /\ upgrade_status \in {"PROCESS", "END", "COMPLETE", "EXIT"} =>
              enc_status # "NONE"
        /\ upgrade_status \in {"END", "COMPLETE", "EXIT"} =>
              \A c \in Client : client[c] # "working"
        /\ \/ upgrade_status = "END" /\ check.pc \in {"success", "complete"}
           \/ upgrade_status \in {"COMPLETE", "EXIT"}
           => done \subseteq upgrade_data.ops
        /\ new.pc \in InHand /\ ~expired => done \subseteq new.data.ops
        /\ HandoverKeepsAcked


\* A step that leaves statuses, requests and data alone keeps QuietInv.
LEMMA QuietFrame ==
    ASSUME QuietInv,
           check'.pc \in {"success", "complete"} => check.pc \in {"success", "complete"},
           UNCHANGED <<upgrade_status, enc_status, client, upgrade_data, new,
                       expired, crossed, metadata>>
    PROVE  QuietInv'
PROOF
<1> QED
  BY DEF QuietInv, HandoverKeepsAcked, done

\* When get_upgrade_ecalls_num is zero nobody is inside.
LEMMA NobodyInside ==
    ASSUME get_upgrade_ecalls_num = 0
    PROVE  \A c \in Client : client[c] \notin {"inside", "working"}
PROOF
<1> DEFINE S == {c \in Client : client[c] \in {"inside", "working"}}
<1>1. IsFiniteSet(S)
  BY FS_Subset, UpgradeAssumption
<1>2. S = {}
  BY <1>1, FS_EmptySet DEF get_upgrade_ecalls_num
<1> QED
  BY <1>2

\* QuietInv: the clients.
LEMMA QuietClients ==
    ASSUME ReportInv, LeavingInv, QuietInv,
           NEW c \in Client, clientStep(c)
    PROVE  QuietInv'
PROOF
<1>1. ASSUME http_handler(c) PROVE QuietInv'
  BY <1>1
  DEF http_handler, QuietInv, HandoverKeepsAcked, LeavingInv, InHand, Making,
      done, ReportInv, UpgradeTypeOK, oldVars, genVars, histVars, Advance,
      clientFrame
<1>2. ASSUME try_get_enclave(c) PROVE QuietInv'
  BY <1>2
  DEF try_get_enclave, QuietInv, HandoverKeepsAcked, LeavingInv, InHand,
      Making, done, ReportInv, UpgradeTypeOK, oldVars, genVars, histVars,
      Advance, clientFrame
<1>3. ASSUME ecall(c) PROVE QuietInv'
  BY <1>3
  DEF ecall, QuietInv, HandoverKeepsAcked, LeavingInv, InHand, Making, done,
      ReportInv, UpgradeTypeOK, oldVars, genVars, histVars, Advance,
      clientFrame
<1>4. ASSUME free_enclave(c) PROVE QuietInv'
  BY <1>4
  DEF free_enclave, QuietInv, HandoverKeepsAcked, LeavingInv, InHand, Making,
      done, ReportInv, UpgradeTypeOK, oldVars, genVars, histVars, Advance,
      clientFrame
<1> QED
  BY <1>1, <1>2, <1>3, <1>4
  DEF clientStep

\* QuietInv: the report loop and the main loop.
LEMMA QuietLoops ==
    ASSUME ReportInv, LeavingInv, QuietInv, wrStep \/ mainStep
    PROVE  QuietInv'
PROOF
<1>1. ASSUME wrStep PROVE QuietInv'
  BY <1>1, QuietFrame
  DEF wrStep, wr_poll, wr_ecall, wr_gen, wr_upload, wr_exit, oldVars, genVars,
      histVars
<1>2. ASSUME mainStep PROVE QuietInv'
  BY <1>2, QuietFrame
  DEF mainStep, main_turn, main_exit, oldVars, genVars, histVars
<1> QED
  BY <1>1, <1>2

\* QuietInv: the check loop.
LEMMA QuietCheckLoop ==
    ASSUME ReportInv, LeavingInv, QuietInv, checkStep
    PROVE  QuietInv'
PROOF
<1>1. ASSUME check_process PROVE QuietInv'
  BY <1>1, CheckMoves, CheckPoints, NobodyInside
  DEF check_process, QuietInv, HandoverKeepsAcked, LeavingInv, InHand, Making,
      done, ReportInv, UpgradeTypeOK, oldVars, genVars, histVars, checkFrame,
      set_upgrade_status
<1>2. ASSUME check_end PROVE QuietInv'
  BY <1>2, QuietFrame, CheckMoves, CheckPoints
  DEF check_end, oldVars, genVars, histVars, checkFrame, ReportInv,
      get_block_header
<1>3. ASSUME gen_upgrade_data PROVE QuietInv'
  BY <1>3, QuietFrame, CheckMoves, CheckPoints
  DEF gen_upgrade_data, oldVars, genVars, histVars, checkFrame, ReportInv,
      get_block_hash
<1>4. ASSUME gen_upgrade_report PROVE QuietInv'
  BY <1>4, QuietFrame, CheckMoves, CheckPoints
  DEF gen_upgrade_report, oldVars, genVars, histVars, checkFrame, ReportInv,
      gen_work_report
<1>5. ASSUME gen_upgrade_upload PROVE QuietInv'
  BY <1>5, QuietFrame, CheckMoves, CheckPoints
  DEF gen_upgrade_upload, oldVars, genVars, histVars, checkFrame, ReportInv,
      upload_workreport
<1>6. ASSUME gen_upgrade_snapshot PROVE QuietInv'
  BY <1>6, CheckMoves, CheckPoints
  DEF gen_upgrade_snapshot, QuietInv, HandoverKeepsAcked, LeavingInv, InHand,
      Making, done, ReportInv, UpgradeTypeOK, oldVars, genVars, histVars,
      checkFrame, set_upgrade_status
<1>7. ASSUME gen_upgrade_success PROVE QuietInv'
  BY <1>7, CheckMoves, CheckPoints
  DEF gen_upgrade_success, QuietInv, HandoverKeepsAcked, LeavingInv, InHand,
      Making, done, ReportInv, UpgradeTypeOK, oldVars, genVars, histVars,
      checkFrame, set_upgrade_status
<1>8. ASSUME check_complete PROVE QuietInv'
  BY <1>8, CheckMoves, CheckPoints
  DEF check_complete, QuietInv, HandoverKeepsAcked, LeavingInv, InHand,
      Making, done, ReportInv, UpgradeTypeOK, oldVars, genVars, histVars,
      checkFrame, set_upgrade_status
<1>9. ASSUME check_tryout PROVE QuietInv'
  BY <1>9, CheckMoves, CheckPoints
  DEF check_tryout, QuietInv, HandoverKeepsAcked, LeavingInv, InHand, Making,
      done, ReportInv, UpgradeTypeOK, oldVars, genVars, histVars, checkFrame,
      set_upgrade_status
<1>10. ASSUME check_sleep PROVE QuietInv'
  BY <1>10, QuietFrame, CheckMoves, CheckPoints
  DEF check_sleep, oldVars, genVars, histVars, checkFrame, ReportInv
<1>11. ASSUME look_again("check") PROVE QuietInv'
  BY <1>11, QuietFrame
  DEF look_again, oldVars, genVars, histVars
<1>12. ASSUME ecall_disable_upgrade("check") PROVE QuietInv'
  BY <1>12
  DEF ecall_disable_upgrade, QuietInv, HandoverKeepsAcked, LeavingInv, InHand,
      Making, done, ReportInv, UpgradeTypeOK, oldVars, genVars, histVars
<1> QED
  BY <1>1, <1>2, <1>3, <1>4, <1>5, <1>6, <1>7, <1>8, <1>9, <1>10, <1>11, <1>12
  DEF checkStep

\* QuietInv: the handlers and the new version.
LEMMA QuietNew ==
    ASSUME ReportInv, LeavingInv, QuietInv, handlerStep \/ newStep
    PROVE  QuietInv'
PROOF
<1>1. ASSUME ecall_enable_upgrade PROVE QuietInv'
  BY <1>1
  DEF ecall_enable_upgrade, QuietInv, HandoverKeepsAcked, LeavingInv, InHand,
      Making, done, ReportInv, UpgradeTypeOK, oldVars, genVars, histVars,
      newFrame, NewAt, NewGoes, set_upgrade_status
<1>2. ASSUME start_process PROVE QuietInv'
  <2>1. /\ upgrade_status' = "PROCESS" /\ new'.pc \in {"metadata", "start"}
        /\ crossed' = (crossed \/ enc_status = "NONE") /\ enc_status' = enc_status
    BY <1>2
    DEF start_process, set_upgrade_status, NewGoes, ReportInv, UpgradeTypeOK
  <2>2. UNCHANGED <<metadata, expired, client>> /\ new'.data = new.data
    BY <1>2
    DEF start_process, NewGoes, genVars, newFrame, ReportInv, UpgradeTypeOK
  <2>3. ~crossed' => HandoverKeepsAcked'
    BY <2>1, <2>2 DEF QuietInv, HandoverKeepsAcked, done
  <2> QED
    BY <2>1, <2>3 DEF QuietInv, InHand
<1>3. ASSUME look_again("handler") PROVE QuietInv'
  BY <1>3, QuietFrame
  DEF look_again, oldVars, genVars, histVars
<1>4. ASSUME ecall_disable_upgrade("handler") PROVE QuietInv'
  BY <1>4
  DEF ecall_disable_upgrade, QuietInv, HandoverKeepsAcked, LeavingInv, InHand,
      Making, done, ReportInv, UpgradeTypeOK, oldVars, genVars, histVars
<1>5. ASSUME upgrade_try_start PROVE QuietInv'
  BY <1>5
  DEF upgrade_try_start, QuietInv, HandoverKeepsAcked, LeavingInv, InHand,
      Making, done, ReportInv, UpgradeTypeOK, oldVars, genVars, histVars,
      newFrame, NewAt, NewGoes, set_upgrade_status
<1>6. ASSUME get_metadata PROVE QuietInv'
  BY <1>6
  DEF get_metadata, QuietInv, HandoverKeepsAcked, LeavingInv, InHand, Making,
      done, ReportInv, UpgradeTypeOK, oldVars, genVars, histVars, newFrame,
      NewAt, NewGoes, set_upgrade_status
<1>7. ASSUME restore_from_upgrade PROVE QuietInv'
  BY <1>7
  DEF restore_from_upgrade, QuietInv, HandoverKeepsAcked, LeavingInv, InHand,
      Making, done, ReportInv, UpgradeTypeOK, oldVars, genVars, histVars,
      newFrame, NewAt, NewGoes, set_upgrade_status
<1>8. ASSUME entry_network PROVE QuietInv'
  BY <1>8
  DEF entry_network, QuietInv, HandoverKeepsAcked, LeavingInv, InHand, Making,
      done, ReportInv, UpgradeTypeOK, oldVars, genVars, histVars, newFrame,
      NewAt, NewGoes, set_upgrade_status
<1>9. ASSUME new_report PROVE QuietInv'
  BY <1>9
  DEF new_report, QuietInv, HandoverKeepsAcked, LeavingInv, InHand, Making,
      done, ReportInv, UpgradeTypeOK, oldVars, genVars, histVars, newFrame,
      NewAt, NewGoes, set_upgrade_status, upload_workreport
<1>10. ASSUME upgrade_try_complete_failed PROVE QuietInv'
  BY <1>10
  DEF upgrade_try_complete_failed, QuietInv, HandoverKeepsAcked, LeavingInv,
      InHand, Making, done, ReportInv, UpgradeTypeOK, oldVars, genVars,
      histVars, newFrame, NewAt, NewGoes, set_upgrade_status
<1>11. ASSUME upgrade_try_complete_succeeded PROVE QuietInv'
  BY <1>11
  DEF upgrade_try_complete_succeeded, QuietInv, HandoverKeepsAcked,
      LeavingInv, InHand, Making, done, ReportInv, UpgradeTypeOK, oldVars,
      genVars, histVars, newFrame, NewAt, NewGoes, set_upgrade_status
<1>12. ASSUME initialize_components PROVE QuietInv'
  BY <1>12
  DEF initialize_components, QuietInv, HandoverKeepsAcked, LeavingInv, InHand,
      Making, done, ReportInv, UpgradeTypeOK, oldVars, genVars, histVars,
      newFrame, NewAt, NewGoes, set_upgrade_status
<1> QED
  BY <1>1, <1>2, <1>3, <1>4, <1>5, <1>6, <1>7, <1>8, <1>9, <1>10, <1>11, <1>12
  DEF handlerStep, newStep

\* QuietInv is inductive.
LEMMA QuietStep ==
    ASSUME ReportInv, LeavingInv, QuietInv, [Next]_vars
    PROVE  QuietInv'
PROOF
<1>1. CASE UNCHANGED vars \/ next_block
  BY <1>1, QuietFrame DEF vars, next_block, oldVars, genVars, histVars
<1> QED
  BY <1>1, QuietClients, QuietLoops, QuietCheckLoop, QuietNew DEF Next

\* What a client was told is done is in the data the new version took over, for
\* any number of clients, wherever their requests stood when the upgrade began
\* and however often it was tried: unless the old version gave the upgrade up
\* or a status was set over one that had been set meanwhile.
THEOREM AckedIsHandedOver == Spec => []HandoverKeepsAcked
PROOF
<1>1. Init => QuietInv
  BY DEF Init, QuietInv, HandoverKeepsAcked, InHand
<1>2. Spec => []QuietInv
  BY <1>1, QuietStep, ReportInvariant, LeavingInvariant, PTL DEF Spec
<1>3. QuietInv => HandoverKeepsAcked
  BY DEF QuietInv, HandoverKeepsAcked
<1> QED
  BY <1>2, <1>3, PTL

=============================================================================
