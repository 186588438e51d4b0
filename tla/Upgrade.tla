------------------------------- MODULE Upgrade -------------------------------
(***************************************************************************)
(* The upgrade of a running version ("old") by a newly started one         *)
(* ("new").  The new version asks the old one over HTTP to get ready,      *)
(* fetches its workload, enters the network with it, sends the first work  *)
(* report and tells the old one to exit.  The old version takes part with  *)
(* four threads: the web handler, the check loop of process_run, the       *)
(* work-report loop and the main loop; clients' requests run beside them.  *)
(*                                                                         *)
(* A step is a critical section, an ecall or a request.  The status of the *)
(* app and the status of the enclave are set one after the other, and both *)
(* may change between a look at them and the step that relies on it.       *)
(*                                                                         *)
(* The old version has passed its first slot, so its restart flag is down. *)
(* A handler ends before the new version, which sleeps 30 seconds after a  *)
(* failure, sends its next request.                                        *)
(***************************************************************************)
EXTENDS Integers, FiniteSets

CONSTANTS
    Client,            \* clients with a request that an upgrade must wait for
    REPORT_SLOT,
    LowerLimit,        \* REPORT_INTERVAL_BLCOK_NUMBER_LOWER_LIMIT
    UpgradeTryout,     \* turns of the check loop before an upgrade is given up
    RestoreTryout,     \* restore_tryout of upgrade_try_restore
    FirstBlock, MaxBlock, \* bounds: the blocks of the chain
    MaxFaults          \* bound: failures of the outside world

ASSUME UpgradeAssumption ==
    /\ IsFiniteSet(Client)
    /\ REPORT_SLOT \in Nat \ {0}
    /\ LowerLimit \in 1..REPORT_SLOT
    /\ UpgradeTryout \in Nat
    /\ RestoreTryout \in Nat \ {0}
    /\ FirstBlock \in Nat /\ MaxBlock \in Nat
    /\ FirstBlock >= REPORT_SLOT /\ FirstBlock <= MaxBlock
    /\ MaxFaults \in Nat

VARIABLES
    upgrade_status,    \* EnclaveData::upgrade_status of the old app
    enc_status,        \* Workload::upgrade_status of the old enclave
    disable,           \* per thread: what is left of set_upgrade_status(NONE)
    check,             \* process_run: next step and block header
    upgrade_tryout,    \* process_run: turns left
    handler,           \* web handler: next step
    tasks,             \* g_tasks_m: the loops that are running
    wr,                \* work_report_loop: next step, target and own height
    gen_mutex,         \* holder of g_gen_work_report
    report_height,     \* of the old enclave
    validated,         \* report_has_validated_proof of the old enclave
    client,            \* progress of the clients' requests
    upgrade_data,      \* EnclaveData::upgrade_data
    metadata,          \* ID_METADATA of the database
    new,               \* the new version: next step, data, tries left
    block,             \* the chain: latest block
    reports,           \* the chain: the latest report accepted; turn alternates
    faults,            \* failures so far
    expired,           \* history: the old version gave up an upgrade
    crossed            \* history: a status was set over one set meanwhile

oldVars == <<upgrade_status, enc_status, disable>>
genVars == <<gen_mutex, report_height, validated, reports>>
histVars == <<expired, crossed>>
vars == <<oldVars, check, upgrade_tryout, handler, tasks, wr, genVars, client,
          upgrade_data, metadata, new, block, faults, histVars>>

NoData == [ops |-> {}, height |-> 0]
Status == {"NONE", "STOP_WORKREPORT", "PROCESS", "END", "COMPLETE", "EXIT"}
EncStatus == {"NONE", "PROCESS", "SUCCESS"}
Thread == {"check", "handler"}
CheckPc == {"turn", "end", "gen", "report", "upload", "snapshot", "success",
            "complete", "tryout", "sleep", "gone"}
HandlerPc == {"idle", "enable", "process"}
NewPc == {"start", "starting", "metadata", "init", "enter",
          "report", "succeeded", "failed", "wait_old", "running"}

\* What is handed over: the table of files and the list of srd, here the
\* requests that have changed them, and the height of the last report.
Data == [ops : SUBSET Client, height : 0..MaxBlock]

done == {c \in Client : client[c] = "done"}

-----------------------------------------------------------------------------
(* Upgrade status of the old version.                                       *)

\* Setting the status the app already has does nothing.  With NONE the status
\* is read again, and the enclave told, after the mutex has been released.
set_upgrade_status(t, s) ==
    /\ upgrade_status' = s
    /\ disable' = [disable EXCEPT ![t] =
                      IF s = "NONE" /\ upgrade_status # "NONE" THEN "look"
                      ELSE "no"]

Ready(t) == disable[t] = "no"

look_again(t) ==
    /\ disable[t] = "look"
    /\ disable' = [disable EXCEPT ![t] =
                      IF upgrade_status = "NONE" THEN "call" ELSE "no"]
    /\ UNCHANGED <<upgrade_status, enc_status, check, upgrade_tryout, handler,
                   tasks, wr, genVars, client, upgrade_data, metadata, new,
                   block, faults, histVars>>

\* Mutant: giving up an upgrade leaves the enclave as it is.
ecall_disable_upgrade_forgotten(t) ==
    /\ disable[t] = "call"
    /\ disable' = [disable EXCEPT ![t] = "no"]
    /\ UNCHANGED <<upgrade_status, enc_status, check, upgrade_tryout, handler,
                   tasks, wr, genVars, client, upgrade_data, metadata, new,
                   block, faults, histVars>>

ecall_disable_upgrade(t) ==
    /\ disable[t] = "call"
    /\ enc_status' = "NONE"
    /\ disable' = [disable EXCEPT ![t] = "no"]
    /\ crossed' = (crossed \/ upgrade_status \notin {"NONE", "STOP_WORKREPORT"})
    /\ UNCHANGED <<upgrade_status, check, upgrade_tryout, handler, tasks, wr,
                   genVars, client, upgrade_data, metadata, new, block, faults,
                   expired>>

-----------------------------------------------------------------------------
(* Requests of clients (sealing, deleting, srd): the route is refused during *)
(* an upgrade, the ecall is counted by the queue, and the enclave looks at   *)
(* its own status before it works.                                           *)

clientFrame == <<oldVars, check, upgrade_tryout, handler, tasks, wr, genVars,
                 upgrade_data, metadata, new, block, faults, histVars>>

Advance(c, from, to) ==
    /\ client[c] = from
    /\ client' = [client EXCEPT ![c] = to]
    /\ UNCHANGED clientFrame

http_handler(c) ==
    /\ check.pc # "gone"
    /\ Advance(c, "idle", IF upgrade_status \in {"NONE", "STOP_WORKREPORT"}
                          THEN "passed" ELSE "refused")

try_get_enclave(c) == Advance(c, "passed", "inside")

\* Mutant: the enclave does not look at its status.
ecall_unguarded(c) == Advance(c, "inside", "working")

ecall(c) == Advance(c, "inside", IF enc_status = "NONE" THEN "working"
                                 ELSE "refused")

free_enclave(c) == Advance(c, "working", "done")

get_upgrade_ecalls_num ==
    Cardinality({c \in Client : client[c] \in {"inside", "working"}})

-----------------------------------------------------------------------------
(* Work reports of the old enclave.                                          *)

\* The chain tells its latest block, or the hash of one; the request may fail.
get_block_header(ok, failed) ==
    \/ ok /\ UNCHANGED faults
    \/ faults < MaxFaults /\ faults' = faults + 1 /\ failed

get_block_hash(ok, failed) ==
    \/ ok /\ UNCHANGED faults
    \/ faults < MaxFaults /\ faults' = faults + 1 /\ failed

can_report_work ==
    /\ block >= REPORT_SLOT + report_height + LowerLimit
    /\ validated

\* Mutant: the height is not compared with that of the last report.
gen_work_report_again(h, ok, failed) ==
    /\ report_height' = h
    /\ validated' = FALSE
    /\ IF validated THEN ok ELSE failed

\* gen_work_report: an expired height is refused at once; otherwise the height
\* is kept and the proofs are used up, whether a report comes out or not.
gen_work_report(h, ok, failed) ==
    IF h = 0 \/ report_height + REPORT_SLOT > h
    THEN failed /\ UNCHANGED <<report_height, validated>>
    ELSE /\ report_height' = h
         /\ validated' = FALSE
         /\ IF validated THEN ok ELSE failed

\* The chain answers, refuses, or takes the report while the answer is lost.
upload_workreport(key, h, ok, failed) ==
    LET accepted == [key |-> key, height |-> h, turn |-> 1 - reports.turn] IN
    \/ reports' = accepted /\ ok /\ UNCHANGED faults
    \/ /\ faults < MaxFaults
       /\ faults' = faults + 1
       /\ reports' \in {reports, accepted}
       /\ failed

\* The loop waits for its target block, and during STOP_WORKREPORT for a
\* while; the time it waits in the slot is left open.
wr_poll ==
    /\ "report" \in tasks /\ wr.pc = "poll"
    /\ upgrade_status # "EXIT"
    /\ block >= wr.target
    /\ wr' = [wr EXCEPT !.pc = "wait",
                        !.height = (block \div REPORT_SLOT) * REPORT_SLOT]
    /\ UNCHANGED <<oldVars, check, upgrade_tryout, handler, tasks, genVars,
                   client, upgrade_data, metadata, new, block, faults, histVars>>

\* The ecall looks at the status and waits for the mutex.  Without a block
\* hash there is none.
wr_ecall ==
    /\ wr.pc = "wait"
    /\ upgrade_status # "EXIT"
    /\ get_block_hash(
           wr' = [wr EXCEPT !.target = wr.height + REPORT_SLOT,
                            !.pc = IF enc_status = "NONE" THEN "lock" ELSE "poll"],
           wr' = [wr EXCEPT !.pc = "poll"])
    /\ UNCHANGED <<oldVars, check, upgrade_tryout, handler, tasks, genVars,
                   client, upgrade_data, metadata, new, block, histVars>>

wr_gen ==
    /\ wr.pc = "lock" /\ gen_mutex = "free"
    /\ gen_work_report(wr.height,
           wr' = [wr EXCEPT !.pc = "upload"] /\ gen_mutex' = "report",
           wr' = [wr EXCEPT !.pc = "poll"] /\ UNCHANGED gen_mutex)
    /\ UNCHANGED <<oldVars, check, upgrade_tryout, handler, tasks, reports,
                   client, upgrade_data, metadata, new, block, faults, histVars>>

wr_upload ==
    /\ wr.pc = "upload"
    /\ wr' = [wr EXCEPT !.pc = "poll"]
    /\ gen_mutex' = "free"
    /\ upload_workreport("old", wr.height, TRUE, TRUE)
    /\ UNCHANGED <<oldVars, check, upgrade_tryout, handler, tasks,
                   report_height, validated, client, upgrade_data, metadata,
                   new, block, histVars>>

wr_exit ==
    /\ "report" \in tasks /\ wr.pc \in {"poll", "wait"}
    /\ upgrade_status = "EXIT"
    /\ tasks' = tasks \ {"report"}
    /\ wr' = [wr EXCEPT !.pc = "poll"]
    /\ UNCHANGED <<oldVars, check, upgrade_tryout, handler, genVars, client,
                   upgrade_data, metadata, new, block, faults, histVars>>

\* The main loop validates, unless the data have been handed over.
main_turn ==
    /\ "main" \in tasks
    /\ enc_status # "SUCCESS"
    /\ ~validated
    /\ validated' = TRUE
    /\ UNCHANGED <<oldVars, check, upgrade_tryout, handler, tasks, wr,
                   gen_mutex, report_height, reports, client, upgrade_data,
                   metadata, new, block, faults, histVars>>

main_exit ==
    /\ "main" \in tasks
    /\ enc_status = "SUCCESS"
    /\ tasks' = tasks \ {"main"}
    /\ UNCHANGED <<oldVars, check, upgrade_tryout, handler, wr, genVars, client,
                   upgrade_data, metadata, new, block, faults, histVars>>

-----------------------------------------------------------------------------
(* process_run: the check loop of the old version.                           *)

CheckGoes(pc) ==
    check' = [check EXCEPT !.pc = pc, !.header = IF pc = "tryout" THEN 0 ELSE @]

checkFrame == <<upgrade_tryout, handler, tasks, wr, client, metadata, new,
                block, histVars>>

check_process ==
    /\ check.pc = "turn" /\ Ready("check")
    /\ CheckGoes("end")
    /\ IF upgrade_status = "PROCESS" /\ get_upgrade_ecalls_num = 0
       THEN set_upgrade_status("check", "END")
       ELSE UNCHANGED <<upgrade_status, disable>>
    /\ UNCHANGED <<enc_status, genVars, upgrade_data, faults, checkFrame>>

\* Without a block header the turn is over.
check_end ==
    /\ check.pc = "end"
    /\ \/ upgrade_status # "END" /\ CheckGoes("tryout") /\ UNCHANGED faults
       \/ /\ upgrade_status = "END"
          /\ get_block_header(check' = [pc |-> "gen", header |-> block],
                              CheckGoes("tryout"))
    /\ UNCHANGED <<oldVars, genVars, upgrade_data, checkFrame>>

\* The height the report is for: the last slot that ended before the header.
UpgradeHeight ==
    report_height
      + REPORT_SLOT * ((check.header - report_height - 1) \div REPORT_SLOT)

\* id_gen_upgrade_data.  The block hash may not be there.
gen_upgrade_data ==
    /\ check.pc = "gen" /\ gen_mutex = "free"
    /\ \/ /\ check.header >= REPORT_SLOT + report_height
          /\ get_block_hash(CheckGoes("report") /\ gen_mutex' = "check",
                            CheckGoes("tryout") /\ UNCHANGED gen_mutex)
       \/ /\ check.header < REPORT_SLOT + report_height
          /\ CheckGoes("tryout")
          /\ UNCHANGED <<gen_mutex, faults>>
    /\ UNCHANGED <<oldVars, report_height, validated, reports, upgrade_data,
                   checkFrame>>

gen_upgrade_report ==
    /\ check.pc = "report"
    /\ gen_work_report(UpgradeHeight,
           CheckGoes("upload") /\ UNCHANGED gen_mutex,
           CheckGoes("tryout") /\ gen_mutex' = "free")
    /\ UNCHANGED <<oldVars, reports, upgrade_data, faults, checkFrame>>

gen_upgrade_upload ==
    /\ check.pc = "upload"
    /\ upload_workreport("old", report_height,
           CheckGoes("snapshot") /\ UNCHANGED gen_mutex,
           CheckGoes("tryout") /\ gen_mutex' = "free")
    /\ UNCHANGED <<oldVars, report_height, validated, upgrade_data, checkFrame>>

\* Srd and files are copied, signed and stored in the app.
gen_upgrade_snapshot ==
    /\ check.pc = "snapshot"
    /\ \/ /\ upgrade_data' = [ops |-> done, height |-> report_height]
          /\ CheckGoes("success")
          /\ UNCHANGED <<gen_mutex, faults>>
       \/ /\ faults < MaxFaults /\ faults' = faults + 1
          /\ CheckGoes("tryout") /\ gen_mutex' = "free"
          /\ UNCHANGED upgrade_data
    /\ UNCHANGED <<oldVars, report_height, validated, reports, checkFrame>>

gen_upgrade_success ==
    /\ check.pc = "success"
    /\ enc_status' = "SUCCESS"
    /\ gen_mutex' = "free"
    /\ CheckGoes("complete")
    /\ UNCHANGED <<upgrade_status, disable, report_height, validated, reports,
                   upgrade_data, faults, checkFrame>>

\* The status may have been taken back while the data were generated; it is
\* not looked at again.
check_complete ==
    /\ check.pc = "complete"
    /\ set_upgrade_status("check", "COMPLETE")
    /\ crossed' = (crossed \/ upgrade_status # "END")
    /\ CheckGoes("tryout")
    /\ UNCHANGED <<enc_status, genVars, upgrade_data, faults, upgrade_tryout,
                   handler, tasks, wr, client, metadata, new, block, expired>>

\* Loops that have ended are started again; the report loop waits for the
\* next slot.
restore_tasks ==
    /\ tasks' = {"report", "main"}
    /\ wr' = IF "report" \in tasks THEN wr
             ELSE [wr EXCEPT !.target = (block \div REPORT_SLOT + 1) * REPORT_SLOT]

\* Mutant: an upgrade under way is never given up.
check_tryout_endless ==
    /\ check.pc = "tryout"
    /\ CheckGoes("sleep")
    /\ tasks' = IF upgrade_status = "NONE" THEN {"report", "main"} ELSE tasks
    /\ UNCHANGED <<oldVars, upgrade_tryout, handler, wr, genVars, client,
                   upgrade_data, metadata, new, block, faults, histVars>>

\* Mutant: the turns run below zero.
check_tryout_negative ==
    /\ check.pc = "tryout"
    /\ CheckGoes("sleep")
    /\ upgrade_tryout' = IF upgrade_status = "NONE" THEN upgrade_tryout
                         ELSE upgrade_tryout - 1
    /\ tasks' = IF upgrade_status = "NONE" THEN {"report", "main"} ELSE tasks
    /\ UNCHANGED <<oldVars, handler, wr, genVars, client, upgrade_data, metadata,
                   new, block, faults, histVars>>

\* While an upgrade is under way the turns are counted down.
check_tryout ==
    /\ check.pc = "tryout"
    /\ CheckGoes("sleep")
    /\ \/ /\ upgrade_status # "NONE" /\ upgrade_tryout > 0
          /\ upgrade_tryout' = upgrade_tryout - 1
          /\ UNCHANGED <<upgrade_status, disable, tasks, wr, expired>>
       \/ /\ upgrade_status # "NONE" /\ upgrade_tryout = 0
          /\ set_upgrade_status("check", "NONE")
          /\ upgrade_tryout' = UpgradeTryout
          /\ expired' = TRUE
          /\ UNCHANGED <<tasks, wr>>
       \/ /\ upgrade_status = "NONE"
          /\ restore_tasks
          /\ UNCHANGED <<upgrade_status, disable, upgrade_tryout, expired>>
    /\ UNCHANGED <<enc_status, handler, genVars, client, upgrade_data, metadata,
                   new, block, faults, crossed>>

\* With EXIT the process ends as soon as its loops have ended.
check_sleep ==
    /\ check.pc = "sleep" /\ Ready("check")
    /\ CheckGoes(IF upgrade_status = "EXIT" /\ tasks = {} THEN "gone" ELSE "turn")
    /\ UNCHANGED <<oldVars, genVars, upgrade_data, faults, checkFrame>>

-----------------------------------------------------------------------------
(* The new version, and the handlers of its requests in the old one.  A      *)
(* request that fails on the way is answered by 404 (HttpClient).            *)

newFrame == <<check, upgrade_tryout, tasks, wr, client, upgrade_data, block>>

Lost == faults < MaxFaults /\ faults' = faults + 1
NewAt(pc) == new.pc = pc
NewGoes(pc) == new' = [new EXCEPT !.pc = pc]

\* upgrade_try_start: 404 and 502 both lead to another try.
upgrade_try_start ==
    /\ NewAt("start") /\ handler = "idle" /\ Ready("handler")
    /\ check.pc # "gone"
    /\ upgrade_status \in {"NONE", "STOP_WORKREPORT"}
    /\ set_upgrade_status("handler", "STOP_WORKREPORT")
    /\ handler' = "enable"
    /\ NewGoes("starting")
    /\ expired' = FALSE
    /\ UNCHANGED <<enc_status, genVars, metadata, faults, crossed, newFrame>>

\* The chain is asked for a block, and the enclave whether it can report.
ecall_enable_upgrade ==
    /\ handler = "enable"
    /\ \/ /\ can_report_work
          /\ enc_status' = "PROCESS" /\ handler' = "process"
          /\ UNCHANGED <<new, faults>>
       \/ /\ ~can_report_work
          /\ handler' = "idle"
          /\ NewGoes("start")
          /\ UNCHANGED <<enc_status, faults>>
       \/ /\ Lost
          /\ handler' = "idle"
          /\ NewGoes("start")
          /\ UNCHANGED enc_status
    /\ UNCHANGED <<upgrade_status, disable, genVars, metadata, histVars, newFrame>>

\* The answer may get lost: the new version starts again.
start_process ==
    /\ handler = "process"
    /\ set_upgrade_status("handler", "PROCESS")
    /\ crossed' = (crossed \/ enc_status = "NONE")
    /\ handler' = "idle"
    /\ \/ NewGoes("metadata") /\ UNCHANGED faults
       \/ NewGoes("start") /\ Lost
    /\ UNCHANGED <<enc_status, genVars, metadata, expired, newFrame>>

\* upgrade_try_restore: without COMPLETE the old version answers 502.
get_metadata ==
    /\ NewAt("metadata") /\ check.pc # "gone"
    /\ \/ /\ upgrade_status = "COMPLETE"
          /\ new' = [pc |-> "init", data |-> upgrade_data,
                     tryout |-> RestoreTryout, told |-> FALSE]
          /\ UNCHANGED faults
       \/ NewGoes("failed") /\ Lost
    /\ UNCHANGED <<oldVars, handler, genVars, metadata, histVars, newFrame>>

\* Enclave, key pair and restore from the data; the roots are verified.
restore_from_upgrade ==
    /\ NewAt("init")
    /\ \/ NewGoes("enter") /\ UNCHANGED faults
       \/ NewGoes("failed") /\ Lost
    /\ UNCHANGED <<oldVars, handler, genVars, metadata, histVars, newFrame>>

\* entry_network: only a failing quote leads to a new enclave and another try.
entry_network ==
    /\ NewAt("enter")
    /\ \/ NewGoes("report") /\ UNCHANGED faults
       \/ /\ Lost
          /\ \/ new.tryout > 1
                /\ new' = [new EXCEPT !.tryout = @ - 1, !.pc = "init"]
             \/ NewGoes("failed")
    /\ UNCHANGED <<oldVars, handler, genVars, metadata, histVars, newFrame>>

\* The new version reports for the same height, with the old key.
new_report ==
    /\ NewAt("report")
    /\ upload_workreport("new", new.data.height, NewGoes("succeeded"), NewGoes("failed"))
    /\ UNCHANGED <<oldVars, handler, gen_mutex, report_height, validated,
                   metadata, histVars, newFrame>>

\* upgrade_try_complete(false): the old version goes back to work.  404 ends
\* the request too.
upgrade_try_complete_failed ==
    /\ NewAt("failed") /\ handler = "idle" /\ Ready("handler")
    /\ check.pc # "gone"
    /\ NewGoes("start")
    /\ \/ set_upgrade_status("handler", "NONE") /\ UNCHANGED faults
       \/ Lost /\ UNCHANGED <<upgrade_status, disable>>
    /\ UNCHANGED <<enc_status, handler, genVars, metadata, histVars, newFrame>>

\* Mutant: a database failure ends the handler before the status is set.
upgrade_try_complete_succeeded_early ==
    /\ NewAt("succeeded") /\ handler = "idle" /\ Ready("handler")
    /\ check.pc # "gone"
    /\ new' = [new EXCEPT !.pc = "wait_old", !.told = TRUE]
    /\ Lost
    /\ UNCHANGED <<upgrade_status, disable, metadata>>
    /\ UNCHANGED <<enc_status, handler, genVars, histVars, newFrame>>

\* ID_METADATA is stored as ID_METADATA_OLD and deleted, as far as the
\* database allows.
move_metadata ==
    \/ metadata' = "moved" /\ UNCHANGED faults
    \/ metadata' \in {"kept", "gone"} /\ Lost

\* upgrade_try_complete(true): in COMPLETE the metadata are moved away and the old version will exit; in any other status
\* it answers 200 all the same.
upgrade_try_complete_succeeded ==
    /\ NewAt("succeeded") /\ handler = "idle" /\ Ready("handler")
    /\ check.pc # "gone"
    /\ \/ /\ upgrade_status = "COMPLETE"
          /\ new' = [new EXCEPT !.pc = "wait_old", !.told = TRUE]
          /\ set_upgrade_status("handler", "EXIT")
          /\ move_metadata
       \/ /\ upgrade_status # "COMPLETE"
          /\ new' = [new EXCEPT !.pc = "wait_old", !.told = TRUE]
          /\ UNCHANGED <<upgrade_status, disable, metadata, faults>>
       \/ /\ Lost
          /\ NewGoes("wait_old")
          /\ UNCHANGED <<upgrade_status, disable, metadata>>
    /\ UNCHANGED <<enc_status, handler, genVars, histVars, newFrame>>

\* The new version waits until nobody answers and the database is free.
initialize_components ==
    /\ NewAt("wait_old")
    /\ check.pc = "gone"
    /\ NewGoes("running")
    /\ UNCHANGED <<oldVars, handler, genVars, metadata, faults, histVars, newFrame>>

next_block ==
    /\ block < MaxBlock
    /\ block' = block + 1
    /\ UNCHANGED <<oldVars, check, upgrade_tryout, handler, tasks, wr, genVars,
                   client, upgrade_data, metadata, new, faults, histVars>>

-----------------------------------------------------------------------------

Init ==
    /\ upgrade_status = "NONE" /\ enc_status = "NONE"
    /\ disable = [t \in Thread |-> "no"]
    /\ check = [pc |-> "turn", header |-> 0]
    /\ upgrade_tryout = UpgradeTryout
    /\ handler = "idle"
    /\ tasks = {"report", "main"}
    /\ block = FirstBlock
    /\ report_height = ((FirstBlock \div REPORT_SLOT) - 1) * REPORT_SLOT
    /\ wr = [pc |-> "poll", height |-> report_height,
             target |-> report_height + REPORT_SLOT]
    /\ gen_mutex = "free" /\ validated = FALSE
    /\ reports = [key |-> "old", height |-> report_height, turn |-> 0]
    /\ client = [c \in Client |-> "idle"]
    /\ upgrade_data = NoData /\ metadata = "kept"
    /\ new = [pc |-> "start", data |-> NoData, tryout |-> RestoreTryout,
              told |-> FALSE]
    /\ faults = 0
    /\ expired = FALSE /\ crossed = FALSE

clientStep(c) ==
    http_handler(c) \/ try_get_enclave(c) \/ ecall(c) \/ free_enclave(c)

wrStep == wr_poll \/ wr_ecall \/ wr_gen \/ wr_upload \/ wr_exit
mainStep == main_turn \/ main_exit

checkStep ==
    \/ check_process \/ check_end \/ gen_upgrade_data \/ gen_upgrade_report
    \/ gen_upgrade_upload \/ gen_upgrade_snapshot \/ gen_upgrade_success
    \/ check_complete \/ check_tryout \/ check_sleep
    \/ look_again("check") \/ ecall_disable_upgrade("check")

handlerStep ==
    \/ ecall_enable_upgrade \/ start_process
    \/ look_again("handler") \/ ecall_disable_upgrade("handler")

newStep ==
    \/ upgrade_try_start \/ get_metadata \/ restore_from_upgrade
    \/ entry_network \/ new_report \/ upgrade_try_complete_failed
    \/ upgrade_try_complete_succeeded \/ initialize_components

Next ==
    \/ \E c \in Client : clientStep(c)
    \/ wrStep \/ mainStep \/ checkStep \/ handlerStep \/ newStep
    \/ next_block

Spec == Init /\ [][Next]_vars

\* The loops and handlers are threads of their own and go on; nothing is
\* assumed of the chain or of the new version.
FairSpec ==
    /\ Spec
    /\ WF_vars(checkStep) /\ WF_vars(handlerStep)
    /\ WF_vars(wrStep) /\ WF_vars(mainStep)
    /\ \A c \in Client : WF_vars(clientStep(c))

-----------------------------------------------------------------------------

\* Types: both versions, their threads and the data handed over keep their
\* shapes through every attempt at an upgrade.
UpgradeTypeOK ==
    /\ upgrade_status \in Status /\ enc_status \in EncStatus
    /\ disable \in [Thread -> {"no", "look", "call"}]
    /\ check \in [pc : CheckPc, header : 0..MaxBlock]
    /\ upgrade_tryout \in 0..UpgradeTryout
    /\ handler \in HandlerPc
    /\ tasks \subseteq {"report", "main"}
    /\ wr \in [pc : {"poll", "wait", "lock", "upload"}, height : Nat, target : Nat]
    /\ gen_mutex \in {"free", "report", "check"}
    /\ report_height \in 0..MaxBlock /\ validated \in BOOLEAN
    /\ client \in [Client -> {"idle", "passed", "inside", "working", "done",
                              "refused"}]
    /\ upgrade_data \in Data
    /\ metadata \in {"kept", "moved", "gone"}
    /\ new \in [pc : NewPc, tryout : 1..RestoreTryout, told : BOOLEAN, data : Data]
    /\ block \in FirstBlock..MaxBlock
    /\ reports \in [key : {"old", "new"}, height : 0..MaxBlock, turn : 0..1]
    /\ faults \in 0..MaxFaults
    /\ expired \in BOOLEAN /\ crossed \in BOOLEAN

\* What the old version acknowledged to a client before it handed over (its
\* metadata moved away) is in the data the new version was restored from.
HandoverKeepsAcked ==
    (metadata # "kept" /\ ~expired /\ ~crossed) => done \subseteq new.data.ops

\* A new version that waits for the old one to go, and whose message arrived,
\* waits for a process that will exit, unless that gave the upgrade up.
WaitsForTheLeaving ==
    (new.pc = "wait_old" /\ new.told /\ ~expired) => upgrade_status = "EXIT"

\* Once the new version has reported under its own key and knows it, the old
\* one reports no more, unless it gave the upgrade up.
TakenOverIsFinal ==
    [][(new.pc \in {"succeeded", "wait_old", "running"} /\ ~expired /\ ~crossed)
         => (reports' = reports \/ reports'.key = "new")]_vars

\* The reports of the old key reach the chain in ascending order of height,
\* whichever thread sends them.
ReportsAscend ==
    [][(reports' # reports /\ reports'.key = "old")
         => reports'.height > reports.height]_vars

\* An upgrade that was begun comes to an end: the old version goes back to
\* work or will exit.
UpgradeEnds ==
    upgrade_status \notin {"NONE", "EXIT"} ~> upgrade_status \in {"NONE", "EXIT"}

\* An enclave that was told to stop for an upgrade is told to go on when the
\* upgrade stays given up: the app and the enclave do not disagree for ever.
EnclaveResumes ==
    <>[](upgrade_status = "NONE" /\ handler = "idle") => <>[](enc_status = "NONE")

=============================================================================
