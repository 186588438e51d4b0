---------------------------- MODULE FileService ----------------------------
(***************************************************************************)
(* The life of a meaningful file as the chain sees it.  Storage's requests *)
(* run beside the main loop, which validates the stored files in rounds    *)
(* and then cleans the deleted ones, and beside the work report, which     *)
(* tells the chain what was added and deleted since the last one.          *)
(*                                                                         *)
(* Every file carries three statuses: the current one, the waiting one a   *)
(* report froze, and the original one the chain last acknowledged.  The    *)
(* report freezes under file_mutex, talks to the chain with the mutex      *)
(* free, and takes it again to acknowledge; a validation round works on a  *)
(* snapshot of the table and applies its verdicts at the end.              *)
(***************************************************************************)
EXTENDS Storage

CONSTANTS
    ValidatorThread,              \* threads of the app's validate pool
    MEANINGFUL_VALIDATE_MIN_NUM,  \* files checked per round
    WORKREPORT_FILE_LIMIT,        \* files a report may list
    Faults                        \* which faults of the outside world occur

\* A cid stands for its position in the order of the sealed-file table.
ASSUME FileServiceAssumption ==
    /\ Cid \subseteq Nat
    /\ IsFiniteSet(Cid) /\ IsFiniteSet(Thread)
    /\ ValidatorThread \subseteq Thread
    /\ MEANINGFUL_VALIDATE_MIN_NUM \in Nat
    /\ WORKREPORT_FILE_LIMIT \in Nat
    /\ Faults \subseteq {"disk", "db", "recall", "ipfs", "refuse", "reply"}

VARIABLES
    round,                  \* where the main loop stands in a round
    g_validate_files_m,     \* the snapshot the round works on
    worker,                 \* how far the check of each file is
    g_changed_files_v,      \* files whose verdict differs from the snapshot
    report_files,           \* the report may be sent: ipfs was online
    validated_file_proof,   \* files were validated since the last report
    validated_srd_proof,    \* srd was validated since the last report
    reported_files_idx,     \* the files the last report listed
    rep_pc,                 \* where gen_and_upload_work_report stands
    report,                 \* the report: what it adds, deletes and totals
    ledger,                 \* external: the files the chain credits
    unsettled,              \* history: files of which the chain may have booked
                            \* what the enclave does not remember
    miscounted              \* history: the statistics were changed by a step
                            \* that found another status than it counts on

roundVars == <<round, g_validate_files_m, worker, g_changed_files_v>>
reportVars == <<report_files, validated_file_proof, validated_srd_proof,
                reported_files_idx, rep_pc, report, ledger, unsettled,
                miscounted>>
turnVars == <<report_files, validated_file_proof, validated_srd_proof,
              reported_files_idx, rep_pc, report, ledger>>
fileVars == <<storageVars, roundVars, reportVars>>

Verdict == {"none", "queued", "blocks", "no_tree", "no_block"}
Report == [added : SUBSET Cid, deleted : SUBSET Cid, size : Int]
NoReport == [added |-> {}, deleted |-> {}, size |-> 0]

-----------------------------------------------------------------------------
(* The main loop and validate_meaningful_file. *)

ecall_main_loop ==
    /\ round = "idle"
    /\ upgrade_status # "SUCCESS"
    /\ round' = "begin"
    /\ UNCHANGED <<storageVars, g_validate_files_m, worker,
                   g_changed_files_v, reportVars>>

\* The files a round checks: all of them, or a random choice when there are
\* more than the minimum.  Two draws may hit the same file.
Chosen ==
    IF Cardinality(Files) <= MEANINGFUL_VALIDATE_MIN_NUM THEN {Files}
    ELSE {S \in SUBSET Files : Cardinality(S) \in 1..MEANINGFUL_VALIDATE_MIN_NUM}

\* Under file_mutex the table is copied; then the tasks are queued.  With
\* files to check and ipfs offline this turn's report is called off.
validate_meaningful_file ==
    /\ round = "begin"
    /\ \/ /\ upgrade_status = "SUCCESS"
          /\ round' = "done"
          /\ UNCHANGED <<g_validate_files_m, worker, report_files>>
       \/ /\ upgrade_status # "SUCCESS"
          /\ round' = "check"
          /\ \E S \in Chosen, online \in {TRUE} \cup {"ipfs" \notin Faults} :
                /\ g_validate_files_m' =
                      [c \in Cid |-> IF c \in S THEN sealed_files[c] ELSE NoEntry]
                /\ worker' = [c \in Cid |-> IF c \in S THEN "queued" ELSE "none"]
                /\ report_files' = (report_files /\ (S = {} \/ online))
    /\ UNCHANGED <<storageVars, g_changed_files_v, validated_file_proof,
                   validated_srd_proof, reported_files_idx, rep_pc, report,
                   ledger, unsettled, miscounted>>

\* The ocall that queues the task failed: the file counts as changed.
recall_failed(c) ==
    /\ "recall" \in Faults
    /\ worker[c] = "queued"
    /\ worker' = [worker EXCEPT ![c] = "none"]
    /\ g_changed_files_v' = g_changed_files_v \cup {c}
    /\ UNCHANGED <<storageVars, round, g_validate_files_m, reportVars>>

-----------------------------------------------------------------------------
(* validate_meaningful_file_real: one task per file of the snapshot. *)

\* Read the list of leaves and compare its hash with the snapshot's.  A list
\* that differs ends the task without a verdict.
validate_tree(c) ==
    /\ worker[c] = "queued"
    /\ LET file == g_validate_files_m[c]
       IN  \/ /\ file.cur \in {"PENDING", "DELETED"}
              /\ worker' = [worker EXCEPT ![c] = "none"]
           \/ /\ file.cur \notin {"PENDING", "DELETED"}
              /\ db_tree[c].stored
              /\ worker' = [worker EXCEPT ![c] =
                    IF db_tree[c].leaves = file.hash THEN "blocks" ELSE "none"]
           \/ /\ file.cur \notin {"PENDING", "DELETED"}
              /\ ~db_tree[c].stored \/ "db" \in Faults
              /\ worker' = [worker EXCEPT ![c] = "no_tree"]
    /\ UNCHANGED <<storageVars, round, g_validate_files_m, g_changed_files_v,
                   reportVars>>

\* Read a random leaf, for a lost file the one that was lost too.  A leaf
\* that is there ends the task: a lost file was found again, or, when the
\* data does not match its hash, a valid file is lost.
validate_block(c) ==
    /\ worker[c] = "blocks"
    /\ \E S \in SUBSET g_validate_files_m[c].hash :
          /\ Cardinality(S) \in (IF g_validate_files_m[c].cur = "LOST"
                                THEN {1, 2} ELSE {1})
          /\ \/ /\ S \subseteq ipfs_dir[c]
                /\ worker' = [worker EXCEPT ![c] = "none"]
                /\ g_changed_files_v' =
                      IF g_validate_files_m[c].cur = "LOST"
                      THEN g_changed_files_v \cup {c} ELSE g_changed_files_v
             \/ /\ S \subseteq ipfs_dir[c]
                /\ "disk" \in Faults
                /\ worker' = [worker EXCEPT ![c] = "none"]
                /\ g_changed_files_v' =
                      IF g_validate_files_m[c].cur = "VALID"
                      THEN g_changed_files_v \cup {c} ELSE g_changed_files_v
             \/ /\ ~(S \subseteq ipfs_dir[c]) \/ "disk" \in Faults
                /\ worker' = [worker EXCEPT ![c] = "no_block"]
                /\ UNCHANGED g_changed_files_v
    /\ UNCHANGED <<storageVars, round, g_validate_files_m, reportVars>>

\* What is missing of a file in the deleted buffer is ignored.  Otherwise a
\* missing leaf loses a valid file; an ignored one finds a lost file again.
judge_block(c) ==
    /\ worker[c] = "no_block"
    /\ LET lost == c \notin file_del_cid_s
           found == IF lost THEN "VALID" ELSE "LOST"
       IN  g_changed_files_v' = IF g_validate_files_m[c].cur = found
                                THEN g_changed_files_v \cup {c}
                                ELSE g_changed_files_v
    /\ worker' = [worker EXCEPT ![c] = "none"]
    /\ UNCHANGED <<storageVars, round, g_validate_files_m, reportVars>>

\* A file without its list of leaves is deleted, by the validator's thread t
\* and after the task has been counted as finished.
judge_tree(t, c) ==
    /\ worker[c] = "no_tree"
    /\ Idle(t)
    /\ IF c \in file_del_cid_s THEN UNCHANGED thread
                               ELSE Enter(t, c, "delete_mark")
    /\ worker' = [worker EXCEPT ![c] = "none"]
    /\ UNCHANGED <<workloadVars, requests, delVars, round,
                   g_validate_files_m, g_changed_files_v, reportVars>>

-----------------------------------------------------------------------------
(* The end of a round. *)

\* The files the verdicts change: those that are still in the table with the
\* block number of the snapshot.
Flipped ==
    {c \in g_changed_files_v :
        /\ is_file_dup_nolock(c)
        /\ sealed_files[c].num = g_validate_files_m[c].num
        /\ g_validate_files_m[c].cur \in {"VALID", "LOST"}}

Opposite(s) == IF s = "VALID" THEN "LOST" ELSE "VALID"

\* All tasks are done: the round counts as a proof, and under file_mutex the
\* changed files get the opposite of the status in the snapshot.
change_file_status ==
    /\ round = "check"
    /\ \A c \in Cid : worker[c] = "none"
    /\ sealed_files' = [c \in Cid |->
          IF c \in Flipped
          THEN [sealed_files[c] EXCEPT !.cur = Opposite(g_validate_files_m[c].cur)]
          ELSE sealed_files[c]]
    /\ LET toLost == Cardinality({c \in Flipped : g_validate_files_m[c].cur = "VALID"})
           toValid == Cardinality(Flipped) - toLost
       IN  wl_file_spec' = [wl_file_spec EXCEPT !["LOST"] = @ + toLost - toValid,
                                                !["VALID"] = @ + toValid - toLost]
    /\ miscounted' = (miscounted \/
          \E c \in Flipped : Status(c) # g_validate_files_m[c].cur)
    /\ validated_file_proof' = TRUE
    /\ g_changed_files_v' = {}
    /\ g_validate_files_m' = [c \in Cid |-> NoEntry]
    /\ round' = "done"
    /\ UNCHANGED <<pending_files_um, file_del_cid_s, upgrade_status, ipfs_dir,
                   db_tree, thread, requests, delVars, worker, report_files,
                   validated_srd_proof, reported_files_idx, rep_pc, report,
                   ledger, unsettled>>

\* deal_deleted_file closes the validation of files.
deal_deleted ==
    /\ \/ round = "done" /\ deal_take /\ round' = "clean"
       \/ round = "clean" /\ deal_clean /\ UNCHANGED round
       \/ round = "clean" /\ deal_put_back /\ round' = "srd"
    /\ UNCHANGED <<g_validate_files_m, worker, g_changed_files_v, reportVars>>

\* What files notice of the validation of srd that follows.
validate_srd ==
    /\ round = "srd"
    /\ round' = "idle"
    /\ validated_srd_proof' = (validated_srd_proof \/ upgrade_status # "SUCCESS")
    /\ UNCHANGED <<storageVars, g_validate_files_m, worker, g_changed_files_v,
                   report_files, validated_file_proof, reported_files_idx,
                   rep_pc, report, ledger, unsettled, miscounted>>

-----------------------------------------------------------------------------
(* gen_and_upload_work_report; g_gen_work_report lets one run at a time. *)

\* Mutant: whatever differs from the original status is reported.
ReportableAll ==
    {c \in Files : /\ Status(c) # sealed_files[c].org
                   /\ Status(c) \in {"VALID", "LOST", "DELETED"}}

\* What a report tells the chain.
Reportable ==
    {c \in Files : <<Status(c), sealed_files[c].org>> \in
        {<<"VALID", "UNVERIFIED">>, <<"LOST", "VALID">>,
         <<"VALID", "LOST">>, <<"DELETED", "VALID">>}}

\* Mutant: the limit is off by one.
ListedBelow ==
    {c \in Reportable :
        Cardinality({d \in Reportable : d < c}) + 1 < WORKREPORT_FILE_LIMIT}

\* The first of them in the order of the table.
Listed ==
    {c \in Reportable :
        Cardinality({d \in Reportable : d < c}) < WORKREPORT_FILE_LIMIT}

\* Mutant: entries that are not there are frozen too.
FrozenAll == [c \in Cid |-> [sealed_files[c] EXCEPT !.wait = Status(c)]]

\* Every file's current status becomes the waiting one.
Frozen ==
    [c \in Cid |-> IF is_file_dup_nolock(c)
                   THEN [sealed_files[c] EXCEPT !.wait = Status(c)]
                   ELSE sealed_files[c]]

\* The status of the upgrade is looked at once, before the report begins.
ecall_gen_and_upload_work_report ==
    /\ rep_pc = "idle"
    /\ upgrade_status = "NONE"
    /\ rep_pc' = "begin"
    /\ UNCHANGED <<storageVars, roundVars, report_files, validated_file_proof,
                   validated_srd_proof, reported_files_idx, report, ledger,
                   unsettled, miscounted>>

\* Under file_mutex: every status is frozen and the report written.  Whether
\* it is written or not, the flags of this turn are consumed.
gen_work_report ==
    /\ rep_pc = "begin"
    /\ IF report_files /\ validated_srd_proof /\ validated_file_proof
       THEN LET added == {c \in Listed : Status(c) = "VALID"}
                deleted == Listed \ added
                known == {c \in Files : sealed_files[c].org = "VALID"}
            IN  /\ sealed_files' = Frozen
                /\ reported_files_idx' = Listed
                /\ report' = [added |-> added, deleted |-> deleted,
                              size |-> Cardinality(known) + Cardinality(added)
                                       - Cardinality(deleted)]
                /\ rep_pc' = "upload"
       ELSE /\ rep_pc' = "idle"
            /\ UNCHANGED <<sealed_files, reported_files_idx, report>>
    /\ report_files' = TRUE
    /\ validated_srd_proof' = FALSE
    /\ validated_file_proof' = FALSE
    /\ UNCHANGED <<pending_files_um, file_del_cid_s, wl_file_spec,
                   upgrade_status, ipfs_dir, db_tree, thread, requests, delVars,
                   roundVars, ledger, unsettled, miscounted>>

\* External: the chain books the report.
Accept ==
    /\ rep_pc = "upload"
    /\ ledger' = (ledger \cup report.added) \ report.deleted

\* The chain accepts the report, and the answer arrives.
upload_accepted ==
    /\ Accept
    /\ rep_pc' = "handle"
    /\ UNCHANGED <<storageVars, roundVars, report_files, validated_file_proof,
                   validated_srd_proof, reported_files_idx, report, unsettled,
                   miscounted>>

\* The chain accepts the report, but the answer is lost.
upload_unanswered ==
    /\ "reply" \in Faults
    /\ Accept
    /\ rep_pc' = "idle"
    /\ report' = NoReport
    /\ unsettled' = unsettled \cup report.added \cup report.deleted
    /\ UNCHANGED <<storageVars, roundVars, report_files, validated_file_proof,
                   validated_srd_proof, reported_files_idx, miscounted>>

\* The report cannot be signed, stored or sent, or the chain refuses it.
upload_refused ==
    /\ "refuse" \in Faults
    /\ rep_pc = "upload"
    /\ rep_pc' = "idle"
    /\ report' = NoReport
    /\ UNCHANGED <<storageVars, roundVars, report_files, validated_file_proof,
                   validated_srd_proof, reported_files_idx, ledger, unsettled,
                   miscounted>>

\* The entry of c is still the one the report froze: one that was inserted or
\* written by a seal end since then waits for nothing.
IsFrozen(c) == sealed_files[c].wait # "UNVERIFIED"

\* Mutant: the status of the moment is acknowledged, not the frozen one.
handle_report_current ==
    /\ rep_pc = "handle"
    /\ sealed_files' = [c \in Cid |->
          IF c \in reported_files_idx /\ is_file_dup_nolock(c)
          THEN [sealed_files[c] EXCEPT !.org = Status(c)]
          ELSE sealed_files[c]]
    /\ reported_files_idx' = {}
    /\ rep_pc' = "idle"
    /\ report' = NoReport
    /\ unsettled' = (unsettled \cup report.added)
                        \ {c \in reported_files_idx : IsFrozen(c)}
    /\ UNCHANGED <<pending_files_um, file_del_cid_s, wl_file_spec,
                   upgrade_status, ipfs_dir, db_tree, thread, requests, delVars,
                   roundVars, report_files, validated_file_proof,
                   validated_srd_proof, ledger, miscounted>>

\* Under file_mutex: the frozen status of the reported files that are still
\* in the table becomes the original one.  What was added under an entry that
\* has gone since is not remembered.
handle_report_result ==
    /\ rep_pc = "handle"
    /\ sealed_files' = [c \in Cid |->
          IF c \in reported_files_idx /\ is_file_dup_nolock(c)
          THEN [sealed_files[c] EXCEPT !.org = sealed_files[c].wait]
          ELSE sealed_files[c]]
    /\ reported_files_idx' = {}
    /\ rep_pc' = "idle"
    /\ report' = NoReport
    /\ unsettled' = (unsettled \cup report.added)
                        \ {c \in reported_files_idx : IsFrozen(c)}
    /\ UNCHANGED <<pending_files_um, file_del_cid_s, wl_file_spec,
                   upgrade_status, ipfs_dir, db_tree, thread, requests, delVars,
                   roundVars, report_files, validated_file_proof,
                   validated_srd_proof, ledger, miscounted>>

\* Mutant: every file is booked as added.
recover_illegal_file_added(c) ==
    /\ c \in unsettled
    /\ is_file_dup_nolock(c)
    /\ sealed_files' = [sealed_files EXCEPT ![c].org = "VALID"]
    /\ unsettled' = unsettled \ {c}
    /\ UNCHANGED <<pending_files_um, file_del_cid_s, wl_file_spec,
                   upgrade_status, ipfs_dir, db_tree, thread, requests, delVars,
                   roundVars, report_files, validated_file_proof,
                   validated_srd_proof, reported_files_idx, rep_pc, report,
                   ledger, miscounted>>

\* The operator tells the enclave what the chain has booked of c.  A report
\* that was written before and is not booked yet may still be wrong about c.
recover_illegal_file(c) ==
    /\ c \in unsettled
    /\ sealed_files' =
          IF is_file_dup_nolock(c)
          THEN [sealed_files EXCEPT ![c].org =
                    IF c \in ledger THEN "VALID"
                    ELSE IF Status(c) = "DELETED" THEN "DELETED" ELSE "LOST"]
          ELSE sealed_files
    /\ unsettled' = IF is_file_dup_nolock(c) /\ rep_pc # "upload"
                    THEN unsettled \ {c} ELSE unsettled
    /\ UNCHANGED <<pending_files_um, file_del_cid_s, wl_file_spec,
                   upgrade_status, ipfs_dir, db_tree, thread, requests, delVars,
                   roundVars, report_files, validated_file_proof,
                   validated_srd_proof, reported_files_idx, rep_pc, report,
                   ledger, miscounted>>

-----------------------------------------------------------------------------

FileInit ==
    /\ StorageInit
    /\ round = "idle"
    /\ g_validate_files_m = [c \in Cid |-> NoEntry]
    /\ worker = [c \in Cid |-> "none"]
    /\ g_changed_files_v = {}
    /\ report_files = TRUE
    /\ validated_file_proof = FALSE
    /\ validated_srd_proof = FALSE
    /\ reported_files_idx = {}
    /\ rep_pc = "idle"
    /\ report = NoReport
    /\ ledger = {}
    /\ unsettled = {}
    /\ miscounted = FALSE

\* A request's step that forgets what the chain credits, by replacing or
\* erasing the entry of a credited file, and one that counts a file as pending
\* no more although another step has already changed its status.
Remember ==
    /\ unsettled' = unsettled \cup
          {c \in Cid : sealed_files[c].org = "VALID" /\ sealed_files'[c].org # "VALID"}
    /\ miscounted' = (miscounted \/ \E t \in Thread :
          /\ thread[t].pc \in {"start_exceed", "end_add"}
          /\ Status(On(t)) # "PENDING"
          /\ thread'[t] # thread[t])
    /\ UNCHANGED <<roundVars, turnVars>>

RequestStep ==
    \/ \E t \in Thread \ ValidatorThread : Call(t) /\ Remember
    \/ \E t \in Thread : Continue(t) /\ Remember
    \/ \E s \in Upgrades : upgrade(s) /\ Remember

ValidateFile(c) ==
    \/ recall_failed(c)
    \/ validate_tree(c)
    \/ validate_block(c)
    \/ judge_block(c)
    \/ \E t \in ValidatorThread : judge_tree(t, c)

Round ==
    \/ ecall_main_loop
    \/ validate_meaningful_file
    \/ \E c \in Cid : ValidateFile(c)
    \/ change_file_status
    \/ deal_deleted
    \/ validate_srd

Upload == upload_accepted \/ upload_unanswered \/ upload_refused

FileNext ==
    \/ RequestStep
    \/ Round
    \/ ecall_gen_and_upload_work_report
    \/ gen_work_report
    \/ Upload
    \/ handle_report_result
    \/ \E c \in Cid : recover_illegal_file(c)

FileSpec == FileInit /\ [][FileNext]_fileVars

\* A slot of the chain outlasts a round of the main loop: again and again a
\* report finds that files and srd have been validated since the last one.
SlotsOutlastRounds ==
    []<>(rep_pc = "idle" /\ validated_file_proof /\ validated_srd_proof)

\* The main loop and its tasks go on, requests run to their end, reports are
\* generated slot after slot, and a chain that is asked again and again
\* accepts in the end.
FileFairness ==
    /\ \A t \in Thread : WF_fileVars(Continue(t) /\ Remember)
    /\ WF_fileVars(Round)
    /\ WF_fileVars(ecall_gen_and_upload_work_report)
    /\ WF_fileVars(gen_work_report)
    /\ WF_fileVars(Upload)
    /\ SF_fileVars(upload_accepted)
    /\ WF_fileVars(handle_report_result)
    /\ SlotsOutlastRounds

FairFileSpec == FileSpec /\ FileFairness

-----------------------------------------------------------------------------
(* Properties *)

\* Types: the storage state, the validator's round and the work report under
\* way keep the shapes Validator and EnclaveReport give them.
FileTypeOK ==
    /\ StorageTypeOK
    /\ round \in {"idle", "begin", "check", "done", "clean", "srd"}
    /\ g_validate_files_m \in [Cid -> Entry]
    /\ worker \in [Cid -> Verdict]
    /\ g_changed_files_v \in SUBSET Cid
    /\ report_files \in BOOLEAN
    /\ validated_file_proof \in BOOLEAN
    /\ validated_srd_proof \in BOOLEAN
    /\ reported_files_idx \in SUBSET Cid
    /\ rep_pc \in {"idle", "begin", "upload", "handle"}
    /\ report \in Report
    /\ ledger \in SUBSET Cid
    /\ unsettled \in SUBSET Cid
    /\ miscounted \in BOOLEAN

\* The two books of Credit: what the enclave believes credited, and how far
\* the report under way is.
Believed == {c \in Cid : sealed_files[c].org = "VALID"}

Progress == CASE rep_pc = "upload" -> "sent"
              [] rep_pc = "handle" -> "booked"
              [] OTHER -> "none"

Books == INSTANCE Credit WITH
            File <- Cid, believed <- Believed, doubt <- unsettled,
            increment <- [at |-> Progress, added |-> report.added,
                          deleted |-> report.deleted, size |-> report.size]

\* Three statuses per file, a report in three critical sections with requests,
\* validations and cleanings between any two of them, lost answers and the
\* operator's recovery implement the two books: whatever a step changes of
\* them is one step of the books.
ImplementsCredit == Books!CreditSpec

\* The enclave's memory is that of the chain: a file that is not unsettled is
\* believed credited if and only if it is, whatever deletions, seals and
\* validation rounds happen while a report is under way, and once a report
\* whose answer has arrived is handled.
BooksAgree == Books!BooksAgree

\* Every report is an exact increment: it adds files the chain does not
\* credit, deletes files it does, and totals what the chain will then credit,
\* although requests and verdicts change and replace the entries while it is
\* written and sent.  Excepted are the files of an unanswered report and those
\* whose entry was replaced or dropped while the chain credited it or was told
\* to; the operator can put right those that are in the table.
ReportExact ==
    rep_pc = "upload" =>
        /\ report.added \cap ledger \subseteq unsettled
        /\ report.deleted \ ledger \subseteq unsettled
        /\ unsettled = {} =>
              report.size = Cardinality((ledger \cup report.added) \ report.deleted)

\* The statistics shown to the operator count what is in the table whenever
\* no request is half done, whatever requests overlapped, until one of three
\* steps finds another status than it counts on: a seal start that is undone,
\* a seal end, and a verdict.
SpecAtRest ==
    ~miscounted /\ (\A t \in Thread : Idle(t)) =>
        \A s \in SpecStatus :
            wl_file_spec[s] = Cardinality({c \in Cid : Status(c) = s})

\* A sealed file the chain was never told of is reported in the end, unless
\* it is lost or deleted meanwhile: WORKREPORT_FILE_LIMIT delays a file and
\* refused reports are repeated, and neither starves it.
SealedIsReported ==
    \A c \in Cid :
        (Status(c) = "VALID" /\ sealed_files[c].org = "UNVERIFIED")
            ~> (sealed_files[c].org = "VALID" \/ Status(c) # "VALID")

\* A verdict on a file that was deleted after it was reached is dropped.
VerdictSparesDeleted ==
    [][\A c \in Cid : Status(c) = "DELETED" =>
            Status(c)' \notin {"VALID", "LOST"} \/ ~change_file_status]_fileVars

=============================================================================
