------------------------- MODULE FileServiceProofs -------------------------
(* Theorems about FileService, for every number of files, blocks, threads   *)
(* and reports.                                                             *)
EXTENDS FileService, StorageProofs, FiniteSetTheorems

LEMMA CardType ==
  ASSUME NEW S \in SUBSET Cid
  PROVE  Cardinality(S) \in Nat
  BY FileServiceAssumption, FS_Subset, FS_CardinalityType

-----------------------------------------------------------------------------
(* Types *)

LEMMA FileInitType == FileInit => FileTypeOK
  <1> SUFFICES ASSUME FileInit PROVE FileTypeOK
    OBVIOUS
  <1>1. StorageTypeOK
    BY InitType DEF FileInit
  <1>2. report \in Report
    BY DEF FileInit, NoReport, Report
  <1>3. g_validate_files_m \in [Cid -> Entry] /\ worker \in [Cid -> Verdict]
    BY EntryTypes DEF FileInit, Verdict
  <1> QED BY <1>1, <1>2, <1>3 DEF FileInit, FileTypeOK

\* Steps of Storage inside FileService.
LEMMA RequestStepNext == RequestStep => StorageNext
  BY FileServiceAssumption DEF RequestStep, StorageNext

\* A request's step is no part of a round or a report; the history it adds
\* to grows only.
LEMMA RememberFrame ==
  ASSUME RequestStep, FileTypeOK
  PROVE  /\ UNCHANGED <<roundVars, turnVars>>
         /\ unsettled' = unsettled \cup
               {c \in Cid : sealed_files[c].org = "VALID" /\ sealed_files'[c].org # "VALID"}
         /\ unsettled' \in SUBSET Cid
         /\ miscounted => miscounted'
         /\ miscounted' \in BOOLEAN
  <1>1. Remember
    BY DEF RequestStep
  <1> QED BY <1>1 DEF Remember, FileTypeOK

LEMMA DealStepNext == deal_deleted => StorageNext
  BY DEF deal_deleted, StorageNext, deal_deleted_file

LEMMA FileStepType ==
  ASSUME FileTypeOK, FileNext
  PROVE  FileTypeOK'
  <1> USE DEF FileTypeOK, roundVars, reportVars, turnVars
  <1>1. CASE RequestStep
    BY <1>1, RequestStepNext, RememberFrame, StepType
  <1>2. CASE ecall_main_loop
    BY <1>2, StutterType DEF ecall_main_loop
  <1>3. CASE validate_meaningful_file
    <2>1. StorageTypeOK'
      BY <1>3, StutterType DEF validate_meaningful_file
    <2>2. g_validate_files_m' \in [Cid -> Entry]
      BY <1>3, EntryTypes DEF validate_meaningful_file, StorageTypeOK,
         WorkloadTypeOK
    <2>3. worker' \in [Cid -> Verdict]
      BY <1>3 DEF validate_meaningful_file, Verdict
    <2>4. report_files' \in BOOLEAN
      BY <1>3 DEF validate_meaningful_file
    <2> QED BY <1>3, <2>1, <2>2, <2>3, <2>4 DEF validate_meaningful_file
  <1>4. ASSUME NEW c \in Cid, ValidateFile(c)
        PROVE  FileTypeOK'
    <2>1. CASE recall_failed(c)
      BY <2>1, <1>4, StutterType DEF recall_failed, Verdict
    <2>2. CASE validate_tree(c)
      BY <2>2, <1>4, StutterType DEF validate_tree, Verdict
    <2>3. CASE validate_block(c)
      BY <2>3, <1>4, StutterType DEF validate_block, Verdict
    <2>4. CASE judge_block(c)
      BY <2>4, <1>4, StutterType DEF judge_block, Verdict
    <2>5. CASE \E t \in ValidatorThread : judge_tree(t, c)
      <3> PICK t \in ValidatorThread : judge_tree(t, c)
        BY <2>5
      <3>1. t \in Thread
        BY FileServiceAssumption
      <3>2. thread' \in [Thread -> ThreadState]
        BY <3>1, <1>4, EnterType DEF judge_tree, StorageTypeOK, Pc, DeletePc
      <3>3. StorageTypeOK'
        BY <3>2 DEF judge_tree, StorageTypeOK, WorkloadTypeOK, workloadVars,
           delVars
      <3> QED BY <3>3, <1>4 DEF judge_tree, Verdict
    <2> QED BY <1>4, <2>1, <2>2, <2>3, <2>4, <2>5 DEF ValidateFile
  <1>5. CASE change_file_status
    <2>1. sealed_files' \in [Cid -> Entry]
      <3>1. \A c \in Cid : [sealed_files[c] EXCEPT
                !.cur = Opposite(g_validate_files_m[c].cur)] \in Entry
        <4> SUFFICES ASSUME NEW c \in Cid
                     PROVE  [sealed_files[c] EXCEPT
                               !.cur = Opposite(g_validate_files_m[c].cur)] \in Entry
          OBVIOUS
        <4>1. sealed_files[c] \in Entry
          BY DEF StorageTypeOK, WorkloadTypeOK
        <4>2. Opposite(g_validate_files_m[c].cur) \in FileStatus
          BY DEF Opposite, FileStatus
        <4> QED BY <4>1, <4>2 DEF Entry
      <3> QED BY <1>5, <3>1 DEF change_file_status, StorageTypeOK, WorkloadTypeOK
    <2>2. wl_file_spec' \in [SpecStatus -> Int]
      <3> DEFINE toLost == Cardinality({c \in Flipped : g_validate_files_m[c].cur = "VALID"})
                 all == Cardinality(Flipped)
      <3>1. toLost \in Nat /\ all \in Nat
        BY CardType DEF Flipped
      <3>2. wl_file_spec' = [wl_file_spec EXCEPT
                !["LOST"] = @ + toLost - (all - toLost),
                !["VALID"] = @ + (all - toLost) - toLost]
        BY <1>5 DEF change_file_status
      <3> HIDE DEF toLost, all
      <3> QED BY <3>1, <3>2 DEF StorageTypeOK, WorkloadTypeOK, SpecStatus
    <2>3. StorageTypeOK'
      BY <1>5, <2>1, <2>2 DEF change_file_status, StorageTypeOK,
         WorkloadTypeOK, delVars
    <2> QED BY <1>5, <2>3, EntryTypes DEF change_file_status
  <1>6. CASE deal_deleted
    BY <1>6, DealStepNext, StepType DEF deal_deleted
  <1>7. CASE gen_work_report
    <2>1. sealed_files' \in [Cid -> Entry]
      <3>1. ASSUME NEW c \in Cid, is_file_dup_nolock(c)
            PROVE  [sealed_files[c] EXCEPT !.wait = Status(c)] \in Entry
        <4>1. sealed_files[c] \in Entry
          BY DEF StorageTypeOK, WorkloadTypeOK
        <4>2. Status(c) \in FileStatus
          BY <3>1, <4>1 DEF Entry, Status, is_file_dup_nolock
        <4> QED BY <4>1, <4>2 DEF Entry
      <3> QED BY <1>7, <3>1 DEF gen_work_report, Frozen, StorageTypeOK, WorkloadTypeOK
    <2>2. StorageTypeOK'
      BY <1>7, <2>1 DEF gen_work_report, StorageTypeOK, WorkloadTypeOK, delVars
    <2>3. Listed \in SUBSET Cid
      BY DEF Listed, Reportable, Files
    <2>4. report' \in Report
      <3>1. CASE report' = report
        BY <3>1
      <3>2. CASE report_files /\ validated_srd_proof /\ validated_file_proof
        <4> DEFINE added == {c \in Listed : Status(c) = "VALID"}
                   deleted == Listed \ added
                   known == {c \in Files : sealed_files[c].org = "VALID"}
        <4>1. added \in SUBSET Cid /\ deleted \in SUBSET Cid /\ known \in SUBSET Cid
          BY <2>3 DEF Files
        <4>2. Cardinality(known) + Cardinality(added) - Cardinality(deleted) \in Int
          BY <4>1, CardType
        <4>3. report' = [added |-> added, deleted |-> deleted,
                size |-> Cardinality(known) + Cardinality(added)
                         - Cardinality(deleted)]
          BY <1>7, <3>2 DEF gen_work_report
        <4> HIDE DEF added, deleted, known
        <4> QED BY <4>1, <4>2, <4>3 DEF Report
      <3> QED BY <1>7, <3>1, <3>2 DEF gen_work_report
    <2> QED BY <1>7, <2>2, <2>3, <2>4 DEF gen_work_report
  <1>11. CASE validate_srd \/ ecall_gen_and_upload_work_report
    BY <1>11, StutterType DEF validate_srd, ecall_gen_and_upload_work_report
  <1>8. CASE Upload
    BY <1>8, StutterType DEF Upload, upload_accepted, upload_unanswered,
       upload_refused, Accept, Report, NoReport
  <1>9. CASE handle_report_result
    <2>1. sealed_files' \in [Cid -> Entry]
      <3>1. ASSUME NEW c \in Cid
            PROVE  [sealed_files[c] EXCEPT !.org = sealed_files[c].wait] \in Entry
        <4>1. sealed_files[c] \in Entry
          BY DEF StorageTypeOK, WorkloadTypeOK
        <4> QED BY <4>1 DEF Entry
      <3> QED BY <1>9, <3>1 DEF handle_report_result, StorageTypeOK,
                 WorkloadTypeOK
    <2>2. StorageTypeOK'
      BY <1>9, <2>1 DEF handle_report_result, StorageTypeOK, WorkloadTypeOK,
         delVars
    <2> QED BY <1>9, <2>2 DEF handle_report_result, Report, NoReport
  <1>10. ASSUME NEW c \in Cid, recover_illegal_file(c)
         PROVE  FileTypeOK'
    <2>1. sealed_files' \in [Cid -> Entry]
      <3>1. \A s \in FileStatus : [sealed_files[c] EXCEPT !.org = s] \in Entry
        BY <1>10 DEF StorageTypeOK, WorkloadTypeOK, Entry
      <3>2. \/ sealed_files' = sealed_files
            \/ \E s \in FileStatus : sealed_files' =
                 [sealed_files EXCEPT ![c] = [sealed_files[c] EXCEPT !.org = s]]
        BY <1>10 DEF recover_illegal_file, FileStatus
      <3> QED BY <3>1, <3>2 DEF StorageTypeOK, WorkloadTypeOK
    <2>2. StorageTypeOK'
      BY <1>10, <2>1 DEF recover_illegal_file, StorageTypeOK, WorkloadTypeOK,
         delVars
    <2> QED BY <1>10, <2>2 DEF recover_illegal_file
  <1> QED
    BY <1>1, <1>2, <1>3, <1>4, <1>5, <1>6, <1>7, <1>8, <1>9, <1>10,
       <1>11 DEF FileNext, Round

\* FileService keeps the types of its state, whatever the constants.
THEOREM FileTypes == FileSpec => []FileTypeOK
  <1>1. FileTypeOK /\ [FileNext]_fileVars => FileTypeOK'
    <2>1. ASSUME FileTypeOK, UNCHANGED fileVars PROVE FileTypeOK'
      BY <2>1, StutterType DEF FileTypeOK, fileVars, roundVars, reportVars
    <2> QED BY <2>1, FileStepType
  <1> QED BY <1>1, FileInitType, PTL DEF FileSpec

-----------------------------------------------------------------------------
(* The original status and the chain *)

\* What the chain will still be told: the deletions of a report it accepted
\* and whose result is not handled yet.
BeingHandled == IF rep_pc = "handle" THEN report.deleted ELSE {}

\* The original status is the enclave's memory of what the chain credits.
\* Whatever deletions, seals and validation rounds happen while a report is
\* under way, a file the enclave believes credited is credited, up to the
\* deletions being handled and the files of an unanswered report.
OriginOnChain ==
    \A c \in Cid :
        sealed_files[c].org = "VALID" => c \in ledger \cup unsettled \cup BeingHandled

\* While a report is under way, the table still tells what it adds: a listed
\* file whose frozen status is VALID is one the report adds.
FrozenIsAdded ==
    rep_pc \in {"upload", "handle"} =>
        \A c \in reported_files_idx :
            sealed_files[c].wait = "VALID" => c \in report.added

\* A report lists what it deletes and deletes nothing it adds, and once the
\* chain has accepted it the chain credits what it adds.
ReportIsBooked ==
    /\ rep_pc \in {"upload", "handle"} =>
          /\ report.deleted \subseteq reported_files_idx
          /\ report.added \cap report.deleted = {}
    /\ rep_pc = "handle" => report.added \subseteq ledger

\* Nothing is believed of a file that is not in the table.
AbsentIsForgotten ==
    \A c \in Cid : sealed_files[c].cur = "ABSENT" =>
        sealed_files[c].org # "VALID" /\ sealed_files[c].wait = "UNVERIFIED"

\* OriginOnChain made inductive.
OriginInv ==
    /\ OriginOnChain
    /\ FrozenIsAdded
    /\ ReportIsBooked
    /\ AbsentIsForgotten

LEMMA OriginInit == FileInit => OriginInv
  BY DEF FileInit, StorageInit, WorkloadInit, OriginInv, OriginOnChain,
     FrozenIsAdded, ReportIsBooked, AbsentIsForgotten, NoEntry

\* A step that leaves the report alone, and what the table says of reports
\* but for entries it forgets, keeps the invariant.
LEMMA OriginFrame ==
  ASSUME OriginInv, FileTypeOK,
         UNCHANGED <<reported_files_idx, rep_pc, report, ledger>>,
         unsettled \subseteq unsettled',
         \A c \in Cid :
           \/ /\ sealed_files'[c].org = "UNVERIFIED"
              /\ sealed_files'[c].wait = "UNVERIFIED"
           \/ /\ sealed_files'[c].org = sealed_files[c].org
              /\ sealed_files'[c].wait = sealed_files[c].wait
              /\ sealed_files'[c].cur = "ABSENT" => sealed_files[c].cur = "ABSENT"
  PROVE  OriginInv'
  <1> USE DEF OriginInv, FileTypeOK
  <1>1. OriginOnChain'
    BY DEF OriginOnChain, BeingHandled
  <1>2. FrozenIsAdded'
    BY DEF FrozenIsAdded
  <1>3. ReportIsBooked'
    BY DEF ReportIsBooked
  <1>4. AbsentIsForgotten'
    BY DEF AbsentIsForgotten
  <1> QED BY <1>1, <1>2, <1>3, <1>4

LEMMA OriginStep ==
  ASSUME OriginInv, FileTypeOK, FileNext
  PROVE  OriginInv'
  <1> USE DEF roundVars, reportVars
  <1>0. StorageTypeOK /\ sealed_files \in [Cid -> Entry]
    BY DEF FileTypeOK, StorageTypeOK, WorkloadTypeOK
  <1>1. CASE RequestStep
    BY <1>0, <1>1, RequestStepNext, ReportedKept, RememberFrame, OriginFrame
    DEF turnVars
  <1>2. CASE deal_deleted
    BY <1>0, <1>2, DealStepNext, ReportedKept, OriginFrame DEF deal_deleted
  <1>3. CASE \/ ecall_main_loop \/ validate_meaningful_file
             \/ \E c \in Cid : ValidateFile(c)
             \/ validate_srd
    <2>1. UNCHANGED <<sealed_files, reported_files_idx, rep_pc, report, ledger,
                      unsettled>>
      BY <1>3 DEF ecall_main_loop, validate_srd, validate_meaningful_file, ValidateFile,
         recall_failed, validate_tree, validate_block, judge_block, judge_tree,
         storageVars, workloadVars
    <2> QED BY <2>1, OriginFrame
  <1>4. CASE change_file_status
    <2>1. \A c \in Cid : /\ sealed_files'[c].org = sealed_files[c].org
                         /\ sealed_files'[c].wait = sealed_files[c].wait
                         /\ sealed_files'[c].cur = "ABSENT" =>
                               sealed_files[c].cur = "ABSENT"
      BY <1>0, <1>4 DEF change_file_status, Opposite, Entry
    <2> QED BY <1>4, <2>1, OriginFrame DEF change_file_status
  <1>5. CASE gen_work_report
    <2>1. CASE ~(report_files /\ validated_srd_proof /\ validated_file_proof)
      BY <1>5, <2>1 DEF gen_work_report, OriginInv, OriginOnChain, BeingHandled,
         FrozenIsAdded, ReportIsBooked, AbsentIsForgotten
    <2>2. CASE report_files /\ validated_srd_proof /\ validated_file_proof
      <3> DEFINE added == {c \in Listed : Status(c) = "VALID"}
      <3>1. /\ rep_pc' = "upload" /\ reported_files_idx' = Listed
            /\ report'.added = added /\ report'.deleted = Listed \ added
            /\ UNCHANGED <<ledger, unsettled>> /\ rep_pc = "begin"
        BY <1>5, <2>2 DEF gen_work_report, Frozen
      <3>2. \A c \in Cid :
              /\ sealed_files'[c].org = sealed_files[c].org
              /\ sealed_files'[c].cur = sealed_files[c].cur
              /\ IF sealed_files[c].cur # "ABSENT"
                 THEN sealed_files'[c].wait = sealed_files[c].cur
                 ELSE sealed_files'[c].wait = sealed_files[c].wait
        BY <1>0, <1>5, <2>2 DEF gen_work_report, Frozen, is_file_dup_nolock, Status, Entry
      <3>3. Listed \subseteq {c \in Cid : sealed_files[c].cur # "ABSENT"}
        BY DEF Listed, Reportable, Files, is_file_dup_nolock, Status
      <3>4. OriginOnChain'
        BY <3>1, <3>2 DEF OriginInv, OriginOnChain, BeingHandled
      <3>5. FrozenIsAdded'
        BY <3>1, <3>2, <3>3 DEF FrozenIsAdded, Status
      <3>6. ReportIsBooked'
        BY <3>1 DEF ReportIsBooked
      <3>7. AbsentIsForgotten'
        BY <3>2 DEF OriginInv, AbsentIsForgotten
      <3> QED BY <3>4, <3>5, <3>6, <3>7 DEF OriginInv
    <2> QED BY <1>5, <2>1, <2>2 DEF gen_work_report
  <1>9. CASE ecall_gen_and_upload_work_report
    BY <1>9 DEF ecall_gen_and_upload_work_report, OriginInv, OriginOnChain,
       BeingHandled, FrozenIsAdded, ReportIsBooked, AbsentIsForgotten,
       storageVars, workloadVars
  <1>6. CASE Upload
    <2>1. UNCHANGED <<sealed_files, reported_files_idx>>
      BY <1>6 DEF Upload, upload_accepted, upload_unanswered, upload_refused,
         storageVars, workloadVars
    <2>2. AbsentIsForgotten'
      BY <2>1 DEF OriginInv, AbsentIsForgotten
    <2>3. CASE upload_accepted
      BY <2>1, <2>2, <2>3 DEF upload_accepted, Accept, OriginInv,
         OriginOnChain, BeingHandled, FrozenIsAdded, ReportIsBooked
    <2>4. CASE upload_unanswered
      BY <2>1, <2>2, <2>4 DEF upload_unanswered, Accept, OriginInv,
         OriginOnChain, BeingHandled, FrozenIsAdded, ReportIsBooked
    <2>5. CASE upload_refused
      BY <2>1, <2>2, <2>5 DEF upload_refused, OriginInv, OriginOnChain,
         BeingHandled, FrozenIsAdded, ReportIsBooked
    <2> QED BY <1>6, <2>3, <2>4, <2>5 DEF Upload
  <1>7. CASE handle_report_result
    <2>1. /\ rep_pc = "handle" /\ rep_pc' = "idle"
          /\ ledger' = ledger
          /\ \A c \in unsettled : c \notin reported_files_idx => c \in unsettled'
          /\ \A c \in unsettled : c \in unsettled' \/ sealed_files[c].wait # "UNVERIFIED"
      BY <1>7 DEF handle_report_result, IsFrozen
    <2>2. \A c \in Cid :
            /\ sealed_files'[c].cur = sealed_files[c].cur
            /\ sealed_files'[c].wait = sealed_files[c].wait
            /\ IF c \in reported_files_idx /\ sealed_files[c].cur # "ABSENT"
               THEN sealed_files'[c].org = sealed_files[c].wait
               ELSE sealed_files'[c].org = sealed_files[c].org
      BY <1>0, <1>7 DEF handle_report_result, is_file_dup_nolock, Status, Entry
    <2>3. OriginOnChain'
      BY <2>1, <2>2 DEF OriginInv, OriginOnChain, BeingHandled, FrozenIsAdded,
         ReportIsBooked, AbsentIsForgotten
    <2> QED BY <2>1, <2>2, <2>3 DEF OriginInv, FrozenIsAdded, ReportIsBooked,
       AbsentIsForgotten
  <1>8. ASSUME NEW c \in Cid, recover_illegal_file(c)
        PROVE  OriginInv'
    <2>1. UNCHANGED <<reported_files_idx, rep_pc, report, ledger>>
      BY <1>8 DEF recover_illegal_file
    <2>2. \A d \in Cid :
            /\ sealed_files'[d].cur = sealed_files[d].cur
            /\ sealed_files'[d].wait = sealed_files[d].wait
            /\ IF d = c /\ sealed_files[c].cur # "ABSENT"
               THEN sealed_files'[d].org = "VALID" => d \in ledger
               ELSE sealed_files'[d].org = sealed_files[d].org
      BY <1>0, <1>8 DEF recover_illegal_file, is_file_dup_nolock, Status, Entry
    <2>3. \A d \in unsettled : d # c => d \in unsettled'
      BY <1>8 DEF recover_illegal_file
    <2>4. OriginOnChain'
      BY <1>8, <2>1, <2>2, <2>3 DEF OriginInv, OriginOnChain, BeingHandled,
         AbsentIsForgotten
    <2> QED BY <2>1, <2>2, <2>4 DEF OriginInv, FrozenIsAdded, ReportIsBooked,
       AbsentIsForgotten, FileTypeOK
  <1> QED
    BY <1>1, <1>2, <1>3, <1>4, <1>5, <1>6, <1>7, <1>8, <1>9 DEF FileNext, Round

\* Whatever runs beside a work report, and whether its answer arrives or not,
\* a file the enclave believes credited by the chain is credited.
THEOREM OriginAlwaysOnChain == FileSpec => []OriginOnChain
  <1>1. OriginInv /\ FileTypeOK /\ [FileNext]_fileVars => OriginInv'
    <2>1. ASSUME OriginInv, UNCHANGED fileVars PROVE OriginInv'
      BY <2>1 DEF OriginInv, OriginOnChain, BeingHandled, FrozenIsAdded,
         ReportIsBooked, AbsentIsForgotten, fileVars, reportVars, storageVars,
         workloadVars
    <2> QED BY <2>1, OriginStep
  <1>2. OriginInv => OriginOnChain
    BY DEF OriginInv
  <1> QED BY <1>1, <1>2, OriginInit, FileTypes, PTL DEF FileSpec

-----------------------------------------------------------------------------
(* Reports are exact increments *)

\* A report lists what it adds and deletes, and an entry waits for what the
\* report says of it, unless it was replaced since; in the end the chain
\* credits no more what was deleted.
ListingInv ==
    rep_pc \in {"upload", "handle"} =>
        /\ reported_files_idx = report.added \cup report.deleted
        /\ \A c \in report.added : sealed_files[c].wait \in {"VALID", "UNVERIFIED"}
        /\ \A c \in report.deleted : sealed_files[c].wait # "VALID"
        /\ rep_pc = "handle" => report.deleted \cap ledger = {}

\* What is not unsettled is remembered as the chain has booked it.
BookedInv ==
    \A c \in Cid \ unsettled :
        rep_pc # "handle" \/ c \notin reported_files_idx =>
            (sealed_files[c].org = "VALID" <=> c \in ledger)

\* A report that is not booked yet is still right about it.
IncrementInv ==
    rep_pc = "upload" =>
        \A c \in Cid \ unsettled :
            /\ c \in report.added => sealed_files[c].org # "VALID"
            /\ c \in report.deleted => sealed_files[c].org = "VALID"

TotalInv ==
    rep_pc = "upload" /\ unsettled = {} =>
        report.size = Cardinality((ledger \cup report.added) \ report.deleted)

\* ReportExact made inductive, on top of OriginInv.
BookInv == ListingInv /\ BookedInv /\ IncrementInv /\ TotalInv

LEMMA BookInit == FileInit => BookInv
  BY DEF FileInit, StorageInit, WorkloadInit, BookInv, ListingInv, BookedInv,
     IncrementInv, TotalInv, NoEntry

LEMMA BookExact == FileTypeOK /\ BookInv => ReportExact
  BY DEF BookInv, BookedInv, IncrementInv, TotalInv, ReportExact, FileTypeOK, Report

\* A step that leaves the report alone keeps the invariant if it forgets what
\* entries wait for, and what is credited only of files that are unsettled.
LEMMA BookFrame ==
  ASSUME BookInv, FileTypeOK,
         UNCHANGED <<reported_files_idx, rep_pc, report, ledger>>,
         unsettled \subseteq unsettled',
         \A c \in Cid : \/ sealed_files'[c].wait = sealed_files[c].wait
                        \/ sealed_files'[c].wait = "UNVERIFIED",
         \A c \in Cid \ unsettled' :
            sealed_files'[c].org = "VALID" <=> sealed_files[c].org = "VALID"
  PROVE  BookInv'
  <1>1. report.added \subseteq Cid /\ report.deleted \subseteq Cid
    BY DEF FileTypeOK, Report
  <1>2. ListingInv'
    BY <1>1 DEF BookInv, ListingInv
  <1>3. BookedInv'
    BY DEF BookInv, BookedInv
  <1>4. IncrementInv'
    BY DEF BookInv, IncrementInv
  <1>5. TotalInv'
    <2>1. unsettled' = {} => unsettled = {}
      OBVIOUS
    <2> QED BY <2>1 DEF BookInv, TotalInv
  <1> QED BY <1>2, <1>3, <1>4, <1>5 DEF BookInv

\* What adding files that are not counted to a set and taking files of the
\* set away does to their number.
LEMMA IncrementCount ==
  ASSUME NEW K \in SUBSET Cid, NEW A \in SUBSET Cid, NEW D \in SUBSET Cid,
         A \cap K = {}, D \subseteq K
  PROVE  Cardinality(K) + Cardinality(A) - Cardinality(D) =
            Cardinality((K \cup A) \ D)
  <1>1. IsFiniteSet(K) /\ IsFiniteSet(A) /\ IsFiniteSet(D)
    BY FileServiceAssumption, FS_Subset
  <1>2. /\ IsFiniteSet(K \cup A)
        /\ Cardinality(K \cup A) = Cardinality(K) + Cardinality(A) - Cardinality(K \cap A)
    BY <1>1, FS_Union
  <1>3. Cardinality(K \cap A) = 0
    <2>1. K \cap A = {}
      OBVIOUS
    <2> QED BY <2>1, FS_EmptySet
  <1>4. Cardinality((K \cup A) \ D) =
            Cardinality(K \cup A) - Cardinality((K \cup A) \cap D)
    BY <1>1, <1>2, FS_Difference
  <1>5. Cardinality((K \cup A) \cap D) = Cardinality(D)
    <2>1. (K \cup A) \cap D = D
      OBVIOUS
    <2> QED BY <2>1
  <1>6. Cardinality(K) \in Nat /\ Cardinality(A) \in Nat /\ Cardinality(D) \in Nat
    BY CardType
  <1> QED BY <1>2, <1>3, <1>4, <1>5, <1>6

\* Cleaning the deleted files forgets no file that is credited.
LEMMA CleaningKeepsOrigin ==
  ASSUME deal_deleted, NEW c \in Cid
  PROVE  sealed_files'[c].org = "VALID" <=> sealed_files[c].org = "VALID"
  <1>1. CASE UNCHANGED sealed_files
    BY <1>1
  <1>2. CASE deal_clean
    BY <1>2 DEF deal_clean, del_files, IsCleanable, NoEntry
  <1> QED BY <1>1, <1>2 DEF deal_deleted, deal_take, deal_put_back

\* A report that is written is an increment over what the chain credits.
LEMMA GenExact ==
  ASSUME BookInv, OriginInv, FileTypeOK, gen_work_report
  PROVE  BookInv'
  <1>0. sealed_files \in [Cid -> Entry] /\ rep_pc = "begin" /\ ledger \in SUBSET Cid
    BY DEF FileTypeOK, StorageTypeOK, WorkloadTypeOK, gen_work_report
  <1>a. UNCHANGED <<ledger, unsettled>>
    BY DEF gen_work_report
  <1>1. CASE ~(report_files /\ validated_srd_proof /\ validated_file_proof)
    <2>1. UNCHANGED sealed_files /\ rep_pc' = "idle"
      BY <1>1 DEF gen_work_report
    <2> QED BY <1>0, <1>a, <2>1 DEF BookInv, ListingInv, BookedInv,
               IncrementInv, TotalInv
  <1>2. CASE report_files /\ validated_srd_proof /\ validated_file_proof
    <2> DEFINE added == {c \in Listed : Status(c) = "VALID"}
               deleted == Listed \ added
               known == {c \in Files : sealed_files[c].org = "VALID"}
    <2>1. /\ rep_pc' = "upload" /\ reported_files_idx' = Listed
          /\ report' = [added |-> added, deleted |-> deleted,
                size |-> Cardinality(known) + Cardinality(added)
                         - Cardinality(deleted)]
          /\ sealed_files' = Frozen
      BY <1>2 DEF gen_work_report
    <2>2. /\ report'.added = added /\ report'.deleted = deleted
          /\ report'.size = Cardinality(known) + Cardinality(added)
                            - Cardinality(deleted)
      BY <2>1
    <2>3. \A c \in Cid :
            /\ sealed_files'[c].org = sealed_files[c].org
            /\ sealed_files[c].cur # "ABSENT" =>
                  sealed_files'[c].wait = sealed_files[c].cur
      BY <1>0, <2>1 DEF Frozen, is_file_dup_nolock, Status, Entry
    <2>4. /\ Listed \subseteq Cid
          /\ \A c \in added : /\ sealed_files[c].cur = "VALID"
                              /\ sealed_files[c].org # "VALID"
          /\ \A c \in deleted : /\ sealed_files[c].cur \in {"LOST", "DELETED"}
                                /\ sealed_files[c].org = "VALID"
      BY DEF Listed, Reportable, Files, Status
    <2>5. ListingInv'
      BY <2>1, <2>2, <2>3, <2>4 DEF ListingInv
    <2>6. BookedInv'
      BY <1>0, <1>a, <2>3 DEF BookInv, BookedInv
    <2>7. IncrementInv'
      BY <2>1, <2>2, <2>3, <2>4 DEF IncrementInv
    <2>8. ASSUME unsettled = {}
          PROVE  report'.size = Cardinality((ledger \cup added) \ deleted)
      <3>1. known = ledger
        BY <1>0, <2>8 DEF BookInv, BookedInv, OriginInv, AbsentIsForgotten, Files,
           is_file_dup_nolock, Status
      <3>2. added \in SUBSET Cid /\ deleted \in SUBSET Cid
        BY <2>4
      <3>3. added \cap ledger = {} /\ deleted \subseteq ledger
        BY <1>0, <2>4, <2>8 DEF BookInv, BookedInv
      <3> HIDE DEF added, deleted, known
      <3> QED BY <1>0, <2>2, <3>1, <3>2, <3>3, IncrementCount
    <2>9. TotalInv'
      BY <1>a, <2>2, <2>8 DEF TotalInv
    <2> QED BY <2>5, <2>6, <2>7, <2>9 DEF BookInv
  <1> QED BY <1>1, <1>2

\* Booked, or not: the answer may be lost, and the report refused.
LEMMA UploadExact ==
  ASSUME BookInv, OriginInv, FileTypeOK, Upload
  PROVE  BookInv'
  <1>1. UNCHANGED <<sealed_files, reported_files_idx>> /\ rep_pc = "upload"
    BY DEF Upload, upload_accepted, upload_unanswered, upload_refused, Accept,
       storageVars, workloadVars
  <1>2. CASE upload_accepted
    <2>1. /\ rep_pc' = "handle" /\ UNCHANGED <<report, unsettled>>
          /\ ledger' = (ledger \cup report.added) \ report.deleted
      BY <1>2 DEF upload_accepted, Accept
    <2>2. ListingInv'
      BY <1>1, <2>1 DEF BookInv, ListingInv
    <2>3. BookedInv'
      BY <1>1, <2>1 DEF BookInv, BookedInv, ListingInv
    <2> QED BY <2>1, <2>2, <2>3 DEF BookInv, IncrementInv, TotalInv
  <1>3. CASE upload_unanswered
    <2>1. /\ rep_pc' = "idle"
          /\ unsettled' = unsettled \cup report.added \cup report.deleted
          /\ ledger' = (ledger \cup report.added) \ report.deleted
      BY <1>3 DEF upload_unanswered, Accept
    <2>2. BookedInv'
      BY <1>1, <2>1 DEF BookInv, BookedInv
    <2> QED BY <2>1, <2>2 DEF BookInv, ListingInv, IncrementInv, TotalInv
  <1>4. CASE upload_refused
    <2>1. rep_pc' = "idle" /\ UNCHANGED <<unsettled, ledger>>
      BY <1>4 DEF upload_refused
    <2>2. BookedInv'
      BY <1>1, <2>1 DEF BookInv, BookedInv
    <2> QED BY <2>1, <2>2 DEF BookInv, ListingInv, IncrementInv, TotalInv
  <1> QED BY <1>2, <1>3, <1>4 DEF Upload

\* The result of a report settles the entries it froze; what it added under
\* another entry is unsettled from then on.
LEMMA HandleExact ==
  ASSUME BookInv, OriginInv, FileTypeOK, handle_report_result
  PROVE  BookInv'
  <1>1. /\ rep_pc = "handle" /\ rep_pc' = "idle" /\ ledger' = ledger
        /\ unsettled' = (unsettled \cup report.added)
                           \ {c \in reported_files_idx : IsFrozen(c)}
    BY DEF handle_report_result
  <1>2. \A c \in Cid :
          IF c \in reported_files_idx /\ sealed_files[c].cur # "ABSENT"
          THEN sealed_files'[c].org = sealed_files[c].wait
          ELSE sealed_files'[c].org = sealed_files[c].org
    BY DEF handle_report_result, is_file_dup_nolock, Status, FileTypeOK,
       StorageTypeOK, WorkloadTypeOK, Entry
  <1>3. ASSUME NEW c \in Cid \ unsettled'
        PROVE  sealed_files'[c].org = "VALID" <=> c \in ledger
    <2>1. /\ reported_files_idx = report.added \cup report.deleted
          /\ report.deleted \cap ledger = {} /\ report.added \subseteq ledger
          /\ sealed_files[c].cur = "ABSENT" =>
                sealed_files[c].org # "VALID" /\ sealed_files[c].wait = "UNVERIFIED"
      BY <1>1 DEF BookInv, ListingInv, OriginInv, ReportIsBooked, AbsentIsForgotten
    <2>2. CASE c \notin reported_files_idx
      BY <1>1, <1>2, <1>3, <2>1, <2>2 DEF BookInv, BookedInv
    <2>3. CASE c \in reported_files_idx /\ IsFrozen(c)
      <3>1. sealed_files'[c].org = sealed_files[c].wait
        BY <1>2, <2>1, <2>3 DEF IsFrozen
      <3>2. /\ c \in report.added => sealed_files[c].wait = "VALID"
            /\ c \in report.deleted => sealed_files[c].wait # "VALID"
        BY <1>1, <2>3 DEF BookInv, ListingInv, IsFrozen
      <3> QED BY <2>1, <2>3, <3>1, <3>2
    <2>4. CASE c \in reported_files_idx /\ ~IsFrozen(c)
      <3>1. c \in report.deleted /\ c \notin ledger
        BY <1>1, <1>3, <2>1, <2>4
      <3>2. sealed_files'[c].org # "VALID"
        BY <1>2, <2>1, <2>4 DEF IsFrozen
      <3> QED BY <3>1, <3>2
    <2> QED BY <2>2, <2>3, <2>4
  <1> QED BY <1>1, <1>3 DEF BookInv, ListingInv, BookedInv, IncrementInv, TotalInv

\* The operator's word about a file is right, and a report that is not booked
\* yet is not about to be exact for having heard it.
LEMMA RecoverExact ==
  ASSUME BookInv, FileTypeOK, NEW c \in Cid, recover_illegal_file(c)
  PROVE  BookInv'
  <1>1. /\ UNCHANGED <<reported_files_idx, rep_pc, report, ledger>>
        /\ c \in unsettled
        /\ \A d \in Cid \ unsettled' : d # c => d \notin unsettled
        /\ rep_pc = "upload" => unsettled' = unsettled
        /\ sealed_files[c].cur = "ABSENT" => unsettled' = unsettled
    BY DEF recover_illegal_file, is_file_dup_nolock, Status
  <1>2. \A d \in Cid : /\ sealed_files'[d].wait = sealed_files[d].wait
                       /\ d # c => sealed_files'[d].org = sealed_files[d].org
    BY DEF recover_illegal_file, FileTypeOK, StorageTypeOK, WorkloadTypeOK, Entry
  <1>3. sealed_files[c].cur # "ABSENT" =>
            (sealed_files'[c].org = "VALID" <=> c \in ledger)
    BY DEF recover_illegal_file, is_file_dup_nolock, Status, FileTypeOK,
       StorageTypeOK, WorkloadTypeOK, Entry
  <1>4. ListingInv'
    <2>1. report.added \subseteq Cid /\ report.deleted \subseteq Cid
      BY DEF FileTypeOK, Report
    <2> QED BY <1>1, <1>2, <2>1 DEF BookInv, ListingInv
  <1>5. BookedInv'
    BY <1>1, <1>2, <1>3 DEF BookInv, BookedInv
  <1>6. IncrementInv'
    BY <1>1, <1>2 DEF BookInv, IncrementInv
  <1>7. TotalInv'
    BY <1>1 DEF TotalInv
  <1> QED BY <1>4, <1>5, <1>6, <1>7 DEF BookInv

LEMMA BookStep ==
  ASSUME BookInv, OriginInv, FileTypeOK, FileNext
  PROVE  BookInv'
  <1>0. StorageTypeOK /\ sealed_files \in [Cid -> Entry]
    BY DEF FileTypeOK, StorageTypeOK, WorkloadTypeOK
  <1>1. CASE RequestStep
    <2>1. \A c \in Cid : \/ sealed_files'[c].wait = sealed_files[c].wait
                         \/ sealed_files'[c].wait = "UNVERIFIED"
      BY <1>0, <1>1, RequestStepNext, ReportedKept
    <2>2. \A c \in Cid : sealed_files'[c].org = "VALID" => sealed_files[c].org = "VALID"
      BY <1>0, <1>1, RequestStepNext, ReportedKept
    <2>3. \A c \in Cid \ unsettled' :
              sealed_files'[c].org = "VALID" <=> sealed_files[c].org = "VALID"
      BY <1>1, <2>2, RememberFrame
    <2> QED BY <1>1, <2>1, <2>3, RememberFrame, BookFrame DEF turnVars
  <1>2. CASE deal_deleted
    <2>1. \A c \in Cid : \/ sealed_files'[c].wait = sealed_files[c].wait
                         \/ sealed_files'[c].wait = "UNVERIFIED"
      BY <1>0, <1>2, DealStepNext, ReportedKept
    <2>2. UNCHANGED <<reported_files_idx, rep_pc, report, ledger, unsettled>>
      BY <1>2 DEF deal_deleted, reportVars
    <2> QED BY <1>2, <2>1, <2>2, CleaningKeepsOrigin, BookFrame
  <1>3. CASE \/ ecall_main_loop \/ validate_meaningful_file
             \/ \E c \in Cid : ValidateFile(c)
             \/ validate_srd
    <2>1. UNCHANGED <<sealed_files, reported_files_idx, rep_pc, report, ledger,
                      unsettled>>
      BY <1>3 DEF ecall_main_loop, validate_srd, validate_meaningful_file, ValidateFile,
         recall_failed, validate_tree, validate_block, judge_block, judge_tree,
         storageVars, workloadVars, reportVars
    <2> QED BY <2>1, BookFrame
  <1>4. CASE change_file_status
    <2>1. \A c \in Cid : /\ sealed_files'[c].org = sealed_files[c].org
                         /\ sealed_files'[c].wait = sealed_files[c].wait
      BY <1>0, <1>4 DEF change_file_status, Opposite, Entry
    <2> QED BY <1>4, <2>1, BookFrame DEF change_file_status
  <1>5. CASE ecall_gen_and_upload_work_report
    <2>1. UNCHANGED <<sealed_files, reported_files_idx, report, ledger, unsettled>>
      BY <1>5 DEF ecall_gen_and_upload_work_report, storageVars, workloadVars
    <2>2. rep_pc = "idle" /\ rep_pc' = "begin"
      BY <1>5 DEF ecall_gen_and_upload_work_report
    <2> QED BY <2>1, <2>2 DEF BookInv, ListingInv, BookedInv, IncrementInv, TotalInv
  <1> QED BY <1>1, <1>2, <1>3, <1>4, <1>5, GenExact, UploadExact, HandleExact,
             RecoverExact DEF FileNext, Round

LEMMA BookSquare ==
  FileTypeOK /\ OriginInv /\ BookInv /\ [FileNext]_fileVars => OriginInv' /\ BookInv'
  <1>1. ASSUME OriginInv, BookInv, UNCHANGED fileVars
        PROVE  OriginInv' /\ BookInv'
    BY <1>1 DEF OriginInv, OriginOnChain, BeingHandled, FrozenIsAdded,
       ReportIsBooked, AbsentIsForgotten, BookInv, ListingInv, BookedInv,
       IncrementInv, TotalInv, fileVars, reportVars, storageVars, workloadVars
  <1> QED BY <1>1, OriginStep, BookStep

\* Whatever requests, cleanings and verdicts run beside a work report, and
\* whether its answer arrives or not, each report is an exact increment over
\* what the chain credits, up to the files that are unsettled.
THEOREM ReportsAreExact == FileSpec => []ReportExact
  <1> QED BY BookSquare, OriginInit, BookInit, FileTypes, BookExact, PTL DEF FileSpec

-----------------------------------------------------------------------------
(* FileService implements the two books *)

\* The enclave's memory is that of the chain, in both directions, up to the
\* files that are unsettled.
THEOREM BooksAlwaysAgree == FileSpec => []BooksAgree
  <1>1. ASSUME FileTypeOK, OriginInv, BookInv
        PROVE  BooksAgree
    <2> SUFFICES ASSUME NEW c \in Cid \ unsettled
                 PROVE  c \in ledger <=> c \in Books!Expected
      BY DEF BooksAgree, Books!BooksAgree
    <2>1. Books!Expected = IF rep_pc = "handle"
                           THEN (Believed \cup report.added) \ report.deleted
                           ELSE Believed
      BY DEF Books!Expected, Progress
    <2>2. CASE rep_pc # "handle"
      BY <1>1, <2>1, <2>2 DEF BookInv, BookedInv, Believed
    <2>3. CASE rep_pc = "handle"
      <3>1. /\ reported_files_idx = report.added \cup report.deleted
            /\ report.deleted \cap ledger = {} /\ report.added \subseteq ledger
        BY <1>1, <2>3 DEF BookInv, ListingInv, OriginInv, ReportIsBooked
      <3>2. c \notin reported_files_idx => (c \in Believed <=> c \in ledger)
        BY <1>1 DEF BookInv, BookedInv, Believed
      <3> QED BY <2>1, <2>3, <3>1, <3>2
    <2> QED BY <2>2, <2>3
  <1> QED BY <1>1, BookSquare, OriginInit, BookInit, FileTypes, PTL DEF FileSpec

\* A step that changes neither book nor the report is invisible in them.
LEMMA CreditStutter ==
  ASSUME UNCHANGED <<report, ledger, unsettled>>, Progress' = Progress,
         \A c \in Cid : sealed_files'[c].org = "VALID" <=> sealed_files[c].org = "VALID"
  PROVE  UNCHANGED Books!creditVars
  <1>1. Believed' = Believed
    BY DEF Believed
  <1> QED BY <1>1 DEF Books!creditVars

\* A request forgets what it replaces or erases.
LEMMA CreditForget ==
  ASSUME FileTypeOK, RequestStep
  PROVE  Books!Forget
  <1>0. StorageTypeOK /\ sealed_files \in [Cid -> Entry]
    BY DEF FileTypeOK, StorageTypeOK, WorkloadTypeOK
  <1>1. \A c \in Cid : sealed_files'[c].org = "VALID" => sealed_files[c].org = "VALID"
    BY <1>0, RequestStepNext, ReportedKept
  <1> DEFINE lost == {c \in Cid : sealed_files[c].org = "VALID" /\ sealed_files'[c].org # "VALID"}
  <1>2. unsettled' = unsettled \cup lost /\ UNCHANGED <<report, rep_pc, ledger>>
    BY RememberFrame DEF turnVars
  <1>3. lost \in SUBSET Believed /\ Believed' = Believed \ lost
    BY <1>1 DEF Believed
  <1>4. Progress' = Progress
    BY <1>2 DEF Progress
  <1> HIDE DEF lost
  <1> QED BY <1>2, <1>3, <1>4 DEF Books!Forget

\* The report lists as added what is believed missing, and as deleted what is
\* believed credited.
LEMMA CreditWrite ==
  ASSUME FileTypeOK, OriginInv, gen_work_report
  PROVE  [Books!CreditNext]_(Books!creditVars)
  <1>0. sealed_files \in [Cid -> Entry] /\ rep_pc = "begin"
    BY DEF FileTypeOK, StorageTypeOK, WorkloadTypeOK, gen_work_report
  <1>a. UNCHANGED <<ledger, unsettled>>
    BY DEF gen_work_report
  <1>1. CASE ~(report_files /\ validated_srd_proof /\ validated_file_proof)
    <2>1. UNCHANGED <<sealed_files, report>> /\ Progress' = Progress
      BY <1>0, <1>1 DEF gen_work_report, Progress
    <2> QED BY <1>a, <2>1, CreditStutter
  <1>2. CASE report_files /\ validated_srd_proof /\ validated_file_proof
    <2> DEFINE added == {c \in Listed : Status(c) = "VALID"}
               deleted == Listed \ added
               known == {c \in Files : sealed_files[c].org = "VALID"}
               size == Cardinality(known) + Cardinality(added) - Cardinality(deleted)
    <2>1. /\ rep_pc' = "upload" /\ sealed_files' = Frozen
          /\ report' = [added |-> added, deleted |-> deleted, size |-> size]
      BY <1>2 DEF gen_work_report
    <2>2. Believed' = Believed
      BY <1>0, <2>1 DEF Believed, Frozen, Entry
    <2>3. known = Believed
      BY DEF Believed, Files, is_file_dup_nolock, Status, OriginInv, AbsentIsForgotten
    <2>4. added \in SUBSET (Cid \ Believed) /\ deleted \in SUBSET Believed
      BY DEF Listed, Reportable, Files, Status, Believed
    <2>5. Progress = "none" /\ Progress' = "sent"
      BY <1>0, <2>1 DEF Progress
    <2>6. size = Books!Cardinality(Believed) + Books!Cardinality(added)
                 - Books!Cardinality(deleted)
      <3>1. \A S : Books!Cardinality(S) = Cardinality(S)
        BY DEF Books!Cardinality, Cardinality
      <3> HIDE DEF added, deleted, known
      <3> QED BY <2>3, <3>1
    <2>7. [at |-> Progress', added |-> report'.added, deleted |-> report'.deleted,
           size |-> report'.size] =
          [at |-> "sent", added |-> added, deleted |-> deleted,
           size |-> Books!Cardinality(Believed) + Books!Cardinality(added)
                    - Books!Cardinality(deleted)]
      <3> HIDE DEF added, deleted, size
      <3> QED BY <2>1, <2>5, <2>6
    <2> HIDE DEF added, deleted, known, size
    <2>8. Books!Write
      BY <1>a, <2>2, <2>4, <2>5, <2>7 DEF Books!Write
    <2> QED BY <2>8 DEF Books!CreditNext
  <1> QED BY <1>1, <1>2

LEMMA CreditUpload ==
  ASSUME Upload
  PROVE  Books!Book \/ Books!Lose \/ Books!Refuse
  <1>1. Believed' = Believed /\ Progress = "sent"
    BY DEF Upload, upload_accepted, upload_unanswered, upload_refused, Accept,
       Believed, Progress, storageVars, workloadVars
  <1>2. CASE upload_accepted
    <2>1. /\ Progress' = "booked" /\ UNCHANGED <<report, unsettled>>
          /\ ledger' = (ledger \cup report.added) \ report.deleted
      BY <1>2 DEF upload_accepted, Accept, Progress
    <2> QED BY <1>1, <2>1 DEF Books!Book, Books!Booked
  <1>3. CASE upload_unanswered
    <2>1. /\ Progress' = "none" /\ report' = NoReport
          /\ unsettled' = unsettled \cup report.added \cup report.deleted
          /\ ledger' = (ledger \cup report.added) \ report.deleted
      BY <1>3 DEF upload_unanswered, Accept, Progress
    <2> QED BY <1>1, <2>1 DEF Books!Lose, Books!Booked, Books!Mentioned,
               Books!NoIncrement, NoReport
  <1>4. CASE upload_refused
    <2>1. /\ Progress' = "none" /\ report' = NoReport
          /\ UNCHANGED <<ledger, unsettled>>
      BY <1>4 DEF upload_refused, Progress
    <2> QED BY <1>1, <2>1 DEF Books!Refuse, Books!NoIncrement, NoReport
  <1> QED BY <1>2, <1>3, <1>4 DEF Upload

\* The result is taken over for the entries the report froze.
LEMMA CreditLearn ==
  ASSUME FileTypeOK, OriginInv, BookInv, handle_report_result
  PROVE  Books!Learn
  <1> DEFINE frozen == {c \in reported_files_idx : IsFrozen(c)}
  <1>1. /\ rep_pc = "handle" /\ rep_pc' = "idle" /\ report' = NoReport
        /\ unsettled' = (unsettled \cup report.added) \ frozen
        /\ ledger' = ledger
    BY DEF handle_report_result
  <1>2. \A c \in Cid :
          IF c \in reported_files_idx /\ sealed_files[c].cur # "ABSENT"
          THEN sealed_files'[c].org = sealed_files[c].wait
          ELSE sealed_files'[c].org = sealed_files[c].org
    BY DEF handle_report_result, is_file_dup_nolock, Status, FileTypeOK,
       StorageTypeOK, WorkloadTypeOK, Entry
  <1>3. /\ reported_files_idx = report.added \cup report.deleted
        /\ reported_files_idx \subseteq Cid
    BY <1>1 DEF BookInv, ListingInv, FileTypeOK
  <1>4. ASSUME NEW c \in Cid
        PROVE  c \in Believed' <=>
                  c \in (Believed \ reported_files_idx) \cup (report.added \cap frozen)
    <2>1. sealed_files[c].cur = "ABSENT" =>
              sealed_files[c].org # "VALID" /\ sealed_files[c].wait = "UNVERIFIED"
      BY DEF OriginInv, AbsentIsForgotten
    <2>2. CASE c \notin reported_files_idx
      BY <1>2, <1>3, <2>2 DEF Believed
    <2>3. CASE c \in reported_files_idx
      <3>1. sealed_files'[c].org = "VALID" <=> sealed_files[c].wait = "VALID"
        BY <1>2, <2>1, <2>3
      <3>2. c \in frozen <=> sealed_files[c].wait # "UNVERIFIED"
        BY <2>3 DEF IsFrozen
      <3>3. /\ c \in report.added => sealed_files[c].wait \in {"VALID", "UNVERIFIED"}
            /\ sealed_files[c].wait = "VALID" => c \in report.added
        BY <1>1, <1>3, <2>3 DEF BookInv, ListingInv
      <3> QED BY <2>3, <3>1, <3>2, <3>3 DEF Believed
    <2> QED BY <2>2, <2>3
  <1>5. Believed' = (Believed \ reported_files_idx) \cup (report.added \cap frozen)
    <2>1. /\ Believed' \subseteq Cid
          /\ (Believed \ reported_files_idx) \cup (report.added \cap frozen) \subseteq Cid
      BY <1>3 DEF Believed
    <2> QED BY <1>4, <2>1
  <1>6. Progress = "booked" /\ Progress' = "none"
    BY <1>1 DEF Progress
  <1>7. frozen \in SUBSET reported_files_idx
    OBVIOUS
  <1> HIDE DEF frozen
  <1> QED BY <1>1, <1>3, <1>5, <1>6, <1>7 DEF Books!Learn, Books!Mentioned,
             Books!NoIncrement, NoReport

LEMMA CreditSettle ==
  ASSUME FileTypeOK, NEW c \in Cid, recover_illegal_file(c)
  PROVE  Books!Settle(c) \/ UNCHANGED Books!creditVars
  <1>0. sealed_files \in [Cid -> Entry]
    BY DEF FileTypeOK, StorageTypeOK, WorkloadTypeOK
  <1>1. c \in unsettled /\ UNCHANGED <<rep_pc, report, ledger>> /\ Progress' = Progress
    BY DEF recover_illegal_file, Progress
  <1>2. CASE Status(c) = "ABSENT"
    <2>1. UNCHANGED <<sealed_files, unsettled>>
      BY <1>2 DEF recover_illegal_file, is_file_dup_nolock
    <2> QED BY <1>1, <2>1, CreditStutter
  <1>3. CASE Status(c) # "ABSENT"
    <2>1. unsettled' = IF rep_pc # "upload" THEN unsettled \ {c} ELSE unsettled
      BY <1>3 DEF recover_illegal_file, is_file_dup_nolock
    <2>2. /\ sealed_files'[c].org = "VALID" <=> c \in ledger
          /\ \A d \in Cid : d # c => sealed_files'[d].org = sealed_files[d].org
      BY <1>0, <1>3 DEF recover_illegal_file, is_file_dup_nolock, Entry
    <2>3. Believed' = IF c \in ledger THEN Believed \cup {c} ELSE Believed \ {c}
      BY <2>2 DEF Believed
    <2>4. rep_pc = "upload" <=> Progress = "sent"
      BY DEF Progress
    <2>5. unsettled' = IF Progress = "sent" THEN unsettled ELSE unsettled \ {c}
      BY <2>1, <2>4
    <2> QED BY <1>1, <2>3, <2>5 DEF Books!Settle
  <1> QED BY <1>2, <1>3

LEMMA CreditStep ==
  ASSUME FileTypeOK, OriginInv, BookInv, FileNext
  PROVE  [Books!CreditNext]_(Books!creditVars)
  <1>0. sealed_files \in [Cid -> Entry]
    BY DEF FileTypeOK, StorageTypeOK, WorkloadTypeOK
  <1>1. CASE RequestStep
    BY <1>1, CreditForget DEF Books!CreditNext
  <1>2. CASE Round
    <2>1. UNCHANGED <<report, ledger, unsettled, rep_pc>>
      BY <1>2 DEF Round, ecall_main_loop, validate_srd, validate_meaningful_file,
         ValidateFile, recall_failed, validate_tree, validate_block, judge_block,
         judge_tree, change_file_status, deal_deleted, reportVars
    <2>2. \A c \in Cid : sealed_files'[c].org = "VALID" <=> sealed_files[c].org = "VALID"
      <3>1. CASE deal_deleted
        BY <3>1, CleaningKeepsOrigin
      <3>2. CASE change_file_status
        BY <1>0, <3>2 DEF change_file_status, Opposite, Entry
      <3>3. CASE ~(deal_deleted \/ change_file_status)
        BY <1>2, <3>3 DEF Round, ecall_main_loop, validate_srd,
           validate_meaningful_file, ValidateFile, recall_failed, validate_tree,
           validate_block, judge_block, judge_tree, storageVars, workloadVars
      <3> QED BY <3>1, <3>2, <3>3
    <2>3. Progress' = Progress
      BY <2>1 DEF Progress
    <2> QED BY <2>1, <2>2, <2>3, CreditStutter
  <1>3. CASE ecall_gen_and_upload_work_report
    <2>1. UNCHANGED <<sealed_files, report, ledger, unsettled>>
      BY <1>3 DEF ecall_gen_and_upload_work_report, storageVars, workloadVars
    <2>2. Progress' = Progress
      BY <1>3 DEF ecall_gen_and_upload_work_report, Progress
    <2> QED BY <2>1, <2>2, CreditStutter
  <1>4. CASE gen_work_report
    BY <1>4, CreditWrite
  <1>5. CASE Upload
    BY <1>5, CreditUpload DEF Books!CreditNext
  <1>6. CASE handle_report_result
    BY <1>6, CreditLearn DEF Books!CreditNext
  <1>7. CASE \E c \in Cid : recover_illegal_file(c)
    BY <1>7, CreditSettle DEF Books!CreditNext
  <1> QED BY <1>1, <1>2, <1>3, <1>4, <1>5, <1>6, <1>7 DEF FileNext

\* Requests, rounds, cleanings and reports with three statuses per file
\* implement the two books: every step is one step of the books, or none.
THEOREM ReportsKeepBooks == FileSpec => ImplementsCredit
  <1>1. FileInit => Books!CreditInit
    BY DEF FileInit, StorageInit, WorkloadInit, NoEntry, Books!CreditInit,
       Books!NoIncrement, NoReport, Believed, Progress
  <1>2. FileTypeOK /\ OriginInv /\ BookInv /\ [FileNext]_fileVars
            => [Books!CreditNext]_(Books!creditVars)
    <2>1. ASSUME UNCHANGED fileVars
          PROVE  UNCHANGED Books!creditVars
      BY <2>1, CreditStutter DEF fileVars, reportVars, storageVars, workloadVars, Progress
    <2> QED BY <2>1, CreditStep
  <1> QED BY <1>1, <1>2, BookSquare, OriginInit, BookInit, FileTypes, PTL
          DEF FileSpec, ImplementsCredit, Books!CreditSpec

-----------------------------------------------------------------------------
(* The statistics *)

Counted(s) == {c \in Cid : Status(c) = s}

\* The requests that have inserted an entry and not counted it yet, ...
StartPc2 == {"start_pending", "start_exceed"}
Starting(s) == {t \in Thread : s = "PENDING" /\ thread[t].pc \in StartPc2}

\* ... and those that have marked an entry deleted and count it still.
Deleting(s) == {t \in Thread : thread[t].pc = "delete_data" /\ thread[t].old = s}

Balance(s) ==
    Cardinality(Counted(s)) - Cardinality(Starting(s)) + Cardinality(Deleting(s))

\* SpecAtRest made inductive: between two critical sections of a request the
\* statistics are off by what the request has still to count.
BalanceInv == ~miscounted => \A s \in SpecStatus : wl_file_spec[s] = Balance(s)

Bit(P) == IF P THEN 1 ELSE 0

\* What a request in the state r has still to count of the status s.
Owes(r, s) == Bit(r.pc = "delete_data" /\ r.old = s)
              - Bit(s = "PENDING" /\ r.pc \in StartPc2)

LEMMA BalanceRest ==
  ASSUME BalanceInv, FileTypeOK
  PROVE  SpecAtRest
  <1> SUFFICES ASSUME ~miscounted, \A t \in Thread : Idle(t), NEW s \in SpecStatus
               PROVE  wl_file_spec[s] = Cardinality({c \in Cid : Status(c) = s})
    BY DEF SpecAtRest
  <1>1. Starting(s) = {} /\ Deleting(s) = {}
    BY DEF Starting, StartPc2, Deleting, Idle
  <1>2. wl_file_spec[s] = Cardinality(Counted(s)) - 0 + 0
    BY <1>1, FS_EmptySet DEF BalanceInv, Balance
  <1>3. Cardinality(Counted(s)) \in Nat
    BY CardType DEF Counted
  <1> QED BY <1>2, <1>3 DEF Counted

\* A set that differs from another one in x only.
LEMMA DiffersInOne ==
  ASSUME NEW S, NEW T, NEW x, IsFiniteSet(S), S \ {x} = T \ {x}
  PROVE  Cardinality(T) = Cardinality(S) + Bit(x \in T) - Bit(x \in S)
  <1>1. Cardinality(S) \in Nat
    BY FS_CardinalityType
  <1>2. CASE x \in S /\ x \notin T
    <2>1. T = S \ {x}
      BY <1>2
    <2>2. Cardinality(T) = Cardinality(S) - 1
      BY <1>2, <2>1, FS_RemoveElement
    <2> QED BY <1>1, <1>2, <2>2 DEF Bit
  <1>3. CASE x \notin S /\ x \in T
    <2>1. T = S \cup {x}
      BY <1>3
    <2>2. Cardinality(T) = Cardinality(S) + 1
      BY <1>3, <2>1, FS_AddElement
    <2> QED BY <1>1, <1>3, <2>2 DEF Bit
  <1>4. CASE x \in S <=> x \in T
    <2>1. S = T
      BY <1>4
    <2> QED BY <1>1, <1>4, <2>1 DEF Bit
  <1> QED BY <1>2, <1>3, <1>4

\* The balance moves with the one entry and the one request a step works on.
LEMMA BalanceMoves ==
  ASSUME FileTypeOK, NEW t \in Thread, NEW c \in Cid, NEW s \in SpecStatus,
         \A d \in Cid : d # c => sealed_files'[d].cur = sealed_files[d].cur,
         \A u \in Thread : u # t => thread'[u] = thread[u]
  PROVE  Balance(s)' = Balance(s) + Bit(sealed_files'[c].cur = s) - Bit(Status(c) = s)
                       + Owes(thread'[t], s) - Owes(thread[t], s)
  <1>1. /\ IsFiniteSet(Counted(s)) /\ IsFiniteSet(Starting(s)) /\ IsFiniteSet(Deleting(s))
        /\ Cardinality(Counted(s)) \in Nat /\ Cardinality(Starting(s)) \in Nat
        /\ Cardinality(Deleting(s)) \in Nat
    BY FileServiceAssumption, FS_Subset, FS_CardinalityType
    DEF Counted, Starting, Deleting
  <1>2. /\ Counted(s) \ {c} = Counted(s)' \ {c}
        /\ Starting(s) \ {t} = Starting(s)' \ {t}
        /\ Deleting(s) \ {t} = Deleting(s)' \ {t}
    BY DEF Counted, Status, Starting, Deleting
  <1>3. /\ Cardinality(Counted(s)') = Cardinality(Counted(s))
              + Bit(c \in Counted(s)') - Bit(c \in Counted(s))
        /\ Cardinality(Starting(s)') = Cardinality(Starting(s))
              + Bit(t \in Starting(s)') - Bit(t \in Starting(s))
        /\ Cardinality(Deleting(s)') = Cardinality(Deleting(s))
              + Bit(t \in Deleting(s)') - Bit(t \in Deleting(s))
    BY <1>1, <1>2, DiffersInOne
  <1>4. /\ c \in Counted(s)' <=> sealed_files'[c].cur = s
        /\ c \in Counted(s) <=> Status(c) = s
        /\ t \in Starting(s)' <=> s = "PENDING" /\ thread'[t].pc \in StartPc2
        /\ t \in Starting(s) <=> s = "PENDING" /\ thread[t].pc \in StartPc2
        /\ t \in Deleting(s)' <=> thread'[t].pc = "delete_data" /\ thread'[t].old = s
        /\ t \in Deleting(s) <=> thread[t].pc = "delete_data" /\ thread[t].old = s
    BY DEF Counted, Status, Starting, Deleting
  <1>5. \A P \in BOOLEAN : Bit(P) \in Int
    BY DEF Bit
  <1> DEFINE k == Cardinality(Counted(s))
             m == Cardinality(Starting(s))
             n == Cardinality(Deleting(s))
             k2 == Cardinality(Counted(s)')
             m2 == Cardinality(Starting(s)')
             n2 == Cardinality(Deleting(s)')
  <1>6. /\ k2 = k + Bit(sealed_files'[c].cur = s) - Bit(Status(c) = s)
        /\ m2 = m + Bit(s = "PENDING" /\ thread'[t].pc \in StartPc2)
                  - Bit(s = "PENDING" /\ thread[t].pc \in StartPc2)
        /\ n2 = n + Bit(thread'[t].pc = "delete_data" /\ thread'[t].old = s)
                  - Bit(thread[t].pc = "delete_data" /\ thread[t].old = s)
    BY <1>3, <1>4 DEF Bit
  <1>7. Balance(s) = k - m + n /\ Balance(s)' = k2 - m2 + n2
    BY DEF Balance
  <1>8. k \in Int /\ m \in Int /\ n \in Int
    BY <1>1
  <1> HIDE DEF k, m, n, k2, m2, n2
  <1> QED BY <1>6, <1>7, <1>8 DEF Owes, Bit

LEMMA BalanceInit == FileInit => BalanceInv
  <1> SUFFICES ASSUME FileInit, NEW s \in SpecStatus
               PROVE  wl_file_spec[s] = Balance(s)
    BY DEF BalanceInv
  <1>1. /\ \A c \in Cid : Status(c) = "ABSENT"
        /\ \A t \in Thread : thread[t].pc = "idle"
        /\ wl_file_spec[s] = 0
    BY DEF FileInit, StorageInit, WorkloadInit, Status, NoEntry, Fresh
  <1>2. Counted(s) = {} /\ Starting(s) = {} /\ Deleting(s) = {}
    BY <1>1 DEF Counted, Starting, StartPc2, Deleting, SpecStatus
  <1> QED BY <1>1, <1>2, FS_EmptySet DEF Balance

\* A step keeps the balance when the statistics move with it, ...
LEMMA BalanceMoved ==
  ASSUME FileTypeOK, BalanceInv, NEW t \in Thread, NEW c \in Cid,
         \A d \in Cid : d # c => sealed_files'[d].cur = sealed_files[d].cur,
         \A u \in Thread : u # t => thread'[u] = thread[u],
         miscounted => miscounted',
         ~miscounted' => \A s \in SpecStatus :
             wl_file_spec'[s] = wl_file_spec[s]
                 + Bit(sealed_files'[c].cur = s) - Bit(Status(c) = s)
                 + Owes(thread'[t], s) - Owes(thread[t], s)
  PROVE  BalanceInv'
  <1> SUFFICES ASSUME ~miscounted', NEW s \in SpecStatus
               PROVE  wl_file_spec'[s] = Balance(s)'
    BY DEF BalanceInv
  <1>1. wl_file_spec[s] = Balance(s)
    BY DEF BalanceInv
  <1> QED BY <1>1, BalanceMoves

\* ... and when there is nothing to count, ...
LEMMA BalanceQuiet ==
  ASSUME FileTypeOK, BalanceInv, NEW t \in Thread,
         UNCHANGED <<sealed_files, wl_file_spec>>,
         \A u \in Thread : u # t => thread'[u] = thread[u],
         thread[t].pc \notin StartPc2 \cup {"delete_data"},
         thread'[t].pc \notin StartPc2 \cup {"delete_data"},
         miscounted => miscounted'
  PROVE  BalanceInv'
  <1>1. PICK c \in Cid : TRUE
    BY StorageAssumption
  <1>2. \A s : Owes(thread[t], s) = 0 /\ Owes(thread'[t], s) = 0
    BY DEF Owes, Bit
  <1>3. \A s \in SpecStatus : wl_file_spec[s] \in Int
    BY DEF FileTypeOK, StorageTypeOK, WorkloadTypeOK
  <1>4. \A s \in SpecStatus :
             wl_file_spec'[s] = wl_file_spec[s]
                 + Bit(sealed_files'[c].cur = s) - Bit(Status(c) = s)
                 + Owes(thread'[t], s) - Owes(thread[t], s)
    BY <1>2, <1>3 DEF Status, Bit
  <1> QED BY <1>4, BalanceMoved

\* ... or when no counted entry and no request changes.
LEMMA BalanceKept ==
  ASSUME FileTypeOK, BalanceInv,
         UNCHANGED <<wl_file_spec, thread>>, miscounted => miscounted',
         \A c \in Cid : \/ sealed_files'[c].cur = Status(c)
                        \/ Status(c) = "DELETED" /\ sealed_files'[c].cur = "ABSENT"
  PROVE  BalanceInv'
  <1> SUFFICES ASSUME ~miscounted', NEW s \in SpecStatus
               PROVE  wl_file_spec'[s] = Balance(s)'
    BY DEF BalanceInv
  <1>1. Counted(s)' = Counted(s) /\ Starting(s)' = Starting(s) /\ Deleting(s)' = Deleting(s)
    BY DEF Counted, Status, Starting, Deleting, SpecStatus
  <1>2. wl_file_spec[s] = Balance(s)
    BY DEF BalanceInv
  <1> QED BY <1>1, <1>2 DEF Balance

LEMMA BalanceCall ==
  ASSUME FileTypeOK, BalanceInv, NEW t \in Thread, Call(t), miscounted => miscounted'
  PROVE  BalanceInv'
  <1>1. thread \in [Thread -> ThreadState] /\ thread[t].pc = "idle"
    BY DEF FileTypeOK, StorageTypeOK, Call, storage_seal_file_start,
       seal_empty_block, storage_seal_file, storage_seal_file_end,
       storage_delete_file, Request, Idle
  <1>2. UNCHANGED <<sealed_files, wl_file_spec>>
    BY DEF Call, storage_seal_file_start, seal_empty_block, storage_seal_file,
       storage_seal_file_end, storage_delete_file, workloadVars
  <1> DEFINE Called == /\ \A u \in Thread : u # t => thread'[u] = thread[u]
                       /\ thread'[t].pc \in {"idle", "start_begin", "seal_begin",
                                     "clean_pending", "end_check", "delete_mark"}
  <1>3. Called
    <2> SUFFICES ASSUME NEW c \in Cid,
                        \/ storage_seal_file_start(t, c)
                        \/ seal_empty_block(t, c)
                        \/ \E b \in Block, link \in BOOLEAN : storage_seal_file(t, c, b, link)
                        \/ storage_seal_file_end(t, c)
                        \/ storage_delete_file(t, c)
                 PROVE  Called
      BY DEF Call
    <2>1. CASE storage_seal_file_start(t, c)
      BY <1>1, <2>1 DEF storage_seal_file_start, Enter, Fresh
    <2>2. CASE seal_empty_block(t, c)
      BY <1>1, <2>2 DEF seal_empty_block
    <2>3. ASSUME NEW b \in Block, NEW link \in BOOLEAN, storage_seal_file(t, c, b, link)
          PROVE  Called
      BY <1>1, <2>3 DEF storage_seal_file, Fresh
    <2>4. CASE storage_seal_file_end(t, c)
      BY <1>1, <2>4 DEF storage_seal_file_end, CopyPending, Fresh
    <2>5. CASE storage_delete_file(t, c)
      BY <1>1, <2>5 DEF storage_delete_file, Enter, Fresh
    <2> QED BY <2>1, <2>2, <2>3, <2>4, <2>5
  <1> QED BY <1>1, <1>2, <1>3, BalanceQuiet DEF StartPc2

LEMMA OwesOf ==
  ASSUME NEW r, NEW s
  PROVE  /\ r.pc \notin StartPc2 \cup {"delete_data"} => Owes(r, s) = 0
         /\ r.pc \in StartPc2 /\ s = "PENDING" => Owes(r, s) = -1
         /\ r.pc \in StartPc2 /\ s # "PENDING" => Owes(r, s) = 0
         /\ r.pc = "delete_data" /\ r.old = s => Owes(r, s) = 1
         /\ r.pc = "delete_data" /\ r.old # s => Owes(r, s) = 0
  <1>1. CASE r.pc \notin StartPc2 \cup {"delete_data"}
    BY <1>1 DEF Owes, Bit, StartPc2
  <1>2. CASE r.pc \in StartPc2
    BY <1>2 DEF Owes, Bit, StartPc2
  <1>3. CASE r.pc = "delete_data"
    BY <1>3 DEF Owes, Bit, StartPc2
  <1> QED BY <1>1, <1>2, <1>3 DEF StartPc2

\* The steps of a request that counts, one critical section each.
LEMMA BalanceContinue ==
  ASSUME FileTypeOK, BalanceInv, NEW t \in Thread, Continue(t), Remember
  PROVE  BalanceInv'
  <1>0. /\ sealed_files \in [Cid -> Entry]
        /\ wl_file_spec \in [SpecStatus -> Int]
        /\ thread \in [Thread -> ThreadState]
        /\ thread[t] \in ThreadState /\ On(t) \in Cid
        /\ thread[t].pc \in Pc /\ thread[t].old \in FileStatus
        /\ Status(On(t)) \in FileStatus \cup {"ABSENT"}
        /\ miscounted => miscounted'
    BY DEF FileTypeOK, StorageTypeOK, WorkloadTypeOK, ThreadState, On, Status,
       Entry, Remember
  <1>1. CASE start_begin(t)
    <2>1. CASE UNCHANGED sealed_files
      <3>1. Return(t)
        BY <1>0, <1>1, <2>1 DEF start_begin, check_seal_file_dup, is_file_dup_nolock,
           Status, PendingEntry, NoEntry, Entry
      <3> QED BY <1>0, <1>1, <2>1, <3>1, BalanceQuiet
              DEF start_begin, Return, Fresh, At, StartPc2
    <2>2. CASE /\ sealed_files' = [sealed_files EXCEPT ![On(t)] = PendingEntry]
               /\ Status(On(t)) \in {"ABSENT", "DELETED"}
               /\ Goto(t, "start_pending")
      <3>1. /\ sealed_files'[On(t)].cur = "PENDING"
            /\ \A d \in Cid : d # On(t) => sealed_files'[d].cur = sealed_files[d].cur
            /\ thread'[t].pc = "start_pending" /\ thread[t].pc = "start_begin"
            /\ \A u \in Thread : u # t => thread'[u] = thread[u]
            /\ wl_file_spec' = wl_file_spec
        BY <1>0, <1>1, <2>2 DEF start_begin, At, Goto, PendingEntry, NoEntry
      <3>2. \A s \in SpecStatus :
               /\ Owes(thread[t], s) = 0
               /\ Owes(thread'[t], s) = 0 - Bit(s = "PENDING")
               /\ Bit(Status(On(t)) = s) = 0
               /\ Bit(sealed_files'[On(t)].cur = s) = Bit(s = "PENDING")
        BY <3>1, <2>2, OwesOf DEF Bit, StartPc2, SpecStatus
      <3>3. \A s \in SpecStatus : wl_file_spec[s] \in Int /\ Bit(s = "PENDING") \in Int
        BY <1>0 DEF Bit
      <3> QED BY <1>0, <3>1, <3>2, <3>3, BalanceMoved
    <2> QED BY <1>1, <2>1, <2>2 DEF start_begin, check_seal_file_dup,
               is_file_dup_nolock
  <1>2. CASE start_pending(t)
    <2>1. CASE Goto(t, "start_exceed") /\ UNCHANGED wl_file_spec
      <3>1. /\ thread'[t].pc = "start_exceed" /\ thread[t].pc = "start_pending"
            /\ \A u \in Thread : u # t => thread'[u] = thread[u]
            /\ UNCHANGED <<sealed_files, wl_file_spec>>
        BY <1>0, <1>2, <2>1 DEF start_pending, At, Goto
      <3>2. \A s : Owes(thread'[t], s) = Owes(thread[t], s) /\ Owes(thread[t], s) \in Int
        BY <3>1, OwesOf DEF Bit, StartPc2
      <3>3. \A s \in SpecStatus : /\ wl_file_spec[s] \in Int
                                  /\ Bit(Status(On(t)) = s) \in Int
        BY <1>0 DEF Bit
      <3> QED BY <1>0, <3>1, <3>2, <3>3, BalanceMoved DEF Status
    <2>2. CASE /\ wl_file_spec' = set_file_spec(wl_file_spec, "PENDING", 1)
               /\ Return(t)
      <3>1. /\ thread'[t].pc = "idle" /\ thread[t].pc = "start_pending"
            /\ \A u \in Thread : u # t => thread'[u] = thread[u]
            /\ UNCHANGED sealed_files
        BY <1>0, <1>2, <2>2 DEF start_pending, At, Return, Fresh
      <3>2. \A s : /\ Owes(thread'[t], s) = 0
                   /\ Owes(thread[t], s) = 0 - Bit(s = "PENDING")
        BY <3>1, OwesOf DEF Bit, StartPc2
      <3>3. \A s \in SpecStatus : /\ wl_file_spec[s] \in Int
                                  /\ Bit(Status(On(t)) = s) \in Int
                                  /\ wl_file_spec'[s] = wl_file_spec[s] + Bit(s = "PENDING")
        BY <1>0, <2>2 DEF Bit, set_file_spec, SpecStatus
      <3> QED BY <1>0, <3>1, <3>2, <3>3, BalanceMoved DEF Status, Bit
    <2> QED BY <1>2, <2>1, <2>2 DEF start_pending
  <1>3. CASE start_exceed(t)
    <2>1. /\ sealed_files'[On(t)].cur = "ABSENT"
          /\ \A d \in Cid : d # On(t) => sealed_files'[d].cur = sealed_files[d].cur
          /\ thread'[t].pc = "idle" /\ thread[t].pc = "start_exceed"
          /\ \A u \in Thread : u # t => thread'[u] = thread[u]
          /\ wl_file_spec' = wl_file_spec
      BY <1>0, <1>3 DEF start_exceed, del_files, At, Return, Fresh, NoEntry
    <2>2. ~miscounted' => Status(On(t)) = "PENDING"
      BY <2>1 DEF Remember
    <2>3. \A s \in SpecStatus :
             /\ Owes(thread'[t], s) = 0
             /\ Owes(thread[t], s) = 0 - Bit(s = "PENDING")
             /\ Bit(sealed_files'[On(t)].cur = s) = 0
             /\ ~miscounted' => Bit(Status(On(t)) = s) = Bit(s = "PENDING")
      BY <2>1, <2>2, OwesOf DEF Bit, StartPc2, SpecStatus
    <2>4. \A s \in SpecStatus : wl_file_spec[s] \in Int /\ Bit(s = "PENDING") \in Int
      BY <1>0 DEF Bit
    <2> QED BY <1>0, <2>1, <2>3, <2>4, BalanceMoved
  <1>4. CASE clean_entry(t)
    <2>1. /\ thread'[t].pc = "idle" /\ thread[t].pc = "clean_entry"
          /\ \A u \in Thread : u # t => thread'[u] = thread[u]
      BY <1>0, <1>4 DEF clean_entry, At, Return, Fresh
    <2>2. CASE Status(On(t)) # "PENDING"
      BY <1>0, <1>4, <2>1, <2>2, BalanceQuiet DEF clean_entry, StartPc2
    <2>3. CASE Status(On(t)) = "PENDING"
      <3>1. /\ sealed_files'[On(t)].cur = "ABSENT"
            /\ \A d \in Cid : d # On(t) => sealed_files'[d].cur = sealed_files[d].cur
            /\ wl_file_spec' = set_file_spec(wl_file_spec, "PENDING", -1)
        BY <1>0, <1>4, <2>3 DEF clean_entry, del_files, NoEntry
      <3>2. \A s \in SpecStatus :
               /\ Owes(thread'[t], s) = 0 /\ Owes(thread[t], s) = 0
               /\ Bit(sealed_files'[On(t)].cur = s) = 0
               /\ Bit(Status(On(t)) = s) = Bit(s = "PENDING")
        BY <2>1, <2>3, <3>1, OwesOf DEF Bit, StartPc2, SpecStatus
      <3>3. \A s \in SpecStatus : /\ wl_file_spec[s] \in Int /\ Bit(s = "PENDING") \in Int
                                  /\ wl_file_spec'[s] = wl_file_spec[s] - Bit(s = "PENDING")
        BY <1>0, <3>1 DEF Bit, set_file_spec, SpecStatus
      <3> QED BY <1>0, <2>1, <3>1, <3>2, <3>3, BalanceMoved
    <2> QED BY <2>2, <2>3
  <1>5. CASE end_add(t)
    <2>1. /\ sealed_files'[On(t)].cur = "VALID"
          /\ \A d \in Cid : d # On(t) => sealed_files'[d].cur = sealed_files[d].cur
          /\ thread'[t].pc = "end_pending" /\ thread[t].pc = "end_add"
          /\ \A u \in Thread : u # t => thread'[u] = thread[u]
          /\ wl_file_spec' = set_file_spec(set_file_spec(wl_file_spec, "PENDING", -1),
                                           "VALID", 1)
      BY <1>0, <1>5 DEF end_add, At, Goto, SealedEntry
    <2>2. ~miscounted' => Status(On(t)) = "PENDING"
      BY <2>1 DEF Remember
    <2>3. \A s \in SpecStatus :
             /\ Owes(thread'[t], s) = 0 /\ Owes(thread[t], s) = 0
             /\ Bit(sealed_files'[On(t)].cur = s) = Bit(s = "VALID")
             /\ ~miscounted' => Bit(Status(On(t)) = s) = Bit(s = "PENDING")
      BY <2>1, <2>2, OwesOf DEF Bit, StartPc2, SpecStatus
    <2>4. \A s \in SpecStatus :
             /\ wl_file_spec[s] \in Int
             /\ Bit(s = "PENDING") \in Int /\ Bit(s = "VALID") \in Int
             /\ wl_file_spec'[s] = wl_file_spec[s] + Bit(s = "VALID") - Bit(s = "PENDING")
      BY <1>0, <2>1 DEF Bit, set_file_spec, SpecStatus
    <2> QED BY <1>0, <2>1, <2>3, <2>4, BalanceMoved
  <1>6. CASE delete_mark(t)
    <2>1. CASE Status(On(t)) \in {"ABSENT", "DELETED"}
      BY <1>0, <1>6, <2>1, BalanceQuiet DEF delete_mark, At, Return, Fresh, StartPc2
    <2>2. CASE Status(On(t)) \notin {"ABSENT", "DELETED"}
      <3>1. /\ sealed_files'[On(t)].cur = "DELETED"
            /\ \A d \in Cid : d # On(t) => sealed_files'[d].cur = sealed_files[d].cur
            /\ thread'[t].pc = "delete_data" /\ thread'[t].old = Status(On(t))
            /\ thread[t].pc = "delete_mark"
            /\ \A u \in Thread : u # t => thread'[u] = thread[u]
            /\ wl_file_spec' = wl_file_spec
        BY <1>0, <1>6, <2>2 DEF delete_mark, At, ThreadState, Entry
      <3>2. \A s \in SpecStatus :
               /\ Owes(thread[t], s) = 0
               /\ Owes(thread'[t], s) = Bit(Status(On(t)) = s)
               /\ Bit(sealed_files'[On(t)].cur = s) = 0
        BY <3>1, OwesOf DEF Bit, StartPc2, SpecStatus
      <3>3. \A s \in SpecStatus : /\ wl_file_spec[s] \in Int
                                  /\ Bit(Status(On(t)) = s) \in Int
        BY <1>0 DEF Bit
      <3> QED BY <1>0, <3>1, <3>2, <3>3, BalanceMoved
    <2> QED BY <2>1, <2>2
  <1>7. CASE delete_data(t)
    <2>1. /\ UNCHANGED sealed_files
          /\ thread'[t].pc \in {"idle", "end_begin"} /\ thread[t].pc = "delete_data"
          /\ \A u \in Thread : u # t => thread'[u] = thread[u]
          /\ wl_file_spec' = set_file_spec(wl_file_spec, thread[t].old, -1)
      <3>1. Goto(t, "end_begin") \/ Return(t)
        BY <1>7 DEF delete_data
      <3>2. CASE Goto(t, "end_begin")
        BY <1>0, <1>7, <3>2 DEF delete_data, At, Goto
      <3>3. CASE Return(t)
        BY <1>0, <1>7, <3>3 DEF delete_data, At, Return, Fresh
      <3> QED BY <3>1, <3>2, <3>3
    <2>2. \A s \in SpecStatus :
             /\ Owes(thread'[t], s) = 0
             /\ Owes(thread[t], s) = Bit(thread[t].old = s)
      BY <2>1, OwesOf DEF Bit, StartPc2
    <2>3. \A s \in SpecStatus :
             /\ wl_file_spec[s] \in Int
             /\ Bit(thread[t].old = s) \in Int /\ Bit(Status(On(t)) = s) \in Int
             /\ wl_file_spec'[s] = wl_file_spec[s] - Bit(thread[t].old = s)
      BY <1>0, <2>1 DEF Bit, set_file_spec, SpecStatus
    <2> QED BY <1>0, <2>1, <2>2, <2>3, BalanceMoved DEF Status
  <1>8. ASSUME \/ seal_begin(t) \/ seal_link(t) \/ seal_children(t)
               \/ seal_save(t) \/ seal_record(t) \/ clean_pending(t)
               \/ clean_dir(t) \/ end_begin(t) \/ end_check(t)
               \/ end_store(t) \/ end_dir(t) \/ end_pending(t)
        PROVE  BalanceInv'
    <2>1. UNCHANGED <<sealed_files, wl_file_spec>>
      BY <1>8 DEF seal_begin, seal_link, seal_children, seal_save, seal_record,
         clean_pending, clean_dir, end_begin, end_check, end_store, end_dir,
         end_pending, workloadVars
    <2>2. thread[t].pc \notin StartPc2 \cup {"delete_data"}
      BY <1>8 DEF seal_begin, seal_link, seal_children, seal_save, seal_record,
         clean_pending, clean_dir, end_begin, end_check, end_store, end_dir,
         end_pending, At, StartPc2
    <2>3. \/ Return(t) \/ CopyPending(t, On(t))
          \/ \E pc \in {"clean_pending", "seal_link", "seal_children",
                        "seal_save", "seal_record", "clean_dir", "clean_entry",
                        "end_store", "end_dir", "end_add", "end_pending"} :
                Goto(t, pc)
      BY <1>8 DEF seal_begin, seal_link, seal_children, seal_save, seal_record,
         clean_pending, clean_dir, end_begin, end_check, end_store, end_dir,
         end_pending
    <2>4. CASE Return(t) \/ CopyPending(t, On(t))
      <3>1. /\ thread'[t].pc \in {"idle", "end_check"}
            /\ \A u \in Thread : u # t => thread'[u] = thread[u]
        <4>1. CASE Return(t)
          BY <1>0, <4>1 DEF Return, Fresh
        <4>2. CASE CopyPending(t, On(t))
          BY <1>0, <4>2 DEF CopyPending, Fresh
        <4> QED BY <2>4, <4>1, <4>2
      <3> QED BY <1>0, <2>1, <2>2, <3>1, BalanceQuiet DEF StartPc2
    <2>5. ASSUME NEW pc, pc \notin StartPc2 \cup {"delete_data"}, Goto(t, pc)
          PROVE  BalanceInv'
      BY <1>0, <2>1, <2>2, <2>5, BalanceQuiet DEF Goto
    <2> QED BY <2>3, <2>4, <2>5 DEF StartPc2
  <1> QED BY <1>1, <1>2, <1>3, <1>4, <1>5, <1>6, <1>7, <1>8 DEF Continue

LEMMA SwapCount ==
  ASSUME NEW S, NEW Out, NEW In, IsFiniteSet(S), IsFiniteSet(In),
         Out \subseteq S, In \cap S = {}
  PROVE  Cardinality((S \ Out) \cup In) = Cardinality(S) - Cardinality(Out) + Cardinality(In)
  <1>1. IsFiniteSet(Out) /\ IsFiniteSet(S \ Out)
    BY FS_Subset, FS_Difference
  <1>2. S \cap Out = Out /\ (S \ Out) \cap In = {}
    OBVIOUS
  <1>3. Cardinality(S \ Out) = Cardinality(S) - Cardinality(Out)
    <2>1. Cardinality(S \ Out) = Cardinality(S) - Cardinality(S \cap Out)
      BY FS_Difference
    <2> QED BY <1>2, <2>1
  <1>4. Cardinality((S \ Out) \cup In) = Cardinality(S \ Out) + Cardinality(In)
                                             - Cardinality((S \ Out) \cap In)
    BY <1>1, FS_Union
  <1>5. /\ Cardinality(S) \in Nat /\ Cardinality(Out) \in Nat /\ Cardinality(In) \in Nat
        /\ Cardinality(S \ Out) \in Nat
    BY <1>1, FS_CardinalityType
  <1>6. Cardinality((S \ Out) \cap In) = 0
    BY <1>2, FS_EmptySet
  <1> QED BY <1>3, <1>4, <1>5, <1>6

\* The verdicts of a round move as many files as they count, when each finds
\* the status it was reached on.
LEMMA BalanceFlip ==
  ASSUME FileTypeOK, BalanceInv, change_file_status
  PROVE  BalanceInv'
  <1> SUFFICES ASSUME ~miscounted', NEW s \in SpecStatus
               PROVE  wl_file_spec'[s] = Balance(s)'
    BY DEF BalanceInv
  <1> DEFINE V == {c \in Flipped : g_validate_files_m[c].cur = "VALID"}
             L == {c \in Flipped : g_validate_files_m[c].cur = "LOST"}
  <1>0. /\ sealed_files \in [Cid -> Entry] /\ wl_file_spec \in [SpecStatus -> Int]
        /\ Flipped \in SUBSET Cid
    BY DEF FileTypeOK, StorageTypeOK, WorkloadTypeOK, Flipped
  <1>1. wl_file_spec[s] = Cardinality(Counted(s)) - Cardinality(Starting(s))
                          + Cardinality(Deleting(s))
    BY DEF change_file_status, BalanceInv, Balance
  <1>2. Starting(s)' = Starting(s) /\ Deleting(s)' = Deleting(s)
    BY DEF change_file_status, Starting, Deleting
  <1>3. \A c \in Flipped : Status(c) = g_validate_files_m[c].cur
    BY DEF change_file_status
  <1>4. /\ V \subseteq Counted("VALID") /\ L \subseteq Counted("LOST")
        /\ V \cap Counted("LOST") = {} /\ L \cap Counted("VALID") = {}
    BY <1>0, <1>3 DEF Counted
  <1>5. \A c \in Cid :
           sealed_files'[c].cur = IF c \in V THEN "LOST"
                                  ELSE IF c \in L THEN "VALID" ELSE Status(c)
    BY <1>0 DEF change_file_status, Flipped, Opposite, Status, Entry
  <1>6. /\ Counted("LOST")' = (Counted("LOST") \ L) \cup V
        /\ Counted("VALID")' = (Counted("VALID") \ V) \cup L
        /\ Counted("PENDING")' = Counted("PENDING")
    BY <1>0, <1>3, <1>5 DEF Counted, Status
  <1>7. /\ IsFiniteSet(V) /\ IsFiniteSet(L) /\ IsFiniteSet(Flipped)
        /\ IsFiniteSet(Counted("LOST")) /\ IsFiniteSet(Counted("VALID"))
    BY <1>0, FileServiceAssumption, FS_Subset DEF Counted
  <1>8. Cardinality(Flipped) = Cardinality(V) + Cardinality(L)
    <2>1. V \cup L = Flipped /\ V \cap L = {}
      BY DEF Flipped
    <2>2. Cardinality({}) = 0 /\ Cardinality(V) \in Nat /\ Cardinality(L) \in Nat
      BY <1>7, FS_EmptySet, FS_CardinalityType
    <2> HIDE DEF V, L
    <2>3. Cardinality(V \cup L) = Cardinality(V) + Cardinality(L) - Cardinality(V \cap L)
      BY <1>7, FS_Union
    <2>4. Cardinality(Flipped) = Cardinality(V \cup L) /\ Cardinality(V \cap L) = 0
      BY <2>1, <2>2, Zenon
    <2> QED BY <2>2, <2>3, <2>4
  <1>9. /\ Cardinality(Counted("LOST")') = Cardinality(Counted("LOST"))
                                           - Cardinality(L) + Cardinality(V)
        /\ Cardinality(Counted("VALID")') = Cardinality(Counted("VALID"))
                                            - Cardinality(V) + Cardinality(L)
    BY <1>4, <1>6, <1>7, SwapCount
  <1> DEFINE v == Cardinality(V)
             l == Cardinality(L)
             k(x) == Cardinality(Counted(x))
             m == Cardinality(Starting(s))
             n == Cardinality(Deleting(s))
  <1>10. /\ v \in Nat /\ l \in Nat /\ m \in Nat /\ n \in Nat
         /\ \A x \in SpecStatus : k(x) \in Nat
    BY <1>7, FileServiceAssumption, FS_Subset, FS_CardinalityType
    DEF Counted, Starting, Deleting
  <1>11. /\ wl_file_spec'["LOST"] = wl_file_spec["LOST"] + v - l
         /\ wl_file_spec'["VALID"] = wl_file_spec["VALID"] + l - v
         /\ wl_file_spec'["PENDING"] = wl_file_spec["PENDING"]
    <2>1. wl_file_spec' = [wl_file_spec EXCEPT
             !["LOST"] = @ + v - (Cardinality(Flipped) - v),
             !["VALID"] = @ + (Cardinality(Flipped) - v) - v]
      BY DEF change_file_status
    <2>2. Cardinality(Flipped) - v = l
      BY <1>8, <1>10
    <2> HIDE DEF v, l
    <2> QED BY <1>0, <2>1, <2>2 DEF SpecStatus
  <1>12. /\ wl_file_spec[s] = k(s) - m + n
         /\ Balance(s)' = Cardinality(Counted(s)') - m + n
    BY <1>1, <1>2 DEF Balance
  <1>13. /\ Cardinality(Counted("LOST")') = k("LOST") - l + v
         /\ Cardinality(Counted("VALID")') = k("VALID") - v + l
         /\ Cardinality(Counted("PENDING")') = k("PENDING")
    BY <1>6, <1>9
  <1> HIDE DEF v, l, k, m, n
  <1>14. CASE s = "LOST"
    BY <1>10, <1>11, <1>12, <1>13, <1>14
  <1>15. CASE s = "VALID"
    BY <1>10, <1>11, <1>12, <1>13, <1>15
  <1>16. CASE s = "PENDING"
    BY <1>10, <1>11, <1>12, <1>13, <1>16
  <1> QED BY <1>14, <1>15, <1>16 DEF SpecStatus

LEMMA BalanceStep ==
  ASSUME FileTypeOK, BalanceInv, FileNext
  PROVE  BalanceInv'
  <1>0. sealed_files \in [Cid -> Entry] /\ thread \in [Thread -> ThreadState]
    BY DEF FileTypeOK, StorageTypeOK, WorkloadTypeOK
  <1>1. CASE RequestStep
    <2>1. CASE \E t \in Thread \ ValidatorThread : Call(t) /\ Remember
      BY <1>1, <2>1, RememberFrame, BalanceCall
    <2>2. CASE \E t \in Thread : Continue(t) /\ Remember
      BY <2>2, BalanceContinue
    <2>3. CASE \E s \in Upgrades : upgrade(s) /\ Remember
      BY <1>1, <2>3, RememberFrame, BalanceKept DEF upgrade, Status
    <2> QED BY <1>1, <2>1, <2>2, <2>3 DEF RequestStep
  <1>2. ASSUME NEW c \in Cid, NEW t \in ValidatorThread, judge_tree(t, c)
        PROVE  BalanceInv'
    <2>1. UNCHANGED <<sealed_files, wl_file_spec, miscounted>> /\ thread[t].pc = "idle"
      BY <1>2 DEF judge_tree, workloadVars, reportVars, Idle
    <2>2. CASE UNCHANGED thread
      BY <2>1, <2>2, BalanceKept DEF Status
    <2>3. CASE Enter(t, c, "delete_mark")
      <3>1. /\ thread'[t].pc = "delete_mark"
            /\ \A u \in Thread : u # t => thread'[u] = thread[u]
        BY <1>0, <2>3, FileServiceAssumption DEF Enter, Fresh
      <3> QED BY <2>1, <3>1, FileServiceAssumption, BalanceQuiet DEF StartPc2
    <2> QED BY <1>2, <2>2, <2>3 DEF judge_tree
  <1>3. CASE change_file_status
    BY <1>3, BalanceFlip
  <1>4. CASE deal_deleted
    <2>1. \A c \in Cid : \/ sealed_files'[c].cur = Status(c)
                         \/ Status(c) = "DELETED" /\ sealed_files'[c].cur = "ABSENT"
      BY <1>0, <1>4 DEF deal_deleted, deal_take, deal_clean, deal_put_back,
         del_files, IsCleanable, NoEntry, Status
    <2>2. UNCHANGED <<wl_file_spec, thread, miscounted>>
      BY <1>4 DEF deal_deleted, deal_take, deal_clean, deal_put_back, reportVars
    <2> QED BY <2>1, <2>2, BalanceKept
  <1>5. CASE \/ gen_work_report \/ handle_report_result
             \/ \E c \in Cid : recover_illegal_file(c)
    <2>1. \A c \in Cid : sealed_files'[c].cur = Status(c)
      <3>1. CASE gen_work_report
        BY <1>0, <3>1 DEF gen_work_report, Frozen, Status, Entry
      <3>2. CASE handle_report_result
        BY <1>0, <3>2 DEF handle_report_result, Status, Entry
      <3>3. CASE \E c \in Cid : recover_illegal_file(c)
        BY <1>0, <3>3 DEF recover_illegal_file, Status, Entry
      <3> QED BY <1>5, <3>1, <3>2, <3>3
    <2>2. UNCHANGED <<wl_file_spec, thread, miscounted>>
      BY <1>5 DEF gen_work_report, handle_report_result, recover_illegal_file
    <2> QED BY <2>1, <2>2, BalanceKept
  <1>6. CASE \/ ecall_main_loop \/ validate_meaningful_file \/ validate_srd
             \/ \E c \in Cid : \/ recall_failed(c) \/ validate_tree(c)
                               \/ validate_block(c) \/ judge_block(c)
             \/ ecall_gen_and_upload_work_report \/ Upload
    <2>1. UNCHANGED <<sealed_files, wl_file_spec, thread, miscounted>>
      BY <1>6 DEF ecall_main_loop, validate_srd, validate_meaningful_file,
         recall_failed, validate_tree, validate_block, judge_block,
         ecall_gen_and_upload_work_report, Upload, upload_accepted,
         upload_unanswered, upload_refused, storageVars, workloadVars, reportVars
    <2> QED BY <2>1, BalanceKept DEF Status
  <1> QED BY <1>1, <1>2, <1>3, <1>4, <1>5, <1>6 DEF FileNext, Round, ValidateFile

\* However requests, validator deletions, verdicts and cleanings overlap, the
\* statistics count what is in the table once no request is half done, unless
\* a step has found another status than it counts on.
THEOREM StatisticsExactAtRest == FileSpec => []SpecAtRest
  <1>1. FileTypeOK /\ BalanceInv /\ [FileNext]_fileVars => BalanceInv'
    <2>1. ASSUME FileTypeOK, BalanceInv, UNCHANGED fileVars
          PROVE  BalanceInv'
      <3>1. UNCHANGED <<sealed_files, wl_file_spec, thread, miscounted>>
        BY <2>1 DEF fileVars, storageVars, workloadVars, reportVars
      <3> QED BY <2>1, <3>1, BalanceKept DEF Status
    <2> QED BY <2>1, BalanceStep
  <1> QED BY <1>1, BalanceInit, FileTypes, BalanceRest, PTL DEF FileSpec

-----------------------------------------------------------------------------
(* Storage's invariants beside the validator *)

\* The validator's verdicts and deletions, and the reports, forget no deleted
\* file either.
THEOREM DeletedStaysBufferedBesideValidator == FileSpec => []DeletedIsBuffered
  <1> DEFINE Inv == DeletedIsBuffered /\ CopyIsEmpty
  <1>1. FileInit => Inv
    BY BufferedInit DEF FileInit
  <1>2. ASSUME FileTypeOK, Inv, FileNext
        PROVE  Inv'
    <2> USE <1>2
    <2>0. StorageTypeOK /\ sealed_files \in [Cid -> Entry]
      BY DEF FileTypeOK, StorageTypeOK, WorkloadTypeOK
    <2>1. CASE RequestStep \/ deal_deleted
      BY <2>0, <2>1, RequestStepNext, DealStepNext, BufferedStep
    <2>2. CASE ~(RequestStep \/ deal_deleted)
      <3>1. UNCHANGED <<file_del_cid_s, del_pc, del_tmp>>
        BY <2>2 DEF FileNext, Round, ecall_main_loop, validate_meaningful_file,
           ValidateFile, recall_failed, validate_tree, validate_block,
           judge_block, judge_tree, change_file_status, validate_srd,
           ecall_gen_and_upload_work_report, gen_work_report, Upload, upload_accepted, upload_unanswered, upload_refused,
           handle_report_result, recover_illegal_file, storageVars,
           workloadVars, delVars
      <3>2. \A c \in Cid : sealed_files'[c].cur = "DELETED" =>
                              sealed_files[c].cur = "DELETED"
        <4>1. CASE change_file_status
          BY <2>0, <4>1 DEF change_file_status, Opposite, Entry
        <4>2. CASE gen_work_report
          BY <2>0, <4>2 DEF gen_work_report, Frozen, Entry
        <4>3. CASE handle_report_result
          BY <2>0, <4>3 DEF handle_report_result, Entry
        <4>4. ASSUME NEW c \in Cid, recover_illegal_file(c)
              PROVE  \A d \in Cid : sealed_files'[d].cur = sealed_files[d].cur
          BY <2>0, <4>4 DEF recover_illegal_file, Entry
        <4>5. CASE UNCHANGED sealed_files
          BY <4>5
        <4> QED BY <2>2, <4>1, <4>2, <4>3, <4>4, <4>5 DEF FileNext, Round,
           ecall_main_loop, validate_meaningful_file, ValidateFile,
           recall_failed, validate_tree, validate_block, judge_block,
           judge_tree, validate_srd, ecall_gen_and_upload_work_report, Upload,
           upload_accepted, upload_unanswered, upload_refused, storageVars,
           workloadVars
      <3> QED BY <3>1, <3>2 DEF DeletedIsBuffered, CopyIsEmpty, Status
    <2> QED BY <2>1, <2>2
  <1>3. ASSUME Inv, UNCHANGED fileVars PROVE Inv'
    BY <1>3 DEF DeletedIsBuffered, CopyIsEmpty, Status, fileVars, storageVars,
       workloadVars
  <1> QED BY <1>1, <1>2, <1>3, FileTypes, PTL DEF FileSpec

=============================================================================
