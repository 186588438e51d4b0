---------------------------- MODULE FileInfoProofs ----------------------------
(***************************************************************************)
(* Proofs about FileInfo, for any number of files, threads and requests.   *)
(*                                                                         *)
(* FileInv(c) is about a file whose requests came one after the other: at  *)
(* most one thread works on it; Rest(c) relates the enclave's table, the   *)
(* pending files and the app's copy between two requests; Doing(r) says,   *)
(* for each place in a request, how far they have gone apart and what the  *)
(* request has promised to bring together again.  Only the requests on a   *)
(* file and the verdicts on it touch what FileInv(c) speaks about, so a    *)
(* step is looked at for one file.  StoredInv carries the acknowledged     *)
(* files over a restart: the metadata hold those that are not excepted.    *)
(***************************************************************************)
EXTENDS FileInfo, FiniteSetTheorems, TLAPS

\* Acknowledged files that no restart has forgotten.
Known == acked \ forgotten

\* Those among them that the next restart will not forget.
Kept == Known \ (unstored \cup mixed)

\* Between two requests on c, none of which overlapped with another.
Rest(c) ==
    /\ \A t \in Type : c \in sealed_file[t] => table[c] = t
    /\ c \in pending_size => table[c] = "pending" /\ c \in sealed_file["pending"]
    /\ c \in Known => /\ table[c] \in {"valid", "lost"}
                      /\ c \in sealed_file[table[c]]
    /\ pending[c] # "none" => table[c] = "pending" /\ c \in sealed_file["pending"]

\* The app knows nothing of c, nor has its sealing been acknowledged.
Unknown(c) ==
    /\ \A t \in Type : c \notin sealed_file[t]
    /\ c \notin pending_size /\ c \notin Known

\* c is valid and the app has been told.
Sealed(c) ==
    /\ table[c] = "valid" /\ c \in sealed_file["valid"]
    /\ \A t \in Type : c \in sealed_file[t] => t = "valid"
    /\ c \notin pending_size

\* A request that seals: seal_start, seal and seal_end.
Sealing(r) ==
    LET c == On(r) IN
    /\ req[r].pc \in {"start_pending", "start_exceed", "start_info"} =>
          Unknown(c) /\ table[c] = "pending"
    /\ req[r].pc \in {"start_pending", "start_exceed"} => pending[c] = "none"
    /\ req[r].pc \in {"seal_save", "end_check", "end_table", "end_dir"} =>
          Rest(c) /\ pending[c] # "none"
    /\ req[r].pc \in {"seal_record", "clean_pending", "clean_dir"} => Rest(c)
    /\ At(r, "end_info") =>
          /\ req[r].ok
          /\ table[c] = "valid" /\ c \notin Known
          /\ \A t \in Type : c \in sealed_file[t] => t = "pending"
    /\ req[r].pc \in {"end_pending", "clean_entry"} =>
          IF req[r].ok THEN Sealed(c) ELSE Rest(c)
    /\ req[r].pc \in {"clean_dir", "clean_entry"} => pending[c] = "none"
    /\ req[r].ok => req[r].pc \in {"end_info", "end_pending", "clean_entry"}
    /\ req[r].pc \notin {"delete_data", "delete_info", "delete_end", "delete_route"}

\* A request that deletes; a file that was being sealed goes through the end
\* of its sealing.
Deleting(r) ==
    LET c == On(r) IN
    /\ req[r].pc \in {"delete_data", "delete_info", "delete_end", "delete_route",
                      "end_check", "end_table", "end_info", "end_dir",
                      "end_pending", "clean_entry"}
    /\ c \notin Known /\ table[c] # "pending"
    /\ req[r].pc \in {"delete_data", "delete_info"} =>
          /\ c \in pending_size => c \in sealed_file["pending"]
          /\ pending[c] # "none" => req[r].was = "pending"
    /\ req[r].pc \notin {"delete_data", "delete_info"} => c \notin pending_size
    /\ req[r].pc \in {"clean_entry", "delete_route"} => pending[c] = "none"

Doing(r) == IF req[r].delete THEN Deleting(r) ELSE Sealing(r)

FileInv(c) ==
    c \notin mixed =>
        /\ \A r, s \in Busy(c) : r = s
        /\ Busy(c) = {} => Rest(c)
        /\ \A r \in Busy(c) : Doing(r)

FilesInv == \A c \in Cid : FileInv(c)

\* The metadata hold the files that the next restart will not forget.
StoredInv == \A c \in Kept : stored.table[c] \in {"valid", "lost"}

-----------------------------------------------------------------------------
(* Types *)

\* What a thread's record becomes keeps its type.
LEMMA RequestTypes ==
    /\ NoRequest \in Request
    /\ \A q \in Request, pc \in Pc : [q EXCEPT !.pc = pc] \in Request
    /\ \A pc \in Pc, c \in Cid : [NoRequest EXCEPT !.pc = pc, !.cid = c] \in Request
PROOF
<1>1. AnyCid \in Cid
  BY FileInfoAssumption DEF AnyCid
<1>2. NoRequest \in Request
  BY <1>1 DEF NoRequest, Request, Pc, Status
<1>3. \A q \in Request, pc \in Pc : [q EXCEPT !.pc = pc] \in Request
  BY DEF Request
<1>4. \A pc \in Pc, c \in Cid : [NoRequest EXCEPT !.pc = pc, !.cid = c] \in Request
  BY <1>2 DEF Request
<1> QED
  BY <1>2, <1>3, <1>4

\* Types: the first state.
LEMMA TypeInit == Init => FileInfoTypeOK
PROOF
<1> SUFFICES ASSUME Init PROVE FileInfoTypeOK
  OBVIOUS
<1>1. NoTable \in [Cid -> Status] /\ NoOrigin \in [Cid -> Origin]
  BY DEF NoTable, NoOrigin, Status, Origin
<1>2. /\ pending \in [Cid -> {"none", "open", "whole"}]
      /\ snapshot \in [Cid -> {"none", "valid", "lost"}]
  BY DEF Init, NoTable
<1>3. asked \in 0..MaxRequests
  BY FileInfoAssumption DEF Init
<1>4. req \in [Thread -> Request] /\ sealed_file \in [Type -> SUBSET Cid]
  BY RequestTypes DEF Init
<1> QED
  BY <1>1, <1>2, <1>3, <1>4 DEF Init, FileInfoTypeOK

\* The updates of the app's copy keep its type.
LEMMA CopyTypes ==
    ASSUME FileInfoTypeOK, NEW c \in Cid,
           \/ \E type \in Type : add_file_info(c, type)
           \/ del_file_info(c)
           \/ del_pending_info(c)
    PROVE  sealed_file' \in [Type -> SUBSET Cid] /\ pending_size' \subseteq Cid
PROOF
<1>1. ASSUME NEW type \in Type, add_file_info(c, type)
      PROVE  sealed_file' \in [Type -> SUBSET Cid] /\ pending_size' \subseteq Cid
  <2>1. CASE type = "valid"
    BY <1>1, <2>1 DEF add_file_info, FileInfoTypeOK, Type
  <2>2. CASE type # "valid"
    BY <1>1, <2>2 DEF add_file_info, FileInfoTypeOK, Type
  <2> QED
    BY <2>1, <2>2
<1>2. ASSUME del_file_info(c)
      PROVE  sealed_file' \in [Type -> SUBSET Cid] /\ pending_size' \subseteq Cid
  BY <1>2 DEF del_file_info, FileInfoTypeOK, Type
<1>3. ASSUME del_pending_info(c)
      PROVE  sealed_file' \in [Type -> SUBSET Cid] /\ pending_size' \subseteq Cid
  BY <1>3 DEF del_pending_info, FileInfoTypeOK, Type
<1> QED
  BY <1>1, <1>2, <1>3

\* Types: a request goes on.
LEMMA ContinueTypes ==
    ASSUME FileInfoTypeOK, NEW r \in Thread, Continue(r)
    PROVE  FileInfoTypeOK'
PROOF
<1>0. On(r) \in Cid /\ req[r] \in Request
  BY DEF FileInfoTypeOK, Request, On
<1>1. ASSUME start_pending(r) PROVE FileInfoTypeOK'
  <2>1. req' \in [Thread -> Request]
    <3>1. Goto(r, "start_exceed") \/ Goto(r, "start_info")
      BY <1>1 DEF start_pending
    <3> QED
      BY <1>0, <3>1, RequestTypes DEF Goto, FileInfoTypeOK, Pc
  <2>2. pending' \in [Cid -> {"none", "open", "whole"}]
    BY <1>0, <1>1 DEF start_pending, FileInfoTypeOK
  <2> QED
    BY <1>0, <1>1, <2>1, <2>2
    DEF start_pending, FileInfoTypeOK, enclaveVars, appVars, ackVars
<1>2. ASSUME start_exceed(r) PROVE FileInfoTypeOK'
  <2>1. req' \in [Thread -> Request]
    BY <1>0, <1>2, RequestTypes DEF start_exceed, Answer, FileInfoTypeOK, Pc
  <2>2. table' \in [Cid -> Status] /\ origin' \in [Cid -> Origin]
    BY <1>0, <1>2 DEF start_exceed, FileInfoTypeOK, Status, Origin
  <2> QED
    BY <1>0, <1>2, <2>1, <2>2
    DEF start_exceed, FileInfoTypeOK, enclaveVars, appVars, ackVars
<1>3. ASSUME start_info(r) PROVE FileInfoTypeOK'
  <2>1. req' \in [Thread -> Request]
    BY <1>0, <1>3, RequestTypes DEF start_info, Answer, FileInfoTypeOK, Pc
  <2>2. sealed_file' \in [Type -> SUBSET Cid] /\ pending_size' \subseteq Cid
    BY <1>0, <1>3, CopyTypes DEF start_info, Type
  <2> QED
    BY <1>0, <1>3, <2>1, <2>2
    DEF start_info, FileInfoTypeOK, enclaveVars, appVars, ackVars
<1>4. ASSUME seal_save(r) PROVE FileInfoTypeOK'
  <2>1. req' \in [Thread -> Request]
    BY <1>0, <1>4, RequestTypes DEF seal_save, Goto, Answer, FileInfoTypeOK, Pc
  <2> QED
    BY <1>0, <1>4, <2>1
    DEF seal_save, ocall_save_ipfs_block, FileInfoTypeOK, enclaveVars, appVars, ackVars
<1>5. ASSUME seal_record(r) PROVE FileInfoTypeOK'
  <2>1. req' \in [Thread -> Request]
    BY <1>0, <1>5, RequestTypes DEF seal_record, Answer, FileInfoTypeOK, Pc
  <2>2. pending' \in [Cid -> {"none", "open", "whole"}]
    BY <1>0, <1>5 DEF seal_record, FileInfoTypeOK
  <2> QED
    BY <1>0, <1>5, <2>1, <2>2
    DEF seal_record, FileInfoTypeOK, enclaveVars, appVars, ackVars
<1>6. ASSUME clean_pending(r) PROVE FileInfoTypeOK'
  <2>1. req' \in [Thread -> Request]
    BY <1>0, <1>6, RequestTypes DEF clean_pending, Goto, FileInfoTypeOK, Pc
  <2>2. pending' \in [Cid -> {"none", "open", "whole"}]
    BY <1>0, <1>6 DEF clean_pending, FileInfoTypeOK
  <2> QED
    BY <1>0, <1>6, <2>1, <2>2
    DEF clean_pending, FileInfoTypeOK, enclaveVars, appVars, ackVars
<1>7. ASSUME clean_dir(r) PROVE FileInfoTypeOK'
  <2>1. req' \in [Thread -> Request]
    BY <1>0, <1>7, RequestTypes DEF clean_dir, Goto, FileInfoTypeOK, Pc
  <2> QED
    BY <1>0, <1>7, <2>1
    DEF clean_dir, FileInfoTypeOK, enclaveVars, appVars, ackVars
<1>8. ASSUME clean_entry(r) PROVE FileInfoTypeOK'
  <2>1. req' \in [Thread -> Request]
    BY <1>0, <1>8, RequestTypes DEF clean_entry, Goto, Answer, EndOfSeal, FileInfoTypeOK, Pc
  <2>2. sealed_file' \in [Type -> SUBSET Cid] /\ pending_size' \subseteq Cid
    BY <1>0, <1>8, CopyTypes DEF clean_entry, appVars, FileInfoTypeOK
  <2>3. acked' \subseteq Cid /\ unstored' \subseteq Cid /\ forgotten' \subseteq Cid
    BY <1>0, <1>8 DEF clean_entry, EndOfSeal, FileInfoTypeOK, ackVars
  <2>4. table' \in [Cid -> Status] /\ origin' \in [Cid -> Origin]
    BY <1>0, <1>8 DEF clean_entry, FileInfoTypeOK, Status, Origin
  <2> QED
    BY <1>0, <1>8, <2>1, <2>2, <2>3, <2>4
    DEF clean_entry, FileInfoTypeOK, enclaveVars, appVars, ackVars
<1>9. ASSUME end_check(r) PROVE FileInfoTypeOK'
  <2>1. req' \in [Thread -> Request]
    BY <1>0, <1>9, RequestTypes DEF end_check, Goto, FileInfoTypeOK, Pc
  <2> QED
    BY <1>0, <1>9, <2>1
    DEF end_check, FileInfoTypeOK, enclaveVars, appVars, ackVars
<1>10. ASSUME end_table(r) PROVE FileInfoTypeOK'
  <2>1. [req[r] EXCEPT !.pc = "end_info", !.ok = TRUE] \in Request
    BY <1>0 DEF Request, Pc
  <2>2. req' \in [Thread -> Request]
    BY <1>10, <2>1 DEF end_table, FileInfoTypeOK
  <2>3. table' \in [Cid -> Status] /\ origin' \in [Cid -> Origin]
    BY <1>0, <1>10 DEF end_table, FileInfoTypeOK, Status, Origin
  <2> QED
    BY <1>0, <1>10, <2>2, <2>3
    DEF end_table, FileInfoTypeOK, enclaveVars, appVars, ackVars
<1>11. ASSUME end_info(r) PROVE FileInfoTypeOK'
  <2>1. req' \in [Thread -> Request]
    BY <1>0, <1>11, RequestTypes DEF end_info, Goto, FileInfoTypeOK, Pc
  <2>2. sealed_file' \in [Type -> SUBSET Cid] /\ pending_size' \subseteq Cid
    BY <1>0, <1>11, CopyTypes DEF end_info, Type
  <2> QED
    BY <1>0, <1>11, <2>1, <2>2
    DEF end_info, FileInfoTypeOK, enclaveVars, appVars, ackVars
<1>12. ASSUME end_dir(r) PROVE FileInfoTypeOK'
  <2>1. req' \in [Thread -> Request]
    BY <1>0, <1>12, RequestTypes DEF end_dir, Goto, FileInfoTypeOK, Pc
  <2> QED
    BY <1>0, <1>12, <2>1
    DEF end_dir, FileInfoTypeOK, enclaveVars, appVars, ackVars
<1>13. ASSUME end_pending(r) PROVE FileInfoTypeOK'
  <2>1. req' \in [Thread -> Request]
    BY <1>0, <1>13, RequestTypes DEF end_pending, Goto, FileInfoTypeOK, Pc
  <2>2. pending' \in [Cid -> {"none", "open", "whole"}]
    BY <1>0, <1>13 DEF end_pending, FileInfoTypeOK
  <2> QED
    BY <1>0, <1>13, <2>1, <2>2
    DEF end_pending, FileInfoTypeOK, enclaveVars, appVars, ackVars
<1>14. ASSUME delete_data(r) PROVE FileInfoTypeOK'
  <2>1. req' \in [Thread -> Request]
    BY <1>0, <1>14, RequestTypes DEF delete_data, Goto, FileInfoTypeOK, Pc
  <2> QED
    BY <1>0, <1>14, <2>1
    DEF delete_data, FileInfoTypeOK, enclaveVars, appVars, ackVars
<1>15. ASSUME delete_info(r) PROVE FileInfoTypeOK'
  <2>1. req' \in [Thread -> Request]
    BY <1>0, <1>15, RequestTypes DEF delete_info, Goto, FileInfoTypeOK, Pc
  <2>2. sealed_file' \in [Type -> SUBSET Cid] /\ pending_size' \subseteq Cid
    BY <1>0, <1>15, CopyTypes DEF delete_info, Type
  <2> QED
    BY <1>0, <1>15, <2>1, <2>2
    DEF delete_info, FileInfoTypeOK, enclaveVars, appVars, ackVars
<1>16. ASSUME delete_end(r) PROVE FileInfoTypeOK'
  <2>1. \A w \in BOOLEAN, pc \in Pc : [req[r] EXCEPT !.whole = w, !.pc = pc] \in Request
    BY <1>0 DEF Request
  <2>2. "delete_route" \in Pc /\ "end_check" \in Pc /\ (pending[On(r)] = "whole") \in BOOLEAN
    BY DEF Pc
  <2>3. req' \in [Thread -> Request]
    BY <1>16, <2>1, <2>2 DEF delete_end, FileInfoTypeOK
  <2> QED
    BY <1>0, <1>16, <2>3
    DEF delete_end, FileInfoTypeOK, enclaveVars, appVars, ackVars
<1>17. ASSUME delete_route(r) PROVE FileInfoTypeOK'
  <2>1. req' \in [Thread -> Request]
    BY <1>0, <1>17, RequestTypes DEF delete_route, Answer, FileInfoTypeOK, Pc
  <2>2. sealed_file' \in [Type -> SUBSET Cid] /\ pending_size' \subseteq Cid
    BY <1>0, <1>17, CopyTypes DEF delete_route, Type
  <2> QED
    BY <1>0, <1>17, <2>1, <2>2
    DEF delete_route, FileInfoTypeOK, enclaveVars, appVars, ackVars
<1> QED
  BY <1>1, <1>2, <1>3, <1>4, <1>5, <1>6, <1>7, <1>8, <1>9, <1>10, <1>11,
     <1>12, <1>13, <1>14, <1>15, <1>16, <1>17
  DEF Continue

\* Types: a request is received.
LEMMA CallTypes ==
    ASSUME FileInfoTypeOK, NEW r \in Thread, NEW c \in Cid, Call(r, c)
    PROVE  FileInfoTypeOK'
PROOF
<1>1. ASSUME asked < MaxRequests, asked' = asked + 1 PROVE asked' \in 0..MaxRequests
  BY <1>1, FileInfoAssumption DEF FileInfoTypeOK
<1>2. \A pc \in Pc, w \in BOOLEAN :
         [NoRequest EXCEPT !.pc = pc, !.cid = c, !.whole = w] \in Request
  BY RequestTypes DEF Request
<1>3. \A pc \in Pc, s \in Status :
         [NoRequest EXCEPT !.pc = pc, !.cid = c, !.delete = TRUE, !.was = s] \in Request
  BY RequestTypes DEF Request
<1>4. ASSUME storage_seal_file_start(r, c) PROVE FileInfoTypeOK'
  <2>1. req' \in [Thread -> Request] /\ mixed' \subseteq Cid
    BY <1>4, RequestTypes DEF storage_seal_file_start, Ask, FileInfoTypeOK, Pc
  <2>2. table' \in [Cid -> Status] /\ origin' \in [Cid -> Origin]
    BY <1>4 DEF storage_seal_file_start, FileInfoTypeOK, Status, Origin
  <2> QED
    BY <1>1, <1>4, <2>1, <2>2
    DEF storage_seal_file_start, Ask, FileInfoTypeOK, appVars, ackVars
<1>5. ASSUME storage_seal_file(r, c) PROVE FileInfoTypeOK'
  <2>1. req' \in [Thread -> Request] /\ mixed' \subseteq Cid
    <3> DEFINE asks(pc) == [NoRequest EXCEPT !.pc = pc, !.cid = c]
    <3>1. PICK pc \in {"seal_record", "clean_pending", "seal_save"} :
             req' = [req EXCEPT ![r] = asks(pc)]
      BY <1>5 DEF storage_seal_file, Ask
    <3>2. req' \in [Thread -> Request]
      <4>1. pc \in Pc
        BY DEF Pc
      <4>2. asks(pc) \in Request
        BY <4>1, RequestTypes
      <4> HIDE DEF asks
      <4> QED
        BY <3>1, <4>2 DEF FileInfoTypeOK
    <3>3. mixed' \subseteq Cid
      BY <1>5 DEF storage_seal_file, Ask, FileInfoTypeOK
    <3> QED
      BY <3>2, <3>3
  <2>2. asked' \in 0..MaxRequests
    BY <1>1, <1>5 DEF storage_seal_file, Ask
  <2> QED
    BY <1>5, <2>1, <2>2
    DEF storage_seal_file, FileInfoTypeOK, enclaveVars, appVars, ackVars
<1>6. ASSUME storage_seal_file_end(r, c) PROVE FileInfoTypeOK'
  <2>1. "end_check" \in Pc /\ (pending[c] = "whole") \in BOOLEAN
    BY DEF Pc
  <2>2. req' \in [Thread -> Request] /\ mixed' \subseteq Cid
    BY <1>2, <1>6, <2>1 DEF storage_seal_file_end, FileInfoTypeOK
  <2> QED
    BY <1>1, <1>6, <2>2
    DEF storage_seal_file_end, FileInfoTypeOK, enclaveVars, appVars, ackVars
<1>7. ASSUME storage_delete_file(r, c) PROVE FileInfoTypeOK'
  <2>1. "delete_route" \in Pc /\ "delete_data" \in Pc /\ table[c] \in Status
    BY DEF Pc, FileInfoTypeOK
  <2>2. req' \in [Thread -> Request] /\ mixed' \subseteq Cid
    BY <1>3, <1>7, <2>1 DEF storage_delete_file, FileInfoTypeOK
  <2>3. /\ table' \in [Cid -> Status] /\ acked' \subseteq Cid
        /\ unstored' \subseteq Cid /\ forgotten' \subseteq Cid
    BY <1>7 DEF storage_delete_file, FileInfoTypeOK, Status
  <2> QED
    BY <1>1, <1>7, <2>2, <2>3
    DEF storage_delete_file, FileInfoTypeOK, appVars, ackVars
<1> QED
  BY <1>4, <1>5, <1>6, <1>7 DEF Call

\* Types: what the enclave does by itself, and the restart.
LEMMA EnclaveTypes ==
    ASSUME FileInfoTypeOK,
           \/ \E c \in Cid : Enclave(c)
           \/ validate_meaningful_file \/ id_store_metadata \/ restart
    PROVE  FileInfoTypeOK'
PROOF
<1>1. ASSUME NEW c \in Cid, change_file_status(c) PROVE FileInfoTypeOK'
  <2>1. snapshot[c] \in {"valid", "lost"}
    BY <1>1 DEF change_file_status, FileInfoTypeOK, ackVars
  <2>2. table' \in [Cid -> Status] /\ snapshot' \in [Cid -> {"none", "valid", "lost"}]
    BY <1>1 DEF change_file_status, FileInfoTypeOK, Opposite, Status
  <2>3. sealed_file' \in [Type -> SUBSET Cid] /\ mixed' \subseteq Cid
    BY <1>1, <2>1 DEF change_file_status, change_file_type, FileInfoTypeOK,
       Opposite, Type
  <2> QED
    BY <1>1, <2>2, <2>3 DEF change_file_status, FileInfoTypeOK, ackVars
<1>2. ASSUME NEW c \in Cid, handle_report_result(c) PROVE FileInfoTypeOK'
  <2>1. origin' \in [Cid -> Origin]
    BY <1>2 DEF handle_report_result, FileInfoTypeOK, Origin
  <2> QED
    BY <1>2, <2>1 DEF handle_report_result, FileInfoTypeOK, appVars, ackVars
<1>3. ASSUME NEW c \in Cid, recover_illegal_file(c) PROVE FileInfoTypeOK'
  <2>1. origin' \in [Cid -> Origin]
    BY <1>3 DEF recover_illegal_file, FileInfoTypeOK, Origin
  <2> QED
    BY <1>3, <2>1 DEF recover_illegal_file, FileInfoTypeOK, appVars, ackVars
<1>4. ASSUME NEW c \in Cid, deal_deleted_file(c) PROVE FileInfoTypeOK'
  <2>1. table' \in [Cid -> Status]
    BY <1>4 DEF deal_deleted_file, FileInfoTypeOK, Status
  <2> QED
    BY <1>4, <2>1 DEF deal_deleted_file, FileInfoTypeOK, appVars, ackVars
<1>5. ASSUME NEW c \in Cid, disk_lost(c) PROVE FileInfoTypeOK'
  BY <1>5 DEF disk_lost, FileInfoTypeOK, enclaveVars, appVars, ackVars
<1>6. ASSUME validate_meaningful_file PROVE FileInfoTypeOK'
  <2>1. snapshot' \in [Cid -> {"none", "valid", "lost"}]
    BY <1>6 DEF validate_meaningful_file, FileInfoTypeOK
  <2> QED
    BY <1>6, <2>1 DEF validate_meaningful_file, FileInfoTypeOK, appVars, ackVars
<1>7. ASSUME id_store_metadata PROVE FileInfoTypeOK'
  <2>1. stored' \in [table : [Cid -> Status], origin : [Cid -> Origin]]
    BY <1>7 DEF id_store_metadata, FileInfoTypeOK
  <2> QED
    BY <1>7, <2>1 DEF id_store_metadata, FileInfoTypeOK, enclaveVars, appVars, ackVars
<1>8. ASSUME restart PROVE FileInfoTypeOK'
  <2>1. table' \in [Cid -> Status] /\ origin' \in [Cid -> Origin]
    BY <1>8 DEF restart, FileInfoTypeOK, Status
  <2>2. /\ pending' \in [Cid -> {"none", "open", "whole"}]
        /\ snapshot' \in [Cid -> {"none", "valid", "lost"}]
    BY <1>8 DEF restart
  <2>3. /\ sealed_file' \in [Type -> SUBSET Cid]
        /\ disk' \subseteq Cid /\ forgotten' \subseteq Cid
        /\ pending_size' \subseteq Cid /\ mixed' \subseteq Cid
    BY <1>8 DEF restart, FileInfoTypeOK
  <2>4. req' \in [Thread -> Request]
    BY <1>8, RequestTypes DEF restart
  <2> QED
    BY <1>8, <2>1, <2>2, <2>3, <2>4 DEF restart, FileInfoTypeOK
<1> QED
  BY <1>1, <1>2, <1>3, <1>4, <1>5, <1>6, <1>7, <1>8 DEF Enclave

\* Every step keeps the types.
LEMMA TypeStep == ASSUME FileInfoTypeOK, [Next]_vars PROVE FileInfoTypeOK'
PROOF
<1>1. CASE UNCHANGED vars
  BY <1>1 DEF vars, enclaveVars, appVars, ackVars, FileInfoTypeOK
<1> QED
  BY <1>1, CallTypes, ContinueTypes, EnclaveTypes DEF Next

\* The table, the app's copy of it and the requests under way keep their
\* types; the validator judges only valid and lost files.
THEOREM FileInfoTypes == Spec => []FileInfoTypeOK
PROOF
  BY TypeInit, TypeStep, PTL DEF Spec

-----------------------------------------------------------------------------
(* A step is looked at for one file *)

\* What FileInv(c) says does not depend on the rest of the state; and an entry
\* that is marked as deleted may be erased.
Same(c) ==
    /\ table'[c] = table[c] \/ (table[c] = "deleted" /\ table'[c] = "none")
    /\ pending'[c] = pending[c]
    /\ \A t \in Type : c \in sealed_file'[t] <=> c \in sealed_file[t]
    /\ c \in pending_size' <=> c \in pending_size
    /\ c \in Known' <=> c \in Known
    /\ c \in mixed => c \in mixed'

\* Between two requests.
LEMMA SameRest ==
    ASSUME FileInfoTypeOK, NEW c \in Cid, Same(c), Rest(c)
    PROVE  Rest(c)'
PROOF
<1>1. table[c] \in Type \/ table[c] \in {"none", "deleted"}
  BY DEF FileInfoTypeOK, Status, Type
<1>2. CASE table'[c] = table[c]
  BY <1>1, <1>2 DEF Same, Rest, Type
<1>3. CASE table[c] = "deleted" /\ table'[c] = "none"
  BY <1>3 DEF Same, Rest, Type
<1> QED
  BY <1>2, <1>3 DEF Same

\* Within a request.
LEMMA SameDoing ==
    ASSUME FileInfoTypeOK, NEW r \in Thread, Same(On(r)), req'[r] = req[r], Doing(r)
    PROVE  Doing(r)'
PROOF
<1> DEFINE c == On(r)
<1>0. c \in Cid /\ c' = c
  BY DEF On, FileInfoTypeOK, Request
<1>1. Rest(c) => Rest(c)'
  BY <1>0, SameRest
<1>2. /\ Unknown(c) => Unknown(c)'
      /\ Sealed(c) => Sealed(c)'
  BY <1>0 DEF Same, Unknown, Sealed, Type
<1>3. CASE req[r].delete
  <2>1. Deleting(r)
    BY <1>3 DEF Doing
  <2>2. Deleting(r)'
    BY <1>0, <2>1 DEF Deleting, Same, Type, On
  <2> QED
    BY <1>3, <2>2 DEF Doing
<1>4. CASE ~req[r].delete
  <2>1. Sealing(r)
    BY <1>4 DEF Doing
  <2>2. Sealing(r)'
    BY <1>0, <1>1, <1>2, <2>1 DEF Sealing, Same, Type, On, At
  <2> QED
    BY <1>4, <2>2 DEF Doing
<1> QED
  BY <1>3, <1>4

\* A file that no thread begins, goes on or ends to work on.
LEMMA Untouched ==
    ASSUME FileInfoTypeOK, NEW c \in Cid, Same(c), FileInv(c),
           \A r \in Thread : \/ req'[r] = req[r]
                             \/ r \notin Busy(c) /\ r \notin Busy(c)'
    PROVE  FileInv(c)'
PROOF
<1> SUFFICES ASSUME c \notin mixed'
             PROVE  /\ \A r, s \in Busy(c)' : r = s
                    /\ Busy(c)' = {} => Rest(c)'
                    /\ \A r \in Busy(c)' : Doing(r)'
  BY DEF FileInv
<1>1. c \notin mixed
  BY DEF Same
<1>2. Busy(c)' = Busy(c) /\ \A r \in Busy(c)' : req'[r] = req[r]
  BY DEF Busy, At, On
<1>3. \A r, s \in Busy(c)' : r = s
  BY <1>1, <1>2 DEF FileInv
<1>4. ASSUME Busy(c)' = {} PROVE Rest(c)'
  BY <1>1, <1>2, <1>4, SameRest DEF FileInv
<1>5. ASSUME NEW r \in Busy(c)' PROVE Doing(r)'
  <2>1. r \in Busy(c) /\ req'[r] = req[r]
    BY <1>2
  <2>2. r \in Thread /\ On(r) = c /\ Doing(r)
    BY <1>1, <2>1 DEF FileInv, Busy
  <2> QED
    BY <2>1, <2>2, SameDoing
<1> QED
  BY <1>3, <1>4, <1>5

\* The file of the one thread that takes the step.
LEMMA Touched ==
    ASSUME NEW c \in Cid, NEW r \in Thread,
           \A s \in Thread \ {r} : req'[s] = req[s] /\ s \notin Busy(c),
           \/ req'[r].pc = "idle" /\ Rest(c)'
           \/ req'[r].pc # "idle" /\ req'[r].cid = c /\ Doing(r)'
    PROVE  FileInv(c)'
PROOF
<1>1. \A s \in Thread \ {r} : s \notin Busy(c)'
  BY DEF Busy, At, On
<1>2. CASE req'[r].pc = "idle" /\ Rest(c)'
  <2>1. Busy(c)' = {}
    BY <1>1, <1>2 DEF Busy, At
  <2> QED
    BY <1>2, <2>1 DEF FileInv
<1>3. CASE req'[r].pc # "idle" /\ req'[r].cid = c /\ Doing(r)'
  <2>1. Busy(c)' = {r}
    BY <1>1, <1>3 DEF Busy, At, On
  <2> QED
    BY <1>3, <2>1 DEF FileInv
<1> QED
  BY <1>2, <1>3

-----------------------------------------------------------------------------
(* What the updates of the copy and of a request do *)

\* add_file_info: the file is shown under the new type; one that becomes
\* valid is not pending any more.
LEMMA AddEffect ==
    ASSUME FileInfoTypeOK, NEW c \in Cid, NEW type \in {"pending", "valid"},
           add_file_info(c, type)
    PROVE  /\ \A t \in Type : c \in sealed_file'[t] <=>
                 \/ t = type
                 \/ c \in sealed_file[t] /\ ~(type = "valid" /\ t = "pending")
           /\ c \in pending_size' <=> c \in pending_size /\ type # "valid"
           /\ \A d \in Cid \ {c} :
                 /\ \A t \in Type : d \in sealed_file'[t] <=> d \in sealed_file[t]
                 /\ d \in pending_size' <=> d \in pending_size
PROOF
<1>1. CASE type = "valid"
  BY <1>1 DEF add_file_info, FileInfoTypeOK, Type
<1>2. CASE type = "pending"
  BY <1>2 DEF add_file_info, FileInfoTypeOK, Type
<1> QED
  BY <1>1, <1>2

\* del_file_info(cid): the file is not shown any more; the size of a pending
\* file is forgotten.
LEMMA DelEffect ==
    ASSUME FileInfoTypeOK, NEW c \in Cid, del_file_info(c)
    PROVE  /\ \A t \in Type : c \notin sealed_file'[t]
           /\ c \in pending_size' <=> c \in pending_size /\ c \notin sealed_file["pending"]
           /\ \A d \in Cid \ {c} :
                 /\ \A t \in Type : d \in sealed_file'[t] <=> d \in sealed_file[t]
                 /\ d \in pending_size' <=> d \in pending_size
PROOF
  BY DEF del_file_info, FileInfoTypeOK, Type

\* del_file_info(cid, FILE_TYPE_PENDING).
LEMMA DelPendingEffect ==
    ASSUME FileInfoTypeOK, NEW c \in Cid, del_pending_info(c)
    PROVE  /\ \A t \in Type : c \in sealed_file'[t] <=>
                 c \in sealed_file[t] /\ t # "pending"
           /\ c \notin pending_size'
           /\ \A d \in Cid \ {c} :
                 /\ \A t \in Type : d \in sealed_file'[t] <=> d \in sealed_file[t]
                 /\ d \in pending_size' <=> d \in pending_size
PROOF
  BY DEF del_pending_info, FileInfoTypeOK, Type

\* A request goes on, or ends.
LEMMA GotoEffect ==
    ASSUME FileInfoTypeOK, NEW r \in Thread, NEW pc, Goto(r, pc)
    PROVE  /\ req'[r].pc = pc /\ req'[r].cid = req[r].cid /\ req'[r].ok = req[r].ok
           /\ req'[r].delete = req[r].delete /\ req'[r].was = req[r].was
           /\ \A s \in Thread \ {r} : req'[s] = req[s]
PROOF
  BY DEF Goto, FileInfoTypeOK, Request

LEMMA AnswerEffect ==
    ASSUME FileInfoTypeOK, NEW r \in Thread, Answer(r)
    PROVE  /\ req'[r].pc = "idle"
           /\ \A s \in Thread \ {r} : req'[s] = req[s]
PROOF
  BY DEF Answer, NoRequest, FileInfoTypeOK

-----------------------------------------------------------------------------
(* A request goes on *)

\* The request of r goes on at another place of its program, or ends and
\* leaves c at rest.
Outcome(r, c) ==
    \/ req'[r].pc = "idle" /\ Rest(c)'
    \/ req'[r].pc # "idle" /\ req'[r].cid = c /\ Doing(r)'

\* All but the file of the request and the thread that serves it.
Elsewhere(r, c) ==
    /\ \A s \in Thread \ {r} : req'[s] = req[s]
    /\ req'[r].pc = "idle" \/ req'[r].cid = c
    /\ \A d \in Cid \ {c} : Same(d)
    /\ mixed' = mixed

\* Every step of a request.
LEMMA ContinueOwn ==
    ASSUME FileInfoTypeOK, NEW r \in Thread, NEW c, c = On(r), Continue(r)
    PROVE  Elsewhere(r, c) /\ (Doing(r) => Outcome(r, c))
PROOF
<1>0. c \in Cid /\ c = req[r].cid
  BY DEF FileInfoTypeOK, Request, On
<1>1. ASSUME start_exceed(r) PROVE Elsewhere(r, c) /\ (Doing(r) => Outcome(r, c))
  <2>1. req'[r].pc = "idle" /\ \A s \in Thread \ {r} : req'[s] = req[s]
    BY <1>1, AnswerEffect DEF start_exceed
  <2>2. /\ mixed' = mixed /\ req[r].pc = "start_exceed"
        /\ table'[c] = "none" /\ pending' = pending
        /\ UNCHANGED <<sealed_file, pending_size>>
        /\ UNCHANGED Known
    BY <1>0, <1>1
    DEF start_exceed, At, enclaveVars, appVars, ackVars, Known, FileInfoTypeOK
  <2>3. \A d \in Cid \ {c} : /\ table'[d] = table[d] /\ pending'[d] = pending[d]
                             /\ d \in Known' <=> d \in Known
    BY <1>0, <1>1
    DEF start_exceed, enclaveVars, appVars, ackVars, Known, FileInfoTypeOK
  <2>4. Elsewhere(r, c)
    BY <2>1, <2>2, <2>3 DEF Elsewhere, Same
  <2>5. ASSUME req[r].delete, Doing(r) PROVE Outcome(r, c)
    BY <1>0, <2>1, <2>2, <2>3, <2>5
    DEF Outcome, Doing, Deleting, Rest, On, Type
  <2>6. ASSUME ~req[r].delete, Doing(r) PROVE Outcome(r, c)
    BY <1>0, <2>1, <2>2, <2>3, <2>6
    DEF Outcome, Doing, Sealing, Rest, Unknown, Sealed, On, At, Type
  <2> QED
    BY <2>4, <2>5, <2>6
<1>2. ASSUME start_info(r) PROVE Elsewhere(r, c) /\ (Doing(r) => Outcome(r, c))
  <2>1. req'[r].pc = "idle" /\ \A s \in Thread \ {r} : req'[s] = req[s]
    BY <1>2, AnswerEffect DEF start_info
  <2>2. /\ mixed' = mixed /\ req[r].pc = "start_info"
        /\ UNCHANGED <<table, pending, Known>>
    BY <1>0, <1>2
    DEF start_info, At, enclaveVars, appVars, ackVars, Known, FileInfoTypeOK
  <2>3. \A d \in Cid \ {c} : /\ table'[d] = table[d] /\ pending'[d] = pending[d]
                             /\ d \in Known' <=> d \in Known
    BY <1>0, <1>2
    DEF start_info, enclaveVars, appVars, ackVars, Known, FileInfoTypeOK
  <2>4. /\ \A t \in Type : c \in sealed_file'[t] <=>
              t = "pending" \/ c \in sealed_file[t]
        /\ c \in pending_size' <=> c \in pending_size
        /\ \A d \in Cid \ {c} :
              /\ \A t \in Type : d \in sealed_file'[t] <=> d \in sealed_file[t]
              /\ d \in pending_size' <=> d \in pending_size
    BY <1>0, <1>2, AddEffect DEF start_info
  <2>5. Elsewhere(r, c)
    BY <2>1, <2>2, <2>3, <2>4 DEF Elsewhere, Same
  <2>6. ASSUME req[r].delete, Doing(r) PROVE Outcome(r, c)
    BY <1>0, <2>1, <2>2, <2>3, <2>4, <2>6
    DEF Outcome, Doing, Deleting, Rest, On, Type
  <2>7. ASSUME ~req[r].delete, Doing(r) PROVE Outcome(r, c)
    BY <1>0, <2>1, <2>2, <2>3, <2>4, <2>7
    DEF Outcome, Doing, Sealing, Rest, Unknown, Sealed, On, At, Type
  <2> QED
    BY <2>5, <2>6, <2>7
<1>3. ASSUME seal_record(r) PROVE Elsewhere(r, c) /\ (Doing(r) => Outcome(r, c))
  <2>1. req'[r].pc = "idle" /\ \A s \in Thread \ {r} : req'[s] = req[s]
    BY <1>3, AnswerEffect DEF seal_record
  <2>2. /\ mixed' = mixed /\ req[r].pc = "seal_record"
        /\ UNCHANGED <<table, Known>>
        /\ UNCHANGED <<sealed_file, pending_size>>
        /\ pending[c] # "none" => pending'[c] # "none"
        /\ pending[c] = "none" => pending'[c] = "none"
    BY <1>0, <1>3
    DEF seal_record, At, enclaveVars, appVars, ackVars, Known, FileInfoTypeOK
  <2>3. \A d \in Cid \ {c} : /\ table'[d] = table[d] /\ pending'[d] = pending[d]
                             /\ d \in Known' <=> d \in Known
    BY <1>0, <1>3
    DEF seal_record, enclaveVars, appVars, ackVars, Known, FileInfoTypeOK
  <2>4. Elsewhere(r, c)
    BY <2>1, <2>2, <2>3 DEF Elsewhere, Same
  <2>5. ASSUME req[r].delete, Doing(r) PROVE Outcome(r, c)
    BY <1>0, <2>1, <2>2, <2>3, <2>5
    DEF Outcome, Doing, Deleting, Rest, On, Type
  <2>6. ASSUME ~req[r].delete, Doing(r) PROVE Outcome(r, c)
    BY <1>0, <2>1, <2>2, <2>3, <2>6
    DEF Outcome, Doing, Sealing, Rest, Unknown, Sealed, On, At, Type
  <2> QED
    BY <2>4, <2>5, <2>6
<1>4. ASSUME clean_pending(r) PROVE Elsewhere(r, c) /\ (Doing(r) => Outcome(r, c))
  <2>1. /\ req'[r].pc = "clean_dir" /\ req'[r].cid = c /\ req'[r].ok = req[r].ok
        /\ req'[r].delete = req[r].delete /\ req'[r].was = req[r].was
        /\ \A s \in Thread \ {r} : req'[s] = req[s]
    BY <1>0, <1>4, GotoEffect DEF clean_pending
  <2>2. /\ mixed' = mixed /\ req[r].pc = "clean_pending"
        /\ pending'[c] = "none" /\ UNCHANGED <<table, Known>>
        /\ UNCHANGED <<sealed_file, pending_size>>
    BY <1>0, <1>4
    DEF clean_pending, At, enclaveVars, appVars, ackVars, Known, FileInfoTypeOK
  <2>3. \A d \in Cid \ {c} : /\ table'[d] = table[d] /\ pending'[d] = pending[d]
                             /\ d \in Known' <=> d \in Known
    BY <1>0, <1>4
    DEF clean_pending, enclaveVars, appVars, ackVars, Known, FileInfoTypeOK
  <2>4. Elsewhere(r, c)
    BY <2>1, <2>2, <2>3 DEF Elsewhere, Same
  <2>5. ASSUME req[r].delete, Doing(r) PROVE Outcome(r, c)
    BY <1>0, <2>1, <2>2, <2>3, <2>5
    DEF Outcome, Doing, Deleting, Rest, On, Type
  <2>6. ASSUME ~req[r].delete, Doing(r) PROVE Outcome(r, c)
    BY <1>0, <2>1, <2>2, <2>3, <2>6
    DEF Outcome, Doing, Sealing, Rest, Unknown, Sealed, On, At, Type
  <2> QED
    BY <2>4, <2>5, <2>6
<1>5. ASSUME clean_dir(r) PROVE Elsewhere(r, c) /\ (Doing(r) => Outcome(r, c))
  <2>1. /\ req'[r].pc = "clean_entry" /\ req'[r].cid = c /\ req'[r].ok = req[r].ok
        /\ req'[r].delete = req[r].delete /\ req'[r].was = req[r].was
        /\ \A s \in Thread \ {r} : req'[s] = req[s]
    BY <1>0, <1>5, GotoEffect DEF clean_dir
  <2>2. /\ mixed' = mixed /\ req[r].pc = "clean_dir"
        /\ UNCHANGED <<table, pending, Known>>
        /\ UNCHANGED <<sealed_file, pending_size>>
    BY <1>0, <1>5
    DEF clean_dir, At, enclaveVars, appVars, ackVars, Known, FileInfoTypeOK
  <2>3. \A d \in Cid \ {c} : /\ table'[d] = table[d] /\ pending'[d] = pending[d]
                             /\ d \in Known' <=> d \in Known
    BY <1>0, <1>5
    DEF clean_dir, enclaveVars, appVars, ackVars, Known, FileInfoTypeOK
  <2>4. Elsewhere(r, c)
    BY <2>1, <2>2, <2>3 DEF Elsewhere, Same
  <2>5. ASSUME req[r].delete, Doing(r) PROVE Outcome(r, c)
    BY <1>0, <2>1, <2>2, <2>3, <2>5
    DEF Outcome, Doing, Deleting, Rest, On, Type
  <2>6. ASSUME ~req[r].delete, Doing(r) PROVE Outcome(r, c)
    BY <1>0, <2>1, <2>2, <2>3, <2>6
    DEF Outcome, Doing, Sealing, Rest, Unknown, Sealed, On, At, Type
  <2> QED
    BY <2>4, <2>5, <2>6
<1>6. ASSUME end_info(r) PROVE Elsewhere(r, c) /\ (Doing(r) => Outcome(r, c))
  <2>1. /\ req'[r].pc = "end_pending" /\ req'[r].cid = c /\ req'[r].ok = req[r].ok
        /\ req'[r].delete = req[r].delete /\ req'[r].was = req[r].was
        /\ \A s \in Thread \ {r} : req'[s] = req[s]
    BY <1>0, <1>6, GotoEffect DEF end_info
  <2>2. /\ mixed' = mixed /\ req[r].pc = "end_info"
        /\ UNCHANGED <<table, pending, Known>>
    BY <1>0, <1>6
    DEF end_info, At, enclaveVars, appVars, ackVars, Known, FileInfoTypeOK
  <2>3. \A d \in Cid \ {c} : /\ table'[d] = table[d] /\ pending'[d] = pending[d]
                             /\ d \in Known' <=> d \in Known
    BY <1>0, <1>6
    DEF end_info, enclaveVars, appVars, ackVars, Known, FileInfoTypeOK
  <2>4. /\ \A t \in Type : c \in sealed_file'[t] <=>
              t = "valid" \/ (c \in sealed_file[t] /\ t # "pending")
        /\ c \notin pending_size'
        /\ \A d \in Cid \ {c} :
              /\ \A t \in Type : d \in sealed_file'[t] <=> d \in sealed_file[t]
              /\ d \in pending_size' <=> d \in pending_size
    BY <1>0, <1>6, AddEffect DEF end_info
  <2>5. Elsewhere(r, c)
    BY <2>1, <2>2, <2>3, <2>4 DEF Elsewhere, Same
  <2>6. ASSUME req[r].delete, Doing(r) PROVE Outcome(r, c)
    BY <1>0, <2>1, <2>2, <2>3, <2>4, <2>6
    DEF Outcome, Doing, Deleting, Rest, On, Type
  <2>7. ASSUME ~req[r].delete, Doing(r) PROVE Outcome(r, c)
    BY <1>0, <2>1, <2>2, <2>3, <2>4, <2>7
    DEF Outcome, Doing, Sealing, Rest, Unknown, Sealed, On, At, Type
  <2> QED
    BY <2>5, <2>6, <2>7
<1>7. ASSUME end_dir(r) PROVE Elsewhere(r, c) /\ (Doing(r) => Outcome(r, c))
  <2>1. /\ req'[r].pc = "end_pending" /\ req'[r].cid = c /\ req'[r].ok = req[r].ok
        /\ req'[r].delete = req[r].delete /\ req'[r].was = req[r].was
        /\ \A s \in Thread \ {r} : req'[s] = req[s]
    BY <1>0, <1>7, GotoEffect DEF end_dir
  <2>2. /\ mixed' = mixed /\ req[r].pc = "end_dir"
        /\ UNCHANGED <<table, pending, Known>>
        /\ UNCHANGED <<sealed_file, pending_size>>
    BY <1>0, <1>7
    DEF end_dir, At, enclaveVars, appVars, ackVars, Known, FileInfoTypeOK
  <2>3. \A d \in Cid \ {c} : /\ table'[d] = table[d] /\ pending'[d] = pending[d]
                             /\ d \in Known' <=> d \in Known
    BY <1>0, <1>7
    DEF end_dir, enclaveVars, appVars, ackVars, Known, FileInfoTypeOK
  <2>4. Elsewhere(r, c)
    BY <2>1, <2>2, <2>3 DEF Elsewhere, Same
  <2>5. ASSUME req[r].delete, Doing(r) PROVE Outcome(r, c)
    BY <1>0, <2>1, <2>2, <2>3, <2>5
    DEF Outcome, Doing, Deleting, Rest, On, Type
  <2>6. ASSUME ~req[r].delete, Doing(r) PROVE Outcome(r, c)
    BY <1>0, <2>1, <2>2, <2>3, <2>6
    DEF Outcome, Doing, Sealing, Rest, Unknown, Sealed, On, At, Type
  <2> QED
    BY <2>4, <2>5, <2>6
<1>8. ASSUME end_pending(r) PROVE Elsewhere(r, c) /\ (Doing(r) => Outcome(r, c))
  <2>1. /\ req'[r].pc = "clean_entry" /\ req'[r].cid = c /\ req'[r].ok = req[r].ok
        /\ req'[r].delete = req[r].delete /\ req'[r].was = req[r].was
        /\ \A s \in Thread \ {r} : req'[s] = req[s]
    BY <1>0, <1>8, GotoEffect DEF end_pending
  <2>2. /\ mixed' = mixed /\ req[r].pc = "end_pending"
        /\ pending'[c] = "none" /\ UNCHANGED <<table, Known>>
        /\ UNCHANGED <<sealed_file, pending_size>>
    BY <1>0, <1>8
    DEF end_pending, At, enclaveVars, appVars, ackVars, Known, FileInfoTypeOK
  <2>3. \A d \in Cid \ {c} : /\ table'[d] = table[d] /\ pending'[d] = pending[d]
                             /\ d \in Known' <=> d \in Known
    BY <1>0, <1>8
    DEF end_pending, enclaveVars, appVars, ackVars, Known, FileInfoTypeOK
  <2>4. Elsewhere(r, c)
    BY <2>1, <2>2, <2>3 DEF Elsewhere, Same
  <2>5. ASSUME req[r].delete, Doing(r) PROVE Outcome(r, c)
    BY <1>0, <2>1, <2>2, <2>3, <2>5
    DEF Outcome, Doing, Deleting, Rest, On, Type
  <2>6. ASSUME ~req[r].delete, Doing(r) PROVE Outcome(r, c)
    BY <1>0, <2>1, <2>2, <2>3, <2>6
    DEF Outcome, Doing, Sealing, Rest, Unknown, Sealed, On, At, Type
  <2> QED
    BY <2>4, <2>5, <2>6
<1>9. ASSUME delete_data(r) PROVE Elsewhere(r, c) /\ (Doing(r) => Outcome(r, c))
  <2>1. /\ req'[r].pc = "delete_info" /\ req'[r].cid = c /\ req'[r].ok = req[r].ok
        /\ req'[r].delete = req[r].delete /\ req'[r].was = req[r].was
        /\ \A s \in Thread \ {r} : req'[s] = req[s]
    BY <1>0, <1>9, GotoEffect DEF delete_data
  <2>2. /\ mixed' = mixed /\ req[r].pc = "delete_data"
        /\ UNCHANGED <<table, pending, Known>>
        /\ UNCHANGED <<sealed_file, pending_size>>
    BY <1>0, <1>9
    DEF delete_data, At, enclaveVars, appVars, ackVars, Known, FileInfoTypeOK
  <2>3. \A d \in Cid \ {c} : /\ table'[d] = table[d] /\ pending'[d] = pending[d]
                             /\ d \in Known' <=> d \in Known
    BY <1>0, <1>9
    DEF delete_data, enclaveVars, appVars, ackVars, Known, FileInfoTypeOK
  <2>4. Elsewhere(r, c)
    BY <2>1, <2>2, <2>3 DEF Elsewhere, Same
  <2>5. ASSUME req[r].delete, Doing(r) PROVE Outcome(r, c)
    BY <1>0, <2>1, <2>2, <2>3, <2>5
    DEF Outcome, Doing, Deleting, Rest, On, Type
  <2>6. ASSUME ~req[r].delete, Doing(r) PROVE Outcome(r, c)
    BY <1>0, <2>1, <2>2, <2>3, <2>6
    DEF Outcome, Doing, Sealing, Rest, Unknown, Sealed, On, At, Type
  <2> QED
    BY <2>4, <2>5, <2>6
<1>10. ASSUME delete_info(r) PROVE Elsewhere(r, c) /\ (Doing(r) => Outcome(r, c))
  <2>1. /\ req'[r].pc = IF req[r].was = "pending" THEN "delete_end" ELSE "delete_route"
        /\ req'[r].cid = c /\ req'[r].ok = req[r].ok
        /\ req'[r].delete = req[r].delete /\ req'[r].was = req[r].was
        /\ \A s \in Thread \ {r} : req'[s] = req[s]
    BY <1>0, <1>10, GotoEffect DEF delete_info
  <2>2. /\ mixed' = mixed /\ req[r].pc = "delete_info"
        /\ UNCHANGED <<table, pending, Known>>
    BY <1>0, <1>10
    DEF delete_info, At, enclaveVars, appVars, ackVars, Known, FileInfoTypeOK
  <2>3. \A d \in Cid \ {c} : /\ table'[d] = table[d] /\ pending'[d] = pending[d]
                             /\ d \in Known' <=> d \in Known
    BY <1>0, <1>10
    DEF delete_info, enclaveVars, appVars, ackVars, Known, FileInfoTypeOK
  <2>4. /\ \A t \in Type : c \notin sealed_file'[t]
        /\ c \in pending_size' <=> c \in pending_size /\ c \notin sealed_file["pending"]
        /\ \A d \in Cid \ {c} :
              /\ \A t \in Type : d \in sealed_file'[t] <=> d \in sealed_file[t]
              /\ d \in pending_size' <=> d \in pending_size
    BY <1>0, <1>10, DelEffect DEF delete_info
  <2>5. Elsewhere(r, c)
    BY <2>1, <2>2, <2>3, <2>4 DEF Elsewhere, Same
  <2>6. ASSUME req[r].delete, Doing(r) PROVE Outcome(r, c)
    BY <1>0, <2>1, <2>2, <2>3, <2>4, <2>6
    DEF Outcome, Doing, Deleting, Rest, On, Type
  <2>7. ASSUME ~req[r].delete, Doing(r) PROVE Outcome(r, c)
    BY <1>0, <2>1, <2>2, <2>3, <2>4, <2>7
    DEF Outcome, Doing, Sealing, Rest, Unknown, Sealed, On, At, Type
  <2> QED
    BY <2>5, <2>6, <2>7
<1>11. ASSUME delete_route(r) PROVE Elsewhere(r, c) /\ (Doing(r) => Outcome(r, c))
  <2>1. req'[r].pc = "idle" /\ \A s \in Thread \ {r} : req'[s] = req[s]
    BY <1>11, AnswerEffect DEF delete_route
  <2>2. /\ mixed' = mixed /\ req[r].pc = "delete_route"
        /\ UNCHANGED <<table, pending, Known>>
    BY <1>0, <1>11
    DEF delete_route, At, enclaveVars, appVars, ackVars, Known, FileInfoTypeOK
  <2>3. \A d \in Cid \ {c} : /\ table'[d] = table[d] /\ pending'[d] = pending[d]
                             /\ d \in Known' <=> d \in Known
    BY <1>0, <1>11
    DEF delete_route, enclaveVars, appVars, ackVars, Known, FileInfoTypeOK
  <2>4. /\ \A t \in Type : c \notin sealed_file'[t]
        /\ c \in pending_size' <=> c \in pending_size /\ c \notin sealed_file["pending"]
        /\ \A d \in Cid \ {c} :
              /\ \A t \in Type : d \in sealed_file'[t] <=> d \in sealed_file[t]
              /\ d \in pending_size' <=> d \in pending_size
    BY <1>0, <1>11, DelEffect DEF delete_route
  <2>5. Elsewhere(r, c)
    BY <2>1, <2>2, <2>3, <2>4 DEF Elsewhere, Same
  <2>6. ASSUME req[r].delete, Doing(r) PROVE Outcome(r, c)
    BY <1>0, <2>1, <2>2, <2>3, <2>4, <2>6
    DEF Outcome, Doing, Deleting, Rest, On, Type
  <2>7. ASSUME ~req[r].delete, Doing(r) PROVE Outcome(r, c)
    BY <1>0, <2>1, <2>2, <2>3, <2>4, <2>7
    DEF Outcome, Doing, Sealing, Rest, Unknown, Sealed, On, At, Type
  <2> QED
    BY <2>5, <2>6, <2>7
<1>12. ASSUME start_pending(r) PROVE Elsewhere(r, c) /\ (Doing(r) => Outcome(r, c))
  <2>1. \/ Goto(r, "start_exceed") /\ pending' = pending
        \/ Goto(r, "start_info") /\ pending' = [pending EXCEPT ![c] = "open"]
    BY <1>12 DEF start_pending
  <2>2. /\ req[r].pc = "start_pending"
        /\ UNCHANGED <<table, sealed_file, pending_size, Known, mixed>>
    BY <1>12 DEF start_pending, At, appVars, ackVars, Known
  <2>3. /\ req'[r].cid = c /\ req'[r].ok = req[r].ok
        /\ req'[r].delete = req[r].delete
        /\ \A s \in Thread \ {r} : req'[s] = req[s]
    BY <1>0, <2>1, GotoEffect
  <2>4. \/ req'[r].pc = "start_exceed" /\ pending'[c] = pending[c]
        \/ req'[r].pc = "start_info" /\ pending'[c] = "open"
    BY <1>0, <2>1, GotoEffect DEF FileInfoTypeOK
  <2>5. Elsewhere(r, c)
    BY <2>1, <2>2, <2>3 DEF Elsewhere, Same, FileInfoTypeOK
  <2>6. ASSUME Doing(r) PROVE Outcome(r, c)
    BY <1>0, <2>2, <2>3, <2>4, <2>6
    DEF Outcome, Doing, Sealing, Deleting, Unknown, On, At, Type
  <2> QED
    BY <2>5, <2>6
<1>13. ASSUME seal_save(r) PROVE Elsewhere(r, c) /\ (Doing(r) => Outcome(r, c))
  <2>1. /\ req[r].pc = "seal_save"
        /\ UNCHANGED <<table, pending, sealed_file, Known, mixed>>
    BY <1>13 DEF seal_save, At, enclaveVars, ackVars, Known
  <2>2. \/ Goto(r, "seal_record") /\ pending_size' = pending_size \cup {c}
        \/ Goto(r, "clean_pending") /\ pending_size' = pending_size
        \/ Answer(r) /\ pending_size' = pending_size
    BY <1>13 DEF seal_save, ocall_save_ipfs_block
  <2>3. \/ /\ req'[r].cid = c /\ req'[r].ok = req[r].ok
           /\ req'[r].delete = req[r].delete
           /\ req'[r].pc \in {"seal_record", "clean_pending"}
        \/ req'[r].pc = "idle"
    BY <1>0, <2>2, GotoEffect, AnswerEffect
  <2>4. Elsewhere(r, c)
    <3>1. \A s \in Thread \ {r} : req'[s] = req[s]
      BY <2>2, GotoEffect, AnswerEffect
    <3> QED
      BY <2>1, <2>2, <2>3, <3>1 DEF Elsewhere, Same
  <2>5. ASSUME Doing(r) PROVE Outcome(r, c)
    <3>1. ~req[r].delete /\ Rest(c) /\ pending[c] # "none" /\ ~req[r].ok
      BY <1>0, <2>1, <2>5 DEF Doing, Sealing, Deleting, On
    <3>2. Rest(c)'
      BY <2>1, <2>2, <3>1 DEF Rest
    <3> QED
      BY <2>1, <2>3, <3>1, <3>2 DEF Outcome, Doing, Sealing, On, At
  <2> QED
    BY <2>4, <2>5
<1>14. ASSUME clean_entry(r) PROVE Elsewhere(r, c) /\ (Doing(r) => Outcome(r, c))
  <2>1. req[r].pc = "clean_entry" /\ UNCHANGED <<pending, mixed>>
    BY <1>14 DEF clean_entry, At
  <2>2. \/ /\ req[r].delete
           /\ Goto(r, "delete_route") /\ Known' = Known
        \/ /\ ~req[r].delete
           /\ Answer(r) /\ Known' = IF req[r].ok THEN Known \cup {c} ELSE Known
    BY <1>14 DEF clean_entry, EndOfSeal, ackVars, Known
  <2>3. \/ /\ table[c] = "pending" /\ table' = [table EXCEPT ![c] = "none"]
           /\ del_pending_info(c)
        \/ /\ table[c] # "pending"
           /\ UNCHANGED <<table, sealed_file, pending_size>>
    BY <1>14 DEF clean_entry, appVars
  <2>4. Elsewhere(r, c)
    <3>1. \A d \in Cid \ {c} : /\ table'[d] = table[d] /\ pending'[d] = pending[d]
                               /\ d \in Known' <=> d \in Known
      BY <2>1, <2>2, <2>3 DEF FileInfoTypeOK
    <3>2. \A d \in Cid \ {c} :
             /\ \A t \in Type : d \in sealed_file'[t] <=> d \in sealed_file[t]
             /\ d \in pending_size' <=> d \in pending_size
      BY <1>0, <2>3, DelPendingEffect
    <3>3. /\ \A s \in Thread \ {r} : req'[s] = req[s]
          /\ req'[r].pc = "idle" \/ req'[r].cid = c
      BY <1>0, <2>2, GotoEffect, AnswerEffect
    <3> QED
      BY <2>1, <3>1, <3>2, <3>3 DEF Elsewhere, Same
  <2>5. ASSUME req[r].delete, Doing(r) PROVE Outcome(r, c)
    <3>1. /\ c \notin Known /\ table[c] # "pending" /\ c \notin pending_size
          /\ pending[c] = "none"
      BY <1>0, <2>1, <2>5 DEF Doing, Deleting, On
    <3>2. UNCHANGED <<table, sealed_file, pending_size, Known>>
      BY <2>2, <2>3, <2>5, <3>1
    <3>3. req'[r].pc = "delete_route" /\ req'[r].cid = c /\ req'[r].delete
      BY <1>0, <2>2, <2>5, GotoEffect
    <3> QED
      BY <2>1, <3>1, <3>2, <3>3 DEF Outcome, Doing, Deleting, On
  <2>6. ASSUME ~req[r].delete, Doing(r) PROVE Outcome(r, c)
    <3>1. (IF req[r].ok THEN Sealed(c) ELSE Rest(c)) /\ pending[c] = "none"
      BY <1>0, <2>1, <2>6 DEF Doing, Sealing, On
    <3>2. req'[r].pc = "idle"
      BY <2>2, <2>6, AnswerEffect
    <3>3. CASE req[r].ok
      <4>1. UNCHANGED <<table, sealed_file, pending_size>> /\ Sealed(c)
        BY <2>3, <3>1, <3>3 DEF Sealed
      <4>2. Rest(c)'
        BY <2>1, <3>1, <4>1 DEF Rest, Sealed
      <4> QED
        BY <3>2, <4>2 DEF Outcome
    <3>4. CASE ~req[r].ok
      <4>1. Known' = Known /\ Rest(c)
        BY <2>2, <2>6, <3>1, <3>4
      <4>2. CASE table[c] # "pending"
        <5>1. UNCHANGED <<table, sealed_file, pending_size>>
          BY <2>3, <4>2
        <5> QED
          BY <2>1, <3>2, <4>1, <5>1 DEF Outcome, Rest
      <4>3. CASE table[c] = "pending"
        <5>1. table'[c] = "none" /\ c \notin Known
          BY <1>0, <2>3, <4>1, <4>3 DEF FileInfoTypeOK, Rest
        <5>2. /\ \A t \in Type : c \notin sealed_file'[t]
              /\ c \notin pending_size'
          BY <1>0, <2>3, <4>1, <4>3, DelPendingEffect DEF Rest
        <5> QED
          BY <2>1, <3>1, <3>2, <4>1, <5>1, <5>2 DEF Outcome, Rest
      <4> QED
        BY <4>2, <4>3
    <3> QED
      BY <3>3, <3>4
  <2> QED
    BY <2>4, <2>5, <2>6
<1>15. ASSUME end_check(r) PROVE Elsewhere(r, c) /\ (Doing(r) => Outcome(r, c))
  <2>1. /\ req[r].pc = "end_check"
        /\ UNCHANGED <<table, pending, sealed_file, pending_size, Known, mixed>>
    BY <1>15 DEF end_check, At, enclaveVars, appVars, ackVars, Known
  <2>2. /\ req'[r].cid = c /\ req'[r].ok = req[r].ok
        /\ req'[r].delete = req[r].delete
        /\ \A s \in Thread \ {r} : req'[s] = req[s]
        /\ req'[r].pc \in {"end_table", "end_dir"}
    BY <1>0, <1>15, GotoEffect DEF end_check
  <2>3. Elsewhere(r, c)
    BY <2>1, <2>2 DEF Elsewhere, Same
  <2>4. ASSUME Doing(r) PROVE Outcome(r, c)
    BY <1>0, <2>1, <2>2, <2>4
    DEF Outcome, Doing, Sealing, Deleting, Rest, On, At
  <2> QED
    BY <2>3, <2>4
<1>16. ASSUME end_table(r) PROVE Elsewhere(r, c) /\ (Doing(r) => Outcome(r, c))
  <2>1. /\ req[r].pc = "end_table"
        /\ table'[c] = "valid" /\ \A d \in Cid \ {c} : table'[d] = table[d]
        /\ UNCHANGED <<pending, sealed_file, pending_size, Known, mixed>>
    BY <1>0, <1>16 DEF end_table, At, appVars, ackVars, Known, FileInfoTypeOK
  <2>2. /\ req'[r].cid = c /\ req'[r].ok = TRUE
        /\ req'[r].delete = req[r].delete
        /\ \A s \in Thread \ {r} : req'[s] = req[s]
        /\ req'[r].pc = "end_info"
    BY <1>0, <1>16 DEF end_table, FileInfoTypeOK, Request
  <2>3. Elsewhere(r, c)
    BY <2>1, <2>2 DEF Elsewhere, Same
  <2>4. ASSUME Doing(r) PROVE Outcome(r, c)
    BY <1>0, <2>1, <2>2, <2>4
    DEF Outcome, Doing, Sealing, Deleting, Rest, On, At
  <2> QED
    BY <2>3, <2>4
<1>17. ASSUME delete_end(r) PROVE Elsewhere(r, c) /\ (Doing(r) => Outcome(r, c))
  <2>1. /\ req[r].pc = "delete_end"
        /\ UNCHANGED <<table, pending, sealed_file, pending_size, Known, mixed>>
    BY <1>17 DEF delete_end, At, enclaveVars, appVars, ackVars, Known
  <2>2. /\ req'[r].cid = c /\ req'[r].delete = req[r].delete
        /\ \A s \in Thread \ {r} : req'[s] = req[s]
        /\ req'[r].pc = IF pending[c] = "none" THEN "delete_route" ELSE "end_check"
    <3>1. req' = [req EXCEPT ![r].whole = pending[c] = "whole",
                             ![r].pc = IF pending[c] = "none" THEN "delete_route"
                                                              ELSE "end_check"]
      BY <1>17 DEF delete_end
    <3>2. req \in [Thread -> Request]
      BY DEF FileInfoTypeOK
    <3> QED
      BY <1>0, <3>1, <3>2 DEF Request
  <2>3. Elsewhere(r, c)
    BY <2>1, <2>2 DEF Elsewhere, Same
  <2>4. ASSUME Doing(r) PROVE Outcome(r, c)
    BY <1>0, <2>1, <2>2, <2>4
    DEF Outcome, Doing, Sealing, Deleting, On
  <2> QED
    BY <2>3, <2>4
<1> QED
  BY <1>1, <1>2, <1>3, <1>4, <1>5, <1>6, <1>7, <1>8, <1>9, <1>10, <1>11, <1>12,
     <1>13, <1>14, <1>15, <1>16, <1>17
  DEF Continue

\* A request goes on: its own file, and the others.
LEMMA ContinueStep ==
    ASSUME FileInfoTypeOK, FilesInv, NEW r \in Thread, Continue(r)
    PROVE  FilesInv'
PROOF
<1> SUFFICES ASSUME NEW d \in Cid PROVE FileInv(d)'
  BY DEF FilesInv
<1>1. PICK c \in Cid : c = On(r)
  BY DEF FileInfoTypeOK, Request, On
<1>2. Elsewhere(r, c) /\ (Doing(r) => Outcome(r, c))
  BY <1>1, ContinueOwn
<1>3. FileInv(d) /\ FileInv(c)
  BY DEF FilesInv
<1>4. CASE d # c
  <2>1. r \notin Busy(d) /\ r \notin Busy(d)'
    BY <1>1, <1>2, <1>4 DEF Busy, At, On, Elsewhere
  <2> QED
    BY <1>2, <1>3, <1>4, <2>1, Untouched DEF Elsewhere
<1>5. CASE d = c /\ c \in mixed
  BY <1>2, <1>5 DEF Elsewhere, FileInv
<1>6. CASE d = c /\ c \notin mixed
  <2>1. r \in Busy(c)
    BY <1>1 DEF Busy, At, Continue, start_pending, start_exceed, start_info,
       seal_save, seal_record, clean_pending, clean_dir, clean_entry, end_check,
       end_table, end_info, end_dir, end_pending, delete_data, delete_info,
       delete_end, delete_route
  <2>2. Doing(r) /\ \A s \in Thread \ {r} : s \notin Busy(c)
    BY <1>3, <1>6, <2>1 DEF FileInv
  <2>3. FileInv(c)'
    BY <1>2, <2>2, Touched DEF Elsewhere, Outcome
  <2> QED
    BY <1>6, <2>3
<1> QED
  BY <1>4, <1>5, <1>6

-----------------------------------------------------------------------------
(* A request is received *)

\* A request on c has been received by r.
Received(r, c) ==
    /\ At(r, "idle")
    /\ \A s \in Thread \ {r} : req'[s] = req[s]
    /\ req'[r].pc # "idle" /\ req'[r].cid = c
    /\ \A d \in Cid \ {c} : table'[d] = table[d] /\ (d \in Known' <=> d \in Known)
    /\ UNCHANGED <<pending, sealed_file, pending_size>>
    /\ mixed' = IF Busy(c) = {} THEN mixed ELSE mixed \cup {c}
    /\ Rest(c) => Doing(r)'

\* Every request finds the file at rest, or overlaps with another.
LEMMA CallOwn ==
    ASSUME FileInfoTypeOK, NEW r \in Thread, NEW c \in Cid, Call(r, c)
    PROVE  Received(r, c)
PROOF
<1>1. ASSUME storage_seal_file_start(r, c) PROVE Received(r, c)
  <2>1. /\ req'[r].cid = c /\ req'[r].pc = "start_pending" /\ ~req'[r].delete
        /\ ~req'[r].ok
        /\ \A s \in Thread \ {r} : req'[s] = req[s]
    BY <1>1 DEF storage_seal_file_start, Ask, NoRequest, FileInfoTypeOK
  <2>2. /\ table'[c] = "pending" /\ Known' = Known
        /\ \A d \in Cid \ {c} : table'[d] = table[d] /\ (d \in Known' <=> d \in Known)
        /\ UNCHANGED <<pending, sealed_file, pending_size>>
    BY <1>1
    DEF storage_seal_file_start, enclaveVars, appVars, ackVars, Known, FileInfoTypeOK
  <2>3. /\ At(r, "idle")
        /\ mixed' = IF Busy(c) = {} THEN mixed ELSE mixed \cup {c}
    BY <1>1 DEF storage_seal_file_start, Ask
  <2>4. ASSUME Rest(c) PROVE Doing(r)'
    BY <1>1, <2>1, <2>2, <2>4
    DEF storage_seal_file_start, CanSeal, Doing, Sealing, Deleting, Rest, Unknown, On, At, Type
  <2> QED
    BY <2>1, <2>2, <2>3, <2>4 DEF Received
<1>2. ASSUME storage_seal_file(r, c) PROVE Received(r, c)
  <2>1. /\ req'[r].cid = c /\ ~req'[r].delete /\ ~req'[r].ok
        /\ \/ req'[r].pc = IF pending[c] = "none" THEN "clean_pending" ELSE "seal_save"
           \/ req'[r].pc = "seal_record"
        /\ \A s \in Thread \ {r} : req'[s] = req[s]
    <3>1. \E pc \in {"seal_record",
                      IF pending[c] = "none" THEN "clean_pending" ELSE "seal_save"} :
             req' = [req EXCEPT ![r] = [NoRequest EXCEPT !.pc = pc, !.cid = c]]
      BY <1>2 DEF storage_seal_file, Ask
    <3> QED
      BY <3>1 DEF NoRequest, FileInfoTypeOK
  <2>2. /\ table' = table /\ Known' = Known
        /\ \A d \in Cid \ {c} : table'[d] = table[d] /\ (d \in Known' <=> d \in Known)
        /\ UNCHANGED <<pending, sealed_file, pending_size>>
    BY <1>2
    DEF storage_seal_file, enclaveVars, appVars, ackVars, Known, FileInfoTypeOK
  <2>3. /\ At(r, "idle")
        /\ mixed' = IF Busy(c) = {} THEN mixed ELSE mixed \cup {c}
    BY <1>2 DEF storage_seal_file, Ask
  <2>4. ASSUME Rest(c) PROVE Doing(r)'
    BY <1>2, <2>1, <2>2, <2>4
    DEF storage_seal_file, Doing, Sealing, Deleting, Rest, Unknown, On, At, Type
  <2> QED
    BY <2>1, <2>2, <2>3, <2>4 DEF Received
<1>3. ASSUME storage_seal_file_end(r, c) PROVE Received(r, c)
  <2>1. /\ req'[r].cid = c /\ req'[r].pc = "end_check" /\ ~req'[r].delete
        /\ ~req'[r].ok
        /\ \A s \in Thread \ {r} : req'[s] = req[s]
    BY <1>3 DEF storage_seal_file_end, NoRequest, FileInfoTypeOK
  <2>2. /\ table' = table /\ Known' = Known
        /\ \A d \in Cid \ {c} : table'[d] = table[d] /\ (d \in Known' <=> d \in Known)
        /\ UNCHANGED <<pending, sealed_file, pending_size>>
    BY <1>3
    DEF storage_seal_file_end, enclaveVars, appVars, ackVars, Known, FileInfoTypeOK
  <2>3. /\ At(r, "idle")
        /\ mixed' = IF Busy(c) = {} THEN mixed ELSE mixed \cup {c}
    BY <1>3 DEF storage_seal_file_end
  <2>4. ASSUME Rest(c) PROVE Doing(r)'
    BY <1>3, <2>1, <2>2, <2>4
    DEF storage_seal_file_end, Doing, Sealing, Deleting, Rest, Unknown, On, At, Type
  <2> QED
    BY <2>1, <2>2, <2>3, <2>4 DEF Received
<1>4. ASSUME storage_delete_file(r, c) PROVE Received(r, c)
  <2>1. /\ req'[r].cid = c /\ req'[r].delete /\ req'[r].was = table[c]
        /\ req'[r].pc = IF table[c] = "deleted" THEN "delete_route" ELSE "delete_data"
        /\ \A s \in Thread \ {r} : req'[s] = req[s]
    BY <1>4 DEF storage_delete_file, NoRequest, FileInfoTypeOK
  <2>2. /\ table'[c] = "deleted" /\ c \notin Known'
        /\ \A d \in Cid \ {c} : table'[d] = table[d] /\ (d \in Known' <=> d \in Known)
        /\ UNCHANGED <<pending, sealed_file, pending_size>>
    BY <1>4
    DEF storage_delete_file, enclaveVars, appVars, ackVars, Known, FileInfoTypeOK
  <2>3. /\ At(r, "idle")
        /\ mixed' = IF Busy(c) = {} THEN mixed ELSE mixed \cup {c}
    BY <1>4 DEF storage_delete_file
  <2>4. ASSUME Rest(c) PROVE Doing(r)'
    BY <1>4, <2>1, <2>2, <2>4
    DEF storage_delete_file, Doing, Sealing, Deleting, Rest, Unknown, On, At, Type
  <2> QED
    BY <2>1, <2>2, <2>3, <2>4 DEF Received
<1> QED
  BY <1>1, <1>2, <1>3, <1>4 DEF Call

\* A request is received: its own file, and the others.
LEMMA CallStep ==
    ASSUME FileInfoTypeOK, FilesInv, NEW r \in Thread, NEW c \in Cid, Call(r, c)
    PROVE  FilesInv'
PROOF
<1> SUFFICES ASSUME NEW d \in Cid PROVE FileInv(d)'
  BY DEF FilesInv
<1>1. Received(r, c)
  BY CallOwn
<1>2. FileInv(d) /\ FileInv(c)
  BY DEF FilesInv
<1>3. CASE d # c
  <2>1. r \notin Busy(d) /\ r \notin Busy(d)'
    BY <1>1, <1>3 DEF Busy, At, On, Received
  <2>2. Same(d)
    BY <1>1, <1>3 DEF Received, Same
  <2>3. \A s \in Thread : req'[s] = req[s] \/ (s \notin Busy(d) /\ s \notin Busy(d)')
    BY <1>1, <2>1 DEF Received
  <2> QED
    BY <1>2, <2>2, <2>3, Untouched
<1>4. CASE d = c /\ (c \in mixed \/ Busy(c) # {})
  BY <1>1, <1>4 DEF Received, FileInv
<1>5. CASE d = c /\ c \notin mixed /\ Busy(c) = {}
  <2>1. Doing(r)'
    BY <1>1, <1>2, <1>5 DEF FileInv, Received
  <2>2. FileInv(c)'
    BY <1>1, <1>5, <2>1, Touched DEF Received
  <2> QED
    BY <1>5, <2>2
<1> QED
  BY <1>3, <1>4, <1>5

-----------------------------------------------------------------------------
(* What the enclave does by itself *)

\* A verdict on a file at rest moves it in the table and in the copy; one that
\* overlaps with a request makes the file a mixed one.
LEMMA VerdictStep ==
    ASSUME FileInfoTypeOK, FilesInv, NEW c \in Cid, change_file_status(c)
    PROVE  FilesInv'
PROOF
<1> SUFFICES ASSUME NEW d \in Cid PROVE FileInv(d)'
  BY DEF FilesInv
<1>1. /\ snapshot[c] \in {"valid", "lost"}
      /\ UNCHANGED <<pending, pending_size, req, Known>>
      /\ mixed' = IF Busy(c) = {} /\ table[c] = snapshot[c] THEN mixed
                  ELSE mixed \cup {c}
  BY DEF change_file_status, ackVars, Known, FileInfoTypeOK
<1> DEFINE old == snapshot[c]
           new == Opposite(snapshot[c])
<1>2. old \in Type /\ new \in {"valid", "lost"} /\ old # new
  BY <1>1 DEF Opposite, Type
<1>3. table' = [table EXCEPT ![c] = new] /\ change_file_type(c, old, new)
  BY DEF change_file_status
<1> HIDE DEF old, new
<1>4. \A e \in Cid \ {c} : \A t \in Type : e \in sealed_file'[t] <=> e \in sealed_file[t]
  BY <1>2, <1>3 DEF change_file_type, FileInfoTypeOK, Type
<1>5. FileInv(d) /\ FileInv(c)
  BY DEF FilesInv
<1>6. CASE d # c
  <2>1. Same(d)
    BY <1>1, <1>3, <1>4, <1>6 DEF Same, FileInfoTypeOK
  <2> QED
    BY <1>1, <1>5, <2>1, Untouched
<1>7. CASE d = c /\ c \in mixed'
  BY <1>7 DEF FileInv
<1>8. CASE d = c /\ c \notin mixed'
  <2>1. c \notin mixed /\ Busy(c) = {} /\ table[c] = old
    BY <1>1, <1>8 DEF old
  <2>2. Rest(c) /\ Busy(c)' = {}
    BY <1>1, <1>5, <2>1 DEF FileInv, Busy, At, On
  <2>3. table'[c] = new /\ pending[c] = "none" /\ c \notin pending_size
    BY <1>1, <1>2, <1>3, <2>1, <2>2 DEF FileInfoTypeOK, Rest, old
  <2>4. \A t \in Type : c \in sealed_file'[t] <=> t = new /\ c \in sealed_file[old]
    BY <1>2, <1>3, <2>1, <2>2 DEF change_file_type, FileInfoTypeOK, Rest, Type
  <2>5. Rest(c)'
    BY <1>1, <1>2, <2>1, <2>2, <2>3, <2>4 DEF Rest, Type
  <2> QED
    BY <1>8, <2>2, <2>5 DEF FileInv
<1> QED
  BY <1>6, <1>7, <1>8

\* The other steps of the enclave erase deleted entries at most.
LEMMA EnclaveStep ==
    ASSUME FileInfoTypeOK, FilesInv, NEW c \in Cid, Enclave(c)
    PROVE  FilesInv'
PROOF
<1>1. CASE change_file_status(c)
  BY <1>1, VerdictStep
<1>2. CASE ~change_file_status(c)
  <2>1. req' = req /\ \A d \in Cid : Same(d)
    <3>1. CASE deal_deleted_file(c)
      BY <3>1 DEF deal_deleted_file, Same, FileInfoTypeOK, appVars, ackVars, Known
    <3>2. CASE handle_report_result(c)
      BY <3>2 DEF handle_report_result, Same, appVars, ackVars, Known
    <3>3. CASE recover_illegal_file(c)
      BY <3>3 DEF recover_illegal_file, Same, appVars, ackVars, Known
    <3>4. CASE disk_lost(c)
      BY <3>4 DEF disk_lost, Same, enclaveVars, appVars, ackVars, Known
    <3> QED
      BY <1>2, <3>1, <3>2, <3>3, <3>4 DEF Enclave
  <2> QED
    BY <2>1, Untouched DEF FilesInv
<1> QED
  BY <1>1, <1>2

\* The copy is filled again from the table, and the table from metadata that
\* hold the files that are not forgotten.
LEMMA RestartStep == ASSUME FileInfoTypeOK, StoredInv, restart PROVE FilesInv'
PROOF
<1> SUFFICES ASSUME NEW c \in Cid PROVE FileInv(c)'
  BY DEF FilesInv
<1>1. Busy(c)' = {}
  BY DEF restart, Busy, At, NoRequest
<1>2. /\ \A t \in Type : c \in sealed_file'[t] <=> t \in TypeOf(table'[c])
      /\ pending'[c] = "none" /\ pending_size' = {}
  BY DEF restart
<1>3. c \in Known' => table'[c] \in {"valid", "lost"}
  <2>1. Known' = Kept
    BY DEF restart, Known, Kept
  <2> QED
    BY <2>1 DEF restart, StoredInv
<1>4. Rest(c)'
  BY <1>2, <1>3 DEF Rest, TypeOf, Type
<1> QED
  BY <1>1, <1>4 DEF FileInv

\* The invariant of the files is inductive.
LEMMA FilesStep ==
    ASSUME FileInfoTypeOK, FilesInv, StoredInv, [Next]_vars
    PROVE  FilesInv'
PROOF
<1>1. CASE validate_meaningful_file \/ id_store_metadata \/ UNCHANGED vars
  <2>1. req' = req /\ \A d \in Cid : Same(d)
    BY <1>1 DEF validate_meaningful_file, id_store_metadata, vars, enclaveVars,
       appVars, ackVars, Known, Same
  <2> QED
    BY <2>1, Untouched DEF FilesInv
<1> QED
  BY <1>1, CallStep, ContinueStep, EnclaveStep, RestartStep DEF Next

\* The invariant holds at first.
LEMMA FilesInit == Init => FilesInv
PROOF
<1> SUFFICES ASSUME Init, NEW c \in Cid PROVE FileInv(c)
  BY DEF FilesInv
<1>1. Busy(c) = {}
  BY DEF Init, Busy, At, NoRequest
<1>2. Rest(c)
  BY DEF Init, Rest, Known, NoTable, Type
<1> QED
  BY <1>1, <1>2 DEF FileInv

-----------------------------------------------------------------------------
(* What the metadata hold *)

\* An acknowledged file on which no requests overlapped is sealed, whatever
\* request works on it.
LEMMA KnownIsSealed ==
    ASSUME FileInfoTypeOK, FilesInv, NEW c \in Known, c \notin mixed
    PROVE  table[c] \in {"valid", "lost"}
PROOF
<1>1. c \in Cid /\ FileInv(c)
  BY DEF Known, FileInfoTypeOK, FilesInv
<1>2. CASE Busy(c) = {}
  BY <1>1, <1>2 DEF FileInv, Rest
<1>3. CASE Busy(c) # {}
  <2>1. PICK r \in Busy(c) : Doing(r)
    BY <1>1, <1>3 DEF FileInv
  <2>2. r \in Thread /\ On(r) = c /\ req[r].pc \in Pc \ {"idle"}
    BY <2>1 DEF Busy, At, FileInfoTypeOK, Request
  <2>3. ~req[r].delete /\ Sealing(r)
    BY <2>1, <2>2 DEF Doing, Deleting
  <2>4. Rest(c) \/ Sealed(c)
    BY <2>2, <2>3 DEF Sealing, Unknown, At, Pc
  <2> QED
    BY <2>4 DEF Rest, Sealed
<1> QED
  BY <1>2, <1>3

\* A request never adds a file that the metadata might not hold: one that is
\* acknowledged is not stored yet.
LEMMA RequestKeeps ==
    ASSUME NEW r \in Thread, Continue(r) \/ \E c \in Cid : Call(r, c)
    PROVE  stored' = stored /\ Kept' \subseteq Kept
PROOF
<1>1. ASSUME clean_entry(r) PROVE stored' = stored /\ Kept' \subseteq Kept
  BY <1>1 DEF clean_entry, EndOfSeal, ackVars, Known, Kept
<1>2. ASSUME NEW c \in Cid, storage_delete_file(r, c)
      PROVE  stored' = stored /\ Kept' \subseteq Kept
  BY <1>2 DEF storage_delete_file, Known, Kept
<1>3. ASSUME NEW c \in Cid, Call(r, c), ~storage_delete_file(r, c)
      PROVE  stored' = stored /\ Kept' \subseteq Kept
  BY <1>3 DEF Call, storage_seal_file_start, storage_seal_file,
     storage_seal_file_end, Ask, ackVars, Known, Kept
<1>4. ASSUME Continue(r), ~clean_entry(r)
      PROVE  stored' = stored /\ Kept' \subseteq Kept
  <2>1. UNCHANGED <<stored, ackVars, mixed>>
    BY <1>4 DEF Continue, start_pending, start_exceed, start_info, seal_save,
       seal_record, clean_pending, clean_dir, end_check, end_table, end_info,
       end_dir, end_pending, delete_data, delete_info, delete_end, delete_route
  <2> QED
    BY <2>1 DEF ackVars, Known, Kept
<1> QED
  BY <1>1, <1>2, <1>3, <1>4

\* The metadata keep holding what they must.
LEMMA StoredStep ==
    ASSUME FileInfoTypeOK, FilesInv, StoredInv, [Next]_vars
    PROVE  StoredInv'
PROOF
<1>1. ASSUME stored' = stored, Kept' \subseteq Kept PROVE StoredInv'
  BY <1>1 DEF StoredInv
<1>2. CASE id_store_metadata
  <2>1. stored'.table = table /\ Kept' = Known \ mixed
    BY <1>2 DEF id_store_metadata, Known, Kept
  <2> QED
    BY <2>1, KnownIsSealed DEF StoredInv
<1>3. CASE restart
  BY <1>1, <1>3 DEF restart, Known, Kept
<1>4. CASE \E c \in Cid : Enclave(c)
  BY <1>1, <1>4 DEF Enclave, change_file_status, handle_report_result,
     recover_illegal_file, deal_deleted_file, disk_lost, ackVars, Known, Kept
<1>5. CASE validate_meaningful_file \/ UNCHANGED vars
  BY <1>1, <1>5 DEF validate_meaningful_file, vars, ackVars, Known, Kept
<1> QED
  BY <1>1, <1>2, <1>3, <1>4, <1>5, RequestKeeps DEF Next

-----------------------------------------------------------------------------
(* What the routes show *)

\* The inductive invariant holds in every reachable state.
THEOREM FilesInvariant == Spec => [](FileInfoTypeOK /\ FilesInv /\ StoredInv)
PROOF
<1>1. Init => FileInfoTypeOK /\ FilesInv /\ StoredInv
  BY TypeInit, FilesInit DEF Init, StoredInv, Kept, Known
<1>2. FileInfoTypeOK /\ FilesInv /\ StoredInv /\ [Next]_vars
         => (FileInfoTypeOK /\ FilesInv /\ StoredInv)'
  BY TypeStep, FilesStep, StoredStep
<1> QED
  BY <1>1, <1>2, PTL DEF Spec

\* A file that no request works on is at rest.
LEMMA SettledRests == ASSUME FilesInv, NEW c \in Cid, Settled(c) PROVE Rest(c)
PROOF
  BY DEF FilesInv, FileInv, Settled

\* The routes show a file under no other type than the enclave has it, however
\* many files and threads there are, and /workload counts no file twice, as
\* long as the requests on each file come one after the other.
THEOREM ShownTypesAreTrue == Spec => []ShownIsTrue
PROOF
<1>1. ASSUME FileInfoTypeOK, FilesInv PROVE ShownIsTrue
  <2>1. ASSUME NEW c \in Cid, Settled(c)
        PROVE  {t \in Type : c \in get_file_info_by_type(t)} \subseteq TypeOf(table[c])
    <3>1. Rest(c)
      BY <1>1, <2>1, SettledRests
    <3> QED
      BY <3>1 DEF Rest, get_file_info_by_type, TypeOf
  <2>2. ASSUME \A c \in Cid : Settled(c), NEW t \in Type
        PROVE  gen_workload[t] <= Cardinality({c \in Cid : table[c] = t})
    <3>1. sealed_file[t] \subseteq {c \in Cid : table[c] = t}
      <4>1. \A c \in Cid : Rest(c)
        BY <1>1, <2>2, SettledRests
      <4> QED
        BY <1>1, <4>1 DEF Rest, FileInfoTypeOK
    <3>2. IsFiniteSet({c \in Cid : table[c] = t})
      BY FileInfoAssumption, FS_Subset
    <3>3. Cardinality(sealed_file[t]) <= Cardinality({c \in Cid : table[c] = t})
      BY <3>1, <3>2, FS_Subset
    <3> QED
      BY <3>3 DEF gen_workload
  <2> QED
    BY <2>1, <2>2 DEF ShownIsTrue
<1> QED
  BY <1>1, FilesInvariant, PTL

\* A file whose sealing was answered with 200 is shown by /file/info and never
\* answered "not existed" by /storage/unseal, until a client deletes it or a
\* restart comes before the metadata were stored again.
THEOREM AckedFileIsKnown == Spec => []AckedIsKnown
PROOF
<1>1. ASSUME FileInfoTypeOK, FilesInv PROVE AckedIsKnown
  <2> SUFFICES ASSUME NEW c \in Known, Settled(c)
               PROVE  get_file_info(c) # "none" /\ <<404, "not existed">> \notin unseal(c)
    BY DEF AckedIsKnown, Known
  <2>1. c \in Cid
    BY <1>1 DEF FileInfoTypeOK, Known
  <2>2. Rest(c)
    BY <1>1, <2>1, SettledRests
  <2>3. find_file_type(c) \in {"valid", "lost"}
    BY <2>2 DEF Rest, find_file_type, Type
  <2>4. CASE c \in disk
    BY <2>3, <2>4 DEF get_file_info, unseal
  <2>5. CASE c \notin disk
    <3>1. unseal(c) = {<<410, "lost">>}
      <4>1. ~(find_file_type(c) \in {"none", "pending"})
        BY <2>3
      <4> QED
        BY <2>5, <4>1, Zenon DEF unseal
    <3> QED
      BY <2>3, <3>1 DEF get_file_info
  <2> QED
    BY <2>4, <2>5
<1> QED
  BY <1>1, FilesInvariant, PTL

\* The size of a file is kept only while the file is pending and shown so:
\* sealing it again starts to count at zero.
THEOREM SizeIsOfPending == Spec => []SizeOfPending
PROOF
<1>1. ASSUME FileInfoTypeOK, FilesInv PROVE SizeOfPending
  BY <1>1, SettledRests
  DEF SizeOfPending, Rest, get_pending_files_size_all, FileInfoTypeOK
<1> QED
  BY <1>1, FilesInvariant, PTL

=============================================================================
