--------------------------- MODULE StorageProofs ---------------------------
(* Theorems about Storage, for every number of files, blocks and threads. *)
EXTENDS Storage, FiniteSetTheorems, TLAPS

-----------------------------------------------------------------------------
(* Threads *)

\* The locals a thread starts with have their type.
LEMMA FreshType == \A c \in Cid : Fresh(c) \in ThreadState
  BY WorkloadAssumption DEF Fresh, ThreadState, Pc, StartPc, SealPc, CleanPc,
     EndPc, DeletePc, FileStatus

LEMMA AnyCidType == AnyCid \in Cid
  BY StorageAssumption DEF AnyCid

LEMMA GotoType ==
  ASSUME thread \in [Thread -> ThreadState], NEW t \in Thread,
         NEW pc \in Pc, Goto(t, pc)
  PROVE  thread' \in [Thread -> ThreadState]
  BY DEF Goto, ThreadState

LEMMA ReturnType ==
  ASSUME thread \in [Thread -> ThreadState], NEW t \in Thread, Return(t)
  PROVE  thread' \in [Thread -> ThreadState]
  BY FreshType, AnyCidType DEF Return

LEMMA EnterType ==
  ASSUME thread \in [Thread -> ThreadState], NEW t \in Thread,
         NEW c \in Cid, NEW pc \in Pc, Enter(t, c, pc)
  PROVE  thread' \in [Thread -> ThreadState]
  <1>1. [Fresh(c) EXCEPT !.pc = pc] \in ThreadState
    BY FreshType DEF ThreadState
  <1> QED BY <1>1 DEF Enter

LEMMA SealLocalsType ==
  ASSUME NEW c \in Cid, NEW pc \in Pc, NEW b \in Block, NEW id \in Nat,
         NEW link \in BOOLEAN
  PROVE  [Fresh(c) EXCEPT !.pc = pc, !.blk = b, !.id = id, !.link = link]
            \in ThreadState
  <1>1. CASE link = TRUE
    BY <1>1 DEF Fresh, ThreadState, FileStatus
  <1>2. CASE link = FALSE
    BY <1>2 DEF Fresh, ThreadState, FileStatus
  <1> QED BY <1>1, <1>2

LEMMA OnType ==
  ASSUME thread \in [Thread -> ThreadState], NEW t \in Thread
  PROVE  On(t) \in Cid /\ thread[t].blk \in Block /\ thread[t].id \in Nat
         /\ thread[t].meta \in SUBSET Item /\ thread[t].old \in FileStatus
         /\ thread[t].pc \in Pc
  BY DEF On, ThreadState

LEMMA EntryTypes ==
  /\ NoEntry \in Entry
  /\ PendingEntry \in Entry
  /\ NoPending \in Pending
  /\ NoTree \in Tree
  /\ \A h \in SUBSET Item, n \in Nat : SealedEntry(h, n) \in Entry
  BY DEF NoEntry, PendingEntry, Entry, FileStatus, NoPending, Pending, NoTree,
     Tree, SealedEntry

LEMMA SpecType ==
  ASSUME NEW spec \in [SpecStatus -> Int], NEW s, NEW d \in Int
  PROVE  set_file_spec(spec, s, d) \in [SpecStatus -> Int]
  BY DEF set_file_spec

LEMMA AddNumType ==
  ASSUME WorkloadTypeOK, NEW c \in Cid, NEW b \in Block, NEW d \in Int,
         AddNum(c, b, d)
  PROVE  pending_files_um' \in [Cid -> Pending]
  <1> DEFINE p == pending_files_um[c]
             q == [p.blocks EXCEPT ![b] = p.blocks[b] + d]
  <1>1. p \in Pending
    BY DEF WorkloadTypeOK
  <1>2. q \in [Block -> Int]
    BY <1>1 DEF Pending
  <1>3. [p EXCEPT !.known = TRUE, !.blocks = q] \in Pending
    <2> HIDE DEF p, q
    <2> QED BY <1>1, <1>2 DEF Pending
  <1>4. pending_files_um' = [pending_files_um EXCEPT
                               ![c] = [p EXCEPT !.known = TRUE, !.blocks = q]]
    BY DEF AddNum, WorkloadTypeOK
  <1> QED
    <2> HIDE DEF p, q
    <2> QED BY <1>3, <1>4 DEF WorkloadTypeOK

LEMMA CopyType ==
  ASSUME StorageTypeOK, NEW t \in Thread, NEW c \in Cid, CopyPending(t, c)
  PROVE  thread' \in [Thread -> ThreadState]
  <1> DEFINE done == \A b \in Block : pending_files_um[c].blocks[b] = 0
             th == [Fresh(c) EXCEPT !.pc = "end_check", !.done = done,
                                    !.meta = pending_files_um[c].meta]
  <1>1. pending_files_um[c].meta \in SUBSET Item
    BY DEF StorageTypeOK, WorkloadTypeOK, Pending
  <1>2. th \in ThreadState
    <2>1. done \in BOOLEAN
      OBVIOUS
    <2> HIDE DEF done
    <2>2. CASE done = TRUE
      BY <1>1, <2>2, WorkloadAssumption
         DEF Fresh, ThreadState, Pc, EndPc, FileStatus
    <2>3. CASE done = FALSE
      BY <1>1, <2>3, WorkloadAssumption
         DEF Fresh, ThreadState, Pc, EndPc, FileStatus
    <2> QED BY <2>1, <2>2, <2>3
  <1>3. thread' = [thread EXCEPT ![t] = th]
    BY DEF CopyPending
  <1> HIDE DEF th
  <1> QED BY <1>2, <1>3 DEF StorageTypeOK

-----------------------------------------------------------------------------
(* Types *)

LEMMA InitType == StorageInit => StorageTypeOK
  BY EntryTypes, FreshType, AnyCidType
     DEF StorageInit, WorkloadInit, StorageTypeOK, WorkloadTypeOK, UpgradeStatus

LEMMA CallType ==
  ASSUME StorageTypeOK, NEW t \in Thread, Call(t)
  PROVE  StorageTypeOK'
  <1> USE DEF StorageTypeOK, Request, delVars, workloadVars
  <1> PICK c \in Cid :
        \/ storage_seal_file_start(t, c)
        \/ seal_empty_block(t, c)
        \/ \E b \in Block, link \in BOOLEAN : storage_seal_file(t, c, b, link)
        \/ storage_seal_file_end(t, c)
        \/ storage_delete_file(t, c)
    BY DEF Call
  <1>1. CASE storage_seal_file_start(t, c)
    <2>1. thread' \in [Thread -> ThreadState]
      BY <1>1, EnterType DEF storage_seal_file_start, Pc, StartPc
    <2> QED BY <1>1, <2>1 DEF storage_seal_file_start, WorkloadTypeOK
  <1>2. CASE seal_empty_block(t, c)
    <2>1. pending_files_um' \in [Cid -> Pending]
      BY <1>2, AddNumType, StorageAssumption DEF seal_empty_block
    <2> QED BY <1>2, <2>1 DEF seal_empty_block, WorkloadTypeOK
  <1>3. CASE \E b \in Block, link \in BOOLEAN : storage_seal_file(t, c, b, link)
    <2> PICK b \in Block, link \in BOOLEAN : storage_seal_file(t, c, b, link)
      BY <1>3
    <2> DEFINE pc == IF upgrade_status = "NONE" THEN "seal_begin" ELSE "clean_pending"
               th == [Fresh(c) EXCEPT !.pc = pc, !.blk = b, !.id = requests + 1,
                                      !.link = link]
    <2>1. pc \in Pc
      BY DEF Pc, SealPc, CleanPc
    <2>2. th \in ThreadState
      <3> HIDE DEF pc
      <3>1. requests + 1 \in Nat
        OBVIOUS
      <3> QED BY <2>1, <3>1, SealLocalsType, Zenon
    <2>3. thread' = [thread EXCEPT ![t] = th]
      BY DEF storage_seal_file
    <2>4. thread' \in [Thread -> ThreadState]
      <3> HIDE DEF th
      <3> QED BY <2>2, <2>3
    <2>5. requests' = requests + 1 /\ UNCHANGED <<workloadVars, delVars>>
      BY DEF storage_seal_file
    <2> QED BY <2>4, <2>5 DEF WorkloadTypeOK
  <1>4. CASE storage_seal_file_end(t, c)
    <2>1. thread' \in [Thread -> ThreadState]
      BY <1>4, CopyType DEF storage_seal_file_end
    <2> QED BY <1>4, <2>1 DEF storage_seal_file_end, WorkloadTypeOK
  <1>5. CASE storage_delete_file(t, c)
    <2>1. thread' \in [Thread -> ThreadState]
      BY <1>5, EnterType DEF storage_delete_file, Pc, DeletePc
    <2> QED BY <1>5, <2>1 DEF storage_delete_file, WorkloadTypeOK
  <1> QED BY <1>1, <1>2, <1>3, <1>4, <1>5

\* The steps of a request keep the types.
LEMMA ContinueType ==
  ASSUME StorageTypeOK, NEW t \in Thread, Continue(t)
  PROVE  StorageTypeOK'
  <1> USE DEF StorageTypeOK, delVars, workloadVars
  <1> DEFINE c == On(t)
  <1>0. /\ c \in Cid /\ thread[t].blk \in Block /\ thread[t].id \in Nat
        /\ thread[t].meta \in SUBSET Item /\ thread[t].old \in FileStatus
    BY OnType
  <1>G. ASSUME NEW pc \in Pc, Goto(t, pc)
        PROVE  thread' \in [Thread -> ThreadState]
    BY <1>G, GotoType
  <1>R. ASSUME Return(t)
        PROVE  thread' \in [Thread -> ThreadState]
    BY <1>R, ReturnType
  <1> USE DEF Pc, StartPc, SealPc, CleanPc, EndPc, DeletePc
  <1>1. CASE start_begin(t)
    <2>1. thread' \in [Thread -> ThreadState]
      BY <1>1, <1>G, <1>R DEF start_begin
    <2>2. sealed_files' \in [Cid -> Entry]
      BY <1>0, <1>1, EntryTypes DEF start_begin, WorkloadTypeOK
    <2> QED BY <1>1, <2>1, <2>2 DEF start_begin, WorkloadTypeOK
  <1>2. CASE start_pending(t)
    <2>1. thread' \in [Thread -> ThreadState]
      BY <1>2, <1>G, <1>R DEF start_pending
    <2>2. pending_files_um' \in [Cid -> Pending]
      <3>1. RootBlock[c] \in Block
        BY <1>0, WorkloadAssumption
      <3> QED BY <1>0, <1>2, <3>1, AddNumType DEF start_pending, WorkloadTypeOK
    <2>3. wl_file_spec' \in [SpecStatus -> Int]
      BY <1>2, SpecType DEF start_pending, WorkloadTypeOK
    <2> QED BY <1>2, <2>1, <2>2, <2>3 DEF start_pending, WorkloadTypeOK
  <1>3. CASE start_exceed(t)
    <2>1. thread' \in [Thread -> ThreadState]
      BY <1>3, <1>R DEF start_exceed
    <2>2. sealed_files' \in [Cid -> Entry]
      BY <1>3, EntryTypes DEF start_exceed, del_files, WorkloadTypeOK
    <2> QED BY <1>3, <2>1, <2>2 DEF start_exceed, WorkloadTypeOK
  <1>4. CASE seal_begin(t)
    <2>1. thread' \in [Thread -> ThreadState]
      BY <1>4, <1>G DEF seal_begin
    <2>2. pending_files_um' \in [Cid -> Pending]
      BY <1>0, <1>4, AddNumType DEF seal_begin, WorkloadTypeOK
    <2> QED BY <1>4, <2>1, <2>2 DEF seal_begin, WorkloadTypeOK
  <1>5. CASE seal_link(t)
    <2>1. thread' \in [Thread -> ThreadState]
      BY <1>5, <1>G, <1>R DEF seal_link
    <2>2. pending_files_um' \in [Cid -> Pending]
      BY <1>0, <1>5, AddNumType DEF seal_link, WorkloadTypeOK
    <2> QED BY <1>5, <2>1, <2>2 DEF seal_link, WorkloadTypeOK
  <1>6. CASE seal_children(t)
    <2>1. thread' \in [Thread -> ThreadState]
      BY <1>6, <1>G, <1>R DEF seal_children
    <2>2. pending_files_um' \in [Cid -> Pending]
      <3> DEFINE p == pending_files_um[c]
                 q == [b \in Block |-> IF b \in Links[thread[t].blk]
                                      THEN p.blocks[b] + 1 ELSE p.blocks[b]]
      <3>1. p \in Pending
        BY <1>0 DEF WorkloadTypeOK
      <3>2. q \in [Block -> Int]
        BY <3>1 DEF Pending
      <3>3. [p EXCEPT !.blocks = q] \in Pending
        <4> HIDE DEF p, q
        <4> QED BY <3>1, <3>2 DEF Pending
      <3>4. \/ pending_files_um' = [pending_files_um EXCEPT
                                      ![c] = [p EXCEPT !.blocks = q]]
            \/ pending_files_um' = pending_files_um
        BY <1>6 DEF seal_children
      <3> HIDE DEF p, q
      <3> QED BY <3>3, <3>4 DEF WorkloadTypeOK
    <2> QED BY <1>6, <2>1, <2>2 DEF seal_children, WorkloadTypeOK
  <1>7. CASE seal_save(t)
    <2>1. thread' \in [Thread -> ThreadState]
      BY <1>7, <1>G, <1>R DEF seal_save
    <2>2. ipfs_dir' \in [Cid -> SUBSET Item]
      BY <1>0, <1>7 DEF seal_save, WorkloadTypeOK, Item
    <2> QED BY <1>7, <2>1, <2>2 DEF seal_save, WorkloadTypeOK
  <1>8. CASE seal_record(t)
    <2>1. thread' \in [Thread -> ThreadState]
      BY <1>8, <1>R DEF seal_record
    <2>2. pending_files_um' \in [Cid -> Pending]
      <3> DEFINE p == pending_files_um[c]
                 m == p.meta \cup {<<thread[t].blk, thread[t].id>>}
      <3>1. p \in Pending
        BY <1>0 DEF WorkloadTypeOK
      <3>2. m \in SUBSET Item
        BY <1>0, <3>1 DEF Pending, Item
      <3>3. [p EXCEPT !.meta = m] \in Pending
        <4> HIDE DEF p, m
        <4> QED BY <3>1, <3>2 DEF Pending
      <3>4. \/ pending_files_um' = [pending_files_um EXCEPT
                                      ![c] = [p EXCEPT !.meta = m]]
            \/ pending_files_um' = pending_files_um
        BY <1>8 DEF seal_record
      <3> HIDE DEF p, m
      <3> QED BY <3>3, <3>4 DEF WorkloadTypeOK
    <2> QED BY <1>8, <2>1, <2>2 DEF seal_record, WorkloadTypeOK
  <1>9. CASE clean_pending(t)
    <2>1. thread' \in [Thread -> ThreadState]
      BY <1>9, <1>G DEF clean_pending
    <2>2. pending_files_um' \in [Cid -> Pending]
      BY <1>9, EntryTypes DEF clean_pending, erase_pending, WorkloadTypeOK
    <2> QED BY <1>9, <2>1, <2>2 DEF clean_pending, WorkloadTypeOK
  <1>10. CASE clean_dir(t)
    <2>1. thread' \in [Thread -> ThreadState]
      BY <1>10, <1>G DEF clean_dir
    <2> QED BY <1>10, <2>1 DEF clean_dir, WorkloadTypeOK
  <1>11. CASE clean_entry(t)
    <2>1. thread' \in [Thread -> ThreadState]
      BY <1>11, <1>R DEF clean_entry
    <2>2. sealed_files' \in [Cid -> Entry]
      BY <1>11, EntryTypes DEF clean_entry, del_files, WorkloadTypeOK
    <2>3. wl_file_spec' \in [SpecStatus -> Int]
      BY <1>11, SpecType DEF clean_entry, WorkloadTypeOK
    <2> QED BY <1>11, <2>1, <2>2, <2>3 DEF clean_entry, WorkloadTypeOK
  <1>12. CASE end_begin(t)
    <2>1. thread' \in [Thread -> ThreadState]
      BY <1>0, <1>12, <1>R, CopyType DEF end_begin
    <2> QED BY <1>12, <2>1 DEF end_begin, WorkloadTypeOK
  <1>13. CASE end_check(t)
    <2>1. thread' \in [Thread -> ThreadState]
      BY <1>13, <1>G DEF end_check
    <2> QED BY <1>13, <2>1 DEF end_check, WorkloadTypeOK
  <1>14. CASE end_store(t)
    <2>1. thread' \in [Thread -> ThreadState]
      BY <1>14, <1>G DEF end_store
    <2>2. [stored |-> TRUE, leaves |-> thread[t].meta] \in Tree
      BY <1>0 DEF Tree
    <2>3. db_tree' \in [Cid -> Tree]
      BY <1>14, <2>2 DEF end_store, WorkloadTypeOK
    <2> QED BY <1>14, <2>1, <2>3 DEF end_store, WorkloadTypeOK
  <1>15. CASE end_add(t)
    <2>1. thread' \in [Thread -> ThreadState]
      BY <1>15, <1>G DEF end_add
    <2>2. sealed_files' \in [Cid -> Entry]
      BY <1>0, <1>15, EntryTypes, StorageAssumption DEF end_add, WorkloadTypeOK
    <2>3. wl_file_spec' \in [SpecStatus -> Int]
      BY <1>15, SpecType DEF end_add, WorkloadTypeOK
    <2> QED BY <1>15, <2>1, <2>2, <2>3 DEF end_add, WorkloadTypeOK
  <1>16. CASE end_dir(t)
    <2>1. thread' \in [Thread -> ThreadState]
      BY <1>16, <1>G DEF end_dir
    <2> QED BY <1>16, <2>1 DEF end_dir, WorkloadTypeOK
  <1>17. CASE end_pending(t)
    <2>1. thread' \in [Thread -> ThreadState]
      BY <1>17, <1>G DEF end_pending
    <2>2. pending_files_um' \in [Cid -> Pending]
      BY <1>17, EntryTypes DEF end_pending, erase_pending, WorkloadTypeOK
    <2> QED BY <1>17, <2>1, <2>2 DEF end_pending, WorkloadTypeOK
  <1>18. CASE delete_mark(t)
    <2>1. thread' \in [Thread -> ThreadState]
      <3>1. CASE Return(t)
        BY <3>1, <1>R
      <3>2. CASE /\ Status(c) \notin {"ABSENT", "DELETED"}
                 /\ thread' = [thread EXCEPT ![t].pc = "delete_data",
                                             ![t].old = Status(c)]
        <4>1. Status(c) \in FileStatus
          BY <1>0, <3>2 DEF Status, WorkloadTypeOK, Entry
        <4>2. thread[t] \in ThreadState
          OBVIOUS
        <4>3. [thread[t] EXCEPT !.pc = "delete_data", !.old = Status(c)]
                 \in ThreadState
          <5> DEFINE th == thread[t]
                     s == Status(c)
          <5>1. th \in ThreadState /\ s \in FileStatus
            BY <4>1, <4>2
          <5> HIDE DEF th, s
          <5>2. [th EXCEPT !.pc = "delete_data", !.old = s] \in ThreadState
            BY <5>1 DEF ThreadState
          <5> QED BY <5>2 DEF th, s
        <4>4. thread' = [thread EXCEPT ![t] =
                [thread[t] EXCEPT !.pc = "delete_data", !.old = Status(c)]]
          BY <3>2
        <4> QED BY <4>3, <4>4
      <3> QED BY <1>18, <3>1, <3>2 DEF delete_mark
    <2>2. sealed_files' \in [Cid -> Entry]
      <3> DEFINE e == sealed_files[c]
      <3>1. e \in Entry
        BY <1>0 DEF WorkloadTypeOK
      <3>2. [e EXCEPT !.cur = "DELETED"] \in Entry
        <4> HIDE DEF e
        <4> QED BY <3>1 DEF Entry, FileStatus
      <3>3. \/ sealed_files' = sealed_files
            \/ sealed_files' = [sealed_files EXCEPT ![c] = [e EXCEPT !.cur = "DELETED"]]
        BY <1>18 DEF delete_mark
      <3> HIDE DEF e
      <3> QED BY <3>2, <3>3 DEF WorkloadTypeOK
    <2>3. file_del_cid_s' \in SUBSET Cid
      BY <1>0, <1>18 DEF delete_mark, WorkloadTypeOK
    <2> QED BY <1>18, <2>1, <2>2, <2>3 DEF delete_mark, WorkloadTypeOK
  <1>19. CASE delete_data(t)
    <2>1. thread' \in [Thread -> ThreadState]
      BY <1>19, <1>G, <1>R DEF delete_data
    <2>2. wl_file_spec' \in [SpecStatus -> Int]
      BY <1>19, SpecType DEF delete_data, WorkloadTypeOK
    <2> QED BY <1>19, <2>1, <2>2, EntryTypes DEF delete_data, WorkloadTypeOK
  <1> QED
    BY <1>1, <1>2, <1>3, <1>4, <1>5, <1>6, <1>7, <1>8, <1>9, <1>10, <1>11,
       <1>12, <1>13, <1>14, <1>15, <1>16, <1>17, <1>18, <1>19 DEF Continue

\* Every step keeps the types.
LEMMA StepType ==
  ASSUME StorageTypeOK, StorageNext
  PROVE  StorageTypeOK'
  <1>1. CASE \E t \in Thread : Call(t)
    BY <1>1, CallType
  <1>2. CASE \E t \in Thread : Continue(t)
    BY <1>2, ContinueType
  <1>3. CASE deal_deleted_file
    BY <1>3, EntryTypes DEF StorageTypeOK, WorkloadTypeOK, deal_deleted_file,
       deal_take, deal_clean, deal_put_back, del_files
  <1>4. CASE \E s \in Upgrades : upgrade(s)
    BY <1>4, StorageAssumption DEF StorageTypeOK, WorkloadTypeOK, upgrade,
       set_upgrade_status, delVars
  <1> QED BY <1>1, <1>2, <1>3, <1>4 DEF StorageNext

LEMMA StutterType ==
  ASSUME StorageTypeOK, UNCHANGED storageVars
  PROVE  StorageTypeOK'
  BY DEF StorageTypeOK, WorkloadTypeOK, storageVars, workloadVars

\* Storage keeps the types of its state, whatever the constants.
THEOREM StorageTypes == StorageSpec => []StorageTypeOK
  <1>1. StorageTypeOK /\ [StorageNext]_storageVars => StorageTypeOK'
    BY StepType, StutterType
  <1> QED BY <1>1, InitType, PTL DEF StorageSpec

-----------------------------------------------------------------------------
(* The deleted buffer *)

\* Outside of a pass of deal_deleted_file the local copy is empty, so taking
\* a new copy forgets nothing.
CopyIsEmpty == del_pc = "take" => del_tmp = {}

\* What a request does to one cid keeps a deleted entry in the buffer.
LEMMA RequestBuffered ==
  ASSUME StorageTypeOK, DeletedIsBuffered, NEW t \in Thread,
         Call(t) \/ Continue(t)
  PROVE  DeletedIsBuffered' /\ UNCHANGED delVars
  <1> USE DEF StorageTypeOK, DeletedIsBuffered, delVars, workloadVars, Status
  <1>0. On(t) \in Cid
    BY OnType
  <1>1. CASE Call(t)
    <2>1. UNCHANGED <<sealed_files, file_del_cid_s, del_pc, del_tmp>>
      BY <1>1 DEF Call, storage_seal_file_start, seal_empty_block,
         storage_seal_file, storage_seal_file_end, storage_delete_file
    <2> QED BY <2>1
  <1>2. CASE start_begin(t)
    BY <1>0, <1>2 DEF start_begin, PendingEntry, NoEntry, WorkloadTypeOK
  <1>3. CASE start_exceed(t)
    BY <1>0, <1>3 DEF start_exceed, del_files, NoEntry, WorkloadTypeOK
  <1>4. CASE clean_entry(t)
    BY <1>0, <1>4 DEF clean_entry, del_files, NoEntry, WorkloadTypeOK
  <1>5. CASE end_add(t)
    BY <1>0, <1>5 DEF end_add, SealedEntry, WorkloadTypeOK
  <1>6. CASE delete_mark(t)
    BY <1>0, <1>6 DEF delete_mark, WorkloadTypeOK, Entry
  <1>7. CASE \/ start_pending(t) \/ seal_begin(t) \/ seal_link(t)
             \/ seal_children(t) \/ seal_save(t) \/ seal_record(t)
             \/ clean_pending(t) \/ clean_dir(t) \/ end_begin(t)
             \/ end_check(t) \/ end_store(t) \/ end_dir(t)
             \/ end_pending(t) \/ delete_data(t)
    <2>1. UNCHANGED <<sealed_files, file_del_cid_s, del_pc, del_tmp>>
      BY <1>7 DEF start_pending, seal_begin, seal_link, seal_children,
         seal_save, seal_record, clean_pending, clean_dir, end_begin,
         end_check, end_store, end_dir, end_pending, delete_data
    <2> QED BY <2>1
  <1> QED BY <1>1, <1>2, <1>3, <1>4, <1>5, <1>6, <1>7 DEF Continue

LEMMA BufferedStep ==
  ASSUME StorageTypeOK, DeletedIsBuffered, CopyIsEmpty, StorageNext
  PROVE  DeletedIsBuffered' /\ CopyIsEmpty'
  <1>1. CASE \E t \in Thread : Call(t) \/ Continue(t)
    BY <1>1, RequestBuffered DEF CopyIsEmpty, delVars
  <1>2. CASE deal_take
    BY <1>2 DEF deal_take, DeletedIsBuffered, CopyIsEmpty, Status
  <1>3. CASE deal_clean
    <2>1. CopyIsEmpty'
      BY <1>3 DEF deal_clean, CopyIsEmpty
    <2>2. DeletedIsBuffered'
      BY <1>3 DEF deal_clean, DeletedIsBuffered, Status, del_files, NoEntry
    <2> QED BY <2>1, <2>2
  <1>4. CASE deal_put_back
    BY <1>4 DEF deal_put_back, DeletedIsBuffered, CopyIsEmpty, Status
  <1>5. CASE \E s \in Upgrades : upgrade(s)
    BY <1>5 DEF upgrade, DeletedIsBuffered, CopyIsEmpty, Status, delVars
  <1> QED BY <1>1, <1>2, <1>3, <1>4, <1>5 DEF StorageNext, deal_deleted_file

LEMMA BufferedInit == StorageInit => DeletedIsBuffered /\ CopyIsEmpty
  BY DEF StorageInit, WorkloadInit, DeletedIsBuffered, Status, NoEntry,
     CopyIsEmpty

\* However deletions, seals and cleaning passes interleave, deal_deleted_file
\* never forgets a deleted file.
THEOREM DeletedStaysBuffered == StorageSpec => []DeletedIsBuffered
  <1> DEFINE Inv == DeletedIsBuffered /\ CopyIsEmpty
  <1>1. StorageTypeOK /\ Inv /\ [StorageNext]_storageVars => Inv'
    <2>1. ASSUME Inv, UNCHANGED storageVars PROVE Inv'
      BY <2>1 DEF DeletedIsBuffered, CopyIsEmpty, Status, storageVars,
         workloadVars
    <2> QED BY <2>1, BufferedStep
  <1> QED BY <1>1, BufferedInit, StorageTypes, PTL DEF StorageSpec

-----------------------------------------------------------------------------
(* Pending entries *)

\* A step of t that settles nothing, creates no PENDING entry and removes no
\* pending file keeps NoStuckPending.
LEMMA PendingFrame ==
  ASSUME StorageTypeOK, NoStuckPending, NEW t \in Thread,
         \A u \in Thread \ {t} : thread'[u] = thread[u],
         thread[t].pc \notin SettlingPc,
         \A c \in Cid : sealed_files'[c].cur = "PENDING" =>
                           sealed_files[c].cur = "PENDING",
         \A c \in Cid : pending_files_um[c].known => pending_files_um'[c].known
  PROVE  NoStuckPending'
  BY DEF NoStuckPending, Settling, Status, On

\* What the framed steps of t have in common.
Framed(t) ==
  /\ \A u \in Thread \ {t} : thread'[u] = thread[u]
  /\ thread[t].pc \notin SettlingPc
  /\ \A c \in Cid : sealed_files'[c].cur = "PENDING" => sealed_files[c].cur = "PENDING"
  /\ \A c \in Cid : pending_files_um[c].known => pending_files_um'[c].known
  /\ \E d : PendingFiles' \subseteq PendingFiles \cup {d}

\* The steps that fit the frames: they settle nothing, create no PENDING entry
\* and no more than one pending file, and remove none.
LEMMA FramedFacts ==
  ASSUME StorageTypeOK, NEW t \in Thread,
         \/ Call(t) \/ seal_begin(t) \/ seal_link(t) \/ seal_children(t)
         \/ seal_save(t) \/ seal_record(t) \/ end_begin(t) \/ end_check(t)
         \/ end_store(t) \/ end_add(t) \/ end_dir(t) \/ delete_mark(t)
         \/ delete_data(t)
  PROVE  Framed(t)
  <1> USE DEF StorageTypeOK, WorkloadTypeOK, workloadVars
  <1>0. On(t) \in Cid
    BY OnType
  <1>1. \A u \in Thread \ {t} : thread'[u] = thread[u]
    BY DEF Call, storage_seal_file_start, seal_empty_block, storage_seal_file,
       storage_seal_file_end, storage_delete_file, seal_begin, seal_link,
       seal_children, seal_save, seal_record, end_begin, end_check, end_store,
       end_add, end_dir, delete_mark, delete_data, Enter, Goto, Return,
       CopyPending
  <1>2. thread[t].pc \notin SettlingPc
    BY DEF Call, storage_seal_file_start, seal_empty_block, storage_seal_file,
       storage_seal_file_end, storage_delete_file, seal_begin, seal_link,
       seal_children, seal_save, seal_record, end_begin, end_check, end_store,
       end_add, end_dir, delete_mark, delete_data, Request, Idle, At, SettlingPc
  <1>3. \A c \in Cid : sealed_files'[c].cur = "PENDING" =>
                          sealed_files[c].cur = "PENDING"
    <2>1. CASE end_add(t)
      BY <1>0, <2>1 DEF end_add, SealedEntry
    <2>2. CASE delete_mark(t)
      BY <1>0, <2>2 DEF delete_mark, Entry
    <2>3. CASE UNCHANGED sealed_files
      BY <2>3
    <2> QED BY <2>1, <2>2, <2>3 DEF Call, storage_seal_file_start,
       seal_empty_block, storage_seal_file, storage_seal_file_end,
       storage_delete_file, seal_begin, seal_link, seal_children, seal_save,
       seal_record, end_begin, end_check, end_store, end_dir, delete_data
  <1>4. \A c \in Cid : pending_files_um[c].known => pending_files_um'[c].known
    <2>1. CASE seal_children(t)
      BY <1>0, <2>1 DEF seal_children, Pending
    <2>2. CASE seal_record(t)
      BY <1>0, <2>2 DEF seal_record, Pending
    <2>3. CASE \E c \in Cid, b \in Block : AddNum(c, b, -1)
      BY <2>3 DEF AddNum, Pending
    <2>4. CASE UNCHANGED pending_files_um
      BY <2>4
    <2>5. thread[t].blk \in Block /\ EmptyBlock \in Block
      BY OnType, StorageAssumption
    <2> QED BY <1>0, <2>1, <2>2, <2>3, <2>4, <2>5 DEF Call,
       storage_seal_file_start, seal_empty_block, storage_seal_file,
       storage_seal_file_end, storage_delete_file, seal_begin, seal_link,
       seal_save, end_begin, end_check, end_store, end_add, end_dir,
       delete_mark, delete_data
  <1>5. \E d : PendingFiles' \subseteq PendingFiles \cup {d}
    <2>1. CASE seal_children(t)
      BY <1>0, <2>1 DEF seal_children, PendingFiles, Pending
    <2>2. CASE seal_record(t)
      BY <1>0, <2>2 DEF seal_record, PendingFiles, Pending
    <2>3. ASSUME NEW c \in Cid, NEW b \in Block, AddNum(c, b, -1)
          PROVE  PendingFiles' \subseteq PendingFiles \cup {c}
      BY <2>3 DEF AddNum, PendingFiles
    <2>4. CASE UNCHANGED pending_files_um
      BY <2>4 DEF PendingFiles
    <2>5. thread[t].blk \in Block /\ EmptyBlock \in Block
      BY OnType, StorageAssumption
    <2>6. \/ seal_children(t) \/ seal_record(t) \/ UNCHANGED pending_files_um
          \/ \E c \in Cid, b \in Block : AddNum(c, b, -1)
      BY <1>0, <2>5 DEF Call, storage_seal_file_start, seal_empty_block,
         storage_seal_file, storage_seal_file_end, storage_delete_file,
         seal_begin, seal_link, seal_save, end_begin, end_check, end_store,
         end_add, end_dir, delete_mark, delete_data
    <2> QED BY <2>1, <2>2, <2>3, <2>4, <2>6
  <1> QED BY <1>1, <1>2, <1>3, <1>4, <1>5 DEF Framed

\* These steps keep NoStuckPending.
LEMMA FramedSteps ==
  ASSUME StorageTypeOK, NoStuckPending, NEW t \in Thread,
         \/ Call(t) \/ seal_begin(t) \/ seal_link(t) \/ seal_children(t)
         \/ seal_save(t) \/ seal_record(t) \/ end_begin(t) \/ end_check(t)
         \/ end_store(t) \/ end_add(t) \/ end_dir(t) \/ delete_mark(t)
         \/ delete_data(t)
  PROVE  NoStuckPending'
  BY FramedFacts, PendingFrame DEF Framed

\* The steps that create a PENDING entry, remove a pending file or settle.
LEMMA SettlingSteps ==
  ASSUME StorageTypeOK, NoStuckPending, NEW t \in Thread,
         \/ start_begin(t) \/ start_pending(t) \/ start_exceed(t)
         \/ clean_pending(t) \/ clean_dir(t) \/ clean_entry(t)
         \/ end_pending(t)
  PROVE  NoStuckPending'
  <1> USE DEF StorageTypeOK, WorkloadTypeOK, NoStuckPending, Settling,
          SettlingPc, Status, On, At
  <1>0. On(t) \in Cid
    BY OnType
  <1>1. CASE start_begin(t)
    BY <1>0, <1>1 DEF start_begin, PendingEntry, NoEntry, Goto, Return,
       ThreadState
  <1>2. CASE start_pending(t)
    <2>1. CASE Goto(t, "start_exceed") /\ UNCHANGED pending_files_um
      BY <1>0, <1>2, <2>1 DEF start_pending, Goto, ThreadState
    <2>2. CASE AddNum(On(t), RootBlock[On(t)], 1) /\ Return(t)
      <3>1. /\ pending_files_um'[On(t)].known
            /\ \A c \in Cid \ {On(t)} : pending_files_um'[c] = pending_files_um[c]
        BY <1>0, <2>2 DEF AddNum, Pending
      <3>2. \A u \in Thread \ {t} : thread'[u] = thread[u]
        BY <2>2 DEF Return
      <3>3. UNCHANGED sealed_files
        BY <1>2 DEF start_pending
      <3> QED BY <1>0, <3>1, <3>2, <3>3
    <2> QED BY <1>2, <2>1, <2>2 DEF start_pending
  <1>3. CASE start_exceed(t)
    BY <1>0, <1>3 DEF start_exceed, del_files, NoEntry, Return
  <1>4. CASE clean_pending(t)
    BY <1>0, <1>4 DEF clean_pending, erase_pending, Goto, ThreadState
  <1>5. CASE clean_dir(t)
    BY <1>0, <1>5 DEF clean_dir, Goto, ThreadState
  <1>6. CASE clean_entry(t)
    BY <1>0, <1>6 DEF clean_entry, del_files, NoEntry, Return
  <1>7. CASE end_pending(t)
    BY <1>0, <1>7 DEF end_pending, erase_pending, Goto, ThreadState
  <1> QED BY <1>1, <1>2, <1>3, <1>4, <1>5, <1>6, <1>7

LEMMA PendingStep ==
  ASSUME StorageTypeOK, NoStuckPending, StorageNext
  PROVE  NoStuckPending'
  <1>1. CASE \E t \in Thread : Call(t) \/ Continue(t)
    BY <1>1, FramedSteps, SettlingSteps DEF Continue
  <1>2. CASE deal_deleted_file
    BY <1>2 DEF deal_deleted_file, deal_take, deal_clean, deal_put_back,
       del_files, NoEntry, NoStuckPending, Settling, Status, On
  <1>3. CASE \E s \in Upgrades : upgrade(s)
    BY <1>3 DEF upgrade, NoStuckPending, Settling, Status, On
  <1> QED BY <1>1, <1>2, <1>3 DEF StorageNext

LEMMA PendingInit == StorageInit => NoStuckPending
  BY DEF StorageInit, WorkloadInit, NoStuckPending, Status, NoEntry

\* However the critical sections of seal start, seal, seal end and delete
\* interleave, no entry is left PENDING with nobody to settle it.
THEOREM PendingNeverStuck == StorageSpec => []NoStuckPending
  <1>1. StorageTypeOK /\ NoStuckPending /\ [StorageNext]_storageVars
          => NoStuckPending'
    <2>1. ASSUME NoStuckPending, UNCHANGED storageVars PROVE NoStuckPending'
      BY <2>1 DEF NoStuckPending, Settling, Status, On, storageVars,
         workloadVars
    <2> QED BY <2>1, PendingStep
  <1> QED BY <1>1, PendingInit, StorageTypes, PTL DEF StorageSpec

-----------------------------------------------------------------------------
(* The limit on pending files *)

\* The files being sealed whose entry nobody is about to settle.
Standing == {c \in PendingFiles : Status(c) = "PENDING" /\ ~Settling(c)}

StandingBounded ==
  /\ IsFiniteSet(PendingFiles)
  /\ Cardinality(Standing) <= FILE_PENDING_LIMIT + 1

\* A step that adds no file to them keeps the bound.
LEMMA StandingFrame ==
  ASSUME StandingBounded, Standing' \subseteq Standing, IsFiniteSet(PendingFiles')
  PROVE  StandingBounded'
  <1>1. Standing \in SUBSET PendingFiles /\ IsFiniteSet(PendingFiles)
    BY DEF StandingBounded, Standing
  <1>2. IsFiniteSet(Standing)
    BY <1>1, FS_Subset
  <1>3. IsFiniteSet(Standing') /\ Cardinality(Standing') <= Cardinality(Standing)
    BY <1>2, FS_Subset
  <1>4. Cardinality(Standing) \in Nat /\ Cardinality(Standing') \in Nat
    BY <1>2, <1>3, FS_CardinalityType
  <1> QED BY <1>3, <1>4, WorkloadAssumption DEF StandingBounded

\* A step that adds at most one pending file leaves them finite.
LEMMA PendingFinite ==
  ASSUME IsFiniteSet(PendingFiles), NEW d, PendingFiles' \subseteq PendingFiles \cup {d}
  PROVE  IsFiniteSet(PendingFiles')
  <1>1. IsFiniteSet(PendingFiles \cup {d})
    BY FS_AddElement
  <1> QED BY <1>1, FS_Subset

\* A framed step: a file that is registered while its entry is PENDING was not
\* registered before, so NoStuckPending has somebody who will settle it.
LEMMA StandingFramed ==
  ASSUME StorageTypeOK, NoStuckPending, StandingBounded, NEW t \in Thread, Framed(t)
  PROVE  StandingBounded'
  <1>1. IsFiniteSet(PendingFiles')
    BY PendingFinite DEF StandingBounded, Framed
  <1>2. \A c \in Cid : Settling(c) => Settling(c)'
    BY DEF Settling, On, Framed
  <1>3. Standing' \subseteq Standing
    <2> SUFFICES ASSUME NEW c \in Standing' PROVE c \in Standing
      OBVIOUS
    <2>1. /\ c \in Cid /\ pending_files_um'[c].known
          /\ sealed_files'[c].cur = "PENDING" /\ ~Settling(c)'
      BY DEF Standing, PendingFiles, Status
    <2>2. Status(c) = "PENDING" /\ ~Settling(c)
      BY <1>2, <2>1 DEF Status, Framed
    <2>3. pending_files_um[c].known
      BY <2>1, <2>2 DEF NoStuckPending
    <2> QED BY <2>1, <2>2, <2>3 DEF Standing, PendingFiles
  <1> QED BY <1>1, <1>3, StandingFrame

\* A start that finds room adds one file to those it counted.
LEMMA StandingStart ==
  ASSUME StorageTypeOK, StandingBounded, NEW t \in Thread, start_pending(t),
         Cardinality(PendingFiles) <= FILE_PENDING_LIMIT
  PROVE  StandingBounded'
  <1>1. On(t) \in Cid /\ IsFiniteSet(PendingFiles)
    BY OnType DEF StandingBounded, StorageTypeOK
  <1>2. Cardinality(PendingFiles) \in Nat
    BY <1>1, FS_CardinalityType
  <1>3. AddNum(On(t), RootBlock[On(t)], 1)
    BY <1>2, WorkloadAssumption DEF start_pending
  <1>4. PendingFiles' \subseteq PendingFiles \cup {On(t)}
    BY <1>3 DEF AddNum, PendingFiles, StorageTypeOK, WorkloadTypeOK
  <1>5. /\ IsFiniteSet(PendingFiles \cup {On(t)})
        /\ Cardinality(PendingFiles \cup {On(t)}) \in Nat
        /\ Cardinality(PendingFiles \cup {On(t)}) <= FILE_PENDING_LIMIT + 1
    <2>1. /\ IsFiniteSet(PendingFiles \cup {On(t)})
          /\ Cardinality(PendingFiles \cup {On(t)}) =
                IF On(t) \in PendingFiles THEN Cardinality(PendingFiles)
                ELSE Cardinality(PendingFiles) + 1
      BY <1>1, FS_AddElement
    <2> QED BY <1>2, <2>1, WorkloadAssumption
  <1>6. Standing' \in SUBSET (PendingFiles \cup {On(t)})
    BY <1>4 DEF Standing
  <1>7. /\ IsFiniteSet(Standing')
        /\ Cardinality(Standing') <= Cardinality(PendingFiles \cup {On(t)})
    BY <1>5, <1>6, FS_Subset
  <1>8. Cardinality(Standing') \in Nat
    BY <1>7, FS_CardinalityType
  <1>9. IsFiniteSet(PendingFiles')
    BY <1>4, <1>5, FS_Subset
  <1> QED BY <1>5, <1>7, <1>8, <1>9, WorkloadAssumption DEF StandingBounded

\* A step that settles an entry leaves it not PENDING, or to the next section.
LEMMA StandingSettled ==
  ASSUME StorageTypeOK, StandingBounded, NEW t \in Thread,
         \/ start_begin(t) \/ start_exceed(t)
         \/ start_pending(t) /\ Cardinality(PendingFiles) > FILE_PENDING_LIMIT
         \/ clean_pending(t) \/ clean_dir(t) \/ clean_entry(t)
         \/ end_pending(t)
  PROVE  StandingBounded'
  <1> USE DEF StorageTypeOK, WorkloadTypeOK, At
  <1>0. On(t) \in Cid /\ IsFiniteSet(PendingFiles)
    BY OnType DEF StandingBounded
  <1>1. PendingFiles' \subseteq PendingFiles
    <2>1. UNCHANGED pending_files_um \/ erase_pending(On(t))
      <3>1. CASE start_pending(t) /\ Cardinality(PendingFiles) > FILE_PENDING_LIMIT
        <4>1. Cardinality(PendingFiles) \in Nat
          BY <1>0, FS_CardinalityType
        <4> QED BY <3>1, <4>1, WorkloadAssumption DEF start_pending
      <3> QED BY <3>1 DEF start_begin, start_exceed, clean_pending, clean_dir,
         clean_entry, end_pending
    <2> QED BY <1>0, <2>1 DEF PendingFiles, erase_pending, NoPending
  <1>2. \A u \in Thread \ {t} : thread'[u] = thread[u]
    BY DEF start_begin, start_pending, start_exceed, clean_pending, clean_dir,
       clean_entry, end_pending, Goto, Return
  <1>3. \A c \in Cid \ {On(t)} :
            /\ sealed_files'[c] = sealed_files[c]
            /\ Settling(c) => Settling(c)'
    <2>1. \A c \in Cid \ {On(t)} : sealed_files'[c] = sealed_files[c]
      BY <1>0 DEF start_begin, start_pending, start_exceed, clean_pending,
         clean_dir, clean_entry, end_pending, del_files
    <2>2. \A c \in Cid \ {On(t)} : Settling(c) => Settling(c)'
      BY <1>2 DEF Settling, On
    <2> QED BY <2>1, <2>2
  <1>c. PICK c \in Cid : c = On(t)
    BY <1>0
  <1>4. c \in Standing' => c \in Standing
    <2>1. CASE start_begin(t)
      <3>1. CASE Goto(t, "start_pending")
        <4>1. Settling(c)'
          BY <1>c, <3>1 DEF Goto, Settling, SettlingPc, On, ThreadState
        <4> QED BY <4>1 DEF Standing
      <3>2. CASE UNCHANGED sealed_files /\ Return(t)
        <4>1. \A u \in Thread : On(u) = c /\ thread[u].pc \in SettlingPc =>
                 thread'[u] = thread[u]
          BY <1>2, <2>1 DEF start_begin, SettlingPc
        <4>2. Settling(c) => Settling(c)'
          BY <4>1 DEF Settling, On
        <4> QED BY <1>1, <3>2, <4>2 DEF Standing, Status
      <3> QED BY <2>1, <3>1, <3>2 DEF start_begin
    <2>2. CASE start_exceed(t) \/ clean_entry(t)
      <3>1. sealed_files'[c].cur # "PENDING"
        BY <1>0, <1>c, <2>2 DEF start_exceed, clean_entry, del_files, NoEntry, Status
      <3> QED BY <3>1 DEF Standing, Status
    <2>3. CASE \/ start_pending(t) /\ Cardinality(PendingFiles) > FILE_PENDING_LIMIT
               \/ clean_pending(t) \/ clean_dir(t) \/ end_pending(t)
      <3>1. \E pc \in SettlingPc : Goto(t, pc)
        <4>1. Cardinality(PendingFiles) \in Nat
          BY <1>0, FS_CardinalityType
        <4> QED BY <2>3, <4>1, WorkloadAssumption
           DEF start_pending, clean_pending, clean_dir, end_pending, SettlingPc
      <3>2. Settling(c)'
        BY <1>c, <3>1 DEF Goto, Settling, On, ThreadState
      <3> QED BY <3>2 DEF Standing
    <2> QED BY <2>1, <2>2, <2>3
  <1>5. Standing' \subseteq Standing
    BY <1>1, <1>3, <1>c, <1>4 DEF Standing, Status, PendingFiles
  <1>6. IsFiniteSet(PendingFiles')
    BY <1>0, <1>1, FS_Subset
  <1> QED BY <1>5, <1>6, StandingFrame

\* Every step keeps the bound.
LEMMA StandingStep ==
  ASSUME StorageTypeOK, NoStuckPending, StandingBounded, StorageNext
  PROVE  StandingBounded'
  <1>1. CASE \E t \in Thread : Call(t) \/ Continue(t)
    <2> PICK t \in Thread : Call(t) \/ Continue(t)
      BY <1>1
    <2>1. CASE start_pending(t)
      <3>1. Cardinality(PendingFiles) \in Nat
        BY FS_CardinalityType DEF StandingBounded
      <3>2. \/ Cardinality(PendingFiles) <= FILE_PENDING_LIMIT
            \/ Cardinality(PendingFiles) > FILE_PENDING_LIMIT
        BY <3>1, WorkloadAssumption
      <3> QED BY <2>1, <3>2, StandingStart, StandingSettled
    <2>2. CASE \/ start_begin(t) \/ start_exceed(t) \/ clean_pending(t)
               \/ clean_dir(t) \/ clean_entry(t) \/ end_pending(t)
      BY <2>2, StandingSettled
    <2>3. CASE \/ Call(t) \/ seal_begin(t) \/ seal_link(t) \/ seal_children(t)
               \/ seal_save(t) \/ seal_record(t) \/ end_begin(t) \/ end_check(t)
               \/ end_store(t) \/ end_add(t) \/ end_dir(t) \/ delete_mark(t)
               \/ delete_data(t)
      BY <2>3, FramedFacts, StandingFramed
    <2> QED BY <2>1, <2>2, <2>3 DEF Continue
  <1>2. CASE deal_deleted_file \/ \E s \in Upgrades : upgrade(s)
    <2>1. UNCHANGED <<pending_files_um, thread>>
      BY <1>2 DEF deal_deleted_file, deal_take, deal_clean, deal_put_back, upgrade
    <2>2. \A c \in Cid : sealed_files'[c].cur = "PENDING" => sealed_files[c].cur = "PENDING"
      BY <1>2 DEF deal_deleted_file, deal_take, deal_clean, deal_put_back, upgrade,
         del_files, NoEntry
    <2>3. PendingFiles' = PendingFiles /\ Standing' \subseteq Standing
      BY <2>1, <2>2 DEF PendingFiles, Standing, Status, Settling, On
    <2> QED BY <2>3, StandingFrame DEF StandingBounded
  <1> QED BY <1>1, <1>2 DEF StorageNext

\* However requests interleave and links bring back the record of a file whose
\* sealing failed, the files that storage_seal_file_start let in and nobody works
\* on are at most one more than FILE_PENDING_LIMIT, for any number of threads.
THEOREM PendingStaysBounded == StorageSpec => []PendingBounded
  <1>1. StorageInit => StandingBounded
    <2> SUFFICES ASSUME StorageInit PROVE StandingBounded
      OBVIOUS
    <2>1. PendingFiles = {} /\ Standing = {}
      BY DEF StorageInit, WorkloadInit, PendingFiles, NoPending, Standing
    <2>2. IsFiniteSet({}) /\ Cardinality({}) = 0
      BY FS_EmptySet
    <2> QED BY <2>1, <2>2, WorkloadAssumption DEF StandingBounded
  <1>2. StorageTypeOK /\ NoStuckPending /\ StandingBounded /\ [StorageNext]_storageVars
          => StandingBounded'
    <2>1. ASSUME StandingBounded, UNCHANGED storageVars PROVE StandingBounded'
      <3>1. PendingFiles' = PendingFiles /\ Standing' = Standing
        BY <2>1 DEF PendingFiles, Standing, Status, Settling, On, storageVars,
           workloadVars
      <3> QED BY <2>1, <3>1 DEF StandingBounded
    <2> QED BY <2>1, StandingStep
  <1>3. StandingBounded => PendingBounded
    <2> DEFINE Quiet == {c \in PendingFiles :
                            /\ Status(c) = "PENDING"
                            /\ \A t \in Thread : Idle(t) \/ On(t) # c}
    <2> SUFFICES ASSUME StandingBounded
                 PROVE  Cardinality(Quiet) <= FILE_PENDING_LIMIT + 1
      BY DEF PendingBounded
    <2>1. Quiet \in SUBSET Standing
      BY DEF Standing, Settling, SettlingPc, Idle
    <2>2. Standing \in SUBSET PendingFiles /\ IsFiniteSet(PendingFiles)
      BY DEF Standing, StandingBounded
    <2>3. IsFiniteSet(Standing)
      BY <2>2, FS_Subset
    <2>4. IsFiniteSet(Quiet) /\ Cardinality(Quiet) <= Cardinality(Standing)
      BY <2>1, <2>3, FS_Subset
    <2>5. Cardinality(Quiet) \in Nat /\ Cardinality(Standing) \in Nat
      BY <2>3, <2>4, FS_CardinalityType
    <2> QED BY <2>4, <2>5, WorkloadAssumption DEF StandingBounded
  <1> QED BY <1>1, <1>2, <1>3, StorageTypes, PendingNeverStuck, PTL DEF StorageSpec

-----------------------------------------------------------------------------
(* What the chain was told *)

\* A step of Storage keeps what an entry says of the work reports, or forgets
\* all of it; and an entry goes away only by being forgotten.
LEMMA ReportedKept ==
  ASSUME StorageTypeOK, StorageNext, NEW c \in Cid
  PROVE  \/ /\ sealed_files'[c].org = "UNVERIFIED"
            /\ sealed_files'[c].wait = "UNVERIFIED"
         \/ /\ sealed_files'[c].org = sealed_files[c].org
            /\ sealed_files'[c].wait = sealed_files[c].wait
            /\ sealed_files'[c].cur = "ABSENT" => sealed_files[c].cur = "ABSENT"
  <1> USE DEF StorageTypeOK, WorkloadTypeOK, workloadVars, NoEntry
  <1>1. CASE UNCHANGED sealed_files
    BY <1>1
  <1>2. CASE \E S : del_files(S)
    BY <1>2 DEF del_files
  <1>3. ASSUME NEW t \in Thread, start_begin(t)
        PROVE  \/ UNCHANGED sealed_files
               \/ sealed_files' = [sealed_files EXCEPT ![On(t)] = PendingEntry]
    BY <1>3 DEF start_begin
  <1>4. ASSUME NEW t \in Thread, end_add(t)
        PROVE  \E n \in BlockNum : sealed_files' =
                  [sealed_files EXCEPT ![On(t)] = SealedEntry(thread[t].meta, n)]
    BY <1>4 DEF end_add
  <1>5. ASSUME NEW t \in Thread, delete_mark(t)
        PROVE  \/ UNCHANGED sealed_files
               \/ sealed_files' = [sealed_files EXCEPT ![On(t)].cur = "DELETED"]
    BY <1>5 DEF delete_mark
  <1>6. CASE \E t \in Thread : start_begin(t) \/ end_add(t) \/ delete_mark(t)
    <2> PICK t \in Thread : start_begin(t) \/ end_add(t) \/ delete_mark(t)
      BY <1>6
    <2>1. On(t) \in Cid
      BY OnType
    <2>2. CASE start_begin(t)
      BY <1>3, <2>1, <2>2 DEF PendingEntry
    <2>3. CASE end_add(t)
      BY <1>4, <2>1, <2>3 DEF SealedEntry
    <2>4. CASE delete_mark(t)
      <3>1. CASE UNCHANGED sealed_files
        BY <1>1, <3>1
      <3>2. CASE sealed_files' = [sealed_files EXCEPT ![On(t)].cur = "DELETED"]
        <4>1. sealed_files[c] \in Entry
          OBVIOUS
        <4>2. c # On(t) => sealed_files'[c] = sealed_files[c]
          BY <3>2
        <4>3. c = On(t) => sealed_files'[c] = [sealed_files[c] EXCEPT !.cur = "DELETED"]
          BY <3>2
        <4> QED BY <4>1, <4>2, <4>3 DEF Entry
      <3> QED BY <1>5, <2>4, <3>1, <3>2
    <2> QED BY <2>2, <2>3, <2>4
  <1>7. CASE \E t \in Thread : start_exceed(t) \/ clean_entry(t)
    BY <1>1, <1>2, <1>7 DEF start_exceed, clean_entry
  <1>8. CASE \E t \in Thread : Call(t)
    BY <1>1, <1>8 DEF Call, storage_seal_file_start, seal_empty_block,
       storage_seal_file, storage_seal_file_end, storage_delete_file
  <1>9. CASE deal_deleted_file \/ \E s \in Upgrades : upgrade(s)
    BY <1>1, <1>2, <1>9 DEF deal_deleted_file, deal_take, deal_clean,
       deal_put_back, upgrade
  <1>10. CASE \E t \in Thread : Continue(t)
    <2>1. ASSUME NEW t \in Thread, Continue(t)
          PROVE  \/ UNCHANGED sealed_files
                 \/ start_begin(t) \/ end_add(t) \/ delete_mark(t)
                 \/ start_exceed(t) \/ clean_entry(t)
      BY <2>1 DEF Continue, start_pending, seal_begin, seal_link, seal_children,
         seal_save, seal_record, clean_pending, clean_dir, end_begin,
         end_check, end_store, end_dir, end_pending, delete_data
    <2> QED BY <1>1, <1>6, <1>7, <1>10, <2>1
  <1> QED BY <1>8, <1>9, <1>10 DEF StorageNext

=============================================================================
