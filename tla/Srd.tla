-------------------------------- MODULE Srd --------------------------------
(***************************************************************************)
(* The sealed random data (srd) a node offers as free space.  The enclave  *)
(* holds the list srd_hashs of the units it sealed; each is a directory on *)
(* one of the disks.  Five kinds of threads work on it:                    *)
(*                                                                         *)
(*   main     the main loop: it validates the units, drops those in the    *)
(*            deleted buffer and carries out the srd task,                 *)
(*   workers  the app's pool, sealing one unit each,                       *)
(*   checkers the app's validate pool, checking one unit each,             *)
(*   remover  srd_check_reserved: frees a disk that runs full,             *)
(*   client   the /srd/change handler, which changes the srd task.         *)
(*                                                                         *)
(* The deleted buffer holds INDEXES into the list, counted from 1 here,    *)
(* and the statistics go to the app as copies that may overtake each       *)
(* other.  A unit is a pair of its disk and a number of its own.           *)
(***************************************************************************)
EXTENDS Integers, FiniteSets, Sequences

CONSTANTS
    Disk,                     \* data paths, numbers in the order of the config
    Capacity,                 \* [Disk -> Nat]: units a disk has beyond the reserve
    SRD_MAX_INC_PER_TURN,
    SRD_MAX_DEC_PER_TURN,
    SRD_NUMBER_UPPER_LIMIT,
    SRD_VALIDATE_MIN_NUM,
    Checker,                  \* threads of the validate pool
    Already,                  \* units sealed before: restored from the metadata
    Changes,                  \* the changes a client asks for
    MaxChanges,               \* bound on the requests of a behaviour
    MaxSrd,                   \* bound on the units sealed in a behaviour
    Faults,                   \* bounds on the disturbances of a behaviour, as
                              \* alternatives: how often each kind may occur
    Upgrades                  \* the upgrade statuses that occur

FaultKind == {"disk", "recall", "space", "increase", "timeout", "upgrade"}

ASSUME SrdAssumption ==
    /\ Disk \subseteq Nat /\ IsFiniteSet(Disk)
    /\ Capacity \in [Disk -> Nat]
    /\ SRD_MAX_INC_PER_TURN \in Nat \ {0}
    /\ SRD_MAX_DEC_PER_TURN \in Nat \ {0}
    /\ SRD_NUMBER_UPPER_LIMIT \in Nat
    /\ SRD_VALIDATE_MIN_NUM \in Nat \ {0}
    /\ Already \in Seq(Disk \X Nat)
    /\ \A i \in 1..Len(Already) : Already[i][2] = i
    /\ Changes \subseteq Int \ {0}
    /\ MaxChanges \in Nat
    /\ MaxSrd \in Nat
    /\ Faults \subseteq [FaultKind -> Nat]
    /\ Upgrades \subseteq {"NONE", "PROCESS", "SUCCESS"}

VARIABLES
    srd_hashs,            \* the units the enclave holds, in sealing order
    srd_del_idx_s,        \* the deleted buffer: indexes into srd_hashs
    g_srd_task,           \* units still to add (or, negative, to remove)
    srd_info,             \* the enclave's statistics
    upgrade_status,
    validated_proof,      \* the work was validated since the last report
    g_validate_srd_m,     \* the units of this round, with their indexes
    g_validate_srd_m_iter,\* those the shared iterator has not passed yet
    g_validated_srd_num,  \* tasks counted in this round
    g_del_srd_v,          \* the units whose directories the round deletes
    queued,               \* tasks waiting in the validate pool
    task,                 \* what each thread of the validate pool does
    ed_srd_info,          \* the app's copy of the statistics
    g_running_srd_task,   \* the app's count of units being sealed
    worker,               \* the pool of a turn
    pc,                   \* where each thread stands
    pub,                  \* whether it first has to send statistics
    dump,                 \* the copy of the statistics it will send
    arg,                  \* the change a thread carries out
    left_space,           \* a turn found too little space
    del_json,             \* what the remover asks for, per disk
    del_srds,             \* directories a thread is about to delete
    srd_dir,              \* external: the directories on the disks
    other_use,            \* external: space taken by other data, per disk
    crashed,              \* the enclave read outside of srd_hashs or of the map
    changes,              \* bound: requests so far
    made,                 \* bound: units sealed so far
    faults,               \* bound: disturbances so far
    condemned,            \* history: units found bad or removed on purpose
    overtaken             \* history: a task handed in a verdict, or buffered
                          \* its index, after its round

srdVars == <<srd_hashs, srd_del_idx_s, g_srd_task, srd_info>>
roundVars == <<g_validate_srd_m, g_validate_srd_m_iter, g_validated_srd_num>>
validateVars == <<roundVars, g_del_srd_v, queued, task>>
appVars == <<ed_srd_info, g_running_srd_task, worker>>
threadVars == <<pc, pub, dump, arg, left_space, del_json, del_srds>>
envVars == <<upgrade_status, validated_proof, other_use, crashed, changes>>
ghostVars == <<made, faults, condemned, overtaken>>
allVars == <<srdVars, validateVars, appVars, threadVars, srd_dir, envVars,
             ghostVars>>

Unit == Disk \X Nat
DiskOf(u) == u[1]
\* Threads are numbers: the pool counts from 1.
main == 0
remover == -1
client == -2
Worker == 1..SRD_MAX_INC_PER_TURN
Proc == {main, remover, client} \cup Worker
Info == [complete : Int, remaining : Int, detail : [Disk -> Int]]
NoInfo == [complete |-> 0, remaining |-> 0, detail |-> [d \in Disk |-> 0]]
NoneToDelete == [d \in Disk |-> 0]

Fault(kind) ==
    /\ \E F \in Faults :
          faults[kind] < F[kind] /\ \A k \in FaultKind : faults[k] <= F[k]
    /\ faults' = [faults EXCEPT ![kind] = @ + 1]

-----------------------------------------------------------------------------
(* Threads and their statistics.  A thread whose pub is not "no" owes the  *)
(* app a copy of the statistics before it goes on from pc.                 *)

At(p, label) == pc[p] = label /\ pub[p] = "no"

Go(p, label) == pc' = [pc EXCEPT ![p] = label] /\ UNCHANGED <<pub, dump>>

GoAndPublish(p, label) ==
    /\ pc' = [pc EXCEPT ![p] = label]
    /\ pub' = [pub EXCEPT ![p] = "dump"]
    /\ UNCHANGED dump

\* get_srd_info().dump(): the copy is taken under srd_info_mutex ...
get_srd_info(p) ==
    /\ pub[p] = "dump"
    /\ dump' = [dump EXCEPT ![p] = srd_info]
    /\ pub' = [pub EXCEPT ![p] = "set"]
    /\ UNCHANGED <<srdVars, validateVars, appVars, pc, arg, left_space,
                   del_json, del_srds, srd_dir, envVars, ghostVars>>

\* ... and stored in the app when the ocall gets there.
ocall_set_srd_info(p) ==
    /\ pub[p] = "set"
    /\ ed_srd_info' = dump[p]
    /\ dump' = [dump EXCEPT ![p] = NoInfo]
    /\ pub' = [pub EXCEPT ![p] = "no"]
    /\ UNCHANGED <<srdVars, validateVars, g_running_srd_task, worker, pc, arg,
                   left_space, del_json, del_srds, srd_dir, envVars, ghostVars>>

\* The main loop keeps srd_mutex from a deletion until its statistics are
\* sent, in srd_decrease over two deletions, and g_srd_task_mutex while it
\* sends those of the remaining task.
SrdLocked ==
    pc[main] = "cut" \/ (pub[main] # "no" /\ pc[main] \in {"change", "erase"})
TaskLocked == pub[main] # "no" /\ pc[main] = "idle"

-----------------------------------------------------------------------------
(* The list and its statistics. *)

\* Mutant: the floor of the total is off by one.
set_srd_info_floored(info, n, on) ==
    [info EXCEPT !.complete = IF @ + n <= 1 THEN 0 ELSE @ + n,
                 !.detail = [d \in Disk |-> info.detail[d] + on[d]]]

\* The statistics after adding n units in all, on[d] of them on disk d.  The
\* total stops at 0 and then stays there: the calls for several units that
\* are erased amount to one with their number.
set_srd_info(info, n, on) ==
    [info EXCEPT !.complete = IF @ + n <= 0 THEN 0 ELSE @ + n,
                 !.detail = [d \in Disk |-> info.detail[d] + on[d]]]

OnDisk(list, I, d) == {i \in I : DiskOf(list[i]) = d}

\* The k-th index of the set S of indexes.
Nth(S, k) == CHOOSE i \in S : Cardinality({j \in S : j <= i}) = k

\* Erase the indexes in I that the list has, the highest first: the other
\* units move up.
delete_srd_meta(list, I) ==
    LET kept == 1..Len(list) \ I
    IN  [k \in 1..Cardinality(kept) |-> list[Nth(kept, k)]]

Units(list) == {list[i] : i \in 1..Len(list)}

Erase(I) ==
    LET gone == 1..Len(srd_hashs) \cap I
    IN  /\ srd_hashs' = delete_srd_meta(srd_hashs, I)
        /\ srd_info' = set_srd_info(srd_info, -Cardinality(gone),
              [d \in Disk |-> -Cardinality(OnDisk(srd_hashs, gone, d))])

Free(d) == Capacity[d] - other_use[d] - Cardinality({u \in srd_dir : DiskOf(u) = d})
AvailForSrd(d) == IF Free(d) > 0 THEN Free(d) ELSE 0

-----------------------------------------------------------------------------
(* validate_srd, by the main loop, and validate_srd_real, by the app's     *)
(* validate pool.  A task is not told its unit: it reads the random number *)
(* of the round, takes the next entry of the shared iterator, checks it,   *)
(* and its verdict counts only if the number is still the same.  Nothing   *)
(* calls a task back whose round timed out.                                *)

NoTask == [pc |-> "free", same |-> FALSE, idx |-> 0, unit |-> <<>>,
           bad |-> FALSE, old |-> FALSE]
HasEntry(c) == task[c].pc \in {"read", "look", "count", "push", "add"}
TaskAt(c, label) == task[c].pc = label

\* A new random number: no task that runs will find the one it read.
Redrawn == [c \in Checker |-> [task[c] EXCEPT !.same = FALSE]]

\* The entry the iterator points at: the map is ordered by index.
NextEntry ==
    CHOOSE e \in g_validate_srd_m_iter : \A f \in g_validate_srd_m_iter : e.idx <= f.idx

\* The iterator is used without a look whether it is at its end, or the map
\* cleared: nothing is said of the enclave afterwards.
PastTheEnd ==
    /\ g_validate_srd_m_iter = {}
    /\ crashed' = TRUE
    /\ UNCHANGED <<srdVars, validateVars, appVars, threadVars, srd_dir,
                   upgrade_status, validated_proof, other_use, changes, ghostVars>>

\* A turn of the main loop.  The validation of files that comes first leaves
\* srd alone, but draws the same random number unless an upgrade stops it.
ecall_main_loop ==
    /\ At(main, "idle")
    /\ upgrade_status # "SUCCESS"
    /\ task' \in {task, Redrawn}
    /\ Go(main, "validate")
    /\ UNCHANGED <<srdVars, roundVars, g_del_srd_v, queued, appVars,
                   arg, left_space, del_json, del_srds, srd_dir, envVars, ghostVars>>

\* All units are checked, or a random choice when there are many.
Chosen ==
    LET all == 1..Len(srd_hashs)
    IN  IF Len(srd_hashs) <= SRD_VALIDATE_MIN_NUM THEN {all}
        ELSE {S \in SUBSET all : Cardinality(S) \in 1..SRD_VALIDATE_MIN_NUM}

\* Mutant: the snapshot numbers the units from 0.
validate_srd_zero ==
    /\ At(main, "validate")
    /\ \/ /\ upgrade_status = "SUCCESS"
          /\ Go(main, "deal")
          /\ UNCHANGED <<g_validate_srd_m, g_validate_srd_m_iter, task>>
       \/ /\ upgrade_status # "SUCCESS"
          /\ \E S \in Chosen :
                g_validate_srd_m' = {[idx |-> i - 1, unit |-> srd_hashs[i]] : i \in S}
          /\ g_validate_srd_m_iter' = g_validate_srd_m'
          /\ task' = Redrawn
          /\ Go(main, "reset")
    /\ UNCHANGED <<srdVars, g_validated_srd_num, g_del_srd_v, queued,
                   appVars, arg, left_space, del_json, del_srds, srd_dir,
                   envVars, ghostVars>>

\* The round begins: its units are put into the map, the iterator at its begin,
\* and a random number is drawn.
validate_srd ==
    /\ At(main, "validate")
    /\ \/ /\ upgrade_status = "SUCCESS"
          /\ Go(main, "deal")
          /\ UNCHANGED <<g_validate_srd_m, g_validate_srd_m_iter, task>>
       \/ /\ upgrade_status # "SUCCESS"
          /\ \E S \in Chosen :
                g_validate_srd_m' = {[idx |-> i, unit |-> srd_hashs[i]] : i \in S}
          /\ g_validate_srd_m_iter' = g_validate_srd_m'
          /\ task' = Redrawn
          /\ Go(main, "reset")
    /\ UNCHANGED <<srdVars, g_validated_srd_num, g_del_srd_v, queued,
                   appVars, arg, left_space, del_json, del_srds, srd_dir,
                   envVars, ghostVars>>

\* The count starts at 0 and a task per unit is queued.
validate_srd_queue ==
    /\ At(main, "reset")
    /\ g_validated_srd_num' = 0
    /\ queued' = queued + Cardinality(g_validate_srd_m)
    /\ Go(main, "check")
    /\ UNCHANGED <<srdVars, g_validate_srd_m, g_validate_srd_m_iter,
                   g_del_srd_v, task, appVars, arg, left_space,
                   del_json, del_srds, srd_dir, envVars, ghostVars>>

\* Mutant: the index is not buffered.
recall_failed_unbuffered ==
    /\ At(main, "check")
    /\ queued > 0
    /\ Fault("recall")
    /\ queued' = queued - 1
    /\ g_validate_srd_m_iter # {}
    /\ g_validate_srd_m_iter' = g_validate_srd_m_iter \ {NextEntry}
    /\ g_validated_srd_num' = g_validated_srd_num + 1
    /\ g_del_srd_v' = g_del_srd_v \cup {NextEntry.unit}
    /\ srd_del_idx_s' = srd_del_idx_s
    /\ condemned' = condemned \cup {NextEntry.unit}
    /\ UNCHANGED <<srd_hashs, g_srd_task, srd_info, g_validate_srd_m, task, appVars, threadVars, srd_dir, envVars, made, overtaken>>

\* The ocall that queues a task failed: the main loop takes the next unit
\* itself, counts it and gives it up.
recall_failed ==
    /\ At(main, "check")
    /\ queued > 0
    /\ Fault("recall")
    /\ queued' = queued - 1
    /\ g_validate_srd_m_iter # {}
    /\ g_validate_srd_m_iter' = g_validate_srd_m_iter \ {NextEntry}
    /\ g_validated_srd_num' = g_validated_srd_num + 1
    /\ g_del_srd_v' = g_del_srd_v \cup {NextEntry.unit}
    /\ srd_del_idx_s' = srd_del_idx_s \cup {NextEntry.idx}
    /\ condemned' = condemned \cup {NextEntry.unit}
    /\ UNCHANGED <<srd_hashs, g_srd_task, srd_info, g_validate_srd_m, task, appVars, threadVars, srd_dir, envVars, made, overtaken>>

recall_failed_past_the_end ==
    /\ \E F \in Faults : F["recall"] > 0
    /\ At(main, "check")
    /\ queued > 0
    /\ PastTheEnd

\* A task begins and reads the random number ...
validate_srd_real(c) ==
    /\ TaskAt(c, "free")
    /\ queued > 0
    /\ queued' = queued - 1
    /\ task' = [task EXCEPT ![c] = [NoTask EXCEPT !.pc = "take", !.same = TRUE]]
    /\ UNCHANGED <<srdVars, roundVars, g_del_srd_v, appVars,
                   threadVars, srd_dir, envVars, ghostVars>>

\* ... and then takes the next entry of whichever round it is.
take_entry(c) ==
    /\ TaskAt(c, "take")
    /\ g_validate_srd_m_iter # {}
    /\ g_validate_srd_m_iter' = g_validate_srd_m_iter \ {NextEntry}
    /\ task' = [task EXCEPT ![c] = [@ EXCEPT !.pc = "read", !.idx = NextEntry.idx,
                                             !.unit = NextEntry.unit]]
    /\ UNCHANGED <<srdVars, g_validate_srd_m, g_validated_srd_num, g_del_srd_v,
                   queued, appVars, threadVars, srd_dir, envVars,
                   ghostVars>>

take_past_the_end(c) == TaskAt(c, "take") /\ PastTheEnd

\* The pointer of a task whose unit left the list dangles: anything is read.
Dangling(u) == u \notin Units(srd_hashs)
Readable(u) == u \in srd_dir \/ Dangling(u)
Unreadable(u) ==
    \/ (u \notin srd_dir \/ Dangling(u)) /\ UNCHANGED faults
    \/ u \in srd_dir /\ Fault("disk")
Wrong(u) ==
    \/ Dangling(u) /\ UNCHANGED faults
    \/ u \in srd_dir /\ Fault("disk")

Judged(c, bad) ==
    /\ task' = [task EXCEPT ![c] = [@ EXCEPT !.pc = "look", !.bad = bad]]
    /\ condemned' = IF bad THEN condemned \cup ({task[c].unit} \cap Units(srd_hashs))
                           ELSE condemned

\* The unit is there, or cannot be read and is being deleted anyway; or it
\* cannot be read and its index is buffered at once; or its data is wrong.
read_unit(c) ==
    /\ TaskAt(c, "read")
    /\ \/ /\ Readable(task[c].unit) \/ task[c].idx \in srd_del_idx_s
          /\ Judged(c, FALSE)
          /\ UNCHANGED <<srd_del_idx_s, faults, overtaken>>
       \/ /\ Unreadable(task[c].unit)
          /\ task[c].idx \notin srd_del_idx_s
          /\ srd_del_idx_s' = srd_del_idx_s \cup {task[c].idx}
          /\ overtaken' = (overtaken \/ task[c].old)
          /\ Judged(c, TRUE)
       \/ /\ Wrong(task[c].unit)
          /\ Judged(c, TRUE)
          /\ UNCHANGED <<srd_del_idx_s, overtaken>>
    /\ UNCHANGED <<srd_hashs, g_srd_task, srd_info, roundVars, g_del_srd_v,
                   queued, appVars, threadVars, srd_dir, envVars, made>>

\* The end of a task, finish_defer: one that finds another random number ends
\* without a trace.
look_at_random(c) ==
    /\ TaskAt(c, "look")
    /\ task' = [task EXCEPT ![c] = IF @.same THEN [@ EXCEPT !.pc = "count"] ELSE NoTask]
    /\ UNCHANGED <<srdVars, roundVars, g_del_srd_v, queued, appVars,
                   threadVars, srd_dir, envVars, ghostVars>>

\* The others are counted, and only then hand in what they found:
count_task(c) ==
    /\ TaskAt(c, "count")
    /\ g_validated_srd_num' = g_validated_srd_num + 1
    /\ task' = [task EXCEPT ![c] = IF @.bad THEN [@ EXCEPT !.pc = "push"] ELSE NoTask]
    /\ UNCHANGED <<srdVars, g_validate_srd_m, g_validate_srd_m_iter,
                   g_del_srd_v, queued, appVars, threadVars, srd_dir,
                   envVars, ghostVars>>

\* the unit goes to the directories to delete,
push_unit(c) ==
    /\ TaskAt(c, "push")
    /\ g_del_srd_v' = g_del_srd_v \cup {task[c].unit}
    /\ task' = [task EXCEPT ![c] = [@ EXCEPT !.pc = "add"]]
    /\ overtaken' = (overtaken \/ task[c].old)
    /\ UNCHANGED <<srdVars, roundVars, queued, appVars, threadVars,
                   srd_dir, envVars, made, faults, condemned>>

\* then its index to the deleted buffer.
add_srd_to_deleted_buffer(c) ==
    /\ TaskAt(c, "add")
    /\ srd_del_idx_s' = srd_del_idx_s \cup {task[c].idx}
    /\ task' = [task EXCEPT ![c] = NoTask]
    /\ overtaken' = (overtaken \/ task[c].old)
    /\ UNCHANGED <<srd_hashs, g_srd_task, srd_info, roundVars, g_del_srd_v,
                   queued, appVars, threadVars, srd_dir, envVars,
                   made, faults, condemned>>

\* The directories of the failed units are deleted, and the map is cleared.  A
\* pointer to a unit that left the list is dangling: its memory may hold any
\* unit by now, and whatever is found there is deleted.
EndRound ==
    /\ \E S \in SUBSET (IF \E u \in g_del_srd_v : Dangling(u) THEN srd_dir ELSE {}) :
          srd_dir' = srd_dir \ ((g_del_srd_v \cap Units(srd_hashs)) \cup S)
    /\ g_del_srd_v' = {}
    /\ g_validate_srd_m' = {}
    /\ g_validate_srd_m_iter' = {}
    /\ task' = [c \in Checker |-> [task[c] EXCEPT !.old = HasEntry(c)]]
    /\ Go(main, "deal")
    /\ UNCHANGED <<srdVars, g_validated_srd_num, queued, appVars, arg,
                   left_space, del_json, del_srds, upgrade_status, other_use,
                   crashed, changes, made, condemned, overtaken>>

\* As many tasks as units were counted: srd is validated.
validate_srd_complete ==
    /\ At(main, "check")
    /\ g_validated_srd_num >= Cardinality(g_validate_srd_m)
    /\ validated_proof' = TRUE
    /\ UNCHANGED faults
    /\ EndRound

\* A slot has passed: the round ends without a proof, its tasks go on.
validate_srd_timeout ==
    /\ At(main, "check")
    /\ g_validated_srd_num < Cardinality(g_validate_srd_m)
    /\ Fault("timeout")
    /\ UNCHANGED validated_proof
    /\ EndRound

\* Deferred to the end of validate_srd: drop what is in the deleted buffer.
deal_deleted_srd ==
    /\ At(main, "deal")
    /\ Erase(srd_del_idx_s)
    /\ srd_del_idx_s' = {}
    /\ IF srd_del_idx_s = {} THEN Go(main, "change")
                             ELSE GoAndPublish(main, "change")
    /\ UNCHANGED <<g_srd_task, validateVars, appVars, arg, left_space,
                   del_json, del_srds, srd_dir, envVars, ghostVars>>

-----------------------------------------------------------------------------
(* srd_change: the enclave takes a turn's share of the task. *)

srd_change_skip ==
    /\ At(main, "change")
    /\ upgrade_status # "NONE" \/ ~validated_proof \/ g_srd_task = 0
    /\ Go(main, "idle")
    /\ UNCHANGED <<srdVars, validateVars, appVars, arg, left_space, del_json,
                   del_srds, srd_dir, envVars, ghostVars>>

TurnShare ==
    IF g_srd_task > SRD_MAX_INC_PER_TURN THEN SRD_MAX_INC_PER_TURN
    ELSE IF g_srd_task < -SRD_MAX_DEC_PER_TURN THEN -SRD_MAX_DEC_PER_TURN
    ELSE g_srd_task

srd_change ==
    /\ At(main, "change")
    /\ upgrade_status = "NONE" /\ validated_proof /\ g_srd_task # 0
    /\ g_srd_task' = g_srd_task - TurnShare
    /\ arg' = [arg EXCEPT ![main] = TurnShare]
    /\ left_space' = FALSE
    /\ Go(main, IF TurnShare > 0 THEN "increase" ELSE "decrease")
    /\ UNCHANGED <<srd_hashs, srd_del_idx_s, srd_info, validateVars, appVars,
                   del_json, del_srds, srd_dir, envVars, ghostVars>>

\* Units are dealt to the disks one by one in turn, while there is space: the
\* next one goes to the disk with the fewest so far.
get_increase_srd_info(n) ==
    {deal \in UNION {[1..k -> Disk] : k \in 0..n} :
        LET Used(w, d) == Cardinality({v \in 1..(w - 1) : deal[v] = d})
            Room(w) == {d \in Disk : Used(w, d) < AvailForSrd(d)}
        IN  /\ \A w \in DOMAIN deal :
                  /\ deal[w] \in Room(w)
                  /\ \A e \in Room(w) :
                        \/ Used(w, deal[w]) < Used(w, e)
                        \/ Used(w, deal[w]) = Used(w, e) /\ deal[w] <= e
            /\ DOMAIN deal = 1..n \/ Room(Cardinality(DOMAIN deal) + 1) = {}}

\* The app's half: share the units among the disks and fill the pool.
app_srd_increase ==
    /\ At(main, "increase")
    /\ \E deal \in get_increase_srd_info(arg[main]) :
          LET total == Cardinality(DOMAIN deal)
          IN  /\ left_space' = (total < arg[main])
              /\ arg' = [arg EXCEPT ![main] = total]
              /\ IF total = 0
                 THEN /\ Go(main, "exceed")
                      /\ UNCHANGED <<g_running_srd_task, worker>>
                 ELSE /\ g_running_srd_task' = total
                      /\ worker' = [w \in Worker |->
                            IF w > total THEN worker[w]
                            ELSE [disk |-> deal[w], unit |-> <<>>, ok |-> FALSE]]
                      /\ pc' = [p \in Proc |->
                            IF p \in 1..total THEN "queued"
                            ELSE IF p = main THEN "wait" ELSE pc[p]]
                      /\ UNCHANGED <<pub, dump>>
    /\ UNCHANGED <<srdVars, validateVars, ed_srd_info, del_json, del_srds,
                   srd_dir, envVars, ghostVars>>

-----------------------------------------------------------------------------
(* srd_increase, by a thread of the pool. *)

\* The ecall may be turned away or fail; otherwise a directory is filled and
\* renamed to its final name.
srd_increase(w) ==
    /\ At(w, "queued")
    /\ \/ /\ \/ (upgrade_status # "NONE" \/ ~validated_proof) /\ UNCHANGED faults
             \/ Fault("increase")
          /\ Go(w, "return")
          /\ UNCHANGED <<worker, srd_dir, made>>
       \/ /\ upgrade_status = "NONE" /\ validated_proof
          /\ made < MaxSrd
          /\ made' = made + 1
          /\ worker' = [worker EXCEPT ![w].unit = <<worker[w].disk, made + 1>>]
          /\ srd_dir' = srd_dir \cup {<<worker[w].disk, made + 1>>}
          /\ Go(w, "made")
          /\ UNCHANGED faults
    /\ UNCHANGED <<srdVars, validateVars, ed_srd_info, g_running_srd_task, arg,
                   left_space, del_json, del_srds, envVars, condemned, overtaken>>

\* Short of memory after the renaming: the directory stays behind, the clean-up
\* looks for its old name.
srd_increase_leak(w) ==
    /\ At(w, "made")
    /\ Fault("increase")
    /\ worker' = [worker EXCEPT ![w].unit = <<>>]
    /\ Go(w, "return")
    /\ UNCHANGED <<srdVars, validateVars, ed_srd_info, g_running_srd_task, arg,
                   left_space, del_json, del_srds, srd_dir, envVars, made,
                   condemned, overtaken>>

srd_increase_add(w) ==
    /\ At(w, "made") /\ ~SrdLocked
    /\ srd_hashs' = Append(srd_hashs, worker[w].unit)
    /\ Go(w, "count")
    /\ UNCHANGED <<srd_del_idx_s, g_srd_task, srd_info, validateVars, appVars,
                   arg, left_space, del_json, del_srds, srd_dir, envVars,
                   ghostVars>>

srd_increase_count(w) ==
    /\ At(w, "count")
    /\ srd_info' = set_srd_info(srd_info, 1,
                    [d \in Disk |-> IF d = worker[w].disk THEN 1 ELSE 0])
    /\ worker' = [worker EXCEPT ![w].unit = <<>>, ![w].ok = TRUE]
    /\ GoAndPublish(w, "return")
    /\ UNCHANGED <<srd_hashs, srd_del_idx_s, g_srd_task, validateVars,
                   ed_srd_info, g_running_srd_task, arg, left_space, del_json,
                   del_srds, srd_dir, envVars, ghostVars>>

decrease_running_srd_task(w) ==
    /\ At(w, "return")
    /\ g_running_srd_task' =
          IF g_running_srd_task > 0 THEN g_running_srd_task - 1 ELSE g_running_srd_task
    /\ Go(w, "done")
    /\ UNCHANGED <<srdVars, validateVars, ed_srd_info, worker, arg, left_space,
                   del_json, del_srds, srd_dir, envVars, ghostVars>>

PoolDone == \A w \in Worker : pc[w] \in {"idle", "done"}

\* All futures are there: what failed is put on the task again.
app_srd_increase_end ==
    /\ At(main, "wait")
    /\ PoolDone
    /\ LET left == arg[main] - Cardinality({w \in Worker : pc[w] = "done" /\ worker[w].ok})
       IN  /\ arg' = [arg EXCEPT ![main] = left]
           /\ pc' = [p \in Proc |->
                 IF p \in Worker THEN "idle"
                 ELSE IF p = main
                 THEN (IF left > 0 THEN "size" ELSE IF left_space THEN "exceed" ELSE "store")
                 ELSE pc[p]]
    /\ worker' = [w \in Worker |-> [disk |-> 0, unit |-> <<>>, ok |-> FALSE]]
    /\ g_running_srd_task' = 0
    /\ UNCHANGED <<srdVars, validateVars, ed_srd_info, pub, dump, left_space,
                   del_json, del_srds, srd_dir, envVars, ghostVars>>

-----------------------------------------------------------------------------
(* change_srd_task, by the client and, for what failed, by the main loop.  *)
(* The number of units, the task and the new task are read and written     *)
(* under different mutexes; arg becomes a pair of change and count.        *)

Done(p) == IF p = client THEN "idle" ELSE IF left_space THEN "exceed" ELSE "store"

change_srd_task_refused(p) ==
    /\ At(p, "size")
    /\ upgrade_status # "NONE"
    /\ arg' = [arg EXCEPT ![p] = 0]
    /\ Go(p, Done(p))
    /\ UNCHANGED <<srdVars, validateVars, appVars, left_space, del_json,
                   del_srds, srd_dir, envVars, ghostVars>>

\* The limit does not concern a decrease.
change_srd_task_less(p) ==
    /\ At(p, "size")
    /\ upgrade_status = "NONE"
    /\ arg[p] < 0
    /\ Go(p, "add")
    /\ UNCHANGED <<srdVars, validateVars, appVars, arg, left_space, del_json,
                   del_srds, srd_dir, envVars, ghostVars>>

change_srd_task_size(p) ==
    /\ At(p, "size") /\ ~SrdLocked
    /\ upgrade_status = "NONE"
    /\ arg[p] > 0
    /\ arg' = [arg EXCEPT ![p] = <<@, Len(srd_hashs)>>]
    /\ Go(p, "limit")
    /\ UNCHANGED <<srdVars, validateVars, appVars, left_space, del_json,
                   del_srds, srd_dir, envVars, ghostVars>>

\* At most what the limit still allows, nothing when it is reached.
WithinLimit(change, srd_num) ==
    IF srd_num >= SRD_NUMBER_UPPER_LIMIT THEN 0
    ELSE IF srd_num + change > SRD_NUMBER_UPPER_LIMIT THEN SRD_NUMBER_UPPER_LIMIT - srd_num
    ELSE change

change_srd_task_limit(p) ==
    /\ At(p, "limit") /\ ~TaskLocked
    /\ arg' = [arg EXCEPT ![p] = WithinLimit(@[1], @[2] + g_srd_task)]
    /\ Go(p, "add")
    /\ UNCHANGED <<srdVars, validateVars, appVars, left_space, del_json,
                   del_srds, srd_dir, envVars, ghostVars>>

change_srd_task_add(p) ==
    /\ At(p, "add") /\ ~TaskLocked
    /\ g_srd_task' = g_srd_task + arg[p]
    /\ srd_info' = [srd_info EXCEPT !.remaining = g_srd_task']
    /\ arg' = [arg EXCEPT ![p] = 0]
    /\ GoAndPublish(p, Done(p))
    /\ UNCHANGED <<srd_hashs, srd_del_idx_s, validateVars, appVars, left_space,
                   del_json, del_srds, srd_dir, envVars, ghostVars>>

-----------------------------------------------------------------------------
(* srd_decrease, for the main loop's turn. *)

\* Mutant: the deleted buffer is not dealt with first.
srd_decrease_undealt ==
    /\ At(main, "decrease")
    /\ g_running_srd_task' = arg[main]
    /\ \/ /\ upgrade_status # "NONE"
          /\ Go(main, "decreased")
          /\ UNCHANGED <<srd_hashs, srd_del_idx_s, srd_info>>
       \/ /\ upgrade_status = "NONE"
          /\ Go(main, "cut")
          /\ UNCHANGED <<srd_hashs, srd_del_idx_s, srd_info>>
    /\ UNCHANGED <<g_srd_task, validateVars, ed_srd_info, worker, arg,
                   left_space, del_json, del_srds, srd_dir, envVars, ghostVars>>

\* The ecall first drops what is in the deleted buffer, under srd_mutex.
srd_decrease ==
    /\ At(main, "decrease")
    /\ g_running_srd_task' = arg[main]
    /\ \/ /\ upgrade_status # "NONE"
          /\ Go(main, "decreased")
          /\ UNCHANGED <<srd_hashs, srd_del_idx_s, srd_info>>
       \/ /\ upgrade_status = "NONE"
          /\ Erase(srd_del_idx_s)
          /\ srd_del_idx_s' = {}
          /\ IF srd_del_idx_s = {} THEN Go(main, "cut")
                                   ELSE GoAndPublish(main, "cut")
    /\ UNCHANGED <<g_srd_task, validateVars, ed_srd_info, worker, arg,
                   left_space, del_json, del_srds, srd_dir, envVars, ghostVars>>

\* Still under srd_mutex: the last units are taken off the list.
srd_decrease_cut ==
    /\ At(main, "cut")
    /\ LET n == IF -arg[main] < Len(srd_hashs) THEN -arg[main] ELSE Len(srd_hashs)
           cut == (Len(srd_hashs) - n + 1)..Len(srd_hashs)
       IN  \/ /\ n = 0
              /\ Go(main, "decreased")
              /\ UNCHANGED <<srd_hashs, srd_info, del_srds, condemned>>
           \/ /\ n > 0
              /\ Erase(cut)
              /\ del_srds' = [del_srds EXCEPT ![main] = {srd_hashs[i] : i \in cut}]
              /\ condemned' = condemned \cup {srd_hashs[i] : i \in cut}
              /\ GoAndPublish(main, "erase")
    /\ UNCHANGED <<srd_del_idx_s, g_srd_task, validateVars, appVars, arg,
                   left_space, del_json, srd_dir, envVars, made, faults,
                   overtaken>>

\* With srd_mutex free again, their directories are deleted.
delete_folders(p, label) ==
    /\ At(p, "erase")
    /\ srd_dir' = srd_dir \ del_srds[p]
    /\ del_srds' = [del_srds EXCEPT ![p] = {}]
    /\ GoAndPublish(p, label)
    /\ UNCHANGED <<srdVars, validateVars, appVars, arg, left_space, del_json,
                   envVars, ghostVars>>

app_srd_decrease_end ==
    /\ At(main, "decreased")
    /\ g_running_srd_task' = 0
    /\ arg' = [arg EXCEPT ![main] = 0]
    /\ Go(main, "store")
    /\ UNCHANGED <<srdVars, validateVars, ed_srd_info, worker, left_space,
                   del_json, del_srds, srd_dir, envVars, ghostVars>>

-----------------------------------------------------------------------------
(* The end of srd_change in the enclave. *)

\* Too little space: the whole task is dropped.
srd_change_exceed ==
    /\ At(main, "exceed")
    /\ g_srd_task' = 0
    /\ Go(main, "store")
    /\ UNCHANGED <<srd_hashs, srd_del_idx_s, srd_info, validateVars, appVars,
                   arg, left_space, del_json, del_srds, srd_dir, envVars,
                   ghostVars>>

srd_change_store ==
    /\ At(main, "store")
    /\ srd_info' = [srd_info EXCEPT !.remaining = g_srd_task]
    /\ arg' = [arg EXCEPT ![main] = 0]
    /\ left_space' = FALSE
    /\ GoAndPublish(main, "idle")
    /\ UNCHANGED <<srd_hashs, srd_del_idx_s, g_srd_task, validateVars, appVars,
                   del_json, del_srds, srd_dir, envVars, ghostVars>>

-----------------------------------------------------------------------------
(* srd_check_reserved and srd_remove_space. *)

\* The app compares the free space of every disk with the reserve and asks
\* for as many units as it lacks, but no more than its own statistics show.
srd_check_reserved ==
    LET Lack(d) == IF Free(d) >= 0 THEN 0
                   ELSE IF -Free(d) < ed_srd_info.detail[d] THEN -Free(d)
                   ELSE ed_srd_info.detail[d]
    IN  /\ At(remover, "idle")
        /\ \E d \in Disk : Lack(d) > 0
        /\ del_json' = [d \in Disk |-> IF Lack(d) > 0 THEN Lack(d) ELSE 0]
        /\ Go(remover, "remove")
        /\ UNCHANGED <<srdVars, validateVars, appVars, arg, left_space,
                       del_srds, srd_dir, envVars, ghostVars>>

Held(d) == OnDisk(srd_hashs, 1..Len(srd_hashs), d)

\* The last n indexes of the units on disk d.
LastOn(d, n) == {i \in Held(d) : Cardinality({j \in Held(d) : j > i}) < n}

srd_remove_space_refused ==
    /\ At(remover, "remove")
    /\ upgrade_status # "NONE"
    /\ del_json' = NoneToDelete
    /\ Go(remover, "idle")
    /\ UNCHANGED <<srdVars, validateVars, appVars, arg, left_space, del_srds,
                   srd_dir, envVars, ghostVars>>

\* Under srd_mutex the list is scanned from its end and the indexes found are
\* buffered, whether they were before or not.
srd_remove_space ==
    /\ At(remover, "remove") /\ ~SrdLocked
    /\ upgrade_status = "NONE"
    /\ srd_hashs = <<>> \/ \A d \in Disk : del_json[d] <= Cardinality(Held(d))
    /\ LET found == UNION {LastOn(d, del_json[d]) : d \in Disk}
       IN  /\ srd_del_idx_s' = srd_del_idx_s \cup found
           /\ del_srds' = [del_srds EXCEPT ![remover] = {srd_hashs[i] : i \in found}]
           /\ condemned' = condemned \cup {srd_hashs[i] : i \in found}
    /\ del_json' = NoneToDelete
    /\ Go(remover, "erase")
    /\ UNCHANGED <<srd_hashs, g_srd_task, srd_info, validateVars, appVars, arg,
                   left_space, srd_dir, envVars, made, faults, overtaken>>

\* The statistics were too high.  The index is unsigned, so the scan does not
\* stop below the first unit: the enclave reads outside of the list and dies.
srd_remove_space_overrun ==
    /\ At(remover, "remove") /\ ~SrdLocked
    /\ upgrade_status = "NONE"
    /\ srd_hashs # <<>> /\ \E d \in Disk : del_json[d] > Cardinality(Held(d))
    /\ crashed' = TRUE
    /\ UNCHANGED <<srdVars, validateVars, appVars, threadVars, srd_dir,
                   upgrade_status, validated_proof, other_use, changes, ghostVars>>

-----------------------------------------------------------------------------
(* The client, and the rest of the world. *)

\* /srd/change: a request is cut to what the app's statistics allow.
TrueChange(c) ==
    LET run == g_running_srd_task
        avail == Cardinality(UNION {{d} \X (1..AvailForSrd(d)) : d \in Disk})
        room == (IF avail > run THEN avail - run ELSE 0) - ed_srd_info.remaining
        held == ed_srd_info.complete + ed_srd_info.remaining + run
    IN  IF c > 0 THEN (IF c < room THEN c ELSE room)
        ELSE IF -c < held THEN c ELSE -held

api_srd_change(c) ==
    /\ At(client, "idle")
    /\ changes < MaxChanges
    /\ (c > 0 /\ TrueChange(c) > 0) \/ (c < 0 /\ TrueChange(c) < 0)
    /\ changes' = changes + 1
    /\ arg' = [arg EXCEPT ![client] = TrueChange(c)]
    /\ Go(client, "size")
    /\ UNCHANGED <<srdVars, validateVars, appVars, left_space, del_json,
                   del_srds, srd_dir, upgrade_status, validated_proof,
                   other_use, crashed, ghostVars>>

\* A work report uses up the proof.
report_reset_validated_proof ==
    /\ validated_proof
    /\ validated_proof' = FALSE
    /\ UNCHANGED <<srdVars, validateVars, appVars, threadVars, srd_dir,
                   upgrade_status, other_use, crashed, changes, ghostVars>>

\* The files on a disk, and whatever else is there, grow and shrink.
use_disk(d) ==
    /\ Fault("space")
    /\ \E n \in {0, Capacity[d]} \ {other_use[d]} :
          other_use' = [other_use EXCEPT ![d] = n]
    /\ UNCHANGED <<srdVars, validateVars, appVars, threadVars, srd_dir,
                   upgrade_status, validated_proof, crashed, changes, made,
                   condemned, overtaken>>

set_upgrade_status ==
    /\ Fault("upgrade")
    /\ \E s \in Upgrades \ {upgrade_status} : upgrade_status' = s
    /\ UNCHANGED <<srdVars, validateVars, appVars, threadVars, srd_dir,
                   validated_proof, other_use, crashed, changes, made,
                   condemned, overtaken>>

-----------------------------------------------------------------------------
\* restore_srd counts the units of the metadata, disk by disk, and tells the
\* app.  Their directories are there.
Restored ==
    [NoInfo EXCEPT
        !.complete = Len(Already),
        !.detail = [d \in Disk |->
            Cardinality(OnDisk(Already, 1..Len(Already), d))]]

SrdInit ==
    /\ srd_hashs = Already
    /\ srd_del_idx_s = {}
    /\ g_srd_task = 0
    /\ srd_info = Restored
    /\ upgrade_status = "NONE"
    /\ validated_proof = FALSE
    /\ g_validate_srd_m = {} /\ g_validate_srd_m_iter = {}
    /\ g_validated_srd_num = 0
    /\ g_del_srd_v = {}
    /\ queued = 0
    /\ task = [c \in Checker |-> NoTask]
    /\ ed_srd_info = Restored
    /\ g_running_srd_task = 0
    /\ worker = [w \in Worker |-> [disk |-> 0, unit |-> <<>>, ok |-> FALSE]]
    /\ pc = [p \in Proc |-> "idle"]
    /\ pub = [p \in Proc |-> "no"]
    /\ dump = [p \in Proc |-> NoInfo]
    /\ arg = [p \in {main, client} |-> 0]
    /\ left_space = FALSE
    /\ del_json = NoneToDelete
    /\ del_srds = [p \in {main, remover} |-> {}]
    /\ srd_dir = Units(Already)
    /\ other_use = [d \in Disk |-> 0]
    /\ crashed = FALSE
    /\ changes = 0
    /\ made = Len(Already)
    /\ faults = [k \in FaultKind |-> 0]
    /\ condemned = {}
    /\ overtaken = FALSE

Validate ==
    \/ ecall_main_loop
    \/ validate_srd
    \/ validate_srd_queue
    \/ recall_failed
    \/ recall_failed_past_the_end
    \/ validate_srd_complete
    \/ validate_srd_timeout
    \/ deal_deleted_srd

Check(c) ==
    \/ validate_srd_real(c)
    \/ take_entry(c)
    \/ take_past_the_end(c)
    \/ read_unit(c)
    \/ look_at_random(c)
    \/ count_task(c)
    \/ push_unit(c)
    \/ add_srd_to_deleted_buffer(c)

Change ==
    \/ srd_change_skip
    \/ srd_change
    \/ app_srd_increase
    \/ app_srd_increase_end
    \/ srd_decrease
    \/ srd_decrease_cut
    \/ delete_folders(main, "decreased")
    \/ app_srd_decrease_end
    \/ srd_change_exceed
    \/ srd_change_store

Increase(w) ==
    \/ srd_increase(w)
    \/ srd_increase_leak(w)
    \/ srd_increase_add(w)
    \/ srd_increase_count(w)
    \/ decrease_running_srd_task(w)

change_srd_task(p) ==
    \/ change_srd_task_refused(p)
    \/ change_srd_task_less(p)
    \/ change_srd_task_size(p)
    \/ change_srd_task_limit(p)
    \/ change_srd_task_add(p)

RemoveSpace ==
    \/ srd_check_reserved
    \/ srd_remove_space_refused
    \/ srd_remove_space
    \/ srd_remove_space_overrun
    \/ delete_folders(remover, "idle")

Environment ==
    \/ \E c \in Changes : api_srd_change(c)
    \/ report_reset_validated_proof
    \/ \E d \in Disk : use_disk(d)
    \/ set_upgrade_status

SrdNext ==
    /\ ~crashed
    /\ \/ Validate
       \/ \E c \in Checker : Check(c)
       \/ Change
       \/ \E w \in Worker : Increase(w)
       \/ \E p \in {main, client} : change_srd_task(p)
       \/ RemoveSpace
       \/ \E p \in Proc : get_srd_info(p) \/ ocall_set_srd_info(p)
       \/ Environment

SrdSpec == SrdInit /\ [][SrdNext]_allVars

-----------------------------------------------------------------------------
(* Properties *)

\* Types: validate_srd looks only at indexes that srd_hashs still has, and finds
\* there the unit it drew; no more tasks run than SRD_MAX_INC_PER_TURN.
SrdTypeOK ==
    /\ srd_hashs \in Seq(Unit)
    /\ srd_del_idx_s \subseteq Nat \ {0}
    /\ g_srd_task \in Int
    /\ srd_info \in Info /\ ed_srd_info \in Info
    /\ g_validate_srd_m_iter \subseteq g_validate_srd_m
    /\ \A t \in g_validate_srd_m : t.idx \in 1..Len(srd_hashs) /\ t.unit = srd_hashs[t.idx]
    /\ g_running_srd_task \in Int
    /\ g_running_srd_task <= SRD_MAX_INC_PER_TURN
    /\ srd_dir \subseteq Unit
    /\ other_use \in [Disk -> Nat]

\* An index in the deleted buffer is that of a unit that was found bad or
\* removed on purpose, although the list grows, is cut and is compacted
\* meanwhile.  Excepted is what follows a task that buffers an index or hands
\* in a verdict after the end of its round, which timed out or had counted the
\* task before it was done: its index may name an intact unit by then.
BufferedIsCondemned ==
    ~overtaken =>
        \A i \in srd_del_idx_s : i <= Len(srd_hashs) /\ srd_hashs[i] \in condemned

\* A unit the next work report would count is on its disk, unless it leaves
\* the list with the next cleaning or a failed check of it is under way.
HeldIsThere ==
    ~overtaken =>
        \A i \in 1..Len(srd_hashs) :
            \/ srd_hashs[i] \in srd_dir
            \/ i \in srd_del_idx_s
            \/ \E c \in Checker : TaskAt(c, "add") /\ task[c].unit = srd_hashs[i]

\* The statistics count the list, up to the units pushed and not counted yet:
\* the total never meets the floor that would falsify it for good.
InfoExact ==
    LET Uncounted == {w \in Worker : pc[w] = "count"}
    IN  /\ srd_info.complete = Len(srd_hashs) - Cardinality(Uncounted)
        /\ \A d \in Disk : srd_info.detail[d] =
              Cardinality(Held(d)) - Cardinality({w \in Uncounted : worker[w].disk = d})

\* Only invalid srd is deleted from the metadata, or what was to be removed.
OnlyInvalidIsDropped ==
    [][Units(srd_hashs) \ Units(srd_hashs') \subseteq condemned']_allVars

=============================================================================
