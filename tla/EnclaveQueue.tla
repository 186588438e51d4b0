---------------------------- MODULE EnclaveQueue ----------------------------
(***************************************************************************)
(* The app's gate to the enclave.  Every ecall is wrapped in               *)
(* try_get_enclave and free_enclave: a caller announces itself as waiting, *)
(* polls until it may enter, and is counted in and out.  The three tables  *)
(* (waiting tasks, running number, running ecalls) have a mutex each, so   *)
(* an admission is several critical sections; each is an action here.      *)
(***************************************************************************)
EXTENDS Integers, FiniteSets, FiniteSetsExt

CONSTANTS
    Caller,                     \* the app's threads
    Task,                       \* the names of the ecalls
    task_priority_um,           \* [Task -> Nat], 0 is the highest
    block_tasks_um,             \* [Task -> SUBSET Task]
    low_ignore_high_um,         \* [Task -> SUBSET Task]
    ENC_MAX_THREAD_NUM,
    ENC_RESERVED_THREAD_NUM,
    ENC_PERMANENT_TASK_NUM,
    ENC_PRIO_TIMEOUT_THRESHOLD,
    ENC_TASK_TIMEOUT

ASSUME EnclaveQueueAssumption ==
    /\ IsFiniteSet(Caller)
    /\ Task # {}
    /\ task_priority_um \in [Task -> Nat]
    /\ block_tasks_um \in [Task -> SUBSET Task]
    /\ low_ignore_high_um \in [Task -> SUBSET Task]
    /\ ENC_MAX_THREAD_NUM \in Nat
    /\ ENC_RESERVED_THREAD_NUM \in 0..ENC_MAX_THREAD_NUM
    /\ ENC_PERMANENT_TASK_NUM \in Nat
    /\ ENC_PRIO_TIMEOUT_THRESHOLD \in Nat
    /\ ENC_TASK_TIMEOUT \in Nat \ {0}

VARIABLES
    caller,              \* program counter and locals of each caller
    waiting_task_um,     \* number of waiting callers per task
    running_task_num,    \* number of callers admitted
    running_ecalls_um    \* number of running ecalls per task

queueVars == <<caller, waiting_task_um, running_task_num, running_ecalls_um>>

-----------------------------------------------------------------------------

\* Announced and polling; admitted; counted among the running ecalls.
PollPc == {"block", "admit", "loop"}
InPc == {"count", "leave", "run"}
CountedPc == {"leave", "run", "uncount"}
Pc == {"idle", "timeout", "uncount"} \cup PollPc \cup InPc

\* A caller's locals: its ecall, the block tasks it has still to look at in
\* this turn, and its failed turns.
CallerState == [pc : Pc, task : Task, rest : SUBSET Task, timeout : Nat]

Prio(n) == task_priority_um[n]
TaskOf(p) == caller[p].task
At(p, pc) == caller[p].pc = pc
Goto(p, pc) == caller' = [caller EXCEPT ![p].pc = pc]

\* Mutant: the failed turns are counted from below zero.
TurnEarly(p, n, k) ==
    caller' = [caller EXCEPT ![p] =
                  [pc |-> "block", task |-> n, rest |-> block_tasks_um[n],
                   timeout |-> k - 1]]

\* A turn starts with the block tasks, in any order.
Turn(p, n, k) ==
    caller' = [caller EXCEPT ![p] =
                  [pc |-> "block", task |-> n, rest |-> block_tasks_um[n],
                   timeout |-> k]]

\* The waiting tasks of a higher priority that n does not ignore.
Higher(n) == {m \in Task : Prio(m) < Prio(n) /\ m \notin low_ignore_high_um[n]}

get_higher_prio_waiting_task_num(n) ==
    MapThenSumSet(LAMBDA m : waiting_task_um[m], Higher(n))

-----------------------------------------------------------------------------
(* try_get_enclave *)

increase_waiting_queue(p, n) ==
    /\ At(p, "idle")
    /\ waiting_task_um' = [waiting_task_um EXCEPT ![n] = @ + 1]
    /\ Turn(p, n, 0)
    /\ UNCHANGED <<running_task_num, running_ecalls_um>>

\* One block task is looked at, under the mutex of the running ecalls.
check_block_task(p) ==
    /\ At(p, "block")
    /\ \/ \E m \in caller[p].rest :
            IF running_ecalls_um[m] > 0
            THEN Goto(p, "loop")
            ELSE caller' = [caller EXCEPT ![p].rest = @ \ {m}]
       \/ /\ caller[p].rest = {}
          /\ Goto(p, "admit")
    /\ UNCHANGED <<waiting_task_um, running_task_num, running_ecalls_um>>

\* Mutant: only low tasks count against the reserve.
RefusedByLow(n) ==
    \/ running_task_num >= ENC_MAX_THREAD_NUM
    \/ /\ Prio(n) > 0
       /\ ENC_MAX_THREAD_NUM
            - Cardinality({p \in Caller : caller[p].pc \in InPc /\ Prio(TaskOf(p)) > 0})
               <= ENC_RESERVED_THREAD_NUM
    \/ get_higher_prio_waiting_task_num(n) - ENC_PERMANENT_TASK_NUM > 0

\* The three conditions under which a task must wait.
Refused(n) ==
    \/ running_task_num >= ENC_MAX_THREAD_NUM
    \/ /\ Prio(n) > 0
       /\ ENC_MAX_THREAD_NUM - running_task_num <= ENC_RESERVED_THREAD_NUM
    \/ get_higher_prio_waiting_task_num(n) - ENC_PERMANENT_TASK_NUM > 0

\* Under running_task_num_mutex.
admit(p) ==
    /\ At(p, "admit")
    /\ IF Refused(TaskOf(p))
       THEN Goto(p, "loop") /\ UNCHANGED running_task_num
       ELSE Goto(p, "count") /\ running_task_num' = running_task_num + 1
    /\ UNCHANGED <<waiting_task_um, running_ecalls_um>>

increase_running_queue(p) ==
    /\ At(p, "count")
    /\ running_ecalls_um' = [running_ecalls_um EXCEPT ![TaskOf(p)] = @ + 1]
    /\ Goto(p, "leave")
    /\ UNCHANGED <<waiting_task_um, running_task_num>>

\* Mutant: every turn starts with a fresh timeout.
loop_forever(p) ==
    /\ At(p, "loop")
    /\ Turn(p, TaskOf(p), 0)
    /\ UNCHANGED <<waiting_task_um, running_task_num, running_ecalls_um>>

\* A failed turn: a task of low priority gives up after ENC_TASK_TIMEOUT.
loop(p) ==
    /\ At(p, "loop")
    /\ LET k == IF Prio(TaskOf(p)) > ENC_PRIO_TIMEOUT_THRESHOLD
                THEN caller[p].timeout + 1 ELSE 0
       IN  IF k >= ENC_TASK_TIMEOUT THEN Goto(p, "timeout")
                                    ELSE Turn(p, TaskOf(p), k)
    /\ UNCHANGED <<waiting_task_um, running_task_num, running_ecalls_um>>

\* The caller stops waiting: it was admitted or has given up.
decrease_waiting_queue(p) ==
    /\ At(p, "leave") \/ At(p, "timeout")
    /\ waiting_task_um' = [waiting_task_um EXCEPT
                              ![TaskOf(p)] = IF @ = 0 THEN 0 ELSE @ - 1]
    /\ Goto(p, IF At(p, "leave") THEN "run" ELSE "idle")
    /\ UNCHANGED <<running_task_num, running_ecalls_um>>

-----------------------------------------------------------------------------
(* free_enclave, after the ecall has returned. *)

free_enclave(p) ==
    /\ At(p, "run")
    /\ running_task_num' = running_task_num - 1
    /\ Goto(p, "uncount")
    /\ UNCHANGED <<waiting_task_um, running_ecalls_um>>

\* Mutant: the last running ecall of a task is not uncounted.
decrease_running_kept(p) ==
    /\ At(p, "uncount")
    /\ running_ecalls_um' = [running_ecalls_um EXCEPT
                                ![TaskOf(p)] = IF @ <= 1 THEN @ ELSE @ - 1]
    /\ Goto(p, "idle")
    /\ UNCHANGED <<waiting_task_um, running_task_num>>

decrease_running_queue(p) ==
    /\ At(p, "uncount")
    /\ running_ecalls_um' = [running_ecalls_um EXCEPT
                                ![TaskOf(p)] = IF @ = 0 THEN 0 ELSE @ - 1]
    /\ Goto(p, "idle")
    /\ UNCHANGED <<waiting_task_um, running_task_num>>

-----------------------------------------------------------------------------

QueueInit ==
    /\ caller = [p \in Caller |-> [pc |-> "idle", task |-> CHOOSE n \in Task : TRUE,
                                   rest |-> {}, timeout |-> 0]]
    /\ waiting_task_um = [n \in Task |-> 0]
    /\ running_task_num = 0
    /\ running_ecalls_um = [n \in Task |-> 0]

try_get_enclave(p) ==
    \/ check_block_task(p)
    \/ admit(p)
    \/ increase_running_queue(p)
    \/ loop(p)
    \/ decrease_waiting_queue(p)

Release(p) == free_enclave(p) \/ decrease_running_queue(p)

QueueNext ==
    \E p \in Caller :
        \/ \E n \in Task : increase_waiting_queue(p, n)
        \/ try_get_enclave(p)
        \/ Release(p)

QueueSpec == QueueInit /\ [][QueueNext]_queueVars

\* A caller that polls goes on polling.  Nothing is assumed of the ecalls:
\* the main loop never returns.
FairQueueSpec ==
    QueueSpec /\ \A p \in Caller : WF_queueVars(try_get_enclave(p))

-----------------------------------------------------------------------------
(* Properties *)

\* Types: the counters EnclaveQueue keeps per kind of ecall never fall below
\* zero, although they are decreased in other critical sections than increased.
QueueTypeOK ==
    /\ caller \in [Caller -> CallerState]
    /\ waiting_task_um \in [Task -> Nat]
    /\ running_task_num \in Int
    /\ running_ecalls_um \in [Task -> Nat]

Inside == {p \in Caller : caller[p].pc \in InPc}
LowInside == {p \in Inside : Prio(TaskOf(p)) > 0}

\* The enclave has ENC_MAX_THREAD_NUM thread slots; a caller that enters
\* without a slot fails.  However admissions and releases interleave, no more
\* callers are inside than there are slots.
WithinCapacity == Cardinality(Inside) <= ENC_MAX_THREAD_NUM

\* The reserved slots are never taken by tasks below the highest priority.
ReservedIsFree ==
    Cardinality(LowInside) <= ENC_MAX_THREAD_NUM - ENC_RESERVED_THREAD_NUM

HighInside == Inside \ LowInside

Gate == INSTANCE Slots WITH
            SlotNum <- ENC_MAX_THREAD_NUM, ReservedNum <- ENC_RESERVED_THREAD_NUM,
            high <- HighInside, low <- LowInside

\* The three tables and their mutexes implement the pool of slots: a caller
\* enters and leaves in one step, and each entry finds a slot that is free for
\* its priority at that very step, whoever else is between two tables.
ImplementsSlots == Gate!SlotsSpec

Counted(n) == {p \in Caller : TaskOf(p) = n /\ caller[p].pc \in CountedPc}

\* The counters of running ecalls count the callers between the two updates,
\* so no decrement is lost and none is left over when all have returned.
CountsAgree == \A n \in Task : running_ecalls_um[n] = Cardinality(Counted(n))

\* A task below the timeout threshold does not wait for ever: it enters or
\* gives up, even if no ecall inside ever returns.
LowTasksLeave ==
    \A p \in Caller :
        (caller[p].pc \in PollPc /\ Prio(TaskOf(p)) > ENC_PRIO_TIMEOUT_THRESHOLD)
            ~> caller[p].pc \notin PollPc

=============================================================================
