------------------------- MODULE EnclaveQueueProofs -------------------------
(***************************************************************************)
(* EnclaveQueue proved for any number of callers, tasks and slots.  An     *)
(* admission reads and increments running_task_num in one critical         *)
(* section, so the counter is the number of callers inside; the bound on   *)
(* the counter is then a bound on the callers.                             *)
(***************************************************************************)
EXTENDS EnclaveQueue, FiniteSetTheorems, TLAPS

\* The counter the admission tests is the number of callers inside.
RunningIsInside == running_task_num = Cardinality(Inside)

QueueInv ==
    /\ QueueTypeOK
    /\ RunningIsInside
    /\ WithinCapacity
    /\ ReservedIsFree
    /\ CountsAgree

\* Which callers are inside, and which are counted, are finite sets.
LEMMA FiniteSides ==
    /\ IsFiniteSet(Inside) /\ IsFiniteSet(LowInside)
    /\ \A n \in Task : IsFiniteSet(Counted(n))
    /\ Cardinality(Inside) \in Nat /\ Cardinality(LowInside) \in Nat
    /\ \A n \in Task : Cardinality(Counted(n)) \in Nat
PROOF
<1>1. /\ Inside \subseteq Caller /\ LowInside \subseteq Caller
      /\ \A n \in Task : Counted(n) \subseteq Caller
  BY DEF Inside, LowInside, Counted
<1>2. \A S \in SUBSET Caller : IsFiniteSet(S)
  BY FS_Subset, EnclaveQueueAssumption
<1> QED
  BY <1>1, <1>2, FS_CardinalityType

\* A finite set with one member less.
LEMMA OneLess ==
    ASSUME NEW S, NEW q, IsFiniteSet(S)
    PROVE  /\ Cardinality(S \ {q}) \in Nat
           /\ Cardinality(S \ {q}) <= Cardinality(S)
           /\ q \in S => /\ Cardinality(S \ {q}) = Cardinality(S) - 1
                        /\ Cardinality(S) # 0
PROOF
<1>1. Cardinality(S) \in Nat
  BY FS_CardinalityType
<1>2. IsFiniteSet(S \ {q}) /\ Cardinality(S \ {q}) \in Nat
  BY FS_RemoveElement, FS_CardinalityType
<1>3. Cardinality(S \ {q}) = IF q \in S THEN Cardinality(S) - 1 ELSE Cardinality(S)
  BY FS_RemoveElement
<1> QED
  BY <1>1, <1>2, <1>3

\* Nobody is inside at the start.
LEMMA QueueInitInv == QueueInit => QueueInv
PROOF
<1> SUFFICES ASSUME QueueInit PROVE QueueInv
  OBVIOUS
<1>1. QueueTypeOK
  BY EnclaveQueueAssumption
  DEF QueueInit, QueueTypeOK, CallerState, Pc, PollPc, InPc
<1>2. Inside = {} /\ LowInside = {} /\ \A n \in Task : Counted(n) = {}
  BY DEF QueueInit, Inside, LowInside, Counted, InPc, CountedPc
<1>3. Cardinality({}) = 0
  BY FS_EmptySet
<1>4. RunningIsInside /\ WithinCapacity /\ ReservedIsFree
  BY <1>2, <1>3, EnclaveQueueAssumption
  DEF QueueInit, RunningIsInside, WithinCapacity, ReservedIsFree
<1>5. CountsAgree
  BY <1>2, <1>3 DEF QueueInit, CountsAgree
<1> QED
  BY <1>1, <1>4, <1>5 DEF QueueInv

\* Every step keeps the types.
LEMMA QueueTypeStep ==
    ASSUME QueueTypeOK, [QueueNext]_queueVars
    PROVE  QueueTypeOK'
PROOF
<1> USE EnclaveQueueAssumption
<1>0. CASE UNCHANGED queueVars
  BY <1>0 DEF QueueTypeOK, queueVars
<1> SUFFICES ASSUME NEW p \in Caller,
                    \/ \E n \in Task : increase_waiting_queue(p, n)
                    \/ try_get_enclave(p)
                    \/ Release(p)
             PROVE  QueueTypeOK'
  BY <1>0 DEF QueueNext
<1>c. caller[p] \in CallerState
  BY DEF QueueTypeOK
<1>1. ASSUME NEW n \in Task, increase_waiting_queue(p, n) PROVE QueueTypeOK'
  BY <1>1, <1>c DEF increase_waiting_queue, Turn, QueueTypeOK, CallerState, Pc, PollPc
<1>2. CASE check_block_task(p)
  BY <1>2, <1>c DEF check_block_task, Goto, QueueTypeOK, CallerState, Pc, PollPc
<1>3. CASE admit(p)
  BY <1>3, <1>c DEF admit, Goto, QueueTypeOK, CallerState, Pc, PollPc, InPc
<1>4. CASE increase_running_queue(p)
  BY <1>4, <1>c DEF increase_running_queue, Goto, QueueTypeOK, CallerState, Pc,
                    InPc, TaskOf
<1>5. CASE loop(p)
  <2>1. caller[p].timeout \in Nat /\ TaskOf(p) \in Task
    BY <1>c DEF CallerState, TaskOf
  <2>2. PICK k \in Nat : Goto(p, "timeout") \/ Turn(p, TaskOf(p), k)
    BY <1>5, <2>1 DEF loop
  <2> QED
    BY <1>5, <1>c, <2>1, <2>2
    DEF loop, Goto, Turn, QueueTypeOK, CallerState, Pc, PollPc
<1>6. CASE decrease_waiting_queue(p)
  <2>1. caller' \in [Caller -> CallerState]
    <3>1. CASE At(p, "leave")
      BY <1>6, <1>c, <3>1
      DEF decrease_waiting_queue, Goto, QueueTypeOK, CallerState, Pc, InPc
    <3>2. CASE ~At(p, "leave")
      BY <1>6, <1>c, <3>2
      DEF decrease_waiting_queue, Goto, QueueTypeOK, CallerState, Pc
    <3> QED
      BY <3>1, <3>2
  <2>2. waiting_task_um' \in [Task -> Nat]
    BY <1>6, <1>c DEF decrease_waiting_queue, QueueTypeOK, CallerState, TaskOf
  <2> QED
    BY <1>6, <2>1, <2>2 DEF decrease_waiting_queue, QueueTypeOK
<1>7. CASE free_enclave(p)
  <2>1. caller' = [caller EXCEPT ![p].pc = "uncount"] /\ running_task_num' = running_task_num - 1
    BY <1>7 DEF free_enclave, Goto
  <2>2. caller' \in [Caller -> CallerState]
    BY <2>1, <1>c DEF QueueTypeOK, CallerState, Pc
  <2> QED
    BY <1>7, <2>1, <2>2 DEF free_enclave, QueueTypeOK
<1>8. CASE decrease_running_queue(p)
  <2>1. caller' \in [Caller -> CallerState]
    <3>1. caller' = [caller EXCEPT ![p].pc = "idle"]
      BY <1>8 DEF decrease_running_queue, Goto
    <3> QED
      BY <3>1, <1>c DEF QueueTypeOK, CallerState, Pc
  <2>2. running_ecalls_um' \in [Task -> Nat]
    BY <1>8, <1>c DEF decrease_running_queue, QueueTypeOK, CallerState, TaskOf
  <2> QED
    BY <1>8, <2>1, <2>2 DEF decrease_running_queue, QueueTypeOK
<1> QED
  BY <1>1, <1>2, <1>3, <1>4, <1>5, <1>6, <1>7, <1>8 DEF try_get_enclave, Release

\* A step of one caller that neither enters nor leaves keeps both sets.
LEMMA InsideFrame ==
    ASSUME NEW p \in Caller,
           \A q \in Caller \ {p} : caller'[q] = caller[q],
           caller'[p].pc \in InPc <=> caller[p].pc \in InPc,
           caller[p].pc \in InPc => caller'[p].task = caller[p].task
    PROVE  Inside' = Inside /\ LowInside' = LowInside
PROOF
<1>1. Inside' = Inside
  BY DEF Inside
<1> QED
  BY <1>1 DEF Inside, LowInside, TaskOf, Prio

\* The same for the callers counted as running.
LEMMA CountedFrame ==
    ASSUME NEW p \in Caller, CountsAgree,
           \A q \in Caller \ {p} : caller'[q] = caller[q],
           caller'[p].pc \in CountedPc <=> caller[p].pc \in CountedPc,
           caller[p].pc \in CountedPc => caller'[p].task = caller[p].task,
           UNCHANGED running_ecalls_um
    PROVE  CountsAgree'
PROOF
<1>1. \A n \in Task : Counted(n)' = Counted(n)
  BY DEF Counted, TaskOf
<1> QED
  BY <1>1 DEF CountsAgree

\* Every step keeps the invariant.
LEMMA QueueStep ==
    ASSUME QueueInv, [QueueNext]_queueVars
    PROVE  QueueInv'
PROOF
<1> USE EnclaveQueueAssumption
<1>t. QueueTypeOK /\ QueueTypeOK'
  BY QueueTypeStep DEF QueueInv
<1>0. CASE UNCHANGED queueVars
  <2>1. Inside' = Inside /\ LowInside' = LowInside /\ \A n \in Task : Counted(n)' = Counted(n)
    BY <1>0 DEF queueVars, Inside, LowInside, Counted, TaskOf, Prio
  <2> QED
    BY <1>0, <1>t, <2>1
    DEF QueueInv, queueVars, RunningIsInside, WithinCapacity, ReservedIsFree, CountsAgree
<1> SUFFICES ASSUME NEW p \in Caller,
                    \/ \E n \in Task : increase_waiting_queue(p, n)
                    \/ try_get_enclave(p)
                    \/ Release(p)
             PROVE  QueueInv'
  BY <1>0 DEF QueueNext
<1>c. caller \in [Caller -> CallerState] /\ caller[p].task \in Task /\ running_task_num \in Int
  BY <1>t DEF QueueTypeOK, CallerState
\* A step that leaves the counters alone and moves p among labels of the same kind.
<1>s. ASSUME \A q \in Caller \ {p} : caller'[q] = caller[q],
             caller'[p].pc \in InPc <=> caller[p].pc \in InPc,
             caller'[p].pc \in CountedPc <=> caller[p].pc \in CountedPc,
             caller[p].pc \in InPc \cup CountedPc => caller'[p].task = caller[p].task,
             UNCHANGED <<running_task_num, running_ecalls_um>>
      PROVE  QueueInv'
  <2>1. Inside' = Inside /\ LowInside' = LowInside
    BY <1>s, InsideFrame
  <2>2. CountsAgree'
    BY <1>s, CountedFrame DEF QueueInv
  <2> QED
    BY <1>s, <1>t, <2>1, <2>2
    DEF QueueInv, RunningIsInside, WithinCapacity, ReservedIsFree
<1>1. ASSUME NEW n \in Task, increase_waiting_queue(p, n) PROVE QueueInv'
  BY <1>1, <1>c, <1>s DEF increase_waiting_queue, Turn, At, InPc, CountedPc
<1>2. CASE check_block_task(p)
  <2>1. \/ caller' = [caller EXCEPT ![p].pc = "loop"]
        \/ caller' = [caller EXCEPT ![p].pc = "admit"]
        \/ \E m : caller' = [caller EXCEPT ![p].rest = @ \ {m}]
    BY <1>2 DEF check_block_task, Goto
  <2>2. /\ \A q \in Caller \ {p} : caller'[q] = caller[q]
        /\ caller'[p].pc \notin InPc \cup CountedPc
    BY <1>2, <1>c, <2>1 DEF check_block_task, At, InPc, CountedPc, CallerState
  <2> QED
    BY <1>2, <2>2, <1>s DEF check_block_task, At, InPc, CountedPc
<1>3. CASE admit(p) /\ Refused(TaskOf(p))
  <2>1. caller' = [caller EXCEPT ![p].pc = "loop"] /\ caller[p].pc = "admit"
    BY <1>3 DEF admit, Goto, At
  <2> QED
    BY <1>3, <1>c, <2>1, <1>s DEF admit, InPc, CountedPc
<1>4. CASE admit(p) /\ ~Refused(TaskOf(p))
  <2>1. /\ caller' = [caller EXCEPT ![p].pc = "count"]
        /\ running_task_num' = running_task_num + 1
        /\ caller[p].pc = "admit" /\ UNCHANGED running_ecalls_um
    BY <1>4 DEF admit, Goto, At
  <2>2. /\ running_task_num < ENC_MAX_THREAD_NUM
        /\ Prio(TaskOf(p)) > 0 => running_task_num + 1 <= ENC_MAX_THREAD_NUM - ENC_RESERVED_THREAD_NUM
    BY <1>4, <1>c DEF Refused, TaskOf, Prio
  <2>3. Inside' = Inside \cup {p} /\ p \notin Inside
    BY <2>1, <1>c DEF Inside, InPc
  <2>4. Cardinality(Inside') = running_task_num + 1
    BY <2>3, FiniteSides, FS_AddElement DEF QueueInv, RunningIsInside
  <2>5. RunningIsInside' /\ WithinCapacity'
    BY <2>1, <2>2, <2>4, <1>c DEF RunningIsInside, WithinCapacity
  <2>6. ReservedIsFree'
    <3>1. CASE Prio(TaskOf(p)) > 0
      <4>1. LowInside' \subseteq Inside'
        BY DEF LowInside
      <4>2. IsFiniteSet(Inside')
        BY <2>3, FiniteSides, FS_AddElement
      <4>3. Cardinality(LowInside') <= Cardinality(Inside') /\ IsFiniteSet(LowInside')
        BY <4>1, <4>2, FS_Subset
      <4>4. Cardinality(LowInside') \in Nat
        BY <4>3, FS_CardinalityType
      <4> QED
        BY <3>1, <2>2, <2>4, <4>3, <4>4, <1>c DEF ReservedIsFree
    <3>2. CASE ~(Prio(TaskOf(p)) > 0)
      <4>1. LowInside' = LowInside
        BY <3>2, <2>1, <1>c DEF LowInside, Inside, InPc, TaskOf, Prio
      <4> QED
        BY <4>1 DEF QueueInv, ReservedIsFree
    <3> QED
      BY <3>1, <3>2
  <2>7. CountsAgree'
    BY <2>1, <1>c, CountedFrame DEF QueueInv, CountedPc
  <2> QED
    BY <1>t, <2>5, <2>6, <2>7 DEF QueueInv
<1>5. CASE increase_running_queue(p)
  <2>1. Inside' = Inside /\ LowInside' = LowInside
    BY <1>5, <1>c, InsideFrame DEF increase_running_queue, Goto, At, InPc
  <2> PICK n \in Task : n = caller[p].task
    BY <1>c
  <2>2. Counted(n)' = Counted(n) \cup {p} /\ p \notin Counted(n)
    BY <1>5, <1>c DEF increase_running_queue, Goto, At, Counted, CountedPc, TaskOf
  <2>3. \A m \in Task \ {n} : Counted(m)' = Counted(m)
    BY <1>5, <1>c DEF increase_running_queue, Goto, At, Counted, CountedPc, TaskOf
  <2>4. Cardinality(Counted(n)') = Cardinality(Counted(n)) + 1
    BY <2>2, FiniteSides, FS_AddElement
  <2>5. running_ecalls_um' = [running_ecalls_um EXCEPT ![n] = @ + 1]
    BY <1>5 DEF increase_running_queue, TaskOf
  <2>6. CountsAgree'
    BY <1>t, <2>3, <2>4, <2>5 DEF QueueInv, CountsAgree, QueueTypeOK
  <2> QED
    BY <1>5, <1>t, <2>1, <2>6
    DEF increase_running_queue, QueueInv, RunningIsInside, WithinCapacity, ReservedIsFree
<1>6. CASE loop(p)
  <2>1. PICK k : Goto(p, "timeout") \/ Turn(p, TaskOf(p), k)
    BY <1>6 DEF loop
  <2>2. /\ \A q \in Caller \ {p} : caller'[q] = caller[q]
        /\ caller'[p].pc \notin InPc \cup CountedPc
    <3>1. CASE Goto(p, "timeout")
      BY <1>c, <3>1 DEF Goto, InPc, CountedPc, CallerState
    <3>2. CASE Turn(p, TaskOf(p), k)
      BY <1>c, <3>2 DEF Turn, InPc, CountedPc
    <3> QED
      BY <2>1, <3>1, <3>2
  <2> QED
    BY <1>6, <2>2, <1>s DEF loop, At, InPc, CountedPc
<1>7. CASE decrease_waiting_queue(p)
  BY <1>7, <1>c, <1>s DEF decrease_waiting_queue, Goto, At, InPc, CountedPc
<1>8. CASE free_enclave(p)
  <2>1. /\ Inside' = Inside \ {p} /\ p \in Inside
        /\ LowInside' = LowInside \ {p}
    BY <1>8, <1>c DEF free_enclave, Goto, At, Inside, LowInside, InPc, TaskOf, Prio
  <2>2. /\ Cardinality(Inside') = Cardinality(Inside) - 1
        /\ Cardinality(LowInside') <= Cardinality(LowInside)
        /\ Cardinality(LowInside') \in Int
    <3>1. /\ Cardinality(Inside \ {p}) = Cardinality(Inside) - 1
          /\ Cardinality(LowInside \ {p}) <= Cardinality(LowInside)
          /\ Cardinality(LowInside \ {p}) \in Nat
      BY <2>1, FiniteSides, OneLess
    <3> QED
      BY <2>1, <3>1
  <2>3. CountsAgree'
    BY <1>8, <1>c, CountedFrame DEF QueueInv, free_enclave, Goto, At, CountedPc
  <2>4. RunningIsInside' /\ WithinCapacity' /\ ReservedIsFree'
    BY <1>8, <2>2, FiniteSides
    DEF free_enclave, QueueInv, RunningIsInside, WithinCapacity, ReservedIsFree
  <2> QED
    BY <1>t, <2>3, <2>4 DEF QueueInv
<1>9. CASE decrease_running_queue(p)
  <2>1. Inside' = Inside /\ LowInside' = LowInside
    BY <1>9, <1>c, InsideFrame DEF decrease_running_queue, Goto, At, InPc
  <2> PICK n \in Task : n = caller[p].task
    BY <1>c
  <2>2. Counted(n)' = Counted(n) \ {p} /\ p \in Counted(n)
    BY <1>9, <1>c DEF decrease_running_queue, Goto, At, Counted, CountedPc, TaskOf
  <2>3. \A m \in Task \ {n} : Counted(m)' = Counted(m)
    BY <1>9, <1>c DEF decrease_running_queue, Goto, At, Counted, CountedPc, TaskOf
  <2>4. /\ Cardinality(Counted(n)') = Cardinality(Counted(n)) - 1
        /\ Cardinality(Counted(n)) # 0
    BY <2>2, FiniteSides, OneLess
  <2>5. running_ecalls_um' = [running_ecalls_um EXCEPT ![n] = IF @ = 0 THEN 0 ELSE @ - 1]
    BY <1>9 DEF decrease_running_queue, TaskOf
  <2>6. CountsAgree'
    BY <1>t, <2>3, <2>4, <2>5 DEF QueueInv, CountsAgree, QueueTypeOK
  <2> QED
    BY <1>9, <1>t, <2>1, <2>6
    DEF decrease_running_queue, QueueInv, RunningIsInside, WithinCapacity, ReservedIsFree
<1> QED
  BY <1>1, <1>2, <1>3, <1>4, <1>5, <1>6, <1>7, <1>8, <1>9
  DEF try_get_enclave, Release

\* The gate's invariant holds in every reachable state.
THEOREM QueueInvariant == QueueSpec => []QueueInv
PROOF
<1> QED
  BY QueueInitInv, QueueStep, PTL DEF QueueSpec

\* The counters of EnclaveQueue keep their types: those kept per kind of ecall,
\* decreased once for every increase, never fall below zero.
THEOREM QueueTypes == QueueSpec => []QueueTypeOK
PROOF
<1>1. QueueInv => QueueTypeOK
  BY DEF QueueInv
<1> QED
  BY <1>1, QueueInvariant, PTL

\* try_get_enclave never lets more callers in than the enclave has threads.
THEOREM CapacityHolds == QueueSpec => []WithinCapacity
PROOF
<1>1. QueueInv => WithinCapacity
  BY DEF QueueInv
<1> QED
  BY <1>1, QueueInvariant, PTL

\* The reserved threads are left to tasks of the highest priority.
THEOREM ReserveHolds == QueueSpec => []ReservedIsFree
PROOF
<1>1. QueueInv => ReservedIsFree
  BY DEF QueueInv
<1> QED
  BY <1>1, QueueInvariant, PTL

\* The counters of running ecalls, which the upgrade and the block tasks read,
\* are exact.
THEOREM CountsStayExact == QueueSpec => []CountsAgree
PROOF
<1>1. QueueInv => CountsAgree
  BY DEF QueueInv
<1> QED
  BY <1>1, QueueInvariant, PTL

\* A step that neither lets a caller in nor out is invisible from outside.
LEMMA GateStutter ==
    ASSUME NEW p \in Caller,
           \A q \in Caller \ {p} : caller'[q] = caller[q],
           caller'[p].pc \in InPc <=> caller[p].pc \in InPc,
           caller[p].pc \in InPc => caller'[p].task = caller[p].task
    PROVE  UNCHANGED Gate!slotVars
PROOF
<1>1. Inside' = Inside /\ LowInside' = LowInside
  BY InsideFrame
<1> QED
  BY <1>1 DEF Gate!slotVars, HighInside

\* The callers inside are those of the highest priority and the others.
LEMMA GateTaken == QueueInv => Gate!Taken = running_task_num
PROOF
<1>1. HighInside \cup LowInside = Inside
  BY DEF HighInside, LowInside
<1>2. Gate!Cardinality(Inside) = Cardinality(Inside)
  BY DEF Gate!Cardinality, Cardinality
<1> QED
  BY <1>1, <1>2 DEF Gate!Taken, QueueInv, RunningIsInside

\* Every step of the gate enters, leaves or stutters in the pool of slots.
LEMMA GateStep ==
    ASSUME QueueInv, [QueueNext]_queueVars
    PROVE  [Gate!SlotsNext]_(Gate!slotVars)
PROOF
<1> USE EnclaveQueueAssumption
<1>0. CASE UNCHANGED queueVars
  <2>1. Inside' = Inside /\ LowInside' = LowInside
    BY <1>0 DEF queueVars, Inside, LowInside, TaskOf, Prio
  <2> QED
    BY <2>1 DEF Gate!slotVars, HighInside
<1> SUFFICES ASSUME NEW p \in Caller,
                    \/ \E n \in Task : increase_waiting_queue(p, n)
                    \/ try_get_enclave(p)
                    \/ Release(p)
             PROVE  [Gate!SlotsNext]_(Gate!slotVars)
  BY <1>0 DEF QueueNext
<1>c. /\ caller \in [Caller -> CallerState] /\ caller[p].task \in Task
      /\ running_task_num \in Int
  BY DEF QueueInv, QueueTypeOK, CallerState
<1>1. ASSUME NEW n \in Task, increase_waiting_queue(p, n) PROVE UNCHANGED Gate!slotVars
  BY <1>1, <1>c, GateStutter DEF increase_waiting_queue, Turn, At, InPc
<1>2. CASE check_block_task(p)
  <2>1. \/ caller' = [caller EXCEPT ![p].pc = "loop"]
        \/ caller' = [caller EXCEPT ![p].pc = "admit"]
        \/ \E m : caller' = [caller EXCEPT ![p].rest = @ \ {m}]
    BY <1>2 DEF check_block_task, Goto
  <2>2. /\ \A q \in Caller \ {p} : caller'[q] = caller[q]
        /\ caller'[p].pc \notin InPc
    BY <1>2, <1>c, <2>1 DEF check_block_task, At, InPc, CallerState
  <2> QED
    BY <1>2, <2>2, GateStutter DEF check_block_task, At, InPc
<1>3. CASE admit(p) /\ Refused(TaskOf(p))
  <2>1. caller' = [caller EXCEPT ![p].pc = "loop"] /\ caller[p].pc = "admit"
    BY <1>3 DEF admit, Goto, At
  <2> QED
    BY <1>c, <2>1, GateStutter DEF InPc
<1>4. CASE admit(p) /\ ~Refused(TaskOf(p))
  <2>1. caller' = [caller EXCEPT ![p].pc = "count"] /\ caller[p].pc = "admit"
    BY <1>4 DEF admit, Goto, At
  <2>2. /\ running_task_num < ENC_MAX_THREAD_NUM
        /\ Prio(TaskOf(p)) > 0 => running_task_num < ENC_MAX_THREAD_NUM - ENC_RESERVED_THREAD_NUM
    BY <1>4, <1>c DEF Refused, TaskOf, Prio
  <2>3. Inside' = Inside \cup {p} /\ p \notin Inside
    BY <2>1, <1>c DEF Inside, InPc
  <2>4. p \notin HighInside \cup LowInside
    BY <2>3 DEF HighInside, LowInside
  <2>5. CASE Prio(TaskOf(p)) > 0
    <3>1. LowInside' = LowInside \cup {p}
      BY <2>1, <2>5, <1>c DEF LowInside, Inside, InPc, TaskOf, Prio
    <3>2. HighInside' = HighInside
      BY <2>3, <3>1 DEF HighInside
    <3>3. Gate!EnterLow(p)
      BY <2>2, <2>4, <2>5, <3>1, <3>2, GateTaken DEF Gate!EnterLow
    <3> QED
      BY <3>3 DEF Gate!SlotsNext
  <2>6. CASE ~(Prio(TaskOf(p)) > 0)
    <3>1. LowInside' = LowInside
      BY <2>1, <2>6, <1>c DEF LowInside, Inside, InPc, TaskOf, Prio
    <3>2. p \notin LowInside
      BY <2>3 DEF LowInside
    <3>3. HighInside' = HighInside \cup {p}
      BY <2>3, <3>1, <3>2 DEF HighInside
    <3>4. Gate!EnterHigh(p)
      BY <2>2, <2>4, <3>1, <3>3, GateTaken DEF Gate!EnterHigh
    <3> QED
      BY <3>4 DEF Gate!SlotsNext
  <2> QED
    BY <2>5, <2>6
<1>5. CASE increase_running_queue(p)
  BY <1>5, <1>c, GateStutter DEF increase_running_queue, Goto, At, InPc
<1>6. CASE loop(p)
  <2>1. PICK k : Goto(p, "timeout") \/ Turn(p, TaskOf(p), k)
    BY <1>6 DEF loop
  <2>2. /\ \A q \in Caller \ {p} : caller'[q] = caller[q]
        /\ caller'[p].pc \notin InPc
    <3>1. CASE Goto(p, "timeout")
      BY <1>c, <3>1 DEF Goto, InPc, CallerState
    <3>2. CASE Turn(p, TaskOf(p), k)
      BY <1>c, <3>2 DEF Turn, InPc
    <3> QED
      BY <2>1, <3>1, <3>2
  <2> QED
    BY <1>6, <2>2, GateStutter DEF loop, At, InPc
<1>7. CASE decrease_waiting_queue(p)
  BY <1>7, <1>c, GateStutter DEF decrease_waiting_queue, Goto, At, InPc
<1>8. CASE free_enclave(p)
  <2>1. /\ Inside' = Inside \ {p} /\ p \in Inside
        /\ LowInside' = LowInside \ {p}
    BY <1>8, <1>c DEF free_enclave, Goto, At, Inside, LowInside, InPc, TaskOf, Prio
  <2>2. HighInside' = HighInside \ {p} /\ p \in HighInside \cup LowInside
    BY <2>1 DEF HighInside
  <2>3. Gate!Leave(p)
    BY <2>1, <2>2 DEF Gate!Leave
  <2> QED
    BY <2>3 DEF Gate!SlotsNext
<1>9. CASE decrease_running_queue(p)
  BY <1>9, <1>c, GateStutter DEF decrease_running_queue, Goto, At, InPc
<1> QED
  BY <1>1, <1>2, <1>3, <1>4, <1>5, <1>6, <1>7, <1>8, <1>9
  DEF try_get_enclave, Release

\* try_get_enclave and free_enclave implement a pool of slots, for any number
\* of callers, tasks and slots.
THEOREM GateIsPool == QueueSpec => ImplementsSlots
PROOF
<1>1. QueueInit => Gate!SlotsInit
  BY DEF QueueInit, Gate!SlotsInit, HighInside, LowInside, Inside, InPc
<1>2. QueueInv /\ [QueueNext]_queueVars => [Gate!SlotsNext]_(Gate!slotVars)
  BY GateStep
<1> QED
  BY <1>1, <1>2, QueueInvariant, PTL DEF QueueSpec, ImplementsSlots, Gate!SlotsSpec

=============================================================================
