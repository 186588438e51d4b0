------------------------------ MODULE SrdProofs ------------------------------
(***************************************************************************)
(* Proofs about Srd: the statistics count the list exactly, the deleted    *)
(* buffer points at condemned units only, and every unit that is reported  *)
(* is on its disk, for any number of disks, units and threads.             *)
(*                                                                         *)
(* The argument: a unit is sealed once, under a number of its own, and is  *)
(* in the list at most once (UnitInv), so an index stands for a unit as    *)
(* long as the list is not compacted.  Only the main loop compacts it, and *)
(* it empties the buffer in the same step or, in srd_decrease, before and  *)
(* under the same mutex (BufferInv); during a round of validation it does  *)
(* not (RoundInv), nor while the pool pushes units (PoolInv).  So an entry *)
(* that a task took from the map is good until the round ends (EntryInv);  *)
(* one that a task still has after a time-out is not, and the theorems end *)
(* where such a task uses it.                                              *)
(***************************************************************************)
EXTENDS Srd, FiniteSetTheorems, TLAPS

\* What the threads of a turn do, and where they stand between turns.
MainLabel ==
    {"idle", "validate", "reset", "check", "deal", "change", "increase", "wait",
     "size", "limit", "add", "decrease", "cut", "erase", "decreased", "exceed", "store"}
WorkerLabel == {"idle", "queued", "made", "count", "return", "done"}
OtherLabel == {"idle", "size", "limit", "add", "remove", "erase"}
Label == MainLabel \cup WorkerLabel \cup OtherLabel

Task == [disk : Nat, unit : Unit \cup {<<>>}, ok : BOOLEAN]
CheckTask ==
    [pc : {"free", "take", "read", "look", "count", "push", "add"}, same : BOOLEAN,
     idx : Nat, unit : Unit \cup {<<>>}, bad : BOOLEAN, old : BOOLEAN]

\* The pool works only while the main loop waits for it.
PoolInv ==
    /\ pc \in [Proc -> Label]
    /\ pub \in [Proc -> {"no", "dump", "set"}]
    /\ dump \in [Proc -> Info]
    /\ worker \in [Worker -> Task]
    /\ pc[main] # "wait" => \A w \in Worker : pc[w] = "idle"
    /\ \A w \in Worker :
          pc[w] \in {"queued", "made", "count"} => worker[w].disk \in Disk

\* A turn's share is within its limits; change_srd_task holds a pair between
\* reading the number of units and reading the task.
ArgInv ==
    /\ arg = [p \in {main, client} |-> arg[p]]
    /\ \A p \in {main, client} :
          /\ pc[p] # "limit" => arg[p] \in Int
          /\ pc[p] = "limit" => arg[p] \in Int \X Int
    /\ pc[main] = "increase" => arg[main] \in 1..SRD_MAX_INC_PER_TURN
    /\ pc[main] = "decrease" => arg[main] \in Int /\ arg[main] <= 0

\* The units sealed so far.
Sealed == Disk \X (1..made)

\* A unit is in the list once, and one that is not pushed yet is there, is in
\* no list and was never condemned.
UnitInv ==
    /\ made \in Nat
    /\ srd_dir \subseteq Sealed
    /\ condemned \subseteq Sealed
    /\ \A i \in 1..Len(srd_hashs) : srd_hashs[i] \in Sealed
    /\ \A i, j \in 1..Len(srd_hashs) : srd_hashs[i] = srd_hashs[j] => i = j
    /\ \A w \in Worker : pc[w] = "made" =>
          /\ worker[w].unit \in srd_dir
          /\ worker[w].unit \notin condemned
          /\ \A i \in 1..Len(srd_hashs) : srd_hashs[i] # worker[w].unit
          /\ DiskOf(worker[w].unit) = worker[w].disk
    /\ \A w, v \in Worker :
          pc[w] = "made" /\ pc[v] = "made" /\ worker[w].unit = worker[v].unit => w = v

\* The main loop is between filling the map and clearing it.
InRound == pc[main] \in {"reset", "check"}

\* A task that is not late has its entry from the list as it is during the
\* round, and what it found bad is condemned.  Of a late one nothing is known.
EntryInv(c) ==
    /\ HasEntry(c) => task[c].idx # 0
    /\ task[c].pc \in {"push", "add"} => task[c].bad
    /\ task[c].pc = "take" => ~task[c].bad
    /\ HasEntry(c) /\ ~task[c].old =>
          /\ InRound
          /\ task[c].idx \in 1..Len(srd_hashs)
          /\ task[c].unit = srd_hashs[task[c].idx]
          /\ task[c].bad => task[c].unit \in condemned

\* Units whose directories the round will delete.
PushedInv(u) == InRound /\ u \in condemned /\ u \in Units(srd_hashs)

\* The tasks of a round and what they found.
RoundInv ==
    /\ g_validate_srd_m # {} => InRound
    /\ task \in [Checker -> CheckTask]
    /\ \A c \in Checker : EntryInv(c)
    /\ ~overtaken => \A u \in g_del_srd_v : PushedInv(u)
    /\ del_srds \in [{main, remover} -> SUBSET condemned]
    /\ overtaken \in BOOLEAN

\* srd_decrease cuts the list with an empty buffer.
BufferInv ==
    /\ BufferedIsCondemned
    /\ pc[main] = "cut" /\ ~overtaken => srd_del_idx_s = {}

\* The directories somebody is about to delete.
Doomed == g_del_srd_v \cup del_srds[main] \cup del_srds[remover]

\* The unit at i leaves the list, or a failed check of it is under way.
Leaving(i) ==
    \/ i \in srd_del_idx_s
    \/ \E c \in Checker : TaskAt(c, "add") /\ task[c].unit = srd_hashs[i]

\* All others are there, and nobody is about to delete them.
HeldInv ==
    ~overtaken =>
        \A i \in 1..Len(srd_hashs) :
            Leaving(i) \/ (srd_hashs[i] \in srd_dir /\ srd_hashs[i] \notin Doomed)

\* The statistics count the list, and the total is never negative.
CountInv == srd_info.complete \in Nat /\ InfoExact

-----------------------------------------------------------------------------
(* Threads, lists and statistics. *)

\* The threads of Srd are different ones.
LEMMA Threads ==
    /\ main \in Proc /\ client \in Proc /\ remover \in Proc
    /\ Worker \subseteq Proc
    /\ main \notin Worker /\ client \notin Worker /\ remover \notin Worker
    /\ main # client /\ main # remover /\ client # remover
    /\ Proc = {main, remover, client} \cup Worker
    /\ Worker \subseteq Nat /\ IsFiniteSet(Worker)
<1>1. IsFiniteSet(Worker)
    BY SrdAssumption, FS_Interval DEF Worker
<1> QED BY <1>1, SrdAssumption DEF main, client, remover, Proc, Worker

\* set_srd_info keeps the form of the statistics, and its total is not negative.
LEMMA InfoKept ==
    ASSUME NEW info \in Info, NEW n \in Int, NEW on \in [Disk -> Int]
    PROVE  /\ set_srd_info(info, n, on) \in Info
           /\ set_srd_info(info, n, on).complete \in Nat
           /\ set_srd_info(info, n, on).complete =
                 IF info.complete + n <= 0 THEN 0 ELSE info.complete + n
           /\ \A d \in Disk : set_srd_info(info, n, on).detail[d] = info.detail[d] + on[d]
<1> DEFINE total == IF info.complete + n <= 0 THEN 0 ELSE info.complete + n
           detail == [d \in Disk |-> info.detail[d] + on[d]]
<1>1. info.complete \in Int /\ info.remaining \in Int /\ info.detail \in [Disk -> Int]
    BY DEF Info
<1>2. total \in Nat
    BY <1>1
<1>3. detail \in [Disk -> Int] /\ \A d \in Disk : detail[d] = info.detail[d] + on[d]
    BY <1>1
<1>4. set_srd_info(info, n, on) = [info EXCEPT !.complete = total, !.detail = detail]
    BY DEF set_srd_info
<1> HIDE DEF total, detail
<1>5. /\ [info EXCEPT !.complete = total, !.detail = detail] \in Info
      /\ [info EXCEPT !.complete = total, !.detail = detail].complete = total
      /\ [info EXCEPT !.complete = total, !.detail = detail].detail = detail
    <2> DEFINE once == [info EXCEPT !.complete = total]
    <2>1. once \in Info /\ once.complete = total
        BY <1>2 DEF Info
    <2> HIDE DEF once
    <2>2. [once EXCEPT !.detail = detail] \in Info
        BY <2>1, <1>3 DEF Info
    <2>3. [once EXCEPT !.detail = detail].complete = total
        BY <2>1 DEF Info
    <2>4. [once EXCEPT !.detail = detail].detail = detail
        BY <2>1 DEF Info
    <2>5. [info EXCEPT !.complete = total, !.detail = detail] = [once EXCEPT !.detail = detail]
        BY DEF once
    <2> QED BY <2>2, <2>3, <2>4, <2>5
<1> QED BY <1>2, <1>3, <1>4, <1>5 DEF total

\* The indexes up to n are n.
LEMMA IndexCount ==
    ASSUME NEW n \in Nat
    PROVE  IsFiniteSet(1..n) /\ Cardinality(1..n) = n
<1>1. /\ IsFiniteSet(1..n)
      /\ Cardinality(1..n) = IF 1 > n THEN 0 ELSE n - 1 + 1
    BY FS_Interval
<1> QED BY <1>1

\* Nth counts the members of S through, each once.
CountedThrough(S) ==
    /\ \A k \in 1..Cardinality(S) : Nth(S, k) \in S
    /\ \A k, l \in 1..Cardinality(S) : Nth(S, k) = Nth(S, l) => k = l
    /\ \A i \in S : \E k \in 1..Cardinality(S) : Nth(S, k) = i
    /\ \A k \in 1..Cardinality(S) : Cardinality({j \in S : j <= Nth(S, k)}) = k

\* The kept indexes are counted through in delete_srd_meta.
LEMMA NthCounts ==
    ASSUME NEW n \in Nat, NEW S \in SUBSET (1..n)
    PROVE  IsFiniteSet(S) /\ Cardinality(S) \in Nat /\ CountedThrough(S)
<1> DEFINE N == Cardinality(S)
           Below(i) == {j \in S : j <= i}
           Rank == [i \in S |-> Cardinality(Below(i))]
<1>1. IsFiniteSet(S) /\ N \in Nat
    <2>1. IsFiniteSet(1..n)
        BY FS_Interval
    <2>2. IsFiniteSet(S)
        BY <2>1, FS_Subset
    <2> QED BY <2>2, FS_CardinalityType
<1>2. ASSUME NEW i \in S PROVE IsFiniteSet(Below(i)) /\ Rank[i] \in 1..N
    <2>1. Below(i) \in SUBSET S
        OBVIOUS
    <2>2. IsFiniteSet(Below(i)) /\ Cardinality(Below(i)) <= N
        BY <1>1, <2>1, FS_Subset
    <2>3. Cardinality(Below(i)) \in Nat
        BY <2>2, FS_CardinalityType
    <2>4. i \in Below(i)
        OBVIOUS
    <2>5. Cardinality(Below(i)) # 0
        BY <2>2, <2>4, FS_EmptySet
    <2> QED BY <2>2, <2>3, <2>5, <1>1
<1>3. ASSUME NEW i \in S, NEW j \in S, i < j PROVE Rank[i] # Rank[j]
    <2>1. Below(i) \in SUBSET Below(j)
        <3>1. \A m \in S : m \in Int
            OBVIOUS
        <3>2. \A m \in S : m <= i => m <= j
            BY <1>3, <3>1
        <3> QED BY <3>2
    <2>2. j \in Below(j) /\ j \notin Below(i)
        BY <1>3
    <2>3. Cardinality(Below(j)) # Cardinality(Below(i))
        BY <1>2, <2>1, <2>2, FS_Subset
    <2> QED BY <2>3
<1>4. ASSUME NEW i \in S, NEW j \in S, Rank[i] = Rank[j] PROVE i = j
    <2>1. i \in Int /\ j \in Int
        OBVIOUS
    <2>2. ~(i < j) /\ ~(j < i)
        BY <1>3, <1>4
    <2> QED BY <2>1, <2>2
<1>5. Rank \in Injection(S, 1..N)
    <2>1. Rank \in [S -> 1..N]
        BY <1>2
    <2> QED BY <2>1, <1>4 DEF Injection, IsInjective
<1>6. IsFiniteSet(1..N) /\ Cardinality(1..N) = N
    BY <1>1, FS_Interval
<1>7. Rank \in Surjection(S, 1..N)
    BY <1>5, <1>6, FS_Injection
<1>8. \A k \in 1..N : \E i \in S : Rank[i] = k
    BY <1>7 DEF Surjection
<1>9. \A k \in 1..N : Nth(S, k) \in S /\ Rank[Nth(S, k)] = k
    <2> SUFFICES ASSUME NEW k \in 1..N PROVE Nth(S, k) \in S /\ Rank[Nth(S, k)] = k
        OBVIOUS
    <2>1. \E i \in S : Cardinality({j \in S : j <= i}) = k
        BY <1>8
    <2>2. Nth(S, k) \in S /\ Cardinality({j \in S : j <= Nth(S, k)}) = k
        BY <2>1 DEF Nth
    <2> QED BY <2>2
<1>10. \A k, l \in 1..N : Nth(S, k) = Nth(S, l) => k = l
    BY <1>9
<1>11. \A i \in S : \E k \in 1..N : Nth(S, k) = i
    <2> SUFFICES ASSUME NEW i \in S PROVE \E k \in 1..N : Nth(S, k) = i
        OBVIOUS
    <2>1. Rank[i] \in 1..N
        BY <1>2
    <2>2. Nth(S, Rank[i]) \in S /\ Rank[Nth(S, Rank[i])] = Rank[i]
        BY <2>1, <1>9
    <2>3. Nth(S, Rank[i]) = i
        BY <2>2, <1>4
    <2> QED BY <2>1, <2>3
<1> QED BY <1>1, <1>9, <1>10, <1>11 DEF CountedThrough

\* Among indexes there is a first one.
LEMMA FirstIndex ==
    ASSUME NEW n \in Nat, NEW S \in SUBSET (1..n), S # {}
    PROVE  \E i \in S : \A j \in S : i <= j
<1> DEFINE i == Nth(S, 1)
           below == {j \in S : j <= i}
<1>1. IsFiniteSet(S) /\ Cardinality(S) \in Nat /\ CountedThrough(S)
    BY NthCounts
<1>2. Cardinality(S) # 0
    BY <1>1, FS_EmptySet
<1>3. i \in S /\ Cardinality(below) = 1
    BY <1>1, <1>2 DEF CountedThrough
<1>4. IsFiniteSet(below)
    BY <1>1, FS_Subset
<1>5. \E x : below = {x}
    BY <1>3, <1>4, FS_Singleton
<1>6. \A j \in S : j \in Int
    OBVIOUS
<1> HIDE DEF i
<1>7. i \in Int /\ i \in below
    BY <1>3, <1>6
<1>8. \A j \in S : j <= i => j = i
    BY <1>5, <1>7
<1>9. \A j \in S : i <= j
    BY <1>6, <1>7, <1>8
<1> QED BY <1>3, <1>9

\* The list rest holds what list has at the indexes kept, each once.
Moved(list, kept, rest) ==
    /\ Len(rest) = Cardinality(kept)
    /\ \A k \in 1..Len(rest) : Nth(kept, k) \in kept /\ rest[k] = list[Nth(kept, k)]
    /\ \A k, l \in 1..Len(rest) : Nth(kept, k) = Nth(kept, l) => k = l
    /\ \A i \in kept : \E k \in 1..Len(rest) : Nth(kept, k) = i

\* What delete_srd_meta leaves: the units at the kept indexes, each once.
LEMMA Compacted ==
    ASSUME NEW list \in Seq(Unit), NEW I
    PROVE  /\ delete_srd_meta(list, I) \in Seq(Unit)
           /\ Moved(list, 1..Len(list) \ I, delete_srd_meta(list, I))
<1> DEFINE kept == 1..Len(list) \ I
           rest == delete_srd_meta(list, I)
<1>1. Len(list) \in Nat /\ kept \in SUBSET (1..Len(list))
    OBVIOUS
<1>2. list \in [1..Len(list) -> Unit]
    OBVIOUS
<1>3. rest = [k \in 1..Cardinality(kept) |-> list[Nth(kept, k)]]
    BY DEF delete_srd_meta
<1> HIDE DEF kept, rest
<1>4. Cardinality(kept) \in Nat /\ CountedThrough(kept)
    BY <1>1, NthCounts
<1>5. \A k \in 1..Cardinality(kept) : list[Nth(kept, k)] \in Unit
    BY <1>1, <1>2, <1>4 DEF CountedThrough
<1>6. rest \in [1..Cardinality(kept) -> Unit]
    BY <1>3, <1>5
<1>7. rest \in Seq(Unit) /\ Len(rest) = Cardinality(kept)
    BY <1>4, <1>6
<1>8. Moved(list, kept, rest)
    BY <1>3, <1>4, <1>7 DEF Moved, CountedThrough
<1> QED BY <1>7, <1>8 DEF kept, rest

\* A finite set without a part of it has as many elements less.
LEMMA Without ==
    ASSUME NEW S, IsFiniteSet(S), NEW T \in SUBSET S
    PROVE  /\ IsFiniteSet(S \ T) /\ IsFiniteSet(T)
           /\ Cardinality(S \ T) = Cardinality(S) - Cardinality(T)
           /\ Cardinality(S) \in Nat /\ Cardinality(T) \in Nat
           /\ Cardinality(S \ T) \in Nat
<1>1. IsFiniteSet(S \ T) /\ IsFiniteSet(T)
    BY FS_Subset
<1>2. S = (S \ T) \cup T /\ (S \ T) \cap T = {}
    OBVIOUS
<1>3. Cardinality(S) = Cardinality(S \ T) + Cardinality(T) - Cardinality({})
    BY <1>1, <1>2, FS_Union
<1> QED BY <1>1, <1>3, FS_CardinalityType, FS_EmptySet

\* The list rest has the units of list but for those at the indexes gone, in
\* all and on every disk.
Shrunk(list, gone, rest) ==
    /\ Cardinality(gone) \in 0..Len(list)
    /\ Len(rest) = Len(list) - Cardinality(gone)
    /\ \A d \in Disk :
          /\ Cardinality(OnDisk(list, gone, d)) \in Nat
          /\ Cardinality(OnDisk(rest, 1..Len(rest), d)) =
                Cardinality(OnDisk(list, 1..Len(list), d)) -
                Cardinality(OnDisk(list, gone, d))

\* The number of units that delete_srd_meta leaves.
LEMMA CompactedCount ==
    ASSUME NEW list \in Seq(Unit), NEW I
    PROVE  Shrunk(list, 1..Len(list) \cap I, delete_srd_meta(list, I))
<1> DEFINE rest == delete_srd_meta(list, I)
           gone == 1..Len(list) \cap I
<1> DEFINE all == 1..Len(list)
           kept == all \ I
<1>1. IsFiniteSet(all) /\ Cardinality(all) = Len(list) /\ Len(list) \in Nat
    <2>1. Len(list) \in Nat
        OBVIOUS
    <2>2. /\ IsFiniteSet(1..Len(list))
          /\ Cardinality(1..Len(list)) = IF 1 > Len(list) THEN 0 ELSE Len(list) - 1 + 1
        BY <2>1, FS_Interval
    <2> QED BY <2>1, <2>2
<1>2. gone \in SUBSET all /\ kept = all \ gone
    OBVIOUS
<1>3. /\ Cardinality(kept) = Len(list) - Cardinality(gone)
      /\ Cardinality(gone) \in Nat /\ Cardinality(kept) \in Nat
    BY <1>1, <1>2, Without
<1>4. rest \in Seq(Unit) /\ Moved(list, kept, rest)
    BY Compacted
<1> HIDE DEF rest, gone, kept
<1>5. ASSUME NEW d \in Disk
      PROVE  /\ Cardinality(OnDisk(list, gone, d)) \in Nat
             /\ Cardinality(OnDisk(rest, 1..Len(rest), d)) =
                   Cardinality(OnDisk(list, all, d)) - Cardinality(OnDisk(list, gone, d))
    <2> DEFINE Here == OnDisk(list, all, d)
               Gone == OnDisk(list, gone, d)
               Rest == OnDisk(rest, 1..Len(rest), d)
               f == [k \in Rest |-> Nth(kept, k)]
    <2>1. IsFiniteSet(Here)
        BY <1>1, FS_Subset DEF OnDisk
    <2>2. Gone \in SUBSET Here
        BY <1>2 DEF OnDisk
    <2>3. /\ IsFiniteSet(Here \ Gone)
          /\ Cardinality(Here \ Gone) = Cardinality(Here) - Cardinality(Gone)
          /\ Cardinality(Gone) \in Nat
        BY <2>1, <2>2, Without
    <2>4. Here \ Gone = {i \in kept : DiskOf(list[i]) = d}
        BY <1>2 DEF OnDisk
    <2>5. Rest = {k \in 1..Len(rest) : DiskOf(rest[k]) = d}
        BY DEF OnDisk
    <2>6. f \in [Rest -> Here \ Gone]
        BY <1>4, <2>4, <2>5 DEF Moved
    <2>7. f \in Injection(Rest, Here \ Gone)
        BY <2>6, <2>5, <1>4 DEF Moved, Injection, IsInjective
    <2>8. \A i \in Here \ Gone : \E k \in Rest : f[k] = i
        <3> SUFFICES ASSUME NEW i \in Here \ Gone PROVE \E k \in Rest : f[k] = i
            OBVIOUS
        <3>1. i \in kept /\ DiskOf(list[i]) = d
            BY <2>4
        <3>2. PICK k \in 1..Len(rest) : Nth(kept, k) = i
            BY <3>1, <1>4 DEF Moved
        <3>3. rest[k] = list[i]
            BY <3>2, <1>4 DEF Moved
        <3>4. k \in Rest
            BY <3>1, <3>2, <3>3, <2>5
        <3> QED BY <3>2, <3>4
    <2>9. f \in Surjection(Rest, Here \ Gone)
        BY <2>6, <2>8 DEF Surjection
    <2>10. Cardinality(Rest) = Cardinality(Here \ Gone)
        BY <2>3, <2>7, <2>9, FS_Injection
    <2> QED BY <2>3, <2>10
<1>6. Cardinality(gone) \in 0..Len(list) /\ Len(rest) = Len(list) - Cardinality(gone)
    BY <1>1, <1>3, <1>4 DEF Moved
<1> QED BY <1>5, <1>6 DEF Shrunk, rest, gone

-----------------------------------------------------------------------------
(* The inductive invariant, and the steps that leave the units alone. *)

\* The part of SrdTypeOK about numbers ...
NumInv ==
    /\ g_srd_task \in Int
    /\ srd_info \in Info /\ ed_srd_info \in Info
    /\ g_running_srd_task \in Int
    /\ g_running_srd_task <= SRD_MAX_INC_PER_TURN
    /\ other_use \in [Disk -> Nat]

\* ... about the list ...
ListInv ==
    /\ srd_hashs \in Seq(Unit)
    /\ srd_del_idx_s \subseteq Nat \ {0}
    /\ srd_dir \subseteq Unit

\* ... and about the tasks of a round.
TaskInv ==
    /\ g_validate_srd_m_iter \subseteq g_validate_srd_m
    /\ \A t \in g_validate_srd_m : t.idx \in 1..Len(srd_hashs) /\ t.unit = srd_hashs[t.idx]

SrdInv ==
    /\ NumInv /\ ListInv /\ TaskInv
    /\ PoolInv /\ ArgInv
    /\ UnitInv /\ RoundInv /\ BufferInv /\ HeldInv /\ CountInv

\* The pool's threads that have pushed a unit and not counted it.
Uncounted == {w \in Worker : pc[w] = "count"}
UncountedOn(d) == {w \in Uncounted : worker[w].disk = d}

\* CountInv in these words.
LEMMA CountInvMeans ==
    CountInv <=>
        /\ srd_info.complete \in Nat
        /\ srd_info.complete = Len(srd_hashs) - Cardinality(Uncounted)
        /\ \A d \in Disk : srd_info.detail[d] =
              Cardinality(Held(d)) - Cardinality(UncountedOn(d))
BY DEF CountInv, InfoExact, Uncounted, UncountedOn

\* A step that moves threads other than the pool's.
Still ==
    /\ UNCHANGED <<srd_hashs, srd_del_idx_s, srd_dir, condemned, task,
                   g_validate_srd_m, g_validate_srd_m_iter, g_del_srd_v, del_srds,
                   overtaken, made, worker>>
    /\ \A w \in Worker : pc'[w] = pc[w]
    /\ srd_info'.complete = srd_info.complete
    /\ srd_info'.detail = srd_info.detail
    /\ \/ pc'[main] = pc[main]
       \/ pc[main] \notin {"reset", "check", "wait"} /\ pc'[main] # "cut"

\* A step that leaves the round alone, and the list during the round.
LEMMA RoundFrame ==
    ASSUME RoundInv, TaskInv,
           UNCHANGED <<task, g_del_srd_v, g_validate_srd_m, g_validate_srd_m_iter, overtaken>>,
           InRound => InRound' /\ srd_hashs' = srd_hashs,
           condemned \subseteq condemned',
           del_srds' \in [{main, remover} -> SUBSET condemned']
    PROVE  RoundInv' /\ TaskInv'
<1>1. \A c \in Checker : EntryInv(c)'
    <2> SUFFICES ASSUME NEW c \in Checker PROVE EntryInv(c)'
        OBVIOUS
    <2>1. EntryInv(c) /\ HasEntry(c)' = HasEntry(c) /\ task'[c] = task[c]
        BY DEF RoundInv, HasEntry
    <2>2. CASE InRound
        BY <2>1, <2>2 DEF EntryInv
    <2>3. CASE ~InRound
        BY <2>1, <2>3 DEF EntryInv
    <2> QED BY <2>2, <2>3
<1>2. ~overtaken' => \A u \in g_del_srd_v' : PushedInv(u)'
    BY DEF RoundInv, PushedInv, Units
<1>3. TaskInv'
    BY DEF RoundInv, TaskInv
<1> QED BY <1>1, <1>2, <1>3 DEF RoundInv

\* A step that leaves list, buffer and tasks alone, and deletes only directories
\* that were doomed.
LEMMA HeldFrame ==
    ASSUME HeldInv, UNCHANGED <<srd_hashs, srd_del_idx_s, task, overtaken>>,
           Doomed' \subseteq Doomed, srd_dir \ Doomed \subseteq srd_dir'
    PROVE  HeldInv'
<1>1. \A i \in 1..Len(srd_hashs) : Leaving(i)' = Leaving(i)
    BY DEF Leaving, TaskAt
<1> QED BY <1>1 DEF HeldInv

\* A unit whose failed check is under way leaves the list wherever it is.
LEMMA LeavingMoves ==
    ASSUME UNCHANGED task, NEW i, NEW k, srd_hashs'[k] = srd_hashs[i],
           i \notin srd_del_idx_s, Leaving(i)
    PROVE  Leaving(k)'
BY DEF Leaving, TaskAt

\* Such a step keeps what is said about units.
LEMMA StillKeeps ==
    ASSUME SrdInv, Still
    PROVE  /\ ListInv' /\ TaskInv'
           /\ UnitInv' /\ RoundInv' /\ BufferInv' /\ HeldInv' /\ CountInv'
<1>1. ListInv'
    BY DEF SrdInv, Still, ListInv
<1>2. UnitInv'
    BY DEF SrdInv, Still, UnitInv, Sealed
<1>3. RoundInv' /\ TaskInv'
    <2>1. InRound => InRound' /\ srd_hashs' = srd_hashs
        BY DEF Still, InRound
    <2>2. del_srds' \in [{main, remover} -> SUBSET condemned']
        BY DEF SrdInv, Still, RoundInv
    <2> QED BY <2>1, <2>2, RoundFrame DEF SrdInv, Still
<1>4. BufferInv'
    BY DEF SrdInv, Still, BufferInv, BufferedIsCondemned
<1>5. HeldInv'
    BY DEF SrdInv, Still, HeldInv, Leaving, Doomed, TaskAt
<1>6. CountInv'
    <2>1. Uncounted' = Uncounted /\ \A d \in Disk : UncountedOn(d)' = UncountedOn(d)
        BY DEF Still, Uncounted, UncountedOn
    <2>2. \A d \in Disk : Held(d)' = Held(d)
        BY DEF Still, Held
    <2>3. /\ srd_info'.complete = srd_info.complete
          /\ srd_info'.detail = srd_info.detail
          /\ srd_hashs' = srd_hashs
        BY DEF Still
    <2> QED BY <2>1, <2>2, <2>3, CountInvMeans DEF SrdInv, CountInv, InfoExact,
            Uncounted, UncountedOn
<1> QED BY <1>1, <1>2, <1>3, <1>4, <1>5, <1>6

-----------------------------------------------------------------------------
(* One lemma per action: the steps that move threads. *)

\* A thread that sets its own argument leaves the other one alone.
LEMMA ArgSet ==
    ASSUME ArgInv, NEW p \in {main, client}, NEW x, arg' = [arg EXCEPT ![p] = x]
    PROVE  /\ arg' = [q \in {main, client} |-> arg'[q]]
           /\ arg'[p] = x
           /\ \A q \in {main, client} : q # p => arg'[q] = arg[q]
<1> DEFINE dom == {main, client}
<1>1. arg = [q \in dom |-> arg[q]]
    BY DEF ArgInv
<1>2. arg' = [q \in dom |-> IF q = p THEN x ELSE arg[q]]
    BY <1>1
<1> QED BY <1>2

\* A request to /srd/change is cut to a number.
LEMMA TrueChangeType ==
    ASSUME SrdInv, NEW c \in Changes
    PROVE  TrueChange(c) \in Int
<1> DEFINE On(d) == {u \in srd_dir : DiskOf(u) = d}
           Spaces == {{d} \X (1..AvailForSrd(d)) : d \in Disk}
           avail == Cardinality(UNION Spaces)
<1>1. IsFiniteSet(srd_dir)
    <2>1. made \in Nat /\ srd_dir \in SUBSET (Disk \X (1..made))
        BY DEF SrdInv, UnitInv, Sealed
    <2>2. IsFiniteSet(1..made)
        BY <2>1, FS_Interval
    <2>3. IsFiniteSet(Disk \X (1..made))
        BY <2>2, FS_Product, SrdAssumption
    <2> QED BY <2>1, <2>3, FS_Subset
<1>2. ASSUME NEW d \in Disk PROVE AvailForSrd(d) \in Nat
    <2>1. On(d) \in SUBSET srd_dir
        OBVIOUS
    <2>2. Cardinality(On(d)) \in Nat
        BY <1>1, <2>1, FS_Subset, FS_CardinalityType
    <2>3. Capacity[d] \in Nat /\ other_use[d] \in Nat
        BY SrdAssumption DEF SrdInv, NumInv
    <2>4. Free(d) = Capacity[d] - other_use[d] - Cardinality(On(d))
        BY DEF Free
    <2>5. Free(d) \in Int
        BY <2>2, <2>3, <2>4
    <2> QED BY <2>5 DEF AvailForSrd
<1>3. IsFiniteSet(Spaces)
    <2> DEFINE f == [d \in Disk |-> {d} \X (1..AvailForSrd(d))]
    <2>1. f \in Surjection(Disk, Spaces)
        BY DEF Surjection
    <2> QED BY <2>1, FS_Surjection, SrdAssumption
<1>4. \A T \in Spaces : IsFiniteSet(T)
    <2> SUFFICES ASSUME NEW d \in Disk PROVE IsFiniteSet({d} \X (1..AvailForSrd(d)))
        OBVIOUS
    <2>1. IsFiniteSet(1..AvailForSrd(d))
        BY <1>2, FS_Interval
    <2>2. IsFiniteSet({d})
        BY FS_Singleton
    <2> QED BY <2>1, <2>2, FS_Product
<1>5. avail \in Nat
    <2>1. IsFiniteSet(UNION Spaces)
        BY <1>3, <1>4, FS_UNION, Zenon
    <2> QED BY <2>1, FS_CardinalityType
<1>6. /\ g_running_srd_task \in Int /\ ed_srd_info.complete \in Int
      /\ ed_srd_info.remaining \in Int /\ c \in Int
    BY SrdAssumption DEF SrdInv, NumInv, Info
<1> QED BY <1>5, <1>6 DEF TrueChange

\* srd_change_skip moves threads only.
LEMMA srd_change_skipStep ==
    ASSUME SrdInv, srd_change_skip
    PROVE  SrdInv'
<1> USE Threads DEF SrdInv, srd_change_skip, At, Go, GoAndPublish, srdVars,
        validateVars, appVars, threadVars, envVars, ghostVars, roundVars
<1>1. NumInv'
    BY SrdAssumption DEF NumInv
<1>2. PoolInv'
    BY SMT DEF PoolInv, NumInv, Label, MainLabel, WorkerLabel, OtherLabel
<1>3. ArgInv'
    BY SrdAssumption DEF PoolInv, NumInv, ListInv, ArgInv
<1>4. Still
    BY SMT DEF PoolInv, ArgInv, Still, NumInv
<1> QED BY <1>1, <1>2, <1>3, <1>4, StillKeeps

\* srd_change moves threads only.
LEMMA srd_changeStep ==
    ASSUME SrdInv, srd_change
    PROVE  SrdInv'
<1> USE Threads DEF SrdInv, srd_change, At, Go, GoAndPublish, srdVars,
        validateVars, appVars, threadVars, envVars, ghostVars, roundVars
<1>1. NumInv'
    BY SrdAssumption DEF NumInv
<1>2. PoolInv'
    BY SMT DEF PoolInv, NumInv, Label, MainLabel, WorkerLabel, OtherLabel
<1>3. ArgInv'
    <2>1. arg' = [arg EXCEPT ![main] = TurnShare]
        OBVIOUS
    <2>2. TurnShare \in Int
        BY SrdAssumption DEF TurnShare, NumInv
    <2>3. \A q \in {main, client} : q # main => pc'[q] = pc[q]
        BY SMT DEF PoolInv
    <2>4. pc'[main] \in {"increase", "decrease"}
        BY SMT DEF PoolInv
    <2>5. /\ arg' = [q \in {main, client} |-> arg'[q]]
          /\ arg'[main] = TurnShare
          /\ \A q \in {main, client} : q # main => arg'[q] = arg[q]
        BY <2>1, ArgSet
    <2>6. /\ pc'[main] = "increase" => TurnShare \in 1..SRD_MAX_INC_PER_TURN
          /\ pc'[main] = "decrease" => TurnShare <= 0
        <3>1. TurnShare > 0 => TurnShare \in 1..SRD_MAX_INC_PER_TURN
            BY <2>2, SrdAssumption DEF TurnShare, NumInv
        <3>2. pc'[main] = (IF TurnShare > 0 THEN "increase" ELSE "decrease")
            BY DEF PoolInv
        <3> QED BY <2>2, <3>1, <3>2
    <2> QED BY <2>1, <2>2, <2>3, <2>4, <2>5, <2>6, Threads DEF ArgInv
<1>4. Still
    BY SMT DEF PoolInv, ArgInv, Still, NumInv
<1> QED BY <1>1, <1>2, <1>3, <1>4, StillKeeps

\* change_srd_task_refused moves threads only.
LEMMA change_srd_task_refusedStep ==
    ASSUME SrdInv, NEW p \in {main, client}, change_srd_task_refused(p)
    PROVE  SrdInv'
<1> USE Threads DEF SrdInv, change_srd_task_refused, Done, At, Go, GoAndPublish,
        srdVars, validateVars, appVars, threadVars, envVars, ghostVars, roundVars
<1>1. NumInv'
    BY SrdAssumption DEF NumInv
<1>2. PoolInv'
    BY SMT DEF PoolInv, NumInv, Label, MainLabel, WorkerLabel, OtherLabel
<1>3. ArgInv'
    <2>1. arg' = [arg EXCEPT ![p] = 0]
        OBVIOUS
    <2>2. 0 \in Int
        BY SrdAssumption DEF ArgInv, NumInv, ListInv
    <2>3. \A q \in {main, client} : q # p => pc'[q] = pc[q]
        BY SMT DEF PoolInv
    <2>4. pc'[p] \notin {"limit", "increase", "decrease"}
        BY SMT DEF PoolInv
    <2>5. /\ arg' = [q \in {main, client} |-> arg'[q]]
          /\ arg'[p] = 0
          /\ \A q \in {main, client} : q # p => arg'[q] = arg[q]
        BY <2>1, ArgSet
    <2> QED BY <2>1, <2>2, <2>3, <2>4, <2>5, Threads DEF ArgInv
<1>4. Still
    BY SMT DEF PoolInv, ArgInv, Still, NumInv
<1> QED BY <1>1, <1>2, <1>3, <1>4, StillKeeps

\* change_srd_task_less moves threads only.
LEMMA change_srd_task_lessStep ==
    ASSUME SrdInv, NEW p \in {main, client}, change_srd_task_less(p)
    PROVE  SrdInv'
<1> USE Threads DEF SrdInv, change_srd_task_less, At, Go, GoAndPublish, srdVars,
        validateVars, appVars, threadVars, envVars, ghostVars, roundVars
<1>1. NumInv'
    BY SrdAssumption DEF NumInv
<1>2. PoolInv'
    BY SMT DEF PoolInv, NumInv, Label, MainLabel, WorkerLabel, OtherLabel
<1>3. ArgInv'
    BY SrdAssumption DEF PoolInv, NumInv, ListInv, ArgInv
<1>4. Still
    BY SMT DEF PoolInv, ArgInv, Still, NumInv
<1> QED BY <1>1, <1>2, <1>3, <1>4, StillKeeps

\* change_srd_task_size moves threads only.
LEMMA change_srd_task_sizeStep ==
    ASSUME SrdInv, NEW p \in {main, client}, change_srd_task_size(p)
    PROVE  SrdInv'
<1> USE Threads DEF SrdInv, change_srd_task_size, At, Go, GoAndPublish, srdVars,
        validateVars, appVars, threadVars, envVars, ghostVars, roundVars
<1>1. NumInv'
    BY SrdAssumption DEF NumInv
<1>2. PoolInv'
    BY SMT DEF PoolInv, NumInv, Label, MainLabel, WorkerLabel, OtherLabel
<1>3. ArgInv'
    <2>1. arg' = [arg EXCEPT ![p] = <<arg[p], Len(srd_hashs)>>]
        OBVIOUS
    <2>2. <<arg[p], Len(srd_hashs)>> \in Int \X Int
        BY SrdAssumption DEF ArgInv, NumInv, ListInv
    <2>3. \A q \in {main, client} : q # p => pc'[q] = pc[q]
        BY SMT DEF PoolInv
    <2>4. pc'[p] = "limit"
        BY SMT DEF PoolInv
    <2>5. /\ arg' = [q \in {main, client} |-> arg'[q]]
          /\ arg'[p] = <<arg[p], Len(srd_hashs)>>
          /\ \A q \in {main, client} : q # p => arg'[q] = arg[q]
        BY <2>1, ArgSet
    <2> QED BY <2>1, <2>2, <2>3, <2>4, <2>5, Threads DEF ArgInv
<1>4. Still
    BY SMT DEF PoolInv, ArgInv, Still, NumInv
<1> QED BY <1>1, <1>2, <1>3, <1>4, StillKeeps

\* The limit on the size of a change yields a number.
LEMMA WithinLimitInt ==
    ASSUME NEW change \in Int, NEW srd_num \in Int
    PROVE  WithinLimit(change, srd_num) \in Int
BY SrdAssumption DEF WithinLimit

\* change_srd_task_limit moves threads only.
LEMMA change_srd_task_limitStep ==
    ASSUME SrdInv, NEW p \in {main, client}, change_srd_task_limit(p)
    PROVE  SrdInv'
<1> USE Threads DEF SrdInv, change_srd_task_limit, At, Go, GoAndPublish,
        srdVars, validateVars, appVars, threadVars, envVars, ghostVars, roundVars
<1>1. NumInv'
    BY SrdAssumption DEF NumInv
<1>2. PoolInv'
    BY SMT DEF PoolInv, NumInv, Label, MainLabel, WorkerLabel, OtherLabel
<1>3. ArgInv'
    <2>1. arg' = [arg EXCEPT ![p] = WithinLimit(arg[p][1], arg[p][2] + g_srd_task)]
        OBVIOUS
    <2>2. WithinLimit(arg[p][1], arg[p][2] + g_srd_task) \in Int
        <3>1. arg[p][1] \in Int /\ arg[p][2] \in Int /\ g_srd_task \in Int
            BY DEF ArgInv, NumInv
        <3> HIDE DEF change_srd_task_limit, SrdInv
        <3>2. arg[p][2] + g_srd_task \in Int
            BY <3>1
        <3> QED BY <3>1, <3>2, WithinLimitInt
    <2>3. \A q \in {main, client} : q # p => pc'[q] = pc[q]
        BY SMT DEF PoolInv
    <2>4. pc'[p] = "add"
        BY SMT DEF PoolInv
    <2>5. /\ arg' = [q \in {main, client} |-> arg'[q]]
          /\ arg'[p] = WithinLimit(arg[p][1], arg[p][2] + g_srd_task)
          /\ \A q \in {main, client} : q # p => arg'[q] = arg[q]
        BY <2>1, ArgSet
    <2> QED BY <2>1, <2>2, <2>3, <2>4, <2>5, Threads DEF ArgInv
<1>4. Still
    BY SMT DEF PoolInv, ArgInv, Still, NumInv
<1> QED BY <1>1, <1>2, <1>3, <1>4, StillKeeps

\* change_srd_task_add moves threads only.
LEMMA change_srd_task_addStep ==
    ASSUME SrdInv, NEW p \in {main, client}, change_srd_task_add(p)
    PROVE  SrdInv'
<1> USE Threads DEF SrdInv, change_srd_task_add, Done, At, Go, GoAndPublish,
        srdVars, validateVars, appVars, threadVars, envVars, ghostVars, roundVars
<1>1. NumInv'
    <2>1. arg[p] \in Int
        BY DEF ArgInv
    <2>2. g_srd_task' \in Int
        BY <2>1 DEF NumInv
    <2>3. srd_info' \in Info
        BY <2>2 DEF NumInv, Info
    <2> QED BY <2>2, <2>3 DEF NumInv
<1>2. PoolInv'
    BY SMT DEF PoolInv, NumInv, Label, MainLabel, WorkerLabel, OtherLabel
<1>3. ArgInv'
    <2>1. arg' = [arg EXCEPT ![p] = 0]
        OBVIOUS
    <2>2. 0 \in Int
        BY SrdAssumption DEF ArgInv, NumInv, ListInv
    <2>3. \A q \in {main, client} : q # p => pc'[q] = pc[q]
        BY SMT DEF PoolInv
    <2>4. pc'[p] \notin {"limit", "increase", "decrease"}
        BY SMT DEF PoolInv
    <2>5. /\ arg' = [q \in {main, client} |-> arg'[q]]
          /\ arg'[p] = 0
          /\ \A q \in {main, client} : q # p => arg'[q] = arg[q]
        BY <2>1, ArgSet
    <2> QED BY <2>1, <2>2, <2>3, <2>4, <2>5, Threads DEF ArgInv
<1>4. Still
    BY SMT DEF PoolInv, ArgInv, Still, NumInv, Info
<1> QED BY <1>1, <1>2, <1>3, <1>4, StillKeeps

\* app_srd_decrease_end moves threads only.
LEMMA app_srd_decrease_endStep ==
    ASSUME SrdInv, app_srd_decrease_end
    PROVE  SrdInv'
<1> USE Threads DEF SrdInv, app_srd_decrease_end, At, Go, GoAndPublish, srdVars,
        validateVars, appVars, threadVars, envVars, ghostVars, roundVars
<1>1. NumInv'
    BY SrdAssumption DEF NumInv
<1>2. PoolInv'
    BY SMT DEF PoolInv, NumInv, Label, MainLabel, WorkerLabel, OtherLabel
<1>3. ArgInv'
    <2>1. arg' = [arg EXCEPT ![main] = 0]
        OBVIOUS
    <2>2. 0 \in Int
        BY SrdAssumption DEF ArgInv, NumInv, ListInv
    <2>3. \A q \in {main, client} : q # main => pc'[q] = pc[q]
        BY SMT DEF PoolInv
    <2>4. pc'[main] = "store"
        BY SMT DEF PoolInv
    <2>5. /\ arg' = [q \in {main, client} |-> arg'[q]]
          /\ arg'[main] = 0
          /\ \A q \in {main, client} : q # main => arg'[q] = arg[q]
        BY <2>1, ArgSet
    <2> QED BY <2>1, <2>2, <2>3, <2>4, <2>5, Threads DEF ArgInv
<1>4. Still
    BY SMT DEF PoolInv, ArgInv, Still, NumInv
<1> QED BY <1>1, <1>2, <1>3, <1>4, StillKeeps

\* srd_change_exceed moves threads only.
LEMMA srd_change_exceedStep ==
    ASSUME SrdInv, srd_change_exceed
    PROVE  SrdInv'
<1> USE Threads DEF SrdInv, srd_change_exceed, At, Go, GoAndPublish, srdVars,
        validateVars, appVars, threadVars, envVars, ghostVars, roundVars
<1>1. NumInv'
    BY SrdAssumption DEF NumInv
<1>2. PoolInv'
    BY SMT DEF PoolInv, NumInv, Label, MainLabel, WorkerLabel, OtherLabel
<1>3. ArgInv'
    BY SrdAssumption DEF PoolInv, NumInv, ListInv, ArgInv
<1>4. Still
    BY SMT DEF PoolInv, ArgInv, Still, NumInv
<1> QED BY <1>1, <1>2, <1>3, <1>4, StillKeeps

\* srd_change_store moves threads only.
LEMMA srd_change_storeStep ==
    ASSUME SrdInv, srd_change_store
    PROVE  SrdInv'
<1> USE Threads DEF SrdInv, srd_change_store, At, Go, GoAndPublish, srdVars,
        validateVars, appVars, threadVars, envVars, ghostVars, roundVars
<1>1. NumInv'
    BY SrdAssumption DEF NumInv, Info
<1>2. PoolInv'
    BY SMT DEF PoolInv, NumInv, Label, MainLabel, WorkerLabel, OtherLabel
<1>3. ArgInv'
    <2>1. arg' = [arg EXCEPT ![main] = 0]
        OBVIOUS
    <2>2. 0 \in Int
        BY SrdAssumption DEF ArgInv, NumInv, ListInv
    <2>3. \A q \in {main, client} : q # main => pc'[q] = pc[q]
        BY SMT DEF PoolInv
    <2>4. pc'[main] = "idle"
        BY SMT DEF PoolInv
    <2>5. /\ arg' = [q \in {main, client} |-> arg'[q]]
          /\ arg'[main] = 0
          /\ \A q \in {main, client} : q # main => arg'[q] = arg[q]
        BY <2>1, ArgSet
    <2> QED BY <2>1, <2>2, <2>3, <2>4, <2>5, Threads DEF ArgInv
<1>4. Still
    BY SMT DEF PoolInv, ArgInv, Still, NumInv, Info
<1> QED BY <1>1, <1>2, <1>3, <1>4, StillKeeps

\* api_srd_change moves threads only.
LEMMA api_srd_changeStep ==
    ASSUME SrdInv, NEW c \in Changes, api_srd_change(c)
    PROVE  SrdInv'
<1> USE Threads DEF SrdInv, api_srd_change, At, Go, GoAndPublish, srdVars,
        validateVars, appVars, threadVars, envVars, ghostVars, roundVars
<1>1. NumInv'
    BY DEF NumInv
<1>2. PoolInv'
    BY SMT DEF PoolInv, NumInv, Label, MainLabel, WorkerLabel, OtherLabel
<1>3. ArgInv'
    <2>1. arg' = [arg EXCEPT ![client] = TrueChange(c)]
        OBVIOUS
    <2>2. TrueChange(c) \in Int
        BY TrueChangeType DEF SrdInv
    <2>3. \A q \in {main, client} : q # client => pc'[q] = pc[q]
        BY SMT DEF PoolInv
    <2>4. pc'[client] = "size"
        BY SMT DEF PoolInv
    <2>5. /\ arg' = [q \in {main, client} |-> arg'[q]]
          /\ arg'[client] = TrueChange(c)
          /\ \A q \in {main, client} : q # client => arg'[q] = arg[q]
        BY <2>1, ArgSet
    <2> QED BY <2>1, <2>2, <2>3, <2>4, <2>5, Threads DEF ArgInv
<1>4. Still
    BY SMT DEF PoolInv, ArgInv, Still, NumInv
<1> QED BY <1>1, <1>2, <1>3, <1>4, StillKeeps

\* srd_check_reserved moves threads only.
LEMMA srd_check_reservedStep ==
    ASSUME SrdInv, srd_check_reserved
    PROVE  SrdInv'
<1> USE Threads DEF SrdInv, srd_check_reserved, At, Go, GoAndPublish, srdVars,
        validateVars, appVars, threadVars, envVars, ghostVars, roundVars
<1>1. NumInv'
    BY SrdAssumption DEF NumInv
<1>2. PoolInv'
    BY SMT DEF PoolInv, NumInv, Label, MainLabel, WorkerLabel, OtherLabel
<1>3. ArgInv'
    BY SrdAssumption DEF PoolInv, NumInv, ListInv, ArgInv
<1>4. Still
    BY SMT DEF PoolInv, ArgInv, Still, NumInv
<1> QED BY <1>1, <1>2, <1>3, <1>4, StillKeeps

\* srd_remove_space_refused moves threads only.
LEMMA srd_remove_space_refusedStep ==
    ASSUME SrdInv, srd_remove_space_refused
    PROVE  SrdInv'
<1> USE Threads DEF SrdInv, srd_remove_space_refused, At, Go, GoAndPublish,
        srdVars, validateVars, appVars, threadVars, envVars, ghostVars, roundVars
<1>1. NumInv'
    BY SrdAssumption DEF NumInv
<1>2. PoolInv'
    BY SMT DEF PoolInv, NumInv, Label, MainLabel, WorkerLabel, OtherLabel
<1>3. ArgInv'
    BY SrdAssumption DEF PoolInv, NumInv, ListInv, ArgInv
<1>4. Still
    BY SMT DEF PoolInv, ArgInv, Still, NumInv
<1> QED BY <1>1, <1>2, <1>3, <1>4, StillKeeps

\* srd_remove_space_overrun moves threads only.
LEMMA srd_remove_space_overrunStep ==
    ASSUME SrdInv, srd_remove_space_overrun
    PROVE  SrdInv'
<1> USE Threads DEF SrdInv, srd_remove_space_overrun, At, Go, GoAndPublish,
        srdVars, validateVars, appVars, threadVars, envVars, ghostVars, roundVars
<1>1. NumInv'
    BY SrdAssumption DEF NumInv
<1>2. PoolInv'
    BY SMT DEF PoolInv, NumInv, Label, MainLabel, WorkerLabel, OtherLabel
<1>3. ArgInv'
    BY SrdAssumption DEF PoolInv, NumInv, ListInv, ArgInv
<1>4. Still
    BY SMT DEF PoolInv, ArgInv, Still, NumInv
<1> QED BY <1>1, <1>2, <1>3, <1>4, StillKeeps

\* report_reset_validated_proof moves threads only.
LEMMA report_reset_validated_proofStep ==
    ASSUME SrdInv, report_reset_validated_proof
    PROVE  SrdInv'
<1> USE Threads DEF SrdInv, report_reset_validated_proof, At, Go, GoAndPublish,
        srdVars, validateVars, appVars, threadVars, envVars, ghostVars, roundVars
<1>1. NumInv'
    BY SrdAssumption DEF NumInv
<1>2. PoolInv'
    BY SMT DEF PoolInv, NumInv, Label, MainLabel, WorkerLabel, OtherLabel
<1>3. ArgInv'
    BY SrdAssumption DEF PoolInv, NumInv, ListInv, ArgInv
<1>4. Still
    BY SMT DEF PoolInv, ArgInv, Still, NumInv
<1> QED BY <1>1, <1>2, <1>3, <1>4, StillKeeps

\* use_disk moves threads only.
LEMMA use_diskStep ==
    ASSUME SrdInv, NEW d \in Disk, use_disk(d)
    PROVE  SrdInv'
<1> USE Threads DEF SrdInv, use_disk, Fault, At, Go, GoAndPublish, srdVars,
        validateVars, appVars, threadVars, envVars, ghostVars, roundVars
<1>1. NumInv'
    <2>1. PICK n \in {0, Capacity[d]} : other_use' = [other_use EXCEPT ![d] = n]
        OBVIOUS
    <2>2. n \in Nat
        BY SrdAssumption
    <2>3. other_use' \in [Disk -> Nat]
        BY <2>1, <2>2 DEF NumInv
    <2> QED BY <2>3 DEF NumInv
<1>2. PoolInv'
    BY SMT DEF PoolInv, NumInv, Label, MainLabel, WorkerLabel, OtherLabel
<1>3. ArgInv'
    BY SrdAssumption DEF PoolInv, NumInv, ListInv, ArgInv
<1>4. Still
    BY SMT DEF PoolInv, ArgInv, Still, NumInv
<1> QED BY <1>1, <1>2, <1>3, <1>4, StillKeeps

\* set_upgrade_status moves threads only.
LEMMA set_upgrade_statusStep ==
    ASSUME SrdInv, set_upgrade_status
    PROVE  SrdInv'
<1> USE Threads DEF SrdInv, set_upgrade_status, At, Go, GoAndPublish, srdVars,
        validateVars, appVars, threadVars, envVars, ghostVars, roundVars
<1>1. NumInv'
    BY SrdAssumption DEF NumInv
<1>2. PoolInv'
    BY SMT DEF PoolInv, NumInv, Label, MainLabel, WorkerLabel, OtherLabel
<1>3. ArgInv'
    BY SrdAssumption DEF PoolInv, NumInv, ListInv, ArgInv
<1>4. Still
    BY SMT DEF PoolInv, ArgInv, Still, NumInv
<1> QED BY <1>1, <1>2, <1>3, <1>4, StillKeeps

\* get_srd_info moves threads only.
LEMMA get_srd_infoStep ==
    ASSUME SrdInv, NEW p \in Proc, get_srd_info(p)
    PROVE  SrdInv'
<1> USE Threads DEF SrdInv, get_srd_info, At, Go, GoAndPublish, srdVars,
        validateVars, appVars, threadVars, envVars, ghostVars, roundVars
<1>1. NumInv'
    BY SrdAssumption DEF NumInv
<1>2. PoolInv'
    BY SMT DEF PoolInv, NumInv, Label, MainLabel, WorkerLabel, OtherLabel
<1>3. ArgInv'
    BY SrdAssumption DEF PoolInv, NumInv, ListInv, ArgInv
<1>4. Still
    BY SMT DEF PoolInv, ArgInv, Still, NumInv
<1> QED BY <1>1, <1>2, <1>3, <1>4, StillKeeps

\* ocall_set_srd_info moves threads only.
LEMMA ocall_set_srd_infoStep ==
    ASSUME SrdInv, NEW p \in Proc, ocall_set_srd_info(p)
    PROVE  SrdInv'
<1> USE Threads DEF SrdInv, ocall_set_srd_info, NoInfo, Info, At, Go,
        GoAndPublish, srdVars, validateVars, appVars, threadVars, envVars,
        ghostVars, roundVars
<1>1. NumInv'
    BY DEF NumInv, PoolInv
<1>2. PoolInv'
    BY SMT DEF PoolInv, NumInv, Label, MainLabel, WorkerLabel, OtherLabel
<1>3. ArgInv'
    BY SrdAssumption DEF PoolInv, NumInv, ListInv, ArgInv
<1>4. Still
    BY SMT DEF PoolInv, ArgInv, Still, NumInv
<1> QED BY <1>1, <1>2, <1>3, <1>4, StillKeeps

\* The statistics stay exact when neither the list nor they nor the threads
\* that have still to count change.
LEMMA CountFrame ==
    ASSUME CountInv, UNCHANGED <<srd_hashs, srd_info>>, Uncounted' = Uncounted,
           \A w \in Uncounted : worker'[w].disk = worker[w].disk
    PROVE  CountInv'
<1>1. \A d \in Disk : UncountedOn(d)' = UncountedOn(d)
    BY DEF UncountedOn
<1>2. \A d \in Disk : Held(d)' = Held(d)
    BY DEF Held
<1> QED BY <1>1, <1>2 DEF CountInv, InfoExact, Uncounted, UncountedOn

-----------------------------------------------------------------------------
(* The steps that concern units. *)

\* Erasing indexes: what is left was in the list at another index, each unit
\* once, and the statistics still count it.
LEMMA EraseEffect ==
    ASSUME SrdInv, NEW I, Erase(I), pc[main] # "wait",
           \A w \in Worker : pc'[w] = pc[w]
    PROVE  /\ srd_hashs' \in Seq(Unit)
           /\ \A k \in 1..Len(srd_hashs') : \E i \in 1..Len(srd_hashs) :
                 i \notin I /\ srd_hashs'[k] = srd_hashs[i]
           /\ \A k, l \in 1..Len(srd_hashs') : srd_hashs'[k] = srd_hashs'[l] => k = l
           /\ srd_info' \in Info
           /\ CountInv'
<1> DEFINE gone == 1..Len(srd_hashs) \cap I
           kept == 1..Len(srd_hashs) \ I
           on == [d \in Disk |-> -Cardinality(OnDisk(srd_hashs, gone, d))]
<1>1. srd_hashs \in Seq(Unit) /\ srd_info \in Info
    BY DEF SrdInv, ListInv, NumInv
<1>2. /\ srd_hashs' = delete_srd_meta(srd_hashs, I)
      /\ srd_info' = set_srd_info(srd_info, -Cardinality(gone), on)
    BY DEF Erase
<1>3. srd_hashs' \in Seq(Unit) /\ Moved(srd_hashs, kept, srd_hashs')
    BY <1>1, <1>2, Compacted
<1>4. Shrunk(srd_hashs, gone, srd_hashs')
    BY <1>1, <1>2, CompactedCount
<1>41. Len(srd_hashs') \in Nat /\ Len(srd_hashs) \in Nat
    BY <1>1, <1>3
<1> HIDE DEF gone
<1>5. /\ -Cardinality(gone) \in Int /\ on \in [Disk -> Int]
      /\ \A d \in Disk : on[d] = -Cardinality(OnDisk(srd_hashs, gone, d))
    BY <1>4, <1>41 DEF Shrunk
<1>6. \A k \in 1..Len(srd_hashs') : \E i \in 1..Len(srd_hashs) :
          i \notin I /\ srd_hashs'[k] = srd_hashs[i]
    BY <1>3 DEF Moved
<1>7. \A k, l \in 1..Len(srd_hashs') : srd_hashs'[k] = srd_hashs'[l] => k = l
    <2> SUFFICES ASSUME NEW k \in 1..Len(srd_hashs'), NEW l \in 1..Len(srd_hashs'),
                        srd_hashs'[k] = srd_hashs'[l]
                 PROVE  k = l
        OBVIOUS
    <2>1. /\ Nth(kept, k) \in kept /\ srd_hashs'[k] = srd_hashs[Nth(kept, k)]
          /\ Nth(kept, l) \in kept /\ srd_hashs'[l] = srd_hashs[Nth(kept, l)]
        BY <1>3 DEF Moved
    <2>2. Nth(kept, k) = Nth(kept, l)
        BY <2>1 DEF SrdInv, UnitInv
    <2> QED BY <2>2, <1>3 DEF Moved
<1> HIDE DEF on
<1>8. /\ srd_info' \in Info
      /\ srd_info'.complete \in Nat
      /\ srd_info'.complete = IF srd_info.complete + -Cardinality(gone) <= 0 THEN 0
                              ELSE srd_info.complete + -Cardinality(gone)
      /\ \A d \in Disk : srd_info'.detail[d] = srd_info.detail[d] + on[d]
    BY <1>1, <1>2, <1>5, InfoKept
<1>9. CountInv'
    <2>1. Uncounted = {} /\ Uncounted' = {}
        BY DEF SrdInv, PoolInv, Uncounted
    <2>2. \A d \in Disk : UncountedOn(d) = {} /\ UncountedOn(d)' = {}
        BY <2>1 DEF UncountedOn
    <2>3. Cardinality({}) = 0
        BY FS_EmptySet
    <2>4. /\ srd_info.complete = Len(srd_hashs)
          /\ \A d \in Disk : srd_info.detail[d] = Cardinality(Held(d))
        <3>1. /\ srd_info.complete = Len(srd_hashs) - Cardinality(Uncounted)
              /\ \A d \in Disk : srd_info.detail[d] =
                    Cardinality(Held(d)) - Cardinality(UncountedOn(d))
            BY CountInvMeans DEF SrdInv
        <3>2. \A d \in Disk : srd_info.detail[d] \in Int
            BY <1>1 DEF Info
        <3>3. \A d \in Disk : Cardinality(Held(d)) \in Int
            <4> SUFFICES ASSUME NEW d \in Disk PROVE Cardinality(Held(d)) \in Int
                OBVIOUS
            <4>1. IsFiniteSet(1..Len(srd_hashs))
                BY <1>41, FS_Interval
            <4>2. Held(d) \in SUBSET (1..Len(srd_hashs))
                BY DEF Held, OnDisk
            <4>3. IsFiniteSet(Held(d))
                BY <4>1, <4>2, FS_Subset
            <4> QED BY <4>3, FS_CardinalityType
        <3>4. /\ Cardinality(Uncounted) = 0
              /\ \A d \in Disk : Cardinality(UncountedOn(d)) = 0
            BY <2>1, <2>2, <2>3
        <3> QED BY <3>1, <3>3, <3>4, <1>41
    <2>5. srd_info'.complete = Len(srd_hashs')
        BY <1>41, <1>4, <1>8, <2>4 DEF Shrunk
    <2>6. ASSUME NEW d \in Disk PROVE srd_info'.detail[d] = Cardinality(Held(d)')
        <3>1. /\ Held(d) = OnDisk(srd_hashs, 1..Len(srd_hashs), d)
              /\ Held(d)' = OnDisk(srd_hashs', 1..Len(srd_hashs'), d)
            BY DEF Held
        <3>2. srd_info.detail[d] \in Int /\ srd_info.detail[d] = Cardinality(Held(d))
            BY <1>1, <2>4 DEF Info
        <3>3. srd_info'.detail[d] = srd_info.detail[d] - Cardinality(OnDisk(srd_hashs, gone, d))
            BY <3>2, <1>4, <1>5, <1>8 DEF Shrunk
        <3> QED BY <3>1, <3>2, <3>3, <1>4 DEF Shrunk
    <2>7. /\ Len(srd_hashs') \in Nat
          /\ \A d \in Disk : srd_info'.detail[d] \in Int
        BY <1>3, <1>8 DEF Info
    <2>71. /\ Cardinality(Uncounted') = 0
           /\ \A d \in Disk : Cardinality(UncountedOn(d)') = 0
        BY <2>1, <2>2, <2>3
    <2>8. /\ srd_info'.complete = Len(srd_hashs') - Cardinality(Uncounted')
          /\ \A d \in Disk : srd_info'.detail[d] =
                Cardinality(Held(d)') - Cardinality(UncountedOn(d)')
        BY <2>2, <2>3, <2>5, <2>6, <2>7, <2>71
    <2> QED BY <1>8, <2>8 DEF CountInv, InfoExact, Uncounted, UncountedOn
<1> QED BY <1>3, <1>6, <1>7, <1>8, <1>9

\* Setting the unit of a pool's thread leaves the rest alone.
WithUnit(f, w, u) == [f EXCEPT ![w].unit = u]

\* Such a function still gives every thread of the pool its task.
LEMMA TaskUnitSet ==
    ASSUME NEW f \in [Worker -> Task], NEW w \in Worker, NEW u \in Unit \cup {<<>>}
    PROVE  /\ WithUnit(f, w, u) \in [Worker -> Task]
           /\ \A x \in Worker : WithUnit(f, w, u)[x].disk = f[x].disk
<1> DEFINE new == [f[w] EXCEPT !.unit = u]
<1>1. f[w] \in Task
    OBVIOUS
<1>2. new \in Task /\ new.disk = f[w].disk
    BY <1>1 DEF Task
<1>3. WithUnit(f, w, u) = [f EXCEPT ![w] = new]
    BY DEF WithUnit
<1> HIDE DEF new
<1> QED BY <1>2, <1>3

\* The numbers of units and of uncounted ones are finite.
LEMMA HeldCount ==
    ASSUME SrdInv, NEW d \in Disk
    PROVE  /\ IsFiniteSet(Held(d)) /\ Cardinality(Held(d)) \in Nat
           /\ IsFiniteSet(Uncounted) /\ Cardinality(Uncounted) \in Nat
           /\ IsFiniteSet(UncountedOn(d)) /\ Cardinality(UncountedOn(d)) \in Nat
<1>1. IsFiniteSet(Held(d))
    <2>1. Len(srd_hashs) \in Nat
        BY DEF SrdInv, ListInv
    <2>2. IsFiniteSet(1..Len(srd_hashs))
        BY <2>1, IndexCount
    <2>3. Held(d) \in SUBSET (1..Len(srd_hashs))
        BY DEF Held, OnDisk
    <2> QED BY <2>2, <2>3, FS_Subset
<1>2. IsFiniteSet(Uncounted)
    <2>1. Uncounted \in SUBSET Worker
        BY DEF Uncounted
    <2> QED BY <2>1, Threads, FS_Subset
<1>3. IsFiniteSet(UncountedOn(d))
    <2>1. UncountedOn(d) \in SUBSET Uncounted
        BY DEF UncountedOn
    <2> QED BY <2>1, <1>2, FS_Subset
<1> QED BY <1>1, <1>2, <1>3, FS_CardinalityType

\* The units stay in order when the list and the disks stay as they are, only
\* units of the list are condemned, and no thread becomes one that has a unit.
LEMMA UnitFrame ==
    ASSUME UnitInv, UNCHANGED <<made, srd_dir, srd_hashs>>,
           condemned' \subseteq condemned \cup {srd_hashs[i] : i \in 1..Len(srd_hashs)},
           \A w \in Worker : pc'[w] = "made" => pc[w] = "made" /\ worker'[w] = worker[w]
    PROVE  UnitInv'
<1>1. /\ (made \in Nat)' /\ (srd_dir \subseteq Sealed)' /\ (condemned \subseteq Sealed)'
      /\ \A i \in 1..Len(srd_hashs)' : srd_hashs'[i] \in Sealed'
    BY DEF UnitInv, Sealed
<1>2. \A i, j \in 1..Len(srd_hashs)' : srd_hashs'[i] = srd_hashs'[j] => i = j
    BY DEF UnitInv
<1>3. ASSUME NEW w \in Worker, pc'[w] = "made"
      PROVE  /\ worker'[w].unit \in srd_dir'
             /\ worker'[w].unit \notin condemned'
             /\ \A i \in 1..Len(srd_hashs)' : srd_hashs'[i] # worker'[w].unit
             /\ DiskOf(worker'[w].unit) = worker'[w].disk
    BY <1>3 DEF UnitInv
<1>4. \A w, v \in Worker : /\ pc'[w] = "made" /\ pc'[v] = "made"
                           /\ worker'[w].unit = worker'[v].unit
                           => w = v
    BY DEF UnitInv
<1> QED BY <1>1, <1>2, <1>3, <1>4 DEF UnitInv

\* A step of the validation that leaves units, buffer and statistics alone.
Checking ==
    /\ UNCHANGED <<srdVars, srd_dir, condemned, g_del_srd_v, del_srds, overtaken,
                   made, appVars, other_use, arg, pub, dump>>
    /\ \/ pc' = pc
       \/ /\ pc[main] \in {"idle", "validate", "reset"}
          /\ \E l \in {"validate", "reset", "check", "deal"} : pc' = [pc EXCEPT ![main] = l]
    /\ \A c \in Checker :
          TaskAt(c, "add") => TaskAt(c, "add")' /\ task'[c].unit = task[c].unit

\* What such a step keeps.
LEMMA CheckingKeeps ==
    ASSUME SrdInv, Checking
    PROVE  /\ NumInv' /\ ListInv' /\ PoolInv' /\ ArgInv' /\ UnitInv'
           /\ BufferInv' /\ HeldInv' /\ CountInv'
<1> USE Threads DEF SrdInv, srdVars, appVars
<1>1. NumInv' /\ ListInv'
    BY DEF Checking, NumInv, ListInv
<1>2. /\ \A w \in Worker : pc'[w] = pc[w]
      /\ \A p \in Proc : p # main => pc'[p] = pc[p]
      /\ pc' \in [Proc -> Label]
      /\ pc'[main] = "wait" => pc[main] = "wait"
      /\ pc'[main] = "cut" => pc[main] = "cut"
    BY DEF Checking, PoolInv, Label, MainLabel
<1>3. PoolInv'
    BY <1>2 DEF Checking, PoolInv
<1>4. ArgInv'
    BY SMT DEF Checking, ArgInv, PoolInv
<1>5. UnitInv'
    BY <1>2 DEF Checking, UnitInv, Sealed
<1>6. BufferInv'
    BY <1>2 DEF Checking, BufferInv, BufferedIsCondemned
<1>7. HeldInv'
    <2>1. \A i \in 1..Len(srd_hashs) : Leaving(i) => Leaving(i)'
        BY DEF Checking, Leaving
    <2>2. Doomed' = Doomed
        BY DEF Checking, Doomed
    <2> QED BY <2>1, <2>2 DEF Checking, HeldInv
<1>8. CountInv'
    <2>1. Uncounted' = Uncounted /\ \A w \in Uncounted : worker'[w].disk = worker[w].disk
        BY <1>2 DEF Checking, Uncounted
    <2> QED BY <2>1, CountFrame DEF Checking
<1> QED BY <1>1, <1>3, <1>4, <1>5, <1>6, <1>7, <1>8

\* A thread of the validate pool changes its own task only.
LEMMA TaskSet ==
    ASSUME task \in [Checker -> CheckTask], NEW c \in Checker, NEW r \in CheckTask,
           task' = [task EXCEPT ![c] = r]
    PROVE  /\ task' \in [Checker -> CheckTask]
           /\ task'[c] = r
           /\ \A d \in Checker : d # c => task'[d] = task[d]
OBVIOUS

\* No task is touched by a new random number but for what it compares with it.
LEMMA RedrawnKeeps ==
    ASSUME task \in [Checker -> CheckTask], task' = Redrawn
    PROVE  /\ task' \in [Checker -> CheckTask]
           /\ \A c \in Checker :
                 /\ task'[c].pc = task[c].pc /\ task'[c].idx = task[c].idx
                 /\ task'[c].unit = task[c].unit /\ task'[c].bad = task[c].bad
                 /\ task'[c].old = task[c].old
<1>1. ASSUME NEW r \in CheckTask
      PROVE  /\ [r EXCEPT !.same = FALSE] \in CheckTask
             /\ [r EXCEPT !.same = FALSE].pc = r.pc
             /\ [r EXCEPT !.same = FALSE].idx = r.idx
             /\ [r EXCEPT !.same = FALSE].unit = r.unit
             /\ [r EXCEPT !.same = FALSE].bad = r.bad
             /\ [r EXCEPT !.same = FALSE].old = r.old
    BY DEF CheckTask
<1>2. \A c \in Checker : task'[c] = [task[c] EXCEPT !.same = FALSE]
    BY DEF Redrawn
<1>3. \A c \in Checker : [task[c] EXCEPT !.same = FALSE] \in CheckTask
    BY <1>1
<1>4. task' \in [Checker -> CheckTask]
    BY <1>3 DEF Redrawn
<1> QED BY <1>1, <1>2, <1>4

\* The entry the iterator points at is one of the map.
LEMMA NextIsEntry ==
    ASSUME TaskInv, ListInv, UnitInv, g_validate_srd_m_iter # {}
    PROVE  /\ NextEntry \in g_validate_srd_m
           /\ NextEntry.idx \in 1..Len(srd_hashs) /\ NextEntry.idx \in Nat \ {0}
           /\ NextEntry.unit = srd_hashs[NextEntry.idx]
           /\ NextEntry.unit \in Sealed /\ NextEntry.unit \in Unit
           /\ NextEntry.unit \in Units(srd_hashs)
<1> DEFINE S == {e.idx : e \in g_validate_srd_m_iter}
           n == Len(srd_hashs)
<1>1. n \in Nat /\ S \in SUBSET (1..n) /\ S # {}
    BY DEF TaskInv, ListInv
<1>2. PICK i \in S : \A j \in S : i <= j
    BY <1>1, FirstIndex
<1>3. PICK e \in g_validate_srd_m_iter : e.idx = i
    OBVIOUS
<1>4. \A f \in g_validate_srd_m_iter : e.idx <= f.idx
    BY <1>2, <1>3
<1>5. NextEntry \in g_validate_srd_m_iter
    BY <1>4 DEF NextEntry
<1> QED BY <1>5 DEF TaskInv, ListInv, UnitInv, Units

\* The file round before draws a random number; no task loses its entry.
LEMMA ecall_main_loopStep ==
    ASSUME SrdInv, ecall_main_loop
    PROVE  SrdInv'
<1> USE Threads DEF SrdInv, ecall_main_loop, At, Go, srdVars, roundVars,
        validateVars, appVars, threadVars, envVars, ghostVars
<1>1. task' \in [Checker -> CheckTask]
      /\ \A c \in Checker :
            /\ task'[c].pc = task[c].pc /\ task'[c].idx = task[c].idx
            /\ task'[c].unit = task[c].unit /\ task'[c].bad = task[c].bad
            /\ task'[c].old = task[c].old
    <2>1. CASE task' = task
        BY <2>1 DEF RoundInv
    <2>2. CASE task' = Redrawn
        BY <2>2, RedrawnKeeps DEF RoundInv
    <2> QED BY <2>1, <2>2
<1>2. Checking
    BY <1>1 DEF Checking, TaskAt
<1>3. \A c \in Checker : HasEntry(c)' = HasEntry(c)
    BY <1>1 DEF HasEntry
<1>4. ~InRound
    BY DEF InRound
<1>5. \A c \in Checker : EntryInv(c)'
    BY <1>1, <1>3, <1>4 DEF EntryInv, RoundInv
<1>6. RoundInv'
    BY <1>1, <1>4, <1>5 DEF RoundInv, PushedInv
<1>7. TaskInv'
    BY DEF TaskInv
<1> QED BY <1>2, <1>6, <1>7, CheckingKeeps

\* A round begins with indexes of the list as it is.
LEMMA validate_srdStep ==
    ASSUME SrdInv, validate_srd
    PROVE  SrdInv'
<1> USE Threads DEF SrdInv, validate_srd, Chosen, At, Go, srdVars, roundVars,
        validateVars, appVars, threadVars, envVars, ghostVars
<1>1. task' \in [Checker -> CheckTask]
      /\ \A c \in Checker :
            /\ task'[c].pc = task[c].pc /\ task'[c].idx = task[c].idx
            /\ task'[c].unit = task[c].unit /\ task'[c].bad = task[c].bad
            /\ task'[c].old = task[c].old
    <2>1. CASE task' = task
        BY <2>1 DEF RoundInv
    <2>2. CASE task' = Redrawn
        BY <2>2, RedrawnKeeps DEF RoundInv
    <2> QED BY <2>1, <2>2
<1>2. Checking
    BY <1>1 DEF Checking, TaskAt
<1>3. \A c \in Checker : HasEntry(c)' = HasEntry(c)
    BY <1>1 DEF HasEntry
<1>4. ~InRound
    BY DEF InRound
<1>5. \A c \in Checker : EntryInv(c)'
    BY <1>1, <1>3, <1>4 DEF EntryInv, RoundInv
<1>6. g_validate_srd_m' # {} => InRound'
    BY <1>4 DEF RoundInv, InRound, PoolInv
<1>7. RoundInv'
    BY <1>1, <1>4, <1>5, <1>6 DEF RoundInv, PushedInv
<1>8. TaskInv'
    BY DEF TaskInv, ListInv
<1> QED BY <1>2, <1>7, <1>8, CheckingKeeps

\* The tasks of the round are queued.
LEMMA validate_srd_queueStep ==
    ASSUME SrdInv, validate_srd_queue
    PROVE  SrdInv'
<1> USE Threads DEF SrdInv, validate_srd_queue, At, Go, srdVars, roundVars,
        validateVars, appVars, threadVars, envVars, ghostVars
<1>1. Checking
    BY DEF Checking, TaskAt
<1>2. InRound /\ InRound'
    BY DEF InRound, PoolInv
<1>3. del_srds' \in [{main, remover} -> SUBSET condemned']
    BY DEF RoundInv
<1>4. RoundInv' /\ TaskInv'
    BY <1>2, <1>3, RoundFrame
<1> QED BY <1>1, <1>4, CheckingKeeps

\* Past the end of the iterator nothing more happens.
LEMMA recall_failed_past_the_endStep ==
    ASSUME SrdInv, recall_failed_past_the_end
    PROVE  SrdInv'
<1> USE Threads DEF SrdInv, recall_failed_past_the_end, PastTheEnd, At, Go, srdVars, roundVars,
        validateVars, appVars, threadVars, envVars, ghostVars
<1>1. NumInv' /\ PoolInv' /\ ArgInv'
    BY DEF NumInv, PoolInv, ArgInv
<1>2. Still
    BY DEF Still
<1> QED BY <1>1, <1>2, StillKeeps

\* Past the end of the iterator nothing more happens.
LEMMA take_past_the_endStep ==
    ASSUME SrdInv, NEW c \in Checker, take_past_the_end(c)
    PROVE  SrdInv'
<1> USE Threads DEF SrdInv, take_past_the_end, PastTheEnd, At, Go, srdVars, roundVars,
        validateVars, appVars, threadVars, envVars, ghostVars
<1>1. NumInv' /\ PoolInv' /\ ArgInv'
    BY DEF NumInv, PoolInv, ArgInv
<1>2. Still
    BY DEF Still
<1> QED BY <1>1, <1>2, StillKeeps

\* A task that begins has no entry yet.
LEMMA validate_srd_realStep ==
    ASSUME SrdInv, NEW c \in Checker, validate_srd_real(c)
    PROVE  SrdInv'
<1> USE Threads DEF SrdInv, validate_srd_real, At, Go, srdVars, roundVars,
        validateVars, appVars, threadVars, envVars, ghostVars
<1> DEFINE new == [NoTask EXCEPT !.pc = "take", !.same = TRUE]
<1>1. task[c] \in CheckTask /\ EntryInv(c)
    BY DEF RoundInv
<1>2. new \in CheckTask /\ new.pc = "take" /\ ~new.bad /\ task[c].pc = "free"
    BY DEF CheckTask, NoTask, TaskAt
<1>3. task' = [task EXCEPT ![c] = new]
    OBVIOUS
<1> HIDE DEF new
<1>4. /\ task' \in [Checker -> CheckTask]
      /\ task'[c] = new
      /\ \A d \in Checker : d # c => task'[d] = task[d]
    BY <1>2, <1>3, TaskSet DEF RoundInv
<1>5. Checking
    BY <1>2, <1>4 DEF Checking, TaskAt
<1>6. EntryInv(c)'
    BY <1>1, <1>2, <1>4 DEF EntryInv, HasEntry, TaskAt, InRound
<1>7. \A d \in Checker : EntryInv(d)'
    <2> SUFFICES ASSUME NEW d \in Checker, d # c PROVE EntryInv(d)'
        BY <1>6
    <2> QED BY <1>4 DEF RoundInv, EntryInv, HasEntry, InRound
<1>8. RoundInv'
    BY <1>4, <1>7 DEF RoundInv, PushedInv, InRound
<1>9. TaskInv'
    BY DEF TaskInv
<1> QED BY <1>5, <1>8, <1>9, CheckingKeeps

\* A task takes an entry of the list as it is.
LEMMA take_entryStep ==
    ASSUME SrdInv, NEW c \in Checker, take_entry(c)
    PROVE  SrdInv'
<1> USE Threads DEF SrdInv, take_entry, At, Go, srdVars, roundVars,
        validateVars, appVars, threadVars, envVars, ghostVars
<1> DEFINE new == [task[c] EXCEPT !.pc = "read", !.idx = NextEntry.idx, !.unit = NextEntry.unit]
<1>1. task[c] \in CheckTask /\ EntryInv(c)
    BY DEF RoundInv
<1>a. /\ NextEntry \in g_validate_srd_m
      /\ NextEntry.idx \in 1..Len(srd_hashs) /\ NextEntry.idx \in Nat \ {0}
      /\ NextEntry.unit = srd_hashs[NextEntry.idx] /\ NextEntry.unit \in Unit
    BY NextIsEntry
<1>b. InRound
    BY <1>a DEF RoundInv
<1>2. /\ new \in CheckTask /\ new.pc = "read" /\ task[c].pc = "take"
      /\ new.idx = NextEntry.idx /\ new.unit = NextEntry.unit
      /\ new.bad = task[c].bad /\ new.old = task[c].old
    BY <1>1, <1>a DEF CheckTask, TaskAt
<1>3. task' = [task EXCEPT ![c] = new]
    OBVIOUS
<1> HIDE DEF new
<1>4. /\ task' \in [Checker -> CheckTask]
      /\ task'[c] = new
      /\ \A d \in Checker : d # c => task'[d] = task[d]
    BY <1>2, <1>3, TaskSet DEF RoundInv
<1>5. Checking
    BY <1>2, <1>4 DEF Checking, TaskAt
<1>6. EntryInv(c)'
    <2>1. ~new.bad
        BY <1>1, <1>2 DEF EntryInv
    <2>2. UNCHANGED <<pc, srd_hashs>>
        OBVIOUS
    <2> QED BY <1>2, <1>4, <1>a, <1>b, <2>1, <2>2 DEF EntryInv, InRound
<1>7. \A d \in Checker : EntryInv(d)'
    <2> SUFFICES ASSUME NEW d \in Checker, d # c PROVE EntryInv(d)'
        BY <1>6
    <2> QED BY <1>4 DEF RoundInv, EntryInv, HasEntry, InRound
<1>8. RoundInv'
    BY <1>4, <1>7 DEF RoundInv, PushedInv, InRound
<1>9. TaskInv'
    BY DEF TaskInv
<1> QED BY <1>5, <1>8, <1>9, CheckingKeeps

\* A task that goes on keeps what it found.
LEMMA look_at_randomStep ==
    ASSUME SrdInv, NEW c \in Checker, look_at_random(c)
    PROVE  SrdInv'
<1> USE Threads DEF SrdInv, look_at_random, At, Go, srdVars, roundVars,
        validateVars, appVars, threadVars, envVars, ghostVars
<1> DEFINE new == (IF task[c].same THEN [task[c] EXCEPT !.pc = "count"] ELSE NoTask)
<1>1. task[c] \in CheckTask /\ EntryInv(c)
    BY DEF RoundInv
<1>2. /\ new \in CheckTask /\ task[c].pc = "look"
      /\ \/ new = NoTask
         \/ /\ new.pc = "count" /\ new.idx = task[c].idx /\ new.unit = task[c].unit
            /\ new.bad = task[c].bad /\ new.old = task[c].old
    BY <1>1 DEF CheckTask, NoTask, TaskAt
<1>3. task' = [task EXCEPT ![c] = new]
    OBVIOUS
<1> HIDE DEF new
<1>4. /\ task' \in [Checker -> CheckTask]
      /\ task'[c] = new
      /\ \A d \in Checker : d # c => task'[d] = task[d]
    BY <1>2, <1>3, TaskSet DEF RoundInv
<1>5. Checking
    BY <1>2, <1>4 DEF Checking, TaskAt
<1>6. EntryInv(c)'
    BY <1>1, <1>2, <1>4 DEF EntryInv, HasEntry, NoTask, InRound
<1>7. \A d \in Checker : EntryInv(d)'
    <2> SUFFICES ASSUME NEW d \in Checker, d # c PROVE EntryInv(d)'
        BY <1>6
    <2> QED BY <1>4 DEF RoundInv, EntryInv, HasEntry, InRound
<1>8. RoundInv'
    BY <1>4, <1>7 DEF RoundInv, PushedInv, InRound
<1>9. TaskInv'
    BY DEF TaskInv
<1> QED BY <1>5, <1>8, <1>9, CheckingKeeps

\* A task is counted and goes on only if it has a verdict.
LEMMA count_taskStep ==
    ASSUME SrdInv, NEW c \in Checker, count_task(c)
    PROVE  SrdInv'
<1> USE Threads DEF SrdInv, count_task, At, Go, srdVars, roundVars,
        validateVars, appVars, threadVars, envVars, ghostVars
<1> DEFINE new == (IF task[c].bad THEN [task[c] EXCEPT !.pc = "push"] ELSE NoTask)
<1>1. task[c] \in CheckTask /\ EntryInv(c)
    BY DEF RoundInv
<1>2. /\ new \in CheckTask /\ task[c].pc = "count"
      /\ \/ new = NoTask
         \/ /\ new.pc = "push" /\ new.idx = task[c].idx /\ new.unit = task[c].unit
            /\ new.bad = task[c].bad /\ new.old = task[c].old /\ new.bad
    BY <1>1 DEF CheckTask, NoTask, TaskAt
<1>3. task' = [task EXCEPT ![c] = new]
    OBVIOUS
<1> HIDE DEF new
<1>4. /\ task' \in [Checker -> CheckTask]
      /\ task'[c] = new
      /\ \A d \in Checker : d # c => task'[d] = task[d]
    BY <1>2, <1>3, TaskSet DEF RoundInv
<1>5. Checking
    BY <1>2, <1>4 DEF Checking, TaskAt
<1>6. EntryInv(c)'
    BY <1>1, <1>2, <1>4 DEF EntryInv, HasEntry, NoTask, InRound
<1>7. \A d \in Checker : EntryInv(d)'
    <2> SUFFICES ASSUME NEW d \in Checker, d # c PROVE EntryInv(d)'
        BY <1>6
    <2> QED BY <1>4 DEF RoundInv, EntryInv, HasEntry, InRound
<1>8. RoundInv'
    BY <1>4, <1>7 DEF RoundInv, PushedInv, InRound
<1>9. TaskInv'
    BY DEF TaskInv
<1> QED BY <1>5, <1>8, <1>9, CheckingKeeps

\* A directory is doomed while its verdict is under way.
LEMMA push_unitStep ==
    ASSUME SrdInv, NEW c \in Checker, push_unit(c)
    PROVE  SrdInv'
<1> USE Threads DEF SrdInv, push_unit, At, Go, srdVars, roundVars,
        validateVars, appVars, threadVars, envVars, ghostVars
<1> DEFINE new == [task[c] EXCEPT !.pc = "add"]
<1>1. task[c] \in CheckTask /\ EntryInv(c)
    BY DEF RoundInv
<1>2. /\ new \in CheckTask /\ new.pc = "add" /\ task[c].pc = "push"
      /\ new.idx = task[c].idx /\ new.unit = task[c].unit
      /\ new.bad = task[c].bad /\ new.old = task[c].old
    BY <1>1 DEF CheckTask, TaskAt
<1>3. task' = [task EXCEPT ![c] = new]
    OBVIOUS
<1> HIDE DEF new
<1>4. /\ task' \in [Checker -> CheckTask]
      /\ task'[c] = new
      /\ \A d \in Checker : d # c => task'[d] = task[d]
    BY <1>2, <1>3, TaskSet DEF RoundInv
<1>5. /\ UNCHANGED <<pc, srd_hashs, srd_del_idx_s, srd_dir, condemned, del_srds>>
      /\ g_del_srd_v' = g_del_srd_v \cup {task[c].unit}
      /\ overtaken' \in BOOLEAN /\ (~overtaken' => ~overtaken /\ ~task[c].old)
    BY DEF RoundInv
<1>6. EntryInv(c)'
    BY <1>1, <1>2, <1>4, <1>5 DEF EntryInv, HasEntry, InRound
<1>7. \A d \in Checker : EntryInv(d)'
    <2> SUFFICES ASSUME NEW d \in Checker, d # c PROVE EntryInv(d)'
        BY <1>6
    <2> QED BY <1>4, <1>5 DEF RoundInv, EntryInv, HasEntry, InRound
<1>8. ~overtaken' => \A u \in g_del_srd_v' : PushedInv(u)'
    <2> SUFFICES ASSUME ~overtaken', NEW u \in g_del_srd_v' PROVE PushedInv(u)
        BY <1>5 DEF PushedInv, InRound, Units
    <2>1. CASE u \in g_del_srd_v
        BY <1>5, <2>1 DEF RoundInv
    <2>2. CASE u = task[c].unit
        BY <1>1, <1>2, <1>5, <2>2 DEF EntryInv, HasEntry, PushedInv, Units
    <2> QED BY <1>5, <2>1, <2>2
<1>9. RoundInv'
    BY <1>4, <1>5, <1>7, <1>8 DEF RoundInv, InRound
<1>10. TaskInv' /\ ListInv'
    BY DEF TaskInv, ListInv
<1>11. NumInv'
    BY DEF NumInv
<1>12. PoolInv' /\ ArgInv'
    BY DEF PoolInv, ArgInv
<1>13. UnitInv'
    <2>1. UNCHANGED <<made, srd_dir, srd_hashs>>
        OBVIOUS
    <2>2. condemned' \subseteq condemned \cup {srd_hashs[i] : i \in 1..Len(srd_hashs)}
        OBVIOUS
    <2>3. \A w \in Worker : pc'[w] = "made" => pc[w] = "made" /\ worker'[w] = worker[w]
        OBVIOUS
    <2> QED BY <2>1, <2>2, <2>3, UnitFrame
<1>14. BufferInv'
    BY <1>5 DEF BufferInv, BufferedIsCondemned
<1>15. HeldInv'
    <2> SUFFICES ASSUME ~overtaken', NEW i \in 1..Len(srd_hashs)
                 PROVE  Leaving(i)' \/ (srd_hashs[i] \in srd_dir /\ srd_hashs[i] \notin Doomed')
        BY <1>5 DEF HeldInv
    <2>1. Leaving(i) => Leaving(i)'
        BY <1>2, <1>4, <1>5 DEF Leaving, TaskAt
    <2>2. srd_hashs[i] = task[c].unit => Leaving(i)'
        BY <1>2, <1>4, <1>5 DEF Leaving, TaskAt
    <2>3. Doomed' = Doomed \cup {task[c].unit}
        BY <1>5 DEF Doomed
    <2> QED BY <1>5, <2>1, <2>2, <2>3 DEF HeldInv
<1>20. CountInv'
    <2>1. Uncounted' = Uncounted /\ \A w \in Uncounted : worker'[w].disk = worker[w].disk
        BY DEF Uncounted
    <2> QED BY <2>1, CountFrame
<1> QED BY <1>9, <1>10, <1>11, <1>12, <1>13, <1>14, <1>15, <1>20

\* A verdict in time is buffered with the index its unit has.
LEMMA add_srd_to_deleted_bufferStep ==
    ASSUME SrdInv, NEW c \in Checker, add_srd_to_deleted_buffer(c)
    PROVE  SrdInv'
<1> USE Threads DEF SrdInv, add_srd_to_deleted_buffer, At, Go, srdVars, roundVars,
        validateVars, appVars, threadVars, envVars, ghostVars
<1> DEFINE new == NoTask
<1>1. task[c] \in CheckTask /\ EntryInv(c)
    BY DEF RoundInv
<1>2. new \in CheckTask /\ new.pc = "free" /\ task[c].pc = "add" /\ HasEntry(c)
    BY <1>1 DEF CheckTask, NoTask, TaskAt, HasEntry
<1>3. task' = [task EXCEPT ![c] = new]
    OBVIOUS
<1> HIDE DEF new
<1>4. /\ task' \in [Checker -> CheckTask]
      /\ task'[c] = new
      /\ \A d \in Checker : d # c => task'[d] = task[d]
    BY <1>2, <1>3, TaskSet DEF RoundInv
<1>5. /\ UNCHANGED <<pc, srd_hashs, srd_dir, condemned, del_srds, g_del_srd_v>>
      /\ srd_del_idx_s' = srd_del_idx_s \cup {task[c].idx}
      /\ overtaken' \in BOOLEAN /\ (~overtaken' => ~overtaken /\ ~task[c].old)
    BY DEF RoundInv
<1>6. EntryInv(c)'
    BY <1>2, <1>4 DEF EntryInv, HasEntry
<1>7. \A d \in Checker : EntryInv(d)'
    <2> SUFFICES ASSUME NEW d \in Checker, d # c PROVE EntryInv(d)'
        BY <1>6
    <2> QED BY <1>4, <1>5 DEF RoundInv, EntryInv, HasEntry, InRound
<1>a. task[c].idx \in Nat \ {0} /\ Len(srd_hashs) \in Nat
    BY <1>1, <1>2 DEF EntryInv, CheckTask, ListInv
<1>b. ~overtaken' => /\ pc[main] # "cut"
                     /\ task[c].idx \in 1..Len(srd_hashs)
                     /\ task[c].unit = srd_hashs[task[c].idx]
                     /\ task[c].unit \in condemned
    BY <1>1, <1>2, <1>5 DEF EntryInv, InRound
<1>8. ~overtaken' => \A u \in g_del_srd_v' : PushedInv(u)'
    BY <1>5 DEF RoundInv, PushedInv, InRound, Units
<1>9. RoundInv'
    BY <1>4, <1>5, <1>7, <1>8 DEF RoundInv, InRound
<1>10. TaskInv' /\ ListInv'
    BY <1>a DEF TaskInv, ListInv
<1>11. NumInv'
    BY DEF NumInv
<1>12. PoolInv' /\ ArgInv'
    BY DEF PoolInv, ArgInv
<1>13. UnitInv'
    <2>1. UNCHANGED <<made, srd_dir, srd_hashs>>
        OBVIOUS
    <2>2. condemned' \subseteq condemned \cup {srd_hashs[i] : i \in 1..Len(srd_hashs)}
        OBVIOUS
    <2>3. \A w \in Worker : pc'[w] = "made" => pc[w] = "made" /\ worker'[w] = worker[w]
        OBVIOUS
    <2> QED BY <2>1, <2>2, <2>3, UnitFrame
<1>14. BufferInv'
    BY <1>5, <1>b DEF BufferInv, BufferedIsCondemned
<1>15. HeldInv'
    <2> SUFFICES ASSUME ~overtaken', NEW i \in 1..Len(srd_hashs)
                 PROVE  Leaving(i)' \/ (srd_hashs[i] \in srd_dir /\ srd_hashs[i] \notin Doomed')
        BY <1>5 DEF HeldInv
    <2>1. srd_hashs[i] = task[c].unit => i = task[c].idx
        BY <1>b DEF UnitInv
    <2>2. Leaving(i) => Leaving(i)'
        BY <1>4, <1>5, <2>1 DEF Leaving, TaskAt
    <2>3. Doomed' = Doomed
        BY <1>5 DEF Doomed
    <2> QED BY <1>5, <2>2, <2>3 DEF HeldInv
<1>20. CountInv'
    <2>1. Uncounted' = Uncounted /\ \A w \in Uncounted : worker'[w].disk = worker[w].disk
        BY DEF Uncounted
    <2> QED BY <2>1, CountFrame
<1> QED BY <1>9, <1>10, <1>11, <1>12, <1>13, <1>14, <1>15, <1>20

\* A unit found bad in time is condemned, and buffered with the index it has.
LEMMA read_unitStep ==
    ASSUME SrdInv, NEW c \in Checker, read_unit(c)
    PROVE  SrdInv'
<1> USE Threads DEF SrdInv, read_unit, Judged, At, Go, srdVars, roundVars,
        validateVars, appVars, threadVars, envVars, ghostVars
<1>0. PICK bad \in BOOLEAN : Judged(c, bad)
    OBVIOUS
<1> DEFINE new == [task[c] EXCEPT !.pc = "look", !.bad = bad]
<1>1. task[c] \in CheckTask /\ EntryInv(c)
    BY DEF RoundInv
<1>2. /\ new \in CheckTask /\ new.pc = "look" /\ task[c].pc = "read" /\ HasEntry(c)
      /\ new.idx = task[c].idx /\ new.unit = task[c].unit
      /\ new.bad = bad /\ new.old = task[c].old
    BY <1>1 DEF CheckTask, TaskAt, HasEntry
<1>3. task' = [task EXCEPT ![c] = new]
    BY <1>0
<1> HIDE DEF new
<1>4. /\ task' \in [Checker -> CheckTask]
      /\ task'[c] = new
      /\ \A d \in Checker : d # c => task'[d] = task[d]
    BY <1>2, <1>3, TaskSet DEF RoundInv
<1>5. /\ UNCHANGED <<pc, pub, srd_hashs, srd_dir, del_srds, g_del_srd_v>>
      /\ condemned' = condemned \/ condemned' = condemned \cup ({task[c].unit} \cap Units(srd_hashs))
      /\ bad => condemned' = condemned \cup ({task[c].unit} \cap Units(srd_hashs))
      /\ \/ srd_del_idx_s' = srd_del_idx_s /\ overtaken' = overtaken
         \/ /\ srd_del_idx_s' = srd_del_idx_s \cup {task[c].idx}
            /\ overtaken' = (overtaken \/ task[c].old)
            /\ condemned' = condemned \cup ({task[c].unit} \cap Units(srd_hashs))
    BY <1>0
<1>a. /\ task[c].idx \in Nat \ {0} /\ Len(srd_hashs) \in Nat
      /\ condemned \subseteq condemned'
      /\ overtaken' \in BOOLEAN /\ (~overtaken' => ~overtaken)
    BY <1>1, <1>2, <1>5 DEF EntryInv, CheckTask, ListInv, RoundInv
<1>b. ~task[c].old =>
          /\ InRound /\ task[c].idx \in 1..Len(srd_hashs)
          /\ task[c].unit = srd_hashs[task[c].idx] /\ task[c].unit \in Units(srd_hashs)
    BY <1>1, <1>2 DEF EntryInv, Units
<1> HIDE DEF read_unit
<1>6. EntryInv(c)'
    BY <1>1, <1>2, <1>4, <1>5, <1>a, <1>b DEF EntryInv, HasEntry, InRound
<1>7. \A d \in Checker : EntryInv(d)'
    <2> SUFFICES ASSUME NEW d \in Checker, d # c PROVE EntryInv(d)'
        BY <1>6
    <2> QED BY <1>4, <1>5, <1>a DEF RoundInv, EntryInv, HasEntry, InRound
<1>8. ~overtaken' => \A u \in g_del_srd_v' : PushedInv(u)'
    BY <1>5, <1>a DEF RoundInv, PushedInv, InRound, Units
<1>9. RoundInv'
    <2>1. del_srds' \in [{main, remover} -> SUBSET condemned']
        BY <1>5, <1>a DEF RoundInv
    <2>2. g_validate_srd_m' # {} => InRound'
        BY <1>5 DEF read_unit, RoundInv, InRound
    <2> QED BY <1>4, <1>7, <1>8, <1>a, <2>1, <2>2 DEF RoundInv
<1>10. TaskInv' /\ ListInv'
    BY <1>5, <1>a DEF TaskInv, ListInv, read_unit
<1>11. NumInv' /\ PoolInv' /\ ArgInv'
    BY DEF NumInv, PoolInv, ArgInv, read_unit
<1>13. UnitInv'
    <2>1. UNCHANGED <<made, srd_dir, srd_hashs>>
        BY DEF read_unit
    <2>2. condemned' \subseteq condemned \cup {srd_hashs[i] : i \in 1..Len(srd_hashs)}
        BY <1>5 DEF Units
    <2>3. \A w \in Worker : pc'[w] = "made" => pc[w] = "made" /\ worker'[w] = worker[w]
        BY DEF read_unit
    <2> QED BY <2>1, <2>2, <2>3, UnitFrame
<1>14. BufferInv'
    <2>1. CASE srd_del_idx_s' = srd_del_idx_s /\ overtaken' = overtaken
        BY <1>5, <1>a, <2>1 DEF BufferInv, BufferedIsCondemned
    <2>2. CASE /\ srd_del_idx_s' = srd_del_idx_s \cup {task[c].idx}
               /\ overtaken' = (overtaken \/ task[c].old)
               /\ condemned' = condemned \cup ({task[c].unit} \cap Units(srd_hashs))
        <3>1. CASE overtaken \/ task[c].old
            BY <2>2, <3>1 DEF BufferInv, BufferedIsCondemned
        <3>2. CASE ~overtaken /\ ~task[c].old
            BY <1>5, <1>b, <2>2, <3>2 DEF BufferInv, BufferedIsCondemned, InRound
        <3> QED BY <3>1, <3>2
    <2> QED BY <1>5, <2>1, <2>2
<1>15. HeldInv'
    <2>1. \A i \in 1..Len(srd_hashs) : Leaving(i) => Leaving(i)'
        BY <1>2, <1>4, <1>5 DEF Leaving, TaskAt
    <2>2. Doomed' = Doomed
        BY <1>5 DEF Doomed
    <2> QED BY <1>5, <1>a, <2>1, <2>2 DEF HeldInv
<1>20. CountInv'
    <2>1. Uncounted' = Uncounted /\ \A w \in Uncounted : worker'[w].disk = worker[w].disk
        BY DEF Uncounted, read_unit
    <2> QED BY <2>1, CountFrame DEF read_unit
<1> QED BY <1>9, <1>10, <1>11, <1>13, <1>14, <1>15, <1>20

\* A unit whose task could not be queued is condemned and buffered at once.
LEMMA recall_failedStep ==
    ASSUME SrdInv, recall_failed
    PROVE  SrdInv'
<1> USE Threads DEF SrdInv, recall_failed, Fault, At, Go, srdVars, roundVars,
        validateVars, appVars, threadVars, envVars, ghostVars
<1> DEFINE t == NextEntry
<1>1. /\ t \in g_validate_srd_m
      /\ t.idx \in 1..Len(srd_hashs) /\ t.idx \in Nat \ {0}
      /\ t.unit = srd_hashs[t.idx]
      /\ t.unit \in Sealed /\ t.unit \in Unit /\ t.unit \in Units(srd_hashs)
    BY NextIsEntry
<1>2. /\ UNCHANGED <<pc, srd_hashs, srd_dir, del_srds, overtaken, task, g_validate_srd_m>>
      /\ condemned' = condemned \cup {t.unit}
      /\ srd_del_idx_s' = srd_del_idx_s \cup {t.idx}
      /\ g_del_srd_v' = g_del_srd_v \cup {t.unit}
      /\ InRound /\ pc[main] # "cut"
    BY DEF InRound
<1> HIDE DEF t
<1>7. \A d \in Checker : EntryInv(d)'
    BY <1>2 DEF RoundInv, EntryInv, HasEntry, InRound
<1>8. ~overtaken' => \A u \in g_del_srd_v' : PushedInv(u)'
    <2> SUFFICES ASSUME ~overtaken, NEW u \in g_del_srd_v' PROVE PushedInv(u)'
        BY <1>2
    <2>1. u \in condemned'
        BY <1>2 DEF RoundInv, PushedInv
    <2>2. u \in Units(srd_hashs)
        BY <1>1, <1>2 DEF RoundInv, PushedInv
    <2> QED BY <1>2, <2>1, <2>2 DEF PushedInv, InRound, Units
<1>9. RoundInv'
    <2>1. del_srds' \in [{main, remover} -> SUBSET condemned']
        BY <1>2 DEF RoundInv
    <2> QED BY <1>2, <1>7, <1>8, <2>1 DEF RoundInv, InRound
<1>10. TaskInv' /\ ListInv'
    BY <1>1, <1>2 DEF TaskInv, ListInv
<1>11. NumInv'
    BY DEF NumInv
<1>12. PoolInv' /\ ArgInv'
    BY DEF PoolInv, ArgInv
<1>13. UnitInv'
    <2>1. UNCHANGED <<made, srd_dir, srd_hashs>>
        OBVIOUS
    <2>2. condemned' \subseteq condemned \cup {srd_hashs[i] : i \in 1..Len(srd_hashs)}
        BY <1>1, <1>2
    <2>3. \A w \in Worker : pc'[w] = "made" => pc[w] = "made" /\ worker'[w] = worker[w]
        OBVIOUS
    <2> QED BY <2>1, <2>2, <2>3, UnitFrame
<1>14. BufferInv'
    BY <1>1, <1>2 DEF BufferInv, BufferedIsCondemned
<1>15. HeldInv'
    <2> SUFFICES ASSUME ~overtaken', NEW i \in 1..Len(srd_hashs)
                 PROVE  Leaving(i)' \/ (srd_hashs[i] \in srd_dir /\ srd_hashs[i] \notin Doomed')
        BY <1>2 DEF HeldInv
    <2>1. srd_hashs[i] = t.unit => i = t.idx
        BY <1>1 DEF UnitInv
    <2>2. (Leaving(i) \/ i = t.idx) => Leaving(i)'
        BY <1>2 DEF Leaving, TaskAt
    <2>3. Doomed' = Doomed \cup {t.unit}
        BY <1>2 DEF Doomed
    <2> QED BY <1>2, <2>1, <2>2, <2>3 DEF HeldInv
<1>20. CountInv'
    <2>1. Uncounted' = Uncounted /\ \A w \in Uncounted : worker'[w].disk = worker[w].disk
        BY DEF Uncounted
    <2> QED BY <2>1, CountFrame
<1> QED BY <1>9, <1>10, <1>11, <1>12, <1>13, <1>14, <1>15, <1>20

\* Only directories of doomed units are deleted, while every verdict is in time.
LEMMA EndRoundStep ==
    ASSUME SrdInv, At(main, "check"), EndRound
    PROVE  SrdInv'
<1> USE Threads DEF SrdInv, EndRound, At, Go, srdVars, roundVars,
        validateVars, appVars, threadVars, envVars, ghostVars
<1>0. /\ pc' = [pc EXCEPT ![main] = "deal"] /\ UNCHANGED <<pub, dump>>
      /\ UNCHANGED <<srd_hashs, srd_del_idx_s, srd_info, condemned, del_srds, overtaken,
                     made, worker, arg>>
      /\ g_del_srd_v' = {} /\ g_validate_srd_m' = {} /\ g_validate_srd_m_iter' = {}
      /\ srd_dir' \subseteq srd_dir
      /\ task' = [c \in Checker |-> [task[c] EXCEPT !.old = HasEntry(c)]]
    OBVIOUS
<1>1. ~overtaken => srd_dir \ g_del_srd_v \subseteq srd_dir'
    BY DEF RoundInv, PushedInv, Dangling
<1>2. ASSUME NEW r \in CheckTask, NEW b \in BOOLEAN
      PROVE  /\ [r EXCEPT !.old = b] \in CheckTask
             /\ [r EXCEPT !.old = b].pc = r.pc /\ [r EXCEPT !.old = b].idx = r.idx
             /\ [r EXCEPT !.old = b].unit = r.unit /\ [r EXCEPT !.old = b].bad = r.bad
             /\ [r EXCEPT !.old = b].old = b
    BY DEF CheckTask
<1>3. \A c \in Checker : HasEntry(c) \in BOOLEAN /\ task[c] \in CheckTask
    BY DEF HasEntry, RoundInv
<1>4. /\ task' \in [Checker -> CheckTask]
      /\ \A c \in Checker :
            /\ task'[c].pc = task[c].pc /\ task'[c].idx = task[c].idx
            /\ task'[c].unit = task[c].unit /\ task'[c].bad = task[c].bad
            /\ task'[c].old = HasEntry(c)
    <2>1. task' = [c \in Checker |-> [task[c] EXCEPT !.old = HasEntry(c)]]
        BY <1>0
    <2> HIDE DEF EndRound, SrdInv
    <2>2. \A c \in Checker : task'[c] = [task[c] EXCEPT !.old = HasEntry(c)]
        BY <2>1
    <2>3. \A c \in Checker : [task[c] EXCEPT !.old = HasEntry(c)] \in CheckTask
        BY <1>2, <1>3
    <2>4. task' \in [Checker -> CheckTask]
        BY <2>1, <2>3
    <2>5. ASSUME NEW c \in Checker
          PROVE  /\ task'[c].pc = task[c].pc /\ task'[c].idx = task[c].idx
                 /\ task'[c].unit = task[c].unit /\ task'[c].bad = task[c].bad
                 /\ task'[c].old = HasEntry(c)
        <3>1. task[c] \in CheckTask /\ HasEntry(c) \in BOOLEAN
            BY <1>3
        <3>2. task'[c] = [task[c] EXCEPT !.old = HasEntry(c)]
            BY <2>2
        <3> QED BY <1>2, <3>1, <3>2
    <2> QED BY <2>4, <2>5
<1> HIDE DEF EndRound
<1>5. ASSUME NEW c \in Checker PROVE EntryInv(c)'
    <2>1. /\ EntryInv(c)
          /\ task'[c].pc = task[c].pc /\ task'[c].idx = task[c].idx
          /\ task'[c].bad = task[c].bad /\ task'[c].old = HasEntry(c)
        BY <1>4 DEF RoundInv
    <2> HIDE DEF SrdInv
    <2> QED BY <2>1 DEF EntryInv, HasEntry
<1>6. /\ \A w \in Worker : pc'[w] = pc[w] /\ pc[w] # "made"
      /\ pc'[main] = "deal"
    BY <1>0 DEF PoolInv
<1>9. RoundInv'
    BY <1>0, <1>4, <1>5 DEF RoundInv
<1>10. TaskInv' /\ ListInv'
    BY <1>0 DEF TaskInv, ListInv
<1>11. NumInv'
    BY DEF NumInv, EndRound
<1>12. PoolInv'
    BY <1>0, <1>6 DEF PoolInv, Label, MainLabel
<1>13. ArgInv'
    BY <1>0 DEF PoolInv, ArgInv
<1>14. UnitInv'
    BY <1>0, <1>6 DEF UnitInv, Sealed
<1>15. BufferInv'
    BY <1>0, <1>6 DEF BufferInv, BufferedIsCondemned
<1>16. HeldInv'
    <2>1. \A i \in 1..Len(srd_hashs) : Leaving(i) => Leaving(i)'
        BY <1>0, <1>4 DEF Leaving, TaskAt
    <2>2. Doomed' \subseteq Doomed /\ g_del_srd_v \subseteq Doomed
        BY <1>0 DEF Doomed
    <2> QED BY <1>0, <1>1, <2>1, <2>2 DEF HeldInv
<1>20. CountInv'
    <2>1. Uncounted' = Uncounted /\ \A w \in Uncounted : worker'[w].disk = worker[w].disk
        BY <1>0, <1>6 DEF Uncounted
    <2> QED BY <1>0, <2>1, CountFrame
<1> QED BY <1>9, <1>10, <1>11, <1>12, <1>13, <1>14, <1>15, <1>16, <1>20

\* The buffer is emptied as the list is compacted.
LEMMA deal_deleted_srdStep ==
    ASSUME SrdInv, deal_deleted_srd
    PROVE  SrdInv'
<1> USE Threads DEF SrdInv, deal_deleted_srd, At, Go, GoAndPublish, srdVars,
        validateVars, appVars, threadVars, envVars, ghostVars, roundVars
<1>0. pc[main] \notin {"wait", "reset", "check"} /\ \A w \in Worker : pc'[w] = pc[w]
    BY SMT DEF PoolInv
<1>a. /\ srd_hashs' \in Seq(Unit)
      /\ \A k \in 1..Len(srd_hashs') : \E i \in 1..Len(srd_hashs) :
            i \notin srd_del_idx_s /\ srd_hashs'[k] = srd_hashs[i]
      /\ \A k, l \in 1..Len(srd_hashs') : srd_hashs'[k] = srd_hashs'[l] => k = l
      /\ srd_info' \in Info
      /\ CountInv'
    BY <1>0, EraseEffect
<1>b. ~InRound
    BY <1>0 DEF InRound
<1>1. NumInv'
    BY <1>a DEF NumInv
<1>2. ListInv'
    BY <1>a DEF ListInv
<1>3. TaskInv'
    BY <1>0, <1>a, <1>b DEF TaskInv, ListInv, RoundInv
<1>4. PoolInv'
    BY SMT DEF PoolInv, Label, MainLabel, WorkerLabel, OtherLabel
<1>5. ArgInv'
    BY <1>0, <1>a, <1>b DEF PoolInv, ArgInv
<1>6. UnitInv'
    <2>1. UNCHANGED <<made, srd_dir, condemned, worker>>
        OBVIOUS
    <2> HIDE DEF deal_deleted_srd
    <2>2. \A k \in 1..Len(srd_hashs') : srd_hashs'[k] \in Sealed
        BY <1>a DEF UnitInv
    <2>3. \A w \in Worker : pc[w] # "made"
        BY <1>0 DEF PoolInv
    <2> QED BY <1>0, <1>a, <2>1, <2>2, <2>3 DEF UnitInv, Sealed
<1>7. RoundInv'
    <2>1. InRound => InRound' /\ srd_hashs' = srd_hashs
        BY <1>b
    <2>2. del_srds' \in [{main, remover} -> SUBSET condemned']
        BY DEF RoundInv
    <2> QED BY <2>1, <2>2, RoundFrame
<1>8. BufferInv'
    BY <1>0, <1>a, <1>b, SMT DEF BufferInv, BufferedIsCondemned, PoolInv,
        TaskInv, RoundInv
<1>9. HeldInv'
    <2>1. UNCHANGED <<srd_dir, task, g_del_srd_v, del_srds, overtaken>>
        OBVIOUS
    <2>2. Doomed' = Doomed
        BY <2>1 DEF Doomed
    <2> HIDE DEF deal_deleted_srd
    <2> SUFFICES ASSUME ~overtaken, NEW k \in 1..Len(srd_hashs')
                 PROVE  Leaving(k)' \/ (srd_hashs'[k] \in srd_dir /\ srd_hashs'[k] \notin Doomed)
        BY <2>1, <2>2 DEF HeldInv
    <2>3. PICK i \in 1..Len(srd_hashs) : i \notin srd_del_idx_s /\ srd_hashs'[k] = srd_hashs[i]
        BY <1>a
    <2>4. Leaving(i) \/ (srd_hashs[i] \in srd_dir /\ srd_hashs[i] \notin Doomed)
        BY DEF HeldInv
    <2>5. Leaving(i) => Leaving(k)'
        BY <2>1, <2>3, LeavingMoves
    <2> QED BY <2>3, <2>4, <2>5
<1>10. CountInv'
    BY <1>a
<1> QED BY <1>1, <1>2, <1>3, <1>4, <1>5, <1>6, <1>7, <1>8, <1>9, <1>10

\* The pool begins with nothing pushed.
LEMMA app_srd_increaseStep ==
    ASSUME SrdInv, app_srd_increase
    PROVE  SrdInv'
<1> USE Threads DEF SrdInv, app_srd_increase, At, Go, GoAndPublish, srdVars,
        validateVars, appVars, threadVars, envVars, ghostVars, roundVars
<1>0. pc[main] = "increase" /\ \A w \in Worker : pc[w] = "idle"
    BY SMT DEF PoolInv
<1>a. arg[main] \in 1..SRD_MAX_INC_PER_TURN
    BY <1>0 DEF ArgInv
<1>b0. PICK deal \in get_increase_srd_info(arg[main]) :
          /\ arg' = [arg EXCEPT ![main] = Cardinality(DOMAIN deal)]
          /\ \/ /\ Cardinality(DOMAIN deal) = 0
                /\ Go(main, "exceed")
                /\ UNCHANGED <<g_running_srd_task, worker>>
             \/ /\ Cardinality(DOMAIN deal) # 0
                /\ g_running_srd_task' = Cardinality(DOMAIN deal)
                /\ worker' = [w \in Worker |->
                      IF w > Cardinality(DOMAIN deal) THEN worker[w]
                      ELSE [disk |-> deal[w], unit |-> <<>>, ok |-> FALSE]]
                /\ pc' = [p \in Proc |->
                      IF p \in 1..Cardinality(DOMAIN deal) THEN "queued"
                      ELSE IF p = main THEN "wait" ELSE pc[p]]
                /\ UNCHANGED <<pub, dump>>
    OBVIOUS
<1> DEFINE total == Cardinality(DOMAIN deal)
<1>b. /\ deal \in get_increase_srd_info(arg[main])
      /\ total = Cardinality(DOMAIN deal)
      /\ arg' = [arg EXCEPT ![main] = total]
      /\ \/ /\ total = 0
            /\ Go(main, "exceed")
            /\ UNCHANGED <<g_running_srd_task, worker>>
         \/ /\ total # 0
            /\ g_running_srd_task' = total
            /\ worker' = [w \in Worker |->
                  IF w > total THEN worker[w]
                  ELSE [disk |-> deal[w], unit |-> <<>>, ok |-> FALSE]]
            /\ pc' = [p \in Proc |->
                  IF p \in 1..total THEN "queued"
                  ELSE IF p = main THEN "wait" ELSE pc[p]]
            /\ UNCHANGED <<pub, dump>>
    BY <1>b0
<1> HIDE DEF total
<1>c. total \in 0..arg[main] /\ total \in Nat /\ deal \in [1..total -> Disk]
    <2>1. PICK k \in 0..arg[main] : deal \in [1..k -> Disk]
        BY <1>b DEF get_increase_srd_info
    <2>2. k \in Nat
        BY <1>a, <2>1
    <2>3. Cardinality(1..k) = k
        BY <2>2, IndexCount
    <2>4. DOMAIN deal = 1..k
        BY <2>1
    <2>5. total = k
        BY <1>b, <2>2, <2>3, <2>4
    <2> QED BY <2>1, <2>2, <2>5
<1>d. UNCHANGED <<srd_hashs, srd_del_idx_s, srd_dir, condemned, task, g_validate_srd_m,
                  g_validate_srd_m_iter, g_del_srd_v, del_srds, overtaken, made,
                  g_srd_task, srd_info, ed_srd_info, other_use>>
    OBVIOUS
<1> HIDE DEF app_srd_increase
<1>e. /\ pc'[main] \in {"exceed", "wait"} /\ pc'[client] = pc[client]
      /\ \A w \in Worker : pc'[w] \in {"idle", "queued"}
    <2>1. main \notin 1..total /\ client \notin 1..total
        BY <1>c DEF main, client
    <2> QED BY <1>0, <1>b, <2>1 DEF PoolInv
<1>1. NumInv'
    BY <1>a, <1>b, <1>c, <1>d, SrdAssumption DEF NumInv
<1>2. ListInv'
    BY <1>d DEF ListInv
<1>3. TaskInv'
    BY <1>d DEF TaskInv
<1>4. PoolInv'
    <2>1. CASE total = 0
        <3>1. pc' = [pc EXCEPT ![main] = "exceed"] /\ UNCHANGED <<pub, dump, worker>>
            BY <1>b, <2>1
        <3> QED BY <3>1, <1>0 DEF PoolInv, Label, MainLabel
    <2>2. CASE total # 0
        <3>1. /\ worker' = [w \in Worker |->
                    IF w > total THEN worker[w]
                    ELSE [disk |-> deal[w], unit |-> <<>>, ok |-> FALSE]]
              /\ pc' = [p \in Proc |-> IF p \in 1..total THEN "queued"
                                       ELSE IF p = main THEN "wait" ELSE pc[p]]
              /\ UNCHANGED <<pub, dump>>
            BY <1>b, <2>2
        <3>2. \A w \in Worker : w \in Nat \ {0} /\ (w <= total => deal[w] \in Disk)
            <4>1. SRD_MAX_INC_PER_TURN \in Nat
                BY SrdAssumption
            <4>2. \A w \in Worker : w \in Nat \ {0}
                BY <4>1 DEF Worker
            <4> HIDE DEF SrdInv
            <4>3. \A w \in Worker : w <= total => w \in 1..total
                BY <1>c, <4>2
            <4> QED BY <1>c, <4>2, <4>3
        <3>3. Disk \subseteq Nat
            BY SrdAssumption
        <3>4. worker' \in [Worker -> Task]
            <4> SUFFICES ASSUME NEW w \in Worker
                         PROVE  (IF w > total THEN worker[w]
                                 ELSE [disk |-> deal[w], unit |-> <<>>, ok |-> FALSE]) \in Task
                BY <3>1
            <4>1. CASE w > total
                BY <4>1 DEF PoolInv
            <4>2. CASE ~(w > total)
                <5>1. w \in Nat /\ total \in Nat
                    BY <3>2, <1>c
                <5>2. w <= total
                    BY <4>2, <5>1
                <5>3. deal[w] \in Nat
                    BY <5>2, <3>2, <3>3
                <5> QED BY <4>2, <5>3 DEF Task
            <4> QED BY <4>1, <4>2
        <3>5. pc' \in [Proc -> Label]
            BY <3>1 DEF PoolInv, Label, MainLabel, WorkerLabel
        <3>6. pc'[main] = "wait"
            BY <3>1, <1>c DEF main
        <3>7. ASSUME NEW w \in Worker, pc'[w] \in {"queued", "made", "count"}
              PROVE  worker'[w].disk \in Disk
            <4>1. w \in 1..total
                BY <3>1, <3>7, <1>0
            <4>2. ~(w > total) /\ deal[w] \in Disk
                BY <4>1, <1>c
            <4> QED BY <3>1, <4>2
        <3> QED BY <3>1, <3>4, <3>5, <3>6, <3>7 DEF PoolInv
    <2> QED BY <2>1, <2>2
<1>5. ArgInv'
    <2>1. /\ arg' = [q \in {main, client} |-> arg'[q]]
          /\ arg'[main] = total
          /\ \A q \in {main, client} : q # main => arg'[q] = arg[q]
        BY <1>b, ArgSet
    <2> QED BY <2>1, <1>c, <1>e DEF ArgInv
<1>6. UnitInv'
    BY <1>d, <1>e DEF UnitInv, Sealed
<1>7. RoundInv'
    <2>1. ~InRound
        BY <1>0 DEF InRound
    <2>2. del_srds' \in [{main, remover} -> SUBSET condemned']
        BY <1>d DEF RoundInv
    <2> QED BY <1>d, <2>1, <2>2, RoundFrame
<1>8. BufferInv'
    BY <1>d, <1>e DEF BufferInv, BufferedIsCondemned
<1>9. HeldInv'
    BY <1>d, HeldFrame DEF Doomed
<1>10. CountInv'
    <2>1. Uncounted = {} /\ Uncounted' = {}
        BY <1>0, <1>e DEF Uncounted
    <2> QED BY <2>1, <1>d, CountFrame
<1> QED BY <1>1, <1>2, <1>3, <1>4, <1>5, <1>6, <1>7, <1>8, <1>9, <1>10

\* A sealed unit has a number of its own.
LEMMA srd_increaseStep ==
    ASSUME SrdInv, NEW w \in Worker, srd_increase(w)
    PROVE  SrdInv'
<1> USE Threads DEF SrdInv, srd_increase, Fault, At, Go, GoAndPublish, srdVars,
        validateVars, appVars, threadVars, envVars, ghostVars, roundVars
<1> DEFINE unit == <<worker[w].disk, made + 1>>
<1>0. worker[w].disk \in Disk /\ made \in Nat
    BY DEF PoolInv, UnitInv
<1>a. unit \in Disk \X (1..(made + 1)) /\ unit \in Unit /\ DiskOf(unit) = worker[w].disk
      /\ unit \notin Sealed
    BY <1>0 DEF Unit, DiskOf, Sealed
<1>b. /\ UNCHANGED <<srd_hashs, srd_del_idx_s, condemned, task, g_validate_srd_m,
                     g_del_srd_v, del_srds, overtaken>>
      /\ \/ /\ pc' = [pc EXCEPT ![w] = "return"]
            /\ UNCHANGED <<worker, srd_dir, made>>
         \/ /\ pc' = [pc EXCEPT ![w] = "made"]
            /\ made' = made + 1
            /\ worker' = [worker EXCEPT ![w].unit = unit]
            /\ srd_dir' = srd_dir \cup {unit}
    OBVIOUS
<1>c. UNCHANGED <<pub, dump>> /\ pc[w] = "queued" /\ w # main
    OBVIOUS
<1> HIDE DEF unit
<1>1. NumInv'
    BY SrdAssumption DEF NumInv
<1>2. ListInv'
    <2> HIDE DEF srd_increase
    <2> QED BY <1>a, <1>b DEF ListInv
<1>3. TaskInv'
    BY DEF TaskInv, ListInv, RoundInv
<1>4. PoolInv'
    <2> HIDE DEF srd_increase
    <2>1. pc' \in [Proc -> Label] /\ pc'[main] = pc[main] /\ pub' = pub /\ dump' = dump
        BY <1>b, <1>c DEF PoolInv, Label, WorkerLabel
    <2>2. pc[main] = "wait"
        BY <1>c DEF PoolInv
    <2>3. worker' \in [Worker -> Task] /\ \A x \in Worker : worker'[x].disk = worker[x].disk
        <3>1. CASE worker' = worker
            BY <3>1 DEF PoolInv
        <3>2. CASE worker' = [worker EXCEPT ![w].unit = unit]
            <4>1. worker \in [Worker -> Task] /\ unit \in Unit
                BY <1>a DEF PoolInv
            <4>2. worker[w] \in Task
                BY <4>1
            <4>3. [worker[w] EXCEPT !.unit = unit] \in Task
                  /\ [worker[w] EXCEPT !.unit = unit].disk = worker[w].disk
                BY <4>1, <4>2 DEF Task
            <4>4. worker' = [worker EXCEPT ![w] = [worker[w] EXCEPT !.unit = unit]]
                BY <3>2
            <4> QED BY <4>1, <4>3, <4>4
        <3> QED BY <1>b, <3>1, <3>2
    <2>4. \A x \in Worker : x # w => pc'[x] = pc[x]
        BY <1>b DEF PoolInv
    <2>5. \A x \in Worker :
              pc'[x] \in {"queued", "made", "count"} => worker'[x].disk \in Disk
        BY <1>0, <2>3, <2>4 DEF PoolInv
    <2> QED BY <2>1, <2>2, <2>3, <2>5 DEF PoolInv
<1>5. ArgInv'
    BY DEF PoolInv, ArgInv
<1>6. UnitInv'
    <2> HIDE DEF srd_increase
    <2>1. CASE pc' = [pc EXCEPT ![w] = "return"] /\ UNCHANGED <<worker, srd_dir, made>>
        BY <1>b, <2>1 DEF UnitInv, Sealed, PoolInv
    <2>2. CASE /\ pc' = [pc EXCEPT ![w] = "made"]
               /\ made' = made + 1
               /\ worker' = [worker EXCEPT ![w].unit = unit]
               /\ srd_dir' = srd_dir \cup {unit}
        <3>1. made' \in Nat /\ Sealed \subseteq Sealed' /\ unit \in Sealed'
            BY <1>0, <1>a, <2>2 DEF Sealed
        <3>2. worker \in [Worker -> Task] /\ pc \in [Proc -> Label]
            BY DEF PoolInv
        <3>3. /\ worker'[w].unit = unit /\ worker'[w].disk = worker[w].disk
              /\ \A x \in Worker : x # w => worker'[x] = worker[x] /\ pc'[x] = pc[x]
              /\ pc'[w] = "made"
            BY <2>2, <3>2 DEF Task
        <3>4. /\ srd_dir' \subseteq Sealed' /\ condemned' \subseteq Sealed'
              /\ \A i \in 1..Len(srd_hashs') : srd_hashs'[i] \in Sealed'
            BY <1>b, <2>2, <3>1 DEF UnitInv
        <3>5. /\ unit \notin srd_dir /\ unit \notin condemned
              /\ \A i \in 1..Len(srd_hashs) : srd_hashs[i] # unit
            BY <1>a DEF UnitInv
        <3>6. \A x \in Worker : pc'[x] = "made" =>
                  /\ worker'[x].unit \in srd_dir'
                  /\ worker'[x].unit \notin condemned'
                  /\ \A i \in 1..Len(srd_hashs') : srd_hashs'[i] # worker'[x].unit
                  /\ DiskOf(worker'[x].unit) = worker'[x].disk
            <4> SUFFICES ASSUME NEW x \in Worker, pc'[x] = "made"
                         PROVE  /\ worker'[x].unit \in srd_dir'
                                /\ worker'[x].unit \notin condemned'
                                /\ \A i \in 1..Len(srd_hashs') : srd_hashs'[i] # worker'[x].unit
                                /\ DiskOf(worker'[x].unit) = worker'[x].disk
                OBVIOUS
            <4>1. CASE x = w
                BY <4>1, <1>a, <1>b, <2>2, <3>3, <3>5
            <4>2. CASE x # w
                BY <4>2, <1>b, <2>2, <3>3 DEF UnitInv
            <4> QED BY <4>1, <4>2
        <3>7. \A x, y \in Worker :
                  pc'[x] = "made" /\ pc'[y] = "made" /\ worker'[x].unit = worker'[y].unit => x = y
            BY <3>3, <3>5 DEF UnitInv
        <3> QED BY <1>b, <3>1, <3>4, <3>6, <3>7 DEF UnitInv
    <2> QED BY <1>b, <2>1, <2>2
<1>7. RoundInv'
    <2>1. InRound => InRound' /\ srd_hashs' = srd_hashs
        BY DEF InRound, PoolInv
    <2>2. del_srds' \in [{main, remover} -> SUBSET condemned']
        BY DEF RoundInv
    <2> QED BY <2>1, <2>2, RoundFrame
<1>8. BufferInv'
    BY SMT DEF BufferInv, BufferedIsCondemned, PoolInv, TaskInv, RoundInv
<1>9. HeldInv'
    <2>1. Doomed' \subseteq Doomed /\ srd_dir \ Doomed \subseteq srd_dir'
        BY DEF Doomed, RoundInv
    <2> QED BY <2>1, HeldFrame
<1>10. CountInv'
    <2>1. \A x \in Worker : pc'[x] = "count" <=> pc[x] = "count"
        BY SMT DEF PoolInv
    <2>2. \A x \in Worker : pc[x] = "count" => worker'[x].disk = worker[x].disk
        BY SMT DEF PoolInv
    <2>3. /\ Uncounted' = Uncounted
          /\ \A x \in Uncounted : worker'[x].disk = worker[x].disk
        BY <2>1, <2>2 DEF Uncounted
    <2> QED BY <2>3, CountFrame
<1> QED BY <1>1, <1>2, <1>3, <1>4, <1>5, <1>6, <1>7, <1>8, <1>9, <1>10

\* A directory left behind is in no list.
LEMMA srd_increase_leakStep ==
    ASSUME SrdInv, NEW w \in Worker, srd_increase_leak(w)
    PROVE  SrdInv'
<1> USE Threads DEF SrdInv, srd_increase_leak, Fault, At, Go, GoAndPublish,
        srdVars, validateVars, appVars, threadVars, envVars, ghostVars, roundVars
<1>1. NumInv'
    BY SrdAssumption DEF NumInv
<1>2. ListInv'
    BY DEF ListInv, Unit, UnitInv, Sealed, TaskInv
<1>3. TaskInv'
    BY DEF TaskInv, ListInv, RoundInv
<1>4. PoolInv'
    <2>1. /\ pc' = [pc EXCEPT ![w] = "return"] /\ UNCHANGED <<pub, dump>>
          /\ worker' = [worker EXCEPT ![w].unit = <<>>] /\ pc[w] = "made"
        OBVIOUS
    <2> HIDE DEF srd_increase_leak
    <2>2. worker \in [Worker -> Task]
        BY DEF PoolInv
    <2>3. worker' \in [Worker -> Task] /\ \A x \in Worker : worker'[x].disk = worker[x].disk
        <3>1. worker' = WithUnit(worker, w, <<>>) /\ <<>> \in Unit \cup {<<>>}
            BY <2>1 DEF WithUnit
        <3> HIDE DEF SrdInv
        <3> QED BY <2>2, <3>1, TaskUnitSet
    <2> QED BY <2>1, <2>3 DEF PoolInv, Label, WorkerLabel
<1>5. ArgInv'
    BY DEF PoolInv, ArgInv
<1>6. UnitInv'
    BY SMT DEF UnitInv, Sealed, PoolInv, TaskInv
<1>7. RoundInv'
    <2>1. InRound => InRound' /\ srd_hashs' = srd_hashs
        BY DEF InRound, PoolInv
    <2>2. del_srds' \in [{main, remover} -> SUBSET condemned']
        BY DEF RoundInv
    <2> QED BY <2>1, <2>2, RoundFrame
<1>8. BufferInv'
    BY SMT DEF BufferInv, BufferedIsCondemned, PoolInv, TaskInv, RoundInv
<1>9. HeldInv'
    <2>1. Doomed' \subseteq Doomed /\ srd_dir \ Doomed \subseteq srd_dir'
        BY DEF Doomed, RoundInv
    <2> QED BY <2>1, HeldFrame
<1>10. CountInv'
    <2>1. \A x \in Worker : pc'[x] = "count" <=> pc[x] = "count"
        BY SMT DEF PoolInv
    <2>2. \A x \in Worker : pc[x] = "count" => worker'[x].disk = worker[x].disk
        BY SMT DEF PoolInv
    <2>3. /\ Uncounted' = Uncounted
          /\ \A x \in Uncounted : worker'[x].disk = worker[x].disk
        BY <2>1, <2>2 DEF Uncounted
    <2> QED BY <2>3, CountFrame
<1> QED BY <1>1, <1>2, <1>3, <1>4, <1>5, <1>6, <1>7, <1>8, <1>9, <1>10

\* A unit is pushed to the end of the list: the indexes of the others stay.
LEMMA srd_increase_addStep ==
    ASSUME SrdInv, NEW w \in Worker, srd_increase_add(w)
    PROVE  SrdInv'
<1> USE Threads DEF SrdInv, srd_increase_add, At, Go, GoAndPublish, srdVars,
        validateVars, appVars, threadVars, envVars, ghostVars, roundVars
<1>0. /\ srd_hashs' = Append(srd_hashs, worker[w].unit)
      /\ pc[w] = "made" /\ pc' = [pc EXCEPT ![w] = "count"] /\ pc'[main] = pc[main]
      /\ worker[w].unit \in srd_dir /\ worker[w].unit \in Unit
      /\ UNCHANGED <<srd_del_idx_s, srd_info, condemned, overtaken, worker>>
      /\ worker[w].disk \in Disk /\ DiskOf(worker[w].unit) = worker[w].disk
    BY SMT DEF PoolInv, UnitInv, ListInv
<1>a. /\ srd_hashs' \in Seq(Unit) /\ Len(srd_hashs) \in Nat /\ Len(srd_hashs') = Len(srd_hashs) + 1
      /\ \A i \in 1..Len(srd_hashs) : srd_hashs'[i] = srd_hashs[i]
      /\ srd_hashs'[Len(srd_hashs) + 1] = worker[w].unit
    BY <1>0 DEF ListInv
<1>1. NumInv'
    BY SrdAssumption DEF NumInv
<1>2. ListInv'
    BY DEF ListInv, Unit, UnitInv, Sealed, TaskInv
<1>3. TaskInv'
    BY DEF TaskInv, ListInv, RoundInv
<1>4. PoolInv'
    BY SMT DEF PoolInv, Label, MainLabel, WorkerLabel, OtherLabel
<1>5. ArgInv'
    BY DEF PoolInv, ArgInv
<1>6. UnitInv'
    <2>1. /\ UNCHANGED <<made, srd_dir, condemned, worker>> /\ Sealed' = Sealed
          /\ \A x \in Worker : pc'[x] = "made" => pc[x] = "made" /\ x # w
        BY DEF PoolInv, Sealed
    <2> HIDE DEF srd_increase_add, SrdInv
    <2>2. /\ UnitInv /\ worker[w].unit \in Sealed
          /\ \A i \in 1..Len(srd_hashs) : srd_hashs[i] # worker[w].unit
        BY <1>0 DEF SrdInv, UnitInv
    <2>3. /\ made' \in Nat /\ srd_dir' \subseteq Sealed' /\ condemned' \subseteq Sealed'
        BY <2>1, <2>2 DEF UnitInv
    <2>4. \A i \in 1..Len(srd_hashs') :
              i \in 1..Len(srd_hashs) \/ i = Len(srd_hashs) + 1
        BY <1>a
    <2>5. \A i \in 1..Len(srd_hashs') : srd_hashs'[i] \in Sealed'
        BY <1>a, <2>1, <2>2, <2>4 DEF UnitInv
    <2>6. \A i, j \in 1..Len(srd_hashs') : srd_hashs'[i] = srd_hashs'[j] => i = j
        BY <1>a, <2>2, <2>4 DEF UnitInv
    <2>7. ASSUME NEW x \in Worker, pc'[x] = "made"
          PROVE  /\ worker'[x].unit \in srd_dir'
                 /\ worker'[x].unit \notin condemned'
                 /\ \A i \in 1..Len(srd_hashs') : srd_hashs'[i] # worker'[x].unit
                 /\ DiskOf(worker'[x].unit) = worker'[x].disk
        <3>1. pc[x] = "made" /\ x # w /\ worker[x].unit # worker[w].unit
            BY <1>0, <2>1, <2>2, <2>7 DEF UnitInv
        <3> QED BY <1>a, <2>1, <2>2, <2>4, <3>1 DEF UnitInv
    <2>8. \A x, y \in Worker : /\ pc'[x] = "made" /\ pc'[y] = "made"
                               /\ worker'[x].unit = worker'[y].unit
                               => x = y
        BY <2>1, <2>2 DEF UnitInv
    <2> QED BY <2>3, <2>5, <2>6, <2>7, <2>8 DEF UnitInv
<1>7. RoundInv'
    <2>1. InRound => InRound' /\ srd_hashs' = srd_hashs
        BY <1>0 DEF InRound, PoolInv
    <2>2. del_srds' \in [{main, remover} -> SUBSET condemned']
        BY DEF RoundInv
    <2> QED BY <2>1, <2>2, RoundFrame
<1>8. BufferInv'
    <2> HIDE DEF srd_increase_add
    <2>1. ASSUME ~overtaken, NEW i \in srd_del_idx_s
          PROVE  i <= Len(srd_hashs') /\ srd_hashs'[i] \in condemned
        <3>1. i \in Nat \ {0} /\ i <= Len(srd_hashs) /\ srd_hashs[i] \in condemned
            BY <2>1 DEF ListInv, BufferInv, BufferedIsCondemned
        <3>2. i \in 1..Len(srd_hashs)
            BY <1>a, <3>1
        <3> QED BY <1>a, <3>1, <3>2
    <2> QED BY <1>0, <2>1 DEF BufferInv, BufferedIsCondemned
<1>9. HeldInv'
    <2> SUFFICES ASSUME ~overtaken, NEW i \in 1..Len(srd_hashs')
                 PROVE  Leaving(i)' \/ (srd_hashs'[i] \in srd_dir' /\ srd_hashs'[i] \notin Doomed')
        BY DEF HeldInv
    <2>1. Doomed' = Doomed /\ UNCHANGED <<srd_dir, srd_del_idx_s, task, g_del_srd_v, del_srds, condemned>>
        BY DEF Doomed
    <2> HIDE DEF srd_increase_add
    <2>2. CASE i \in 1..Len(srd_hashs)
        <3>1. Leaving(i) => Leaving(i)'
            BY <1>a, <2>1, <2>2 DEF Leaving, TaskAt
        <3> QED BY <1>a, <2>1, <2>2, <3>1 DEF HeldInv
    <2>3. CASE i = Len(srd_hashs) + 1
        <3>1. worker[w].unit \in srd_dir /\ worker[w].unit \notin condemned
            BY <1>0 DEF UnitInv
        <3>2. Doomed \subseteq condemned
            BY <1>0 DEF Doomed, RoundInv, PushedInv
        <3> QED BY <1>a, <2>1, <2>3, <3>1, <3>2
    <2> QED BY <1>a, <2>2, <2>3
<1>10. CountInv'
    <2> HIDE DEF srd_increase_add
    <2>1. w \notin Uncounted /\ Uncounted' = Uncounted \cup {w}
        BY <1>0 DEF Uncounted, PoolInv
    <2>2. ASSUME NEW d \in Disk
          PROVE  /\ Cardinality(Uncounted') = Cardinality(Uncounted) + 1
                 /\ Cardinality(Uncounted) \in Nat
                 /\ Cardinality(Held(d)') - Cardinality(UncountedOn(d)') =
                    Cardinality(Held(d)) - Cardinality(UncountedOn(d))
        <3>1. /\ IsFiniteSet(Held(d)) /\ Cardinality(Held(d)) \in Nat
              /\ IsFiniteSet(Uncounted) /\ Cardinality(Uncounted) \in Nat
              /\ IsFiniteSet(UncountedOn(d)) /\ Cardinality(UncountedOn(d)) \in Nat
            BY HeldCount
        <3>2. Cardinality(Uncounted') = Cardinality(Uncounted) + 1
            BY <2>1, <3>1, FS_AddElement
        <3>3. CASE d = worker[w].disk
            <4>1. Held(d)' = Held(d) \cup {Len(srd_hashs) + 1} /\ Len(srd_hashs) + 1 \notin Held(d)
                BY <1>0, <1>a, <3>3 DEF Held, OnDisk
            <4>2. UncountedOn(d)' = UncountedOn(d) \cup {w} /\ w \notin UncountedOn(d)
                BY <1>0, <2>1, <3>3 DEF UncountedOn
            <4>3. Cardinality(Held(d)') = Cardinality(Held(d)) + 1
                BY <3>1, <4>1, FS_AddElement
            <4>4. Cardinality(UncountedOn(d)') = Cardinality(UncountedOn(d)) + 1
                BY <3>1, <4>2, FS_AddElement
            <4> QED BY <3>1, <3>2, <4>3, <4>4
        <3>4. CASE d # worker[w].disk
            <4>1. Held(d)' = Held(d)
                BY <1>0, <1>a, <3>4 DEF Held, OnDisk
            <4>2. UncountedOn(d)' = UncountedOn(d)
                BY <1>0, <2>1, <3>4 DEF UncountedOn
            <4> QED BY <3>1, <3>2, <4>1, <4>2
        <3> QED BY <3>3, <3>4
    <2>3. /\ srd_info.complete \in Nat
          /\ srd_info.complete = Len(srd_hashs) - Cardinality(Uncounted)
          /\ \A d \in Disk : srd_info.detail[d] = Cardinality(Held(d)) - Cardinality(UncountedOn(d))
        BY CountInvMeans
    <2>4. srd_info'.complete = Len(srd_hashs') - Cardinality(Uncounted')
        <3>1. /\ Cardinality(Uncounted') = Cardinality(Uncounted) + 1
              /\ Cardinality(Uncounted) \in Nat
            BY <1>0, <2>2
        <3> QED BY <1>0, <1>a, <2>3, <3>1
    <2>5. \A d \in Disk : srd_info'.detail[d] = Cardinality(Held(d)') - Cardinality(UncountedOn(d)')
        BY <1>0, <2>2, <2>3
    <2> QED BY <1>0, <2>3, <2>4, <2>5 DEF CountInv, InfoExact, Uncounted,
            UncountedOn
<1> QED BY <1>1, <1>2, <1>3, <1>4, <1>5, <1>6, <1>7, <1>8, <1>9, <1>10

\* The unit pushed is counted.
LEMMA srd_increase_countStep ==
    ASSUME SrdInv, NEW w \in Worker, srd_increase_count(w)
    PROVE  SrdInv'
<1> USE Threads DEF SrdInv, srd_increase_count, At, Go, GoAndPublish, srdVars,
        validateVars, appVars, threadVars, envVars, ghostVars, roundVars
<1> DEFINE on == [d \in Disk |-> IF d = worker[w].disk THEN 1 ELSE 0]
<1>0. /\ srd_info' = set_srd_info(srd_info, 1, on)
      /\ pc[w] = "count" /\ pc' = [pc EXCEPT ![w] = "return"] /\ pub' = [pub EXCEPT ![w] = "dump"]
      /\ worker' = [worker EXCEPT ![w].unit = <<>>, ![w].ok = TRUE]
      /\ UNCHANGED <<srd_hashs, dump>> /\ w # main
    OBVIOUS
<1>a. on \in [Disk -> Int] /\ \A d \in Disk : on[d] = IF d = worker[w].disk THEN 1 ELSE 0
    OBVIOUS
<1> HIDE DEF on
<1>b. /\ srd_info \in Info /\ srd_info' \in Info /\ srd_info'.complete \in Nat
      /\ srd_info'.complete = IF srd_info.complete + 1 <= 0 THEN 0 ELSE srd_info.complete + 1
      /\ \A d \in Disk : srd_info'.detail[d] = srd_info.detail[d] + on[d]
    <2>1. srd_info \in Info /\ 1 \in Int
        BY DEF NumInv
    <2> HIDE DEF SrdInv, srd_increase_count
    <2>2. /\ set_srd_info(srd_info, 1, on) \in Info
          /\ set_srd_info(srd_info, 1, on).complete \in Nat
          /\ set_srd_info(srd_info, 1, on).complete =
                IF srd_info.complete + 1 <= 0 THEN 0 ELSE srd_info.complete + 1
          /\ \A d \in Disk : set_srd_info(srd_info, 1, on).detail[d] = srd_info.detail[d] + on[d]
        BY <1>a, <2>1, InfoKept
    <2> QED BY <1>0, <2>1, <2>2
<1>c. worker' \in [Worker -> Task] /\ \A x \in Worker : worker'[x].disk = worker[x].disk
    <2> DEFINE once == WithUnit(worker, w, <<>>)
    <2>1. once \in [Worker -> Task] /\ \A x \in Worker : once[x].disk = worker[x].disk
        <3>1. worker \in [Worker -> Task] /\ <<>> \in Unit \cup {<<>>}
            BY DEF PoolInv
        <3> HIDE DEF SrdInv, srd_increase_count
        <3> QED BY <3>1, TaskUnitSet
    <2>2. worker' = [once EXCEPT ![w].ok = TRUE]
        BY <1>0 DEF WithUnit
    <2> HIDE DEF once, srd_increase_count
    <2>3. once[w] \in Task
        BY <2>1
    <2>4. [once[w] EXCEPT !.ok = TRUE] \in Task /\ [once[w] EXCEPT !.ok = TRUE].disk = once[w].disk
        BY <2>3 DEF Task
    <2>5. worker' = [once EXCEPT ![w] = [once[w] EXCEPT !.ok = TRUE]]
        BY <2>2
    <2> QED BY <2>1, <2>4, <2>5
<1>1. NumInv'
    BY <1>b DEF NumInv
<1>2. ListInv'
    BY DEF ListInv, Unit, UnitInv, Sealed, TaskInv
<1>3. TaskInv'
    BY DEF TaskInv, ListInv, RoundInv
<1>4. PoolInv'
    <2> HIDE DEF srd_increase_count
    <2>1. /\ pc' \in [Proc -> Label] /\ pub' \in [Proc -> {"no", "dump", "set"}]
          /\ pc'[main] = pc[main] /\ pc[main] = "wait"
          /\ \A x \in Worker : x # w => pc'[x] = pc[x]
          /\ pc'[w] = "return"
        BY <1>0 DEF PoolInv, Label, WorkerLabel
    <2> QED BY <1>0, <1>c, <2>1 DEF PoolInv
<1>5. ArgInv'
    BY DEF PoolInv, ArgInv
<1>6. UnitInv'
    BY SMT DEF UnitInv, Sealed, PoolInv, TaskInv
<1>7. RoundInv'
    <2>1. InRound => InRound' /\ srd_hashs' = srd_hashs
        BY DEF InRound, PoolInv
    <2>2. del_srds' \in [{main, remover} -> SUBSET condemned']
        BY DEF RoundInv
    <2> QED BY <2>1, <2>2, RoundFrame
<1>8. BufferInv'
    BY SMT DEF BufferInv, BufferedIsCondemned, PoolInv, TaskInv, RoundInv
<1>9. HeldInv'
    <2>1. Doomed' \subseteq Doomed /\ srd_dir \ Doomed \subseteq srd_dir'
        BY DEF Doomed, RoundInv
    <2> QED BY <2>1, HeldFrame
<1>10. CountInv'
    <2> HIDE DEF srd_increase_count
    <2>1. w \in Uncounted /\ Uncounted' = Uncounted \ {w}
        BY <1>0 DEF Uncounted, PoolInv
    <2>2. \A d \in Disk : Held(d)' = Held(d)
        BY <1>0 DEF Held
    <2>3. /\ srd_info.complete \in Nat
          /\ srd_info.complete = Len(srd_hashs) - Cardinality(Uncounted)
          /\ \A d \in Disk : srd_info.detail[d] = Cardinality(Held(d)) - Cardinality(UncountedOn(d))
        BY CountInvMeans
    <2>4. IsFiniteSet(Uncounted) /\ Cardinality(Uncounted) \in Nat /\ Len(srd_hashs) \in Nat
        <3>1. Uncounted \in SUBSET Worker
            BY DEF Uncounted
        <3>2. IsFiniteSet(Uncounted)
            BY <3>1, FS_Subset
        <3> QED BY <3>2, FS_CardinalityType DEF ListInv
    <2>5. srd_info'.complete = Len(srd_hashs') - Cardinality(Uncounted')
        <3>1. Cardinality(Uncounted') = Cardinality(Uncounted) - 1
            BY <2>1, <2>4, FS_RemoveElement
        <3> QED BY <1>0, <1>b, <2>3, <2>4, <3>1
    <2>6. ASSUME NEW d \in Disk
          PROVE  srd_info'.detail[d] = Cardinality(Held(d)') - Cardinality(UncountedOn(d)')
        <3>1. /\ Cardinality(Held(d)) \in Nat
              /\ IsFiniteSet(UncountedOn(d)) /\ Cardinality(UncountedOn(d)) \in Nat
            BY HeldCount
        <3>2. CASE d = worker[w].disk
            <4>1. UncountedOn(d)' = UncountedOn(d) \ {w} /\ w \in UncountedOn(d)
                BY <1>c, <2>1, <3>2 DEF UncountedOn, Uncounted
            <4>2. Cardinality(UncountedOn(d)') = Cardinality(UncountedOn(d)) - 1
                BY <3>1, <4>1, FS_RemoveElement
            <4>3. on[d] = 1
                BY <1>a, <3>2
            <4> QED BY <1>b, <2>2, <2>3, <3>1, <4>2, <4>3
        <3>3. CASE d # worker[w].disk
            <4>1. UncountedOn(d)' = UncountedOn(d)
                BY <1>c, <2>1, <3>3 DEF UncountedOn, Uncounted
            <4>2. on[d] = 0
                BY <1>a, <3>3
            <4> QED BY <1>b, <2>2, <2>3, <3>1, <4>1, <4>2
        <3> QED BY <3>2, <3>3
    <2> QED BY <1>b, <2>5, <2>6 DEF CountInv, InfoExact, Uncounted, UncountedOn
<1> QED BY <1>1, <1>2, <1>3, <1>4, <1>5, <1>6, <1>7, <1>8, <1>9, <1>10

\* A thread of the pool is done.
LEMMA decrease_running_srd_taskStep ==
    ASSUME SrdInv, NEW w \in Worker, decrease_running_srd_task(w)
    PROVE  SrdInv'
<1> USE Threads DEF SrdInv, decrease_running_srd_task, At, Go, GoAndPublish,
        srdVars, validateVars, appVars, threadVars, envVars, ghostVars, roundVars
<1>1. NumInv'
    BY SrdAssumption DEF NumInv
<1>2. ListInv'
    BY DEF ListInv, Unit, UnitInv, Sealed, TaskInv
<1>3. TaskInv'
    BY DEF TaskInv, ListInv, RoundInv
<1>4. PoolInv'
    BY SMT DEF PoolInv, Label, MainLabel, WorkerLabel, OtherLabel
<1>5. ArgInv'
    BY DEF PoolInv, ArgInv
<1>6. UnitInv'
    <2>1. UNCHANGED <<made, srd_dir, srd_hashs>>
        OBVIOUS
    <2>2. condemned' \subseteq condemned \cup {srd_hashs[i] : i \in 1..Len(srd_hashs)}
        OBVIOUS
    <2>3. \A x \in Worker : pc'[x] = "made" => pc[x] = "made" /\ worker'[x] = worker[x]
        BY DEF PoolInv
    <2> QED BY <2>1, <2>2, <2>3, UnitFrame
<1>7. RoundInv'
    <2>1. InRound => InRound' /\ srd_hashs' = srd_hashs
        BY DEF InRound, PoolInv
    <2>2. del_srds' \in [{main, remover} -> SUBSET condemned']
        BY DEF RoundInv
    <2> QED BY <2>1, <2>2, RoundFrame
<1>8. BufferInv'
    BY SMT DEF BufferInv, BufferedIsCondemned, PoolInv, TaskInv, RoundInv
<1>9. HeldInv'
    <2>1. Doomed' \subseteq Doomed /\ srd_dir \ Doomed \subseteq srd_dir'
        BY DEF Doomed, RoundInv
    <2> QED BY <2>1, HeldFrame
<1>10. CountInv'
    <2>1. \A x \in Worker : pc'[x] = "count" <=> pc[x] = "count"
        BY SMT DEF PoolInv
    <2>2. \A x \in Worker : pc[x] = "count" => worker'[x].disk = worker[x].disk
        BY SMT DEF PoolInv
    <2>3. /\ Uncounted' = Uncounted
          /\ \A x \in Uncounted : worker'[x].disk = worker[x].disk
        BY <2>1, <2>2 DEF Uncounted
    <2> QED BY <2>3, CountFrame
<1> QED BY <1>1, <1>2, <1>3, <1>4, <1>5, <1>6, <1>7, <1>8, <1>9, <1>10

\* The pool ends with everything counted.
LEMMA app_srd_increase_endStep ==
    ASSUME SrdInv, app_srd_increase_end
    PROVE  SrdInv'
<1> USE Threads DEF SrdInv, app_srd_increase_end, PoolDone, At, Go,
        GoAndPublish, srdVars, validateVars, appVars, threadVars, envVars,
        ghostVars, roundVars
<1> DEFINE counted == {w \in Worker : pc[w] = "done" /\ worker[w].ok}
           left == arg[main] - Cardinality(counted)
<1>0. left \in Int
    <2>1. counted \in SUBSET Worker
        OBVIOUS
    <2>2. IsFiniteSet(counted)
        BY <2>1, FS_Subset
    <2>3. Cardinality(counted) \in Nat
        BY <2>2, FS_CardinalityType
    <2>4. arg[main] \in Int
        BY DEF ArgInv
    <2> QED BY <2>3, <2>4
<1>a. /\ arg' = [arg EXCEPT ![main] = left]
      /\ pc' = [p \in Proc |->
            IF p \in Worker THEN "idle"
            ELSE IF p = main
            THEN (IF left > 0 THEN "size" ELSE IF left_space THEN "exceed" ELSE "store")
            ELSE pc[p]]
      /\ worker' = [w \in Worker |-> [disk |-> 0, unit |-> <<>>, ok |-> FALSE]]
      /\ UNCHANGED <<pub, dump>>
    OBVIOUS
<1> HIDE DEF left
<1>b. /\ \A w \in Worker : pc'[w] = "idle"
      /\ pc'[main] \in {"size", "exceed", "store"}
      /\ pc'[client] = pc[client]
    BY <1>a
<1>1. NumInv'
    BY SrdAssumption DEF NumInv
<1>2. ListInv'
    BY DEF ListInv, Unit, UnitInv, Sealed, TaskInv
<1>3. TaskInv'
    BY DEF TaskInv, ListInv, RoundInv
<1>4. PoolInv'
    <2> HIDE DEF app_srd_increase_end
    <2>1. pc' \in [Proc -> Label]
        <3>1. {"idle", "size", "exceed", "store"} \subseteq Label
            BY DEF Label, MainLabel
        <3>2. \A p \in Proc : pc[p] \in Label
            BY DEF PoolInv
        <3> QED BY <1>a, <3>1, <3>2
    <2>2. [disk |-> 0, unit |-> <<>>, ok |-> FALSE] \in Task
        BY DEF Task
    <2>3. worker' \in [Worker -> Task]
        BY <1>a, <2>2
    <2> QED BY <1>a, <1>b, <2>1, <2>3 DEF PoolInv
<1>5. ArgInv'
    <2> HIDE DEF app_srd_increase_end
    <2>1. ArgInv /\ main \in {main, client}
        OBVIOUS
    <2>2. /\ arg' = [q \in {main, client} |-> arg'[q]]
          /\ arg'[main] = left
          /\ \A q \in {main, client} : q # main => arg'[q] = arg[q]
        BY <1>a, <2>1, ArgSet
    <2> QED BY <1>0, <1>b, <2>1, <2>2 DEF ArgInv
<1>6. UnitInv'
    BY SMT DEF UnitInv, Sealed, PoolInv, TaskInv
<1>7. RoundInv'
    <2>1. InRound => InRound' /\ srd_hashs' = srd_hashs
        BY DEF InRound, PoolInv
    <2>2. del_srds' \in [{main, remover} -> SUBSET condemned']
        BY DEF RoundInv
    <2> QED BY <2>1, <2>2, RoundFrame
<1>8. BufferInv'
    BY SMT DEF BufferInv, BufferedIsCondemned, PoolInv, TaskInv, RoundInv
<1>9. HeldInv'
    <2>1. Doomed' \subseteq Doomed /\ srd_dir \ Doomed \subseteq srd_dir'
        BY DEF Doomed, RoundInv
    <2> QED BY <2>1, HeldFrame
<1>10. CountInv'
    <2>1. \A x \in Worker : pc'[x] = "count" <=> pc[x] = "count"
        BY SMT DEF PoolInv
    <2>2. \A x \in Worker : pc[x] = "count" => worker'[x].disk = worker[x].disk
        BY SMT DEF PoolInv
    <2>3. /\ Uncounted' = Uncounted
          /\ \A x \in Uncounted : worker'[x].disk = worker[x].disk
        BY <2>1, <2>2 DEF Uncounted
    <2> QED BY <2>3, CountFrame
<1> QED BY <1>1, <1>2, <1>3, <1>4, <1>5, <1>6, <1>7, <1>8, <1>9, <1>10

\* srd_decrease_refused moves threads only.
LEMMA srd_decrease_refusedStep ==
    ASSUME SrdInv, srd_decrease, upgrade_status # "NONE"
    PROVE  SrdInv'
<1> USE Threads DEF SrdInv, srd_decrease, At, Go, GoAndPublish, srdVars,
        validateVars, appVars, threadVars, envVars, ghostVars, roundVars
<1>1. NumInv'
    BY SrdAssumption DEF NumInv, ArgInv
<1>2. PoolInv'
    BY SMT DEF PoolInv, NumInv, Label, MainLabel, WorkerLabel, OtherLabel
<1>3. ArgInv'
    BY SrdAssumption DEF PoolInv, NumInv, ListInv, ArgInv
<1>4. Still
    BY SMT DEF PoolInv, ArgInv, Still, NumInv
<1> QED BY <1>1, <1>2, <1>3, <1>4, StillKeeps

\* The buffer is emptied before the list is cut.
LEMMA srd_decrease_emptiedStep ==
    ASSUME SrdInv, srd_decrease, upgrade_status = "NONE"
    PROVE  SrdInv'
<1> USE Threads DEF SrdInv, srd_decrease, At, Go, GoAndPublish, srdVars,
        validateVars, appVars, threadVars, envVars, ghostVars, roundVars
<1>0. pc[main] \notin {"wait", "reset", "check"} /\ \A w \in Worker : pc'[w] = pc[w]
    BY SMT DEF PoolInv
<1>a. /\ srd_hashs' \in Seq(Unit)
      /\ \A k \in 1..Len(srd_hashs') : \E i \in 1..Len(srd_hashs) :
            i \notin srd_del_idx_s /\ srd_hashs'[k] = srd_hashs[i]
      /\ \A k, l \in 1..Len(srd_hashs') : srd_hashs'[k] = srd_hashs'[l] => k = l
      /\ srd_info' \in Info
      /\ CountInv'
    BY <1>0, EraseEffect
<1>b. ~InRound
    BY <1>0 DEF InRound
<1>1. NumInv'
    BY <1>a, SrdAssumption DEF NumInv, ArgInv
<1>2. ListInv'
    BY <1>a DEF ListInv
<1>3. TaskInv'
    BY <1>0, <1>a, <1>b DEF TaskInv, ListInv, RoundInv
<1>4. PoolInv'
    BY SMT DEF PoolInv, Label, MainLabel, WorkerLabel, OtherLabel
<1>5. ArgInv'
    BY DEF PoolInv, ArgInv
<1>6. UnitInv'
    <2>1. UNCHANGED <<made, srd_dir, condemned, worker>>
        OBVIOUS
    <2> HIDE DEF srd_decrease
    <2>2. \A k \in 1..Len(srd_hashs') : srd_hashs'[k] \in Sealed
        BY <1>a DEF UnitInv
    <2>3. \A w \in Worker : pc[w] # "made"
        BY <1>0 DEF PoolInv
    <2> QED BY <1>0, <1>a, <2>1, <2>2, <2>3 DEF UnitInv, Sealed
<1>7. RoundInv'
    <2>1. InRound => InRound' /\ srd_hashs' = srd_hashs
        BY <1>b
    <2>2. del_srds' \in [{main, remover} -> SUBSET condemned']
        BY DEF RoundInv
    <2> QED BY <2>1, <2>2, RoundFrame
<1>8. BufferInv'
    BY <1>0, <1>a, <1>b, SMT DEF BufferInv, BufferedIsCondemned, PoolInv,
        TaskInv, RoundInv
<1>9. HeldInv'
    <2>1. UNCHANGED <<srd_dir, task, g_del_srd_v, del_srds, overtaken>>
        OBVIOUS
    <2>2. Doomed' = Doomed
        BY <2>1 DEF Doomed
    <2> HIDE DEF srd_decrease
    <2> SUFFICES ASSUME ~overtaken, NEW k \in 1..Len(srd_hashs')
                 PROVE  Leaving(k)' \/ (srd_hashs'[k] \in srd_dir /\ srd_hashs'[k] \notin Doomed)
        BY <2>1, <2>2 DEF HeldInv
    <2>3. PICK i \in 1..Len(srd_hashs) : i \notin srd_del_idx_s /\ srd_hashs'[k] = srd_hashs[i]
        BY <1>a
    <2>4. Leaving(i) \/ (srd_hashs[i] \in srd_dir /\ srd_hashs[i] \notin Doomed)
        BY DEF HeldInv
    <2>5. Leaving(i) => Leaving(k)'
        BY <2>1, <2>3, LeavingMoves
    <2> QED BY <2>3, <2>4, <2>5
<1>10. CountInv'
    BY <1>a
<1> QED BY <1>1, <1>2, <1>3, <1>4, <1>5, <1>6, <1>7, <1>8, <1>9, <1>10

\* Either way srd_decrease keeps the invariant.
LEMMA srd_decreaseStep ==
    ASSUME SrdInv, srd_decrease
    PROVE  SrdInv'
BY srd_decrease_refusedStep, srd_decrease_emptiedStep

\* The number of units srd_decrease cuts off, and their indexes.
CutNumber == IF -arg[main] < Len(srd_hashs) THEN -arg[main] ELSE Len(srd_hashs)
Cut == (Len(srd_hashs) - CutNumber + 1)..Len(srd_hashs)
CutUnits == {srd_hashs[i] : i \in Cut}

\* With nothing to cut off srd_decrease_cut moves a thread only.
LEMMA srd_decrease_cut_noneStep ==
    ASSUME SrdInv, srd_decrease_cut, CutNumber = 0
    PROVE  SrdInv'
<1>0. /\ At(main, "cut") /\ Go(main, "decreased")
      /\ UNCHANGED <<srd_hashs, srd_info, del_srds, condemned, srd_del_idx_s,
                     g_srd_task, validateVars, appVars, arg, srd_dir, envVars,
                     made, overtaken>>
    BY DEF srd_decrease_cut, CutNumber, srdVars, validateVars, appVars,
        threadVars, envVars, ghostVars, roundVars
<1> USE Threads, <1>0 DEF SrdInv, At, Go, srdVars, validateVars, appVars,
        threadVars, envVars, ghostVars, roundVars
<1>1. NumInv'
    BY DEF NumInv
<1>2. PoolInv'
    BY SMT DEF PoolInv, Label, MainLabel, WorkerLabel, OtherLabel
<1>3. ArgInv'
    BY DEF PoolInv, ArgInv
<1>4. Still
    BY SMT DEF PoolInv, Still
<1> QED BY <1>1, <1>2, <1>3, <1>4, StillKeeps

\* The end of the list is cut with an empty buffer.
LEMMA srd_decrease_cut_someStep ==
    ASSUME SrdInv, srd_decrease_cut, CutNumber # 0
    PROVE  SrdInv'
<1> USE Threads DEF SrdInv, srd_decrease_cut, At, Go, GoAndPublish, srdVars,
        validateVars, appVars, threadVars, envVars, ghostVars, roundVars
<1>0. pc[main] \notin {"wait", "reset", "check"} /\ \A w \in Worker : pc'[w] = pc[w]
    BY SMT DEF PoolInv
<1>a. /\ srd_hashs' \in Seq(Unit)
      /\ \A k \in 1..Len(srd_hashs') : \E i \in 1..Len(srd_hashs) :
            i \notin Cut /\ srd_hashs'[k] = srd_hashs[i]
      /\ \A k, l \in 1..Len(srd_hashs') : srd_hashs'[k] = srd_hashs'[l] => k = l
      /\ srd_info' \in Info
      /\ CountInv'
    <2>1. Erase(Cut)
        BY DEF Cut, CutNumber
    <2> QED BY <1>0, <2>1, EraseEffect
<1>b. ~InRound
    BY <1>0 DEF InRound
<1>c. /\ condemned' = condemned \cup CutUnits
      /\ del_srds' = [del_srds EXCEPT ![main] = CutUnits]
      /\ pc[main] = "cut" /\ pc' = [pc EXCEPT ![main] = "erase"]
      /\ UNCHANGED <<made, srd_dir, worker, task, g_del_srd_v, g_validate_srd_m,
                     g_validate_srd_m_iter, overtaken, srd_del_idx_s>>
    BY DEF CutUnits, Cut, CutNumber
<1>d. CutUnits \subseteq Sealed
    <2>1. Len(srd_hashs) \in Nat /\ CutNumber \in 0..Len(srd_hashs)
        BY <1>c DEF ListInv, CutNumber, ArgInv
    <2> QED BY <2>1 DEF CutUnits, Cut, UnitInv
<1>1. NumInv'
    BY <1>a DEF NumInv
<1>2. ListInv'
    BY <1>a DEF ListInv
<1>3. TaskInv'
    BY <1>b, <1>c DEF TaskInv, RoundInv
<1>4. PoolInv'
    BY SMT DEF PoolInv, Label, MainLabel, WorkerLabel, OtherLabel
<1>5. ArgInv'
    BY <1>c DEF ArgInv, PoolInv
<1>6. UnitInv'
    <2> HIDE DEF srd_decrease_cut
    <2>2. \A k \in 1..Len(srd_hashs') : srd_hashs'[k] \in Sealed
        BY <1>a DEF UnitInv
    <2>3. \A w \in Worker : pc[w] # "made"
        BY <1>0 DEF PoolInv
    <2> QED BY <1>0, <1>a, <1>c, <1>d, <2>2, <2>3 DEF UnitInv, Sealed
<1>7. RoundInv'
    <2> HIDE DEF srd_decrease_cut
    <2>1. del_srds' \in [{main, remover} -> SUBSET condemned']
        BY <1>c DEF RoundInv
    <2> QED BY <1>b, <1>c, <2>1, RoundFrame
<1>8. BufferInv'
    <2> HIDE DEF srd_decrease_cut
    <2>1. pc'[main] = "erase"
        BY <1>c DEF PoolInv
    <2>2. ~overtaken => srd_del_idx_s = {}
        BY <1>c DEF BufferInv
    <2> QED BY <1>c, <2>1, <2>2 DEF BufferInv, BufferedIsCondemned
<1>9. HeldInv'
    <2> HIDE DEF srd_decrease_cut
    <2>1. Doomed' \subseteq Doomed \cup CutUnits
        BY <1>c DEF Doomed, RoundInv
    <2> SUFFICES ASSUME ~overtaken, NEW k \in 1..Len(srd_hashs')
                 PROVE  Leaving(k)' \/ (srd_hashs'[k] \in srd_dir /\ srd_hashs'[k] \notin Doomed')
        BY <1>c DEF HeldInv
    <2>2. PICK i \in 1..Len(srd_hashs) : i \notin Cut /\ srd_hashs'[k] = srd_hashs[i]
        BY <1>a
    <2>3. Leaving(i) \/ (srd_hashs[i] \in srd_dir /\ srd_hashs[i] \notin Doomed)
        BY DEF HeldInv
    <2>4. srd_del_idx_s = {}
        BY <1>c DEF BufferInv
    <2>5. Leaving(i) => Leaving(k)'
        BY <1>c, <2>2, <2>4, LeavingMoves
    <2>6. srd_hashs[i] \notin CutUnits
        <3>1. Len(srd_hashs) \in Nat /\ Cut \subseteq 1..Len(srd_hashs)
            BY <1>c DEF ListInv, Cut, CutNumber, ArgInv
        <3> QED BY <2>2, <3>1 DEF CutUnits, UnitInv
    <2> QED BY <2>1, <2>2, <2>3, <2>5, <2>6
<1>10. CountInv'
    BY <1>a
<1> QED BY <1>1, <1>2, <1>3, <1>4, <1>5, <1>6, <1>7, <1>8, <1>9, <1>10

\* Either way srd_decrease_cut keeps the invariant.
LEMMA srd_decrease_cutStep ==
    ASSUME SrdInv, srd_decrease_cut
    PROVE  SrdInv'
BY srd_decrease_cut_noneStep, srd_decrease_cut_someStep

\* The main loop deletes directories of units that left the list.
LEMMA delete_foldersMainStep ==
    ASSUME SrdInv, delete_folders(main, "decreased")
    PROVE  SrdInv'
<1> USE Threads DEF SrdInv, delete_folders, At, Go, GoAndPublish, srdVars,
        validateVars, appVars, threadVars, envVars, ghostVars, roundVars
<1>1. NumInv'
    BY SrdAssumption DEF NumInv
<1>2. ListInv'
    BY DEF ListInv, Unit, UnitInv, Sealed, TaskInv
<1>3. TaskInv'
    BY DEF TaskInv, ListInv, RoundInv
<1>4. PoolInv'
    BY SMT DEF PoolInv, Label, MainLabel, WorkerLabel, OtherLabel
<1>5. ArgInv'
    BY DEF PoolInv, ArgInv
<1>6. UnitInv'
    BY SMT DEF UnitInv, Sealed, PoolInv, TaskInv
<1>7. RoundInv'
    <2>1. InRound => InRound' /\ srd_hashs' = srd_hashs
        BY DEF InRound, PoolInv
    <2>2. del_srds' \in [{main, remover} -> SUBSET condemned']
        BY DEF RoundInv
    <2> QED BY <2>1, <2>2, RoundFrame
<1>8. BufferInv'
    BY SMT DEF BufferInv, BufferedIsCondemned, PoolInv, TaskInv, RoundInv
<1>9. HeldInv'
    <2>1. Doomed' \subseteq Doomed /\ srd_dir \ Doomed \subseteq srd_dir'
        BY DEF Doomed, RoundInv
    <2> QED BY <2>1, HeldFrame
<1>10. CountInv'
    <2>1. \A x \in Worker : pc'[x] = "count" <=> pc[x] = "count"
        BY SMT DEF PoolInv
    <2>2. \A x \in Worker : pc[x] = "count" => worker'[x].disk = worker[x].disk
        BY SMT DEF PoolInv
    <2>3. /\ Uncounted' = Uncounted
          /\ \A x \in Uncounted : worker'[x].disk = worker[x].disk
        BY <2>1, <2>2 DEF Uncounted
    <2> QED BY <2>3, CountFrame
<1> QED BY <1>1, <1>2, <1>3, <1>4, <1>5, <1>6, <1>7, <1>8, <1>9, <1>10

\* The remover deletes directories of units it buffered.
LEMMA delete_foldersRemoverStep ==
    ASSUME SrdInv, delete_folders(remover, "idle")
    PROVE  SrdInv'
<1> USE Threads DEF SrdInv, delete_folders, At, Go, GoAndPublish, srdVars,
        validateVars, appVars, threadVars, envVars, ghostVars, roundVars
<1>1. NumInv'
    BY SrdAssumption DEF NumInv
<1>2. ListInv'
    BY DEF ListInv, Unit, UnitInv, Sealed, TaskInv
<1>3. TaskInv'
    BY DEF TaskInv, ListInv, RoundInv
<1>4. PoolInv'
    BY SMT DEF PoolInv, Label, MainLabel, WorkerLabel, OtherLabel
<1>5. ArgInv'
    BY DEF PoolInv, ArgInv
<1>6. UnitInv'
    <2>1. /\ srd_dir' = srd_dir \ del_srds[remover] /\ pc[remover] = "erase"
          /\ UNCHANGED <<srd_hashs, condemned, worker, made>>
          /\ pc' = [pc EXCEPT ![remover] = "idle"]
        OBVIOUS
    <2>2. \A w \in Worker : pc'[w] = pc[w]
        BY <2>1 DEF PoolInv
    <2>3. del_srds[remover] \subseteq condemned
        BY DEF RoundInv
    <2> HIDE DEF delete_folders
    <2> QED BY <2>1, <2>2, <2>3 DEF UnitInv, Sealed
<1>7. RoundInv'
    <2>1. InRound => InRound' /\ srd_hashs' = srd_hashs
        BY DEF InRound, PoolInv
    <2>2. del_srds' \in [{main, remover} -> SUBSET condemned']
        BY DEF RoundInv
    <2> QED BY <2>1, <2>2, RoundFrame
<1>8. BufferInv'
    BY SMT DEF BufferInv, BufferedIsCondemned, PoolInv, TaskInv, RoundInv
<1>9. HeldInv'
    <2>1. Doomed' \subseteq Doomed /\ srd_dir \ Doomed \subseteq srd_dir'
        BY DEF Doomed, RoundInv
    <2> QED BY <2>1, HeldFrame
<1>10. CountInv'
    <2>1. \A x \in Worker : pc'[x] = "count" <=> pc[x] = "count"
        BY SMT DEF PoolInv
    <2>2. \A x \in Worker : pc[x] = "count" => worker'[x].disk = worker[x].disk
        BY SMT DEF PoolInv
    <2>3. /\ Uncounted' = Uncounted
          /\ \A x \in Uncounted : worker'[x].disk = worker[x].disk
        BY <2>1, <2>2 DEF Uncounted
    <2> QED BY <2>3, CountFrame
<1> QED BY <1>1, <1>2, <1>3, <1>4, <1>5, <1>6, <1>7, <1>8, <1>9, <1>10

\* What the remover finds is buffered and condemned in one step.
LEMMA srd_remove_spaceStep ==
    ASSUME SrdInv, srd_remove_space
    PROVE  SrdInv'
<1> USE Threads DEF SrdInv, srd_remove_space, At, Go, GoAndPublish, srdVars,
        validateVars, appVars, threadVars, envVars, ghostVars, roundVars
<1> DEFINE found == UNION {LastOn(d, del_json[d]) : d \in Disk}
           units == {srd_hashs[i] : i \in found}
<1>0. /\ pc[remover] = "remove" /\ pc' = [pc EXCEPT ![remover] = "erase"] /\ pc[main] # "cut"
      /\ srd_del_idx_s' = srd_del_idx_s \cup found
      /\ del_srds' = [del_srds EXCEPT ![remover] = units]
      /\ condemned' = condemned \cup units
      /\ UNCHANGED <<srd_hashs, srd_dir, worker, made, overtaken, g_del_srd_v, task>>
    BY DEF SrdLocked
<1>a. found \subseteq 1..Len(srd_hashs) /\ Len(srd_hashs) \in Nat
    <2>1. \A d \in Disk : LastOn(d, del_json[d]) \subseteq 1..Len(srd_hashs)
        BY DEF LastOn, Held, OnDisk
    <2>2. Len(srd_hashs) \in Nat
        BY DEF ListInv
    <2> QED BY <2>1, <2>2
<1>b. /\ \A w \in Worker : pc'[w] = pc[w]
      /\ pc'[main] = pc[main]
    BY <1>0 DEF PoolInv
<1> HIDE DEF found
<1>1. NumInv'
    BY SrdAssumption DEF NumInv
<1>2. ListInv'
    <2> HIDE DEF srd_remove_space
    <2>1. found \subseteq Nat \ {0}
        BY <1>a
    <2> QED BY <1>0, <2>1 DEF ListInv
<1>3. TaskInv'
    BY DEF TaskInv, ListInv, RoundInv
<1>4. PoolInv'
    BY SMT DEF PoolInv, Label, MainLabel, WorkerLabel, OtherLabel
<1>5. ArgInv'
    BY DEF PoolInv, ArgInv
<1>6. UnitInv'
    <2> HIDE DEF srd_remove_space
    <2>1. units \subseteq Sealed
        BY <1>a DEF UnitInv
    <2>2. ASSUME NEW w \in Worker, pc[w] = "made" PROVE worker[w].unit \notin units
        BY <1>a, <2>2 DEF UnitInv
    <2>3. /\ UNCHANGED <<made, srd_dir, srd_hashs, worker>> /\ condemned' = condemned \cup units
          /\ \A w \in Worker : pc'[w] = pc[w]
        BY <1>0, <1>b
    <2> HIDE DEF units, SrdInv
    <2> QED BY <2>1, <2>2, <2>3 DEF SrdInv, UnitInv, Sealed
<1>7. RoundInv'
    <2>1. InRound => InRound' /\ srd_hashs' = srd_hashs
        BY <1>0, <1>b DEF InRound
    <2>2. del_srds' \in [{main, remover} -> SUBSET condemned']
        BY <1>0 DEF RoundInv
    <2> QED BY <1>0, <2>1, <2>2, RoundFrame
<1>8. BufferInv'
    <2> HIDE DEF srd_remove_space
    <2>1. ASSUME ~overtaken, NEW i \in srd_del_idx_s'
          PROVE  i <= Len(srd_hashs) /\ srd_hashs[i] \in condemned'
        <3>1. CASE i \in srd_del_idx_s
            BY <1>0, <2>1, <3>1 DEF BufferInv, BufferedIsCondemned
        <3>2. CASE i \in found
            BY <1>0, <1>a, <3>2
        <3> QED BY <1>0, <3>1, <3>2
    <2> QED BY <1>0, <1>b, <2>1 DEF BufferInv, BufferedIsCondemned
<1>9. HeldInv'
    <2> HIDE DEF srd_remove_space
    <2> SUFFICES ASSUME ~overtaken, NEW i \in 1..Len(srd_hashs), ~Leaving(i)'
                 PROVE  srd_hashs[i] \in srd_dir /\ srd_hashs[i] \notin Doomed'
        BY <1>0 DEF HeldInv
    <2>1. i \notin found /\ ~Leaving(i)
        BY <1>0 DEF Leaving, TaskAt
    <2>2. srd_hashs[i] \in srd_dir /\ srd_hashs[i] \notin Doomed
        BY <2>1 DEF HeldInv
    <2>3. srd_hashs[i] \notin units
        <3> SUFFICES ASSUME NEW j \in found, srd_hashs[i] = srd_hashs[j] PROVE FALSE
            OBVIOUS
        <3>1. i = j
            BY <1>a DEF UnitInv
        <3> QED BY <2>1, <3>1
    <2>4. del_srds'[main] = del_srds[main] /\ del_srds'[remover] = units
        BY <1>0 DEF RoundInv
    <2> HIDE DEF units
    <2> QED BY <1>0, <2>2, <2>3, <2>4 DEF Doomed
<1>10. CountInv'
    <2>1. \A x \in Worker : pc'[x] = "count" <=> pc[x] = "count"
        BY SMT DEF PoolInv
    <2>2. \A x \in Worker : pc[x] = "count" => worker'[x].disk = worker[x].disk
        BY SMT DEF PoolInv
    <2>3. /\ Uncounted' = Uncounted
          /\ \A x \in Uncounted : worker'[x].disk = worker[x].disk
        BY <2>1, <2>2 DEF Uncounted
    <2> QED BY <2>3, CountFrame
<1> QED BY <1>1, <1>2, <1>3, <1>4, <1>5, <1>6, <1>7, <1>8, <1>9, <1>10


-----------------------------------------------------------------------------
(* The initial states, and every step. *)

\* restore_srd leaves exact statistics of a list whose directories are there.
LEMMA InitInv ==
    ASSUME SrdInit
    PROVE  SrdInv
<1> USE Threads DEF SrdInit
<1>1. /\ Already \in Seq(Unit) /\ Len(Already) \in Nat
      /\ \A i \in 1..Len(Already) : Already[i] \in Disk \X Nat /\ Already[i][2] = i
    <2>1. Already \in Seq(Disk \X Nat) /\ \A i \in 1..Len(Already) : Already[i][2] = i
        BY SrdAssumption
    <2> HIDE DEF SrdInit
    <2> QED BY <2>1 DEF Unit
<1>2. \A i \in 1..Len(Already) : Already[i] \in Disk \X (1..Len(Already))
    <2> SUFFICES ASSUME NEW i \in 1..Len(Already)
                 PROVE  Already[i] \in Disk \X (1..Len(Already))
        OBVIOUS
    <2>1. Already[i] \in Disk \X Nat /\ Already[i][2] = i
        BY <1>1
    <2> QED BY <2>1
<1>3. ASSUME NEW d \in Disk
      PROVE  Cardinality(OnDisk(Already, 1..Len(Already), d)) \in Nat
    <2>1. IsFiniteSet(1..Len(Already))
        BY <1>1, IndexCount
    <2>2. OnDisk(Already, 1..Len(Already), d) \in SUBSET (1..Len(Already))
        BY DEF OnDisk
    <2>3. IsFiniteSet(OnDisk(Already, 1..Len(Already), d))
        BY <2>1, <2>2, FS_Subset
    <2> QED BY <2>3, FS_CardinalityType
<1>4. /\ Restored \in Info
      /\ Restored.complete = Len(Already)
      /\ \A d \in Disk : Restored.detail[d] = Cardinality(OnDisk(Already, 1..Len(Already), d))
    <2> DEFINE detail == [d \in Disk |-> Cardinality(OnDisk(Already, 1..Len(Already), d))]
    <2>1. /\ detail \in [Disk -> Int]
          /\ \A d \in Disk : detail[d] = Cardinality(OnDisk(Already, 1..Len(Already), d))
        BY <1>3
    <2>2. Restored = [NoInfo EXCEPT !.complete = Len(Already), !.detail = detail]
        BY DEF Restored
    <2> HIDE DEF detail
    <2>3. Restored = [complete |-> Len(Already), remaining |-> 0, detail |-> detail]
        BY <2>2 DEF NoInfo
    <2> QED BY <1>1, <2>1, <2>3 DEF Info
<1>5. NoInfo \in Info
    BY DEF NoInfo, Info
<1>6. [disk |-> 0, unit |-> <<>>, ok |-> FALSE] \in Task
    BY DEF Task
<1>7. NumInv
    BY <1>4, SrdAssumption DEF NumInv
<1>8. ListInv
    BY <1>1 DEF ListInv, Units, Unit
<1>9. TaskInv
    BY DEF TaskInv
<1>10. PoolInv
    BY <1>5, <1>6 DEF PoolInv, Label, MainLabel
<1>11. ArgInv
    BY DEF ArgInv
<1>12. UnitInv
    BY <1>1, <1>2 DEF UnitInv, Sealed, Units
<1>13. RoundInv
    <2>1. NoTask \in CheckTask
        BY DEF NoTask, CheckTask
    <2>2. \A c \in Checker : task[c] = NoTask
        OBVIOUS
    <2>3. \A c \in Checker : EntryInv(c)
        BY <2>2 DEF EntryInv, HasEntry, NoTask
    <2> QED BY <2>1, <2>3 DEF RoundInv
<1>14. BufferInv
    BY DEF BufferInv, BufferedIsCondemned
<1>15. HeldInv
    BY DEF HeldInv, Doomed, Units
<1>16. CountInv
    <2>1. Uncounted = {}
        BY DEF Uncounted
    <2>2. \A d \in Disk : UncountedOn(d) = {}
        BY <2>1 DEF UncountedOn
    <2>3. /\ Cardinality(Uncounted) = 0
          /\ \A d \in Disk : Cardinality(UncountedOn(d)) = 0
        BY <2>1, <2>2, FS_EmptySet
    <2>4. \A d \in Disk : Held(d) = OnDisk(Already, 1..Len(Already), d)
        BY DEF Held
    <2>5. /\ srd_info.complete \in Nat
          /\ srd_info.complete = Len(srd_hashs) - Cardinality(Uncounted)
        BY <1>1, <1>4, <2>3
    <2>6. \A d \in Disk : srd_info.detail[d] =
              Cardinality(Held(d)) - Cardinality(UncountedOn(d))
        BY <1>3, <1>4, <2>3, <2>4
    <2> QED BY <2>5, <2>6, CountInvMeans
<1> QED BY <1>7, <1>8, <1>9, <1>10, <1>11, <1>12, <1>13, <1>14, <1>15, <1>16 DEF
        SrdInv

\* Every step of SrdNext keeps the invariant.
LEMMA NextInv ==
    ASSUME SrdInv, [SrdNext]_allVars
    PROVE  SrdInv'
<1>1. CASE Validate
    BY <1>1, ecall_main_loopStep, validate_srdStep, validate_srd_queueStep,
       recall_failedStep, recall_failed_past_the_endStep, EndRoundStep,
       deal_deleted_srdStep
    DEF Validate, validate_srd_complete, validate_srd_timeout
<1>0. CASE \E c \in Checker : Check(c)
    BY <1>0, validate_srd_realStep, take_entryStep, take_past_the_endStep,
       read_unitStep, look_at_randomStep, count_taskStep, push_unitStep,
       add_srd_to_deleted_bufferStep
    DEF Check
<1>2. CASE Change
    BY <1>2, srd_change_skipStep, srd_changeStep, app_srd_increaseStep,
       app_srd_increase_endStep, srd_decreaseStep, srd_decrease_cutStep,
       delete_foldersMainStep, app_srd_decrease_endStep, srd_change_exceedStep,
       srd_change_storeStep
    DEF Change
<1>3. CASE \E w \in Worker : Increase(w)
    BY <1>3, srd_increaseStep, srd_increase_leakStep, srd_increase_addStep,
       srd_increase_countStep, decrease_running_srd_taskStep
    DEF Increase
<1>4. CASE \E p \in {main, client} : change_srd_task(p)
    BY <1>4, change_srd_task_refusedStep, change_srd_task_lessStep,
       change_srd_task_sizeStep, change_srd_task_limitStep, change_srd_task_addStep
    DEF change_srd_task
<1>5. CASE RemoveSpace
    BY <1>5, srd_check_reservedStep, srd_remove_space_refusedStep,
       srd_remove_spaceStep, srd_remove_space_overrunStep, delete_foldersRemoverStep
    DEF RemoveSpace
<1>6. CASE \E p \in Proc : get_srd_info(p) \/ ocall_set_srd_info(p)
    BY <1>6, get_srd_infoStep, ocall_set_srd_infoStep
<1>7. CASE Environment
    BY <1>7, api_srd_changeStep, report_reset_validated_proofStep, use_diskStep,
       set_upgrade_statusStep
    DEF Environment
<1>8. CASE UNCHANGED allVars
    <2> USE <1>8 DEF SrdInv, allVars, srdVars, validateVars, appVars, threadVars,
                     envVars, ghostVars, roundVars
    <2>1. NumInv' /\ PoolInv' /\ ArgInv'
        BY DEF NumInv, PoolInv, ArgInv
    <2>2. Still
        BY DEF Still
    <2> QED BY <2>1, <2>2, StillKeeps
<1> QED BY <1>0, <1>1, <1>2, <1>3, <1>4, <1>5, <1>6, <1>7, <1>8 DEF SrdNext

-----------------------------------------------------------------------------
(* The theorems. *)

\* SrdInv is an invariant of the srd threads.
THEOREM SrdInvariant == SrdSpec => []SrdInv
<1>1. SrdInit => SrdInv
    BY InitInv
<1>2. SrdInv /\ [SrdNext]_allVars => SrdInv'
    BY NextInv
<1> QED BY <1>1, <1>2, PTL DEF SrdSpec

\* validate_srd looks only at indexes srd_hashs has and finds there the unit it
\* drew, and app_srd_increase never runs more tasks than a turn may have.
THEOREM SrdTypes == SrdSpec => []SrdTypeOK
<1>1. SrdInv => SrdTypeOK
    BY DEF SrdInv, NumInv, ListInv, TaskInv, SrdTypeOK
<1> QED BY <1>1, SrdInvariant, PTL

\* While no task of validate_srd_real buffers an index or hands in a verdict
\* after its round, srd_del_idx_s points at units that were found bad or
\* removed on purpose, whichever rounds time out.
THEOREM BufferedAlwaysCondemned == SrdSpec => []BufferedIsCondemned
<1>1. SrdInv => BufferedIsCondemned
    BY DEF SrdInv, BufferInv
<1> QED BY <1>1, SrdInvariant, PTL

\* While no task of validate_srd_real buffers an index or hands in a verdict
\* after its round, a unit of srd_hashs that is not about to leave it has its
\* directory on the disk.
THEOREM HeldAlwaysThere == SrdSpec => []HeldIsThere
<1>1. SrdInv => HeldIsThere
    BY DEF SrdInv, HeldInv, HeldIsThere, Leaving
<1> QED BY <1>1, SrdInvariant, PTL

\* set_srd_info keeps the statistics equal to the list, in all and for every
\* disk, up to the units srd_increase has pushed and not counted yet.
THEOREM InfoAlwaysExact == SrdSpec => []InfoExact
<1>1. SrdInv => InfoExact
    BY DEF SrdInv, CountInv
<1> QED BY <1>1, SrdInvariant, PTL

-----------------------------------------------------------------------------
(* What a step may drop. *)

\* As long as no task used its entry after its round, deal_deleted_srd and
\* srd_decrease take only units out of the list that were found bad or that
\* were to be removed.
InTimeOnlyInvalidIsDropped ==
    [][~overtaken => Units(srd_hashs) \ Units(srd_hashs') \subseteq condemned']_allVars

\* Erasing indexes drops the units that are there, and no other.
LEMMA ErasedOnly ==
    ASSUME srd_hashs \in Seq(Unit), NEW I, Erase(I)
    PROVE  \A u \in Units(srd_hashs) \ Units(srd_hashs') :
              \E i \in 1..Len(srd_hashs) \cap I : srd_hashs[i] = u
<1> DEFINE kept == 1..Len(srd_hashs) \ I
<1>1. Moved(srd_hashs, kept, srd_hashs')
    BY Compacted DEF Erase
<1>2. ASSUME NEW i \in kept PROVE srd_hashs[i] \in Units(srd_hashs')
    <2>1. PICK k \in 1..Len(srd_hashs') : Nth(kept, k) = i
        BY <1>1 DEF Moved
    <2>2. srd_hashs'[k] = srd_hashs[i]
        BY <1>1, <2>1 DEF Moved
    <2> QED BY <2>2 DEF Units
<1> QED BY <1>2 DEF Units

\* While no task of validate_srd_real used its entry after its round, a unit
\* leaves srd_hashs only after it was condemned: a failed check, the remover or
\* srd_decrease named that very unit.
THEOREM InTimeDropsInvalid == SrdSpec => InTimeOnlyInvalidIsDropped
<1> USE DEF allVars, srdVars, validateVars, appVars, threadVars, envVars, ghostVars, roundVars
<1> DEFINE Dropped == Units(srd_hashs) \ Units(srd_hashs')
<1>1. ASSUME SrdInv, ~overtaken, Erase(srd_del_idx_s), condemned' = condemned
      PROVE  Dropped \subseteq condemned'
    <2>1. srd_hashs \in Seq(Unit)
        BY <1>1 DEF SrdInv, ListInv
    <2>2. \A i \in srd_del_idx_s : srd_hashs[i] \in condemned
        BY <1>1 DEF SrdInv, BufferInv, BufferedIsCondemned
    <2>3. \A u \in Dropped : \E i \in 1..Len(srd_hashs) \cap srd_del_idx_s : srd_hashs[i] = u
        BY <1>1, <2>1, ErasedOnly
    <2> QED BY <1>1, <2>2, <2>3
<1>2. ASSUME SrdInv, srd_decrease_cut PROVE Dropped \subseteq condemned'
    <2>1. CASE CutNumber = 0
        BY <1>2, <2>1 DEF srd_decrease_cut, CutNumber
    <2>2. CASE CutNumber # 0
        <3>1. Erase(Cut) /\ condemned' = condemned \cup CutUnits
            BY <1>2, <2>2 DEF srd_decrease_cut, CutNumber, Cut, CutUnits
        <3>2. srd_hashs \in Seq(Unit)
            BY <1>2 DEF SrdInv, ListInv
        <3>3. \A u \in Dropped : \E i \in 1..Len(srd_hashs) \cap Cut : srd_hashs[i] = u
            BY <3>1, <3>2, ErasedOnly
        <3> QED BY <3>1, <3>3 DEF CutUnits
    <2> QED BY <2>1, <2>2
<1>3. ASSUME SrdInv, NEW w \in Worker, srd_increase_add(w) PROVE Dropped = {}
    <2>1. /\ srd_hashs \in Seq(Unit)
          /\ worker[w].unit \in Unit
          /\ srd_hashs' = Append(srd_hashs, worker[w].unit)
        BY <1>3 DEF SrdInv, ListInv, UnitInv, srd_increase_add, At
    <2>2. Len(srd_hashs') = Len(srd_hashs) + 1 /\ Len(srd_hashs) \in Nat
          /\ \A i \in 1..Len(srd_hashs) : srd_hashs'[i] = srd_hashs[i]
        BY <2>1
    <2> QED BY <2>2 DEF Units
<1>4. ASSUME Validate
      PROVE  srd_hashs' = srd_hashs \/ (Erase(srd_del_idx_s) /\ condemned' = condemned)
    BY <1>4 DEF Validate, ecall_main_loop, validate_srd, validate_srd_queue,
       recall_failed, recall_failed_past_the_end, PastTheEnd,
       validate_srd_complete, validate_srd_timeout, EndRound, deal_deleted_srd
<1>0. ASSUME NEW c, Check(c) PROVE srd_hashs' = srd_hashs
    BY <1>0 DEF Check, validate_srd_real, take_entry, take_past_the_end,
       PastTheEnd, read_unit, look_at_random, count_task, push_unit,
       add_srd_to_deleted_buffer
<1>5. ASSUME Change
      PROVE  \/ srd_hashs' = srd_hashs
             \/ Erase(srd_del_idx_s) /\ condemned' = condemned
             \/ srd_decrease_cut
    BY <1>5 DEF Change, srd_change_skip, srd_change, app_srd_increase,
       app_srd_increase_end, srd_decrease, delete_folders, app_srd_decrease_end,
       srd_change_exceed, srd_change_store
<1>6. ASSUME NEW w \in Worker, Increase(w)
      PROVE  srd_hashs' = srd_hashs \/ srd_increase_add(w)
    BY <1>6 DEF Increase, srd_increase, srd_increase_leak, srd_increase_count,
       decrease_running_srd_task
<1>7. ASSUME NEW p, change_srd_task(p) PROVE srd_hashs' = srd_hashs
    BY <1>7 DEF change_srd_task, change_srd_task_refused, change_srd_task_less,
       change_srd_task_size, change_srd_task_limit, change_srd_task_add
<1>8. ASSUME RemoveSpace \/ Environment PROVE srd_hashs' = srd_hashs
    BY <1>8 DEF RemoveSpace, srd_check_reserved, srd_remove_space_refused,
       srd_remove_space, srd_remove_space_overrun, delete_folders, Environment,
       api_srd_change, report_reset_validated_proof, use_disk, set_upgrade_status
<1>9. ASSUME NEW p, get_srd_info(p) \/ ocall_set_srd_info(p) PROVE srd_hashs' = srd_hashs
    BY <1>9 DEF get_srd_info, ocall_set_srd_info
<1>10. ASSUME SrdInv, ~overtaken, [SrdNext]_allVars PROVE Dropped \subseteq condemned'
    <2>1. srd_hashs' = srd_hashs => Dropped = {}
        OBVIOUS
    <2>2. CASE UNCHANGED allVars
        BY <2>1, <2>2
    <2>3. CASE SrdNext
        BY <1>0, <1>1, <1>2, <1>3, <1>4, <1>5, <1>6, <1>7, <1>8, <1>9, <1>10, <2>1, <2>3
        DEF SrdNext
    <2> QED BY <1>10, <2>2, <2>3
<1> QED BY <1>10, SrdInvariant, PTL DEF SrdSpec, InTimeOnlyInvalidIsDropped

=============================================================================
